SPECIFICATION Spec
CONSTANTS
    a = a
    b = b
    Nodes = {a, b}
    None = None
    Dead = Dead
    MaxMessages = 1
    MaxBreaks = 1
    MaxRestarts = 2
CHECK_DEADLOCK FALSE
INVARIANT LostForGood
PROPERTIES ImplementsChannel EveryoneConnects QueuedArrives
