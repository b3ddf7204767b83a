----------------------------- MODULE BftRestart -----------------------------
(***************************************************************************)
(* A cluster whose nodes crash and start again.  What a node has sent to   *)
(* others may still arrive, and what others sent to it is lost with its    *)
(* connections.  Nothing else outlives the process: SnapshotStore::save    *)
(* fails on every snapshot of a node that started without a file (Replica, *)
(* DiskOnlyGrows), and lock, round and votes are in no snapshot anyway.    *)
(***************************************************************************)
EXTENDS MCBftCluster

CONSTANT MaxRestarts   \* bound on restarts

VARIABLES
    gone,      \* the messages that were sent before the node's last restart
    restarts   \* restarts so far

rvars == <<node, gone, restarts>>

RInit ==
    /\ Init /\ ~SlashingEnabled
    /\ gone = [i \in Validators |-> {}]
    /\ restarts = 0

\* Receive, on the connections of the running process.
ReceiveSince(i) ==
    \E j \in Validators \ {i} :
        /\ <<j, i>> \in Links
        /\ \E m \in node[j].sent \ gone[i] :
              (AlreadyHandled(node[i], m) => m.type = "precommit") /\ Handle(i, m)

RunStep(i) ==
    /\ \/ Propose(i)
       \/ ReceiveSince(i)
       \/ ProposeTimeout(i)
       \/ PrevoteTimeout(i)
       \/ PrecommitTimeout(i)
    /\ UNCHANGED <<gone, restarts>>

\* The process ends at any time, and restore_from_store finds no file.
Restart(i) ==
    /\ restarts < MaxRestarts
    /\ restarts' = restarts + 1
    /\ gone' = [gone EXCEPT ![i] = Sent]
    /\ Step(i, [InitNode EXCEPT !.sent = node[i].sent])

RNext == \E i \in Validators : RunStep(i) \/ Restart(i)

RSpec == RInit /\ [][RNext]_rvars
=============================================================================
