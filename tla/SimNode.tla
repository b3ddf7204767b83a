------------------------------ MODULE SimNode -------------------------------
(***************************************************************************)
(* One node of the gossip simulator (cpp-sim/core/node.hpp), which drives  *)
(* the ledger, the validator and the Sybil overlay through the C interface *)
(* (ffi.rs).  The bus may deliver every event at any tick, in any order    *)
(* and more than once: the timestamp of an event says nothing of the tick, *)
(* as the simulators add what they like to it.                             *)
(***************************************************************************)
EXTENDS TraceCheck

CONSTANTS
    MaxPending,     \* MAX_PENDING_TOTAL
    MaxDrain,       \* MAX_DRAIN_STEPS
    MaxSeen,        \* MAX_SEEN
    MaxSteps,       \* max_steps of the walks of preferred_tip
    MaxTick         \* bound on the clock

\* There are finitely many hashes.  The two limits of the pool are equal in the code.
ASSUME SimAssumption ==
    /\ IsFiniteSet(Events)
    /\ MaxPending \in Nat /\ MaxDrain \in Nat /\ MaxPending <= MaxDrain
    /\ MaxSteps \in Nat

VARIABLES
    node,       \* the node, a record (NewNode)
    tick,       \* the clock of the simulation
    received    \* history: the events delivered so far

vars == <<node, tick, received>>

\* NodeRuntime(): dropped records the messages the full pool turned away, and
\* ticks the tick of each trace row.
NewNode ==
    [ledger |-> EmptyLedger, ctx |-> NewContext, overlay |-> NoAuthors,
     trace |-> <<>>, ticks |-> <<>>, seen |-> {},
     pending |-> [p \in Events |-> <<>>], total |-> 0, dropped |-> {}]

-----------------------------------------------------------------------------
(* The calls through the C interface. *)

\* dvel_validate_event: the context is written back when the event is valid.
ValidateEvent(n, e) == IF Valid(n.ctx, e) THEN [n EXCEPT !.ctx = Touch(@, e)] ELSE n

\* dvel_ledger_link_event
LinkEvent(n, e) == [n EXCEPT !.ledger = TryAddEvent(@, e)]

\* dvel_sybil_overlay_observe_event: an event the ledger does not hold is
\* ignored.  A recorder is attached.
ObserveEvent(n, e) ==
    IF e \notin n.ledger.events THEN n
    ELSE LET st == Observe(n.ledger, StateOf(n.overlay, Author[e], tick), tick, "self", e)
             overlay == [a \in DOMAIN n.overlay \cup {Author[e]} |->
                            IF a = Author[e] THEN st ELSE n.overlay[a]]
         IN  [n EXCEPT !.overlay = overlay,
                       !.trace = Append(@, TraceRow(n.ledger, n.overlay, overlay, tick, e)),
                       !.ticks = Append(@, tick)]

\* dvel_select_preferred_tip, for both policies, and the Sybil variant, over the
\* tips in the given order.
PreferredUnit(n, order) == SelectTip(order, UnitScores(n.ledger, MaxSteps))
PreferredLatest(n, order) == SelectTip(order, LatestScores(n.ledger, MaxSteps))
PreferredSybil(n, order) == SelectTip(order, SybilScores(n.ledger, n.overlay, tick, MaxSteps))

-----------------------------------------------------------------------------
\* Defective QueuePending: the bucket of a parent holds one child.
QueueOne(n, e) ==
    IF n.total >= MaxPending THEN [n EXCEPT !.dropped = @ \cup {e}]
    ELSE [n EXCEPT !.pending[Prev[e]] = <<e>>, !.total = @ + 1]

\* queue_pending_: the newest message is dropped when the pool is full.
QueuePending(n, e) ==
    IF n.total >= MaxPending THEN [n EXCEPT !.dropped = @ \cup {e}]
    ELSE [n EXCEPT !.pending[Prev[e]] = Append(@, e), !.total = @ + 1]

\* drain_pending_for_parent_, up to its loop: the bucket is taken out of the pool.
\* A drain is the node and its work, the messages still held outside of the pool
\* by this call and by those it returns to; a bucket's messages after the first
\* MaxDrain are to be put back.
TakeBucket(n, parent, work) ==
    LET bucket == n.pending[parent]
    IN  [node |-> [n EXCEPT !.pending[parent] = <<>>,
                            !.total = IF Len(bucket) > @ THEN 0 ELSE @ - Len(bucket)],
         work |-> [k \in DOMAIN bucket |-> [event |-> bucket[k], back |-> k > MaxDrain]] \o work]

\* Defective DrainChild: an event that was linked before is observed again.
DrainDuplicate(d) ==
    LET e == Head(d.work).event
        v == ValidateEvent(d.node, e)
    IN  IF LinkResult(v.ledger, e) = "MissingParent"
        THEN [node |-> QueuePending(v, e), work |-> Tail(d.work)]
        ELSE TakeBucket(ObserveEvent(LinkEvent(v, e), e), e, Tail(d.work))

\* One child of a bucket: put back, or validated again, linked and observed, with
\* its own children drained before its next sibling.
DrainChild(d) ==
    LET n == d.node
        e == Head(d.work).event
        v == ValidateEvent(n, e)
        result == LinkResult(v.ledger, e)
        next(m) == [node |-> m, work |-> Tail(d.work)]
    IN  IF Head(d.work).back THEN next(QueuePending(n, e))
        ELSE IF ~Valid(n.ctx, e) \/ result = "Duplicate" THEN next(v)
        ELSE IF result = "MissingParent" THEN next(QueuePending(v, e))
        ELSE IF e \in n.seen THEN next(LinkEvent(v, e))
        ELSE TakeBucket(ObserveEvent(LinkEvent(v, e), e), e, Tail(d.work))

\* drain_pending_for_parent_.  A message leaves the pool at most once in a drain,
\* as its parent is linked once, so that MaxPending turns are enough.
DrainPending(n, parent) ==
    LET drain[k \in 0 .. MaxPending] ==
            IF k = 0 THEN TakeBucket(n, parent, <<>>)
            ELSE IF drain[k - 1].work = <<>> THEN drain[k - 1] ELSE DrainChild(drain[k - 1])
    IN  drain[MaxPending].node

Remember(n, e) ==
    [n EXCEPT !.seen = IF Cardinality(@ \cup {e}) > MaxSeen THEN {} ELSE @ \cup {e}]

\* Defective Accept: children waiting for the event are left waiting.
AcceptWithoutDrain(n, e) ==
    LET v == ValidateEvent(n, e)
    IN  IF e \in n.seen \/ ~Valid(n.ctx, e) THEN n
        ELSE IF LinkResult(v.ledger, e) = "MissingParent" THEN QueuePending(v, e)
        ELSE IF LinkResult(v.ledger, e) = "Duplicate" THEN v
        ELSE Remember(ObserveEvent(LinkEvent(v, e), e), e)

\* accept_or_queue_
Accept(n, e) ==
    LET v == ValidateEvent(n, e)
        result == LinkResult(v.ledger, e)
    IN  IF e \in n.seen \/ ~Valid(n.ctx, e) THEN n
        ELSE IF result = "Duplicate" THEN v
        ELSE IF result = "MissingParent" THEN QueuePending(v, e)
        ELSE DrainPending(Remember(ObserveEvent(LinkEvent(v, e), e), e), e)

-----------------------------------------------------------------------------
Init ==
    /\ node = NewNode
    /\ tick = 0
    /\ received = {}

\* process_inbox takes the messages one by one; local_append is the same step.
Deliver(e) ==
    /\ node' = Accept(node, e)
    /\ received' = received \cup {e}
    /\ UNCHANGED tick

Tick ==
    /\ tick < MaxTick
    /\ tick' = tick + 1
    /\ UNCHANGED <<node, received>>

Next == Tick \/ \E e \in Events : Deliver(e)

Spec == Init /\ [][Next]_vars
-----------------------------------------------------------------------------
Pooled(n) == UNION {ToSet(n.pending[p]) : p \in Events}

\* The ancestors of an event, itself included: what is in every set that holds
\* the event and the parents of its members.
Ancestry ==
    [e \in Events |->
        {d \in Events : \A S \in SUBSET Events :
            e \in S /\ (\A x \in S : HasParent(S, x)) => d \in S}]

\* Gossip order does not matter: the ledger holds exactly the valid events that
\* arrived with their whole ancestry, except for what hangs on a message the full
\* pool turned away and nobody sent again, and its tips are the childless ones
\* (accept_or_queue_, queue_pending_ and drain_pending_for_parent_ together).
LedgerIndependentOfOrder ==
    LET lost == node.dropped \ (node.ledger.events \cup Pooled(node))
        kept == received \ (Forged \cup lost)
    IN  /\ node.ledger.events = {e \in kept : Ancestry[e] \subseteq kept}
        /\ node.ledger.tips = Childless(node.ledger.events)

\* Nobody waits for a parent that is there: after every message the buckets of
\* linked events are empty, and pending_total_ counts the messages that wait, at
\* most MAX_PENDING_TOTAL of them.
NoneWaitsForLinked ==
    /\ \A p \in node.ledger.events : node.pending[p] = <<>>
    /\ node.total = MapThenSumSet(LAMBDA p : Len(node.pending[p]), Events)
    /\ node.total <= MaxPending

\* Every linked event was observed exactly once, after its parent, so that the
\* trace is the ledger (observe_event is called on both link paths).
TraceIsLedger ==
    /\ Len(node.trace) = Cardinality(node.ledger.events)
    /\ {node.trace[k].event : k \in DOMAIN node.trace} = node.ledger.events
    /\ \A k \in DOMAIN node.trace : node.trace[k].parentPresent

\* Forks are caught though only the last tip is compared: an author two of whose
\* events lie on different branches has been quarantined, and one who has been
\* has such events, or two that are further apart than the walk
\* (observe_event, is_ancestor_by_walk).
ForkIffQuarantined ==
    \A a \in Authors :
        LET own == {e \in node.ledger.events : Author[e] = a}
            related(d, e) == d \in Ancestry[e] \/ e \in Ancestry[d]
            near(d, e) == /\ Cardinality(Ancestry[e] \ Ancestry[d]) <= MaxLinkWalk
                          /\ Cardinality(Ancestry[d] \ Ancestry[e]) <= MaxLinkWalk
            fork == \E d, e \in own : ~related(d, e)
            caught == a \in DOMAIN node.overlay /\ node.overlay[a].until > 0
        IN  /\ fork => caught
            /\ caught => fork \/ \E d, e \in own : related(d, e) /\ ~(near(d, e))

\* The preferred tip does not depend on the order in which the hash set yields
\* the tips: it is a tip of highest score, and of those the one with the
\* smallest hash (select_preferred_tip_score and its Sybil variant).
PreferredTipOrderFree ==
    LET best(score, t) ==
            \A u \in node.ledger.tips :
                score[t] > score[u] \/ (score[t] = score[u] /\ Rank[t] <= Rank[u])
    IN  node.ledger.tips # {} =>
            \A order \in SetToSeqs(node.ledger.tips) :
                /\ best(UnitScores(node.ledger, MaxSteps), PreferredUnit(node, order))
                /\ best(LatestScores(node.ledger, MaxSteps), PreferredLatest(node, order))
                /\ best(SybilScores(node.ledger, node.overlay, tick, MaxSteps),
                        PreferredSybil(node, order))

\* The root tells the ledger from every other ledger of these events: the root of
\* the last row belongs to no other set that has its parents (merkle_root sorts,
\* and duplicates the last hash of an odd level).
RootIdentifiesLedger ==
    node.trace # <<>> =>
        \A S \in SUBSET Events :
            Closed([events |-> S]) =>
                (Root(S) = Last(node.trace).root <=> S = node.ledger.events)

\* What check_trace.py says of the trace of a single node: it accepts the trace
\* unless the last event to be linked is older than another one, an author forked
\* again while quarantined, or a row was recorded after a quarantine that covers
\* its timestamp.
CheckerVerdict ==
    LET rows == node.trace
        youngestLast == \A k \in DOMAIN rows :
                            Timestamp[rows[k].event] <= Timestamp[Last(rows).event]
        reforked == \E k \in DOMAIN rows :
                        ~rows[k].ancestorCheck /\ node.ticks[k] < rows[k].untilBefore
        late == \E k \in DOMAIN rows :
                    /\ Timestamp[rows[k].event] < rows[k].untilAfter
                    /\ rows[k].untilAfter <= node.ticks[k]
    IN  rows # <<>> =>
            (CheckTrace(Merged(rows), FinalRoot(rows)) <=> youngestLast /\ ~reforked /\ ~late)
=============================================================================
