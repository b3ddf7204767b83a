---------------------------- MODULE EventLedger ----------------------------
(***************************************************************************)
(* The event ledger (ledger.rs) and the stateful validator (validation.rs) *)
(* as functions on their values.  SHA-256 is injective, so an event stands *)
(* for its own hash.  A ledger is its set of events and its set of tips; a *)
(* validation context is the last timestamp seen of each author.           *)
(***************************************************************************)
EXTENDS Integers, FiniteSets, SeqOps, MerkleTree

CONSTANTS
    Events,           \* well-formed events, by hash
    ZERO_HASH,        \* prev_hash of an event without a parent
    Prev,             \* prev_hash of each event
    Author,           \* author of each event
    Timestamp,        \* timestamp of each event
    Rank,             \* position of each hash in lexicographic order
    Forged,           \* events with a wrong version or signature
    MaxBackwardSkew   \* MAX_BACKWARD_SKEW

Authors == {Author[e] : e \in Events}

\* Names of different events have different places in the order, and a hash
\* cannot occur in what it is the hash of, so that prev_hash has no cycles.
\* set_max_backward_skew keeps the skew at 1 or more.
ASSUME LedgerAssumption ==
    /\ ZERO_HASH \notin Events
    /\ Prev \in [Events -> Events \cup {ZERO_HASH}]
    /\ Timestamp \in [Events -> Nat]
    /\ Rank \in [Events -> Nat]
    /\ \A d, e \in Events : Rank[d] = Rank[e] => d = e
    /\ \A S \in SUBSET Events : S # {} => \E e \in S : Prev[e] \notin S
    /\ MaxBackwardSkew \in Nat \ {0}

EmptyLedger == [events |-> {}, tips |-> {}]

\* add_event, the unchecked path: a second insertion makes an event a tip again.
AddEvent(ledger, e) ==
    [events |-> ledger.events \cup {e}, tips |-> (ledger.tips \ {Prev[e]}) \cup {e}]

HasParent(known, e) == Prev[e] = ZERO_HASH \/ Prev[e] \in known

LinkResult(ledger, e) ==
    IF e \in ledger.events THEN "Duplicate"
    ELSE IF ~HasParent(ledger.events, e) THEN "MissingParent" ELSE "Ok"

TryAddEvent(ledger, e) ==
    IF LinkResult(ledger, e) = "Ok" THEN AddEvent(ledger, e) ELSE ledger

\* The members of a finite set in a strict total order, a set of pairs: the k-th
\* has k - 1 before it.
Sorted(S, order) ==
    LET sorted[k \in 0 .. Cardinality(S)] ==
            IF k = 0 THEN <<>>
            ELSE Append(sorted[k - 1],
                        CHOOSE x \in S : Cardinality({y \in S : <<y, x>> \in order}) = k - 1)
    IN  sorted[Cardinality(S)]

\* merkle_root sorts the hashes first; a leaf is the hash of an event.
Root(events) ==
    IF events = {} THEN <<>>
    ELSE MerkleRoot(Sorted(events, {p \in events \X events : Rank[p[1]] < Rank[p[2]]}))

NewContext == [a \in Authors |-> 0]

\* validate_event accepts an event that is not older than the newest of its
\* author by more than the skew.
Valid(ctx, e) == e \notin Forged /\ Timestamp[e] + MaxBackwardSkew >= ctx[Author[e]]

\* Defective Touch: an older event takes the timestamp back.
TouchLast(ctx, e) == [ctx EXCEPT ![Author[e]] = Timestamp[e]]

Touch(ctx, e) ==
    [ctx EXCEPT ![Author[e]] = IF Timestamp[e] > @ THEN Timestamp[e] ELSE @]

-----------------------------------------------------------------------------
\* What linkage promises: every event has its parent, and the tips are the
\* events without children.
Closed(ledger) == \A e \in ledger.events : HasParent(ledger.events, e)

Childless(events) == {e \in events : \A d \in events : Prev[d] # e}
=============================================================================
