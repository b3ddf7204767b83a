---------------------------- MODULE ReplicatedLog ----------------------------
(***************************************************************************)
(* What the BFT cluster promises its clients: one log of entries, of which *)
(* every replica holds a prefix.  A replica that holds the whole log may   *)
(* extend it; any other may only learn the next entry of the log.          *)
(***************************************************************************)
EXTENDS Integers, Sequences

CONSTANTS Replicas, Entries

VARIABLES log, copy

LogVars == <<log, copy>>

LogInit == log = <<>> /\ copy = [i \in Replicas |-> <<>>]

Decide(i, e) ==
    /\ copy[i] = log
    /\ log' = Append(log, e)
    /\ copy' = [copy EXCEPT ![i] = log']

Learn(i) ==
    /\ Len(copy[i]) < Len(log)
    /\ copy' = [copy EXCEPT ![i] = Append(@, log[Len(copy[i]) + 1])]
    /\ UNCHANGED log

LogNext == \E i \in Replicas : Learn(i) \/ \E e \in Entries : Decide(i, e)

LogSpec == LogInit /\ [][LogNext]_LogVars
=============================================================================
