---------------------------- MODULE LossyChannel ----------------------------
(***************************************************************************)
(* What the consensus nodes may expect of broadcast: a message a node has  *)
(* sent reaches each other node at most once, at any later time, in any    *)
(* order, or never.                                                        *)
(***************************************************************************)
EXTENDS Integers, Sequences

CONSTANT Nodes

VARIABLES
    sent,   \* how many messages each node has broadcast; they are numbered
    got     \* got[j][i]: the messages of i that reached j, in order of arrival

LcInit ==
    /\ sent = [i \in Nodes |-> 0]
    /\ got = [j \in Nodes |-> [i \in Nodes |-> <<>>]]

LcSend(i) == sent' = [sent EXCEPT ![i] = @ + 1] /\ UNCHANGED got

LcReceive(i, j, m) ==
    /\ m \in 1 .. sent[i]
    /\ \A k \in DOMAIN got[j][i] : got[j][i][k] # m
    /\ got' = [got EXCEPT ![j][i] = Append(@, m)]
    /\ UNCHANGED sent

LcNext ==
    \/ \E i \in Nodes : LcSend(i)
    \/ \E i, j \in Nodes : i # j /\ \E m \in 1 .. sent[i] : LcReceive(i, j, m)

LcSpec == LcInit /\ [][LcNext]_<<sent, got>>
=============================================================================
