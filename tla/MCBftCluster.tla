---------------------------- MODULE MCBftCluster ----------------------------
(***************************************************************************)
(* Four validators, with f = 1 and a quorum of 3.                          *)
(***************************************************************************)
EXTENDS BftCluster

UnitStake == [v \in Validators |-> 100]

\* Validator 0 has power 2, so 0 and any other make a quorum, and so do the
\* other three: all quorums meet.  Only the links between 0 and its partners 1
\* and 2 deliver: 3 is down, and 1 and 2 cannot reach each other.
HeavyFirst == [v \in Validators |-> IF v = 0 THEN 2 ELSE 1]
Line == {<<0, 1>>, <<1, 0>>, <<0, 2>>, <<2, 0>>}

\* Validator 2 has power 2 and makes a quorum with 1, the only node it reaches;
\* the two propose in rounds 0 and 1 of the first height.
HeavyThird == [v \in Validators |-> IF v = 2 THEN 2 ELSE 1]
Pair == {<<1, 2>>, <<2, 1>>}

\* All links between 0, 1 and 2: each can hear a quorum of votes before it
\* hears the proposal.
Heard == (0 .. 2) \X (0 .. 2)
=============================================================================
