---------------------------- MODULE ValidatorSet ----------------------------
(***************************************************************************)
(* The static validator set of a genesis file: who proposes in a round and *)
(* which sets of voters form a quorum (ValidatorSet in bft/node.rs).       *)
(* A validator is its index in the genesis list; the node ids of the code  *)
(* are hashes of distinct public keys, so the index identifies it.         *)
(***************************************************************************)
EXTENDS Integers, FiniteSets, FiniteSetsExt

CONSTANTS
    N,       \* validators.len()
    Power    \* voting power of each validator, at least 1 (validator_infos)

Validators == 0 .. N-1

ASSUME ValidatorSetAssumption ==
    /\ N \in Nat \ {0}
    /\ Power \in [Validators -> Nat \ {0}]

\* Defective FaultBound and QuorumPower: off by one, and a mere majority.
FaultBoundOfAll(n) == n \div 3
SimpleMajority(n) == n \div 2 + 1

\* f and quorum_power are computed from the NUMBER of validators.
FaultBound(n) == (n - 1) \div 3
QuorumPower(n) == 2 * FaultBound(n) + 1

\* quorum_met adds up the POWER of the voters.
PowerOf(power, voters) == MapThenSumSet(LAMBDA v : power[v], voters)

\* Defective Quorums: one unit of power short.
QuorumsOneShort == {S \in SUBSET Validators : PowerOf(Power, S) + 1 >= QuorumPower(N)}

Quorums == {S \in SUBSET Validators : PowerOf(Power, S) >= QuorumPower(N)}

QuorumMet(voters) == voters \in Quorums

ProposerFor(height, round) == (height + round) % N

\* What a vote count needs for two decisions to meet in a common validator.
QuorumsIntersect == \A S, T \in Quorums : S \cap T # {}
=============================================================================
