------------------------------ MODULE Genesis ------------------------------
(***************************************************************************)
(* The validator sets a genesis file can define: a list of validators      *)
(* grows by one entry at a time, and at every length it is the set a node  *)
(* would build its quorums from (GenesisConfig::validator_infos and        *)
(* ValidatorSet::new).                                                     *)
(***************************************************************************)
EXTENDS Integers, FiniteSets

CONSTANTS
    ConfiguredPowers,   \* values of the "power" field
    MaxValidators       \* bound on the length of the list

ASSUME GenesisAssumption == ConfiguredPowers \subseteq Nat /\ MaxValidators \in Nat

VARIABLE power          \* the powers of the validators read so far

size == Cardinality(DOMAIN power)

VS == INSTANCE ValidatorSet WITH N <- size, Power <- power

\* validator_infos reads a power of 0 as 1.
EffectivePower(p) == IF p = 0 THEN 1 ELSE p

\* A node is itself a member of its validator set, so the list is not empty.
GenInit == \E p \in ConfiguredPowers : power = [v \in {0} |-> EffectivePower(p)]

AddValidator(p) ==
    /\ size < MaxValidators
    /\ power' = [v \in 0 .. size |-> IF v = size THEN EffectivePower(p) ELSE power[v]]

GenNext == \E p \in ConfiguredPowers : AddValidator(p)

GenSpec == GenInit /\ [][GenNext]_power

-----------------------------------------------------------------------------
UnitPowers == \A v \in DOMAIN power : power[v] = 1

TotalPower == VS!PowerOf(power, DOMAIN power)

\* With equal powers, two quorums of ValidatorSet::new always share a validator
\* except in sets of 2, 3 and 6, where f is rounded down and 2f+1 votes are no
\* majority.
SafeSizes == UnitPowers => (VS!QuorumsIntersect <=> size \notin {2, 3, 6})

\* With equal powers and 3f+1 validators, two quorums share one validator more
\* than may be faulty, and any f validators can be missing from a quorum.
ByzantineMargin ==
    LET f == VS!FaultBound(size)
    IN  (UnitPowers /\ size = 3 * f + 1) =>
            /\ \A S, T \in VS!Quorums : Cardinality(S \cap T) > f
            /\ \A F \in SUBSET DOMAIN power :
                  Cardinality(F) = f => VS!QuorumMet(DOMAIN power \ F)

\* quorum_met adds up powers, and the threshold counts validators: unequal
\* powers are safe as long as the whole set has less than two quorums of power.
PowerBudget == TotalPower < 2 * VS!QuorumPower(size) => VS!QuorumsIntersect
=============================================================================
