--------------------------- MODULE SlashingMachine ---------------------------
(***************************************************************************)
(* The slashing state of one node as handle_vote drives it: any signed     *)
(* vote of the current height may arrive, once or again, unless its sender *)
(* is in jail; blocks are committed in between; jails are lifted.          *)
(***************************************************************************)
EXTENDS Slashing

CONSTANTS
    Hashes,      \* block hashes a vote may carry
    MaxHeight,   \* bound on the height
    MaxSlashes   \* bound on the number of slashing records

\* Heights are u64, and the chain does not reach the end of them.
ASSUME MachineAssumption == MaxHeight \in 1 .. U64Max - 1 /\ MaxSlashes \in Nat

VARIABLES slashing, height

smVars == <<slashing, height>>

SmInit == slashing = NewSlashing /\ height = 1

VotesAt(h) ==
    [type : {"prevote", "precommit"}, height : {h}, round : {0}, hash : Hashes,
     validator : Validators]

HandleVote(vote) ==
    /\ ~IsJailed(slashing, vote.validator, height)
    /\ Len(slashing.slashed) < MaxSlashes
    /\ slashing' = Observe(slashing, vote, height)
    /\ UNCHANGED height

CommitHeight ==
    /\ height < MaxHeight
    /\ height' = height + 1
    /\ UNCHANGED slashing

UnjailValidator(v) ==
    /\ CanUnjail(slashing, v, height)
    /\ slashing' = Unjail(slashing, v)
    /\ UNCHANGED height

SmNext ==
    \/ \E vote \in VotesAt(height) : HandleVote(vote)
    \/ CommitHeight
    \/ \E v \in Validators : UnjailValidator(v)

SmSpec == SmInit /\ [][SmNext]_smVars

-----------------------------------------------------------------------------
\* The sum of the amounts in the slashing records of v.
SlashedOf(v) ==
    LET amount == [k \in DOMAIN slashing.slashed |-> slashing.slashed[k].amount]
    IN  MapThenSumSet(LAMBDA k : amount[k],
                      {k \in DOMAIN amount : slashing.slashed[k].validator = v})

\* "current_stake = original_stake - sum(slashed_amounts)"
\* (docs/staking_and_slashing.md), through every rounding and saturation of
\* slash; total_slashed reports the same sum.
StakeAccounting ==
    \A v \in Validators :
        /\ slashing.stakes[v] = InitialStake[v] - SlashedOf(v)
        /\ TotalSlashed(slashing, v) = SlashedOf(v)

\* "Store the second vote to prevent re-detection" (bft/slashing.rs:77): a pair
\* of conflicting votes is punished at most once.
EvidenceUsedOnce ==
    \A k, l \in DOMAIN slashing.slashed :
        slashing.slashed[k].evidence = slashing.slashed[l].evidence => k = l

\* "Vote history pruned to last 100 heights": although the evidence path of
\* record_vote returns before the clean-up, no vote older than that is kept
\* once a vote of the current height has been recorded.
HistoryWindow ==
    \A w, x \in slashing.votes : w.height > x.height - VoteHistory

\* A jail term is never cut short: neither unjail nor a further double sign
\* moves a release height that is still ahead to an earlier one.
JailTermKept ==
    [][\A v \in Validators :
         height < slashing.jailed[v] => slashing'.jailed[v] >= slashing.jailed[v]]_smVars
=============================================================================
