------------------------------ MODULE Slashing ------------------------------
(***************************************************************************)
(* The double-sign detector and the stake ledger every node keeps          *)
(* (SlashingState in bft/slashing.rs), as functions on its value.          *)
(*                                                                         *)
(*   stakes  current stake of every validator                              *)
(*   jailed  release height; 0 when there is no entry (an entry is never   *)
(*           0: it is a block height, at least 1, plus the jail duration)  *)
(*   slashed the slashing records, oldest first                            *)
(*   votes   votes_by_validator: the last vote kept for each               *)
(*           (height, round, type, validator)                              *)
(***************************************************************************)
EXTENDS Integers, Sequences, ValidatorSet

CONSTANTS
    SlashingEnabled,     \* SlashingConfig.enabled
    DoubleSignPercent,   \* SlashingConfig.double_sign_percent
    JailDuration,        \* SlashingConfig.jail_duration_blocks
    InitialStake,        \* genesis stake of each validator
    VoteHistory,         \* heights of votes kept: 100 in the code
    U64Max               \* u64::MAX

ASSUME SlashingAssumption ==
    /\ SlashingEnabled \in BOOLEAN
    /\ U64Max \in Nat
    /\ DoubleSignPercent \in 0 .. U64Max
    /\ JailDuration \in 0 .. U64Max
    /\ InitialStake \in [Validators -> 0 .. U64Max]
    /\ VoteHistory \in Nat

SatMul(a, b) == IF a * b > U64Max THEN U64Max ELSE a * b
SatAdd(a, b) == IF a + b > U64Max THEN U64Max ELSE a + b
SatSub(a, b) == IF a < b THEN 0 ELSE a - b

NewSlashing ==
    [stakes |-> InitialStake, jailed |-> [v \in Validators |-> 0],
     slashed |-> <<>>, votes |-> {}]

IsJailed(ss, v, height) == height < ss.jailed[v]

EffectiveStake(ss, v, height) == IF IsJailed(ss, v, height) THEN 0 ELSE ss.stakes[v]

\* Defective Existing: a prevote and a precommit conflict.
ExistingOfAnyType(ss, vote) ==
    {w \in ss.votes : w.height = vote.height /\ w.round = vote.round /\ w.validator = vote.validator}

\* The vote already kept under the key of vote, if there is one.
Existing(ss, vote) ==
    {w \in ss.votes : /\ w.height = vote.height /\ w.round = vote.round
                      /\ w.type = vote.type /\ w.validator = vote.validator}

\* record_vote returns evidence for vote.
IsDoubleSign(ss, vote) ==
    SlashingEnabled /\ \E w \in Existing(ss, vote) : w.hash # vote.hash

\* Defective RecordVote: one height too many is kept.
RecordVoteLate(ss, vote) ==
    LET kept == (ss.votes \ Existing(ss, vote)) \cup {vote}
    IN  [ss EXCEPT !.votes = {w \in kept : w.height >= vote.height - VoteHistory}]

\* The early return of the evidence path skips the clean-up of old heights.
RecordVote(ss, vote) ==
    LET kept == (ss.votes \ Existing(ss, vote)) \cup {vote}
        recent == {w \in kept : vote.height > VoteHistory => w.height > vote.height - VoteHistory}
    IN  [ss EXCEPT !.votes = IF ~SlashingEnabled THEN @
                             ELSE IF IsDoubleSign(ss, vote) THEN kept ELSE recent]

SlashAmount(stake) == SatMul(stake, DoubleSignPercent) \div 100

\* Defective Slash: the penalty is a share of the genesis stake.
SlashOfGenesis(ss, v, evidence, height) ==
    LET amount == SlashAmount(InitialStake[v])
        until == SatAdd(height, JailDuration)
    IN  [ss EXCEPT !.stakes[v] = SatSub(@, amount), !.jailed[v] = until,
                   !.slashed = Append(@, [validator |-> v, evidence |-> evidence,
                                          amount |-> amount, until |-> until])]

\* Defective Slash: the validator is not jailed.
SlashWithoutJail(ss, v, evidence, height) ==
    [SlashOfGenesis(ss, v, evidence, height) EXCEPT !.jailed = ss.jailed]

\* slash: refused for a validator without stake, and then it is not jailed.
\* The evidence is the pair of conflicting votes.
Slash(ss, v, evidence, height) ==
    LET amount == SlashAmount(ss.stakes[v])
        until == SatAdd(height, JailDuration)
    IN  IF ss.stakes[v] = 0 THEN ss
        ELSE [ss EXCEPT !.stakes[v] = SatSub(@, amount),
                        !.jailed[v] = until,
                        !.slashed = Append(@, [validator |-> v, evidence |-> evidence,
                                               amount |-> amount, until |-> until])]

\* What handle_vote does with a vote that is not from a jailed validator.
Observe(ss, vote, height) ==
    IF IsDoubleSign(ss, vote)
    THEN Slash(RecordVote(ss, vote), vote.validator, Existing(ss, vote) \cup {vote}, height)
    ELSE RecordVote(ss, vote)

\* Defective CanUnjail: any jail can be lifted.
CanUnjailEarly(ss, v, height) == ss.jailed[v] # 0

\* unjail fails, and changes nothing, while the release height is ahead.
CanUnjail(ss, v, height) == ss.jailed[v] # 0 /\ height >= ss.jailed[v]
Unjail(ss, v) == [ss EXCEPT !.jailed[v] = 0]

TotalSlashed(ss, v) == SatSub(InitialStake[v], ss.stakes[v])
=============================================================================
