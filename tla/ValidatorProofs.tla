-------------------------- MODULE ValidatorProofs ---------------------------
(***************************************************************************)
(* What record_vote, slash and unjail of bft/slashing.rs guarantee for     *)
(* every number of validators, every configuration and every sequence of   *)
(* votes, commits and releases; and when two quorums of the validators of a *)
(* genesis file meet, for every file.                                      *)
(***************************************************************************)
EXTENDS SlashingMachine, Genesis, FoldProofs

\* What SlashingManager keeps of votes and penalties.
KeptVote ==
    [type : {"prevote", "precommit"}, height : Nat, round : {0}, hash : Hashes,
     validator : Validators]
KeptRecord ==
    [validator : Validators, evidence : SUBSET KeptVote, amount : Int, until : Nat]
KeptState ==
    [stakes : [Validators -> Int], jailed : [Validators -> Nat],
     slashed : Seq(KeptRecord), votes : SUBSET KeptVote]

\* The fields keep their types, and no vote is kept from a height to come.
SmTypeOK ==
    /\ height \in 1 .. MaxHeight
    /\ slashing \in KeptState
    /\ \A w \in slashing.votes : w.height \in 1 .. height

\* Evidence is of an earlier height, or its validator is in jail now: in neither
\* case can the same votes be handled again.
Spent(ss, h) ==
    \A k \in DOMAIN ss.slashed : \A w \in ss.slashed[k].evidence :
        w.height <= h /\ (w.height < h \/ IsJailed(ss, w.validator, h))

\* No two penalties are for the same evidence.
Distinct(records) ==
    \A k, l \in DOMAIN records : records[k].evidence = records[l].evidence => k = l

-----------------------------------------------------------------------------
\* A vote of the current height, as handle_vote hands it to record_vote.
LEMMA VoteType ==
    ASSUME NEW h \in Nat, NEW vote \in VotesAt(h)
    PROVE  vote \in KeptVote /\ vote.height = h /\ vote.validator \in Validators
  BY Zenon DEF VotesAt, KeptVote

\* The release height that slash computes lies ahead.
LEMMA UntilType ==
    ASSUME NEW h \in 1 .. MaxHeight
    PROVE  /\ SatAdd(h, JailDuration) \in Nat
           /\ JailDuration > 0 => h < SatAdd(h, JailDuration)
  BY SlashingAssumption, MachineAssumption DEF SatAdd

\* record_vote touches the kept votes only, and adds none but the given one.
LEMMA RecordVoteKeeps ==
    ASSUME NEW ss \in KeptState, NEW vote \in KeptVote
    PROVE  /\ RecordVote(ss, vote) \in KeptState
           /\ RecordVote(ss, vote).stakes = ss.stakes
           /\ RecordVote(ss, vote).jailed = ss.jailed
           /\ RecordVote(ss, vote).slashed = ss.slashed
           /\ RecordVote(ss, vote).votes \subseteq ss.votes \cup {vote}
  BY Zenon DEF KeptState, RecordVote, Existing

\* A penalty, and the stake it leaves, are numbers.
LEMMA SlashAmountType ==
    ASSUME NEW stake \in Int
    PROVE  SatSub(stake, SlashAmount(stake)) \in Int /\ SlashAmount(stake) \in Int
  <1>1. SatMul(stake, DoubleSignPercent) \in Int
    <2>1. stake * DoubleSignPercent \in Int
      BY SlashingAssumption
    <2> QED BY <2>1, SlashingAssumption DEF SatMul
  <1> DEFINE m == SatMul(stake, DoubleSignPercent)
  <1>2. m \div 100 \in Int
    <2> HIDE DEF m
    <2>1. m \in Int => m \div 100 \in Int
      OBVIOUS
    <2> QED BY <1>1, <2>1 DEF m
  <1> QED BY <1>2 DEF SlashAmount, SatSub

\* From ss to u, v is slashed and jailed for the evidence.
Punished(ss, u, v, evidence, h) ==
    /\ u \in KeptState
    /\ u.votes = ss.votes
    /\ u.jailed = [ss.jailed EXCEPT ![v] = SatAdd(h, JailDuration)]
    /\ \E r \in KeptRecord : u.slashed = Append(ss.slashed, r) /\ r.evidence = evidence

\* slash changes nothing, or jails the validator and adds one record.
LEMMA SlashKeeps ==
    ASSUME NEW ss \in KeptState, NEW v \in Validators, NEW evidence \in SUBSET KeptVote,
           NEW h \in 1 .. MaxHeight
    PROVE  LET u == Slash(ss, v, evidence, h)
           IN  u = ss \/ Punished(ss, u, v, evidence, h)
  <1> DEFINE amount == SlashAmount(ss.stakes[v])
             until == SatAdd(h, JailDuration)
             left == SatSub(ss.stakes[v], amount)
             r == [validator |-> v, evidence |-> evidence, amount |-> amount, until |-> until]
             t == [ss EXCEPT !.stakes[v] = left, !.jailed[v] = until,
                             !.slashed = Append(@, r)]
  <1>1. amount \in Int /\ left \in Int
    <2>1. ss.stakes[v] \in Int
      BY DEF KeptState
    <2> QED BY <2>1, SlashAmountType
  <1>2. until \in Nat
    BY UntilType
  <1>3. r \in KeptRecord
    <2> HIDE DEF amount, until
    <2> QED BY <1>1, <1>2, Zenon DEF KeptRecord
  <1>4. Slash(ss, v, evidence, h) \in {ss, t}
    BY Zenon DEF Slash
  <1>5. /\ t \in KeptState
        /\ t.votes = ss.votes
        /\ t.jailed = [ss.jailed EXCEPT ![v] = until]
        /\ t.slashed = Append(ss.slashed, r)
    <2>1. Append(ss.slashed, r) \in Seq(KeptRecord)
      <3> HIDE DEF r
      <3> QED BY <1>3 DEF KeptState
    <2> HIDE DEF left, until, r
    <2> QED BY <1>1, <1>2, <2>1, Zenon DEF KeptState
  <1>6. r.evidence = evidence
    OBVIOUS
  <1> HIDE DEF r, t, until
  <1> QED BY <1>3, <1>4, <1>5, <1>6, Zenon DEF until, Punished

\* From ss to u, the vote is recorded, and its sender slashed for a double sign.
Observed(ss, u, vote, h) ==
    /\ u \in KeptState
    /\ u.votes = RecordVote(ss, vote).votes
    /\ \/ u.jailed = ss.jailed /\ u.slashed = ss.slashed
       \/ /\ u.jailed = [ss.jailed EXCEPT ![vote.validator] = SatAdd(h, JailDuration)]
          /\ \E r \in KeptRecord :
                /\ u.slashed = Append(ss.slashed, r)
                /\ vote \in r.evidence
                /\ \A w \in r.evidence : w.height = h /\ w.validator = vote.validator

\* What handle_vote does to the slashing state: it records the vote, and it may
\* add one record, whose evidence holds the vote and is all of one validator and
\* one height, together with the jail.
LEMMA ObserveKeeps ==
    ASSUME NEW ss \in KeptState, NEW h \in 1 .. MaxHeight, NEW vote \in VotesAt(h)
    PROVE  Observed(ss, Observe(ss, vote, h), vote, h)
  <1> DEFINE rec == RecordVote(ss, vote)
             evidence == Existing(ss, vote) \cup {vote}
             v == vote.validator
             t == Slash(rec, v, evidence, h)
  <1>1. vote \in KeptVote /\ vote.height = h /\ v \in Validators
    BY VoteType, MachineAssumption, SlashingAssumption
  <1>2. rec \in KeptState /\ rec.jailed = ss.jailed /\ rec.slashed = ss.slashed
    BY <1>1, RecordVoteKeeps, Zenon
  <1>3. evidence \in SUBSET KeptVote /\ \A w \in evidence : w.height = h /\ w.validator = v
    BY <1>1, Zenon DEF Existing, KeptState
  <1>4. Observe(ss, vote, h) \in {rec, t}
    BY Zenon DEF Observe
  <1>5. t = rec \/ Punished(rec, t, v, evidence, h)
    <2> HIDE DEF rec, evidence, v
    <2> QED BY <1>1, <1>2, <1>3, SlashKeeps, Zenon
  <1>6. vote \in evidence
    OBVIOUS
  <1> HIDE DEF evidence, t
  <1>7. CASE Observe(ss, vote, h) = rec
    BY <1>2, <1>7, Zenon DEF Observed
  <1>8. CASE Observe(ss, vote, h) = t /\ t # rec
    BY <1>2, <1>3, <1>5, <1>6, <1>8, Zenon DEF Punished, Observed
  <1> QED BY <1>4, <1>7, <1>8, Zenon

-----------------------------------------------------------------------------
\* The types, and the heights of the kept votes, are invariant.
LEMMA TypeStep == SmTypeOK /\ [SmNext]_smVars => SmTypeOK'
  <1> SUFFICES ASSUME SmTypeOK, [SmNext]_smVars PROVE SmTypeOK'
    OBVIOUS
  <1>0. height \in Nat /\ slashing \in KeptState
    BY SlashingAssumption, MachineAssumption DEF SmTypeOK
  <1>1. ASSUME NEW vote \in VotesAt(height), HandleVote(vote) PROVE SmTypeOK'
    <2>1. vote \in KeptVote /\ vote.height = height
      BY <1>0, VoteType
    <2>2. slashing' \in KeptState /\ slashing'.votes \subseteq slashing.votes \cup {vote}
      <3>1. Observed(slashing, slashing', vote, height)
        BY <1>0, <1>1, ObserveKeeps, Zenon DEF SmTypeOK, HandleVote
      <3>2. RecordVote(slashing, vote).votes \subseteq slashing.votes \cup {vote}
        BY <1>0, <2>1, RecordVoteKeeps, Zenon
      <3> QED BY <3>1, <3>2, Zenon DEF Observed
    <2>3. height \in 1 .. height
      BY DEF SmTypeOK
    <2> QED BY <1>1, <2>1, <2>2, <2>3, Zenon DEF SmTypeOK, HandleVote
  <1>2. CASE CommitHeight
    <2>1. height' \in 1 .. MaxHeight /\ 1 .. height \subseteq 1 .. height'
      BY <1>2, SlashingAssumption, MachineAssumption DEF SmTypeOK, CommitHeight
    <2> QED BY <1>2, <2>1, Zenon DEF SmTypeOK, CommitHeight
  <1>3. ASSUME NEW v \in Validators, UnjailValidator(v) PROVE SmTypeOK'
    <2>1. slashing' \in KeptState /\ slashing'.votes = slashing.votes
      <3>1. 0 \in Nat
        OBVIOUS
      <3> QED BY <1>0, <1>3, <3>1, Zenon DEF UnjailValidator, Unjail, KeptState
    <2> QED BY <1>3, <2>1, Zenon DEF SmTypeOK, UnjailValidator
  <1>4. CASE UNCHANGED smVars
    BY <1>4, Zenon DEF smVars, SmTypeOK
  <1> QED BY <1>1, <1>2, <1>3, <1>4, Zenon DEF SmNext

\* SlashingState::new has the types.
LEMMA TypeInit == SmInit => SmTypeOK
  <1> SUFFICES ASSUME SmInit PROVE SmTypeOK
    OBVIOUS
  <1>1. height \in 1 .. MaxHeight
    BY SlashingAssumption, MachineAssumption DEF SmInit
  <1>2. NewSlashing \in KeptState /\ NewSlashing.votes = {}
    <2>1. InitialStake \in [Validators -> Int]
      BY SlashingAssumption
    <2>2. <<>> \in Seq(KeptRecord)
      OBVIOUS
    <2>3. 0 \in Nat
      OBVIOUS
    <2> QED BY <2>1, <2>2, <2>3, Zenon DEF NewSlashing, KeptState
  <1> QED BY <1>1, <1>2, Zenon DEF SmInit, SmTypeOK

\* The fields of the slashing state keep their types in every behaviour.
THEOREM SlashingTypes == SmSpec => []SmTypeOK
  BY TypeInit, TypeStep, PTL DEF SmSpec

-----------------------------------------------------------------------------
\* A jail term is never cut short (unjail, slash), for every configuration.
THEOREM JailTermTheorem == SmSpec => JailTermKept
  <1>1. SmTypeOK /\ [SmNext]_smVars =>
            \A v \in Validators :
                height < slashing.jailed[v] => slashing'.jailed[v] >= slashing.jailed[v]
    <2> SUFFICES ASSUME SmTypeOK, [SmNext]_smVars, NEW v \in Validators,
                        height < slashing.jailed[v]
                 PROVE  slashing'.jailed[v] >= slashing.jailed[v]
      OBVIOUS
    <2>0. /\ height \in Nat /\ slashing \in KeptState
          /\ slashing.jailed \in [Validators -> Nat]
      BY SlashingAssumption, MachineAssumption DEF SmTypeOK, KeptState
    <2>1. slashing.jailed[v] \in Nat
      BY <2>0
    <2> SUFFICES slashing'.jailed[v] = slashing.jailed[v]
      BY <2>1
    <2>2. ASSUME NEW vote \in VotesAt(height), HandleVote(vote)
          PROVE  slashing'.jailed[v] = slashing.jailed[v]
      <3>1. vote.validator # v
        BY <2>2, Zenon DEF HandleVote, IsJailed
      <3>2. Observed(slashing, slashing', vote, height)
        BY <2>0, <2>2, ObserveKeeps, Zenon DEF SmTypeOK, HandleVote
      <3> QED BY <2>0, <3>1, <3>2, Zenon DEF Observed
    <2>3. ASSUME NEW w \in Validators, UnjailValidator(w)
          PROVE  slashing'.jailed[v] = slashing.jailed[v]
      <3>1. w # v
        BY <2>0, <2>1, <2>3 DEF UnjailValidator, CanUnjail
      <3> QED BY <2>0, <2>3, <3>1, Zenon DEF UnjailValidator, Unjail, KeptState
    <2>4. CASE CommitHeight
      BY <2>4, Zenon DEF CommitHeight
    <2>5. CASE UNCHANGED smVars
      BY <2>5, Zenon DEF smVars
    <2> QED BY <2>2, <2>3, <2>4, <2>5, Zenon DEF SmNext
  <1> QED BY <1>1, SlashingTypes, PTL DEF SmSpec, JailTermKept

\* "Vote history pruned to last 100 heights" holds for every number of heights,
\* though the evidence path of record_vote returns before it prunes.
THEOREM HistoryTheorem == SmSpec => []HistoryWindow
  <1>1. SmInit => HistoryWindow
    <2>1. NewSlashing.votes = {}
      BY DEF NewSlashing
    <2> QED BY <2>1, Zenon DEF SmInit, HistoryWindow
  <1>2. SmTypeOK /\ HistoryWindow /\ [SmNext]_smVars => HistoryWindow'
    <2> SUFFICES ASSUME SmTypeOK, HistoryWindow, [SmNext]_smVars PROVE HistoryWindow'
      OBVIOUS
    <2>0. height \in Nat /\ slashing \in KeptState
      BY SlashingAssumption, MachineAssumption DEF SmTypeOK
    <2>1. ASSUME NEW vote \in VotesAt(height), HandleVote(vote) PROVE HistoryWindow'
      <3> DEFINE kept == (slashing.votes \ Existing(slashing, vote)) \cup {vote}
      <3>1. vote \in KeptVote /\ vote.height = height
        BY <2>0, VoteType
      <3>2. Observed(slashing, slashing', vote, height)
        BY <2>0, <2>1, ObserveKeeps, Zenon DEF SmTypeOK, HandleVote
      <3>3. slashing'.votes = RecordVote(slashing, vote).votes
        BY <3>2, Zenon DEF Observed
      <3>4. CASE ~SlashingEnabled
        BY <2>0, <3>3, <3>4, Zenon DEF RecordVote, HistoryWindow, KeptState
      <3>5. CASE IsDoubleSign(slashing, vote)
        \* The vote has the height of the one it conflicts with.
        <4>1. slashing'.votes = kept
          BY <2>0, <3>3, <3>5, Zenon DEF RecordVote, IsDoubleSign, KeptState
        <4>2. PICK e \in slashing.votes : e.height = vote.height
          BY <3>5, Zenon DEF IsDoubleSign, Existing
        <4>3. \A w \in kept : \E x \in slashing.votes : w.height = x.height
          BY <4>2, Zenon
        <4> HIDE DEF kept
        <4> QED BY <4>1, <4>3, Zenon DEF HistoryWindow
      <3>6. CASE SlashingEnabled /\ ~IsDoubleSign(slashing, vote)
        <4>1. slashing'.votes =
                {w \in kept : vote.height > VoteHistory => w.height > vote.height - VoteHistory}
          BY <2>0, <3>3, <3>6, Zenon DEF RecordVote, KeptState
        <4>2. \A w \in kept : w.height \in 1 .. height
          <5>1. height \in 1 .. height
            BY DEF SmTypeOK
          <5> QED BY <3>1, <5>1, Zenon DEF SmTypeOK
        <4>3. SUFFICES ASSUME NEW w \in slashing'.votes, NEW x \in slashing'.votes
                       PROVE  w.height > x.height - VoteHistory
          BY Zenon DEF HistoryWindow
        <4>4. /\ w.height \in 1 .. height /\ x.height \in 1 .. height
              /\ height > VoteHistory => w.height > height - VoteHistory
          BY <3>1, <4>1, <4>2, Zenon
        <4> QED BY <2>0, <4>4, SlashingAssumption
      <3> QED BY <3>4, <3>5, <3>6, Zenon
    <2>2. CASE CommitHeight
      BY <2>2, Zenon DEF CommitHeight, HistoryWindow
    <2>3. ASSUME NEW v \in Validators, UnjailValidator(v) PROVE HistoryWindow'
      BY <2>0, <2>3, Zenon DEF UnjailValidator, Unjail, KeptState, HistoryWindow
    <2>4. CASE UNCHANGED smVars
      BY <2>4, Zenon DEF smVars, HistoryWindow
    <2> QED BY <2>1, <2>2, <2>3, <2>4, Zenon DEF SmNext
  <1> QED BY <1>1, <1>2, SlashingTypes, PTL DEF SmSpec

-----------------------------------------------------------------------------
\* Everything a step of slashing needs about evidence: it is spent, and no two
\* records have the same.
EvidenceInv == Spent(slashing, height) /\ Distinct(slashing.slashed)

\* Votes, commits and releases keep evidence spent and distinct.
LEMMA EvidenceStep ==
    ASSUME JailDuration > 0
    PROVE  SmTypeOK /\ EvidenceInv /\ [SmNext]_smVars => EvidenceInv'
  <1> SUFFICES ASSUME SmTypeOK, EvidenceInv, [SmNext]_smVars PROVE EvidenceInv'
    OBVIOUS
  <1>0. /\ height \in Nat /\ slashing \in KeptState
        /\ slashing.jailed \in [Validators -> Nat] /\ slashing.slashed \in Seq(KeptRecord)
    BY SlashingAssumption, MachineAssumption DEF SmTypeOK, KeptState
  <1>1. \A k \in DOMAIN slashing.slashed : \A w \in slashing.slashed[k].evidence :
            w.height \in Nat /\ w.validator \in Validators
    <2>1. \A k \in DOMAIN slashing.slashed : slashing.slashed[k] \in KeptRecord
      BY <1>0
    <2> QED BY <2>1, Zenon DEF KeptRecord, KeptVote
  <1>2. ASSUME NEW vote \in VotesAt(height), HandleVote(vote) PROVE EvidenceInv'
    <2>1. vote \in KeptVote /\ vote.height = height /\ vote.validator \in Validators
      BY <1>0, VoteType
    <2>2. Observed(slashing, slashing', vote, height)
      BY <1>0, <1>2, ObserveKeeps, Zenon DEF SmTypeOK, HandleVote
    <2>3. ~IsJailed(slashing, vote.validator, height) /\ height' = height
      BY <1>2, Zenon DEF HandleVote
    <2>4. CASE slashing'.jailed = slashing.jailed /\ slashing'.slashed = slashing.slashed
      BY <2>3, <2>4, Zenon DEF EvidenceInv, Spent, Distinct, IsJailed
    <2>5. CASE ~(slashing'.jailed = slashing.jailed /\ slashing'.slashed = slashing.slashed)
      <3>1. PICK r \in KeptRecord :
                /\ slashing'.slashed = Append(slashing.slashed, r)
                /\ vote \in r.evidence
                /\ \A w \in r.evidence : w.height = height /\ w.validator = vote.validator
        BY <2>2, <2>5, Zenon DEF Observed
      <3>2. slashing'.jailed =
                [slashing.jailed EXCEPT ![vote.validator] = SatAdd(height, JailDuration)]
        BY <2>2, <2>5, Zenon DEF Observed
      <3>3. /\ height < slashing'.jailed[vote.validator]
            /\ \A v \in Validators \ {vote.validator} :
                  slashing'.jailed[v] = slashing.jailed[v]
        <4>1. height < SatAdd(height, JailDuration)
          BY UntilType DEF SmTypeOK
        <4> QED BY <1>0, <2>1, <3>2, <4>1, Zenon
      <3> DEFINE n == Len(slashing.slashed)
      <3>4. /\ DOMAIN slashing.slashed = 1 .. n /\ n \in Nat
            /\ DOMAIN slashing'.slashed = 1 .. n + 1
            /\ slashing'.slashed[n + 1] = r
            /\ \A k \in 1 .. n : slashing'.slashed[k] = slashing.slashed[k]
        BY <1>0, <3>1
      <3>5. \A k \in 1 .. n + 1 : k \in 1 .. n \/ k = n + 1
        BY <3>4
      <3>6. Spent(slashing', height')
        <4>1. \A w \in r.evidence : w.height <= height /\ IsJailed(slashing', w.validator, height)
          BY <1>0, <3>1, <3>3 DEF IsJailed
        <4>2. \A k \in 1 .. n : \A w \in slashing.slashed[k].evidence :
                  /\ w.height <= height
                  /\ w.height < height \/ IsJailed(slashing', w.validator, height)
          <5> SUFFICES ASSUME NEW k \in 1 .. n, NEW w \in slashing.slashed[k].evidence
                       PROVE  /\ w.height <= height
                              /\ w.height < height \/ IsJailed(slashing', w.validator, height)
            OBVIOUS
          <5>1. /\ w.height <= height
                /\ w.height < height \/ IsJailed(slashing, w.validator, height)
            BY <3>4, Zenon DEF EvidenceInv, Spent
          <5>2. w.validator = vote.validator => w.height < height
            BY <2>3, <5>1, Zenon
          <5>3. w.validator \in Validators
            BY <1>1, <3>4, Zenon
          <5> QED BY <3>3, <5>1, <5>2, <5>3, Zenon DEF IsJailed
        <4> QED BY <2>3, <3>4, <3>5, <4>1, <4>2, Zenon DEF Spent
      <3>7. \A k \in 1 .. n : slashing.slashed[k].evidence # r.evidence
        \* The vote is in the evidence of no earlier record.
        <4> SUFFICES ASSUME NEW k \in 1 .. n, vote \in slashing.slashed[k].evidence PROVE FALSE
          BY <3>1, Zenon
        <4>1. vote.height < height \/ IsJailed(slashing, vote.validator, height)
          BY <3>4, Zenon DEF EvidenceInv, Spent
        <4> QED BY <1>0, <2>1, <2>3, <4>1
      <3>8. Distinct(slashing'.slashed)
        <4> HIDE DEF n
        <4> QED BY <3>4, <3>5, <3>7, ZenonT(40) DEF EvidenceInv, Distinct
      <3> QED BY <3>6, <3>8, Zenon DEF EvidenceInv
    <2> QED BY <2>4, <2>5, Zenon
  <1>3. CASE CommitHeight
    <2>1. height' = height + 1 /\ slashing' = slashing
      BY <1>3, Zenon DEF CommitHeight
    <2>2. \A h \in Nat : h <= height => h <= height + 1 /\ h < height + 1
      BY <1>0
    <2> QED BY <1>1, <2>1, <2>2, Zenon DEF EvidenceInv, Spent
  <1>4. ASSUME NEW v \in Validators, UnjailValidator(v) PROVE EvidenceInv'
    <2>1. /\ slashing'.slashed = slashing.slashed /\ height' = height
          /\ \A w \in Validators \ {v} : slashing'.jailed[w] = slashing.jailed[w]
      BY <1>0, <1>4, Zenon DEF UnjailValidator, Unjail, KeptState
    <2>2. ~IsJailed(slashing, v, height)
      BY <1>0, <1>4 DEF UnjailValidator, CanUnjail, IsJailed
    <2> QED BY <1>1, <2>1, <2>2, Zenon DEF EvidenceInv, Spent, Distinct, IsJailed
  <1>5. CASE UNCHANGED smVars
    BY <1>5, Zenon DEF smVars, EvidenceInv
  <1> QED BY <1>2, <1>3, <1>4, <1>5, Zenon DEF SmNext

\* A pair of conflicting votes is punished at most once, however often its votes
\* arrive ("Store the second vote to prevent re-detection", bft/slashing.rs:77),
\* in every configuration that jails for at least one block.
THEOREM EvidenceTheorem ==
    ASSUME JailDuration > 0
    PROVE  SmSpec => []EvidenceUsedOnce
  <1>1. SmInit => EvidenceInv
    <2>1. NewSlashing.slashed = <<>>
      BY DEF NewSlashing
    <2> QED BY <2>1 DEF SmInit, EvidenceInv, Spent, Distinct
  <1>2. EvidenceInv => EvidenceUsedOnce
    BY Zenon DEF EvidenceInv, Distinct, EvidenceUsedOnce
  <1>3. SmTypeOK /\ EvidenceInv /\ [SmNext]_smVars => EvidenceInv'
    BY EvidenceStep
  <1> QED BY <1>1, <1>2, <1>3, SlashingTypes, PTL DEF SmSpec

-----------------------------------------------------------------------------
\* The amounts of the records, and the records of one validator.
Amounts(records) == [k \in DOMAIN records |-> records[k].amount]
\* The penalties of validator v.
RecordsOf(records, v) == {k \in DOMAIN records : records[k].validator = v}

\* Of every validator: the stake is within the genesis stake, the amounts are
\* numbers, and what was taken is what is missing.
Accounts(ss) ==
    \A v \in Validators :
        /\ ss.stakes[v] \in 0 .. InitialStake[v]
        /\ SumOf(Amounts(ss.slashed), RecordsOf(ss.slashed, v)) = InitialStake[v] - ss.stakes[v]

\* The penalty of at most 100 percent is between nothing and the whole stake,
\* also when the product saturates.
LEMMA SlashAmountBound ==
    ASSUME DoubleSignPercent <= 100, NEW stake \in 0 .. U64Max
    PROVE  SlashAmount(stake) \in 0 .. stake
  <1> DEFINE p == stake * DoubleSignPercent
             m == SatMul(stake, DoubleSignPercent)
  <1>1. DoubleSignPercent \in 0 .. 100 /\ U64Max \in Nat /\ stake \in Nat
    BY SlashingAssumption
  <1>2. p \in Nat /\ p <= 100 * stake
    BY <1>1
  <1>3. m \in Nat /\ m <= 100 * stake
    <2> HIDE DEF p
    <2>1. m = IF p > U64Max THEN U64Max ELSE p
      BY DEF SatMul, p
    <2> QED BY <1>1, <1>2, <2>1
  <1>4. m \div 100 \in 0 .. stake
    <2> HIDE DEF m
    <2> QED BY <1>1, <1>3
  <1> QED BY <1>4 DEF SlashAmount

\* From ss to u, one penalty is taken from the stake of v and recorded.
Taken(ss, u, v) ==
    /\ u.stakes = [ss.stakes EXCEPT ![v] = SatSub(ss.stakes[v], SlashAmount(ss.stakes[v]))]
    /\ \E r \in KeptRecord : /\ u.slashed = Append(ss.slashed, r)
                             /\ r.validator = v /\ r.amount = SlashAmount(ss.stakes[v])

\* slash takes what it records from the stake it slashes, and from no other.
LEMMA SlashTakes ==
    ASSUME NEW ss \in KeptState, NEW v \in Validators, NEW evidence \in SUBSET KeptVote,
           NEW h \in 1 .. MaxHeight
    PROVE  LET u == Slash(ss, v, evidence, h)
           IN  u = ss \/ Taken(ss, u, v)
  <1> DEFINE amount == SlashAmount(ss.stakes[v])
             until == SatAdd(h, JailDuration)
             left == SatSub(ss.stakes[v], amount)
             r == [validator |-> v, evidence |-> evidence, amount |-> amount, until |-> until]
             t == [ss EXCEPT !.stakes[v] = left, !.jailed[v] = until,
                             !.slashed = Append(@, r)]
  <1>1. amount \in Int
    <2>1. ss.stakes[v] \in Int
      BY DEF KeptState
    <2> QED BY <2>1, SlashAmountType
  <1>2. until \in Nat
    BY UntilType
  <1>3. r \in KeptRecord /\ r.validator = v /\ r.amount = amount
    <2> HIDE DEF amount, until
    <2> QED BY <1>1, <1>2, Zenon DEF KeptRecord
  <1>4. Slash(ss, v, evidence, h) \in {ss, t}
    BY Zenon DEF Slash
  <1>5. t.stakes = [ss.stakes EXCEPT ![v] = left] /\ t.slashed = Append(ss.slashed, r)
    <2> HIDE DEF left, until, r
    <2> QED BY Zenon DEF KeptState
  <1> HIDE DEF r, t, amount
  <1> QED BY <1>3, <1>4, <1>5, Zenon DEF amount, Taken

\* One more record adds its amount to the sum of its validator only.
LEMMA SumOfAppended ==
    ASSUME NEW records \in Seq(KeptRecord), NEW r \in KeptRecord, NEW v \in Validators
    PROVE  LET longer == Append(records, r)
               sum == SumOf(Amounts(records), RecordsOf(records, v))
           IN  /\ sum \in Int
               /\ SumOf(Amounts(longer), RecordsOf(longer, v)) =
                      IF r.validator = v THEN sum + r.amount ELSE sum
  <1> DEFINE n == Len(records)
             longer == Append(records, r)
             S == RecordsOf(records, v)
             f == Amounts(records)
             g == Amounts(longer)
  <1>1. /\ n \in Nat /\ DOMAIN records = 1 .. n /\ DOMAIN longer = 1 .. n + 1
        /\ longer[n + 1] = r /\ \A k \in 1 .. n : longer[k] = records[k]
        /\ \A k \in 1 .. n : records[k] \in KeptRecord
    OBVIOUS
  <1>2. \A k \in 1 .. n + 1 : k \in 1 .. n \/ k = n + 1
    BY <1>1
  <1>3. n + 1 \notin 1 .. n /\ n + 1 \in 1 .. n + 1 /\ 1 .. n \subseteq 1 .. n + 1
    BY <1>1
  <1>4. IsFiniteSet(S)
    <2>1. IsFiniteSet(1 .. n)
      BY <1>1, FS_Interval
    <2> QED BY <1>1, <2>1, FS_Subset DEF RecordsOf
  <1> HIDE DEF n, longer
  <1>5. S \subseteq 1 .. n
    BY <1>1, Zenon DEF RecordsOf
  <1>6. r.amount \in Int /\ \A k \in 1 .. n : records[k].amount \in Int
    BY <1>1, Zenon DEF KeptRecord
  <1>7. \A k \in 1 .. n : f[k] = records[k].amount /\ g[k] = f[k]
    BY <1>1, <1>3, Zenon DEF Amounts
  <1>8. g[n + 1] = r.amount
    BY <1>1, <1>3, Zenon DEF Amounts
  <1>9. RecordsOf(longer, v) = IF r.validator = v THEN S \cup {n + 1} ELSE S
    BY <1>1, <1>2, <1>3, Zenon DEF RecordsOf
  <1> HIDE DEF S, f, g
  <1>10. \A k \in S : f[k] \in Int /\ g[k] = f[k]
    BY <1>5, <1>6, <1>7, Zenon
  <1>11. SumOf(f, S) \in Int /\ SumOf(g, S) = SumOf(f, S)
    BY <1>4, <1>10, SumMember, SumSame
  <1>12. SumOf(g, S \cup {n + 1}) = SumOf(g, S) + g[n + 1]
    <2>1. n + 1 \notin S
      BY <1>3, <1>5, Zenon
    <2>2. \A k \in S \cup {n + 1} : g[k] \in Int
      BY <1>6, <1>8, <1>10, Zenon
    <2> QED BY <1>4, <2>1, <2>2, SumAdd
  <1> QED BY <1>8, <1>9, <1>11, <1>12 DEF longer, S, f, g

\* A vote, whatever record_vote and slash make of it, keeps the accounts.
LEMMA ObserveAccounts ==
    ASSUME DoubleSignPercent <= 100,
           NEW ss \in KeptState, Accounts(ss), NEW h \in 1 .. MaxHeight, NEW vote \in VotesAt(h)
    PROVE  Accounts(Observe(ss, vote, h))
  <1> DEFINE rec == RecordVote(ss, vote)
             evidence == Existing(ss, vote) \cup {vote}
             v == vote.validator
             t == Slash(rec, v, evidence, h)
             amount == SlashAmount(ss.stakes[v])
  <1>1. vote \in KeptVote /\ v \in Validators
    BY VoteType, MachineAssumption, SlashingAssumption
  <1>2. rec \in KeptState /\ rec.stakes = ss.stakes /\ rec.slashed = ss.slashed
    BY <1>1, RecordVoteKeeps, Zenon
  <1>3. evidence \in SUBSET KeptVote
    BY <1>1, Zenon DEF Existing, KeptState
  <1>4. Observe(ss, vote, h) \in {rec, t}
    BY Zenon DEF Observe
  <1>5. Accounts(rec)
    BY <1>2, Zenon DEF Accounts
  <1>6. CASE Observe(ss, vote, h) = t /\ t # rec
    <2>1. /\ t.stakes = [ss.stakes EXCEPT ![v] = SatSub(ss.stakes[v], amount)]
          /\ \E r \in KeptRecord : /\ t.slashed = Append(ss.slashed, r)
                                   /\ r.validator = v /\ r.amount = amount
      <3> HIDE DEF rec, evidence, v
      <3>1. t = rec \/ Taken(rec, t, v)
        BY <1>1, <1>2, <1>3, SlashTakes, Zenon
      <3> QED BY <1>2, <1>6, <3>1, Zenon DEF Taken
    <2>2. PICK r \in KeptRecord : /\ t.slashed = Append(ss.slashed, r)
                                  /\ r.validator = v /\ r.amount = amount
      BY <2>1, Zenon
    <2>3. ss.slashed \in Seq(KeptRecord) /\ ss.stakes \in [Validators -> Int]
      BY Zenon DEF KeptState
    <2> HIDE DEF rec, evidence, v, t, amount
    <2> SUFFICES ASSUME NEW w \in Validators
                 PROVE  /\ t.stakes[w] \in 0 .. InitialStake[w]
                        /\ SumOf(Amounts(t.slashed), RecordsOf(t.slashed, w))
                               = InitialStake[w] - t.stakes[w]
      BY <1>6, Zenon DEF Accounts
    <2> DEFINE sum == SumOf(Amounts(ss.slashed), RecordsOf(ss.slashed, w))
               new == SumOf(Amounts(t.slashed), RecordsOf(t.slashed, w))
    <2>4. ss.stakes[w] \in 0 .. InitialStake[w] /\ sum = InitialStake[w] - ss.stakes[w]
      BY Zenon DEF Accounts
    <2>5. sum \in Int /\ new = IF v = w THEN sum + amount ELSE sum
      BY <2>2, <2>3, SumOfAppended
    <2>6. InitialStake[w] \in 0 .. U64Max
      BY SlashingAssumption
    <2> HIDE DEF sum, new
    <2>7. CASE v = w
      <3>1. t.stakes[w] = SatSub(ss.stakes[w], amount)
        BY <1>1, <2>1, <2>3, <2>7, Zenon
      <3>2. ss.stakes[w] \in 0 .. U64Max
        BY <2>4, <2>6, SlashingAssumption
      <3>3. amount \in 0 .. ss.stakes[w]
        BY <2>7, <3>2, SlashAmountBound DEF amount
      <3>4. t.stakes[w] = ss.stakes[w] - amount
        BY <3>1, <3>2, <3>3, SlashingAssumption DEF SatSub
      <3> QED BY <2>4, <2>5, <2>6, <2>7, <3>2, <3>3, <3>4, SlashingAssumption DEF new
    <2>8. CASE v # w
      <3>1. t.stakes[w] = ss.stakes[w]
        BY <1>1, <2>1, <2>3, <2>8, Zenon
      <3> QED BY <2>4, <2>5, <2>8, <3>1 DEF new
    <2> QED BY <2>7, <2>8
  <1> QED BY <1>4, <1>5, <1>6, Zenon

\* "current_stake = original_stake - sum(slashed_amounts)" for every stake and
\* every sequence of penalties, as long as a penalty is at most the whole stake:
\* slash itself does not cap the percentage of the configuration.
THEOREM StakeTheorem ==
    ASSUME DoubleSignPercent <= 100
    PROVE  SmSpec => []StakeAccounting
  <1>1. SmInit => Accounts(slashing)
    <2> SUFFICES ASSUME SmInit, NEW v \in Validators
                 PROVE  /\ slashing.stakes[v] \in 0 .. InitialStake[v]
                        /\ SumOf(Amounts(slashing.slashed), RecordsOf(slashing.slashed, v))
                               = InitialStake[v] - slashing.stakes[v]
      BY Zenon DEF Accounts
    <2>1. slashing.stakes = InitialStake /\ slashing.slashed = <<>>
      BY DEF SmInit, NewSlashing
    <2>2. RecordsOf(<<>>, v) = {}
      BY DEF RecordsOf
    <2>3. SumOf(Amounts(<<>>), {}) = 0
      BY SumEmpty
    <2>4. InitialStake[v] \in 0 .. U64Max
      BY SlashingAssumption
    <2> QED BY <2>1, <2>2, <2>3, <2>4, SMTT(40)
  <1>2. SmTypeOK /\ Accounts(slashing) /\ [SmNext]_smVars => Accounts(slashing)'
    <2> SUFFICES ASSUME SmTypeOK, Accounts(slashing), [SmNext]_smVars PROVE Accounts(slashing')
      BY DEF Accounts
    <2>0. height \in 1 .. MaxHeight /\ slashing \in KeptState
      BY Zenon DEF SmTypeOK
    <2>1. ASSUME NEW vote \in VotesAt(height), HandleVote(vote) PROVE Accounts(slashing')
      BY <2>0, <2>1, ObserveAccounts, Zenon DEF HandleVote
    <2>2. CASE CommitHeight
      BY <2>2, Zenon DEF CommitHeight
    <2>3. ASSUME NEW v \in Validators, UnjailValidator(v) PROVE Accounts(slashing')
      <3>1. slashing'.stakes = slashing.stakes /\ slashing'.slashed = slashing.slashed
        BY <2>0, <2>3, Zenon DEF UnjailValidator, Unjail, KeptState
      <3> QED BY <3>1, Zenon DEF Accounts
    <2>4. CASE UNCHANGED smVars
      BY <2>4, Zenon DEF smVars
    <2> QED BY <2>1, <2>2, <2>3, <2>4, Zenon DEF SmNext
  <1>3. Accounts(slashing) => StakeAccounting
    <2> SUFFICES ASSUME Accounts(slashing), NEW v \in Validators
                 PROVE  /\ slashing.stakes[v] = InitialStake[v] - SlashedOf(v)
                        /\ TotalSlashed(slashing, v) = SlashedOf(v)
      BY Zenon DEF StakeAccounting
    <2>1. SlashedOf(v) = SumOf(Amounts(slashing.slashed), RecordsOf(slashing.slashed, v))
      <3>1. {k \in DOMAIN Amounts(slashing.slashed) : slashing.slashed[k].validator = v}
              = RecordsOf(slashing.slashed, v)
        BY Zenon DEF Amounts, RecordsOf
      <3>2. SlashedOf(v) = SumOf(Amounts(slashing.slashed),
                {k \in DOMAIN Amounts(slashing.slashed) : slashing.slashed[k].validator = v})
        BY DEF SlashedOf, SumOf, MapThenSumSet, MapThenFoldSet, Amounts
      <3> QED BY <3>1, <3>2
    <2>2. /\ slashing.stakes[v] \in 0 .. InitialStake[v]
          /\ SlashedOf(v) = InitialStake[v] - slashing.stakes[v]
      BY <2>1, Zenon DEF Accounts
    <2>3. InitialStake[v] \in 0 .. U64Max
      BY SlashingAssumption
    <2> DEFINE total == SlashedOf(v)
    <2> HIDE DEF total
    <2>4. total = InitialStake[v] - slashing.stakes[v]
      BY <2>2 DEF total
    <2>5. slashing.stakes[v] = InitialStake[v] - total /\ TotalSlashed(slashing, v) = total
      BY <2>2, <2>3, <2>4, SlashingAssumption DEF TotalSlashed, SatSub
    <2> QED BY <2>5 DEF total
  <1> QED BY <1>1, <1>2, <1>3, SlashingTypes, PTL DEF SmSpec

-----------------------------------------------------------------------------
\* The list is never empty, and no validator is without power.
GenInv ==
    \E n \in Nat \ {0} : power \in [0 .. n - 1 -> Nat \ {0}]

\* size is the length of the list.
LEMMA SizeOfList ==
    ASSUME NEW n \in Nat \ {0}, power \in [0 .. n - 1 -> Nat \ {0}]
    PROVE  /\ size = n /\ DOMAIN power = 0 .. n - 1 /\ VS!Validators = 0 .. n - 1
           /\ IsFiniteSet(0 .. n - 1) /\ Cardinality(0 .. n - 1) = n
  <1>1. DOMAIN power = 0 .. n - 1
    OBVIOUS
  <1>2. IsFiniteSet(0 .. n - 1) /\ Cardinality(0 .. n - 1) = n
    BY FS_Interval
  <1> QED BY <1>1, <1>2 DEF size, VS!Validators

\* Reading a genesis file keeps the list well-formed.
LEMMA GenStep == GenInv /\ [GenNext]_power => GenInv'
  <1> SUFFICES ASSUME GenInv, [GenNext]_power PROVE GenInv'
    OBVIOUS
  <1>1. PICK n \in Nat \ {0} : power \in [0 .. n - 1 -> Nat \ {0}]
    BY DEF GenInv
  <1>2. CASE power' = power
    BY <1>1, <1>2, SMTT(40) DEF GenInv
  <1>3. CASE GenNext
    <2>1. PICK p \in ConfiguredPowers : AddValidator(p)
      BY <1>3 DEF GenNext
    <2>2. size = n
      BY <1>1, SizeOfList
    <2>3. power' = [v \in 0 .. n |-> IF v = n THEN EffectivePower(p) ELSE power[v]]
      BY <2>1, <2>2 DEF AddValidator
    <2>4. EffectivePower(p) \in Nat \ {0}
      BY GenesisAssumption DEF EffectivePower
    <2>5. n + 1 \in Nat \ {0} /\ (n + 1) - 1 = n
      OBVIOUS
    <2>6. power' \in [0 .. n -> Nat \ {0}]
      BY <1>1, <2>3, <2>4
    <2> QED BY <2>5, <2>6 DEF GenInv
  <1> QED BY <1>2, <1>3

\* The first validator of the file makes a well-formed list.
LEMMA GenStart == GenInit => GenInv
  <1> SUFFICES ASSUME GenInit PROVE GenInv
    OBVIOUS
  <1>1. PICK p \in ConfiguredPowers : power = [v \in {0} |-> EffectivePower(p)]
    BY DEF GenInit
  <1>2. EffectivePower(p) \in Nat \ {0}
    BY GenesisAssumption DEF EffectivePower
  <1>3. power \in [0 .. 1 - 1 -> Nat \ {0}]
    BY <1>1, <1>2
  <1> QED BY <1>3 DEF GenInv

\* A quorum is a set of listed validators with the power of a quorum.
LEMMA QuorumSum ==
    ASSUME NEW n \in Nat \ {0}, power \in [0 .. n - 1 -> Nat \ {0}]
    PROVE  /\ VS!Quorums = {S \in SUBSET (0 .. n - 1) : SumOf(power, S) >= VS!QuorumPower(n)}
           /\ TotalPower = SumOf(power, 0 .. n - 1)
  <1>1. \A S : VS!PowerOf(power, S) = SumOf(power, S)
    BY DEF VS!PowerOf, VS!MapThenSumSet, VS!MapThenFoldSet, SumOf, MapThenSumSet, MapThenFoldSet
  <1>2. size = n /\ DOMAIN power = 0 .. n - 1 /\ VS!Validators = 0 .. n - 1
    BY SizeOfList
  <1> QED BY <1>1, <1>2 DEF VS!Quorums, TotalPower

\* f is the largest number with 3f < n.
LEMMA FaultBoundValue ==
    ASSUME NEW n \in Nat \ {0}
    PROVE  \E f \in Nat : /\ VS!FaultBound(n) = f /\ VS!QuorumPower(n) = 2 * f + 1
                          /\ 3 * f < n /\ n <= 3 * f + 3
  BY DEF VS!FaultBound, VS!QuorumPower

\* Two quorums meet whenever the validators of the file together have less than
\* the power of two quorums, for every file that can be written.
THEOREM PowerBudgetTheorem == GenSpec => []PowerBudget
  <1>1. GenInv => PowerBudget
    <2> SUFFICES ASSUME GenInv, TotalPower < 2 * VS!QuorumPower(size),
                        NEW S \in VS!Quorums, NEW T \in VS!Quorums
                 PROVE  S \cap T # {}
      BY DEF PowerBudget, VS!QuorumsIntersect
    <2>1. PICK n \in Nat \ {0} : power \in [0 .. n - 1 -> Nat \ {0}]
      BY Zenon DEF GenInv
    <2>2. size = n /\ IsFiniteSet(0 .. n - 1)
      BY <2>1, SizeOfList
    <2>3. PICK f \in Nat : VS!QuorumPower(n) = 2 * f + 1
      BY FaultBoundValue
    <2>4. /\ S \in SUBSET (0 .. n - 1) /\ SumOf(power, S) >= 2 * f + 1
          /\ T \in SUBSET (0 .. n - 1) /\ SumOf(power, T) >= 2 * f + 1
          /\ SumOf(power, 0 .. n - 1) < 2 * (2 * f + 1)
      BY <2>1, <2>2, <2>3, QuorumSum
    <2>5. \A v \in 0 .. n - 1 : power[v] \in Nat
      BY <2>1
    <2>6. SumOf(power, S) \in Nat /\ SumOf(power, T) \in Nat /\ SumOf(power, 0 .. n - 1) \in Nat
      BY <2>2, <2>4, <2>5, SumPart, Zenon
    <2>7. SumOf(power, S) + SumOf(power, T) > SumOf(power, 0 .. n - 1)
      BY <2>4, <2>6
    <2> QED BY <2>2, <2>4, <2>5, <2>7, PartsMeet, Zenon
  <1> QED BY <1>1, GenStart, GenStep, PTL DEF GenSpec

\* With equal powers the power of a set of voters is its size.
LEMMA UnitQuorums ==
    ASSUME NEW n \in Nat \ {0}, power \in [0 .. n - 1 -> Nat \ {0}], UnitPowers
    PROVE  VS!Quorums = {S \in SUBSET (0 .. n - 1) : Cardinality(S) >= VS!QuorumPower(n)}
  <1>1. IsFiniteSet(0 .. n - 1)
    BY SizeOfList, Zenon
  <1>2. \A v \in 0 .. n - 1 : power[v] = 1
    BY DEF UnitPowers
  <1>3. ASSUME NEW S \in SUBSET (0 .. n - 1) PROVE SumOf(power, S) = Cardinality(S)
    <2>1. IsFiniteSet(S)
      BY <1>1, FS_Subset, Zenon
    <2> QED BY <1>2, <2>1, SumOfOnes, Zenon
  <1> QED BY <1>3, QuorumSum

\* How many members two sets of validators have in common.
LEMMA CommonMembers ==
    ASSUME NEW n \in Nat \ {0}, NEW S \in SUBSET (0 .. n - 1), NEW T \in SUBSET (0 .. n - 1)
    PROVE  /\ Cardinality(S) \in Nat /\ Cardinality(T) \in Nat /\ Cardinality(S \cap T) \in Nat
           /\ Cardinality(S) + Cardinality(T) - Cardinality(S \cap T) <= n
  <1>1. IsFiniteSet(0 .. n - 1) /\ Cardinality(0 .. n - 1) = n
    BY FS_Interval
  <1>2. S \cup T \in SUBSET (0 .. n - 1) /\ S \cap T \in SUBSET (0 .. n - 1)
    OBVIOUS
  <1>3. /\ IsFiniteSet(S) /\ IsFiniteSet(T) /\ IsFiniteSet(S \cap T)
        /\ Cardinality(S \cup T) <= n
    BY <1>1, <1>2, FS_Subset, Zenon
  <1>4. Cardinality(S \cup T) = Cardinality(S) + Cardinality(T) - Cardinality(S \cap T)
    BY <1>3, FS_Union
  <1> QED BY <1>3, <1>4, FS_CardinalityType

\* Two disjoint intervals of validators, each as large as a quorum.
LEMMA DisjointQuorums ==
    ASSUME NEW n \in Nat \ {0}, power \in [0 .. n - 1 -> Nat \ {0}], UnitPowers,
           n \in {2, 3, 6}
    PROVE  ~ VS!QuorumsIntersect
  <1>1. ASSUME NEW q \in {1, 3}, 2 * q <= n, VS!QuorumPower(n) = q
        PROVE  ~ VS!QuorumsIntersect
    <2> DEFINE S == 0 .. q - 1
               T == q .. 2 * q - 1
    <2>1. Cardinality(S) = q /\ Cardinality(T) = q
      <3>1. q \in Int /\ 0 \in Int /\ q - 1 \in Int /\ 2 * q - 1 \in Int
        OBVIOUS
      <3>2. /\ Cardinality(S) = IF 0 > q - 1 THEN 0 ELSE q - 1 - 0 + 1
            /\ Cardinality(T) = IF q > 2 * q - 1 THEN 0 ELSE 2 * q - 1 - q + 1
        BY <3>1, FS_Interval, Zenon
      <3> HIDE DEF S, T
      <3> QED BY <3>2
    <2>2. S \in SUBSET (0 .. n - 1) /\ T \in SUBSET (0 .. n - 1) /\ S \cap T = {}
      BY <1>1
    <2>3. S \in VS!Quorums /\ T \in VS!Quorums
      BY <1>1, <2>1, <2>2, UnitQuorums, SMTT(40)
    <2> QED BY <2>2, <2>3 DEF VS!QuorumsIntersect
  <1>2. \/ n \in {2, 3} /\ VS!QuorumPower(n) = 1
        \/ n = 6 /\ VS!QuorumPower(n) = 3
    BY DEF VS!QuorumPower, VS!FaultBound
  <1> QED BY <1>1, <1>2

\* With power 1 each, any two quorums meet for every number of validators but 2,
\* 3 and 6, and for these three there are two that do not.
THEOREM SafeSizesTheorem == GenSpec => []SafeSizes
  <1>1. GenInv => SafeSizes
    <2> SUFFICES ASSUME GenInv, UnitPowers
                 PROVE  VS!QuorumsIntersect <=> size \notin {2, 3, 6}
      BY DEF SafeSizes
    <2>1. PICK n \in Nat \ {0} : power \in [0 .. n - 1 -> Nat \ {0}]
      BY DEF GenInv
    <2>2. size = n
      BY <2>1, SizeOfList
    <2>3. ASSUME n \notin {2, 3, 6}, NEW S \in VS!Quorums, NEW T \in VS!Quorums, S \cap T = {}
          PROVE  FALSE
      <3>1. PICK f \in Nat : /\ VS!QuorumPower(n) = 2 * f + 1
                             /\ 3 * f < n /\ n <= 3 * f + 3
        BY FaultBoundValue, Zenon
      <3>2. /\ S \in SUBSET (0 .. n - 1) /\ Cardinality(S) >= 2 * f + 1
            /\ T \in SUBSET (0 .. n - 1) /\ Cardinality(T) >= 2 * f + 1
        BY <2>1, <3>1, UnitQuorums
      <3>3. Cardinality(S \cap T) = 0
        BY <2>3, FS_EmptySet
      <3>4. /\ Cardinality(S) \in Nat /\ Cardinality(T) \in Nat
            /\ Cardinality(S) + Cardinality(T) - Cardinality(S \cap T) <= n
        BY <3>2, CommonMembers, Zenon
      <3>5. 4 * f + 2 <= n
        BY <3>2, <3>3, <3>4
      <3> QED BY <2>3, <3>1, <3>5
    <2>4. n \notin {2, 3, 6} => VS!QuorumsIntersect
      BY <2>3 DEF VS!QuorumsIntersect
    <2>5. n \in {2, 3, 6} => ~ VS!QuorumsIntersect
      BY <2>1, DisjointQuorums, SMTT(40)
    <2> QED BY <2>2, <2>4, <2>5
  <1> QED BY <1>1, GenStart, GenStep, PTL DEF GenSpec

\* With power 1 each and n = 3f + 1, any two quorums share more than f validators
\* and the n - f others are a quorum when f validators are silent.
THEOREM ByzantineMarginTheorem == GenSpec => []ByzantineMargin
  <1>1. GenInv => ByzantineMargin
    <2> SUFFICES ASSUME GenInv, UnitPowers, size = 3 * VS!FaultBound(size) + 1
                 PROVE  /\ \A S, T \in VS!Quorums : Cardinality(S \cap T) > VS!FaultBound(size)
                        /\ \A F \in SUBSET DOMAIN power :
                              Cardinality(F) = VS!FaultBound(size)
                                => VS!QuorumMet(DOMAIN power \ F)
      BY DEF ByzantineMargin
    <2>1. PICK n \in Nat \ {0} : power \in [0 .. n - 1 -> Nat \ {0}]
      BY Zenon DEF GenInv
    <2>2. size = n /\ DOMAIN power = 0 .. n - 1 /\ IsFiniteSet(0 .. n - 1) /\ Cardinality(0 .. n - 1) = n
      BY <2>1, SizeOfList
    <2>3. PICK f \in Nat : VS!FaultBound(n) = f /\ VS!QuorumPower(n) = 2 * f + 1
      BY FaultBoundValue
    <2>4. n = 3 * f + 1
      BY <2>2, <2>3
    <2>5. VS!Quorums = {S \in SUBSET (0 .. n - 1) : Cardinality(S) >= 2 * f + 1}
      BY <2>1, <2>3, UnitQuorums, SMTT(40)
    <2>6. ASSUME NEW S \in VS!Quorums, NEW T \in VS!Quorums
          PROVE  Cardinality(S \cap T) > f
      <3>1. /\ S \in SUBSET (0 .. n - 1) /\ Cardinality(S) >= 2 * f + 1
            /\ T \in SUBSET (0 .. n - 1) /\ Cardinality(T) >= 2 * f + 1
        BY <2>5
      <3>2. /\ Cardinality(S) \in Nat /\ Cardinality(T) \in Nat /\ Cardinality(S \cap T) \in Nat
            /\ Cardinality(S) + Cardinality(T) - Cardinality(S \cap T) <= n
        BY <3>1, CommonMembers, Zenon
      <3> QED BY <2>4, <3>1, <3>2
    <2>7. ASSUME NEW F \in SUBSET (0 .. n - 1), Cardinality(F) = f
          PROVE  VS!QuorumMet((0 .. n - 1) \ F)
      <3>1. IsFiniteSet(F)
        BY <2>2, FS_Subset, Zenon
      <3>2. Cardinality((0 .. n - 1) \ F) = n - Cardinality((0 .. n - 1) \cap F)
        BY <2>2, <3>1, FS_Difference, Zenon
      <3>3. (0 .. n - 1) \cap F = F
        BY Zenon
      <3>4. Cardinality((0 .. n - 1) \ F) = n - f
        BY <2>7, <3>2, <3>3, Zenon
      <3> DEFINE c == Cardinality((0 .. n - 1) \ F)
      <3>5. c >= 2 * f + 1
        <4>1. c = n - f
          BY <3>4
        <4> HIDE DEF c
        <4> QED BY <2>4, <4>1
      <3>6. (0 .. n - 1) \ F \in SUBSET (0 .. n - 1)
        OBVIOUS
      <3> QED BY <2>5, <3>5, <3>6 DEF VS!QuorumMet
    <2> QED BY <2>2, <2>3, <2>6, <2>7
  <1> QED BY <1>1, GenStart, GenStep, PTL DEF GenSpec

-----------------------------------------------------------------------------
\* PowerOf is a sum over the voters.
LEMMA PowerSum ==
    ASSUME NEW S
    PROVE  PowerOf(Power, S) = SumOf(Power, S)
  BY DEF PowerOf, SumOf

\* There are finitely many validators, each with a power.
LEMMA ValidatorsFinite ==
    /\ IsFiniteSet(Validators) /\ Cardinality(Validators) = N
    /\ \A v \in Validators : Power[v] \in Nat
  <1>1. N \in Nat \ {0}
    BY ValidatorSetAssumption, SMTT(40)
  <1>2. IsFiniteSet(0 .. N - 1) /\ Cardinality(0 .. N - 1) = N
    BY <1>1, FS_Interval, SMTT(40)
  <1> QED BY <1>2, ValidatorSetAssumption, ZenonT(40) DEF Validators

\* Two quorums meet whenever the validators together have less than the power of
\* two quorums: quorum_met then cannot hold for two disjoint sets of voters.
THEOREM PowerIntersects ==
    ASSUME PowerOf(Power, Validators) < 2 * QuorumPower(N)
    PROVE  QuorumsIntersect
  <1> SUFFICES ASSUME NEW S \in Quorums, NEW T \in Quorums
               PROVE  S \cap T # {}
    BY Zenon DEF QuorumsIntersect
  <1>1. /\ S \in SUBSET Validators /\ SumOf(Power, S) >= QuorumPower(N)
        /\ T \in SUBSET Validators /\ SumOf(Power, T) >= QuorumPower(N)
    BY PowerSum, SMTT(40) DEF Quorums
  <1>2. SumOf(Power, Validators) < 2 * QuorumPower(N)
    BY PowerSum, SMTT(40)
  <1>3. /\ SumOf(Power, S) \in Nat /\ SumOf(Power, T) \in Nat /\ SumOf(Power, Validators) \in Nat
    BY <1>1, ValidatorsFinite, SumPart, ZenonT(40)
  <1>4. QuorumPower(N) \in Int
    BY ValidatorSetAssumption, SMTT(40) DEF QuorumPower, FaultBound
  <1>5. SumOf(Power, S) + SumOf(Power, T) > SumOf(Power, Validators)
    BY <1>1, <1>2, <1>3, <1>4, SMTT(40)
  <1> QED BY <1>1, <1>5, ValidatorsFinite, PartsMeet, ZenonT(40)

\* With voting power 1 each, for every number of validators but 2, 3 and 6, any
\* two sets that quorum_met accepts share a validator.
THEOREM UnitPowerIntersects ==
    ASSUME \A v \in Validators : Power[v] = 1, N \notin {2, 3, 6}
    PROVE  QuorumsIntersect
  <1>1. PowerOf(Power, Validators) = N
    BY PowerSum, ValidatorsFinite, SumOfOnes, ZenonT(40)
  <1>2. PICK f \in Nat : FaultBound(N) = f /\ 3 * f <= N - 1 /\ N - 1 < 3 * f + 3
    BY ValidatorSetAssumption, SMTT(40) DEF FaultBound
  <1>3. N < 2 * (2 * f + 1)
    BY <1>2, ValidatorSetAssumption, SMTT(40)
  <1>4. PowerOf(Power, Validators) < 2 * QuorumPower(N)
    BY <1>1, <1>2, <1>3, SMTT(40) DEF QuorumPower
  <1> QED BY <1>4, PowerIntersects, ZenonT(40)
=============================================================================
