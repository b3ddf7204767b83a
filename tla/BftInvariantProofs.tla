------------------------- MODULE BftInvariantProofs -------------------------
(***************************************************************************)
(* What the handlers of bft/node.rs do to one node, and to the invariant   *)
(* behind agreement, for every number of validators, every assignment of   *)
(* powers and every schedule.                                              *)
(*                                                                         *)
(* The handlers call each other, so each is taken apart once: a set P of   *)
(* node states that the elementary changes (counting a vote, locking,      *)
(* sending, setting the step, committing) keep, or leave for a set R, is   *)
(* kept, or left for R, by every handler.  Each property is then a choice  *)
(* of P and R.  The sections are: types; the rule for the handlers; where  *)
(* a step can take a node; whom a node jails; the inductive invariant      *)
(* behind agreement, as a predicate Inv(nd) on the states of all nodes,    *)
(* and what a single message does to it.                                   *)
(***************************************************************************)
EXTENDS BftCluster, TLAPS

\* The method of every step that names none.
USE ZenonT(40)

\* The saturating operations of slash stay within u64.
LEMMA SatTypes ==
    ASSUME NEW a \in Nat, NEW b \in 0 .. U64Max
    PROVE  /\ SatMul(a, b) \in 0 .. U64Max
           /\ SatAdd(a, b) \in 0 .. U64Max
           /\ SatSub(a, b) \in 0 .. a
  <1>1. a * b \in Nat
    BY SlashingAssumption, SMTT(40)
  <1> QED BY <1>1, SlashingAssumption, SMTT(40) DEF SatMul, SatAdd, SatSub

\* A penalty is a u64, and so is what it leaves of the stake.
LEMMA AmountType ==
    ASSUME NEW stake \in 0 .. U64Max
    PROVE  SlashAmount(stake) \in 0 .. U64Max
  <1>1. SatMul(stake, DoubleSignPercent) \in 0 .. U64Max
    BY SatTypes, SlashingAssumption, SMTT(40)
  <1> DEFINE m == SatMul(stake, DoubleSignPercent)
  <1>2. m \in 0 .. U64Max => m \div 100 \in 0 .. U64Max
    <2> HIDE DEF m
    <2> QED BY SlashingAssumption, SMTT(40)
  <1> QED BY <1>1, <1>2, SMTT(40) DEF SlashAmount

\* record_vote keeps the slashing state well-formed.
LEMMA RecordVoteType ==
    ASSUME NEW ss \in SlashingState, NEW vote \in Vote
    PROVE  /\ RecordVote(ss, vote) \in SlashingState
           /\ Existing(ss, vote) \cup {vote} \in SUBSET Vote
  BY DEF SlashingState, RecordVote, Existing

\* slash keeps the slashing state well-formed.
LEMMA SlashType ==
    ASSUME NEW ss \in SlashingState, NEW v \in Validators,
           NEW evidence \in SUBSET Vote, NEW height \in Nat
    PROVE  Slash(ss, v, evidence, height) \in SlashingState
  <1> DEFINE amount == SlashAmount(ss.stakes[v])
             until == SatAdd(height, JailDuration)
             r == [validator |-> v, evidence |-> evidence, amount |-> amount, until |-> until]
  <1>1. ss.stakes[v] \in 0 .. U64Max
    BY SMTT(40) DEF SlashingState
  <1>2. amount \in 0 .. U64Max /\ until \in 0 .. U64Max
    BY <1>1, AmountType, SatTypes, SlashingAssumption
  <1>3. SatSub(ss.stakes[v], amount) \in 0 .. U64Max
    <2> DEFINE st == ss.stakes[v]
    <2>0. st \in Nat
      BY <1>1, SlashingAssumption, SMTT(40)
    <2>1. SatSub(st, amount) \in 0 .. st
      <3> HIDE DEF st, amount
      <3> QED BY <1>2, <2>0, SatTypes
    <2>2. st <= U64Max
      BY <1>1, SlashingAssumption, SMTT(40)
    <2> HIDE DEF st
    <2> QED BY <2>0, <2>1, <2>2, SlashingAssumption, SMTT(40) DEF st
  <1>4. r \in SlashingRecord
    BY <1>2, SMTT(40) DEF SlashingRecord
  <1>5. Append(ss.slashed, r) \in Seq(SlashingRecord)
    BY <1>4, SMTT(40) DEF SlashingState
  <1> HIDE DEF amount, until, r
  <1> QED BY <1>1, <1>2, <1>3, <1>5 DEF Slash, SlashingState, amount, until, r

\* What handle_vote does with a vote keeps the slashing state well-formed.
LEMMA ObserveType ==
    ASSUME NEW ss \in SlashingState, NEW vote \in Vote, NEW height \in Nat
    PROVE  Observe(ss, vote, height) \in SlashingState
  <1>1. vote.validator \in Validators
    BY SMTT(40) DEF Vote
  <1>2. Slash(RecordVote(ss, vote), vote.validator, Existing(ss, vote) \cup {vote}, height)
          \in SlashingState
    BY <1>1, RecordVoteType, SlashType, SMTT(40)
  <1> QED BY <1>2, RecordVoteType, SMTT(40) DEF Observe

-----------------------------------------------------------------------------
\* The part of the type invariant that the handlers of one node preserve.
NodeOK(s) ==
    /\ s \in NodeState
    /\ s.height = Len(s.chain) + 1
    /\ s.proposal # None => ValidBlock(s, s.proposal)

\* The assignments to step keep a node well-formed.
LEMMA SetStepType ==
    ASSUME NEW s, NodeOK(s), NEW step \in Steps
    PROVE  NodeOK(SetStep(s, step))
  BY SMTT(40) DEF NodeOK, NodeState, SetStep, ValidBlock

\* Network::broadcast keeps a node well-formed.
LEMMA SendType ==
    ASSUME NEW s, NodeOK(s), NEW m \in Message
    PROVE  NodeOK(Send(s, m))
  BY SMTT(40) DEF NodeOK, NodeState, Send, ValidBlock

\* broadcast_vote makes a well-formed vote.
LEMMA VoteOfType ==
    ASSUME NEW s, NodeOK(s), NEW type \in {"prevote", "precommit"},
           NEW hash \in Hash, NEW self \in Validators
    PROVE  VoteOf(s, type, hash, self) \in Vote
  BY SMTT(40) DEF NodeOK, NodeState, VoteOf, Vote

\* Counting a vote keeps a node well-formed.
LEMMA CountType ==
    ASSUME NEW s, NodeOK(s), NEW vote \in Vote
    PROVE  NodeOK(CountPrevote(s, vote)) /\ NodeOK(CountPrecommit(s, vote))
  <1>1. Observe(s.slashing, vote, s.height) \in SlashingState
    BY ObserveType, SMTT(40) DEF NodeOK, NodeState
  <1>2. vote.hash # ZERO_HASH => <<vote.hash, vote.validator>> \in Block \X Validators
    BY SMTT(40) DEF Vote, Hash
  <1>3. CountPrevote(s, vote) \in NodeState
    BY <1>1, <1>2 DEF NodeOK, NodeState, CountPrevote
  <1>4. CountPrecommit(s, vote) \in NodeState
    BY <1>1, <1>2 DEF NodeOK, NodeState, CountPrecommit
  <1> QED BY <1>3, <1>4, SMTT(40) DEF NodeOK, NodeState, CountPrevote, CountPrecommit, ValidBlock

\* commit_block of a block that validate_block accepts keeps a node well-
\* formed.
LEMMA CommitBlockType ==
    ASSUME NEW s, NodeOK(s), s.proposal # None
    PROVE  NodeOK(CommitBlock(s, s.proposal))
  <1> DEFINE b == s.proposal
  <1>1. b \in Block /\ b.height = s.height /\ b.round = s.round
    BY SMTT(40) DEF NodeOK, NodeState, ValidBlock
  <1>2. <<b.round, b.txs>> \in Entry
    BY <1>1, SMTT(40) DEF Block, Entry
  <1>3. /\ Append(s.chain, <<b.round, b.txs>>) \in Seq(Entry)
        /\ Len(Append(s.chain, <<b.round, b.txs>>)) = Len(s.chain) + 1
    BY <1>2, SMTT(40) DEF NodeOK, NodeState
  <1>4. CASE b.txs \in Unappliable
    BY <1>4 DEF NodeOK, NodeState, CommitBlock, ValidBlock
  <1>5. CASE b.txs \notin Unappliable
    <2> DEFINE t == CommitBlock(s, b)
               c == Append(s.chain, <<b.round, b.txs>>)
    <2>1. b.height + 1 \in Nat
      BY <1>1, SMTT(40) DEF NodeOK, NodeState
    <2>2. t = [FreshRound(s) EXCEPT !.chain = c, !.height = b.height + 1, !.round = 0,
                                    !.step = "Propose", !.locked = None]
      BY <1>5, SMTT(40) DEF CommitBlock, FreshRound, NodeOK, NodeState
    <2> HIDE DEF c
    <2>3. t \in NodeState
      <3> DEFINE f == FreshRound(s)
                 hh == b.height + 1
      <3>1. f \in NodeState /\ c \in Seq(Entry)
        BY <1>3 DEF NodeOK, NodeState, FreshRound, c
      <3>2. hh \in Nat /\ 0 \in Nat /\ "Propose" \in Steps
        BY <2>1, SMTT(40) DEF Steps
      <3>3. t = [f EXCEPT !.chain = c, !.height = hh, !.round = 0,
                          !.step = "Propose", !.locked = None]
        BY <2>2, SMTT(40)
      <3> HIDE DEF f, hh, t
      <3> QED BY <3>1, <3>2, <3>3 DEF NodeState
    <2>4. t.height = b.height + 1 /\ t.chain = c /\ t.proposal = None
      BY <2>2, SMTT(40) DEF NodeOK, NodeState, FreshRound
    <2> HIDE DEF t
    <2> QED BY <1>1, <1>3, <2>3, <2>4, SMTT(40) DEF NodeOK, c, t
  <1> QED BY <1>4, <1>5, SMTT(40)

\* handle_vote keeps a node well-formed, for a precommit.
LEMMA HandlePrecommitType ==
    ASSUME NEW s, NodeOK(s), NEW vote \in Vote
    PROVE  NodeOK(HandlePrecommit(s, vote))
  <1> DEFINE t == CountPrecommit(s, vote)
  <1>1. NodeOK(t)
    BY CountType, SMTT(40)
  <1>2. ASSUME vote.hash # ZERO_HASH, t.proposal = vote.hash
        PROVE  NodeOK(CommitBlock(t, t.proposal))
    <2>1. t.proposal # None
      BY <1>2, NodeAssumption, SMTT(40) DEF Vote, Hash
    <2> HIDE DEF t
    <2> QED BY <1>1, <2>1, CommitBlockType, SMTT(40)
  <1> QED BY <1>1, <1>2, SMTT(40) DEF HandlePrecommit

\* broadcast_vote keeps a node well-formed, for a precommit.
LEMMA BroadcastPrecommitType ==
    ASSUME NEW s, NodeOK(s), NEW hash \in Hash, NEW self \in Validators
    PROVE  NodeOK(BroadcastPrecommit(s, hash, self))
  <1>1. VoteOf(s, "precommit", hash, self) \in Vote
    BY VoteOfType, SMTT(40)
  <1> QED BY <1>1, HandlePrecommitType, SendType, SMTT(40) DEF BroadcastPrecommit, Message

\* handle_vote keeps a node well-formed, for a prevote.
LEMMA HandlePrevoteType ==
    ASSUME NEW s, NodeOK(s), NEW vote \in Vote, NEW self \in Validators
    PROVE  NodeOK(HandlePrevote(s, vote, self))
  <1> DEFINE t == CountPrevote(s, vote)
             u == [t EXCEPT !.locked = vote.hash]
             w == BroadcastPrecommit(u, vote.hash, self)
  <1>1. NodeOK(t)
    BY CountType, SMTT(40)
  <1>2. ASSUME vote.hash # ZERO_HASH
        PROVE  NodeOK(SetStep(w, "Precommit"))
    <2>1. vote.hash \in Block /\ vote.hash \in Hash
      BY <1>2, SMTT(40) DEF Vote, Hash
    <2>2. NodeOK(u)
      <3> HIDE DEF t
      <3> QED BY <1>1, <2>1 DEF NodeOK, NodeState, ValidBlock
    <2>3. NodeOK(w)
      <3> HIDE DEF u
      <3> QED BY <2>1, <2>2, BroadcastPrecommitType, SMTT(40)
    <2> HIDE DEF w
    <2> QED BY <2>3, SetStepType, SMTT(40) DEF Steps
  <1> QED BY <1>1, <1>2, SMTT(40) DEF HandlePrevote

\* broadcast_vote keeps a node well-formed, for a prevote.
LEMMA BroadcastPrevoteType ==
    ASSUME NEW s, NodeOK(s), NEW hash \in Hash, NEW self \in Validators
    PROVE  NodeOK(BroadcastPrevote(s, hash, self))
  <1>1. VoteOf(s, "prevote", hash, self) \in Vote
    BY VoteOfType, SMTT(40)
  <1> QED BY <1>1, HandlePrevoteType, SendType, SMTT(40) DEF BroadcastPrevote, Message

\* handle_proposal keeps a node well-formed.
LEMMA HandleProposalType ==
    ASSUME NEW s, NodeOK(s), NEW p \in Proposal, NEW self \in Validators
    PROVE  NodeOK(HandleProposal(s, p, self))
  <1> DEFINE t == [s EXCEPT !.proposal = p.block]
  <1>1. p.block \in Block /\ p.block \in Hash /\ ZERO_HASH \in Hash
    BY SMTT(40) DEF Proposal, Hash
  <1>2. ASSUME NEW u, NodeOK(u), NEW hash \in Hash
        PROVE  NodeOK(SetStep(BroadcastPrevote(u, hash, self), "Prevote"))
    BY <1>2, BroadcastPrevoteType, SetStepType, SMTT(40) DEF Steps
  <1>3. ValidBlock(s, p.block) => NodeOK(t)
    BY <1>1, SMTT(40) DEF NodeOK, NodeState, ValidBlock
  <1> HIDE DEF t
  <1> QED BY <1>1, <1>2, <1>3, SMTT(40) DEF HandleProposal, t

\* maybe_propose keeps a node well-formed.
LEMMA MaybeProposeType ==
    ASSUME NEW s, NodeOK(s), NEW txs \in Payloads, NEW self \in Validators
    PROVE  NodeOK(MaybePropose(s, txs, self))
  <1> DEFINE b == BuildBlock(s, txs)
             p == [type |-> "proposal", height |-> s.height, round |-> s.round,
                   block |-> b, proposer |-> self]
             t == [s EXCEPT !.proposed = TRUE, !.proposal = b]
  <1>1. b \in Block /\ ValidBlock(s, b)
    BY SMTT(40) DEF NodeOK, NodeState, BuildBlock, Block, ValidBlock
  <1>2. p \in Proposal
    <2> HIDE DEF b
    <2> QED BY <1>1, SMTT(40) DEF NodeOK, NodeState, Proposal
  <1>3. NodeOK(t)
    <2> HIDE DEF b
    <2> QED BY <1>1 DEF NodeOK, NodeState, ValidBlock
  <1>4. MaybePropose(s, txs, self) = HandleProposal(Send(t, p), p, self)
    BY SMTT(40) DEF MaybePropose
  <1> HIDE DEF p, t
  <1>5. NodeOK(Send(t, p))
    BY <1>2, <1>3, SendType, SMTT(40) DEF Message
  <1> QED BY <1>2, <1>4, <1>5, HandleProposalType, SMTT(40)

\* handle_message keeps a node well-formed.
LEMMA HandleMessageType ==
    ASSUME NEW s, NodeOK(s), NEW m \in Message, NEW self \in Validators
    PROVE  NodeOK(HandleMessage(s, m, self))
  <1>1. CASE m \in Proposal
    <2>1. m.type = "proposal"
      BY <1>1, SMTT(40) DEF Proposal
    <2> QED BY <1>1, <2>1, HandleProposalType, SMTT(40) DEF HandleMessage
  <1>2. CASE m \in Vote
    <2>1. m.type = "prevote" \/ m.type = "precommit"
      BY <1>2, SMTT(40) DEF Vote
    <2> QED BY <1>2, <2>1, HandlePrevoteType, HandlePrecommitType, SMTT(40) DEF HandleMessage
  <1> QED BY <1>1, <1>2, SMTT(40) DEF Message

\* The three cases of check_timeouts keep a node well-formed.
LEMMA TimeoutType ==
    ASSUME NEW s, NodeOK(s), NEW self \in Validators
    PROVE  /\ NodeOK(OnProposeTimeout(s, self))
           /\ NodeOK(OnPrevoteTimeout(s, self))
           /\ NodeOK(OnPrecommitTimeout(s))
  <1>1. ZERO_HASH \in Hash
    BY SMTT(40) DEF Hash
  <1>2. NodeOK(OnProposeTimeout(s, self))
    BY <1>1, BroadcastPrevoteType, SetStepType, SMTT(40) DEF OnProposeTimeout, Steps
  <1>3. NodeOK(OnPrevoteTimeout(s, self))
    BY <1>1, BroadcastPrecommitType, SetStepType, SMTT(40) DEF OnPrevoteTimeout, Steps
  <1>4. NodeOK(OnPrecommitTimeout(s))
    <2> DEFINE f == FreshRound(s)
               t == OnPrecommitTimeout(s)
    <2>0. f \in NodeState /\ f.height = s.height /\ f.chain = s.chain /\ f.proposal = None
      BY DEF FreshRound, NodeOK, NodeState
    <2>1. f.round + 1 \in Nat /\ "Propose" \in Steps
      <3> HIDE DEF f
      <3> QED BY <2>0, SMTT(40) DEF NodeState, Steps
    <2>2. t = [f EXCEPT !.round = f.round + 1, !.step = "Propose"]
      BY SMTT(40) DEF OnPrecommitTimeout, FreshRound, NodeOK, NodeState
    <2> HIDE DEF f, t
    <2>3. t \in NodeState
      BY <2>0, <2>1, <2>2 DEF NodeState
    <2> QED BY <2>0, <2>1, <2>2, <2>3, SMTT(40) DEF NodeOK, NodeState, t
  <1> QED BY <1>2, <1>3, <1>4, SMTT(40)

-----------------------------------------------------------------------------
\* Every node of the cluster is well-formed.
TypeInv == node \in [Validators -> NodeState] /\ \A i \in Validators : NodeOK(node[i])

\* Every node is well-formed when it starts (Node::new).
LEMMA TypeInit == Init => TypeInv
  <1> SUFFICES ASSUME Init PROVE TypeInv
    BY SMTT(40)
  <1>1. NewSlashing \in SlashingState
    BY SlashingAssumption, SMTT(40) DEF NewSlashing, SlashingState
  <1>2. InitNode \in NodeState
    BY <1>1, SMTT(40) DEF InitNode, NodeState, Steps
  <1>3. NodeOK(InitNode)
    BY <1>2, SMTT(40) DEF InitNode, NodeOK
  <1> QED BY <1>2, <1>3, SMTT(40) DEF Init, TypeInv

\* Every step of the cluster keeps all nodes well-formed.
LEMMA TypeNext == TypeInv /\ [Next]_vars => TypeInv'
  <1> SUFFICES ASSUME TypeInv, [Next]_vars PROVE TypeInv'
    BY SMTT(40)
  <1>1. ASSUME NEW i \in Validators, NEW s, NodeOK(s), Step(i, s)
        PROVE  TypeInv'
    BY <1>1, SMTT(40) DEF TypeInv, Step, NodeOK
  <1>2. ASSUME NEW i \in Validators, Propose(i)
        PROVE  TypeInv'
    BY <1>1, <1>2, MaybeProposeType, SMTT(40) DEF Propose, TypeInv
  <1>3. ASSUME NEW i \in Validators, Receive(i)
        PROVE  TypeInv'
    <2>0. PICK j \in Validators : \E m \in node[j].sent : Step(i, HandleMessage(node[i], m, i))
      BY <1>3, SMTT(40) DEF Receive, Handle
    <2>1. PICK m \in node[j].sent : Step(i, HandleMessage(node[i], m, i))
      BY <2>0, SMTT(40)
    <2>2. m \in Message
      BY <2>1, SMTT(40) DEF TypeInv, NodeState
    <2> QED BY <1>1, <2>1, <2>2, HandleMessageType, SMTT(40) DEF TypeInv
  <1>4. ASSUME NEW i \in Validators, ProposeTimeout(i) \/ PrevoteTimeout(i) \/ PrecommitTimeout(i)
        PROVE  TypeInv'
    BY <1>1, <1>4, TimeoutType, SMTT(40) DEF ProposeTimeout, PrevoteTimeout, PrecommitTimeout, TypeInv
  <1>5. CASE UNCHANGED vars
    BY <1>5, SMTT(40) DEF vars, TypeInv, NodeOK, ValidBlock
  <1> QED BY <1>2, <1>3, <1>4, <1>5, SMTT(40) DEF Next, NodeStep

\* Every field of every node keeps its type in every behaviour, and the height
\* of a node is one more than the number of blocks it has committed.
THEOREM TypeCorrect == Spec => []TypeOK
  <1>1. TypeInv => TypeOK
    BY SMTT(40) DEF TypeInv, TypeOK, NodeOK
  <1> QED BY TypeInit, TypeNext, <1>1, PTL DEF Spec

-----------------------------------------------------------------------------
\* The handlers never read what was sent.
LEMMA CommitFrame ==
    ASSUME NEW s \in NodeState, NEW b, NEW X
    PROVE  /\ CommitBlock([s EXCEPT !.sent = X], b) = [CommitBlock(s, b) EXCEPT !.sent = X]
           /\ CommitBlock(s, b).sent = s.sent
  <1> DEFINE s1 == [s EXCEPT !.sent = X]
             f == FreshRound(s)
  <1>1. FreshRound(s1) = [f EXCEPT !.sent = X] /\ f.sent = s.sent /\ f \in NodeState
    BY DEF FreshRound, NodeState
  <1>2. CASE b.txs \in Unappliable
    BY <1>2 DEF CommitBlock, NodeState
  <1>3. CASE b.txs \notin Unappliable
    <2> HIDE DEF f
    <2> DEFINE c == Append(f.chain, <<b.round, b.txs>>)
               n == b.height + 1
               f1 == [f EXCEPT !.sent = X]
    <2>0. f1.chain = f.chain
      BY <1>1 DEF NodeState
    <2>1. /\ CommitBlock(s, b) = [f EXCEPT !.chain = c, !.height = n, !.round = 0,
                                           !.step = "Propose", !.locked = None]
          /\ CommitBlock(s1, b) = [f1 EXCEPT !.chain = c, !.height = n, !.round = 0,
                                             !.step = "Propose", !.locked = None]
      BY <1>1, <1>3, <2>0 DEF CommitBlock, f
    <2> HIDE DEF c, n
    <2>2. [f1 EXCEPT !.chain = c, !.height = n, !.round = 0, !.step = "Propose", !.locked = None] =
          [[f EXCEPT !.chain = c, !.height = n, !.round = 0, !.step = "Propose", !.locked = None]
             EXCEPT !.sent = X]
      BY <1>1 DEF NodeState
    <2>3. [f EXCEPT !.chain = c, !.height = n, !.round = 0, !.step = "Propose",
                    !.locked = None].sent = s.sent
      BY <1>1 DEF NodeState
    <2> QED BY <2>1, <2>2, <2>3
  <1> QED BY <1>2, <1>3

\* handle_vote of a precommit does not read what was sent.
LEMMA PrecommitFrame ==
    ASSUME NEW s, NodeOK(s), NEW vote \in Vote, NEW X
    PROVE  /\ HandlePrecommit([s EXCEPT !.sent = X], vote) =
                 [HandlePrecommit(s, vote) EXCEPT !.sent = X]
           /\ HandlePrecommit(s, vote).sent = s.sent
  <1> DEFINE s1 == [s EXCEPT !.sent = X]
             t == CountPrecommit(s, vote)
             t1 == CountPrecommit(s1, vote)
  <1>0. s \in NodeState /\ t \in NodeState
    BY CountType DEF NodeOK
  <1>1. t1 = [t EXCEPT !.sent = X] /\ t.sent = s.sent
    BY <1>0 DEF CountPrecommit, NodeState
  <1>2. Countable(s1, vote) = Countable(s, vote)
    BY <1>0 DEF Countable, InRound, NodeState
  <1>3. t1.precommits = t.precommits /\ t1.proposal = t.proposal
    BY <1>0 DEF CountPrecommit, NodeState
  <1> HIDE DEF t, t1
  <1>4. ASSUME NEW b
        PROVE  /\ CommitBlock(t1, b) = [CommitBlock(t, b) EXCEPT !.sent = X]
               /\ CommitBlock(t, b).sent = s.sent
    BY <1>0, <1>1, CommitFrame
  <1> QED BY <1>1, <1>2, <1>3, <1>4 DEF HandlePrecommit, t, t1

\* The process has exited, after nothing that a peer could see.
Halted(s, t) ==
    /\ ~t.up /\ t.sent = s.sent /\ t.height = s.height /\ t.round = s.round
    /\ t.chain = s.chain /\ t.proposal = s.proposal /\ t.proposed = s.proposed

\* A handler of a precommit that ends the process changes nothing but the
\* slashing state and a tally.
LEMMA PrecommitHalts ==
    ASSUME NEW s, NodeOK(s), s.up, NEW vote \in Vote
    PROVE  HandlePrecommit(s, vote).up \/ Halted(s, HandlePrecommit(s, vote))
  <1> DEFINE t == CountPrecommit(s, vote)
  <1>1. /\ t.up /\ t.sent = s.sent /\ t.height = s.height /\ t.round = s.round
        /\ t.chain = s.chain /\ t.proposal = s.proposal /\ t.proposed = s.proposed
    BY DEF CountPrecommit, NodeOK, NodeState
  <1>2. NodeOK(t)
    BY CountType
  <1> HIDE DEF t
  <1>3. ASSUME NEW b PROVE CommitBlock(t, b).up \/ Halted(s, CommitBlock(t, b))
    <2>1. CASE b.txs \in Unappliable
      BY <1>1, <1>2, <2>1 DEF CommitBlock, Halted, NodeOK, NodeState
    <2>2. CASE b.txs \notin Unappliable
      BY <1>1, <1>2, <2>2 DEF CommitBlock, FreshRound, NodeOK, NodeState
    <2> QED BY <2>1, <2>2
  <1> QED BY <1>1, <1>3 DEF HandlePrecommit, t

\* handle_vote of a prevote does not read what was sent.
LEMMA PrevoteFrame ==
    ASSUME NEW s, NodeOK(s), s.up, NEW vote \in Vote, NEW i \in Validators, NEW m \in Message
    PROVE  LET t == HandlePrevote(s, vote, i)
           IN  /\ t.up \/ Halted(s, t)
               /\ HandlePrevote([s EXCEPT !.sent = s.sent \cup {m}], vote, i) =
                      [t EXCEPT !.sent = t.sent \cup {m}]
  <1> DEFINE X == s.sent \cup {m}
             s1 == [s EXCEPT !.sent = X]
             c == CountPrevote(s, vote)
             c1 == CountPrevote(s1, vote)
             b == vote.hash
             l == [c EXCEPT !.locked = b]
             l1 == [c1 EXCEPT !.locked = b]
             p == VoteOf(l, "precommit", b, i)
             u == HandlePrecommit(l, p)
             u1 == HandlePrecommit(l1, p)
             t == HandlePrevote(s, vote, i)
             t1 == HandlePrevote(s1, vote, i)
  <1>0. s \in NodeState /\ NodeOK(c) /\ c \in NodeState
    BY CountType DEF NodeOK
  <1>1. /\ c1 = [c EXCEPT !.sent = X] /\ c.sent = s.sent /\ c.up
        /\ c.height = s.height /\ c.round = s.round /\ c.chain = s.chain
        /\ c.proposal = s.proposal /\ c.proposed = s.proposed
    BY <1>0 DEF CountPrevote, NodeState
  <1>2. Countable(s1, vote) = Countable(s, vote)
    BY <1>0 DEF Countable, InRound, NodeState
  <1>3. CASE ~Countable(s, vote)
    BY <1>2, <1>3 DEF HandlePrevote
  <1>4. CASE Countable(s, vote) /\ ~(b # ZERO_HASH /\ QuorumMet(Voters(c.prevotes, b)))
    <2>1. c1.prevotes = c.prevotes
      BY <1>0, <1>1 DEF NodeState
    <2>2. t = c /\ t1 = c1
      BY <1>2, <1>4, <2>1 DEF HandlePrevote
    <2> HIDE DEF c, c1, t, t1
    <2> QED BY <1>1, <2>2 DEF t, t1
  <1>5. CASE Countable(s, vote) /\ b # ZERO_HASH /\ QuorumMet(Voters(c.prevotes, b))
    <2>1. c1.prevotes = c.prevotes
      BY <1>0, <1>1 DEF NodeState
    <2>2. /\ t = SetStep(BroadcastPrecommit(l, b, i), "Precommit")
          /\ t1 = SetStep(BroadcastPrecommit(l1, b, i), "Precommit")
      BY <1>2, <1>5, <2>1 DEF HandlePrevote
    <2>3. b \in Block /\ b \in Hash
      BY <1>5 DEF Vote, Hash
    <2> HIDE DEF c, c1, t, t1, b
    <2>4. /\ NodeOK(l) /\ l.up /\ l.sent = s.sent /\ l.height = s.height /\ l.round = s.round
          /\ l.chain = s.chain /\ l.proposal = s.proposal /\ l.proposed = s.proposed
      BY <1>0, <1>1, <2>3 DEF NodeOK, NodeState, ValidBlock
    <2>5. l1 = [l EXCEPT !.sent = X]
      <3> HIDE DEF X
      <3> QED BY <1>0, <1>1 DEF NodeState
    <2>6. VoteOf(l1, "precommit", b, i) = p
      <3>1. l1.height = l.height /\ l1.round = l.round
        <4> HIDE DEF l, l1, X
        <4> QED BY <2>4, <2>5 DEF NodeOK, NodeState
      <3> HIDE DEF l, l1
      <3> QED BY <3>1 DEF VoteOf
    <2> HIDE DEF l, l1
    <2>7. p \in Vote
      BY <2>3, <2>4, VoteOfType
    <2>8. NodeOK(u) /\ u \in NodeState
      BY <2>4, <2>7, HandlePrecommitType DEF NodeOK
    <2>9. u1 = [u EXCEPT !.sent = X] /\ u.sent = s.sent
      <3> HIDE DEF p, X
      <3> QED BY <2>4, <2>5, <2>7, PrecommitFrame, SMTT(40)
    <2>10. u.up \/ Halted(l, u)
      BY <2>4, <2>7, PrecommitHalts
    <2>11. /\ BroadcastPrecommit(l, b, i) = Send(u, p)
           /\ BroadcastPrecommit(l1, b, i) = Send(u1, p)
      BY <2>6 DEF BroadcastPrecommit
    <2> HIDE DEF p, u, u1
    <2>12. CASE u.up
      <3>1. u1.up /\ u1.sent = X
        <4> HIDE DEF X
        <4> QED BY <2>8, <2>9, <2>12 DEF NodeState
      <3>2. /\ Send(u, p) = [u EXCEPT !.sent = s.sent \cup {p}]
            /\ Send(u1, p) = [u1 EXCEPT !.sent = X \cup {p}]
        BY <2>9, <2>12, <3>1 DEF Send
      <3> DEFINE Y == s.sent \cup {p}
                 Z == X \cup {p}
                 w == [u EXCEPT !.sent = Y]
                 w1 == [u1 EXCEPT !.sent = Z]
      <3>3. Z = Y \cup {m}
        OBVIOUS
      <3> HIDE DEF X, Y, Z
      <3>4. w1 = [u EXCEPT !.sent = Z] /\ w.up /\ w1.up
        BY <2>8, <2>9, <2>12, <3>1 DEF NodeState
      <3>5. t = [w EXCEPT !.step = "Precommit"] /\ t1 = [w1 EXCEPT !.step = "Precommit"]
        BY <2>2, <2>11, <3>2, <3>4, SMTT(40) DEF SetStep, Y, Z
      <3>6. t.up /\ t.sent = Y /\ t1 = [t EXCEPT !.sent = Z]
        BY <2>8, <3>4, <3>5 DEF NodeState
      <3> QED BY <3>3, <3>6 DEF t, t1, X
    <2>13. CASE ~u.up
      <3>1. t = u
        BY <2>2, <2>11, <2>13 DEF Send, SetStep
      <3>2. Halted(s, u)
        BY <2>4, <2>10, <2>13 DEF Halted
      <3>3. u1 = [u EXCEPT !.sent = u.sent \cup {m}]
        BY <2>9
      <3>4. ~u1.up
        <4> HIDE DEF X
        <4> QED BY <2>8, <2>9, <2>13 DEF NodeState
      <3>5. t1 = u1
        BY <2>2, <2>11, <3>4 DEF Send, SetStep
      <3> QED BY <3>1, <3>2, <3>3, <3>5 DEF t, t1
    <2> QED BY <2>12, <2>13
  <1> QED BY <1>3, <1>4, <1>5

\* The node has sent m as well.
Sending(s, m) == [s EXCEPT !.sent = s.sent \cup {m}]

\* The lock on b, with the precommit that goes with it.
Locking(s, b, self) ==
    [s EXCEPT !.locked = b, !.sent = s.sent \cup {VoteOf(s, "precommit", b, self)}]

\* The steps that the handlers assign.
VoteSteps == {"Prevote", "Precommit"}

\* P is kept by each change before a commit, a commit leads from P to R.  V is
\* what the network may deliver.
PassesTypes(P, R) == (\A s \in P : NodeOK(s) /\ s.up) /\ (\A s \in R : NodeOK(s))
\* A vote of the round is counted, whether it is delivered or the node's own.
PassesCount(P, V) ==
    \A s \in P : \A vote \in Vote : vote \in V \cup s.sent /\ Countable(s, vote) =>
        /\ vote.type = "prevote" => CountPrevote(s, vote) \in P
        /\ vote.type = "precommit" => CountPrecommit(s, vote) \in P
\* A node that sees a quorum of prevotes locks, with its precommit.
PassesLock(P, self) ==
    \A s \in P : \A b \in Block : QuorumMet(Voters(s.prevotes, b)) => Locking(s, b, self) \in P
\* A node that sees a quorum of precommits commits the proposal.
PassesCommit(P, R) ==
    \A s \in P : \A b \in Block :
        s.proposal = b /\ QuorumMet(Voters(s.precommits, b)) => CommitBlock(s, b) \in R
\* A node prevotes the proposal, unless it is locked on another block.
PassesPrevote(P, self) ==
    \A s \in P : \A b \in Block : s.proposal = b /\ s.locked \in {None, b} =>
        Sending(s, VoteOf(s, "prevote", b, self)) \in P
\* A node votes for ZERO_HASH.
PassesZero(P, self) ==
    \A s \in P : \A type \in {"prevote", "precommit"} :
        Sending(s, VoteOf(s, type, ZERO_HASH, self)) \in P
\* The assignments to step, before and after a commit.
PassesStep(P, R) ==
    \A step \in VoteSteps : /\ \A s \in P : SetStep(s, step) \in P
                            /\ \A s \in R : SetStep(s, step) \in R
\* A verified proposal of the round is kept.
PassesProposal(P, V) ==
    \A s \in P : \A p \in Proposal :
        p \in V \cup s.sent /\ InRound(s, p) /\ VerifiedProposal(p) /\ ValidBlock(s, p.block) =>
            [s EXCEPT !.proposal = p.block] \in P

\* All of these: whatever the handlers do is made of such changes.
Passes(P, R, V, self) ==
    /\ PassesTypes(P, R) /\ PassesCount(P, V) /\ PassesLock(P, self) /\ PassesCommit(P, R)
    /\ PassesPrevote(P, self) /\ PassesZero(P, self) /\ PassesStep(P, R) /\ PassesProposal(P, V)

\* broadcast_vote handles an own vote before it sends it.  g is the state of a
\* node that sends first: the same, unless the process exits in between.
Shadow(s, t, g) ==
    \/ g.up /\ t = g
    \/ ~g.up /\ t = [g EXCEPT !.sent = s.sent]

\* Assigning to step, which a process that has exited no longer does.
LEMMA ShadowStep ==
    ASSUME NEW s, NEW t, NEW g, Shadow(s, t, g), NodeOK(g), NEW step \in VoteSteps
    PROVE  Shadow(s, SetStep(t, step), SetStep(g, step))
  <1>1. CASE g.up
    <2>1. t = g
      BY <1>1 DEF Shadow
    <2>2. SetStep(g, step).up
      BY <1>1 DEF SetStep, NodeOK, NodeState
    <2> QED BY <2>1, <2>2 DEF Shadow
  <1>2. CASE ~g.up
    <2>1. t = [g EXCEPT !.sent = s.sent]
      BY <1>2 DEF Shadow
    <2>2. ~t.up
      BY <1>2, <2>1 DEF NodeOK, NodeState
    <2>3. SetStep(t, step) = t /\ SetStep(g, step) = g
      BY <1>2, <2>2 DEF SetStep
    <2> QED BY <1>2, <2>1, <2>3 DEF Shadow
  <1> QED BY <1>1, <1>2

\* An own precommit is handled as if it had been sent first.
LEMMA PrecommitShadow ==
    ASSUME NEW s, NodeOK(s), s.up, NEW b \in Hash, NEW i \in Validators
    PROVE  LET m == VoteOf(s, "precommit", b, i)
           IN  Shadow(s, BroadcastPrecommit(s, b, i), HandlePrecommit(Sending(s, m), m))
  <1> DEFINE m == VoteOf(s, "precommit", b, i)
             u == HandlePrecommit(s, m)
             X == s.sent \cup {m}
             g == [u EXCEPT !.sent = X]
  <1>1. m \in Vote
    BY VoteOfType
  <1>2. NodeOK(u) /\ u \in NodeState
    BY <1>1, HandlePrecommitType DEF NodeOK
  <1>3. HandlePrecommit(Sending(s, m), m) = g /\ u.sent = s.sent
    <2> HIDE DEF m
    <2> QED BY <1>1, PrecommitFrame, SMTT(40) DEF Sending
  <1>4. BroadcastPrecommit(s, b, i) = Send(u, m)
    BY DEF BroadcastPrecommit
  <1> HIDE DEF m, u
  <1>5. CASE u.up
    <2>1. Send(u, m) = g
      BY <1>3, <1>5 DEF Send
    <2>2. g.up
      <3> HIDE DEF X
      <3> QED BY <1>2, <1>5 DEF NodeState
    <2> HIDE DEF g
    <2> QED BY <1>3, <1>4, <2>1, <2>2 DEF Shadow, m
  <1>6. CASE ~u.up
    <2>1. Send(u, m) = u
      BY <1>6 DEF Send
    <2>2. ~g.up /\ u = [g EXCEPT !.sent = s.sent]
      <3> HIDE DEF X
      <3> QED BY <1>2, <1>3, <1>6 DEF NodeState
    <2> HIDE DEF g
    <2> QED BY <1>3, <1>4, <2>1, <2>2 DEF Shadow, m
  <1> QED BY <1>5, <1>6

\* An own prevote is handled as if it had been sent first.
LEMMA PrevoteShadow ==
    ASSUME NEW s, NodeOK(s), s.up, NEW b \in Hash, NEW i \in Validators, NEW m, NEW g,
           m = VoteOf(s, "prevote", b, i), NodeOK(g),
           Shadow(Sending(s, m), HandlePrevote(Sending(s, m), m, i), g)
    PROVE  Shadow(s, BroadcastPrevote(s, b, i), g)
  <1> DEFINE u == HandlePrevote(s, m, i)
             s1 == Sending(s, m)
             t1 == HandlePrevote(s1, m, i)
             X == s.sent \cup {m}
  <1>1. m \in Vote /\ m \in Message
    BY VoteOfType DEF Message
  <1>2. NodeOK(u) /\ u \in NodeState
    BY <1>1, HandlePrevoteType DEF NodeOK
  <1>3. /\ u.up \/ Halted(s, u)
        /\ t1 = [u EXCEPT !.sent = u.sent \cup {m}]
    BY <1>1, PrevoteFrame, SMTT(40) DEF Sending
  <1>4. BroadcastPrevote(s, b, i) = Send(u, m)
    BY DEF BroadcastPrevote
  <1>5. s1.sent = X
    BY DEF Sending, NodeOK, NodeState
  <1>6. Shadow(s1, t1, g)
    OBVIOUS
  <1> HIDE DEF u, s1, t1
  <1>7. CASE u.up
    <2>1. Send(u, m) = t1
      BY <1>3, <1>7 DEF Send
    <2> DEFINE Y == u.sent \cup {m}
    <2>2. t1 = [u EXCEPT !.sent = Y]
      BY <1>3
    <2> HIDE DEF Y
    <2>3. t1.up
      BY <1>2, <1>7, <2>2 DEF NodeState
    <2>4. g.up
      BY <1>6, <2>3 DEF Shadow, NodeOK, NodeState
    <2> QED BY <1>4, <1>6, <2>1, <2>4 DEF Shadow
  <1>8. CASE ~u.up
    <2>1. Send(u, m) = u /\ u.sent = s.sent
      BY <1>3, <1>8 DEF Send, Halted
    <2>2. t1 = [u EXCEPT !.sent = X]
      BY <1>3, <2>1
    <2> HIDE DEF X
    <2>3. ~t1.up /\ u = [t1 EXCEPT !.sent = s.sent]
      BY <1>2, <1>8, <2>1, <2>2 DEF NodeState
    <2>4. ~g.up /\ t1 = [g EXCEPT !.sent = X]
      BY <1>5, <1>6, <2>3 DEF Shadow
    <2>5. u = [g EXCEPT !.sent = s.sent]
      BY <2>3, <2>4 DEF NodeOK, NodeState
    <2> QED BY <1>4, <2>1, <2>4, <2>5 DEF Shadow
  <1> QED BY <1>7, <1>8

\* The handler leaves t, and a node that sends first a member of P or R.
Reaches(s, t, P, R) == \E g \in P \cup R : Shadow(s, t, g)

\* Assigning to step keeps within the sets.
LEMMA ReachStep ==
    ASSUME NEW P, NEW R, NEW V, NEW self, Passes(P, R, V, self),
           NEW s, NEW t, Reaches(s, t, P, R), NEW step \in VoteSteps
    PROVE  Reaches(s, SetStep(t, step), P, R)
  <1>1. PICK g \in P \cup R : Shadow(s, t, g)
    BY DEF Reaches
  <1>2. NodeOK(g) /\ SetStep(g, step) \in P \cup R
    BY DEF Passes, PassesTypes, PassesStep
  <1>3. Shadow(s, SetStep(t, step), SetStep(g, step))
    BY <1>1, <1>2, ShadowStep
  <1> QED BY <1>2, <1>3 DEF Reaches

\* handle_vote for a precommit.
LEMMA HandlePrecommitRule ==
    ASSUME NEW P, NEW R, NEW V, NEW self, Passes(P, R, V, self),
           NEW s \in P, NEW vote \in Vote, vote.type = "precommit", vote \in V \cup s.sent
    PROVE  HandlePrecommit(s, vote) \in P \cup R
  <1> DEFINE t == CountPrecommit(s, vote)
  <1>1. CASE ~Countable(s, vote)
    BY <1>1 DEF HandlePrecommit
  <1>2. CASE Countable(s, vote)
    <2>1. t \in P
      BY <1>2 DEF Passes, PassesCount
    <2>2. CASE /\ vote.hash # ZERO_HASH
               /\ QuorumMet(Voters(t.precommits, vote.hash))
               /\ t.proposal = vote.hash
      <3>1. vote.hash \in Block
        BY <2>2 DEF Vote, Hash
      <3>2. HandlePrecommit(s, vote) = CommitBlock(t, t.proposal)
        BY <1>2, <2>2 DEF HandlePrecommit
      <3> HIDE DEF t
      <3>3. CommitBlock(t, vote.hash) \in R
        BY <2>1, <2>2, <3>1 DEF Passes, PassesCommit
      <3> QED BY <2>2, <3>2, <3>3
    <2>3. CASE ~(/\ vote.hash # ZERO_HASH
                 /\ QuorumMet(Voters(t.precommits, vote.hash))
                 /\ t.proposal = vote.hash)
      <3>1. HandlePrecommit(s, vote) = t
        BY <1>2, <2>3 DEF HandlePrecommit
      <3> QED BY <2>1, <3>1
    <2> QED BY <2>2, <2>3
  <1> QED BY <1>1, <1>2

\* The own precommit, cast by u, which is in P once the vote is sent.
LEMMA OwnPrecommitRule ==
    ASSUME NEW P, NEW R, NEW V, NEW self \in Validators, Passes(P, R, V, self),
           NEW u, NodeOK(u), u.up, NEW b \in Hash,
           Sending(u, VoteOf(u, "precommit", b, self)) \in P
    PROVE  Reaches(u, BroadcastPrecommit(u, b, self), P, R)
  <1> DEFINE m == VoteOf(u, "precommit", b, self)
             w == Sending(u, m)
             g == HandlePrecommit(w, m)
  <1>1. m \in Vote /\ m.type = "precommit"
    <2>1. m \in Vote
      BY VoteOfType
    <2> QED BY <2>1 DEF VoteOf
  <1>2. m \in w.sent
    <2> HIDE DEF m
    <2> QED BY DEF Sending, NodeOK, NodeState
  <1>3. Shadow(u, BroadcastPrecommit(u, b, self), g)
    BY PrecommitShadow
  <1>4. w \in P
    OBVIOUS
  <1> HIDE DEF m, w
  <1>5. g \in P \cup R
    BY <1>1, <1>2, <1>4, HandlePrecommitRule
  <1> HIDE DEF g
  <1> QED BY <1>3, <1>5 DEF Reaches

\* handle_vote for a prevote, with the lock and the own precommit.
LEMMA HandlePrevoteRule ==
    ASSUME NEW P, NEW R, NEW V, NEW self \in Validators, Passes(P, R, V, self),
           NEW s \in P, NEW vote \in Vote, vote.type = "prevote", vote \in V \cup s.sent
    PROVE  Reaches(s, HandlePrevote(s, vote, self), P, R)
  <1> DEFINE t == CountPrevote(s, vote)
             u == [t EXCEPT !.locked = vote.hash]
  <1>0. \A x \in P : NodeOK(x) /\ x.up /\ x \in NodeState
    BY DEF Passes, PassesTypes, NodeOK
  <1>1. CASE ~Countable(s, vote)
    <2>1. HandlePrevote(s, vote, self) = s
      BY <1>1 DEF HandlePrevote
    <2> QED BY <1>0, <2>1 DEF Reaches, Shadow
  <1>2. CASE Countable(s, vote)
    <2>1. t \in P
      BY <1>2 DEF Passes, PassesCount
    <2>2. t.sent = s.sent
      BY <1>0 DEF CountPrevote, NodeState
    <2>3. CASE vote.hash # ZERO_HASH /\ QuorumMet(Voters(t.prevotes, vote.hash))
      <3>1. vote.hash \in Block /\ vote.hash \in Hash
        BY <2>3 DEF Vote, Hash
      <3>2. HandlePrevote(s, vote, self)
                = SetStep(BroadcastPrecommit(u, vote.hash, self), "Precommit")
        BY <1>2, <2>3 DEF HandlePrevote
      <3>3. Locking(t, vote.hash, self) \in P
        BY <2>1, <2>3, <3>1 DEF Passes, PassesLock
      <3>4. NodeOK(u) /\ u.up
        <4> HIDE DEF t
        <4>1. t \in NodeState /\ t.up /\ NodeOK(t)
          BY <1>0, <2>1
        <4>2. u \in NodeState
          BY <3>1, <4>1, SMTT(40) DEF NodeState
        <4>3. /\ u.up /\ u.height = t.height /\ u.chain = t.chain
              /\ u.round = t.round /\ u.proposal = t.proposal
          BY <4>1 DEF NodeState
        <4> HIDE DEF u
        <4> QED BY <4>1, <4>2, <4>3 DEF NodeOK, ValidBlock
      <3>5. u.sent = s.sent /\ Sending(u, VoteOf(u, "precommit", vote.hash, self))
                = Locking(t, vote.hash, self)
        <4> HIDE DEF t
        <4>1. t \in NodeState
          BY <1>0, <2>1
        <4> QED BY <2>2, <4>1 DEF NodeState, Sending, Locking, VoteOf
      <3> HIDE DEF u
      <3>6. Reaches(u, BroadcastPrecommit(u, vote.hash, self), P, R)
        BY <3>1, <3>3, <3>4, <3>5, OwnPrecommitRule
      <3>7. Reaches(s, BroadcastPrecommit(u, vote.hash, self), P, R)
        BY <3>5, <3>6 DEF Reaches, Shadow
      <3> DEFINE x == BroadcastPrecommit(u, vote.hash, self)
      <3> HIDE DEF x
      <3>8. "Precommit" \in VoteSteps /\ Reaches(s, x, P, R)
        BY <3>7 DEF VoteSteps, x
      <3>9. Reaches(s, SetStep(x, "Precommit"), P, R)
        BY <3>8, ReachStep
      <3> QED BY <3>2, <3>9 DEF x
    <2>4. CASE ~(vote.hash # ZERO_HASH /\ QuorumMet(Voters(t.prevotes, vote.hash)))
      <3>1. HandlePrevote(s, vote, self) = t
        BY <1>2, <2>4 DEF HandlePrevote
      <3> HIDE DEF t
      <3> QED BY <1>0, <2>1, <3>1 DEF Reaches, Shadow
    <2> QED BY <2>3, <2>4
  <1> QED BY <1>1, <1>2

\* The own prevote.
LEMMA OwnPrevoteRule ==
    ASSUME NEW P, NEW R, NEW V, NEW self \in Validators, Passes(P, R, V, self),
           NEW s \in P, NEW b \in Hash, Sending(s, VoteOf(s, "prevote", b, self)) \in P
    PROVE  Reaches(s, BroadcastPrevote(s, b, self), P, R)
  <1> DEFINE m == VoteOf(s, "prevote", b, self)
             w == Sending(s, m)
             t == HandlePrevote(w, m, self)
  <1>0. NodeOK(s) /\ s.up /\ w \in P
    BY DEF Passes, PassesTypes
  <1>1. m \in Vote /\ m.type = "prevote"
    <2>1. m \in Vote
      BY <1>0, VoteOfType
    <2> QED BY <2>1 DEF VoteOf
  <1>2. m \in w.sent
    <2> HIDE DEF m
    <2> QED BY <1>0 DEF Sending, NodeOK, NodeState
  <1>3. m = VoteOf(s, "prevote", b, self)
    OBVIOUS
  <1> HIDE DEF m
  <1>4. Reaches(w, t, P, R)
    <2> HIDE DEF w
    <2> QED BY <1>0, <1>1, <1>2, HandlePrevoteRule
  <1>5. PICK g \in P \cup R : Shadow(Sending(s, m), HandlePrevote(Sending(s, m), m, self), g)
    BY <1>4 DEF Reaches
  <1>6. NodeOK(g)
    BY DEF Passes, PassesTypes
  <1>7. Shadow(s, BroadcastPrevote(s, b, self), g)
    BY <1>0, <1>3, <1>5, <1>6, PrevoteShadow
  <1> QED BY <1>7 DEF Reaches

\* handle_proposal, for a proposal of the network or the own one.
LEMMA HandleProposalRule ==
    ASSUME NEW P, NEW R, NEW V, NEW self \in Validators, Passes(P, R, V, self),
           NEW s \in P, NEW p \in Proposal, p \in V \cup s.sent
    PROVE  Reaches(s, HandleProposal(s, p, self), P, R)
  <1> DEFINE t == [s EXCEPT !.proposal = p.block]
             prev(x, b) == SetStep(BroadcastPrevote(x, b, self), "Prevote")
  <1>0. \A x \in P : NodeOK(x) /\ x.up /\ x \in NodeState
    BY DEF Passes, PassesTypes, NodeOK
  <1>1. p.block \in Block /\ p.block \in Hash /\ ZERO_HASH \in Hash
    BY DEF Proposal, Hash
  <1>2. ASSUME NEW x \in P, NEW b \in Hash, Sending(x, VoteOf(x, "prevote", b, self)) \in P,
               x.sent = s.sent
        PROVE  Reaches(s, prev(x, b), P, R)
    <2> DEFINE y == BroadcastPrevote(x, b, self)
    <2>1. Reaches(x, y, P, R)
      BY <1>2, OwnPrevoteRule
    <2> HIDE DEF y
    <2>2. Reaches(s, y, P, R) /\ "Prevote" \in VoteSteps
      BY <1>2, <2>1 DEF Reaches, Shadow, VoteSteps
    <2>3. Reaches(s, SetStep(y, "Prevote"), P, R)
      BY <2>2, ReachStep
    <2> QED BY <2>3 DEF y
  <1>3. ASSUME NEW x \in P PROVE Sending(x, VoteOf(x, "prevote", ZERO_HASH, self)) \in P
    BY DEF Passes, PassesZero
  <1>4. CASE ~InRound(s, p) \/ ~VerifiedProposal(p)
    <2>1. HandleProposal(s, p, self) = s
      BY <1>4 DEF HandleProposal
    <2> QED BY <1>0, <2>1 DEF Reaches, Shadow
  <1>5. CASE InRound(s, p) /\ VerifiedProposal(p) /\ ~ValidBlock(s, p.block)
    <2>1. HandleProposal(s, p, self) = prev(s, ZERO_HASH)
      BY <1>5 DEF HandleProposal
    <2> HIDE DEF prev
    <2> QED BY <1>1, <1>2, <1>3, <2>1
  <1>6. CASE InRound(s, p) /\ VerifiedProposal(p) /\ ValidBlock(s, p.block)
    <2>1. t \in P
      BY <1>6 DEF Passes, PassesProposal
    <2>2. t.sent = s.sent /\ t.locked = s.locked /\ t.proposal = p.block
      BY <1>0 DEF NodeState
    <2>3. CASE s.locked \notin {None, p.block}
      <3>1. HandleProposal(s, p, self) = prev(t, ZERO_HASH)
        BY <1>6, <2>3 DEF HandleProposal
      <3> HIDE DEF prev, t
      <3> QED BY <1>1, <1>2, <1>3, <2>1, <2>2, <3>1
    <2>4. CASE s.locked \in {None, p.block}
      <3>1. HandleProposal(s, p, self) = prev(t, p.block)
        BY <1>6, <2>4 DEF HandleProposal
      <3> HIDE DEF prev, t
      <3>2. Sending(t, VoteOf(t, "prevote", p.block, self)) \in P
        BY <1>1, <2>1, <2>2, <2>4 DEF Passes, PassesPrevote
      <3> QED BY <1>1, <1>2, <2>1, <2>2, <3>1, <3>2
    <2> QED BY <2>3, <2>4
  <1> QED BY <1>4, <1>5, <1>6

\* handle_message, for a message of the network.
LEMMA HandleMessageRule ==
    ASSUME NEW P, NEW R, NEW V, NEW self \in Validators, Passes(P, R, V, self),
           NEW s \in P, NEW m \in Message, m \in V
    PROVE  Reaches(s, HandleMessage(s, m, self), P, R)
  <1>1. CASE m \in Proposal
    <2>1. m.type = "proposal"
      BY <1>1 DEF Proposal
    <2>2. HandleMessage(s, m, self) = HandleProposal(s, m, self)
      BY <2>1, SMTT(40) DEF HandleMessage
    <2> QED BY <1>1, <2>2, HandleProposalRule
  <1>2. CASE m \in Vote /\ m.type = "prevote"
    <2>1. HandleMessage(s, m, self) = HandlePrevote(s, m, self)
      BY <1>2, SMTT(40) DEF HandleMessage
    <2> QED BY <1>2, <2>1, HandlePrevoteRule
  <1>3. CASE m \in Vote /\ m.type = "precommit"
    <2>1. HandleMessage(s, m, self) = HandlePrecommit(s, m)
      BY <1>3, SMTT(40) DEF HandleMessage
    <2> DEFINE g == HandlePrecommit(s, m)
    <2>2. g \in P \cup R
      BY <1>3, HandlePrecommitRule
    <2>3. NodeOK(g) /\ g.sent = s.sent
      <3>1. NodeOK(s) /\ s.up
        BY DEF Passes, PassesTypes
      <3> QED BY <1>3, <3>1, PrecommitFrame, HandlePrecommitType
    <2> HIDE DEF g
    <2>4. g = [g EXCEPT !.sent = s.sent]
      BY <2>3, SMTT(40) DEF NodeOK, NodeState
    <2>5. Shadow(s, g, g)
      BY <2>4 DEF Shadow
    <2> QED BY <2>1, <2>2, <2>5 DEF Reaches, g
  <1>4. m \in Vote => m.type \in {"prevote", "precommit"}
    BY DEF Vote
  <1> QED BY <1>1, <1>2, <1>3, <1>4 DEF Message

\* check_timeouts in the steps Propose and Prevote.
LEMMA TimeoutRule ==
    ASSUME NEW P, NEW R, NEW V, NEW self \in Validators, Passes(P, R, V, self), NEW s \in P
    PROVE  /\ Reaches(s, OnProposeTimeout(s, self), P, R)
           /\ Reaches(s, OnPrevoteTimeout(s, self), P, R)
  <1>0. NodeOK(s) /\ s.up /\ ZERO_HASH \in Hash
        /\ "Prevote" \in VoteSteps /\ "Precommit" \in VoteSteps
    BY DEF Passes, PassesTypes, Hash, VoteSteps
  <1>1. /\ Sending(s, VoteOf(s, "prevote", ZERO_HASH, self)) \in P
        /\ Sending(s, VoteOf(s, "precommit", ZERO_HASH, self)) \in P
    BY DEF Passes, PassesZero
  <1> DEFINE x == IF s.proposal = None THEN BroadcastPrevote(s, ZERO_HASH, self) ELSE s
             y == BroadcastPrecommit(s, ZERO_HASH, self)
  <1>2. Reaches(s, x, P, R)
    <2>1. Reaches(s, s, P, R)
      BY <1>0 DEF Reaches, Shadow
    <2>2. Reaches(s, BroadcastPrevote(s, ZERO_HASH, self), P, R)
      BY <1>0, <1>1, OwnPrevoteRule
    <2> QED BY <2>1, <2>2
  <1>3. Reaches(s, y, P, R)
    BY <1>0, <1>1, OwnPrecommitRule
  <1>4. OnProposeTimeout(s, self) = SetStep(x, "Prevote")
        /\ OnPrevoteTimeout(s, self) = SetStep(y, "Precommit")
    BY DEF OnProposeTimeout, OnPrevoteTimeout
  <1> HIDE DEF x, y
  <1> QED BY <1>0, <1>2, <1>3, <1>4, ReachStep

\* Handler runs of two pairs of sets that the changes do not lead out of.
LEMMA PassesBoth ==
    ASSUME NEW P, NEW R, NEW S, NEW T, NEW V, NEW self,
           Passes(P, R, V, self), Passes(S, T, V, self)
    PROVE  Passes(P \cap S, R \cap T, V, self)
  <1>1. PassesTypes(P \cap S, R \cap T)
    BY DEF Passes, PassesTypes
  <1>2. PassesCount(P \cap S, V)
    BY DEF Passes, PassesCount
  <1>3. PassesLock(P \cap S, self)
    BY DEF Passes, PassesLock
  <1>4. PassesCommit(P \cap S, R \cap T)
    BY DEF Passes, PassesCommit
  <1>5. PassesPrevote(P \cap S, self)
    BY DEF Passes, PassesPrevote
  <1>6. PassesZero(P \cap S, self)
    BY DEF Passes, PassesZero
  <1>7. PassesStep(P \cap S, R \cap T)
    BY DEF Passes, PassesStep
  <1>8. PassesProposal(P \cap S, V)
    BY DEF Passes, PassesProposal
  <1> QED BY <1>1, <1>2, <1>3, <1>4, <1>5, <1>6, <1>7, <1>8 DEF Passes

\* The node after the first statements of maybe_propose, and the proposal it sent.
ProposalBy(s, txs, self) ==
    [type |-> "proposal", height |-> s.height, round |-> s.round,
     block |-> BuildBlock(s, txs), proposer |-> self]
\* The state in which maybe_propose hands its proposal to the own node.
Proposing(s, txs, self) ==
    [s EXCEPT !.proposed = TRUE, !.proposal = BuildBlock(s, txs),
              !.sent = s.sent \cup {ProposalBy(s, txs, self)}]

\* From s to x a node has sent its proposal p and holds its block.
Opens(s, x, p, self) ==
    /\ p \in Proposal /\ p.height = s.height /\ p.round = s.round /\ p.proposer = self
    /\ ValidBlock(s, p.block)
    /\ NodeOK(x) /\ x.up /\ x.height = s.height /\ x.round = s.round /\ x.chain = s.chain
    /\ x.step = s.step /\ x.locked = s.locked /\ x.slashing = s.slashing
    /\ x.prevotes = s.prevotes /\ x.precommits = s.precommits
    /\ x.proposal = p.block /\ x.proposed = TRUE /\ x.sent = s.sent \cup {p}

\* The state in which a handler of a node in state s starts.
Starts(s, x, self) ==
    \/ x = s
    \/ CanPropose(s, self) /\ \E txs \in Payloads : x = Proposing(s, txs, self)

\* From x, a handler leaves t: it stays within all sets that the changes respect.
Handled(x, t, V, self) ==
    \A P, R : Passes(P, R, V, self) /\ x \in P => Reaches(x, t, P, R)

\* maybe_propose hands the proposal it has sent to handle_proposal.
LEMMA ProposingFields ==
    ASSUME NEW s, NodeOK(s), s.up, NEW txs \in Payloads, NEW self \in Validators
    PROVE  /\ Opens(s, Proposing(s, txs, self), ProposalBy(s, txs, self), self)
           /\ MaybePropose(s, txs, self) =
                 HandleProposal(Proposing(s, txs, self), ProposalBy(s, txs, self), self)
  <1> DEFINE b == BuildBlock(s, txs)
             p == ProposalBy(s, txs, self)
             t == [s EXCEPT !.proposed = TRUE, !.proposal = b]
             X == s.sent \cup {p}
             x == Proposing(s, txs, self)
  <1>0. x = [s EXCEPT !.proposed = TRUE, !.proposal = b, !.sent = X]
    BY DEF Proposing
  <1>1. b \in Block /\ ValidBlock(s, b)
    BY DEF NodeOK, NodeState, BuildBlock, Block, ValidBlock
  <1>2. MaybePropose(s, txs, self) = HandleProposal(Send(t, p), p, self)
    BY DEF MaybePropose, ProposalBy
  <1>3. p = [type |-> "proposal", height |-> s.height, round |-> s.round,
             block |-> b, proposer |-> self]
    BY DEF ProposalBy
  <1> HIDE DEF b, p, x
  <1>4. /\ p \in Proposal /\ p \in Message /\ p.block = b
        /\ p.height = s.height /\ p.round = s.round /\ p.proposer = self
    BY <1>1, <1>3 DEF NodeOK, NodeState, Proposal, Message
  <1>5. Send(t, p) = x
    BY <1>0 DEF Send, NodeOK, NodeState
  <1>6. X \in SUBSET Message
    BY <1>4 DEF NodeOK, NodeState
  <1> HIDE DEF X
  <1>7. /\ x \in NodeState /\ x.up
        /\ x.height = s.height /\ x.round = s.round /\ x.chain = s.chain
        /\ x.step = s.step /\ x.locked = s.locked /\ x.slashing = s.slashing
        /\ x.prevotes = s.prevotes /\ x.precommits = s.precommits
        /\ x.proposal = b /\ x.proposed = TRUE /\ x.sent = X
    BY <1>0, <1>1, <1>6 DEF NodeOK, NodeState
  <1>8. NodeOK(x)
    BY <1>1, <1>7 DEF NodeOK, ValidBlock
  <1>9. Opens(s, x, p, self)
    BY <1>1, <1>4, <1>7, <1>8 DEF Opens, X
  <1> QED BY <1>2, <1>5, <1>9 DEF p, x

\* A handler starts in the state of the node, or with the proposal sent.
LEMMA StartFields ==
    ASSUME NEW s, NodeOK(s), s.up, NEW self \in Validators, NEW x, Starts(s, x, self)
    PROVE  \/ x = s
           \/ CanPropose(s, self) /\ \E p : Opens(s, x, p, self)
  <1>1. CASE CanPropose(s, self) /\ \E txs \in Payloads : x = Proposing(s, txs, self)
    <2>1. PICK txs \in Payloads : x = Proposing(s, txs, self)
      BY <1>1
    <2>2. Opens(s, Proposing(s, txs, self), ProposalBy(s, txs, self), self)
      BY ProposingFields
    <2> QED BY <1>1, <2>1, <2>2
  <1> QED BY <1>1 DEF Starts

\* A step of the cluster is a handler run of one node that is up, or the end of
\* its round.
LEMMA StepRule ==
    ASSUME TypeInv, NEW i \in Validators, NodeStep(i)
    PROVE  \E t : /\ node' = [node EXCEPT ![i] = t] /\ node[i].up
                  /\ \/ \E x : Starts(node[i], x, i) /\ Handled(x, t, Sent, i)
                     \/ /\ node[i].step = "Precommit" /\ node[i].round < MaxRound
                        /\ t = OnPrecommitTimeout(node[i])
  <1> DEFINE s == node[i]
  <1>0. NodeOK(s) /\ Starts(s, s, i)
    BY DEF TypeInv, Starts
  <1>1. CASE Propose(i)
    <2>1. s.up /\ CanPropose(s, i)
      BY <1>1 DEF Propose, InBounds
    <2>2. PICK txs \in Payloads : Step(i, MaybePropose(s, txs, i))
      BY <1>1 DEF Propose
    <2> DEFINE x == Proposing(s, txs, i)
               p == ProposalBy(s, txs, i)
               t == MaybePropose(s, txs, i)
    <2> HIDE DEF s
    <2>3. t = HandleProposal(x, p, i) /\ p \in Proposal /\ p \in x.sent
      BY <1>0, <2>1, ProposingFields DEF Opens
    <2>4. Starts(s, x, i)
      BY <2>1 DEF Starts
    <2> HIDE DEF x, p, t
    <2>5. Handled(x, t, Sent, i)
      BY <2>3, HandleProposalRule DEF Handled
    <2>6. node' = [node EXCEPT ![i] = t]
      BY <2>2 DEF Step, t
    <2> QED BY <2>1, <2>4, <2>5, <2>6 DEF s
  <1>2. CASE Receive(i)
    <2>1. PICK j \in Validators : \E m \in node[j].sent :
             s.up /\ Step(i, HandleMessage(s, m, i))
      BY <1>2 DEF Receive, Handle
    <2>2. PICK m \in node[j].sent : s.up /\ Step(i, HandleMessage(s, m, i))
      BY <2>1
    <2>3. m \in Sent /\ m \in Message
      BY <2>2 DEF Sent, TypeInv, NodeState
    <2> DEFINE t == HandleMessage(s, m, i)
    <2>4. Handled(s, t, Sent, i)
      BY <2>3, HandleMessageRule DEF Handled
    <2>5. node' = [node EXCEPT ![i] = t]
      BY <2>2 DEF Step
    <2> HIDE DEF t
    <2> QED BY <1>0, <2>2, <2>4, <2>5
  <1>3. CASE ProposeTimeout(i)
    <2> DEFINE t == OnProposeTimeout(s, i)
    <2>1. s.up /\ node' = [node EXCEPT ![i] = t]
      BY <1>3 DEF ProposeTimeout, InBounds, Step
    <2>2. Handled(s, t, Sent, i)
      BY TimeoutRule DEF Handled
    <2> HIDE DEF t
    <2> QED BY <1>0, <2>1, <2>2
  <1>4. CASE PrevoteTimeout(i)
    <2> DEFINE t == OnPrevoteTimeout(s, i)
    <2>1. s.up /\ node' = [node EXCEPT ![i] = t]
      BY <1>4 DEF PrevoteTimeout, InBounds, Step
    <2>2. Handled(s, t, Sent, i)
      BY TimeoutRule DEF Handled
    <2> HIDE DEF t
    <2> QED BY <1>0, <2>1, <2>2
  <1>5. CASE PrecommitTimeout(i)
    BY <1>5 DEF PrecommitTimeout, InBounds, Step
  <1> QED BY <1>1, <1>2, <1>3, <1>4, <1>5 DEF NodeStep

-----------------------------------------------------------------------------
\* proposer_for names a validator.
LEMMA ProposerType == \A h, r \in Nat : ProposerFor(h, r) \in Validators
  BY ValidatorSetAssumption, SMTT(40) DEF ProposerFor, Validators

\* What the changes before a commit leave alone.
SamePlace(s, t) ==
    /\ NodeOK(t) /\ t.up = s.up /\ t.height = s.height /\ t.round = s.round
    /\ t.chain = s.chain /\ t.proposed = s.proposed

\* Counting a vote changes one tally and the slashing state.
LEMMA CountFields ==
    ASSUME NEW s, NodeOK(s), NEW vote \in Vote,
           NEW t, t = CountPrevote(s, vote) \/ t = CountPrecommit(s, vote)
    PROVE  /\ SamePlace(s, t) /\ t.step = s.step /\ t.sent = s.sent
           /\ t.locked = s.locked /\ t.proposal = s.proposal
           /\ t.slashing = Observe(s.slashing, vote, s.height)
           /\ \A b, v : <<b, v>> \in t.prevotes \cup t.precommits =>
                 \/ <<b, v>> \in s.prevotes \cup s.precommits
                 \/ b = vote.hash /\ v = vote.validator
  <1>1. CASE t = CountPrevote(s, vote)
    <2>1. NodeOK(t)
      BY <1>1, CountType
    <2>2. /\ t.up = s.up /\ t.height = s.height /\ t.round = s.round /\ t.chain = s.chain
          /\ t.proposed = s.proposed /\ t.step = s.step /\ t.sent = s.sent
          /\ t.locked = s.locked /\ t.proposal = s.proposal
          /\ t.slashing = Observe(s.slashing, vote, s.height)
          /\ t.precommits = s.precommits
          /\ t.prevotes = IF vote.hash = ZERO_HASH THEN s.prevotes
                          ELSE s.prevotes \cup {<<vote.hash, vote.validator>>}
      BY <1>1 DEF CountPrevote, NodeOK, NodeState
    <2>3. \A b, v : <<b, v>> \in t.prevotes \cup t.precommits =>
                 \/ <<b, v>> \in s.prevotes \cup s.precommits
                 \/ b = vote.hash /\ v = vote.validator
      BY <2>2, SMTT(40)
    <2> QED BY <2>1, <2>2, <2>3 DEF SamePlace
  <1>2. CASE t = CountPrecommit(s, vote)
    <2>1. NodeOK(t)
      BY <1>2, CountType
    <2>2. /\ t.up = s.up /\ t.height = s.height /\ t.round = s.round /\ t.chain = s.chain
          /\ t.proposed = s.proposed /\ t.step = s.step /\ t.sent = s.sent
          /\ t.locked = s.locked /\ t.proposal = s.proposal
          /\ t.slashing = Observe(s.slashing, vote, s.height)
          /\ t.prevotes = s.prevotes
          /\ t.precommits = IF vote.hash = ZERO_HASH THEN s.precommits
                            ELSE s.precommits \cup {<<vote.hash, vote.validator>>}
      BY <1>2 DEF CountPrecommit, NodeOK, NodeState
    <2>3. \A b, v : <<b, v>> \in t.prevotes \cup t.precommits =>
                 \/ <<b, v>> \in s.prevotes \cup s.precommits
                 \/ b = vote.hash /\ v = vote.validator
      BY <2>2, SMTT(40)
    <2> QED BY <2>1, <2>2, <2>3 DEF SamePlace
  <1> QED BY <1>1, <1>2

\* Sending a message changes what was sent.
LEMMA SendFields ==
    ASSUME NEW s, NodeOK(s), NEW m \in Message, NEW t, t = Sending(s, m)
    PROVE  /\ SamePlace(s, t) /\ t.step = s.step /\ t.sent = s.sent \cup {m}
           /\ t.locked = s.locked /\ t.proposal = s.proposal /\ t.slashing = s.slashing
           /\ t.prevotes = s.prevotes /\ t.precommits = s.precommits
  <1> DEFINE X == s.sent \cup {m}
  <1>1. X \in SUBSET Message
    BY DEF NodeOK, NodeState
  <1>2. t = [s EXCEPT !.sent = X]
    BY DEF Sending
  <1> HIDE DEF X
  <1>3. /\ t \in NodeState /\ t.sent = X
        /\ t.up = s.up /\ t.height = s.height /\ t.round = s.round /\ t.chain = s.chain
        /\ t.proposed = s.proposed /\ t.step = s.step
        /\ t.locked = s.locked /\ t.proposal = s.proposal /\ t.slashing = s.slashing
        /\ t.prevotes = s.prevotes /\ t.precommits = s.precommits
    BY <1>1, <1>2 DEF NodeOK, NodeState
  <1>4. NodeOK(t)
    BY <1>3 DEF NodeOK, ValidBlock
  <1> QED BY <1>3, <1>4 DEF SamePlace, X

\* The lock changes the lock, and sends the precommit.
LEMMA LockFields ==
    ASSUME NEW s, NodeOK(s), NEW b \in Block, NEW self \in Validators,
           NEW t, t = Locking(s, b, self)
    PROVE  /\ SamePlace(s, t) /\ t.step = s.step
           /\ t.sent = s.sent \cup {VoteOf(s, "precommit", b, self)}
           /\ VoteOf(s, "precommit", b, self) \in Vote
           /\ t.locked = b /\ t.proposal = s.proposal /\ t.slashing = s.slashing
           /\ t.prevotes = s.prevotes /\ t.precommits = s.precommits
  <1> DEFINE m == VoteOf(s, "precommit", b, self)
             X == s.sent \cup {m}
  <1>0. m \in Vote
    BY VoteOfType DEF Hash
  <1> HIDE DEF m
  <1>1. X \in SUBSET Message
    BY <1>0 DEF NodeOK, NodeState, Message
  <1>2. t = [s EXCEPT !.locked = b, !.sent = X]
    BY DEF Locking, m
  <1> HIDE DEF X
  <1>3. /\ t \in NodeState /\ t.sent = X
        /\ t.up = s.up /\ t.height = s.height /\ t.round = s.round /\ t.chain = s.chain
        /\ t.proposed = s.proposed /\ t.step = s.step
        /\ t.locked = b /\ t.proposal = s.proposal /\ t.slashing = s.slashing
        /\ t.prevotes = s.prevotes /\ t.precommits = s.precommits
    BY <1>1, <1>2 DEF NodeOK, NodeState
  <1>4. NodeOK(t)
    BY <1>3 DEF NodeOK, ValidBlock
  <1> QED BY <1>0, <1>3, <1>4 DEF SamePlace, X, m

\* An assignment to step.
LEMMA StepFields ==
    ASSUME NEW s, NodeOK(s), NEW step \in VoteSteps, NEW t, t = SetStep(s, step)
    PROVE  /\ SamePlace(s, t) /\ t.step \in {s.step, step} /\ t.sent = s.sent
           /\ t.locked = s.locked /\ t.proposal = s.proposal /\ t.slashing = s.slashing
           /\ t.prevotes = s.prevotes /\ t.precommits = s.precommits
           /\ ~s.up => t = s
  <1>1. NodeOK(t)
    BY SetStepType DEF VoteSteps, Steps
  <1> QED BY <1>1 DEF SamePlace, SetStep, NodeOK, NodeState

\* A proposal that validate_block accepts is taken.
LEMMA TakeFields ==
    ASSUME NEW s, NodeOK(s), NEW b \in Block, ValidBlock(s, b),
           NEW t, t = [s EXCEPT !.proposal = b]
    PROVE  /\ SamePlace(s, t) /\ t.step = s.step /\ t.sent = s.sent
           /\ t.locked = s.locked /\ t.proposal = b /\ t.slashing = s.slashing
           /\ t.prevotes = s.prevotes /\ t.precommits = s.precommits
  <1>1. /\ t \in NodeState
        /\ t.up = s.up /\ t.height = s.height /\ t.round = s.round /\ t.chain = s.chain
        /\ t.proposed = s.proposed /\ t.step = s.step /\ t.sent = s.sent
        /\ t.locked = s.locked /\ t.proposal = b /\ t.slashing = s.slashing
        /\ t.prevotes = s.prevotes /\ t.precommits = s.precommits
    BY DEF NodeOK, NodeState
  <1>2. NodeOK(t)
    BY <1>1 DEF NodeOK, ValidBlock
  <1> QED BY <1>1, <1>2 DEF SamePlace

\* The node one block further; the process ended.
Commits(s, t, b) ==
    /\ t.up = s.up /\ t.height = s.height + 1 /\ t.round = 0
    /\ t.chain = Append(s.chain, <<s.round, b.txs>>)
    /\ t.proposal = None /\ t.locked = None /\ t.prevotes = {} /\ t.precommits = {}
\* The process ended, with everything else as it was.
Exits(s, t) ==
    /\ ~t.up /\ t.height = s.height /\ t.round = s.round /\ t.chain = s.chain
    /\ t.step = s.step /\ t.proposed = s.proposed /\ t.proposal = s.proposal
    /\ t.locked = s.locked /\ t.prevotes = s.prevotes /\ t.precommits = s.precommits

\* A commit appends the proposal to the chain and starts the next height, or ends
\* the process.
LEMMA CommitFields ==
    ASSUME NEW s, NodeOK(s), NEW b \in Block, s.proposal = b, NEW t, t = CommitBlock(s, b)
    PROVE  /\ NodeOK(t) /\ t.sent = s.sent /\ t.slashing = s.slashing
           /\ \/ b.txs \in Unappliable /\ Exits(s, t)
              \/ b.txs \notin Unappliable /\ Commits(s, t, b)
  <1>0. b # None /\ b.height = s.height /\ b.round = s.round
    BY NodeAssumption DEF NodeOK, ValidBlock
  <1>1. NodeOK(t)
    BY <1>0, CommitBlockType
  <1>2. CASE b.txs \in Unappliable
    <2>1. t = [s EXCEPT !.up = FALSE]
      BY <1>2 DEF CommitBlock
    <2>2. t.sent = s.sent /\ t.slashing = s.slashing /\ Exits(s, t)
      BY <2>1 DEF NodeOK, NodeState, Exits
    <2> QED BY <1>1, <1>2, <2>2
  <1>3. CASE b.txs \notin Unappliable
    <2> DEFINE f == FreshRound(s)
               n == s.height + 1
               c == Append(f.chain, <<b.round, b.txs>>)
    <2>1. t = [f EXCEPT !.chain = c, !.height = n, !.round = 0,
                        !.step = "Propose", !.locked = None]
      BY <1>0, <1>3 DEF CommitBlock
    <2>2. /\ f \in NodeState /\ f.up = s.up /\ f.sent = s.sent /\ f.slashing = s.slashing
          /\ f.chain = s.chain
          /\ f.proposal = None /\ f.prevotes = {} /\ f.precommits = {}
      BY DEF FreshRound, NodeOK, NodeState
    <2>3. c = Append(s.chain, <<s.round, b.txs>>)
      BY <1>0, <2>2
    <2> HIDE DEF f, n, c
    <2>4. /\ t.up = f.up /\ t.height = n /\ t.round = 0 /\ t.chain = c /\ t.sent = f.sent
          /\ t.slashing = f.slashing /\ t.proposal = f.proposal /\ t.locked = None
          /\ t.prevotes = f.prevotes /\ t.precommits = f.precommits
      BY <2>1, <2>2 DEF NodeState
    <2> QED BY <1>1, <1>3, <2>2, <2>3, <2>4 DEF n, Commits
  <1> QED BY <1>2, <1>3

-----------------------------------------------------------------------------
\* From s to t a node has sent votes of its own, at most.
Speaks(s, t, self) ==
    /\ s.sent \subseteq t.sent
    /\ \A m \in t.sent : m \in s.sent \/ (m \in Vote /\ m.validator = self)

\* A node past Propose stays past it.
KeepsStep(s, t) == s.step # "Propose" => t.step # "Propose"

\* Where a handler that starts in x takes a node: nowhere, until it commits or
\* the process ends.
Stays(x, self) ==
    {t \in NodeState : t.up /\ SamePlace(x, t) /\ KeepsStep(x, t) /\ Speaks(x, t, self)}

\* Where a commit takes a node: one block further, or out.
Leaves(x, self) ==
    {t \in NodeState :
        /\ NodeOK(t) /\ Speaks(x, t, self)
        /\ \/ /\ t.up /\ t.height = x.height + 1 /\ t.round = 0
              /\ \E c \in Payloads \ Unappliable : t.chain = Append(x.chain, <<x.round, c>>)
           \/ /\ ~t.up /\ t.height = x.height /\ t.round = x.round /\ t.chain = x.chain
              /\ t.proposed = x.proposed /\ KeepsStep(x, t)}

\* The changes before a commit do not move the node.
LEMMA StaysStill ==
    ASSUME NEW x, NEW self, NEW s \in Stays(x, self), NEW t, SamePlace(s, t),
           KeepsStep(s, t), Speaks(s, t, self)
    PROVE  t \in Stays(x, self)
  <1>1. t \in NodeState /\ t.up /\ SamePlace(x, t)
    BY DEF Stays, SamePlace, NodeOK
  <1>2. KeepsStep(x, t)
    BY DEF Stays, KeepsStep
  <1>3. Speaks(x, t, self)
    BY DEF Stays, Speaks
  <1> QED BY <1>1, <1>2, <1>3 DEF Stays

\* The changes a handler makes keep to these two sets.
LEMMA MovesPass ==
    ASSUME NEW x, x.up, NEW self \in Validators, NEW V
    PROVE  Passes(Stays(x, self), Leaves(x, self), V, self)
  <1> DEFINE P == Stays(x, self)
             R == Leaves(x, self)
  <1>0. \A s \in P : NodeOK(s) /\ s.up
    BY DEF Stays, SamePlace
  <1>1. PassesTypes(P, R)
    BY <1>0 DEF PassesTypes, Leaves
  <1>2. PassesCount(P, V)
    <2> SUFFICES ASSUME NEW s \in P, NEW vote \in Vote, NEW t,
                        t = CountPrevote(s, vote) \/ t = CountPrecommit(s, vote)
                 PROVE  t \in P
      BY DEF PassesCount
    <2>1. SamePlace(s, t) /\ t.step = s.step /\ t.sent = s.sent
      BY <1>0, CountFields, SMTT(40)
    <2> QED BY <2>1, StaysStill DEF KeepsStep, Speaks
  <1>3. PassesLock(P, self)
    <2> SUFFICES ASSUME NEW s \in P, NEW b \in Block, NEW t, t = Locking(s, b, self)
                 PROVE  t \in P
      BY DEF PassesLock
    <2> DEFINE m == VoteOf(s, "precommit", b, self)
    <2>1. SamePlace(s, t) /\ t.step = s.step /\ t.sent = s.sent \cup {m} /\ m \in Vote
      BY <1>0, LockFields, SMTT(40)
    <2>2. m.validator = self
      BY DEF VoteOf
    <2> HIDE DEF m
    <2>3. Speaks(s, t, self) /\ KeepsStep(s, t)
      BY <2>1, <2>2 DEF KeepsStep, Speaks
    <2> QED BY <2>1, <2>3, StaysStill
  <1>4. PassesCommit(P, R)
    <2> SUFFICES ASSUME NEW s \in P, NEW b \in Block, s.proposal = b, NEW t, t = CommitBlock(s, b)
                 PROVE  t \in R
      BY DEF PassesCommit
    <2>0. /\ SamePlace(x, s) /\ KeepsStep(x, s) /\ Speaks(x, s, self) /\ s.up
          /\ b.txs \in Payloads
      BY DEF Stays, Block
    <2>1. /\ NodeOK(t) /\ t.sent = s.sent
          /\ \/ b.txs \in Unappliable /\ Exits(s, t)
             \/ b.txs \notin Unappliable /\ Commits(s, t, b)
      BY <1>0, CommitFields, SMTT(40)
    <2>2. t \in NodeState /\ Speaks(x, t, self)
      BY <2>0, <2>1 DEF NodeOK, Speaks
    <2>3. CASE Exits(s, t)
      BY <2>0, <2>1, <2>2, <2>3 DEF Leaves, SamePlace, KeepsStep, Exits
    <2>4. CASE b.txs \notin Unappliable /\ Commits(s, t, b)
      <3>1. b.txs \in Payloads \ Unappliable /\ t.chain = Append(x.chain, <<x.round, b.txs>>)
        BY <2>0, <2>4 DEF SamePlace, Commits
      <3> QED BY <2>0, <2>1, <2>2, <2>4, <3>1 DEF Leaves, SamePlace, Commits
    <2> QED BY <2>1, <2>3, <2>4
  <1>5. ASSUME NEW s \in P, NEW type \in {"prevote", "precommit"}, NEW b \in Hash
        PROVE  Sending(s, VoteOf(s, type, b, self)) \in P
    <2> DEFINE m == VoteOf(s, type, b, self)
               t == Sending(s, m)
    <2>1. m \in Vote
      BY <1>0, VoteOfType
    <2>2. m.validator = self
      BY DEF VoteOf
    <2> HIDE DEF m
    <2>3. SamePlace(s, t) /\ t.step = s.step /\ t.sent = s.sent \cup {m}
      BY <1>0, <2>1, SendFields, SMTT(40) DEF Message
    <2> HIDE DEF t
    <2>4. Speaks(s, t, self) /\ KeepsStep(s, t)
      BY <2>1, <2>2, <2>3 DEF KeepsStep, Speaks
    <2> QED BY <2>3, <2>4, StaysStill DEF t, m
  <1>6. PassesPrevote(P, self)
    BY <1>5 DEF PassesPrevote, Hash
  <1>7. PassesZero(P, self)
    BY <1>5 DEF PassesZero, Hash
  <1>8. PassesStep(P, R)
    <2> SUFFICES ASSUME NEW step \in VoteSteps, NEW s, NEW t, t = SetStep(s, step)
                 PROVE  (s \in P => t \in P) /\ (s \in R => t \in R)
      BY DEF PassesStep
    <2>0. step # "Propose"
      BY DEF VoteSteps
    <2>1. ASSUME s \in P PROVE t \in P
      <3>1. SamePlace(s, t) /\ t.step \in {s.step, step} /\ t.sent = s.sent
        BY <1>0, <2>1, StepFields, SMTT(40)
      <3> QED BY <2>0, <2>1, <3>1, StaysStill DEF KeepsStep, Speaks
    <2>2. ASSUME s \in R PROVE t \in R
      <3>1. NodeOK(s)
        BY <2>2 DEF Leaves
      <3>2. SamePlace(s, t) /\ t.step \in {s.step, step} /\ t.sent = s.sent
        BY <3>1, StepFields, SMTT(40)
      <3> QED BY <2>0, <2>2, <3>2 DEF Leaves, SamePlace, KeepsStep, Speaks, NodeOK
    <2> QED BY <2>1, <2>2
  <1>9. PassesProposal(P, V)
    <2> SUFFICES ASSUME NEW s \in P, NEW p \in Proposal, ValidBlock(s, p.block),
                        NEW t, t = [s EXCEPT !.proposal = p.block]
                 PROVE  t \in P
      BY DEF PassesProposal
    <2>1. p.block \in Block
      BY DEF Proposal
    <2>2. SamePlace(s, t) /\ t.step = s.step /\ t.sent = s.sent
      BY <1>0, <2>1, TakeFields, SMTT(40)
    <2> QED BY <2>2, StaysStill DEF KeepsStep, Speaks
  <1> QED BY <1>1, <1>2, <1>3, <1>4, <1>6, <1>7, <1>8, <1>9 DEF Passes

\* A handler leaves the node where it was, or one block further, or ended.
LEMMA HandlerMoves ==
    ASSUME NEW x, NodeOK(x), x.up, NEW self \in Validators, NEW V, NEW t, Handled(x, t, V, self)
    PROVE  t \in Stays(x, self) \/ t \in Leaves(x, self)
  <1>1. x \in Stays(x, self)
    BY DEF Stays, SamePlace, KeepsStep, Speaks, NodeOK
  <1>2. PICK g \in Stays(x, self) \cup Leaves(x, self) : Shadow(x, t, g)
    BY <1>1, MovesPass DEF Handled, Reaches
  <1>3. CASE t = g
    BY <1>3
  <1>4. CASE ~g.up /\ t = [g EXCEPT !.sent = x.sent]
    <2>1. g \in Leaves(x, self)
      BY <1>4 DEF Stays
    <2>2. /\ t \in NodeState /\ ~t.up /\ t.height = g.height /\ t.round = g.round
          /\ t.chain = g.chain /\ t.proposed = g.proposed /\ t.step = g.step
          /\ t.sent = x.sent /\ t.proposal = g.proposal
      <3>1. g \in NodeState /\ x.sent \in SUBSET Message
        BY <2>1 DEF Leaves, NodeOK, NodeState
      <3> QED BY <1>4, <3>1 DEF NodeState
    <2>3. NodeOK(t)
      BY <2>1, <2>2 DEF Leaves, NodeOK, ValidBlock
    <2> QED BY <1>4, <2>1, <2>2, <2>3 DEF Leaves, KeepsStep, Speaks
  <1> QED BY <1>2, <1>3, <1>4 DEF Shadow

\* What one step of the cluster does to the node that takes it.
SendsOwn(s, t, self) ==
    /\ s.sent \subseteq t.sent
    /\ \A m \in t.sent :
          \/ m \in s.sent
          \/ m \in Vote /\ m.validator = self
          \/ /\ m \in Proposal /\ m.proposer = self /\ CanPropose(s, self)
             /\ m.height = s.height /\ m.round = s.round

\* Within the round, to the next block, or to the next round.
Advances(s, t) ==
    \/ /\ t.height = s.height /\ t.round = s.round /\ t.chain = s.chain /\ KeepsStep(s, t)
    \/ /\ t.up /\ t.height = s.height + 1 /\ t.round = 0
       /\ \E c \in Payloads \ Unappliable : t.chain = Append(s.chain, <<s.round, c>>)
    \/ /\ t.height = s.height /\ t.round = s.round + 1 /\ t.chain = s.chain
       /\ s.round < MaxRound

\* Every step of the cluster is one of one node, which sends its own messages and
\* goes on within its round, to the next block or to the next round.
LEMMA StepMoves ==
    ASSUME TypeInv, NEW i \in Validators, NodeStep(i)
    PROVE  \E t : /\ node' = [node EXCEPT ![i] = t] /\ node[i].up
                  /\ NodeOK(t) /\ SendsOwn(node[i], t, i) /\ Advances(node[i], t)
  <1> DEFINE s == node[i]
  <1>0. NodeOK(s)
    BY DEF TypeInv
  <1>1. PICK t : /\ node' = [node EXCEPT ![i] = t] /\ s.up
                 /\ \/ \E x : Starts(s, x, i) /\ Handled(x, t, Sent, i)
                    \/ s.round < MaxRound /\ t = OnPrecommitTimeout(s)
    BY StepRule
  <1> HIDE DEF s
  <1>2. CASE \E x : Starts(s, x, i) /\ Handled(x, t, Sent, i)
    <2>1. PICK x : Starts(s, x, i) /\ Handled(x, t, Sent, i)
      BY <1>2
    <2>2. /\ NodeOK(x) /\ x.up /\ x.height = s.height /\ x.round = s.round /\ x.chain = s.chain
          /\ x.step = s.step /\ SendsOwn(s, x, i)
      <3>1. CASE x = s
        BY <1>0, <1>1, <3>1 DEF SendsOwn
      <3>2. CASE CanPropose(s, i) /\ \E p : Opens(s, x, p, i)
        BY <3>2 DEF SendsOwn, Opens
      <3> QED BY <1>0, <1>1, <2>1, <3>1, <3>2, StartFields
    <2>3. t \in Stays(x, i) \/ t \in Leaves(x, i)
      BY <2>1, <2>2, HandlerMoves
    <2>4. NodeOK(t) /\ Speaks(x, t, i)
      BY <2>3 DEF Stays, Leaves, SamePlace
    <2>5. SendsOwn(s, t, i)
      BY <2>2, <2>4 DEF SendsOwn, Speaks
    <2>6. Advances(s, t)
      <3>1. CASE t \in Stays(x, i)
        BY <2>2, <3>1 DEF Stays, SamePlace, Advances, KeepsStep
      <3>2. CASE t \in Leaves(x, i)
        BY <2>2, <3>2 DEF Leaves, Advances, KeepsStep
      <3> QED BY <2>3, <3>1, <3>2
    <2> QED BY <1>1, <2>4, <2>5, <2>6 DEF s
  <1>3. CASE s.round < MaxRound /\ t = OnPrecommitTimeout(s)
    <2>1. NodeOK(t)
      BY <1>0, <1>3, TimeoutType
    <2>2. t.height = s.height /\ t.round = s.round + 1 /\ t.sent = s.sent /\ t.chain = s.chain
      BY <1>0, <1>3, SMTT(40) DEF OnPrecommitTimeout, FreshRound, NodeOK, NodeState
    <2>3. SendsOwn(s, t, i) /\ Advances(s, t)
      BY <1>3, <2>2 DEF SendsOwn, Advances
    <2> QED BY <1>1, <2>1, <2>3 DEF s
  <1> QED BY <1>1, <1>2, <1>3

\* A node is past a round, or in it after its first step.
Past(s, h, r) ==
    \/ s.height > h \/ (s.height = h /\ s.round > r)
    \/ s.height = h /\ s.round = r /\ s.step # "Propose"

\* A node that goes on stays past a round.
LEMMA StaysPast ==
    ASSUME NEW s, NEW t, NEW h \in Nat, NEW r \in Nat, s.height \in Nat, s.round \in Nat,
           Advances(s, t), Past(s, h, r)
    PROVE  Past(t, h, r)
  BY SMTT(40) DEF Advances, KeepsStep, Past

\* A round whose proposer is past it, or in it in a step in which maybe_propose
\* does nothing, never gets a proposal (for every set of quorums).
THEOREM LostRoundTheorem == Spec => LostRoundStaysLost
  <1>1. ASSUME TypeInv, NEW i \in Validators, NodeStep(i),
               NEW h \in Nat, NEW r \in Nat, Lost(h, r)
        PROVE  Lost(h, r)'
    <2> DEFINE s == node[i]
               p == ProposerFor(h, r)
    <2>1. PICK t : /\ node' = [node EXCEPT ![i] = t]
                   /\ NodeOK(t) /\ SendsOwn(s, t, i) /\ Advances(s, t)
      BY <1>1, StepMoves
    <2>2. node'[i] = t /\ \A j \in Validators \ {i} : node'[j] = node[j]
      BY <1>1, <2>1 DEF TypeInv
    <2>3. /\ s.height \in Nat /\ s.round \in Nat /\ t.height \in Nat /\ t.round \in Nat
          /\ p \in Validators
      BY <1>1, <2>1, ProposerType DEF TypeInv, NodeState, NodeOK
    <2>4. \/ Passed(p, h, r)
          \/ node[p].height = h /\ node[p].round = r /\ node[p].step # "Propose"
      BY <1>1 DEF Lost
    <2>5. ASSUME NEW m, m \in Sent', m.type = "proposal", m.height = h, m.round = r
          PROVE  FALSE
      <3>1. PICK j \in Validators : m \in node'[j].sent
        BY <2>5 DEF Sent
      <3>2. m \notin Sent
        <4>1. m \in Sent => m.block \in BlocksOf(h, r)
          BY <2>5 DEF BlocksOf
        <4> QED BY <1>1, <4>1 DEF Lost
      <3>3. j = i /\ m \in t.sent /\ m \notin s.sent
        BY <2>2, <3>1, <3>2 DEF Sent
      <3>4. CanPropose(s, i) /\ s.height = h /\ s.round = r
        BY <2>1, <2>5, <3>3 DEF SendsOwn, Vote
      <3>5. i = p /\ s.step = "Propose"
        BY <3>4 DEF CanPropose
      <3> QED BY <2>3, <2>4, <3>4, <3>5, SMTT(40) DEF Passed
    <2>6. BlocksOf(h, r)' = {}
      BY <2>5 DEF BlocksOf
    <2>7. \/ Passed(p, h, r)'
          \/ node'[p].height = h /\ node'[p].round = r /\ node'[p].step # "Propose"
      <3>1. CASE p # i
        <4>1. node'[p] = node[p]
          BY <2>2, <2>3, <3>1
        <4> QED BY <2>4, <4>1 DEF Passed
      <3>2. CASE p = i
        <4>1. node'[p] = t /\ node[p] = s
          BY <2>2, <3>2
        <4> HIDE DEF s, p
        <4>2. Past(t, h, r)
          BY <2>1, <2>3, <2>4, <4>1, StaysPast DEF Past, Passed
        <4> QED BY <4>1, <4>2 DEF Past, Passed
      <3> QED BY <3>1, <3>2
    <2> QED BY <2>6, <2>7 DEF Lost
  <1>2. TypeInv /\ [Next]_vars
            => [\A h \in 1 .. MaxHeight : \A r \in 0 .. MaxRound : Lost(h, r) => Lost(h, r)']_vars
    <2> SUFFICES ASSUME TypeInv, Next, NEW h \in 1 .. MaxHeight, NEW r \in 0 .. MaxRound, Lost(h, r)
                 PROVE  Lost(h, r)'
      OBVIOUS
    <2>1. h \in Nat /\ r \in Nat
      BY ClusterAssumption, SMTT(40)
    <2>2. PICK i \in Validators : NodeStep(i)
      BY DEF Next
    <2> QED BY <1>1, <2>1, <2>2
  <1> QED BY <1>2, TypeInit, TypeNext, PTL DEF Spec, LostRoundStaysLost

-----------------------------------------------------------------------------
\* A node in state s drops the votes of some member of every quorum.
DropsQuorums(s) ==
    \A Q \in Quorums : \E v \in Q :
        /\ IsJailed(s.slashing, v, s.height)
        /\ \A b : <<b, v>> \notin s.prevotes \cup s.precommits

\* The states of such nodes.
DropStates == {s \in NodeState : NodeOK(s) /\ s.up /\ DropsQuorums(s)}

\* handle_vote jails nobody but the sender of the vote.
LEMMA ObserveJailed ==
    ASSUME NEW ss \in SlashingState, NEW vote \in Vote, NEW h, NEW v \in Validators,
           v # vote.validator
    PROVE  Observe(ss, vote, h).jailed[v] = ss.jailed[v]
  <1> DEFINE r == RecordVote(ss, vote)
             w == vote.validator
             E == Existing(ss, vote) \cup {vote}
  <1>1. r \in SlashingState /\ r.jailed = ss.jailed
    BY RecordVoteType DEF RecordVote, SlashingState
  <1> HIDE DEF r, w, E
  <1>2. Slash(r, w, E, h).jailed[v] = r.jailed[v]
    <2> DEFINE x == SatSub(r.stakes[w], SlashAmount(r.stakes[w]))
               y == SatAdd(h, JailDuration)
               z == Append(r.slashed, [validator |-> w, evidence |-> E,
                              amount |-> SlashAmount(r.stakes[w]), until |-> y])
    <2>1. CASE r.stakes[w] = 0
      BY <2>1 DEF Slash
    <2>2. CASE r.stakes[w] # 0
      <3>1. Slash(r, w, E, h) = [r EXCEPT !.stakes[w] = x, !.jailed[w] = y, !.slashed = z]
        BY <1>1, <2>2, SMTT(40) DEF Slash, SlashingState
      <3> HIDE DEF x, y, z
      <3>2. Slash(r, w, E, h).jailed = [r.jailed EXCEPT ![w] = y]
        BY <1>1, <3>1 DEF SlashingState
      <3> QED BY <1>1, <3>2 DEF SlashingState, w
    <2> QED BY <2>1, <2>2
  <1> QED BY <1>1, <1>2 DEF Observe, r, w, E

\* What the jail and the tallies say stays when neither changes.
LEMMA DropsSame ==
    ASSUME NEW s, DropsQuorums(s), NEW t, t.height = s.height, t.slashing = s.slashing,
           t.prevotes \subseteq s.prevotes, t.precommits \subseteq s.precommits
    PROVE  DropsQuorums(t)
  BY DEF DropsQuorums

\* While a member of every quorum is jailed, no tally reaches a quorum.
LEMMA DropsPass ==
    ASSUME NEW self \in Validators, NEW V
    PROVE  Passes(DropStates, {}, V, self)
  <1> DEFINE P == DropStates
  <1>0. \A s \in P : NodeOK(s) /\ s.up /\ DropsQuorums(s)
    BY DEF DropStates
  <1>1. ASSUME NEW s \in P, NEW t, SamePlace(s, t), t.slashing = s.slashing,
               t.prevotes = s.prevotes, t.precommits = s.precommits
        PROVE  t \in P
    <2>1. NodeOK(t) /\ t.up /\ t.height = s.height /\ t \in NodeState
      BY <1>0, <1>1 DEF SamePlace, NodeOK
    <2>2. DropsQuorums(t)
      BY <1>0, <1>1, <2>1, DropsSame
    <2> QED BY <2>1, <2>2 DEF DropStates
  <1>2. ASSUME NEW s \in P, NEW b
        PROVE  ~QuorumMet(Voters(s.prevotes, b)) /\ ~QuorumMet(Voters(s.precommits, b))
    <2>1. \A Q \in Quorums : \E v \in Q : \A c : <<c, v>> \notin s.prevotes \cup s.precommits
      BY <1>0 DEF DropsQuorums
    <2> QED BY <2>1 DEF QuorumMet, Voters
  <1>3. PassesTypes(P, {}) /\ PassesLock(P, self) /\ PassesCommit(P, {})
    BY <1>0, <1>2 DEF PassesTypes, PassesLock, PassesCommit
  <1>4. PassesCount(P, V)
    <2> SUFFICES ASSUME NEW s \in P, NEW vote \in Vote, Countable(s, vote), NEW t,
                        t = CountPrevote(s, vote) \/ t = CountPrecommit(s, vote)
                 PROVE  t \in P
      BY DEF PassesCount
    <2>1. /\ SamePlace(s, t)
          /\ t.slashing = Observe(s.slashing, vote, s.height)
          /\ \A b, v : <<b, v>> \in t.prevotes \cup t.precommits =>
                 \/ <<b, v>> \in s.prevotes \cup s.precommits
                 \/ b = vote.hash /\ v = vote.validator
      BY <1>0, CountFields
    <2>2. NodeOK(t) /\ t.up /\ t.height = s.height /\ t \in NodeState
      BY <1>0, <2>1 DEF SamePlace, NodeOK
    <2>3. s.slashing \in SlashingState
      BY <1>0 DEF NodeOK, NodeState
    <2>4. ASSUME NEW Q \in Quorums
          PROVE  \E v \in Q : /\ IsJailed(t.slashing, v, t.height)
                              /\ \A b : <<b, v>> \notin t.prevotes \cup t.precommits
      <3>1. PICK v \in Q : /\ IsJailed(s.slashing, v, s.height)
                           /\ \A b : <<b, v>> \notin s.prevotes \cup s.precommits
        BY <1>0 DEF DropsQuorums
      <3>2. v # vote.validator /\ v \in Validators
        BY <3>1 DEF Countable, Quorums
      <3>3. t.slashing.jailed[v] = s.slashing.jailed[v]
        BY <2>1, <2>3, <3>2, ObserveJailed, SMTT(40)
      <3>4. IsJailed(t.slashing, v, t.height)
        BY <2>2, <3>1, <3>3 DEF IsJailed
      <3>5. ASSUME NEW b PROVE <<b, v>> \notin t.prevotes \cup t.precommits
        <4>1. <<b, v>> \in t.prevotes \cup t.precommits => <<b, v>> \in s.prevotes \cup s.precommits
          BY <2>1, <3>2, SMTT(40)
        <4> QED BY <3>1, <4>1
      <3> QED BY <3>4, <3>5
    <2> QED BY <2>2, <2>4 DEF DropStates, DropsQuorums
  <1>5. ASSUME NEW s \in P, NEW type \in {"prevote", "precommit"}, NEW b \in Hash
        PROVE  Sending(s, VoteOf(s, type, b, self)) \in P
    <2> DEFINE m == VoteOf(s, type, b, self)
               t == Sending(s, m)
    <2>1. m \in Message
      BY <1>0, VoteOfType DEF Message
    <2> HIDE DEF m
    <2>2. /\ SamePlace(s, t) /\ t.slashing = s.slashing
          /\ t.prevotes = s.prevotes /\ t.precommits = s.precommits
      BY <1>0, <2>1, SendFields, SMTT(40)
    <2> HIDE DEF t
    <2>3. t \in P
      BY <1>1, <2>2
    <2> QED BY <2>3 DEF t, m
  <1>6. PassesPrevote(P, self) /\ PassesZero(P, self)
    BY <1>5 DEF PassesPrevote, PassesZero, Hash
  <1>7. PassesStep(P, {})
    <2> SUFFICES ASSUME NEW step \in VoteSteps, NEW s \in P, NEW t, t = SetStep(s, step)
                 PROVE  t \in P
      BY DEF PassesStep
    <2>1. /\ SamePlace(s, t) /\ t.slashing = s.slashing
          /\ t.prevotes = s.prevotes /\ t.precommits = s.precommits
      BY <1>0, StepFields, SMTT(40)
    <2> QED BY <1>1, <2>1
  <1>8. PassesProposal(P, V)
    <2> SUFFICES ASSUME NEW s \in P, NEW p \in Proposal, ValidBlock(s, p.block),
                        NEW t, t = [s EXCEPT !.proposal = p.block]
                 PROVE  t \in P
      BY DEF PassesProposal
    <2>1. p.block \in Block
      BY DEF Proposal
    <2>2. /\ SamePlace(s, t) /\ t.slashing = s.slashing
          /\ t.prevotes = s.prevotes /\ t.precommits = s.precommits
      BY <1>0, <2>1, TakeFields, SMTT(40)
    <2> QED BY <1>1, <2>2
  <1> QED BY <1>3, <1>4, <1>6, <1>7, <1>8 DEF Passes

\* A node that has jailed a member of every quorum, with none of its votes
\* counted, stays so: it never commits, and its height, in which the jail is
\* counted, does not move (for every set of quorums).
THEOREM JailedOutTheorem == Spec => JailedOutIsPermanent
  <1>1. ASSUME TypeInv, NEW j \in Validators
        PROVE  JailedOut(j) <=> DropsQuorums(node[j])
    <2>1. /\ node[j].prevotes \in SUBSET (Block \X Validators)
          /\ node[j].precommits \in SUBSET (Block \X Validators)
      BY <1>1 DEF TypeInv, NodeState
    <2> DEFINE T == node[j].prevotes \cup node[j].precommits
    <2>2. T \in SUBSET (Block \X Validators)
      BY <2>1
    <2> HIDE DEF T
    <2>3. \A v : (\A t \in T : t[2] # v) <=> (\A b : <<b, v>> \notin T)
      BY <2>2, SMTT(40)
    <2> QED BY <2>3 DEF JailedOut, DropsQuorums, T
  <1>2. ASSUME TypeInv, NEW i \in Validators, NodeStep(i), NEW j \in Validators,
               DropsQuorums(node[j])
        PROVE  DropsQuorums(node'[j])
    <2> DEFINE s == node[i]
    <2>0. NodeOK(s)
      BY <1>2 DEF TypeInv
    <2>1. PICK t : /\ node' = [node EXCEPT ![i] = t] /\ s.up
                   /\ \/ \E x : Starts(s, x, i) /\ Handled(x, t, Sent, i)
                      \/ t = OnPrecommitTimeout(s)
      BY <1>2, StepRule
    <2>2. node'[i] = t /\ (j # i => node'[j] = node[j])
      BY <1>2, <2>1 DEF TypeInv
    <2> HIDE DEF s
    <2>3. ASSUME DropsQuorums(s) PROVE DropsQuorums(t)
      <3>1. ASSUME NEW x, Starts(s, x, i), Handled(x, t, Sent, i)
            PROVE  DropsQuorums(t)
        <4>1. /\ NodeOK(x) /\ x.up /\ x.height = s.height /\ x.slashing = s.slashing
              /\ x.prevotes = s.prevotes /\ x.precommits = s.precommits
          <5>1. x = s \/ \E p : Opens(s, x, p, i)
            BY <2>0, <2>1, <3>1, StartFields
          <5> QED BY <2>0, <2>1, <5>1 DEF Opens
        <4>2. DropsQuorums(x)
          BY <2>3, <4>1, DropsSame
        <4>3. x \in DropStates
          BY <4>1, <4>2 DEF DropStates, NodeOK
        <4>4. Reaches(x, t, DropStates, {})
          BY <3>1, <4>3, DropsPass DEF Handled
        <4>5. t \in DropStates
          BY <4>4 DEF Reaches, Shadow, DropStates
        <4> QED BY <4>5 DEF DropStates
      <3>2. ASSUME t = OnPrecommitTimeout(s)
            PROVE  DropsQuorums(t)
        <4>1. /\ t.height = s.height /\ t.slashing = s.slashing
              /\ t.prevotes = {} /\ t.precommits = {}
          BY <2>0, <3>2 DEF OnPrecommitTimeout, FreshRound, NodeOK, NodeState
        <4> QED BY <2>3, <4>1, DropsSame
      <3> QED BY <2>1, <3>1, <3>2
    <2> QED BY <1>2, <2>2, <2>3 DEF s
  <1>3. TypeInv /\ TypeInv' /\ [Next]_vars
            => [\A i \in Validators : JailedOut(i) => JailedOut(i)']_vars
    <2> SUFFICES ASSUME TypeInv, TypeInv', Next, NEW j \in Validators, JailedOut(j)
                 PROVE  JailedOut(j)'
      OBVIOUS
    <2>1. PICK i \in Validators : NodeStep(i)
      BY DEF Next
    <2>2. DropsQuorums(node[j])
      BY <1>1
    <2>3. DropsQuorums(node'[j])
      BY <1>2, <2>1, <2>2
    <2>4. JailedOut(j)' <=> DropsQuorums(node'[j])
      <3>1. /\ node'[j].prevotes \in SUBSET (Block \X Validators)
            /\ node'[j].precommits \in SUBSET (Block \X Validators)
        BY DEF TypeInv, NodeState
      <3> DEFINE T == node'[j].prevotes \cup node'[j].precommits
      <3>2. T \in SUBSET (Block \X Validators)
        BY <3>1
      <3> HIDE DEF T
      <3>3. \A v : (\A t \in T : t[2] # v) <=> (\A b : <<b, v>> \notin T)
        BY <3>2, SMTT(40)
      <3> QED BY <3>3 DEF JailedOut, DropsQuorums, T
    <2> QED BY <2>3, <2>4
  <1> QED BY <1>3, TypeInit, TypeNext, PTL DEF Spec, JailedOutIsPermanent

-----------------------------------------------------------------------------
-----------------------------------------------------------------------------
\* Two votes of v among K convict it.
Offends(v, K) ==
    \E x, y \in K : /\ x.type # "proposal" /\ y.type # "proposal"
                    /\ x.validator = v /\ y.validator = v
                    /\ x.height = y.height /\ x.round = y.round
                    /\ x.type = y.type /\ x.hash # y.hash

\* The slashing state rests on the votes in K.
RestsOn(ss, K) ==
    /\ ss.votes \subseteq K
    /\ \A v \in Validators : ss.jailed[v] # 0 => Offends(v, K)

\* The states of such nodes, when K has been broadcast.
RestStates(K) == {s \in NodeState : NodeOK(s) /\ RestsOn(s.slashing, K \cup s.sent)}

\* More votes convict no fewer validators.
LEMMA OffendsMore ==
    ASSUME NEW v, NEW K, Offends(v, K), NEW L, K \subseteq L
    PROVE  Offends(v, L)
  BY DEF Offends

\* More votes support the slashing state as well.
LEMMA RestsMore ==
    ASSUME NEW ss, NEW K, RestsOn(ss, K), NEW L, K \subseteq L
    PROVE  RestsOn(ss, L)
  BY OffendsMore DEF RestsOn

\* handle_vote keeps the votes it has seen, and jails on a pair of them.
LEMMA ObserveRests ==
    ASSUME NEW ss \in SlashingState, NEW vote \in Vote, NEW h, NEW K, K \subseteq Message,
           RestsOn(ss, K), vote \in K
    PROVE  RestsOn(Observe(ss, vote, h), K)
  <1> DEFINE r == RecordVote(ss, vote)
             w == vote.validator
             E == Existing(ss, vote) \cup {vote}
             o == Observe(ss, vote, h)
  <1>1. r \in SlashingState /\ r.jailed = ss.jailed /\ r.votes \subseteq ss.votes \cup {vote}
    BY RecordVoteType DEF RecordVote, SlashingState
  <1>2. Slash(r, w, E, h).votes = r.votes
    <2> HIDE DEF r, w, E
    <2> QED BY <1>1, SMTT(40) DEF Slash, SlashingState
  <1>3. o.votes = r.votes
    BY <1>2 DEF Observe
  <1>4. o.votes \subseteq K
    BY <1>1, <1>3 DEF RestsOn
  <1>5. ASSUME NEW v \in Validators, o.jailed[v] # 0
        PROVE  Offends(v, K)
    <2>1. CASE ss.jailed[v] # 0
      BY <2>1 DEF RestsOn
    <2>2. CASE ss.jailed[v] = 0
      <3>1. v = w
        BY <1>5, <2>2, ObserveJailed
      <3>2. IsDoubleSign(ss, vote)
        BY <1>1, <1>5, <2>2 DEF Observe
      <3>3. PICK x \in Existing(ss, vote) : x.hash # vote.hash
        BY <3>2 DEF IsDoubleSign
      <3>4. /\ x \in K /\ x.validator = w /\ x.height = vote.height /\ x.round = vote.round
            /\ x.type = vote.type
        BY <3>3 DEF Existing, RestsOn
      <3>5. vote.type # "proposal"
        BY DEF Vote
      <3> QED BY <3>1, <3>3, <3>4, <3>5 DEF Offends
    <2> QED BY <2>1, <2>2
  <1> QED BY <1>4, <1>5 DEF RestsOn

\* No handler jails a validator without two of its votes.
LEMMA RestsPass ==
    ASSUME NEW self \in Validators, NEW K, K \subseteq Message
    PROVE  Passes({s \in RestStates(K) : s.up}, RestStates(K), K, self)
  <1> DEFINE P == {s \in RestStates(K) : s.up}
             R == RestStates(K)
  <1>0. /\ \A s \in R : NodeOK(s) /\ RestsOn(s.slashing, K \cup s.sent)
        /\ \A s \in P : NodeOK(s) /\ RestsOn(s.slashing, K \cup s.sent) /\ s.up /\ s \in R
    BY DEF RestStates
  <1>1. ASSUME NEW s \in R, NEW t, NodeOK(t), t.slashing = s.slashing, s.sent \subseteq t.sent
        PROVE  t \in R /\ (t.up => t \in P)
    <2>1. RestsOn(t.slashing, K \cup t.sent)
      <3> DEFINE A == K \cup s.sent
                 B == K \cup t.sent
      <3>1. RestsOn(t.slashing, A) /\ A \subseteq B
        BY <1>0, <1>1
      <3> HIDE DEF A, B
      <3>2. RestsOn(t.slashing, B)
        BY <3>1, RestsMore
      <3> QED BY <3>2 DEF B
    <2> QED BY <1>1, <2>1 DEF RestStates, NodeOK
  <1>10. \A t : NodeOK(t) /\ t.up /\ RestsOn(t.slashing, K \cup t.sent) => t \in P
    BY DEF RestStates, NodeOK
  <1>11. \A t \in R : t.up => t \in P
    OBVIOUS
  <1>13. (\A s \in P : NodeOK(s)) /\ (\A s \in R : NodeOK(s))
    BY <1>0
  <1>12. SUFFICES Passes(P, R, K, self)
    OBVIOUS
  <1> HIDE DEF P, R
  <1>2. PassesTypes(P, R)
    BY <1>0 DEF PassesTypes
  <1>3. PassesCount(P, K)
    <2> SUFFICES ASSUME NEW s \in P, NEW vote \in Vote, vote \in K \cup s.sent, NEW t,
                        t = CountPrevote(s, vote) \/ t = CountPrecommit(s, vote)
                 PROVE  t \in P
      BY DEF PassesCount
    <2>1. /\ SamePlace(s, t) /\ t.sent = s.sent
          /\ t.slashing = Observe(s.slashing, vote, s.height)
      BY <1>0, CountFields
    <2>2. NodeOK(t) /\ t.up /\ t \in NodeState
      BY <1>0, <2>1 DEF SamePlace, NodeOK
    <2>3. s.slashing \in SlashingState /\ K \cup s.sent \subseteq Message
      BY <1>0 DEF NodeOK, NodeState
    <2> DEFINE A == K \cup s.sent
    <2>4. A \subseteq Message /\ RestsOn(s.slashing, A) /\ vote \in A /\ A = K \cup t.sent
      BY <1>0, <2>1, <2>3
    <2> HIDE DEF A
    <2>5. RestsOn(Observe(s.slashing, vote, s.height), A)
      BY <2>3, <2>4, ObserveRests
    <2> QED BY <1>10, <2>1, <2>2, <2>4, <2>5
  <1>4. PassesLock(P, self)
    <2> SUFFICES ASSUME NEW s \in P, NEW b \in Block, NEW t, t = Locking(s, b, self)
                 PROVE  t \in P
      BY DEF PassesLock
    <2>1. SamePlace(s, t) /\ s.sent \subseteq t.sent /\ t.slashing = s.slashing
      BY <1>13, LockFields, SMTT(40)
    <2> QED BY <1>0, <1>1, <2>1 DEF SamePlace
  <1>5. PassesCommit(P, R)
    <2> SUFFICES ASSUME NEW s \in P, NEW b \in Block, s.proposal = b, NEW t, t = CommitBlock(s, b)
                 PROVE  t \in R
      BY DEF PassesCommit
    <2>1. NodeOK(t) /\ t.sent = s.sent /\ t.slashing = s.slashing
      BY <1>13, CommitFields, SMTT(40)
    <2> QED BY <1>0, <1>1, <2>1
  <1>6. ASSUME NEW s \in P, NEW type \in {"prevote", "precommit"}, NEW b \in Hash
        PROVE  Sending(s, VoteOf(s, type, b, self)) \in P
    <2> DEFINE m == VoteOf(s, type, b, self)
               t == Sending(s, m)
    <2>1. m \in Message
      BY <1>0, VoteOfType DEF Message
    <2> HIDE DEF m
    <2>2. SamePlace(s, t) /\ s.sent \subseteq t.sent /\ t.slashing = s.slashing
      BY <1>13, <2>1, SendFields, SMTT(40)
    <2> HIDE DEF t
    <2>3. t \in P
      BY <1>0, <1>1, <2>2 DEF SamePlace
    <2> QED BY <2>3 DEF t, m
  <1>7. PassesPrevote(P, self) /\ PassesZero(P, self)
    BY <1>6 DEF PassesPrevote, PassesZero, Hash
  <1>8. PassesStep(P, R)
    <2> SUFFICES ASSUME NEW step \in VoteSteps, NEW s \in R, NEW t, t = SetStep(s, step)
                 PROVE  t \in R /\ t.up = s.up
      BY <1>0, <1>11 DEF PassesStep
    <2>1. SamePlace(s, t) /\ t.sent = s.sent /\ t.slashing = s.slashing
      BY <1>13, StepFields, SMTT(40)
    <2> QED BY <1>0, <1>1, <2>1 DEF SamePlace
  <1>9. PassesProposal(P, K)
    <2> SUFFICES ASSUME NEW s \in P, NEW p \in Proposal, ValidBlock(s, p.block),
                        NEW t, t = [s EXCEPT !.proposal = p.block]
                 PROVE  t \in P
      BY DEF PassesProposal
    <2>1. p.block \in Block
      BY DEF Proposal
    <2>2. SamePlace(s, t) /\ t.sent = s.sent /\ t.slashing = s.slashing
      BY <1>13, <2>1, TakeFields, SMTT(40)
    <2> QED BY <1>0, <1>1, <2>2 DEF SamePlace
  <1> QED BY <1>2, <1>3, <1>4, <1>5, <1>7, <1>8, <1>9 DEF Passes

\* Every jail rests on votes on the network, and a node signs its own votes.
JailInv ==
    \A i \in Validators :
        /\ \A m \in node[i].sent : m.type # "proposal" => m.validator = i
        /\ node[i].up => node[i].slashing.votes \subseteq Sent
        /\ \A v \in Validators :
              (node[i].up \/ v # i) /\ node[i].slashing.jailed[v] # 0 => Offends(v, Sent)

\* What a handler run of node i leaves of the jail list.
LEMMA HandlerJails ==
    ASSUME NEW x, NodeOK(x), x.up, NEW i \in Validators, NEW K, K \subseteq Message,
           RestsOn(x.slashing, K \cup x.sent), NEW t, Handled(x, t, K, i)
    PROVE  /\ t.up => t.slashing.votes \subseteq K \cup t.sent
           /\ \A v \in Validators :
                 (t.up \/ v # i) /\ t.slashing.jailed[v] # 0 => Offends(v, K \cup t.sent)
  <1> DEFINE P == {s \in RestStates(K) : s.up} \cap Stays(x, i)
             R == RestStates(K) \cap Leaves(x, i)
  <1>1. Passes(P, R, K, i)
    BY MovesPass, RestsPass, PassesBoth
  <1>2. x \in P
    BY DEF RestStates, Stays, SamePlace, KeepsStep, Speaks, NodeOK
  <1>3. /\ \A g \in P : g.up
        /\ \A g \in P \cup R : /\ RestsOn(g.slashing, K \cup g.sent) /\ g \in NodeState
                               /\ Speaks(x, g, i)
    BY DEF RestStates, Stays, Leaves
  <1> HIDE DEF P, R
  <1>4. PICK g \in P \cup R : Shadow(x, t, g)
    BY <1>1, <1>2 DEF Handled, Reaches
  <1>5. CASE t = g
    BY <1>3, <1>5 DEF RestsOn
  <1>6. CASE ~g.up /\ t = [g EXCEPT !.sent = x.sent]
    <2>1. ~t.up /\ t.slashing = g.slashing /\ t.sent = x.sent
      BY <1>3, <1>6 DEF NodeState
    <2>2. ASSUME NEW v \in Validators, v # i, t.slashing.jailed[v] # 0
          PROVE  Offends(v, K \cup t.sent)
      <3>1. Offends(v, K \cup g.sent)
        BY <1>3, <2>1, <2>2 DEF RestsOn
      <3>2. \A m \in K \cup g.sent : m.validator = v => m \in K \cup t.sent
        BY <1>3, <2>1, <2>2 DEF Speaks
      <3> QED BY <3>1, <3>2 DEF Offends
    <2> QED BY <2>1, <2>2
  <1> QED BY <1>4, <1>5, <1>6 DEF Shadow

\* No step jails a validator without two of its votes on the network.
LEMMA JailNext ==
    ASSUME TypeInv, JailInv, NEW i \in Validators, NodeStep(i)
    PROVE  JailInv'
  <1> DEFINE s == node[i]
  <1>0. NodeOK(s) /\ Sent \subseteq Message
    <2>1. \A j \in Validators : node[j].sent \subseteq Message
      BY SMTT(40) DEF TypeInv, NodeState
    <2> QED BY <2>1 DEF TypeInv, Sent
  <1>1. PICK t : /\ node' = [node EXCEPT ![i] = t] /\ s.up
                 /\ \/ \E x : Starts(s, x, i) /\ Handled(x, t, Sent, i)
                    \/ t = OnPrecommitTimeout(s)
    BY StepRule
  <1>2. node'[i] = t /\ \A j \in Validators \ {i} : node'[j] = node[j]
    BY <1>1 DEF TypeInv
  <1>3. SendsOwn(s, t, i)
    <2>1. PICK u : node' = [node EXCEPT ![i] = u] /\ SendsOwn(s, u, i)
      BY StepMoves
    <2>2. u = t
      BY <1>2, <2>1 DEF TypeInv
    <2> QED BY <2>1, <2>2
  <1>4. Sent \subseteq Sent' /\ t.sent \subseteq Sent'
    BY <1>2, <1>3 DEF Sent, SendsOwn
  <1>5. \A m \in t.sent : m.type # "proposal" => m.validator = i
    BY <1>3 DEF SendsOwn, JailInv, Proposal
  <1> HIDE DEF s
  <1>6. /\ RestsOn(s.slashing, Sent)
        /\ s.up
    BY <1>1 DEF JailInv, RestsOn, s
  <1>7. /\ t.up => t.slashing.votes \subseteq Sent \cup t.sent
        /\ \A v \in Validators :
              (t.up \/ v # i) /\ t.slashing.jailed[v] # 0 => Offends(v, Sent \cup t.sent)
    <2>1. ASSUME NEW x, Starts(s, x, i), Handled(x, t, Sent, i)
          PROVE  /\ t.up => t.slashing.votes \subseteq Sent \cup t.sent
                 /\ \A v \in Validators :
                       (t.up \/ v # i) /\ t.slashing.jailed[v] # 0 => Offends(v, Sent \cup t.sent)
      <3>1. x = s \/ \E p : Opens(s, x, p, i)
        BY <1>0, <1>6, <2>1, StartFields
      <3>2. NodeOK(x) /\ x.up /\ x.slashing = s.slashing
        BY <1>0, <1>6, <3>1 DEF Opens
      <3> DEFINE A == Sent \cup x.sent
      <3>3. Sent \subseteq A /\ RestsOn(x.slashing, Sent)
        BY <1>6, <3>2
      <3> HIDE DEF A
      <3>4. RestsOn(x.slashing, A)
        BY <3>3, RestsMore
      <3>5. RestsOn(x.slashing, Sent \cup x.sent)
        BY <3>4 DEF A
      <3> QED BY <1>0, <2>1, <3>2, <3>5, HandlerJails
    <2>2. ASSUME t = OnPrecommitTimeout(s)
          PROVE  /\ t.up => t.slashing.votes \subseteq Sent \cup t.sent
                 /\ \A v \in Validators :
                       (t.up \/ v # i) /\ t.slashing.jailed[v] # 0 => Offends(v, Sent \cup t.sent)
      <3>1. t.slashing = s.slashing
        BY <1>0, <2>2 DEF OnPrecommitTimeout, FreshRound, NodeOK, NodeState
      <3> DEFINE A == Sent \cup t.sent
      <3>2. Sent \subseteq A /\ RestsOn(t.slashing, Sent)
        BY <1>6, <3>1
      <3> HIDE DEF A
      <3>3. RestsOn(t.slashing, A)
        BY <3>2, RestsMore
      <3> QED BY <3>3 DEF A, RestsOn
    <2> QED BY <1>1, <2>1, <2>2
  <1>8. Sent \cup t.sent \subseteq Sent'
    BY <1>4
  <1>9. ASSUME NEW j \in Validators
        PROVE  /\ \A m \in node'[j].sent : m.type # "proposal" => m.validator = j
               /\ node'[j].up => node'[j].slashing.votes \subseteq Sent'
               /\ \A v \in Validators :
                    (node'[j].up \/ v # j) /\ node'[j].slashing.jailed[v] # 0 => Offends(v, Sent')
    <2>1. CASE j = i
      BY <1>2, <1>5, <1>7, <1>8, <2>1, OffendsMore
    <2>2. CASE j # i
      BY <1>2, <1>4, <2>2, OffendsMore DEF JailInv
    <2> QED BY <2>1, <2>2
  <1> QED BY <1>9 DEF JailInv

\* A node jails only validators that have sent two conflicting votes, except
\* itself on its way out (for every set of quorums).
THEOREM JailTheorem == Spec => []JailedOnlyForDoubleSign
  <1>1. Init => JailInv
    <2> SUFFICES ASSUME Init PROVE JailInv
      BY SMTT(40)
    <2>1. \A i \in Validators : /\ node[i].sent = {} /\ node[i].slashing.votes = {}
                                /\ \A v \in Validators : node[i].slashing.jailed[v] = 0
      BY SMTT(40) DEF Init, InitNode, NewSlashing
    <2> QED BY <2>1 DEF JailInv
  <1>2. TypeInv /\ JailInv /\ [Next]_vars => JailInv'
    <2> SUFFICES ASSUME TypeInv, JailInv, [Next]_vars PROVE JailInv'
      BY SMTT(40)
    <2>1. CASE Next
      BY <2>1, JailNext DEF Next
    <2>2. CASE UNCHANGED vars
      <3>1. node' = node
        BY <2>2 DEF vars
      <3>2. Sent' = Sent
        BY <3>1 DEF Sent
      <3> QED BY <3>1, <3>2 DEF JailInv
    <2> QED BY <2>1, <2>2
  <1>3. JailInv => JailedOnlyForDoubleSign
    <2> SUFFICES ASSUME JailInv, NEW i \in Validators, NEW v \in Validators,
                        node[i].up \/ v # i, node[i].slashing.jailed[v] # 0
                 PROVE  \E x, y \in {m \in node[v].sent : m.type # "proposal"} :
                            /\ x.height = y.height /\ x.round = y.round
                            /\ x.type = y.type /\ x.hash # y.hash
      BY DEF JailedOnlyForDoubleSign
    <2>1. Offends(v, Sent)
      BY DEF JailInv
    <2>2. PICK x \in Sent, y \in Sent :
             /\ x.type # "proposal" /\ y.type # "proposal"
             /\ x.validator = v /\ y.validator = v
             /\ x.height = y.height /\ x.round = y.round
             /\ x.type = y.type /\ x.hash # y.hash
      BY <2>1 DEF Offends
    <2>3. \A m \in Sent : m.type # "proposal" /\ m.validator = v => m \in node[v].sent
      <3>1. TAKE m \in Sent
      <3>2. HAVE m.type # "proposal" /\ m.validator = v
      <3>3. PICK j \in Validators : m \in node[j].sent
        BY DEF Sent
      <3>4. m.validator = j
        BY <3>2, <3>3 DEF JailInv
      <3> QED BY <3>2, <3>3, <3>4
    <2>4. x \in node[v].sent /\ y \in node[v].sent
      BY <2>2, <2>3
    <2> QED BY <2>2, <2>4
  <1> QED BY <1>1, <1>2, <1>3, TypeInit, TypeNext, PTL DEF Spec

-----------------------------------------------------------------------------
(***************************************************************************)
(* The inductive invariant behind agreement.                               *)
(***************************************************************************)

\* The messages of the model, by their contents.
Msg(type, h, r, b, v) ==
    [type |-> type, height |-> h, round |-> r, hash |-> b, validator |-> v]
PropMsg(h, r, b) ==
    [type |-> "proposal", height |-> h, round |-> r, block |-> b, proposer |-> ProposerFor(h, r)]

\* What validator v, or the proposer of a round, has given to the network.
Prevoted(nd, v, h, r, b) == Msg("prevote", h, r, b, v) \in nd[v].sent
Precommitted(nd, v, h, r, b) == Msg("precommit", h, r, b, v) \in nd[v].sent
Proposed(nd, h, r, b) == PropMsg(h, r, b) \in nd[ProposerFor(h, r)].sent

PrevoteQuorum(nd, h, r, b) == \E Q \in Quorums : \A v \in Q : Prevoted(nd, v, h, r, b)
PrecommitQuorum(nd, h, r, b) == \E Q \in Quorums : \A v \in Q : Precommitted(nd, v, h, r, b)

\* Validator v is in this round or past it; it is past it.
Reached(nd, v, h, r) == nd[v].height > h \/ (nd[v].height = h /\ nd[v].round >= r)
Left(nd, v, h, r) == nd[v].height > h \/ (nd[v].height = h /\ nd[v].round > r)

\* No quorum of precommits for b can come about in its round any more.
Excluded(nd, h, r, b) ==
    \A Q \in Quorums : \E v \in Q : Left(nd, v, h, r) /\ ~Precommitted(nd, v, h, r, b)

\* Every node is well-formed.
Typed(nd) == nd \in [Validators -> NodeState] /\ \A i \in Validators : NodeOK(nd[i])

\* A node signs its own messages.
OwnMessages(nd) ==
    \A i \in Validators : \A m \in nd[i].sent :
        /\ m.type = "proposal" => m.proposer = i /\ VerifiedProposal(m)
        /\ m.type # "proposal" => m.validator = i

\* A block is prevoted only if it was proposed, in a round the node has reached.
PrevoteInv(nd) ==
    \A i \in Validators, h, r \in Nat, b \in Block :
        Prevoted(nd, i, h, r, b) => Proposed(nd, h, r, b) /\ Reached(nd, i, h, r)

\* A block is precommitted only if a quorum has prevoted it.
PrecommitInv(nd) ==
    \A i \in Validators, h, r \in Nat, b \in Block :
        Precommitted(nd, i, h, r, b) => PrevoteQuorum(nd, h, r, b) /\ Reached(nd, i, h, r)

\* A proposal is for a block of its round, and its proposer remembers it.
ProposalInv(nd) ==
    \A h, r \in Nat, b \in Block :
        Proposed(nd, h, r, b) =>
            LET p == nd[ProposerFor(h, r)]
            IN  /\ b.height = h /\ b.round = r
                /\ Reached(nd, ProposerFor(h, r), h, r)
                /\ p.height = h /\ p.round = r => p.proposed

\* A round has one proposal.
OneProposal(nd) ==
    \A h, r \in Nat, b, c \in Block : Proposed(nd, h, r, b) /\ Proposed(nd, h, r, c) => b = c

\* A node is locked on a block it has precommitted.
LockInv(nd) ==
    \A i \in Validators :
        nd[i].up /\ nd[i].locked # None =>
            Precommitted(nd, i, nd[i].height, nd[i].locked.round, nd[i].locked)

\* The lock is as recent as any precommit of the node at its height.
LockLatest(nd) ==
    \A i \in Validators, r \in Nat, b \in Block :
        nd[i].up /\ Precommitted(nd, i, nd[i].height, r, b) =>
            nd[i].locked # None /\ r <= nd[i].locked.round

\* Who prevotes after a precommit votes with a quorum of a round in between, or
\* of that round.
VoteAfterLock(nd) ==
    \A i \in Validators, h, r, q \in Nat, b, c \in Block :
        Precommitted(nd, i, h, r, b) /\ Prevoted(nd, i, h, q, c) /\ r < q =>
            \E x \in Nat, d \in Block : r < x /\ x <= q /\ PrevoteQuorum(nd, h, x, d)

\* A quorum of prevotes excludes all blocks of earlier rounds.
LaterExcludes(nd) ==
    \A h, r, q \in Nat, b, c \in Block :
        PrevoteQuorum(nd, h, q, c) /\ r < q => Excluded(nd, h, r, b)

\* The tallies hold votes that were sent.
TallyInv(nd) ==
    \A i, v \in Validators, b \in Block :
        nd[i].up =>
            /\ <<b, v>> \in nd[i].prevotes => Prevoted(nd, v, nd[i].height, nd[i].round, b)
            /\ <<b, v>> \in nd[i].precommits => Precommitted(nd, v, nd[i].height, nd[i].round, b)

\* The proposal a node holds was sent.
HeldProposal(nd) ==
    \A i \in Validators :
        nd[i].proposal # None => Proposed(nd, nd[i].height, nd[i].round, nd[i].proposal)

\* A committed block has a quorum of precommits behind it.
ChainInv(nd) ==
    \A i \in Validators : \A k \in 1 .. Len(nd[i].chain) :
        \E r \in Nat, b \in Block :
            /\ nd[i].chain[k] = <<r, b.txs>>
            /\ b.prev = SubSeq(nd[i].chain, 1, k - 1)
            /\ PrecommitQuorum(nd, k, r, b)

\* The inductive invariant.
Inv(nd) ==
    /\ Typed(nd) /\ OwnMessages(nd) /\ PrevoteInv(nd) /\ PrecommitInv(nd) /\ ProposalInv(nd)
    /\ OneProposal(nd) /\ LockInv(nd) /\ LockLatest(nd) /\ VoteAfterLock(nd) /\ LaterExcludes(nd)
    /\ TallyInv(nd) /\ HeldProposal(nd) /\ ChainInv(nd)

\* The cluster nd after a step of node i to state t.
Upd(nd, i, t) == [nd EXCEPT ![i] = t]

\* What an update of one node leaves alone.
LEMMA Updated ==
    ASSUME NEW nd, Typed(nd), NEW i \in Validators, NEW t, NodeOK(t),
           NEW w, w = Upd(nd, i, t)
    PROVE  /\ Typed(w)
           /\ w[i] = t
           /\ \A v \in Validators \ {i} : w[v] = nd[v]
  BY DEF Typed, NodeOK, Upd

\* w is nd with node i changed to t.
Changed(nd, i, t, w) ==
    Typed(w) /\ w[i] = t /\ \A v \in Validators \ {i} : w[v] = nd[v]

\* An update of one node changes that node.
LEMMA UpdatedNode ==
    ASSUME NEW nd, Typed(nd), NEW i \in Validators, NEW t, NodeOK(t)
    PROVE  Changed(nd, i, t, Upd(nd, i, t))
  BY Updated, SMTT(40) DEF Changed

\* Node i sends nothing, or a vote for no block.
Quiet(i, s, t) ==
    \/ t.sent = s.sent
    \/ \E type \in {"prevote", "precommit"} :
          t.sent = s.sent \cup {Msg(type, s.height, s.round, ZERO_HASH, i)}

\* A quiet step sends no vote for a block and no proposal.
LEMMA QuietSent ==
    ASSUME NEW i \in Validators, NEW s, NEW t, Quiet(i, s, t)
    PROVE  /\ \A type, h, r, b, v : b \in Block =>
                 (Msg(type, h, r, b, v) \in t.sent <=> Msg(type, h, r, b, v) \in s.sent)
           /\ \A h, r, b : PropMsg(h, r, b) \in t.sent <=> PropMsg(h, r, b) \in s.sent
  BY NodeAssumption DEF Quiet, Msg, PropMsg

\* A quiet step leaves every fact about votes for blocks alone.
LEMMA SilentStep ==
    ASSUME NEW nd, Typed(nd), NEW i \in Validators, NEW t, NodeOK(t), Quiet(i, nd[i], t),
           NEW w, w = Upd(nd, i, t)
    PROVE  /\ \A v \in Validators, h, r \in Nat, b \in Block :
                 /\ Prevoted(w, v, h, r, b) <=> Prevoted(nd, v, h, r, b)
                 /\ Precommitted(w, v, h, r, b) <=> Precommitted(nd, v, h, r, b)
           /\ \A h, r \in Nat, b \in Block :
                 /\ Proposed(w, h, r, b) <=> Proposed(nd, h, r, b)
                 /\ PrevoteQuorum(w, h, r, b) <=> PrevoteQuorum(nd, h, r, b)
                 /\ PrecommitQuorum(w, h, r, b) <=> PrecommitQuorum(nd, h, r, b)
  <1>0. w[i] = t /\ \A v \in Validators \ {i} : w[v] = nd[v]
    BY Updated, SMTT(40)
  <1>1. ASSUME NEW v \in Validators
        PROVE
          /\ \A type, h, r, b, u : b \in Block =>
                (Msg(type, h, r, b, u) \in w[v].sent <=> Msg(type, h, r, b, u) \in nd[v].sent)
          /\ \A h, r, b : PropMsg(h, r, b) \in w[v].sent <=> PropMsg(h, r, b) \in nd[v].sent
    <2>1. CASE v = i
      BY <1>0, <2>1, QuietSent
    <2>2. CASE v # i
      BY <1>0, <2>2
    <2> QED BY <2>1, <2>2
  <1>2. \A v \in Validators, h, r \in Nat, b \in Block :
          /\ Prevoted(w, v, h, r, b) <=> Prevoted(nd, v, h, r, b)
          /\ Precommitted(w, v, h, r, b) <=> Precommitted(nd, v, h, r, b)
    BY <1>1 DEF Prevoted, Precommitted
  <1>3. \A h, r \in Nat, b \in Block : Proposed(w, h, r, b) <=> Proposed(nd, h, r, b)
    BY <1>1, ProposerType DEF Proposed
  <1>4. \A Q \in Quorums : \A v \in Q : v \in Validators
    BY DEF Quorums
  <1>5. ASSUME NEW h \in Nat, NEW r \in Nat, NEW b \in Block
        PROVE /\ PrevoteQuorum(w, h, r, b) <=> PrevoteQuorum(nd, h, r, b)
              /\ PrecommitQuorum(w, h, r, b) <=> PrecommitQuorum(nd, h, r, b)
    BY <1>2, <1>4 DEF PrevoteQuorum, PrecommitQuorum
  <1> QED BY <1>2, <1>3, <1>5

\* A quorum of precommits outlives a quiet step.
LEMMA QuietQuorum ==
    ASSUME NEW nd, Typed(nd), NEW i \in Validators, NEW t, NodeOK(t), Quiet(i, nd[i], t),
           NEW h \in Nat, NEW r \in Nat, NEW b \in Block, PrecommitQuorum(nd, h, r, b)
    PROVE  PrecommitQuorum(Upd(nd, i, t), h, r, b)
  BY SilentStep

\* The node has not gone back to an earlier height or round.
Forward(s, t) == t.height > s.height \/ (t.height = s.height /\ t.round >= s.round)

\* Heights and rounds are numbers.
LEMMA PositionTypes ==
    ASSUME NEW nd, Typed(nd), NEW v \in Validators
    PROVE  nd[v].height \in Nat /\ nd[v].round \in Nat
  BY DEF Typed, NodeState

\* A node that has gone forward to a place it had reached before was there already.
LEMMA SamePlaceReached ==
    ASSUME NEW nd, NEW v, nd[v].height \in Nat, nd[v].round \in Nat,
           NEW t, NEW h \in Nat, NEW r \in Nat,
           Reached(nd, v, h, r), Forward(nd[v], t), t.height = h, t.round = r
    PROVE  nd[v].height = h /\ nd[v].round = r
  BY SMTT(40) DEF Reached, Forward

\* What a node has reached is not above it.
LEMMA ReachedBelow ==
    ASSUME NEW nd, NEW v, nd[v].height \in Nat, NEW h \in Nat, NEW r, Reached(nd, v, h, r)
    PROVE  ~(h > nd[v].height)
  BY SMTT(40) DEF Reached

\* A node has not reached a later round of its height.
LEMMA LaterUnreached ==
    ASSUME NEW nd, NEW v, nd[v].height \in Nat, nd[v].round \in Nat,
           NEW q \in Nat, nd[v].round < q
    PROVE  ~Reached(nd, v, nd[v].height, q)
  BY SMTT(40) DEF Reached

\* Block b was proposed by node k for its place, and k remembers it while it is there.
FromProposer(nd, k, h, r, b) ==
    /\ b.height = h /\ b.round = r /\ Reached(nd, k, h, r)
    /\ nd[k].height = h /\ nd[k].round = r => nd[k].proposed

\* A proposal that was sent comes from the round's proposer.
LEMMA KnownProposal ==
    ASSUME NEW nd, ProposalInv(nd), NEW h \in Nat, NEW r \in Nat, NEW b \in Block,
           Proposed(nd, h, r, b)
    PROVE  FromProposer(nd, ProposerFor(h, r), h, r, b)
  BY SMTT(40) DEF ProposalInv, FromProposer

\* The conjuncts of the invariant that speak of messages and positions only.
History(nd) ==
    /\ OwnMessages(nd) /\ PrevoteInv(nd) /\ PrecommitInv(nd) /\ OneProposal(nd)
    /\ VoteAfterLock(nd) /\ LaterExcludes(nd)

\* A node that moves forward has still reached and left what it had.
LEMMA ForwardStep ==
    ASSUME NEW nd, Typed(nd), NEW i \in Validators, NEW t, NodeOK(t), Forward(nd[i], t),
           NEW w, w = Upd(nd, i, t), NEW h \in Nat, NEW r \in Nat, NEW v \in Validators
    PROVE  /\ Reached(nd, v, h, r) => Reached(w, v, h, r)
           /\ Left(nd, v, h, r) => Left(w, v, h, r)
  <1>1. Typed(w) /\ w[i] = t /\ \A u \in Validators \ {i} : w[u] = nd[u]
    BY Updated, SMTT(40)
  <1>2. /\ nd[v].height \in Nat /\ nd[v].round \in Nat
        /\ nd[i].height \in Nat /\ nd[i].round \in Nat
        /\ w[v].height \in Nat /\ w[v].round \in Nat
    BY <1>1, PositionTypes
  <1> QED BY <1>1, <1>2, SMTT(40) DEF Forward, Reached, Left

\* The conjuncts about past votes survive a quiet step forward.
LEMMA SilentHistory ==
    ASSUME NEW nd, Inv(nd), NEW i \in Validators, NEW t, NodeOK(t), Quiet(i, nd[i], t),
           Forward(nd[i], t), NEW w, w = Upd(nd, i, t)
    PROVE  Typed(w) /\ History(w)
  <1>0. Typed(nd) /\ History(nd)
    BY DEF Inv, History
  <1>1. Typed(w) /\ w[i] = t /\ \A v \in Validators \ {i} : w[v] = nd[v]
    BY <1>0, Updated, SMTT(40)
  <1>2. \A v \in Validators, h, r \in Nat, b \in Block :
          /\ Prevoted(w, v, h, r, b) <=> Prevoted(nd, v, h, r, b)
          /\ Precommitted(w, v, h, r, b) <=> Precommitted(nd, v, h, r, b)
    BY <1>0, SilentStep
  <1>3. \A h, r \in Nat, b \in Block :
          /\ Proposed(w, h, r, b) <=> Proposed(nd, h, r, b)
          /\ PrevoteQuorum(w, h, r, b) <=> PrevoteQuorum(nd, h, r, b)
    BY <1>0, SilentStep
  <1>4. \A v \in Validators, h, r \in Nat :
          /\ Reached(nd, v, h, r) => Reached(w, v, h, r)
          /\ Left(nd, v, h, r) => Left(w, v, h, r)
    BY <1>0, ForwardStep
  <1>5. OwnMessages(w)
    <2> SUFFICES ASSUME NEW v \in Validators, NEW m \in w[v].sent
                 PROVE  /\ m.type = "proposal" => m.proposer = v /\ VerifiedProposal(m)
                        /\ m.type # "proposal" => m.validator = v
      BY DEF OwnMessages
    <2>1. CASE m \in nd[v].sent
      BY <1>0, <2>1 DEF History, OwnMessages
    <2>2. CASE m \notin nd[v].sent
      <3>1. v = i
        BY <1>1, <2>2
      <3>2. PICK type \in {"prevote", "precommit"} :
               m = Msg(type, nd[i].height, nd[i].round, ZERO_HASH, i)
        BY <1>1, <2>2, <3>1 DEF Quiet
      <3> QED BY <3>1, <3>2 DEF Msg
    <2> QED BY <2>1, <2>2
  <1>6. PrevoteInv(w)
    BY <1>0, <1>2, <1>3, <1>4 DEF History, PrevoteInv
  <1>7. PrecommitInv(w)
    BY <1>0, <1>2, <1>3, <1>4 DEF History, PrecommitInv
  <1>8. OneProposal(w)
    BY <1>0, <1>3 DEF History, OneProposal
  <1>9. VoteAfterLock(w)
    <2> SUFFICES ASSUME NEW v \in Validators, NEW h \in Nat, NEW r \in Nat, NEW q \in Nat,
                        NEW b \in Block, NEW c \in Block,
                        Precommitted(w, v, h, r, b), Prevoted(w, v, h, q, c), r < q
                 PROVE  \E x \in Nat, d \in Block : r < x /\ x <= q /\ PrevoteQuorum(w, h, x, d)
      BY DEF VoteAfterLock
    <2>1. Precommitted(nd, v, h, r, b) /\ Prevoted(nd, v, h, q, c)
      BY <1>2
    <2>2. PICK x \in Nat, d \in Block : r < x /\ x <= q /\ PrevoteQuorum(nd, h, x, d)
      BY <1>0, <2>1 DEF History, VoteAfterLock
    <2> QED BY <2>2, <1>3
  <1>10. LaterExcludes(w)
    <2> SUFFICES ASSUME NEW h \in Nat, NEW r \in Nat, NEW q \in Nat,
                        NEW b \in Block, NEW c \in Block, PrevoteQuorum(nd, h, q, c), r < q
                 PROVE  Excluded(w, h, r, b)
      BY <1>3 DEF LaterExcludes
    <2>1. Excluded(nd, h, r, b)
      BY <1>0 DEF History, LaterExcludes
    <2>2. \A Q \in Quorums : \A v \in Q : v \in Validators
      BY DEF Quorums
    <2> QED BY <2>1, <2>2, <1>2, <1>4 DEF Excluded
  <1> QED BY <1>1, <1>5, <1>6, <1>7, <1>8, <1>9, <1>10 DEF History

\* Appending an entry to a chain keeps the chain as a prefix.
LEMMA AppendPrefix ==
    ASSUME NEW c \in Seq(Entry), NEW e \in Entry
    PROVE  /\ Len(c) \in Nat /\ Len(Append(c, e)) = Len(c) + 1
           /\ Append(c, e)[Len(c) + 1] = e
           /\ SubSeq(Append(c, e), 1, Len(c)) = c
           /\ \A k \in 1 .. Len(c) : /\ Append(c, e)[k] = c[k]
                                      /\ SubSeq(Append(c, e), 1, k - 1) = SubSeq(c, 1, k - 1)
  BY SMTT(40)

\* A place up to the next one is an earlier one or the next.
LEMMA NextOrEarlier ==
    ASSUME NEW n \in Nat, NEW k \in 1 .. n + 1
    PROVE  k \in 1 .. n \/ k = n + 1
  BY SMTT(40)

\* A chain grows only by a block a quorum has precommitted.
ChainGrows(nd, i, t) ==
    \/ t.chain = nd[i].chain
    \/ \E b \in Block : /\ t.chain = Append(nd[i].chain, <<b.round, b.txs>>)
                         /\ b.prev = nd[i].chain
                         /\ PrecommitQuorum(nd, Len(nd[i].chain) + 1, b.round, b)

\* The chains stay justified when a node commits a block that a quorum has
\* precommitted.
LEMMA ChainStep ==
    ASSUME NEW nd, Typed(nd), ChainInv(nd), NEW i \in Validators, NEW t, NodeOK(t),
           NEW w, w = Upd(nd, i, t), ChainGrows(nd, i, t),
           \A h, r \in Nat, b \in Block :
              PrecommitQuorum(nd, h, r, b) => PrecommitQuorum(w, h, r, b)
    PROVE  ChainInv(w)
  <1>0. w[i] = t /\ \A v \in Validators \ {i} : w[v] = nd[v]
    BY Updated, SMTT(40)
  <1> SUFFICES ASSUME NEW v \in Validators, NEW k \in 1 .. Len(w[v].chain)
               PROVE  \E r \in Nat, b \in Block :
                         /\ w[v].chain[k] = <<r, b.txs>>
                         /\ b.prev = SubSeq(w[v].chain, 1, k - 1)
                         /\ PrecommitQuorum(w, k, r, b)
    BY DEF ChainInv
  <1>1. ASSUME k \in 1 .. Len(nd[v].chain), w[v].chain[k] = nd[v].chain[k],
               SubSeq(w[v].chain, 1, k - 1) = SubSeq(nd[v].chain, 1, k - 1)
        PROVE  \E r \in Nat, b \in Block :
                  /\ w[v].chain[k] = <<r, b.txs>>
                  /\ b.prev = SubSeq(w[v].chain, 1, k - 1)
                  /\ PrecommitQuorum(w, k, r, b)
    <2>1. PICK r \in Nat, b \in Block : /\ nd[v].chain[k] = <<r, b.txs>>
                                        /\ b.prev = SubSeq(nd[v].chain, 1, k - 1)
                                        /\ PrecommitQuorum(nd, k, r, b)
      BY <1>1 DEF ChainInv
    <2>2. PrecommitQuorum(w, k, r, b)
      BY <2>1, SMTT(40)
    <2> QED BY <1>1, <2>1, <2>2
  <1>2. CASE w[v].chain = nd[v].chain
    BY <1>1, <1>2
  <1>3. CASE w[v].chain # nd[v].chain
    <2> DEFINE c == nd[i].chain
    <2>1. v = i
      BY <1>0, <1>3
    <2>2. PICK b \in Block : /\ w[v].chain = Append(c, <<b.round, b.txs>>)
                             /\ b.prev = c
                             /\ PrecommitQuorum(nd, Len(c) + 1, b.round, b)
      BY <1>0, <1>3, <2>1 DEF ChainGrows
    <2> DEFINE e == <<b.round, b.txs>>
               a == w[v].chain
    <2>3. c \in Seq(Entry) /\ b.round \in Nat /\ e \in Entry
      BY DEF Typed, NodeState, Block, Entry
    <2>4. a = Append(c, e)
      BY <2>2
    <2>5. k \in 1 .. Len(a)
      OBVIOUS
    <2> HIDE DEF c, e, a
    <2>6. /\ Len(c) \in Nat /\ Len(a) = Len(c) + 1
          /\ a[Len(c) + 1] = e
          /\ SubSeq(a, 1, Len(c)) = c
          /\ \A n \in 1 .. Len(c) : a[n] = c[n] /\ SubSeq(a, 1, n - 1) = SubSeq(c, 1, n - 1)
      BY <2>3, <2>4, AppendPrefix
    <2>7. CASE k \in 1 .. Len(c)
      <3>1. a[k] = c[k] /\ SubSeq(a, 1, k - 1) = SubSeq(c, 1, k - 1)
        BY <2>6, <2>7
      <3> QED BY <1>1, <2>1, <2>7, <3>1 DEF c, a
    <2>8. CASE k = Len(c) + 1
      <3>1. a[k] = e /\ k - 1 = Len(c)
        BY <2>6, <2>8, SMTT(40)
      <3>2. SubSeq(a, 1, k - 1) = c
        BY <2>6, <3>1
      <3>3. PrecommitQuorum(w, k, b.round, b)
        BY <2>2, <2>3, <2>6, <2>8, SMTT(40)
      <3>4. a[k] = <<b.round, b.txs>> /\ b.prev = SubSeq(a, 1, k - 1)
        BY <2>2, <3>1, <3>2 DEF e
      <3> QED BY <2>3, <3>3, <3>4 DEF a
    <2>9. k \in 1 .. Len(c) \/ k = Len(c) + 1
      BY <2>5, <2>6, NextOrEarlier
    <2> QED BY <2>7, <2>8, <2>9
  <1> QED BY <1>2, <1>3

\* A step that sends nothing keeps the invariant if what the node now holds is
\* justified by messages sent before.
LEMMA SilentInv ==
    ASSUME NEW nd, Inv(nd), NEW i \in Validators, NEW t, NodeOK(t), Quiet(i, nd[i], t),
           Forward(nd[i], t),
           t.height = nd[i].height /\ t.round = nd[i].round /\ nd[i].proposed => t.proposed,
           t.up => /\ nd[i].up
                   /\ \/ t.height = nd[i].height /\ t.locked = nd[i].locked
                      \/ t.height > nd[i].height /\ t.locked = None,
           t.up => \A v \in Validators, b \in Block :
                     /\ <<b, v>> \in t.prevotes => Prevoted(nd, v, t.height, t.round, b)
                     /\ <<b, v>> \in t.precommits => Precommitted(nd, v, t.height, t.round, b),
           t.proposal # None => Proposed(nd, t.height, t.round, t.proposal),
           ChainGrows(nd, i, t)
    PROVE  Inv(Upd(nd, i, t))
  <1> DEFINE w == Upd(nd, i, t)
  <1>0. Typed(nd) /\ ProposalInv(nd)
    BY DEF Inv
  <1>c. Changed(nd, i, t, w)
    BY <1>0, UpdatedNode
  <1>1. w[i] = t /\ \A v \in Validators \ {i} : w[v] = nd[v]
    BY <1>c DEF Changed
  <1>2. Typed(w) /\ History(w)
    BY SilentHistory
  <1>3. \A v \in Validators, h, r \in Nat, b \in Block :
          /\ Prevoted(w, v, h, r, b) <=> Prevoted(nd, v, h, r, b)
          /\ Precommitted(w, v, h, r, b) <=> Precommitted(nd, v, h, r, b)
    BY <1>0, SilentStep
  <1>4. \A h, r \in Nat, b \in Block :
          /\ Proposed(w, h, r, b) <=> Proposed(nd, h, r, b)
          /\ PrecommitQuorum(w, h, r, b) <=> PrecommitQuorum(nd, h, r, b)
    BY <1>0, SilentStep
  <1>5. \A v \in Validators, h, r \in Nat : Reached(nd, v, h, r) => Reached(w, v, h, r)
    BY <1>0, ForwardStep
  <1>6. /\ \A v \in Validators : /\ nd[v].height \in Nat /\ nd[v].round \in Nat
                                 /\ nd[v].proposal \in Block \cup {None}
                                 /\ nd[v].locked \in Block \cup {None}
        /\ t.height \in Nat /\ t.round \in Nat
        /\ t.proposal \in Block \cup {None} /\ t.locked \in Block \cup {None}
    BY <1>0 DEF Typed, NodeOK, NodeState
  <1> HIDE DEF w
  <1>7. ProposalInv(w)
    <2> SUFFICES ASSUME NEW h \in Nat, NEW r \in Nat, NEW b \in Block, Proposed(nd, h, r, b)
                 PROVE  LET p == w[ProposerFor(h, r)]
                        IN  /\ b.height = h /\ b.round = r
                            /\ Reached(w, ProposerFor(h, r), h, r)
                            /\ p.height = h /\ p.round = r => p.proposed
      BY <1>4 DEF ProposalInv
    <2> DEFINE k == ProposerFor(h, r)
    <2>1. k \in Validators
      BY ProposerType
    <2>2. /\ b.height = h /\ b.round = r /\ Reached(nd, k, h, r)
          /\ nd[k].height = h /\ nd[k].round = r => nd[k].proposed
      <3>1. FromProposer(nd, k, h, r, b)
        BY <1>0, KnownProposal
      <3> QED BY <3>1 DEF FromProposer
    <2> HIDE DEF k
    <2>3. Reached(w, k, h, r)
      BY <1>5, <2>1, <2>2
    <2>4. w[k].height = h /\ w[k].round = r => w[k].proposed
      <3>1. CASE k # i
        BY <1>1, <2>1, <2>2, <3>1
      <3>2. CASE k = i
        <4> SUFFICES ASSUME t.height = h, t.round = r PROVE t.proposed
          BY <1>1, <3>2
        <4>1. nd[i].height = h /\ nd[i].round = r
          BY <1>6, <2>2, <3>2, SamePlaceReached
        <4> QED BY <2>2, <3>2, <4>1
      <3> QED BY <3>1, <3>2
    <2> QED BY <2>2, <2>3, <2>4 DEF k
  <1>8. LockInv(w)
    <2> SUFFICES ASSUME NEW v \in Validators, w[v].up, w[v].locked # None
                 PROVE  Precommitted(w, v, w[v].height, w[v].locked.round, w[v].locked)
      BY DEF LockInv
    <2>1. /\ w[v].height = nd[v].height /\ w[v].locked = nd[v].locked /\ nd[v].up
          /\ nd[v].locked \in Block /\ nd[v].locked.round \in Nat
      <3>1. /\ w[v].height = nd[v].height /\ w[v].locked = nd[v].locked /\ nd[v].up
        BY <1>1
      <3> QED BY <3>1, <1>6 DEF Block
    <2>2. Precommitted(nd, v, nd[v].height, nd[v].locked.round, nd[v].locked)
      BY <2>1 DEF Inv, LockInv
    <2> QED BY <1>3, <1>6, <2>1, <2>2
  <1>9. LockLatest(w)
    <2> SUFFICES ASSUME NEW v \in Validators, NEW r \in Nat, NEW b \in Block,
                        w[v].up, Precommitted(w, v, w[v].height, r, b)
                 PROVE  w[v].locked # None /\ r <= w[v].locked.round
      BY DEF LockLatest
    <2>1. w[v].height \in Nat
      BY <1>1, <1>6
    <2>2. Precommitted(nd, v, w[v].height, r, b)
      BY <1>3, <2>1
    <2>3. Reached(nd, v, w[v].height, r)
      BY <2>1, <2>2 DEF Inv, PrecommitInv
    <2>4. w[v].height = nd[v].height /\ w[v].locked = nd[v].locked /\ nd[v].up
      <3>1. ~(w[v].height > nd[v].height)
        BY <1>6, <2>1, <2>3, ReachedBelow
      <3> QED BY <1>1, <3>1
    <2> QED BY <2>2, <2>4 DEF Inv, LockLatest
  <1>10. TallyInv(w)
    <2> SUFFICES ASSUME NEW k \in Validators, NEW v \in Validators, NEW b \in Block, w[k].up
                 PROVE  /\ <<b, v>> \in w[k].prevotes =>
                             Prevoted(w, v, w[k].height, w[k].round, b)
                        /\ <<b, v>> \in w[k].precommits =>
                             Precommitted(w, v, w[k].height, w[k].round, b)
      BY DEF TallyInv
    <2>1. w[k].height \in Nat /\ w[k].round \in Nat
      BY <1>1, <1>6
    <2>2. /\ <<b, v>> \in w[k].prevotes => Prevoted(nd, v, w[k].height, w[k].round, b)
          /\ <<b, v>> \in w[k].precommits => Precommitted(nd, v, w[k].height, w[k].round, b)
      <3>1. CASE k = i
        BY <1>1, <3>1
      <3>2. CASE k # i
        BY <1>1, <3>2 DEF Inv, TallyInv
      <3> QED BY <3>1, <3>2
    <2> QED BY <1>3, <2>1, <2>2
  <1>11. HeldProposal(w)
    <2> SUFFICES ASSUME NEW v \in Validators, w[v].proposal # None
                 PROVE  Proposed(w, w[v].height, w[v].round, w[v].proposal)
      BY DEF HeldProposal
    <2>1. Proposed(nd, w[v].height, w[v].round, w[v].proposal)
      BY <1>1 DEF Inv, HeldProposal
    <2>2. w[v].height \in Nat /\ w[v].round \in Nat /\ w[v].proposal \in Block
      BY <1>1, <1>6
    <2> QED BY <1>4, <2>1, <2>2
  <1>12. ChainInv(w)
    <2>1. ChainInv(nd)
      BY DEF Inv
    <2> QED BY <1>0, <1>4, <2>1, ChainStep DEF w
  <1> QED BY <1>2, <1>7, <1>8, <1>9, <1>10, <1>11, <1>12 DEF Inv, History, w

-----------------------------------------------------------------------------
\* A step that only sends: the position, tallies and chain stay.
Sends(s, t, m) ==
    /\ t.sent = s.sent \cup {m}
    /\ t.height = s.height /\ t.round = s.round /\ t.chain = s.chain
    /\ t.prevotes = s.prevotes /\ t.precommits = s.precommits

\* From nd to w, node i has sent m and nobody has sent anything else.
SentBy(nd, w, i, m) ==
    \A v \in Validators : \A x : x \in w[v].sent <=> x \in nd[v].sent \/ (v = i /\ x = m)

\* What w shows of votes, proposals and positions, compared with nd.
SamePrevotes(nd, w) ==
    \A v \in Validators, h, r \in Nat, c \in Block :
        Prevoted(w, v, h, r, c) <=> Prevoted(nd, v, h, r, c)
SamePrecommits(nd, w) ==
    \A v \in Validators, h, r \in Nat, c \in Block :
        Precommitted(w, v, h, r, c) <=> Precommitted(nd, v, h, r, c)
SameProposals(nd, w) ==
    \A h, r \in Nat, c \in Block : Proposed(w, h, r, c) <=> Proposed(nd, h, r, c)
SamePositions(nd, w) ==
    \A v \in Validators : w[v].height = nd[v].height /\ w[v].round = nd[v].round
AddsPrevote(nd, w, i, hi, ri, b) ==
    \A v \in Validators, h, r \in Nat, c \in Block :
        Prevoted(w, v, h, r, c) <=>
            Prevoted(nd, v, h, r, c) \/ (v = i /\ h = hi /\ r = ri /\ c = b)
AddsPrecommit(nd, w, i, hi, ri, b) ==
    \A v \in Validators, h, r \in Nat, c \in Block :
        Precommitted(w, v, h, r, c) <=>
            Precommitted(nd, v, h, r, c) \/ (v = i /\ h = hi /\ r = ri /\ c = b)
AddsProposal(nd, w, hi, ri, b) ==
    \A h, r \in Nat, c \in Block :
        Proposed(w, h, r, c) <=> Proposed(nd, h, r, c) \/ (h = hi /\ r = ri /\ c = b)

\* What has been sent, or has gathered a quorum, in nd has in w as well.
KeepsQuorums(nd, w) ==
    \A h, r \in Nat, c \in Block : PrevoteQuorum(nd, h, r, c) => PrevoteQuorum(w, h, r, c)
KeepsVotes(nd, w) ==
    \A h, r \in Nat, c \in Block :
        /\ \A v \in Validators : /\ Prevoted(nd, v, h, r, c) => Prevoted(w, v, h, r, c)
                                 /\ Precommitted(nd, v, h, r, c) => Precommitted(w, v, h, r, c)
        /\ Proposed(nd, h, r, c) => Proposed(w, h, r, c)
        /\ PrecommitQuorum(nd, h, r, c) => PrecommitQuorum(w, h, r, c)

\* A quorum is a set of validators.
LEMMA QuorumMembers == \A Q \in Quorums : \A v \in Q : v \in Validators
  BY DEF Quorums

\* A step that only sends changes its node, and in it only what it sends.
LEMMA SendMessage ==
    ASSUME NEW nd, Typed(nd), NEW i \in Validators, NEW t, NodeOK(t), NEW m,
           Sends(nd[i], t, m), NEW w, w = Upd(nd, i, t)
    PROVE  /\ Typed(w) /\ w[i] = t /\ \A v \in Validators \ {i} : w[v] = nd[v]
           /\ SentBy(nd, w, i, m)
           /\ SamePositions(nd, w)
  <1>1. Typed(w) /\ w[i] = t /\ \A v \in Validators \ {i} : w[v] = nd[v]
    BY Updated, SMTT(40)
  <1>2. SentBy(nd, w, i, m)
    BY <1>1 DEF SentBy, Sends
  <1>3. SamePositions(nd, w)
    BY <1>1 DEF SamePositions, Sends
  <1> QED BY <1>1, <1>2, <1>3

\* Nodes that have not moved have reached and left what they had before.
LEMMA SameReach ==
    ASSUME NEW nd, NEW w, SamePositions(nd, w), NEW v \in Validators, NEW h, NEW r
    PROVE  /\ Reached(w, v, h, r) <=> Reached(nd, v, h, r)
           /\ Left(w, v, h, r) <=> Left(nd, v, h, r)
  BY DEF SamePositions, Reached, Left

\* A prevote adds itself, and nothing else.
LEMMA PrevoteSent ==
    ASSUME NEW nd, NEW w, NEW i \in Validators, NEW hi, NEW ri, NEW b,
           SentBy(nd, w, i, Msg("prevote", hi, ri, b, i))
    PROVE  AddsPrevote(nd, w, i, hi, ri, b) /\ SamePrecommits(nd, w) /\ SameProposals(nd, w)
  <1> DEFINE m == Msg("prevote", hi, ri, b, i)
  <1>1. \A h, r, c, v : /\ Msg("prevote", h, r, c, v) = m <=> h = hi /\ r = ri /\ c = b /\ v = i
                        /\ Msg("precommit", h, r, c, v) # m
                        /\ PropMsg(h, r, c) # m
    BY DEF Msg, PropMsg
  <1>2. SentBy(nd, w, i, m)
    OBVIOUS
  <1> HIDE DEF m
  <1>3. AddsPrevote(nd, w, i, hi, ri, b)
    BY <1>1, <1>2, SMTT(40) DEF AddsPrevote, SentBy, Prevoted
  <1>4. SamePrecommits(nd, w)
    BY <1>1, <1>2 DEF SamePrecommits, SentBy, Precommitted
  <1>5. SameProposals(nd, w)
    BY <1>1, <1>2, ProposerType DEF SameProposals, SentBy, Proposed
  <1> QED BY <1>3, <1>4, <1>5

\* A precommit adds itself, and nothing else.
LEMMA PrecommitSent ==
    ASSUME NEW nd, NEW w, NEW i \in Validators, NEW hi, NEW ri, NEW b,
           SentBy(nd, w, i, Msg("precommit", hi, ri, b, i))
    PROVE  AddsPrecommit(nd, w, i, hi, ri, b) /\ SamePrevotes(nd, w) /\ SameProposals(nd, w)
  <1> DEFINE m == Msg("precommit", hi, ri, b, i)
  <1>1. \A h, r, c, v : /\ Msg("precommit", h, r, c, v) = m <=> h = hi /\ r = ri /\ c = b /\ v = i
                        /\ Msg("prevote", h, r, c, v) # m
                        /\ PropMsg(h, r, c) # m
    BY DEF Msg, PropMsg
  <1>2. SentBy(nd, w, i, m)
    OBVIOUS
  <1> HIDE DEF m
  <1>3. AddsPrecommit(nd, w, i, hi, ri, b)
    BY <1>1, <1>2, SMTT(40) DEF AddsPrecommit, SentBy, Precommitted
  <1>4. SamePrevotes(nd, w)
    BY <1>1, <1>2 DEF SamePrevotes, SentBy, Prevoted
  <1>5. SameProposals(nd, w)
    BY <1>1, <1>2, ProposerType DEF SameProposals, SentBy, Proposed
  <1> QED BY <1>3, <1>4, <1>5

\* A proposal adds itself, and nothing else.
LEMMA ProposalSent ==
    ASSUME NEW nd, NEW w, NEW i \in Validators, NEW hi \in Nat, NEW ri \in Nat, NEW b,
           ProposerFor(hi, ri) = i, SentBy(nd, w, i, PropMsg(hi, ri, b))
    PROVE  AddsProposal(nd, w, hi, ri, b) /\ SamePrevotes(nd, w) /\ SamePrecommits(nd, w)
  <1> DEFINE m == PropMsg(hi, ri, b)
  <1>1. \A h, r, c : /\ PropMsg(h, r, c) = m <=> h = hi /\ r = ri /\ c = b
                     /\ \A v : Msg("prevote", h, r, c, v) # m
                     /\ \A v : Msg("precommit", h, r, c, v) # m
    BY DEF Msg, PropMsg
  <1>2. SentBy(nd, w, i, m)
    OBVIOUS
  <1> HIDE DEF m
  <1>3. AddsProposal(nd, w, hi, ri, b)
    BY <1>1, <1>2, ProposerType DEF AddsProposal, SentBy, Proposed
  <1>4. SamePrevotes(nd, w)
    BY <1>1, <1>2 DEF SamePrevotes, SentBy, Prevoted
  <1>5. SamePrecommits(nd, w)
    BY <1>1, <1>2 DEF SamePrecommits, SentBy, Precommitted
  <1> QED BY <1>3, <1>4, <1>5

\* Nothing that was sent is taken back.
LEMMA SentGrows ==
    ASSUME NEW nd, NEW w, NEW i, NEW m, SentBy(nd, w, i, m)
    PROVE  KeepsVotes(nd, w) /\ KeepsQuorums(nd, w)
  <1> SUFFICES ASSUME NEW h \in Nat, NEW r \in Nat, NEW c \in Block
               PROVE
        /\ \A v \in Validators : /\ Prevoted(nd, v, h, r, c) => Prevoted(w, v, h, r, c)
                                 /\ Precommitted(nd, v, h, r, c) => Precommitted(w, v, h, r, c)
        /\ Proposed(nd, h, r, c) => Proposed(w, h, r, c)
        /\ PrevoteQuorum(nd, h, r, c) => PrevoteQuorum(w, h, r, c)
        /\ PrecommitQuorum(nd, h, r, c) => PrecommitQuorum(w, h, r, c)
    BY DEF KeepsVotes, KeepsQuorums
  <1>1. \A v \in Validators : /\ Prevoted(nd, v, h, r, c) => Prevoted(w, v, h, r, c)
                              /\ Precommitted(nd, v, h, r, c) => Precommitted(w, v, h, r, c)
    BY DEF SentBy, Prevoted, Precommitted
  <1>2. Proposed(nd, h, r, c) => Proposed(w, h, r, c)
    BY ProposerType DEF SentBy, Proposed
  <1> QED BY <1>1, <1>2, QuorumMembers DEF PrevoteQuorum, PrecommitQuorum

\* Two quorums of prevotes in one round are for one block.
LEMMA OneQuorumBlock ==
    ASSUME QuorumsIntersect, NEW nd, PrevoteInv(nd), OneProposal(nd),
           NEW h \in Nat, NEW r \in Nat, NEW b \in Block, NEW c \in Block,
           PrevoteQuorum(nd, h, r, b), PrevoteQuorum(nd, h, r, c)
    PROVE  b = c
  <1>1. PICK Q \in Quorums : \A v \in Q : Prevoted(nd, v, h, r, b)
    BY DEF PrevoteQuorum
  <1>2. PICK P \in Quorums : \A v \in P : Prevoted(nd, v, h, r, c)
    BY DEF PrevoteQuorum
  <1>3. PICK v \in Q : v \in P
    BY <1>1, <1>2 DEF QuorumsIntersect
  <1>4. v \in Validators
    BY QuorumMembers
  <1>5. Proposed(nd, h, r, b) /\ Proposed(nd, h, r, c)
    BY <1>1, <1>2, <1>3, <1>4 DEF PrevoteInv
  <1> QED BY <1>5 DEF OneProposal

\* A proposed block carries the position it was proposed for.
LEMMA ProposedBlock ==
    ASSUME NEW nd, ProposalInv(nd), NEW h \in Nat, NEW r \in Nat, NEW b \in Block,
           Proposed(nd, h, r, b)
    PROVE  b.height = h /\ b.round = r
  BY SMTT(40) DEF ProposalInv

\* A quorum of prevotes is for a block that was proposed.
LEMMA QuorumProposed ==
    ASSUME QuorumsIntersect, NEW nd, PrevoteInv(nd), NEW h \in Nat, NEW r \in Nat,
           NEW b \in Block, PrevoteQuorum(nd, h, r, b)
    PROVE  Proposed(nd, h, r, b)
  <1>1. PICK Q \in Quorums : \A v \in Q : Prevoted(nd, v, h, r, b)
    BY DEF PrevoteQuorum
  <1>2. PICK v \in Q : TRUE
    BY <1>1 DEF QuorumsIntersect
  <1> QED BY <1>1, <1>2, QuorumMembers DEF PrevoteInv

-----------------------------------------------------------------------------
\* The conjuncts that survive because the step changes nothing they speak of.

\* A node signs what it adds, if the added message is its own.
LEMMA HoldOwnMessages ==
    ASSUME NEW nd, OwnMessages(nd), NEW w, NEW i, NEW m, SentBy(nd, w, i, m),
           m.type = "proposal" => m.proposer = i /\ VerifiedProposal(m),
           m.type # "proposal" => m.validator = i
    PROVE  OwnMessages(w)
  BY SMTT(40) DEF OwnMessages, SentBy

\* Prevotes stay justified: proposals are not withdrawn, nodes do not move back.
LEMMA HoldPrevotes ==
    ASSUME NEW nd, PrevoteInv(nd), NEW w, SamePrevotes(nd, w), SamePositions(nd, w),
           KeepsVotes(nd, w)
    PROVE  PrevoteInv(w)
  <1> SUFFICES ASSUME NEW v \in Validators, NEW h \in Nat, NEW r \in Nat, NEW c \in Block,
                      Prevoted(w, v, h, r, c)
               PROVE  Proposed(w, h, r, c) /\ Reached(w, v, h, r)
    BY DEF PrevoteInv
  <1>1. Prevoted(nd, v, h, r, c)
    BY DEF SamePrevotes
  <1>2. Proposed(nd, h, r, c) /\ Reached(nd, v, h, r)
    BY <1>1 DEF PrevoteInv
  <1>3. Proposed(w, h, r, c)
    BY <1>2 DEF KeepsVotes
  <1> QED BY <1>2, <1>3, SameReach

\* Precommits stay justified: a quorum of prevotes is not lost.
LEMMA HoldPrecommits ==
    ASSUME NEW nd, PrecommitInv(nd), NEW w, SamePrecommits(nd, w), SamePositions(nd, w),
           KeepsQuorums(nd, w)
    PROVE  PrecommitInv(w)
  <1> SUFFICES ASSUME NEW v \in Validators, NEW h \in Nat, NEW r \in Nat, NEW c \in Block,
                      Precommitted(w, v, h, r, c)
               PROVE  PrevoteQuorum(w, h, r, c) /\ Reached(w, v, h, r)
    BY DEF PrecommitInv
  <1>1. Precommitted(nd, v, h, r, c)
    BY DEF SamePrecommits
  <1>2. PrevoteQuorum(nd, h, r, c) /\ Reached(nd, v, h, r)
    BY <1>1 DEF PrecommitInv
  <1>3. PrevoteQuorum(w, h, r, c)
    BY <1>2 DEF KeepsQuorums
  <1> QED BY <1>2, <1>3, SameReach

\* Proposals stay remembered, and one per round, when none is added.
LEMMA HoldProposals ==
    ASSUME NEW nd, ProposalInv(nd), OneProposal(nd), NEW w, SameProposals(nd, w),
           SamePositions(nd, w), \A v \in Validators : w[v].proposed = nd[v].proposed
    PROVE  ProposalInv(w) /\ OneProposal(w)
  <1>1. OneProposal(w)
    BY DEF OneProposal, SameProposals
  <1>2. ASSUME NEW h \in Nat, NEW r \in Nat, NEW c \in Block, Proposed(w, h, r, c)
        PROVE  LET p == w[ProposerFor(h, r)]
               IN  /\ c.height = h /\ c.round = r
                   /\ Reached(w, ProposerFor(h, r), h, r)
                   /\ p.height = h /\ p.round = r => p.proposed
    <2> DEFINE x == ProposerFor(h, r)
    <2>1. x \in Validators
      BY ProposerType
    <2>2. Proposed(nd, h, r, c)
      BY <1>2 DEF SameProposals
    <2>3. /\ c.height = h /\ c.round = r
          /\ Reached(nd, x, h, r)
          /\ nd[x].height = h /\ nd[x].round = r => nd[x].proposed
      BY <2>2 DEF ProposalInv
    <2> HIDE DEF x
    <2>4. Reached(w, x, h, r)
      BY <2>1, <2>3, SameReach
    <2>5. w[x].height = h /\ w[x].round = r => w[x].proposed
      BY <2>1, <2>3 DEF SamePositions
    <2> QED BY <2>3, <2>4, <2>5 DEF x
  <1> QED BY <1>1, <1>2 DEF ProposalInv

\* Locks stay justified when neither they nor precommits change.
LEMMA HoldLocks ==
    ASSUME NEW nd, Typed(nd), LockInv(nd), LockLatest(nd), NEW w, SamePrecommits(nd, w),
           SamePositions(nd, w), NEW v \in Validators,
           w[v].locked = nd[v].locked, w[v].up => nd[v].up, w[v].up
    PROVE  /\ w[v].locked # None =>
                 Precommitted(w, v, w[v].height, w[v].locked.round, w[v].locked)
           /\ \A r \in Nat, c \in Block : Precommitted(w, v, w[v].height, r, c) =>
                 w[v].locked # None /\ r <= w[v].locked.round
  <1>1. w[v].height = nd[v].height /\ nd[v].height \in Nat
    BY PositionTypes DEF SamePositions
  <1>2. ASSUME w[v].locked # None
        PROVE  Precommitted(w, v, w[v].height, w[v].locked.round, w[v].locked)
    <2>1. nd[v].locked \in Block /\ nd[v].locked.round \in Nat
      BY <1>2 DEF Typed, NodeState, Block
    <2>2. Precommitted(nd, v, nd[v].height, nd[v].locked.round, nd[v].locked)
      BY <1>2 DEF LockInv
    <2> QED BY <1>1, <2>1, <2>2 DEF SamePrecommits
  <1>3. ASSUME NEW r \in Nat, NEW c \in Block, Precommitted(w, v, w[v].height, r, c)
        PROVE  w[v].locked # None /\ r <= w[v].locked.round
    <2>1. Precommitted(nd, v, nd[v].height, r, c)
      BY <1>1, <1>3 DEF SamePrecommits
    <2> QED BY <2>1 DEF LockLatest
  <1> QED BY <1>2, <1>3

\* What a node holds stays justified when a message is added.
LEMMA SendLocal ==
    ASSUME NEW nd, Inv(nd), NEW i \in Validators, NEW t, NodeOK(t), nd[i].up, NEW m,
           Sends(nd[i], t, m), NEW w, w = Upd(nd, i, t),
           t.proposal = nd[i].proposal \/ Proposed(w, t.height, t.round, t.proposal)
    PROVE  TallyInv(w) /\ HeldProposal(w) /\ ChainInv(w)
  <1>0. Typed(nd) /\ TallyInv(nd) /\ HeldProposal(nd) /\ ChainInv(nd)
    BY DEF Inv
  <1>1. w[i] = t /\ \A v \in Validators \ {i} : w[v] = nd[v]
    BY <1>0, Updated, SMTT(40)
  <1>2. KeepsVotes(nd, w)
    BY <1>0, SendMessage, SentGrows, SMTT(40)
  <1>3. \A v \in Validators :
          /\ w[v].height = nd[v].height /\ w[v].round = nd[v].round /\ w[v].chain = nd[v].chain
          /\ w[v].prevotes = nd[v].prevotes /\ w[v].precommits = nd[v].precommits
          /\ w[v].up => nd[v].up
    BY <1>1 DEF Sends
  <1>4. \A v \in Validators : nd[v].height \in Nat /\ nd[v].round \in Nat
    BY <1>0, PositionTypes
  <1>5. TallyInv(w)
    <2> SUFFICES ASSUME NEW u \in Validators, NEW v \in Validators, NEW b \in Block, w[u].up
                 PROVE  LET h == w[u].height
                            r == w[u].round
                        IN  /\ <<b, v>> \in w[u].prevotes => Prevoted(w, v, h, r, b)
                            /\ <<b, v>> \in w[u].precommits => Precommitted(w, v, h, r, b)
      BY DEF TallyInv
    <2>1. /\ <<b, v>> \in nd[u].prevotes => Prevoted(nd, v, nd[u].height, nd[u].round, b)
          /\ <<b, v>> \in nd[u].precommits => Precommitted(nd, v, nd[u].height, nd[u].round, b)
      BY <1>0, <1>3 DEF TallyInv
    <2> QED BY <1>2, <1>3, <1>4, <2>1 DEF KeepsVotes
  <1>6. HeldProposal(w)
    <2> SUFFICES ASSUME NEW v \in Validators, w[v].proposal # None
                 PROVE  Proposed(w, w[v].height, w[v].round, w[v].proposal)
      BY DEF HeldProposal
    <2>1. CASE w[v].proposal = nd[v].proposal
      <3>1. nd[v].proposal \in Block
        BY <1>0, <2>1 DEF Typed, NodeState
      <3>2. Proposed(nd, nd[v].height, nd[v].round, nd[v].proposal)
        BY <1>0, <2>1 DEF HeldProposal
      <3> QED BY <1>2, <1>3, <1>4, <2>1, <3>1, <3>2 DEF KeepsVotes
    <2>2. CASE w[v].proposal # nd[v].proposal
      BY <1>1, <2>2
    <2> QED BY <2>1, <2>2
  <1>7. ChainInv(w)
    <2> SUFFICES ASSUME NEW v \in Validators, NEW k \in 1 .. Len(w[v].chain)
                 PROVE  \E r \in Nat, b \in Block :
                           /\ w[v].chain[k] = <<r, b.txs>>
                           /\ b.prev = SubSeq(w[v].chain, 1, k - 1)
                           /\ PrecommitQuorum(w, k, r, b)
      BY DEF ChainInv
    <2>0. w[v].chain = nd[v].chain
      BY <1>3
    <2>1. PICK r \in Nat, b \in Block :
             /\ nd[v].chain[k] = <<r, b.txs>>
             /\ b.prev = SubSeq(nd[v].chain, 1, k - 1)
             /\ PrecommitQuorum(nd, k, r, b)
      BY <1>0, <2>0 DEF ChainInv
    <2>2. k \in Nat
      BY <1>0, <2>0, SMTT(40) DEF Typed, NodeState
    <2>3. PrecommitQuorum(w, k, r, b)
      BY <1>2, <2>1, <2>2 DEF KeepsVotes
    <2> QED BY <2>0, <2>1, <2>3
  <1> QED BY <1>5, <1>6, <1>7

-----------------------------------------------------------------------------
\* The prevote of a proposed block.

\* Prevotes stay justified when one for a proposed block is added.
LEMMA AddPrevote ==
    ASSUME NEW nd, PrevoteInv(nd), NEW w, NEW i, NEW hi, NEW ri, NEW b,
           AddsPrevote(nd, w, i, hi, ri, b), SameProposals(nd, w), SamePositions(nd, w),
           Proposed(nd, hi, ri, b), Reached(nd, i, hi, ri)
    PROVE  PrevoteInv(w)
  <1> SUFFICES ASSUME NEW v \in Validators, NEW h \in Nat, NEW r \in Nat, NEW c \in Block,
                      Prevoted(w, v, h, r, c)
               PROVE  Proposed(w, h, r, c) /\ Reached(w, v, h, r)
    BY DEF PrevoteInv
  <1>1. Prevoted(nd, v, h, r, c) \/ (v = i /\ h = hi /\ r = ri /\ c = b)
    BY DEF AddsPrevote
  <1>2. Proposed(nd, h, r, c) /\ Reached(nd, v, h, r)
    BY <1>1 DEF PrevoteInv
  <1>3. Proposed(w, h, r, c)
    BY <1>2 DEF SameProposals
  <1> QED BY <1>2, <1>3, SameReach

\* The prevoter goes along with a quorum of this round, if it has precommitted
\* before: its lock is on the block it votes for.
LEMMA AddVoteAfterLock ==
    ASSUME NEW nd, VoteAfterLock(nd), NEW w, NEW i, NEW hi, NEW ri, NEW b \in Block,
           AddsPrevote(nd, w, i, hi, ri, b), SamePrecommits(nd, w), KeepsQuorums(nd, w),
           \A r \in Nat, c \in Block :
               Precommitted(nd, i, hi, r, c) /\ r < ri => PrevoteQuorum(nd, hi, ri, b)
    PROVE  VoteAfterLock(w)
  <1> SUFFICES ASSUME NEW v \in Validators, NEW h \in Nat, NEW r \in Nat, NEW q \in Nat,
                      NEW d \in Block, NEW c \in Block,
                      Precommitted(w, v, h, r, d), Prevoted(w, v, h, q, c), r < q
               PROVE  \E x \in Nat, e \in Block : r < x /\ x <= q /\ PrevoteQuorum(w, h, x, e)
    BY DEF VoteAfterLock
  <1>1. Precommitted(nd, v, h, r, d)
    BY DEF SamePrecommits
  <1>2. \E x \in Nat, e \in Block : r < x /\ x <= q /\ PrevoteQuorum(nd, h, x, e)
    <2>1. CASE Prevoted(nd, v, h, q, c)
      BY <1>1, <2>1 DEF VoteAfterLock
    <2>2. CASE ~Prevoted(nd, v, h, q, c)
      <3>1. v = i /\ h = hi /\ q = ri
        BY <2>2 DEF AddsPrevote
      <3> QED BY <1>1, <3>1, SMTT(40)
    <2> QED BY <2>1, <2>2
  <1> QED BY <1>2 DEF KeepsQuorums

\* What is excluded stays so when no precommit is added.
LEMMA HoldExcluded ==
    ASSUME NEW nd, NEW w, SamePrecommits(nd, w), SamePositions(nd, w),
           NEW h \in Nat, NEW r \in Nat, NEW d \in Block, Excluded(nd, h, r, d)
    PROVE  Excluded(w, h, r, d)
  <1> SUFFICES ASSUME NEW Q \in Quorums
               PROVE  \E v \in Q : Left(w, v, h, r) /\ ~Precommitted(w, v, h, r, d)
    BY DEF Excluded
  <1>1. PICK v \in Q : Left(nd, v, h, r) /\ ~Precommitted(nd, v, h, r, d)
    BY DEF Excluded
  <1>2. v \in Validators
    BY QuorumMembers
  <1>3. Left(w, v, h, r)
    BY <1>1, <1>2, SameReach
  <1>4. ~Precommitted(w, v, h, r, d)
    BY <1>1, <1>2 DEF SamePrecommits
  <1> QED BY <1>3, <1>4

\* A quorum of prevotes that the added prevote completes excludes all blocks of
\* earlier rounds: a member of it that precommitted one of them voted with a
\* quorum of a round in between, or of this round.
LEMMA AddQuorum ==
    ASSUME QuorumsIntersect, NEW nd, PrevoteInv(nd), OneProposal(nd), VoteAfterLock(nd),
           LaterExcludes(nd), NEW w, Typed(w), PrevoteInv(w), NEW i, NEW h \in Nat, NEW q \in Nat,
           NEW b \in Block, AddsPrevote(nd, w, i, h, q, b), SamePrecommits(nd, w),
           SamePositions(nd, w), Proposed(nd, h, q, b),
           \A r \in Nat, c \in Block :
               Precommitted(nd, i, h, r, c) /\ r < q => PrevoteQuorum(nd, h, q, b),
           PrevoteQuorum(w, h, q, b), ~PrevoteQuorum(nd, h, q, b),
           NEW r \in Nat, NEW d \in Block, r < q
    PROVE  Excluded(w, h, r, d)
  <1> SUFFICES ASSUME ~Excluded(w, h, r, d) PROVE FALSE
    OBVIOUS
  <1>1. PICK Q \in Quorums : \A v \in Q : Prevoted(w, v, h, q, b)
    BY DEF PrevoteQuorum
  <1>2. PICK P \in Quorums : \A v \in P : Left(w, v, h, r) => Precommitted(w, v, h, r, d)
    BY DEF Excluded
  <1>3. PICK v \in Q : v \in P
    BY <1>1, <1>2 DEF QuorumsIntersect
  <1>4. v \in Validators /\ Prevoted(w, v, h, q, b)
    BY <1>1, QuorumMembers
  <1>5. Left(w, v, h, r)
    <2>1. Reached(w, v, h, q)
      BY <1>4 DEF PrevoteInv
    <2>2. w[v].height \in Nat /\ w[v].round \in Nat
      BY <1>4, PositionTypes
    <2> QED BY <2>1, <2>2, SMTT(40) DEF Reached, Left
  <1>6. Precommitted(nd, v, h, r, d)
    BY <1>2, <1>3, <1>4, <1>5 DEF SamePrecommits
  <1>7. CASE Prevoted(nd, v, h, q, b)
    <2>1. PICK x \in Nat, e \in Block : r < x /\ x <= q /\ PrevoteQuorum(nd, h, x, e)
      BY <1>4, <1>6, <1>7 DEF VoteAfterLock
    <2>2. CASE x = q
      <3>1. Proposed(nd, h, q, e)
        BY <2>1, <2>2, QuorumProposed
      <3>2. e = b
        BY <3>1 DEF OneProposal
      <3> QED BY <2>1, <2>2, <3>2
    <2>3. CASE x < q
      <3>1. Excluded(nd, h, r, d)
        BY <2>1 DEF LaterExcludes
      <3> QED BY <3>1, HoldExcluded
    <2> QED BY <2>1, <2>2, <2>3, SMTT(40)
  <1>8. CASE ~Prevoted(nd, v, h, q, b)
    <2>1. v = i
      BY <1>4, <1>8 DEF AddsPrevote
    <2> QED BY <1>6, <2>1
  <1> QED BY <1>7, <1>8

\* So every quorum of prevotes excludes the blocks of earlier rounds.
LEMMA AddLaterExcludes ==
    ASSUME QuorumsIntersect, NEW nd, PrevoteInv(nd), OneProposal(nd), VoteAfterLock(nd),
           LaterExcludes(nd), NEW w, Typed(w), PrevoteInv(w),
           NEW i, NEW hi \in Nat, NEW ri \in Nat, NEW b \in Block,
           AddsPrevote(nd, w, i, hi, ri, b), SamePrecommits(nd, w), SamePositions(nd, w),
           Proposed(nd, hi, ri, b),
           \A r \in Nat, c \in Block :
               Precommitted(nd, i, hi, r, c) /\ r < ri => PrevoteQuorum(nd, hi, ri, b)
    PROVE  LaterExcludes(w)
  <1> SUFFICES ASSUME NEW h \in Nat, NEW r \in Nat, NEW q \in Nat, NEW d \in Block,
                      NEW c \in Block, PrevoteQuorum(w, h, q, c), r < q
               PROVE  Excluded(w, h, r, d)
    BY DEF LaterExcludes
  <1>1. CASE PrevoteQuorum(nd, h, q, c)
    <2>1. Excluded(nd, h, r, d)
      BY <1>1 DEF LaterExcludes
    <2> QED BY <2>1, HoldExcluded
  <1>2. CASE ~PrevoteQuorum(nd, h, q, c)
    <2>1. PICK Q \in Quorums : \A v \in Q : Prevoted(w, v, h, q, c)
      BY DEF PrevoteQuorum
    <2>2. PICK v \in Q : ~Prevoted(nd, v, h, q, c)
      BY <1>2, <2>1 DEF PrevoteQuorum
    <2>3. h = hi /\ q = ri /\ c = b
      BY <2>1, <2>2, QuorumMembers DEF AddsPrevote
    <2> QED BY <1>2, <2>3, AddQuorum
  <1> QED BY <1>1, <1>2

\* A node has reached where it is.
LEMMA ReachedSelf ==
    ASSUME NEW nd, NEW v, nd[v].round \in Nat
    PROVE  Reached(nd, v, nd[v].height, nd[v].round)
  BY SMTT(40) DEF Reached

\* The invariant survives a prevote for a proposed block the node is not
\* locked away from.
LEMMA CastPrevote ==
    ASSUME QuorumsIntersect, NEW nd, Inv(nd), NEW i \in Validators, NEW t, NodeOK(t),
           NEW b \in Block, nd[i].up,
           Sends(nd[i], t, Msg("prevote", nd[i].height, nd[i].round, b, i)),
           t.locked = nd[i].locked, t.proposal = nd[i].proposal, t.proposed = nd[i].proposed,
           Proposed(nd, nd[i].height, nd[i].round, b), nd[i].locked \in {None, b}
    PROVE  Inv(Upd(nd, i, t))
  <1> DEFINE w == Upd(nd, i, t)
             hi == nd[i].height
             ri == nd[i].round
             m == Msg("prevote", hi, ri, b, i)
  <1>0. /\ Typed(nd) /\ OwnMessages(nd) /\ PrevoteInv(nd) /\ PrecommitInv(nd) /\ OneProposal(nd)
        /\ VoteAfterLock(nd) /\ LaterExcludes(nd) /\ ProposalInv(nd)
        /\ LockInv(nd) /\ LockLatest(nd)
    BY DEF Inv
  <1>1. hi \in Nat /\ ri \in Nat
    BY <1>0, PositionTypes
  <1>2. Sends(nd[i], t, m) /\ Proposed(nd, hi, ri, b)
    OBVIOUS
  <1>3. Reached(nd, i, hi, ri) /\ b.round = ri
    <2>1. b.height = hi /\ b.round = ri
      BY <1>0, <1>1, <1>2, ProposedBlock
    <2> QED BY <1>1, <2>1, ReachedSelf
  \* The lock of a node that has precommitted at this height is on b itself.
  <1>4. ASSUME NEW r \in Nat, NEW c \in Block, Precommitted(nd, i, hi, r, c)
        PROVE  PrevoteQuorum(nd, hi, ri, b)
    <2>1. nd[i].locked # None
      BY <1>0, <1>4 DEF LockLatest
    <2>2. Precommitted(nd, i, hi, ri, b)
      BY <1>0, <1>3, <2>1 DEF LockInv
    <2> QED BY <1>0, <1>1, <2>2 DEF PrecommitInv
  <1>5. TallyInv(w) /\ HeldProposal(w) /\ ChainInv(w)
    BY <1>2, SendLocal
  <1> HIDE DEF w, m
  <1>6. /\ Typed(w) /\ w[i] = t /\ \A v \in Validators \ {i} : w[v] = nd[v]
        /\ SentBy(nd, w, i, m) /\ SamePositions(nd, w)
    BY <1>0, <1>2, SendMessage DEF w
  <1>7. m.type # "proposal" /\ m.validator = i
    BY DEF m, Msg
  <1>8. OwnMessages(w)
    BY <1>0, <1>6, <1>7, HoldOwnMessages
  <1>9. AddsPrevote(nd, w, i, hi, ri, b) /\ SamePrecommits(nd, w) /\ SameProposals(nd, w)
    BY <1>6, PrevoteSent DEF m
  <1>10. KeepsQuorums(nd, w)
    BY <1>6, SentGrows
  <1>11. \A v \in Validators :
            /\ w[v].proposed = nd[v].proposed /\ w[v].locked = nd[v].locked
            /\ w[v].up => nd[v].up
    BY <1>6
  <1> HIDE DEF hi, ri
  <1>12. PrevoteInv(w)
    BY <1>0, <1>2, <1>3, <1>6, <1>9, AddPrevote
  <1>13. PrecommitInv(w)
    BY <1>0, <1>6, <1>9, <1>10, HoldPrecommits
  <1>14. ProposalInv(w) /\ OneProposal(w)
    BY <1>0, <1>6, <1>9, <1>11, HoldProposals
  <1>15. LockInv(w) /\ LockLatest(w)
    BY <1>0, <1>6, <1>9, <1>11, HoldLocks DEF LockInv, LockLatest
  <1>16. VoteAfterLock(w)
    BY <1>0, <1>4, <1>9, <1>10, AddVoteAfterLock
  <1>17. LaterExcludes(w)
    BY <1>0, <1>1, <1>2, <1>4, <1>6, <1>9, <1>12, AddLaterExcludes
  <1> QED BY <1>5, <1>6, <1>8, <1>12, <1>13, <1>14, <1>15, <1>16, <1>17 DEF Inv, w

-----------------------------------------------------------------------------
\* The precommit that locks, and the proposal.

\* With the same prevotes, the same quorums of prevotes.
LEMMA SameQuorums ==
    ASSUME NEW nd, NEW w, SamePrevotes(nd, w), NEW h \in Nat, NEW r \in Nat, NEW c \in Block
    PROVE  PrevoteQuorum(w, h, r, c) <=> PrevoteQuorum(nd, h, r, c)
  <1>1. \A Q \in Quorums : \A v \in Q :
            Prevoted(w, v, h, r, c) <=> Prevoted(nd, v, h, r, c)
    BY QuorumMembers DEF SamePrevotes
  <1> QED BY <1>1 DEF PrevoteQuorum

\* Precommits stay justified when one for a block with a quorum is added.
LEMMA AddPrecommit ==
    ASSUME NEW nd, PrecommitInv(nd), NEW w, NEW i, NEW hi, NEW ri, NEW b,
           AddsPrecommit(nd, w, i, hi, ri, b), SamePositions(nd, w), KeepsQuorums(nd, w),
           PrevoteQuorum(nd, hi, ri, b), Reached(nd, i, hi, ri)
    PROVE  PrecommitInv(w)
  <1> SUFFICES ASSUME NEW v \in Validators, NEW h \in Nat, NEW r \in Nat, NEW c \in Block,
                      Precommitted(w, v, h, r, c)
               PROVE  PrevoteQuorum(w, h, r, c) /\ Reached(w, v, h, r)
    BY DEF PrecommitInv
  <1>1. Precommitted(nd, v, h, r, c) \/ (v = i /\ h = hi /\ r = ri /\ c = b)
    BY DEF AddsPrecommit
  <1>2. PrevoteQuorum(nd, h, r, c) /\ Reached(nd, v, h, r)
    BY <1>1 DEF PrecommitInv
  <1>3. PrevoteQuorum(w, h, r, c)
    BY <1>2 DEF KeepsQuorums
  <1> QED BY <1>2, <1>3, SameReach

\* A precommit in the node's own round has no prevote of a later round after it.
LEMMA AddLock ==
    ASSUME NEW nd, Typed(nd), PrevoteInv(nd), VoteAfterLock(nd), NEW w, NEW i \in Validators,
           NEW b, AddsPrecommit(nd, w, i, nd[i].height, nd[i].round, b), SamePrevotes(nd, w),
           KeepsQuorums(nd, w)
    PROVE  VoteAfterLock(w)
  <1> SUFFICES ASSUME NEW v \in Validators, NEW h \in Nat, NEW r \in Nat, NEW q \in Nat,
                      NEW d \in Block, NEW c \in Block,
                      Precommitted(w, v, h, r, d), Prevoted(w, v, h, q, c), r < q
               PROVE  \E x \in Nat, e \in Block : r < x /\ x <= q /\ PrevoteQuorum(w, h, x, e)
    BY DEF VoteAfterLock
  <1>1. Prevoted(nd, v, h, q, c)
    BY DEF SamePrevotes
  <1>2. Precommitted(nd, v, h, r, d)
    <2> SUFFICES ASSUME ~Precommitted(nd, v, h, r, d) PROVE FALSE
      OBVIOUS
    <2>1. v = i /\ h = nd[i].height /\ r = nd[i].round
      BY DEF AddsPrecommit
    <2>2. Reached(nd, v, h, q)
      BY <1>1 DEF PrevoteInv
    <2>3. nd[i].height \in Nat /\ nd[i].round \in Nat
      BY PositionTypes
    <2> QED BY <2>1, <2>2, <2>3, LaterUnreached
  <1>3. PICK x \in Nat, e \in Block : r < x /\ x <= q /\ PrevoteQuorum(nd, h, x, e)
    BY <1>1, <1>2 DEF VoteAfterLock
  <1>4. PrevoteQuorum(w, h, x, e)
    BY <1>3 DEF KeepsQuorums
  <1> QED BY <1>3, <1>4

\* A precommit in the node's own round is of a round it has not left.
LEMMA AddExcluded ==
    ASSUME NEW nd, Typed(nd), NEW w, NEW i \in Validators, NEW b,
           AddsPrecommit(nd, w, i, nd[i].height, nd[i].round, b), SamePositions(nd, w),
           NEW h \in Nat, NEW r \in Nat, NEW d \in Block, Excluded(nd, h, r, d)
    PROVE  Excluded(w, h, r, d)
  <1> SUFFICES ASSUME NEW Q \in Quorums
               PROVE  \E v \in Q : Left(w, v, h, r) /\ ~Precommitted(w, v, h, r, d)
    BY DEF Excluded
  <1>1. PICK v \in Q : Left(nd, v, h, r) /\ ~Precommitted(nd, v, h, r, d)
    BY DEF Excluded
  <1>2. v \in Validators
    BY QuorumMembers
  <1>3. Left(w, v, h, r)
    BY <1>1, <1>2, SameReach
  <1>4. nd[i].height \in Nat /\ nd[i].round \in Nat
    BY PositionTypes
  <1>5. ~(v = i /\ h = nd[i].height /\ r = nd[i].round)
    BY <1>1, <1>4, SMTT(40) DEF Left
  <1>6. ~Precommitted(w, v, h, r, d)
    BY <1>1, <1>2, <1>5 DEF AddsPrecommit
  <1> QED BY <1>3, <1>6

\* The lock that goes with the precommit is on its block, and no precommit of
\* the node at this height is of a later round.
LEMMA NewLock ==
    ASSUME NEW w, Typed(w), PrecommitInv(w), NEW i \in Validators, NEW b \in Block,
           w[i].locked = b, b.round = w[i].round,
           Precommitted(w, i, w[i].height, w[i].round, b)
    PROVE  /\ w[i].locked # None
           /\ Precommitted(w, i, w[i].height, w[i].locked.round, w[i].locked)
           /\ \A r \in Nat, c \in Block :
                 Precommitted(w, i, w[i].height, r, c) => r <= w[i].locked.round
  <1>1. w[i].locked # None
    BY NodeAssumption
  <1>2. ASSUME NEW r \in Nat, NEW c \in Block, Precommitted(w, i, w[i].height, r, c)
        PROVE  r <= w[i].locked.round
    <2>1. w[i].height \in Nat /\ w[i].round \in Nat
      BY PositionTypes
    <2>2. Reached(w, i, w[i].height, r)
      BY <1>2, <2>1 DEF PrecommitInv
    <2> QED BY <2>1, <2>2, SMTT(40) DEF Reached
  <1> QED BY <1>1, <1>2

\* The locks of the other nodes are as they were.
LEMMA OtherLocks ==
    ASSUME NEW nd, Typed(nd), LockInv(nd), LockLatest(nd), NEW w, NEW i, NEW hi, NEW ri, NEW b,
           AddsPrecommit(nd, w, i, hi, ri, b), NEW v \in Validators, v # i, w[v] = nd[v], w[v].up
    PROVE  /\ w[v].locked # None =>
                 Precommitted(w, v, w[v].height, w[v].locked.round, w[v].locked)
           /\ \A r \in Nat, c \in Block : Precommitted(w, v, w[v].height, r, c) =>
                 w[v].locked # None /\ r <= w[v].locked.round
  <1>1. nd[v].height \in Nat
    BY PositionTypes
  <1>2. ASSUME w[v].locked # None
        PROVE  Precommitted(w, v, w[v].height, w[v].locked.round, w[v].locked)
    <2>1. nd[v].locked \in Block /\ nd[v].locked.round \in Nat
      BY <1>2 DEF Typed, NodeState, Block
    <2>2. Precommitted(nd, v, nd[v].height, nd[v].locked.round, nd[v].locked)
      BY <1>2 DEF LockInv
    <2> QED BY <1>1, <2>1, <2>2 DEF AddsPrecommit
  <1>3. ASSUME NEW r \in Nat, NEW c \in Block, Precommitted(w, v, w[v].height, r, c)
        PROVE  w[v].locked # None /\ r <= w[v].locked.round
    <2>1. Precommitted(nd, v, nd[v].height, r, c)
      BY <1>1, <1>3 DEF AddsPrecommit
    <2> QED BY <2>1 DEF LockLatest
  <1> QED BY <1>2, <1>3

\* The invariant survives the precommit, with its lock, of a block that a quorum
\* has prevoted.
LEMMA CastPrecommit ==
    ASSUME QuorumsIntersect, NEW nd, Inv(nd), NEW i \in Validators, NEW t, NodeOK(t),
           NEW b \in Block, nd[i].up,
           Sends(nd[i], t, Msg("precommit", nd[i].height, nd[i].round, b, i)),
           t.locked = b, t.proposal = nd[i].proposal, t.proposed = nd[i].proposed,
           PrevoteQuorum(nd, nd[i].height, nd[i].round, b)
    PROVE  Inv(Upd(nd, i, t))
  <1> DEFINE w == Upd(nd, i, t)
             m == Msg("precommit", nd[i].height, nd[i].round, b, i)
  <1>0. /\ Typed(nd) /\ OwnMessages(nd) /\ PrevoteInv(nd) /\ PrecommitInv(nd) /\ OneProposal(nd)
        /\ VoteAfterLock(nd) /\ LaterExcludes(nd) /\ ProposalInv(nd)
        /\ LockInv(nd) /\ LockLatest(nd)
    BY DEF Inv
  <1>1. nd[i].height \in Nat /\ nd[i].round \in Nat
    BY <1>0, PositionTypes
  <1>2. Sends(nd[i], t, m)
    OBVIOUS
  <1>3. Reached(nd, i, nd[i].height, nd[i].round)
    BY <1>1, ReachedSelf
  <1>4. b.round = nd[i].round
    <2>1. Proposed(nd, nd[i].height, nd[i].round, b)
      BY <1>0, <1>1, QuorumProposed
    <2> QED BY <1>0, <1>1, <2>1, ProposedBlock
  <1>5. TallyInv(w) /\ HeldProposal(w) /\ ChainInv(w)
    BY <1>2, SendLocal
  <1> HIDE DEF w, m
  <1>6. /\ Typed(w) /\ w[i] = t /\ \A v \in Validators \ {i} : w[v] = nd[v]
        /\ SentBy(nd, w, i, m) /\ SamePositions(nd, w)
    BY <1>0, <1>2, SendMessage DEF w
  <1>7. m.type # "proposal" /\ m.validator = i
    BY DEF m, Msg
  <1>8. OwnMessages(w)
    BY <1>0, <1>6, <1>7, HoldOwnMessages
  <1>9. /\ AddsPrecommit(nd, w, i, nd[i].height, nd[i].round, b)
        /\ SamePrevotes(nd, w) /\ SameProposals(nd, w)
    BY <1>6, PrecommitSent DEF m
  <1>10. KeepsVotes(nd, w) /\ KeepsQuorums(nd, w)
    BY <1>6, SentGrows
  <1>11. \A v \in Validators : w[v].proposed = nd[v].proposed
    BY <1>6
  <1>12. PrevoteInv(w)
    BY <1>0, <1>6, <1>9, <1>10, HoldPrevotes
  <1>13. PrecommitInv(w)
    BY <1>0, <1>3, <1>6, <1>9, <1>10, AddPrecommit
  <1>14. ProposalInv(w) /\ OneProposal(w)
    BY <1>0, <1>6, <1>9, <1>11, HoldProposals
  <1>15. LockInv(w) /\ LockLatest(w)
    <2> SUFFICES ASSUME NEW v \in Validators, w[v].up
                 PROVE  /\ w[v].locked # None =>
                             Precommitted(w, v, w[v].height, w[v].locked.round, w[v].locked)
                        /\ \A r \in Nat, c \in Block : Precommitted(w, v, w[v].height, r, c) =>
                             w[v].locked # None /\ r <= w[v].locked.round
      BY DEF LockInv, LockLatest
    <2>1. CASE v # i
      BY <1>0, <1>6, <1>9, <2>1, OtherLocks
    <2>2. CASE v = i
      <3>1. w[i].height = nd[i].height /\ w[i].round = nd[i].round /\ w[i].locked = b
        BY <1>6 DEF SamePositions
      <3>2. Precommitted(w, i, w[i].height, w[i].round, b)
        BY <1>1, <1>9, <3>1 DEF AddsPrecommit
      <3> QED BY <1>4, <1>6, <1>13, <2>2, <3>1, <3>2, NewLock
    <2> QED BY <2>1, <2>2
  <1>16. VoteAfterLock(w)
    BY <1>0, <1>9, <1>10, AddLock
  <1>17. LaterExcludes(w)
    <2> SUFFICES ASSUME NEW h \in Nat, NEW r \in Nat, NEW q \in Nat, NEW d \in Block,
                        NEW c \in Block, PrevoteQuorum(w, h, q, c), r < q
                 PROVE  Excluded(w, h, r, d)
      BY DEF LaterExcludes
    <2>1. PrevoteQuorum(nd, h, q, c)
      BY <1>9, SameQuorums
    <2>2. Excluded(nd, h, r, d)
      BY <1>0, <2>1 DEF LaterExcludes
    <2> QED BY <1>0, <1>6, <1>9, <2>2, AddExcluded
  <1> QED BY <1>5, <1>6, <1>8, <1>12, <1>13, <1>14, <1>15, <1>16, <1>17 DEF Inv, w

\* A proposal of the node's own round is remembered, and is the first of its round.
LEMMA AddProposal ==
    ASSUME NEW nd, Typed(nd), ProposalInv(nd), OneProposal(nd), NEW w, NEW i \in Validators,
           NEW b \in Block, b.height = nd[i].height, b.round = nd[i].round,
           ProposerFor(nd[i].height, nd[i].round) = i, ~nd[i].proposed, w[i].proposed,
           AddsProposal(nd, w, nd[i].height, nd[i].round, b), SamePositions(nd, w),
           \A v \in Validators : nd[v].proposed => w[v].proposed
    PROVE  ProposalInv(w) /\ OneProposal(w)
  <1> DEFINE hi == nd[i].height
             ri == nd[i].round
  <1>0. hi \in Nat /\ ri \in Nat
    BY PositionTypes
  <1>1. \A c \in Block : ~Proposed(nd, hi, ri, c)
    BY <1>0, SMTT(40) DEF ProposalInv
  <1>2. OneProposal(w)
    <2> SUFFICES ASSUME NEW h \in Nat, NEW r \in Nat, NEW c \in Block, NEW d \in Block,
                        Proposed(w, h, r, c), Proposed(w, h, r, d)
                 PROVE  c = d
      BY DEF OneProposal
    <2>1. CASE h = hi /\ r = ri
      BY <1>1, <2>1, SMTT(40) DEF AddsProposal
    <2>2. CASE ~(h = hi /\ r = ri)
      <3>1. Proposed(nd, h, r, c) /\ Proposed(nd, h, r, d)
        BY <2>2 DEF AddsProposal
      <3> QED BY <3>1 DEF OneProposal
    <2> QED BY <2>1, <2>2
  <1>3. ASSUME NEW h \in Nat, NEW r \in Nat, NEW c \in Block, Proposed(w, h, r, c)
        PROVE  LET p == w[ProposerFor(h, r)]
               IN  /\ c.height = h /\ c.round = r
                   /\ Reached(w, ProposerFor(h, r), h, r)
                   /\ p.height = h /\ p.round = r => p.proposed
    <2> DEFINE x == ProposerFor(h, r)
    <2>1. x \in Validators
      BY ProposerType
    <2>2. /\ c.height = h /\ c.round = r
          /\ Reached(nd, x, h, r)
          /\ nd[x].height = h /\ nd[x].round = r => w[x].proposed
      <3>1. CASE Proposed(nd, h, r, c)
        <4>1. FromProposer(nd, x, h, r, c)
          BY <3>1, KnownProposal
        <4> QED BY <2>1, <4>1 DEF FromProposer
      <3>2. CASE ~Proposed(nd, h, r, c)
        <4>1. h = hi /\ r = ri /\ c = b
          BY <1>3, <3>2 DEF AddsProposal
        <4>2. x = i
          BY <4>1
        <4>3. Reached(nd, i, hi, ri)
          BY <1>0, SMTT(40) DEF Reached
        <4> QED BY <4>1, <4>2, <4>3
      <3> QED BY <3>1, <3>2
    <2> HIDE DEF x
    <2>3. Reached(w, x, h, r)
      BY <2>1, <2>2, SameReach
    <2>4. w[x].height = h /\ w[x].round = r => w[x].proposed
      BY <2>1, <2>2 DEF SamePositions
    <2> QED BY <2>2, <2>3, <2>4 DEF x
  <1> QED BY <1>2, <1>3 DEF ProposalInv

\* The invariant survives the one proposal of a round that its proposer sends.
LEMMA CastProposal ==
    ASSUME NEW nd, Inv(nd), NEW i \in Validators, NEW t, NodeOK(t),
           NEW b \in Block, nd[i].up, b.height = nd[i].height, b.round = nd[i].round,
           ProposerFor(nd[i].height, nd[i].round) = i, ~nd[i].proposed,
           Sends(nd[i], t, PropMsg(nd[i].height, nd[i].round, b)),
           t.locked = nd[i].locked, t.proposal = b, t.proposed = TRUE
    PROVE  Inv(Upd(nd, i, t))
  <1> DEFINE w == Upd(nd, i, t)
             m == PropMsg(nd[i].height, nd[i].round, b)
  <1>0. /\ Typed(nd) /\ OwnMessages(nd) /\ PrevoteInv(nd) /\ PrecommitInv(nd) /\ OneProposal(nd)
        /\ VoteAfterLock(nd) /\ LaterExcludes(nd) /\ ProposalInv(nd)
        /\ LockInv(nd) /\ LockLatest(nd)
    BY DEF Inv
  <1>1. nd[i].height \in Nat /\ nd[i].round \in Nat
    BY <1>0, PositionTypes
  <1>2. Sends(nd[i], t, m) /\ ProposerFor(nd[i].height, nd[i].round) = i
    OBVIOUS
  <1> HIDE DEF w, m
  <1>3. /\ Typed(w) /\ w[i] = t /\ \A v \in Validators \ {i} : w[v] = nd[v]
        /\ SentBy(nd, w, i, m) /\ SamePositions(nd, w)
    BY <1>0, <1>2, SendMessage DEF w
  <1>4. m.type = "proposal" /\ m.proposer = i /\ VerifiedProposal(m)
    BY <1>2 DEF m, PropMsg, VerifiedProposal
  <1>5. OwnMessages(w)
    BY <1>0, <1>3, <1>4, HoldOwnMessages
  <1>6. /\ AddsProposal(nd, w, nd[i].height, nd[i].round, b)
        /\ SamePrevotes(nd, w) /\ SamePrecommits(nd, w)
    BY <1>1, <1>2, <1>3, ProposalSent DEF m
  <1>7. KeepsVotes(nd, w) /\ KeepsQuorums(nd, w)
    BY <1>3, SentGrows
  <1>8. TallyInv(w) /\ HeldProposal(w) /\ ChainInv(w)
    <2>1. Proposed(w, nd[i].height, nd[i].round, b)
      BY <1>1, <1>6 DEF AddsProposal
    <2>2. t.height = nd[i].height /\ t.round = nd[i].round
      BY <1>2 DEF Sends
    <2> QED BY <1>2, <2>1, <2>2, SendLocal DEF w
  <1>9. \A v \in Validators :
            /\ w[v].locked = nd[v].locked
            /\ w[v].up => nd[v].up
            /\ nd[v].proposed => w[v].proposed
    BY <1>3
  <1>10. w[i].proposed
    BY <1>3
  <1>11. PrevoteInv(w)
    BY <1>0, <1>3, <1>6, <1>7, HoldPrevotes
  <1>12. PrecommitInv(w)
    BY <1>0, <1>3, <1>6, <1>7, HoldPrecommits
  <1>13. ProposalInv(w) /\ OneProposal(w)
    BY <1>0, <1>2, <1>3, <1>6, <1>9, <1>10, AddProposal
  <1>14. LockInv(w) /\ LockLatest(w)
    BY <1>0, <1>3, <1>6, <1>9, HoldLocks DEF LockInv, LockLatest
  <1>15. VoteAfterLock(w)
    <2> SUFFICES ASSUME NEW v \in Validators, NEW h \in Nat, NEW r \in Nat, NEW q \in Nat,
                        NEW d \in Block, NEW c \in Block,
                        Precommitted(w, v, h, r, d), Prevoted(w, v, h, q, c), r < q
                 PROVE  \E x \in Nat, e \in Block : r < x /\ x <= q /\ PrevoteQuorum(w, h, x, e)
      BY DEF VoteAfterLock
    <2>1. Prevoted(nd, v, h, q, c) /\ Precommitted(nd, v, h, r, d)
      BY <1>6 DEF SamePrevotes, SamePrecommits
    <2>2. PICK x \in Nat, e \in Block : r < x /\ x <= q /\ PrevoteQuorum(nd, h, x, e)
      BY <1>0, <2>1 DEF VoteAfterLock
    <2>3. PrevoteQuorum(w, h, x, e)
      BY <1>7, <2>2 DEF KeepsQuorums
    <2> QED BY <2>2, <2>3
  <1>16. LaterExcludes(w)
    <2> SUFFICES ASSUME NEW h \in Nat, NEW r \in Nat, NEW q \in Nat, NEW d \in Block,
                        NEW c \in Block, PrevoteQuorum(w, h, q, c), r < q
                 PROVE  Excluded(w, h, r, d)
      BY DEF LaterExcludes
    <2>1. PrevoteQuorum(nd, h, q, c)
      BY <1>6, SameQuorums
    <2>2. Excluded(nd, h, r, d)
      BY <1>0, <2>1 DEF LaterExcludes
    <2> QED BY <1>3, <1>6, <2>2, HoldExcluded
  <1> QED BY <1>3, <1>5, <1>8, <1>11, <1>12, <1>13, <1>14, <1>15, <1>16 DEF Inv, w

-----------------------------------------------------------------------------
\* The second of two updates of one node is the one that counts.
LEMMA UpdUpd ==
    ASSUME NEW nd, Typed(nd), NEW i \in Validators, NEW s, NEW t
    PROVE  /\ Upd(Upd(nd, i, s), i, t) = Upd(nd, i, t)
           /\ Upd(nd, i, nd[i]) = nd
           /\ Upd(nd, i, s)[i] = s
  BY DEF Upd, Typed

\* A step within a round that changes step and slashing state only, or sends a
\* vote for no block.
LEMMA QuietInv ==
    ASSUME NEW nd, Inv(nd), NEW i \in Validators, NEW t, NodeOK(t), Quiet(i, nd[i], t),
           t.up = nd[i].up, t.height = nd[i].height, t.round = nd[i].round,
           t.locked = nd[i].locked, t.proposed = nd[i].proposed, t.chain = nd[i].chain,
           t.prevotes = nd[i].prevotes, t.precommits = nd[i].precommits,
           t.proposal = nd[i].proposal
    PROVE  Inv(Upd(nd, i, t))
  <1>1. nd[i].height \in Nat /\ nd[i].round \in Nat
    BY PositionTypes DEF Inv
  <1>2. Forward(nd[i], t)
    BY <1>1, SMTT(40) DEF Forward
  <1>3. t.proposal # None => Proposed(nd, t.height, t.round, t.proposal)
    BY DEF Inv, HeldProposal
  <1>4. t.up => \A v \in Validators, b \in Block :
                  /\ <<b, v>> \in t.prevotes => Prevoted(nd, v, t.height, t.round, b)
                  /\ <<b, v>> \in t.precommits => Precommitted(nd, v, t.height, t.round, b)
    BY DEF Inv, TallyInv
  <1>5. ChainGrows(nd, i, t)
    BY DEF ChainGrows
  <1> QED BY <1>2, <1>3, <1>4, <1>5, SilentInv

\* The invariant survives an assignment to step.
LEMMA SetStepInv ==
    ASSUME NEW nd, Inv(nd), NEW i \in Validators, NEW step \in Steps
    PROVE  Inv(Upd(nd, i, SetStep(nd[i], step)))
  <1> DEFINE t == SetStep(nd[i], step)
  <1>1. NodeOK(nd[i]) /\ NodeOK(t)
    BY SetStepType DEF Inv, Typed
  <1>2. /\ t.up = nd[i].up /\ t.height = nd[i].height /\ t.round = nd[i].round
        /\ t.locked = nd[i].locked /\ t.proposed = nd[i].proposed /\ t.chain = nd[i].chain
        /\ t.prevotes = nd[i].prevotes /\ t.precommits = nd[i].precommits
        /\ t.proposal = nd[i].proposal /\ t.sent = nd[i].sent
    BY <1>1 DEF SetStep, NodeOK, NodeState
  <1> HIDE DEF t
  <1>3. Quiet(i, nd[i], t)
    BY <1>2 DEF Quiet
  <1> QED BY <1>1, <1>2, <1>3, QuietInv DEF t

\* Counting a vote that was sent.
LEMMA CountInv ==
    ASSUME NEW nd, Inv(nd), NEW i \in Validators, nd[i].up, NEW vote \in Vote
    PROVE  /\ (vote.hash # ZERO_HASH =>
                 Prevoted(nd, vote.validator, nd[i].height, nd[i].round, vote.hash))
                => Inv(Upd(nd, i, CountPrevote(nd[i], vote)))
           /\ (vote.hash # ZERO_HASH =>
                 Precommitted(nd, vote.validator, nd[i].height, nd[i].round, vote.hash))
                => Inv(Upd(nd, i, CountPrecommit(nd[i], vote)))
  <1>0. NodeOK(nd[i])
    BY DEF Inv, Typed
  <1>1. nd[i].height \in Nat /\ nd[i].round \in Nat
    BY PositionTypes DEF Inv
  <1>2. nd[i].proposal # None => Proposed(nd, nd[i].height, nd[i].round, nd[i].proposal)
    BY DEF Inv, HeldProposal
  <1>3. \A v \in Validators, b \in Block :
          /\ <<b, v>> \in nd[i].prevotes => Prevoted(nd, v, nd[i].height, nd[i].round, b)
          /\ <<b, v>> \in nd[i].precommits => Precommitted(nd, v, nd[i].height, nd[i].round, b)
    BY DEF Inv, TallyInv
  <1>4. ASSUME vote.hash # ZERO_HASH =>
                 Prevoted(nd, vote.validator, nd[i].height, nd[i].round, vote.hash)
        PROVE  Inv(Upd(nd, i, CountPrevote(nd[i], vote)))
    <2> DEFINE t == CountPrevote(nd[i], vote)
    <2>1. NodeOK(t)
      BY <1>0, CountType
    <2>2. /\ t.up = nd[i].up /\ t.height = nd[i].height /\ t.round = nd[i].round
          /\ t.locked = nd[i].locked /\ t.proposed = nd[i].proposed /\ t.chain = nd[i].chain
          /\ t.precommits = nd[i].precommits
          /\ t.proposal = nd[i].proposal /\ t.sent = nd[i].sent
          /\ t.prevotes = IF vote.hash = ZERO_HASH THEN nd[i].prevotes
                          ELSE nd[i].prevotes \cup {<<vote.hash, vote.validator>>}
      BY <1>0 DEF CountPrevote, NodeOK, NodeState
    <2> HIDE DEF t
    <2>3. Quiet(i, nd[i], t) /\ Forward(nd[i], t)
      BY <1>1, <2>2, SMTT(40) DEF Quiet, Forward
    <2>4. \A v \in Validators, b \in Block :
            /\ <<b, v>> \in t.prevotes => Prevoted(nd, v, t.height, t.round, b)
            /\ <<b, v>> \in t.precommits => Precommitted(nd, v, t.height, t.round, b)
      <3> SUFFICES ASSUME NEW v \in Validators, NEW b \in Block
                   PROVE  /\ <<b, v>> \in t.prevotes => Prevoted(nd, v, t.height, t.round, b)
                          /\ <<b, v>> \in t.precommits => Precommitted(nd, v, t.height, t.round, b)
        OBVIOUS
      <3>1. <<b, v>> \in t.prevotes =>
              \/ <<b, v>> \in nd[i].prevotes
              \/ vote.hash # ZERO_HASH /\ b = vote.hash /\ v = vote.validator
        BY <2>2, SMTT(40)
      <3> QED BY <1>3, <1>4, <2>2, <3>1
    <2>5. t.proposal # None => Proposed(nd, t.height, t.round, t.proposal)
      BY <1>2, <2>2
    <2>6. ChainGrows(nd, i, t)
      BY <2>2 DEF ChainGrows
    <2>7. Inv(Upd(nd, i, t))
      BY <2>1, <2>2, <2>3, <2>4, <2>5, <2>6, SilentInv
    <2> QED BY <2>7 DEF t
  <1>5. ASSUME vote.hash # ZERO_HASH =>
                 Precommitted(nd, vote.validator, nd[i].height, nd[i].round, vote.hash)
        PROVE  Inv(Upd(nd, i, CountPrecommit(nd[i], vote)))
    <2> DEFINE t == CountPrecommit(nd[i], vote)
    <2>1. NodeOK(t)
      BY <1>0, CountType
    <2>2. /\ t.up = nd[i].up /\ t.height = nd[i].height /\ t.round = nd[i].round
          /\ t.locked = nd[i].locked /\ t.proposed = nd[i].proposed /\ t.chain = nd[i].chain
          /\ t.prevotes = nd[i].prevotes
          /\ t.proposal = nd[i].proposal /\ t.sent = nd[i].sent
          /\ t.precommits = IF vote.hash = ZERO_HASH THEN nd[i].precommits
                            ELSE nd[i].precommits \cup {<<vote.hash, vote.validator>>}
      BY <1>0 DEF CountPrecommit, NodeOK, NodeState
    <2> HIDE DEF t
    <2>3. Quiet(i, nd[i], t) /\ Forward(nd[i], t)
      BY <1>1, <2>2, SMTT(40) DEF Quiet, Forward
    <2>4. \A v \in Validators, b \in Block :
            /\ <<b, v>> \in t.prevotes => Prevoted(nd, v, t.height, t.round, b)
            /\ <<b, v>> \in t.precommits => Precommitted(nd, v, t.height, t.round, b)
      <3> SUFFICES ASSUME NEW v \in Validators, NEW b \in Block
                   PROVE  /\ <<b, v>> \in t.prevotes => Prevoted(nd, v, t.height, t.round, b)
                          /\ <<b, v>> \in t.precommits => Precommitted(nd, v, t.height, t.round, b)
        OBVIOUS
      <3>1. <<b, v>> \in t.precommits =>
              \/ <<b, v>> \in nd[i].precommits
              \/ vote.hash # ZERO_HASH /\ b = vote.hash /\ v = vote.validator
        BY <2>2, SMTT(40)
      <3> QED BY <1>3, <1>5, <2>2, <3>1
    <2>5. t.proposal # None => Proposed(nd, t.height, t.round, t.proposal)
      BY <1>2, <2>2
    <2>6. ChainGrows(nd, i, t)
      BY <2>2 DEF ChainGrows
    <2>7. Inv(Upd(nd, i, t))
      BY <2>1, <2>2, <2>3, <2>4, <2>5, <2>6, SilentInv
    <2> QED BY <2>7 DEF t
  <1> QED BY <1>4, <1>5

\* A node that has prevoted blocks at its height is locked on none of an earlier
\* round.
VotesLocked(s, i) ==
    s.locked # None =>
        \A r \in Nat, b \in Block :
            Msg("prevote", s.height, r, b, i) \in s.sent => r <= s.locked.round

\* The chain has no payload that apply_block refuses.
Appliable(s) == \A k \in 1 .. Len(s.chain) : s.chain[k][2] \notin Unappliable

\* A quorum has precommitted a block that apply_block refuses, in the round of s.
Doomed(nd, s) ==
    \E b \in Block : b.txs \in Unappliable /\ PrecommitQuorum(nd, s.height, s.round, b)

\* The states that node i of the cluster nd may be in during a handler, and after.
Fits(nd, i, s) ==
    /\ NodeOK(s) /\ nd[i].sent \subseteq s.sent
    /\ Inv(Upd(nd, i, s)) /\ VotesLocked(s, i) /\ Appliable(s)
During(nd, i) == {s \in NodeState : s.up /\ Fits(nd, i, s)}
After(nd, i) == {s \in NodeState : Fits(nd, i, s) /\ (s.up \/ Doomed(Upd(nd, i, s), s))}

\* A step that casts no prevote for a block and keeps the lock.
LEMMA SameVotes ==
    ASSUME NEW s, NEW t, NEW i, VotesLocked(s, i), t.height = s.height, t.locked = s.locked,
           \A r, b : b \in Block /\ Msg("prevote", s.height, r, b, i) \in t.sent =>
                        Msg("prevote", s.height, r, b, i) \in s.sent
    PROVE  VotesLocked(t, i)
  BY DEF VotesLocked

\* A message that was sent is one of the validator that signed it.
LEMMA SentVotes ==
    ASSUME NEW nd, Inv(nd), NEW j \in Validators, NEW m \in nd[j].sent
    PROVE  /\ m \in Vote /\ m.type = "prevote" =>
                 Prevoted(nd, m.validator, m.height, m.round, m.hash)
           /\ m \in Vote /\ m.type = "precommit" =>
                 Precommitted(nd, m.validator, m.height, m.round, m.hash)
           /\ m \in Proposal /\ VerifiedProposal(m) => Proposed(nd, m.height, m.round, m.block)
  <1>1. /\ m.type = "proposal" => m.proposer = j /\ VerifiedProposal(m)
        /\ m.type # "proposal" => m.validator = j
    BY DEF Inv, OwnMessages
  <1>2. ASSUME m \in Vote PROVE m = Msg(m.type, m.height, m.round, m.hash, m.validator)
    BY <1>2 DEF Vote, Msg
  <1>3. ASSUME m \in Proposal, VerifiedProposal(m)
        PROVE  m = PropMsg(m.height, m.round, m.block) /\ ProposerFor(m.height, m.round) = j
    BY <1>1, <1>3 DEF Proposal, PropMsg, VerifiedProposal
  <1>4. ASSUME m \in Vote, m.type = "prevote"
        PROVE  Prevoted(nd, m.validator, m.height, m.round, m.hash)
    BY <1>1, <1>2, <1>4 DEF Prevoted
  <1>5. ASSUME m \in Vote, m.type = "precommit"
        PROVE  Precommitted(nd, m.validator, m.height, m.round, m.hash)
    BY <1>1, <1>2, <1>5 DEF Precommitted
  <1> QED BY <1>3, <1>4, <1>5 DEF Proposed

\* The quorum in the tally of a node is a quorum of the cluster.
LEMMA TallyQuorum ==
    ASSUME NEW nd, Inv(nd), NEW i \in Validators, nd[i].up, NEW b \in Block
    PROVE  /\ QuorumMet(Voters(nd[i].prevotes, b)) =>
                 PrevoteQuorum(nd, nd[i].height, nd[i].round, b)
           /\ QuorumMet(Voters(nd[i].precommits, b)) =>
                 PrecommitQuorum(nd, nd[i].height, nd[i].round, b)
  <1>1. /\ \A v \in Voters(nd[i].prevotes, b) : Prevoted(nd, v, nd[i].height, nd[i].round, b)
        /\ \A v \in Voters(nd[i].precommits, b) : Precommitted(nd, v, nd[i].height, nd[i].round, b)
    BY DEF Inv, TallyInv, Voters
  <1> QED BY <1>1 DEF QuorumMet, PrevoteQuorum, PrecommitQuorum

\* What is known of the cluster w in which node i of nd is in state s.
Fitted(nd, i, s, t, w) ==
    /\ Inv(w) /\ Typed(w) /\ w[i] = s /\ NodeOK(s)
    /\ \A j \in Validators : nd[j].sent \subseteq w[j].sent
    /\ Upd(w, i, t) = Upd(nd, i, t)

\* It is known when the state fits.
LEMMA Fitting ==
    ASSUME NEW nd, Typed(nd), NEW i \in Validators, NEW s, Fits(nd, i, s),
           NEW t, NEW w, w = Upd(nd, i, s)
    PROVE  Fitted(nd, i, s, t, w)
  <1>1. Inv(w) /\ NodeOK(s) /\ nd[i].sent \subseteq s.sent
    BY DEF Fits
  <1>2. w[i] = s /\ \A v \in Validators \ {i} : w[v] = nd[v]
    BY <1>1, Updated, SMTT(40)
  <1>3. Upd(w, i, t) = Upd(nd, i, t)
    BY UpdUpd, SMTT(40)
  <1>4. \A j \in Validators : nd[j].sent \subseteq w[j].sent
    BY <1>1, <1>2
  <1> QED BY <1>1, <1>2, <1>3, <1>4 DEF Inv, Fitted

\* Where a node is now it is not later than.
LEMMA NotBefore ==
    /\ \A n \in Nat : n <= n
    /\ \A nd, v, r : nd[v].round \in Nat /\ nd[v].height \in Nat /\ r \in Nat
          /\ Reached(nd, v, nd[v].height, r) => r <= nd[v].round
  <1>1. \A n \in Nat : n <= n
    BY SMTT(40)
  <1>2. ASSUME NEW nd, NEW v, NEW r \in Nat, nd[v].round \in Nat, nd[v].height \in Nat,
               Reached(nd, v, nd[v].height, r)
        PROVE  r <= nd[v].round
    BY <1>2, SMTT(40) DEF Reached
  <1> QED BY <1>1, <1>2

\* What a change within a round leaves of a node.
Alters(s, t, sent, locked, proposal) ==
    /\ SamePlace(s, t) /\ t.sent = sent /\ t.locked = locked /\ t.proposal = proposal
    /\ t.prevotes = s.prevotes /\ t.precommits = s.precommits

\* Sending, locking and taking a proposal are such changes.
LEMMA Alterations ==
    ASSUME NEW s, NodeOK(s), NEW t
    PROVE  /\ \A m \in Message : t = Sending(s, m) =>
                 Alters(s, t, s.sent \cup {m}, s.locked, s.proposal)
           /\ \A b \in Block, i \in Validators : t = Locking(s, b, i) =>
                 Alters(s, t, s.sent \cup {VoteOf(s, "precommit", b, i)}, b, s.proposal)
           /\ \A b \in Block : ValidBlock(s, b) /\ t = [s EXCEPT !.proposal = b] =>
                 Alters(s, t, s.sent, s.locked, b)
  <1>1. ASSUME NEW m \in Message, t = Sending(s, m)
        PROVE  Alters(s, t, s.sent \cup {m}, s.locked, s.proposal)
    BY <1>1, SendFields, SMTT(40) DEF Alters
  <1>2. ASSUME NEW b \in Block, NEW i \in Validators, t = Locking(s, b, i)
        PROVE  Alters(s, t, s.sent \cup {VoteOf(s, "precommit", b, i)}, b, s.proposal)
    BY <1>2, LockFields, SMTT(40) DEF Alters
  <1>3. ASSUME NEW b \in Block, ValidBlock(s, b), t = [s EXCEPT !.proposal = b]
        PROVE  Alters(s, t, s.sent, s.locked, b)
    BY <1>3, TakeFields, SMTT(40) DEF Alters
  <1> QED BY <1>1, <1>2, <1>3

\* A node that stays at its height and round has not gone back.
LEMMA ForwardSame ==
    ASSUME NEW s, NEW t, s.round \in Nat, t.height = s.height, t.round = s.round
    PROVE  Forward(s, t)
  BY SMTT(40) DEF Forward

\* What is known after a commit.
Committed(s, t, b) ==
    /\ NodeOK(t) /\ t.sent = s.sent
    /\ \/ b.txs \in Unappliable /\ Exits(s, t)
       \/ b.txs \notin Unappliable /\ Commits(s, t, b)

\* It is known of every commit of the held proposal.
LEMMA CommitKnown ==
    ASSUME NEW s, NodeOK(s), NEW b \in Block, s.proposal = b, NEW t, t = CommitBlock(s, b)
    PROVE  Committed(s, t, b)
  BY CommitFields, SMTT(40) DEF Committed

\* A committed block takes the node to a later height with nothing held.
LEMMA CommitForward ==
    ASSUME NEW s, NEW t, NEW b, s.height \in Nat, Commits(s, t, b)
    PROVE  Forward(s, t) /\ t.height # s.height /\ t.height > s.height
  BY SMTT(40) DEF Commits, Forward

\* The node stays where it is and sends nothing.
Unmoved(s, t) == SamePlace(s, t) /\ t.sent = s.sent /\ t.locked = s.locked

\* Counting a vote moves no node.
LEMMA CountStays ==
    ASSUME NEW s, NodeOK(s), NEW vote \in Vote,
           NEW t, t = CountPrevote(s, vote) \/ t = CountPrecommit(s, vote)
    PROVE  Unmoved(s, t)
  BY CountFields, SMTT(40) DEF Unmoved

\* A vote of the network is counted.
LEMMA FitsCount ==
    ASSUME NEW nd, Typed(nd), NEW i \in Validators, NEW s, Fits(nd, i, s), s.up,
           NEW vote \in Vote, Countable(s, vote),
           vote \in s.sent \/ \E j \in Validators : vote \in nd[j].sent,
           NEW t, \/ vote.type = "prevote" /\ t = CountPrevote(s, vote)
                  \/ vote.type = "precommit" /\ t = CountPrecommit(s, vote)
    PROVE  Fits(nd, i, t) /\ t.up
  <1> DEFINE w == Upd(nd, i, s)
  <1>f. Fitted(nd, i, s, t, w)
    BY Fitting
  <1>1. /\ Inv(w) /\ w[i] = s /\ NodeOK(s)
        /\ \A j \in Validators : nd[j].sent \subseteq w[j].sent
        /\ Upd(w, i, t) = Upd(nd, i, t)
    BY <1>f DEF Fitted
  <1> HIDE DEF w
  <1>2. vote.height = s.height /\ vote.round = s.round
    BY DEF Countable, InRound
  <1>3. PICK j \in Validators : vote \in w[j].sent
    BY <1>1
  <1>4. /\ vote.type = "prevote" => Prevoted(w, vote.validator, s.height, s.round, vote.hash)
        /\ vote.type = "precommit" => Precommitted(w, vote.validator, s.height, s.round, vote.hash)
    BY <1>1, <1>2, <1>3, SentVotes
  <1>5. Inv(Upd(w, i, t))
    BY <1>1, <1>4, CountInv
  <1>6. /\ SamePlace(s, t) /\ t.sent = s.sent /\ t.locked = s.locked
    <2>1. Unmoved(s, t)
      BY <1>1, CountStays
    <2> QED BY <2>1 DEF Unmoved
  <1>7. VotesLocked(t, i) /\ Appliable(t)
    BY <1>6 DEF Fits, VotesLocked, Appliable, SamePlace
  <1> QED BY <1>1, <1>5, <1>6, <1>7 DEF Fits, SamePlace

\* Assigning to step.
LEMMA FitsStep ==
    ASSUME NEW nd, Typed(nd), NEW i \in Validators, NEW s, Fits(nd, i, s),
           NEW step \in VoteSteps, NEW t, t = SetStep(s, step)
    PROVE  Fits(nd, i, t) /\ t.up = s.up /\ (~s.up => t = s)
  <1> DEFINE w == Upd(nd, i, s)
  <1>f. Fitted(nd, i, s, t, w)
    BY Fitting
  <1>1. Inv(w) /\ w[i] = s /\ NodeOK(s) /\ Upd(w, i, t) = Upd(nd, i, t)
    BY <1>f DEF Fitted
  <1> HIDE DEF w
  <1>2. Inv(Upd(w, i, t))
    BY <1>1, SetStepInv DEF VoteSteps, Steps
  <1>3. SamePlace(s, t) /\ t.sent = s.sent /\ t.locked = s.locked /\ (~s.up => t = s)
    BY <1>1, StepFields, SMTT(40)
  <1>4. VotesLocked(t, i) /\ Appliable(t)
    BY <1>3 DEF Fits, VotesLocked, Appliable, SamePlace
  <1> QED BY <1>1, <1>2, <1>3, <1>4 DEF Fits, SamePlace

\* A vote for no block is sent.
LEMMA FitsZero ==
    ASSUME NEW nd, Typed(nd), NEW i \in Validators, NEW s, Fits(nd, i, s), s.up,
           NEW type \in {"prevote", "precommit"},
           NEW t, t = Sending(s, VoteOf(s, type, ZERO_HASH, i))
    PROVE  Fits(nd, i, t) /\ t.up
  <1> DEFINE w == Upd(nd, i, s)
             m == VoteOf(s, type, ZERO_HASH, i)
  <1>f. Fitted(nd, i, s, t, w)
    BY Fitting
  <1>1. Inv(w) /\ w[i] = s /\ NodeOK(s) /\ Upd(w, i, t) = Upd(nd, i, t)
    BY <1>f DEF Fitted
  <1>2. m \in Message /\ m = Msg(type, s.height, s.round, ZERO_HASH, i)
    BY <1>1, VoteOfType DEF Message, Hash, VoteOf, Msg
  <1>3. t = Sending(s, m)
    OBVIOUS
  <1> HIDE DEF w, m
  <1>4. /\ SamePlace(s, t) /\ t.sent = s.sent \cup {m}
        /\ t.locked = s.locked /\ t.proposal = s.proposal
        /\ t.prevotes = s.prevotes /\ t.precommits = s.precommits
    <2>1. Alters(s, t, s.sent \cup {m}, s.locked, s.proposal)
      BY <1>1, <1>2, <1>3, Alterations
    <2> QED BY <2>1 DEF Alters
  <1>5. Quiet(i, s, t)
    BY <1>2, <1>4 DEF Quiet
  <1>6. Inv(Upd(w, i, t))
    BY <1>1, <1>4, <1>5, QuietInv DEF SamePlace
  <1>7. \A r, b : b \in Block /\ Msg("prevote", s.height, r, b, i) \in t.sent =>
                     Msg("prevote", s.height, r, b, i) \in s.sent
    BY <1>5, QuietSent
  <1>8. VotesLocked(t, i)
    BY <1>4, <1>7, SameVotes DEF Fits, SamePlace
  <1>9. Appliable(t)
    BY <1>4 DEF Fits, Appliable, SamePlace
  <1> QED BY <1>1, <1>4, <1>6, <1>8, <1>9 DEF Fits, SamePlace

\* The held proposal is prevoted by a node that is not locked on another block.
LEMMA FitsPrevote ==
    ASSUME QuorumsIntersect, NEW nd, Typed(nd), NEW i \in Validators, NEW s, Fits(nd, i, s), s.up,
           NEW b \in Block, s.proposal = b, s.locked \in {None, b},
           NEW t, t = Sending(s, VoteOf(s, "prevote", b, i))
    PROVE  Fits(nd, i, t) /\ t.up
  <1> DEFINE w == Upd(nd, i, s)
             m == VoteOf(s, "prevote", b, i)
  <1>0. b # None
    BY NodeAssumption
  <1>f. Fitted(nd, i, s, t, w)
    BY Fitting
  <1>1. Inv(w) /\ w[i] = s /\ NodeOK(s) /\ Upd(w, i, t) = Upd(nd, i, t)
    BY <1>f DEF Fitted
  <1>2. m \in Message /\ m = Msg("prevote", s.height, s.round, b, i)
    BY <1>1, VoteOfType DEF Message, Hash, VoteOf, Msg
  <1>3. t = Sending(s, m)
    OBVIOUS
  <1> HIDE DEF w, m
  <1>4. /\ SamePlace(s, t) /\ t.sent = s.sent \cup {m}
        /\ t.locked = s.locked /\ t.proposal = s.proposal
        /\ t.prevotes = s.prevotes /\ t.precommits = s.precommits
    <2>1. Alters(s, t, s.sent \cup {m}, s.locked, s.proposal)
      BY <1>1, <1>2, <1>3, Alterations
    <2> QED BY <2>1 DEF Alters
  <1>5. Proposed(w, s.height, s.round, b)
    BY <1>0, <1>1 DEF Inv, HeldProposal
  <1>6. Sends(s, t, Msg("prevote", s.height, s.round, b, i))
    BY <1>2, <1>4 DEF Sends, SamePlace
  <1>7. Inv(Upd(w, i, t))
    BY <1>1, <1>4, <1>5, <1>6, CastPrevote DEF SamePlace
  <1>8. VotesLocked(t, i)
    <2> SUFFICES ASSUME s.locked # None, NEW r \in Nat, NEW c \in Block,
                        Msg("prevote", s.height, r, c, i) \in t.sent
                 PROVE  r <= s.locked.round
      BY <1>4 DEF VotesLocked, SamePlace
    <2>1. CASE Msg("prevote", s.height, r, c, i) \in s.sent
      BY <2>1 DEF Fits, VotesLocked
    <2>2. CASE Msg("prevote", s.height, r, c, i) = m
      <3>1. r = s.round
        <4>1. m.round = s.round
          BY <1>2 DEF Msg
        <4>2. Msg("prevote", s.height, r, c, i).round = r
          BY DEF Msg
        <4> QED BY <2>2, <4>1, <4>2
      <3>2. s.locked = b /\ b.round = s.round
        BY <1>0, <1>1 DEF NodeOK, ValidBlock
      <3> QED BY <3>1, <3>2, NotBefore
    <2> QED BY <1>4, <2>1, <2>2
  <1>9. Appliable(t)
    BY <1>4 DEF Fits, Appliable, SamePlace
  <1> QED BY <1>1, <1>4, <1>7, <1>8, <1>9 DEF Fits, SamePlace

\* A node locks on a block that a quorum has prevoted, and precommits it.
LEMMA FitsLock ==
    ASSUME QuorumsIntersect, NEW nd, Typed(nd), NEW i \in Validators, NEW s, Fits(nd, i, s), s.up,
           NEW b \in Block, QuorumMet(Voters(s.prevotes, b)), NEW t, t = Locking(s, b, i)
    PROVE  Fits(nd, i, t) /\ t.up
  <1> DEFINE w == Upd(nd, i, s)
             m == VoteOf(s, "precommit", b, i)
  <1>f. Fitted(nd, i, s, t, w)
    BY Fitting
  <1>1. Inv(w) /\ w[i] = s /\ NodeOK(s) /\ Upd(w, i, t) = Upd(nd, i, t)
    BY <1>f DEF Fitted
  <1>2. m = Msg("precommit", s.height, s.round, b, i)
    BY DEF VoteOf, Msg
  <1>3. /\ SamePlace(s, t) /\ t.sent = s.sent \cup {m}
        /\ t.locked = b /\ t.proposal = s.proposal
        /\ t.prevotes = s.prevotes /\ t.precommits = s.precommits
    <2>1. Alters(s, t, s.sent \cup {m}, b, s.proposal)
      BY <1>1, Alterations
    <2> QED BY <2>1 DEF Alters
  <1> HIDE DEF w, m
  <1>4. PrevoteQuorum(w, s.height, s.round, b)
    BY <1>1, TallyQuorum
  <1>5. Sends(s, t, Msg("precommit", s.height, s.round, b, i))
    BY <1>2, <1>3 DEF Sends, SamePlace
  <1>6. Inv(Upd(w, i, t))
    BY <1>1, <1>3, <1>4, <1>5, CastPrecommit DEF SamePlace
  <1>7. VotesLocked(t, i)
    <2>0. s.height \in Nat /\ s.round \in Nat
      BY <1>1 DEF NodeOK, NodeState
    <2> SUFFICES ASSUME NEW r \in Nat, NEW c \in Block,
                        Msg("prevote", s.height, r, c, i) \in t.sent
                 PROVE  r <= b.round
      BY <1>3 DEF VotesLocked, SamePlace
    <2>1. Msg("prevote", s.height, r, c, i) \in s.sent
      BY <1>2, <1>3 DEF Msg
    <2>2. Reached(w, i, s.height, r)
      BY <1>1, <2>0, <2>1 DEF Inv, PrevoteInv, Prevoted
    <2>3. Proposed(w, s.height, s.round, b)
      BY <1>1, <1>4, <2>0, QuorumProposed DEF Inv
    <2>4. b.round = s.round
      BY <1>1, <2>0, <2>3, ProposedBlock DEF Inv
    <2> QED BY <1>1, <2>0, <2>2, <2>4, NotBefore
  <1>8. Appliable(t)
    BY <1>3 DEF Fits, Appliable, SamePlace
  <1> QED BY <1>1, <1>3, <1>6, <1>7, <1>8 DEF Fits, SamePlace

\* A proposal of the network that validate_block accepts is taken.
LEMMA FitsTake ==
    ASSUME NEW nd, Typed(nd), NEW i \in Validators, NEW s, Fits(nd, i, s), s.up,
           NEW p \in Proposal, InRound(s, p), VerifiedProposal(p), ValidBlock(s, p.block),
           p \in s.sent \/ \E j \in Validators : p \in nd[j].sent,
           NEW t, t = [s EXCEPT !.proposal = p.block]
    PROVE  Fits(nd, i, t) /\ t.up
  <1> DEFINE w == Upd(nd, i, s)
  <1>f. Fitted(nd, i, s, t, w)
    BY Fitting
  <1>1. /\ Inv(w) /\ w[i] = s /\ NodeOK(s)
        /\ \A j \in Validators : nd[j].sent \subseteq w[j].sent
        /\ Upd(w, i, t) = Upd(nd, i, t)
    BY <1>f DEF Fitted
  <1> HIDE DEF w
  <1>2. PICK j \in Validators : p \in w[j].sent
    BY <1>1
  <1>3. Proposed(w, s.height, s.round, p.block)
    BY <1>1, <1>2, SentVotes DEF InRound
  <1>4. p.block \in Block
    BY DEF Proposal
  <1>5. /\ SamePlace(s, t) /\ t.sent = s.sent
        /\ t.locked = s.locked /\ t.proposal = p.block
        /\ t.prevotes = s.prevotes /\ t.precommits = s.precommits
    <2>1. Alters(s, t, s.sent, s.locked, p.block)
      BY <1>1, <1>4, Alterations
    <2> QED BY <2>1 DEF Alters
  <1>6. s.height \in Nat /\ s.round \in Nat
    BY <1>1 DEF NodeOK, NodeState
  <1>7. Quiet(i, s, t) /\ Forward(s, t) /\ ChainGrows(w, i, t)
    BY <1>1, <1>5, <1>6, ForwardSame DEF Quiet, ChainGrows, SamePlace
  <1>8. \A v \in Validators, b \in Block :
           /\ <<b, v>> \in t.prevotes => Prevoted(w, v, t.height, t.round, b)
           /\ <<b, v>> \in t.precommits => Precommitted(w, v, t.height, t.round, b)
    BY <1>1, <1>5 DEF Inv, TallyInv, SamePlace
  <1>9. Inv(Upd(w, i, t))
    BY <1>1, <1>3, <1>5, <1>7, <1>8, SilentInv DEF SamePlace
  <1>10. VotesLocked(t, i) /\ Appliable(t)
    BY <1>5 DEF Fits, VotesLocked, Appliable, SamePlace
  <1> QED BY <1>1, <1>5, <1>9, <1>10 DEF Fits, SamePlace

\* An appended entry that can be applied leaves a chain that can be applied.
LEMMA AppendAppliable ==
    ASSUME NEW s, NodeOK(s), Appliable(s), NEW r \in Nat, NEW c \in Payloads, c \notin Unappliable,
           NEW t, t.chain = Append(s.chain, <<r, c>>)
    PROVE  Appliable(t)
  <1> DEFINE d == s.chain
             e == <<r, c>>
  <1>1. d \in Seq(Entry) /\ e \in Entry /\ e[2] = c
    BY DEF NodeOK, NodeState, Entry
  <1> SUFFICES ASSUME NEW k \in 1 .. Len(t.chain) PROVE t.chain[k][2] \notin Unappliable
    BY DEF Appliable
  <1> HIDE DEF e
  <1>2. /\ Len(d) \in Nat /\ Len(t.chain) = Len(d) + 1 /\ t.chain[Len(d) + 1] = e
        /\ \A n \in 1 .. Len(d) : t.chain[n] = d[n]
    BY <1>1, AppendPrefix, SMTT(40) DEF e
  <1>3. CASE k \in 1 .. Len(d)
    BY <1>2, <1>3 DEF Appliable
  <1>4. CASE k = Len(d) + 1
    BY <1>1, <1>2, <1>4
  <1> QED BY <1>2, <1>3, <1>4, NextOrEarlier

\* A block that a quorum has precommitted is committed, or ends the process.
LEMMA FitsCommit ==
    ASSUME NEW nd, Typed(nd), NEW i \in Validators, NEW s, Fits(nd, i, s), s.up,
           NEW b \in Block, s.proposal = b, QuorumMet(Voters(s.precommits, b)),
           NEW t, t = CommitBlock(s, b)
    PROVE  Fits(nd, i, t) /\ (t.up \/ Doomed(Upd(nd, i, t), t))
  <1> DEFINE w == Upd(nd, i, s)
  <1>0. b # None /\ b.txs \in Payloads
    BY NodeAssumption DEF Block
  <1>f. Fitted(nd, i, s, t, w)
    BY Fitting
  <1>1. Inv(w) /\ Typed(w) /\ w[i] = s /\ NodeOK(s) /\ Upd(w, i, t) = Upd(nd, i, t)
    BY <1>f DEF Fitted
  <1> HIDE DEF w
  <1>2. PrecommitQuorum(w, s.height, s.round, b)
    BY <1>1, TallyQuorum
  <1>3. ValidBlock(s, b) /\ s.height = Len(s.chain) + 1 /\ s.height \in Nat /\ s.round \in Nat
    BY <1>0, <1>1 DEF NodeOK, NodeState
  <1>4. /\ NodeOK(t) /\ t.sent = s.sent
        /\ \/ b.txs \in Unappliable /\ Exits(s, t)
           \/ b.txs \notin Unappliable /\ Commits(s, t, b)
    <2>1. Committed(s, t, b)
      BY <1>1, CommitKnown
    <2> QED BY <2>1 DEF Committed
  <1>5. Quiet(i, s, t)
    BY <1>4 DEF Quiet
  <1>6. CASE b.txs \in Unappliable /\ Exits(s, t)
    <2>1. Forward(s, t) /\ ChainGrows(w, i, t)
      BY <1>1, <1>3, <1>6, ForwardSame DEF Exits, ChainGrows
    <2>2. t.proposal # None => Proposed(w, t.height, t.round, t.proposal)
      BY <1>1, <1>6 DEF Inv, HeldProposal, Exits
    <2>3. Inv(Upd(w, i, t))
      BY <1>1, <1>4, <1>5, <1>6, <2>1, <2>2, SilentInv DEF Exits
    <2>q. Quiet(i, w[i], t)
      BY <1>1, <1>5
    <2>4. PrecommitQuorum(Upd(w, i, t), s.height, s.round, b)
      BY <1>1, <1>2, <1>3, <1>4, <2>q, QuietQuorum
    <2>5. Doomed(Upd(nd, i, t), t)
      BY <1>1, <1>6, <2>4 DEF Doomed, Exits
    <2>6. VotesLocked(t, i) /\ Appliable(t)
      BY <1>4, <1>6 DEF Fits, VotesLocked, Appliable, Exits
    <2> QED BY <1>1, <1>4, <2>3, <2>5, <2>6 DEF Fits
  <1>7. CASE b.txs \notin Unappliable /\ Commits(s, t, b)
    <2>1. Forward(s, t)
      BY <1>3, <1>7, CommitForward
    <2>2. ChainGrows(w, i, t)
      <3>1. /\ t.chain = Append(s.chain, <<b.round, b.txs>>) /\ b.prev = s.chain
            /\ PrecommitQuorum(w, Len(s.chain) + 1, b.round, b)
        BY <1>2, <1>3, <1>7 DEF Commits, ValidBlock
      <3> QED BY <1>1, <3>1 DEF ChainGrows
    <2>3. /\ t.height # s.height /\ t.height > s.height /\ t.up = s.up
          /\ t.locked = None /\ t.proposal = None /\ t.prevotes = {} /\ t.precommits = {}
      <3>1. t.height # s.height /\ t.height > s.height
        BY <1>3, <1>7, CommitForward
      <3> QED BY <1>7, <3>1 DEF Commits
    <2>4. Inv(Upd(w, i, t))
      BY <1>1, <1>4, <1>5, <2>1, <2>2, <2>3, SilentInv
    <2>5. VotesLocked(t, i)
      BY <2>3 DEF VotesLocked
    <2>6. Appliable(t)
      <3>1. Appliable(s) /\ t.chain = Append(s.chain, <<s.round, b.txs>>)
        BY <1>7 DEF Fits, Commits
      <3> QED BY <1>0, <1>1, <1>3, <1>7, <3>1, AppendAppliable
    <2> QED BY <1>1, <1>4, <2>3, <2>4, <2>5, <2>6 DEF Fits
  <1> QED BY <1>4, <1>6, <1>7

\* The changes a handler makes keep to the states that fit the cluster.
LEMMA FitsPass ==
    ASSUME QuorumsIntersect, NEW nd, Typed(nd), NEW i \in Validators,
           NEW V, \A m \in V : \E j \in Validators : m \in nd[j].sent
    PROVE  Passes(During(nd, i), After(nd, i), V, i)
  <1> DEFINE P == During(nd, i)
             R == After(nd, i)
  <1>0. \A s : /\ s \in P <=> s.up /\ Fits(nd, i, s)
               /\ s \in R <=> Fits(nd, i, s) /\ (s.up \/ Doomed(Upd(nd, i, s), s))
    BY DEF During, After, Fits, NodeOK
  <1> HIDE DEF P, R
  <1>1. PassesTypes(P, R)
    BY <1>0 DEF PassesTypes, Fits
  <1>2. PassesCount(P, V)
    BY <1>0, FitsCount DEF PassesCount
  <1>3. PassesLock(P, i)
    BY <1>0, FitsLock DEF PassesLock
  <1>4. PassesCommit(P, R)
    BY <1>0, FitsCommit DEF PassesCommit
  <1>5. PassesPrevote(P, i)
    BY <1>0, FitsPrevote DEF PassesPrevote
  <1>6. PassesZero(P, i)
    BY <1>0, FitsZero DEF PassesZero
  <1>7. PassesStep(P, R)
    <2> SUFFICES ASSUME NEW step \in VoteSteps, NEW s, NEW t, t = SetStep(s, step)
                 PROVE  (s \in P => t \in P) /\ (s \in R => t \in R)
      BY DEF PassesStep
    <2>1. Fits(nd, i, s) => Fits(nd, i, t) /\ t.up = s.up /\ (~s.up => t = s)
      BY FitsStep
    <2> QED BY <1>0, <2>1
  <1>8. PassesProposal(P, V)
    BY <1>0, FitsTake DEF PassesProposal
  <1> QED BY <1>1, <1>2, <1>3, <1>4, <1>5, <1>6, <1>7, <1>8 DEF Passes, P, R
=============================================================================
