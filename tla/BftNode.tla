------------------------------- MODULE BftNode -------------------------------
(***************************************************************************)
(* One consensus node of bft/node.rs: the handlers of its single thread as *)
(* functions from node state to node state.  A handler calls others while  *)
(* it runs: handle_proposal casts the node's own prevote, which            *)
(* broadcast_vote first hands to handle_vote, which may lock and cast the  *)
(* own precommit, which may commit the block; the assignments a caller     *)
(* makes AFTER such a call are kept after it here.                         *)
(*                                                                         *)
(* Hashes are injective, and a header holds the hash of its parent, so a   *)
(* block stands for its hash and a committed chain for the hash of its     *)
(* tip.  timestamp_ms and the transactions of a block are one payload.     *)
(***************************************************************************)
EXTENDS Slashing

CONSTANTS
    Payloads,      \* the contents build_block may put in a block
    Unappliable,   \* the payloads apply_block returns an error for
    ZERO_HASH,     \* the hash voted for when there is no acceptable block
    None           \* Option::None

Steps == {"Propose", "Prevote", "Precommit"}

\* A committed block within a chain is known by its position and this pair.
Entry == Nat \X Payloads
Block == [height : Nat, round : Nat, prev : Seq(Entry), txs : Payloads]
Hash == Block \cup {ZERO_HASH}

Proposal == [type : {"proposal"}, height : Nat, round : Nat, block : Block, proposer : Validators]
Vote == [type : {"prevote", "precommit"}, height : Nat, round : Nat,
         hash : Hash, validator : Validators]
Message == Proposal \cup Vote

SlashingRecord ==
    [validator : Validators, evidence : SUBSET Vote, amount : 0 .. U64Max, until : 0 .. U64Max]
SlashingState ==
    [stakes : [Validators -> 0 .. U64Max], jailed : [Validators -> 0 .. U64Max],
     slashed : Seq(SlashingRecord), votes : SUBSET Vote]

ASSUME NodeAssumption ==
    /\ Unappliable \subseteq Payloads
    /\ ZERO_HASH \notin Block
    /\ None \notin Block

(***************************************************************************)
(* Node state.  prevotes and precommits are sets of <<hash, validator>>;   *)
(* the votes for ZERO_HASH, which no handler ever looks up again, are not  *)
(* kept in them.  sent is every message given to Network::broadcast.       *)
(* up is FALSE once the process has exited.                                *)
(***************************************************************************)
InitNode ==
    [up |-> TRUE, height |-> 1, round |-> 0, step |-> "Propose", locked |-> None,
     proposal |-> None, proposed |-> FALSE, prevotes |-> {}, precommits |-> {},
     chain |-> <<>>, slashing |-> NewSlashing, sent |-> {}]

\* RoundState::new
FreshRound(s) ==
    [s EXCEPT !.proposal = None, !.proposed = FALSE, !.prevotes = {}, !.precommits = {}]

\* What a statement after a call does, unless the call ended the process.
SetStep(s, step) == IF s.up THEN [s EXCEPT !.step = step] ELSE s
Send(s, m) == IF s.up THEN [s EXCEPT !.sent = @ \cup {m}] ELSE s

Voters(tally, hash) == {v \in Validators : <<hash, v>> \in tally}

VoteOf(s, type, hash, self) ==
    [type |-> type, height |-> s.height, round |-> s.round, hash |-> hash, validator |-> self]

\* Defective CommitBlock: the height is not advanced.
CommitWithoutAdvance(s, block) ==
    [FreshRound(s) EXCEPT !.chain = Append(@, <<block.round, block.txs>>),
                          !.round = 0, !.step = "Propose", !.locked = None]

\* commit_block; an error of apply_block ends the process.
CommitBlock(s, block) ==
    IF block.txs \in Unappliable
    THEN [s EXCEPT !.up = FALSE]
    ELSE [FreshRound(s) EXCEPT
            !.chain = Append(@, <<block.round, block.txs>>),
            !.height = block.height + 1, !.round = 0,
            !.step = "Propose", !.locked = None]

\* Proposals and votes of any other height or round are dropped.
InRound(s, m) == m.height = s.height /\ m.round = s.round

\* Defective Countable: the votes of jailed validators are looked at too.
CountableFromJail(s, vote) == InRound(s, vote)

\* The votes handle_vote looks at: of the current round, from outside jail.
Countable(s, vote) ==
    /\ InRound(s, vote)
    /\ ~IsJailed(s.slashing, vote.validator, s.height)

\* A double sign is punished, and the vote is counted all the same.
CountPrevote(s, vote) ==
    [s EXCEPT !.slashing = Observe(@, vote, s.height),
              !.prevotes = IF vote.hash = ZERO_HASH THEN @
                           ELSE @ \cup {<<vote.hash, vote.validator>>}]

CountPrecommit(s, vote) ==
    [s EXCEPT !.slashing = Observe(@, vote, s.height),
              !.precommits = IF vote.hash = ZERO_HASH THEN @
                             ELSE @ \cup {<<vote.hash, vote.validator>>}]

\* Defective HandlePrecommit: prevotes are counted with the precommits.
HandlePrecommitMixed(s, vote) ==
    LET t == CountPrecommit(s, vote)
    IN  IF /\ Countable(s, vote) /\ vote.hash # ZERO_HASH /\ t.proposal = vote.hash
           /\ QuorumMet(Voters(t.prevotes \cup t.precommits, vote.hash))
        THEN CommitBlock(t, t.proposal)
        ELSE t

\* handle_vote for a precommit
HandlePrecommit(s, vote) ==
    LET t == CountPrecommit(s, vote)
    IN  IF ~Countable(s, vote) THEN s
        ELSE IF /\ vote.hash # ZERO_HASH
                /\ QuorumMet(Voters(t.precommits, vote.hash))
                /\ t.proposal = vote.hash
             THEN CommitBlock(t, t.proposal)
             ELSE t

\* broadcast_vote handles the node's own vote before it sends it.
BroadcastPrecommit(s, hash, self) ==
    LET vote == VoteOf(s, "precommit", hash, self)
    IN  Send(HandlePrecommit(s, vote), vote)

\* handle_vote for a prevote
HandlePrevote(s, vote, self) ==
    LET t == CountPrevote(s, vote)
    IN  IF ~Countable(s, vote) THEN s
        ELSE IF vote.hash # ZERO_HASH /\ QuorumMet(Voters(t.prevotes, vote.hash))
             THEN SetStep(BroadcastPrecommit([t EXCEPT !.locked = vote.hash], vote.hash, self),
                          "Precommit")
             ELSE t

BroadcastPrevote(s, hash, self) ==
    LET vote == VoteOf(s, "prevote", hash, self)
    IN  Send(HandlePrevote(s, vote, self), vote)

\* validate_block: the size limits and the transaction root hold by construction.
ValidBlock(s, block) ==
    block.height = s.height /\ block.round = s.round /\ block.prev = s.chain

\* verify_proposal: signed by the proposer of its round.
VerifiedProposal(p) == p.proposer = ProposerFor(p.height, p.round)

\* Defective HandleProposal: the lock is not consulted.
HandleProposalUnlocked(s, p, self) ==
    IF ~InRound(s, p) \/ ~VerifiedProposal(p) \/ ~ValidBlock(s, p.block) THEN s
    ELSE SetStep(BroadcastPrevote([s EXCEPT !.proposal = p.block], p.block, self), "Prevote")

\* Defective HandleProposal: a proposal that comes after the votes is dropped.
HandleProposalInStep(s, p, self) ==
    IF s.step = "Propose" THEN HandleProposalUnlocked(s, p, self) ELSE s

HandleProposal(s, p, self) ==
    LET t == [s EXCEPT !.proposal = p.block]
        Prevote(u, hash) == SetStep(BroadcastPrevote(u, hash, self), "Prevote")
    IN  IF ~InRound(s, p) \/ ~VerifiedProposal(p) THEN s
        ELSE IF ~ValidBlock(s, p.block) THEN Prevote(s, ZERO_HASH)
        ELSE IF s.locked \notin {None, p.block} THEN Prevote(t, ZERO_HASH)
        ELSE Prevote(t, p.block)

HandleMessage(s, m, self) ==
    CASE m.type = "proposal"  -> HandleProposal(s, m, self)
      [] m.type = "prevote"   -> HandlePrevote(s, m, self)
      [] m.type = "precommit" -> HandlePrecommit(s, m)

\* Defective CanPropose: the step is not looked at.
CanProposeInAnyStep(s, self) ==
    ~s.proposed /\ ProposerFor(s.height, s.round) = self

\* maybe_propose
CanPropose(s, self) ==
    s.step = "Propose" /\ ~s.proposed /\ ProposerFor(s.height, s.round) = self

BuildBlock(s, txs) ==
    [height |-> s.height, round |-> s.round, prev |-> s.chain, txs |-> txs]

MaybePropose(s, txs, self) ==
    LET p == [type |-> "proposal", height |-> s.height, round |-> s.round,
              block |-> BuildBlock(s, txs), proposer |-> self]
        t == [s EXCEPT !.proposed = TRUE, !.proposal = p.block]
    IN  HandleProposal(Send(t, p), p, self)

\* check_timeouts, one case per step
OnProposeTimeout(s, self) ==
    SetStep(IF s.proposal = None THEN BroadcastPrevote(s, ZERO_HASH, self) ELSE s, "Prevote")

OnPrevoteTimeout(s, self) == SetStep(BroadcastPrecommit(s, ZERO_HASH, self), "Precommit")

\* Defective OnPrecommitTimeout: the lock ends with its round.
OnPrecommitTimeoutUnlocks(s) ==
    [FreshRound(s) EXCEPT !.round = @ + 1, !.step = "Propose", !.locked = None]

OnPrecommitTimeout(s) == [FreshRound(s) EXCEPT !.round = @ + 1, !.step = "Propose"]
=============================================================================
