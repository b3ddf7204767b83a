------------------------------ MODULE BftCluster ------------------------------
(***************************************************************************)
(* N nodes of bft/node.rs and the network between them.  Each node's       *)
(* thread runs one handler at a time (Node::run), so a step is one handler *)
(* of one node.  A broadcast message may be delivered at any later time,   *)
(* in any order, or never: Network::broadcast ignores send errors, a       *)
(* message for a peer without a connection is dropped, and a peer can be   *)
(* served by two connections with a thread each.                           *)
(***************************************************************************)
EXTENDS BftNode

CONSTANTS
    Links,       \* the pairs <<from, to>> with a connection that delivers
    Timers,      \* the nodes whose timeouts may expire before their peers' messages
    MaxHeight,   \* bound: no proposal or timeout above this height
    MaxRound     \* bound: the last round of a height

ASSUME ClusterAssumption ==
    /\ Links \subseteq Validators \X Validators
    /\ Timers \subseteq Validators
    /\ MaxHeight \in Nat /\ MaxRound \in Nat

VARIABLE node    \* the state of every node

vars == <<node>>

Init == node = [i \in Validators |-> InitNode]

Step(i, s) == node' = [node EXCEPT ![i] = s]

InBounds(i) == node[i].up /\ node[i].height <= MaxHeight

Propose(i) ==
    /\ InBounds(i)
    /\ CanPropose(node[i], i)
    /\ \E txs \in Payloads : Step(i, MaybePropose(node[i], txs, i))

\* The proposal of a round is kept when it is handled, and so is a vote for a block.
AlreadyHandled(s, m) ==
    CASE m.type = "proposal"  -> s.proposal # None
      [] m.type = "prevote"   -> <<m.hash, m.validator>> \in s.prevotes
      [] m.type = "precommit" -> <<m.hash, m.validator>> \in s.precommits

\* A message of another round changes nothing when it arrives.
Handle(i, m) ==
    /\ node[i].up
    /\ InRound(node[i], m)
    /\ Step(i, HandleMessage(node[i], m, i))

\* Proposals and votes arrive once, but for precommits: a node sends its precommit
\* again with every prevote past the quorum, and each arrival looks for a quorum.
Receive(i) ==
    \E j \in Validators \ {i} :
        /\ <<j, i>> \in Links
        /\ \E m \in node[j].sent :
              (AlreadyHandled(node[i], m) => m.type = "precommit") /\ Handle(i, m)

\* What the network owes: the first arrival.
ReceiveFirst(i) ==
    \E j \in Validators \ {i} :
        /\ <<j, i>> \in Links
        /\ \E m \in node[j].sent : ~AlreadyHandled(node[i], m) /\ Handle(i, m)

\* The loop of Node::run proposes before it looks at the timer, so a proposer
\* that has still to propose does not time out.
ProposeTimeout(i) ==
    /\ InBounds(i)
    /\ i \in Timers /\ node[i].step = "Propose"
    /\ ~CanPropose(node[i], i)
    /\ Step(i, OnProposeTimeout(node[i], i))

PrevoteTimeout(i) ==
    /\ InBounds(i)
    /\ i \in Timers /\ node[i].step = "Prevote"
    /\ Step(i, OnPrevoteTimeout(node[i], i))

PrecommitTimeout(i) ==
    /\ InBounds(i)
    /\ i \in Timers /\ node[i].step = "Precommit"
    /\ node[i].round < MaxRound
    /\ Step(i, OnPrecommitTimeout(node[i]))

NodeStep(i) ==
    \/ Propose(i)
    \/ Receive(i)
    \/ ProposeTimeout(i)
    \/ PrevoteTimeout(i)
    \/ PrecommitTimeout(i)

Next == \E i \in Validators : NodeStep(i)

Spec == Init /\ [][Next]_vars

\* Node::run loops for ever with a sleep of 10 ms: a node that is up and has
\* something to do does it.  That a precommit arrives again is not counted on.
Fairness ==
    \A i \in Validators :
        WF_vars(\/ Propose(i)
                \/ ReceiveFirst(i)
                \/ ProposeTimeout(i)
                \/ PrevoteTimeout(i)
                \/ PrecommitTimeout(i))

FairSpec == Spec /\ Fairness

-----------------------------------------------------------------------------
\* The votes and proposals ever given to the network.
Sent == UNION {node[i].sent : i \in Validators}

\* The validators that broadcast this vote.
Cast(type, height, round, hash) ==
    {v \in Validators : [type |-> type, height |-> height, round |-> round,
                         hash |-> hash, validator |-> v] \in Sent}

\* A quorum of validators broadcast this vote.
Backed(type, height, round, hash) ==
    \E Q \in Quorums : Q \subseteq Cast(type, height, round, hash)

BlocksOf(height, round) ==
    {m.block : m \in {p \in Sent : p.type = "proposal" /\ p.height = height /\ p.round = round}}

NodeState ==
    [up : BOOLEAN, height : Nat, round : Nat, step : Steps, locked : Block \cup {None},
     proposal : Block \cup {None}, proposed : BOOLEAN,
     prevotes : SUBSET (Block \X Validators), precommits : SUBSET (Block \X Validators),
     chain : Seq(Entry), slashing : SlashingState, sent : SUBSET Message]

\* Every field of a node keeps its Rust type; the height is one more than the
\* number of committed blocks (commit_block).
TypeOK ==
    /\ node \in [Validators -> NodeState]
    /\ \A i \in Validators : node[i].height = Len(node[i].chain) + 1

\* No two nodes ever commit different blocks at the same height: the chains
\* that commit_block builds in two nodes are one a prefix of the other.
Agreement ==
    \A i, j \in Validators : \A h \in DOMAIN node[i].chain \cap DOMAIN node[j].chain :
        node[i].chain[h] = node[j].chain[h]

\* A block is committed only when a quorum of validators has precommitted it
\* in the round it was proposed in.  handle_vote counts a node's own precommit,
\* and commits, before broadcast_vote has sent that vote.
CommitHasQuorum ==
    \A i \in Validators : \A h \in DOMAIN node[i].chain :
        \E b \in BlocksOf(h, node[i].chain[h][1]) :
            /\ b.txs = node[i].chain[h][2]
            /\ b.prev = SubSeq(node[i].chain, 1, h - 1)
            /\ Backed("precommit", h, b.round, b)

\* A block that apply_block refuses has passed validate_block and the votes, and
\* ends each process that commits it.  No other block of that height can be
\* committed instead: no node ever gets past the height a node exited at.
HaltHeightIsFinal ==
    \A i, j \in Validators : ~node[i].up => node[j].height <= node[i].height

\* A lock outlives its round, and protects the block it names: once a quorum
\* has prevoted a block, no block of an EARLIER round of that height can gather
\* a quorum of precommits any more, however late the remaining messages are.
Passed(i, height, round) ==
    \/ node[i].height > height
    \/ node[i].height = height /\ node[i].round > round

\* No quorum can ever precommit b in its round: every quorum has a member that
\* left the round without doing so.
CannotCommit(height, round, b) ==
    \A Q \in Quorums : \E v \in Q :
        Passed(v, height, round) /\ v \notin Cast("precommit", height, round, b)

LaterQuorumExcludesEarlier ==
    \A m \in {p \in Sent : p.type = "prevote" /\ p.round > 0 /\ p.hash # ZERO_HASH} :
        Backed("prevote", m.height, m.round, m.hash) =>
            \A r \in 0 .. m.round - 1 : \A b \in BlocksOf(m.height, r) : CannotCommit(m.height, r, b)

(***************************************************************************)
(* The chains of the nodes implement the replicated log: the log is the    *)
(* longest chain.                                                          *)
(***************************************************************************)
LongestChain ==
    LET i == CHOOSE i \in Validators :
                \A j \in Validators : Len(node[j].chain) <= Len(node[i].chain)
    IN  node[i].chain

Log == INSTANCE ReplicatedLog WITH
    Replicas <- Validators, Entries <- (0 .. MaxRound) \X Payloads,
    log <- LongestChain, copy <- [i \in Validators |-> node[i].chain]

\* Whatever the order of messages and timeouts, a step of the cluster extends
\* the one log by a block, lets a node catch up with it by one block, or leaves
\* every chain alone.
ImplementsLog == Log!LogSpec

\* When no timer expires, every connected node commits a block at every height
\* up to the bound: neither the votes that arrive before the proposal they are
\* for, nor the proposal that arrives after a quorum of votes, are lost.
InTimeCommit ==
    <>(\A i \in Validators : (\E j \in Validators : <<j, i>> \in Links) =>
            Len(node[i].chain) >= MaxHeight)

(***************************************************************************)
(* build_block puts the round into every header, so a locked block is      *)
(* never proposed again, and a node locked on a block of a past round      *)
(* prevotes ZERO_HASH until a quorum forms without it.                     *)
(***************************************************************************)
LockedBefore(v, round) == node[v].locked # None /\ node[v].locked.round < round

Stalled(height) ==
    /\ \A i \in Validators : node[i].height = height
    /\ \A Q \in Quorums : \E v \in Q :
          \A i \in Validators : LockedBefore(v, node[i].round)

\* Once every quorum has a member whose lock is older than the round of every
\* node, no node ever commits at that height again: the height stays stalled.
StallIsPermanent == [][\A h \in 1 .. MaxHeight : Stalled(h) => Stalled(h)']_vars

\* Node i drops the votes of some member of every quorum, and has none of that
\* member's votes in its tallies.
JailedOut(i) ==
    \A Q \in Quorums : \E v \in Q :
        /\ IsJailed(node[i].slashing, v, node[i].height)
        /\ \A t \in node[i].prevotes \cup node[i].precommits : t[2] # v

\* Jail is counted in heights.  A node that has jailed a member of every quorum
\* cannot commit, so its height does not move and the jail never ends.
JailedOutIsPermanent == [][\A i \in Validators : JailedOut(i) => JailedOut(i)']_vars

\* A node jails only validators that broadcast two different votes of one type
\* in one round, whichever of the two it saw first.  The exception is a node that
\* has jailed itself and exited in one handler: the vote it was jailed for was
\* handled but never sent.
JailedOnlyForDoubleSign ==
    \A i, v \in Validators :
      (node[i].up \/ v # i) /\ node[i].slashing.jailed[v] # 0 =>
        \E x, y \in {m \in node[v].sent : m.type # "proposal"} :
            /\ x.height = y.height /\ x.round = y.round
            /\ x.type = y.type /\ x.hash # y.hash

\* The proposer is in the round, or past it, in a step in which maybe_propose
\* does nothing, and has not proposed.
Lost(height, round) ==
    LET p == ProposerFor(height, round)
    IN  /\ BlocksOf(height, round) = {}
        /\ \/ Passed(p, height, round)
           \/ node[p].height = height /\ node[p].round = round /\ node[p].step # "Propose"

\* A commit inside handle_proposal or handle_vote resets the step, and the caller
\* then overwrites it: the node starts the next height in Prevote or Precommit.
\* When that node is the proposer of the height, its round is lost for everyone:
\* no proposal of it is ever sent, and no block of it can be committed.
LostRoundStaysLost ==
    [][\A h \in 1 .. MaxHeight : \A r \in 0 .. MaxRound : Lost(h, r) => Lost(h, r)']_vars

-----------------------------------------------------------------------------
\* A validator that runs the code does not double-sign, the offence of
\* docs/staking_and_slashing.md:10: "Same validator signs two votes at identical
\* (height, round, type) with different block hashes."
OneVotePerRound ==
    \A i \in Validators : \A x, y \in {m \in node[i].sent : m.type # "proposal"} :
        (x.height = y.height /\ x.round = y.round /\ x.type = y.type) => x = y
=============================================================================
