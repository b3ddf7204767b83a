------------------------- MODULE BftAgreementProofs -------------------------
(***************************************************************************)
(* Agreement, the locks, the exits and the stalls: the invariant is kept   *)
(* inside every handler, not only between them, because a handler that     *)
(* ends the process stops half way.  Then the chains implement the         *)
(* replicated log.                                                         *)
(***************************************************************************)
EXTENDS BftInvariantProofs

\* The method of every step that names none.
USE ZenonT(40)

\* The votes behind two committed blocks of one height are for one block.
LEMMA CommitsAgree ==
    ASSUME QuorumsIntersect, NEW nd, Inv(nd), NEW h \in Nat, NEW r \in Nat, NEW q \in Nat,
           NEW b \in Block, NEW c \in Block,
           PrecommitQuorum(nd, h, r, b), PrecommitQuorum(nd, h, q, c)
    PROVE  r = q /\ b = c
  <1>0. /\ PrevoteInv(nd) /\ OneProposal(nd)
        /\ PrecommitInv(nd) /\ LaterExcludes(nd)
    BY DEF Inv
  <1>1. ASSUME NEW x \in Nat, NEW d \in Block, PrecommitQuorum(nd, h, x, d)
        PROVE  PrevoteQuorum(nd, h, x, d)
    <2>1. PICK Q \in Quorums : \A v \in Q : Precommitted(nd, v, h, x, d)
      BY <1>1 DEF PrecommitQuorum
    <2>2. PICK v \in Q : TRUE
      BY DEF QuorumsIntersect
    <2>3. v \in Validators
      BY DEF Quorums
    <2> QED BY <1>0, <2>1, <2>2, <2>3 DEF PrecommitInv
  <1>2. ASSUME NEW x \in Nat, NEW y \in Nat, NEW d \in Block, NEW e \in Block, x < y,
               PrecommitQuorum(nd, h, x, d), PrecommitQuorum(nd, h, y, e)
        PROVE  FALSE
    <2>1. Excluded(nd, h, x, d)
      BY <1>0, <1>1, <1>2 DEF LaterExcludes
    <2>2. PICK Q \in Quorums : \A v \in Q : Precommitted(nd, v, h, x, d)
      BY <1>2 DEF PrecommitQuorum
    <2> QED BY <2>1, <2>2 DEF Excluded
  <1>3. r = q
    BY <1>2, SMTT(40)
  <1>4. PrevoteQuorum(nd, h, r, b) /\ PrevoteQuorum(nd, h, r, c)
    BY <1>1, <1>3
  <1> QED BY <1>0, <1>3, <1>4, OneQuorumBlock

\* The invariant, with what each node keeps to by itself.
Full(nd) == Inv(nd) /\ \A j \in Validators : VotesLocked(nd[j], j) /\ Appliable(nd[j])

\* A node fits the cluster it is in.
LEMMA FullFits ==
    ASSUME NEW nd, Full(nd), NEW i \in Validators
    PROVE  Typed(nd) /\ NodeOK(nd[i]) /\ Fits(nd, i, nd[i])
  <1>1. Typed(nd) /\ NodeOK(nd[i])
    BY DEF Full, Inv, Typed
  <1>2. Upd(nd, i, nd[i]) = nd
    BY <1>1, UpdUpd
  <1> QED BY <1>1, <1>2 DEF Full, Fits

\* The cluster in which node i is in a state that fits.
LEMMA FitsFull ==
    ASSUME NEW nd, Full(nd), NEW i \in Validators, NEW s, Fits(nd, i, s)
    PROVE  Full(Upd(nd, i, s))
  <1>1. Typed(nd) /\ NodeOK(s)
    BY DEF Full, Inv, Fits
  <1>2. Upd(nd, i, s)[i] = s /\ \A v \in Validators \ {i} : Upd(nd, i, s)[v] = nd[v]
    BY <1>1, Updated, SMTT(40)
  <1> QED BY <1>2 DEF Full, Fits

\* maybe_propose sends the one proposal of its round.
LEMMA FitsStart ==
    ASSUME NEW nd, Full(nd), NEW i \in Validators, nd[i].up, NEW x, Starts(nd[i], x, i)
    PROVE  Fits(nd, i, x) /\ x.up
  <1> DEFINE s == nd[i]
  <1>0. Typed(nd) /\ NodeOK(s) /\ Fits(nd, i, s)
    BY FullFits
  <1>1. CASE x = s
    BY <1>0, <1>1
  <1>2. CASE CanPropose(s, i) /\ \E p : Opens(s, x, p, i)
    <2>1. PICK p : Opens(s, x, p, i)
      BY <1>2
    <2> DEFINE b == p.block
    <2>2. /\ b \in Block /\ p = PropMsg(s.height, s.round, b)
          /\ b.height = s.height /\ b.round = s.round
          /\ ProposerFor(s.height, s.round) = i /\ ~s.proposed
      BY <1>2, <2>1 DEF Opens, Proposal, PropMsg, ValidBlock, CanPropose
    <2>3. /\ NodeOK(x) /\ x.up /\ x.sent = s.sent \cup {p} /\ x.height = s.height
          /\ x.chain = s.chain /\ x.locked = s.locked /\ x.proposal = b /\ x.proposed = TRUE
          /\ x.round = s.round /\ x.prevotes = s.prevotes /\ x.precommits = s.precommits
      BY <2>1 DEF Opens
    <2> HIDE DEF b, s
    <2>4. Sends(s, x, PropMsg(s.height, s.round, b))
      BY <2>2, <2>3 DEF Sends
    <2>5. Inv(nd)
      BY DEF Full
    <2>6. Inv(Upd(nd, i, x))
      BY <2>2, <2>3, <2>4, <2>5, CastProposal DEF s
    <2>7. \A r, c : c \in Block /\ Msg("prevote", s.height, r, c, i) \in x.sent =>
                       Msg("prevote", s.height, r, c, i) \in s.sent
      <3>1. \A r, c : Msg("prevote", s.height, r, c, i) # p
        BY <2>2 DEF Msg, PropMsg
      <3> QED BY <2>3, <3>1
    <2>8. VotesLocked(x, i) /\ Appliable(x)
      BY <1>0, <2>3, <2>7, SameVotes DEF Fits, Appliable
    <2> QED BY <2>3, <2>6, <2>8 DEF Fits, s
  <1> QED BY <1>0, <1>1, <1>2, StartFields

\* A handler leaves a state that fits, or is the exit of a process that fits as
\* if its last votes had been sent.
LEMMA HandlerFits ==
    ASSUME QuorumsIntersect, NEW nd, Full(nd), NEW i \in Validators, nd[i].up,
           NEW V, \A m \in V : \E j \in Validators : m \in nd[j].sent,
           NEW x, Starts(nd[i], x, i), NEW t, Handled(x, t, V, i)
    PROVE  /\ Fits(nd, i, x) /\ x.up
           /\ \E g : /\ Fits(nd, i, g) /\ (g.up \/ Doomed(Upd(nd, i, g), g))
                     /\ g \in Stays(x, i) \cup Leaves(x, i) /\ Shadow(x, t, g)
  <1>1. Fits(nd, i, x) /\ x.up /\ Typed(nd)
    BY FitsStart, FullFits
  <1> DEFINE P == During(nd, i) \cap Stays(x, i)
             R == After(nd, i) \cap Leaves(x, i)
  <1>2. Passes(P, R, V, i)
    BY <1>1, FitsPass, MovesPass, PassesBoth
  <1>3. x \in P
    BY <1>1 DEF During, Stays, SamePlace, KeepsStep, Speaks, NodeOK, Fits
  <1>4. \A g \in P \cup R : /\ Fits(nd, i, g) /\ (g.up \/ Doomed(Upd(nd, i, g), g))
                            /\ g \in Stays(x, i) \cup Leaves(x, i)
    BY DEF During, After
  <1> HIDE DEF P, R
  <1>5. PICK g \in P \cup R : Shadow(x, t, g)
    BY <1>2, <1>3 DEF Handled, Reaches
  <1> QED BY <1>1, <1>4, <1>5

\* The exit of a process whose last votes were not sent.
LEMMA FitsExit ==
    ASSUME NEW nd, Full(nd), NEW i \in Validators, NEW x, Fits(nd, i, x), x.up,
           NEW g, Fits(nd, i, g), ~g.up, g \in Stays(x, i) \cup Leaves(x, i),
           NEW t, t = [g EXCEPT !.sent = x.sent]
    PROVE  Fits(nd, i, t)
  <1> DEFINE w == Upd(nd, i, x)
             y == Upd(nd, i, g)
  <1>0. Typed(nd) /\ NodeOK(x) /\ NodeOK(g)
    BY DEF Full, Inv, Fits
  <1>1. Inv(w) /\ w[i] = x /\ Upd(w, i, t) = Upd(nd, i, t)
    <2>1. Fitted(nd, i, x, t, w)
      BY <1>0, Fitting
    <2> QED BY <2>1 DEF Fitted
  <1>2. Inv(y) /\ y[i] = g /\ \A v \in Validators \ {i} : y[v] = w[v]
    <2>1. y[i] = g /\ \A v \in Validators \ {i} : y[v] = nd[v]
      BY <1>0, Updated, SMTT(40)
    <2>2. \A v \in Validators \ {i} : w[v] = nd[v]
      BY <1>0, Updated, SMTT(40)
    <2> QED BY <2>1, <2>2 DEF Fits
  <1> HIDE DEF w, y
  <1>3. /\ g.height = x.height /\ g.round = x.round /\ g.chain = x.chain
        /\ g.proposed = x.proposed /\ Speaks(x, g, i)
    BY DEF Stays, Leaves
  <1>4. /\ t \in NodeState /\ ~t.up /\ t.height = g.height /\ t.round = g.round
        /\ t.chain = g.chain /\ t.proposed = g.proposed /\ t.proposal = g.proposal
        /\ t.locked = g.locked /\ t.sent = x.sent
    <2>1. g \in NodeState /\ x.sent \in SUBSET Message
      BY <1>0 DEF NodeOK, NodeState
    <2> QED BY <2>1 DEF NodeState
  <1>5. NodeOK(t)
    BY <1>0, <1>4 DEF NodeOK, ValidBlock
  <1>6. x.height \in Nat /\ x.round \in Nat
    BY <1>0 DEF NodeOK, NodeState
  <1>7. Quiet(i, x, t) /\ Forward(x, t) /\ ChainGrows(w, i, t)
    <2>1. x.round >= x.round
      BY <1>6, SMTT(40)
    <2> QED BY <1>1, <1>3, <1>4, <2>1 DEF Quiet, Forward, ChainGrows
  <1>8. t.proposal # None => Proposed(w, t.height, t.round, t.proposal)
    <2> SUFFICES ASSUME t.proposal # None PROVE Proposed(w, t.height, t.round, t.proposal)
      OBVIOUS
    <2> DEFINE m == PropMsg(t.height, t.round, t.proposal)
               k == ProposerFor(t.height, t.round)
    <2>1. m \in y[k].sent
      BY <1>2, <1>4 DEF Inv, HeldProposal, Proposed
    <2>2. m \notin Vote /\ k \in Validators
      <3>1. m.type = "proposal"
        BY DEF PropMsg
      <3>2. k \in Validators
        BY <1>3, <1>4, <1>6, ProposerType
      <3> QED BY <3>1, <3>2, SMTT(40) DEF Vote
    <2> HIDE DEF m, k
    <2>3. m \in w[k].sent
      BY <1>1, <1>2, <1>3, <2>1, <2>2 DEF Speaks
    <2> QED BY <2>3 DEF Proposed, m, k
  <1>9. Inv(Upd(w, i, t))
    BY <1>1, <1>3, <1>4, <1>5, <1>7, <1>8, SilentInv
  <1>10. VotesLocked(t, i)
    BY <1>3, <1>4 DEF Fits, VotesLocked, Speaks
  <1>11. Appliable(t) /\ nd[i].sent \subseteq t.sent
    BY <1>4 DEF Fits, Appliable
  <1> QED BY <1>1, <1>5, <1>9, <1>10, <1>11 DEF Fits

\* The end of a round.
LEMMA FitsTimeout ==
    ASSUME NEW nd, Full(nd), NEW i \in Validators, nd[i].up, NEW t, t = OnPrecommitTimeout(nd[i])
    PROVE  Fits(nd, i, t) /\ t.up
  <1> DEFINE s == nd[i]
  <1>0. NodeOK(s) /\ Inv(nd) /\ Fits(nd, i, s)
    BY FullFits DEF Full
  <1>1. NodeOK(t)
    BY <1>0, TimeoutType
  <1>2. /\ t.up = s.up /\ t.height = s.height /\ t.round = s.round + 1 /\ t.locked = s.locked
        /\ t.proposal = None /\ t.prevotes = {} /\ t.precommits = {}
        /\ t.sent = s.sent /\ t.chain = s.chain
    BY <1>0 DEF OnPrecommitTimeout, FreshRound, NodeOK, NodeState
  <1>3. s.height \in Nat /\ s.round \in Nat
    BY <1>0 DEF NodeOK, NodeState
  <1> HIDE DEF s
  <1>4. Quiet(i, s, t) /\ Forward(s, t) /\ t.round # s.round
    BY <1>2, <1>3, SMTT(40) DEF Quiet, Forward
  <1>5. ChainGrows(nd, i, t)
    BY <1>2 DEF ChainGrows, s
  <1>6. Inv(Upd(nd, i, t))
    BY <1>0, <1>1, <1>2, <1>4, <1>5, SilentInv DEF s
  <1>7. VotesLocked(t, i) /\ Appliable(t)
    BY <1>0, <1>2 DEF Fits, VotesLocked, Appliable
  <1> QED BY <1>1, <1>2, <1>6, <1>7 DEF Fits, s

-----------------------------------------------------------------------------
\* The invariant holds when all nodes start (Node::new).
LEMMA InvInit ==
    ASSUME QuorumsIntersect, Init
    PROVE  Full(node)
  <1>0. Typed(node)
    BY TypeInit DEF TypeInv, Typed
  <1>1. \A v \in Validators : node[v] = InitNode
    BY DEF Init
  <1>2. \A v \in Validators : /\ node[v].sent = {} /\ node[v].locked = None
                              /\ node[v].proposal = None /\ node[v].chain = <<>>
                              /\ node[v].prevotes = {} /\ node[v].precommits = {}
    BY <1>1, SMTT(40) DEF InitNode
  <1>3. /\ \A v \in Validators, h, r \in Nat, b \in Block :
             ~Prevoted(node, v, h, r, b) /\ ~Precommitted(node, v, h, r, b)
        /\ \A h, r \in Nat, b \in Block : ~Proposed(node, h, r, b)
    BY <1>2, ProposerType DEF Prevoted, Precommitted, Proposed
  <1>4. \A h, r \in Nat, b \in Block : ~PrevoteQuorum(node, h, r, b)
    <2> SUFFICES ASSUME NEW h \in Nat, NEW r \in Nat, NEW b \in Block,
                        PrevoteQuorum(node, h, r, b)
                 PROVE  FALSE
      OBVIOUS
    <2>1. PICK Q \in Quorums : \A v \in Q : Prevoted(node, v, h, r, b)
      BY DEF PrevoteQuorum
    <2>2. PICK v \in Q : TRUE
      BY DEF QuorumsIntersect
    <2> QED BY <1>3, <2>1, <2>2 DEF Quorums
  <1>5. \A v \in Validators : node[v].height \in Nat /\ node[v].round \in Nat
    BY <1>0, PositionTypes
  <1>6. OwnMessages(node) /\ TallyInv(node) /\ HeldProposal(node) /\ ChainInv(node)
    BY <1>2, SMTT(40) DEF OwnMessages, TallyInv, HeldProposal, ChainInv
  <1>7. PrevoteInv(node) /\ PrecommitInv(node) /\ ProposalInv(node) /\ OneProposal(node)
    BY <1>3 DEF PrevoteInv, PrecommitInv, ProposalInv, OneProposal
  <1>8. LockInv(node) /\ LockLatest(node) /\ VoteAfterLock(node) /\ LaterExcludes(node)
    BY <1>2, <1>3, <1>4, <1>5 DEF LockInv, LockLatest, VoteAfterLock, LaterExcludes
  <1>9. \A v \in Validators : VotesLocked(node[v], v) /\ Appliable(node[v])
    <2>1. Len(<<>>) = 0
      BY SMTT(40)
    <2> QED BY <1>2, <2>1, SMTT(40) DEF VotesLocked, Appliable
  <1> QED BY <1>0, <1>6, <1>7, <1>8, <1>9 DEF Inv, Full

\* Every step of the cluster keeps the invariant.
LEMMA FullStep ==
    ASSUME QuorumsIntersect, Full(node), NEW i \in Validators, NodeStep(i)
    PROVE  \E t : node' = Upd(node, i, t) /\ Fits(node, i, t)
  <1>0. TypeInv /\ \A m \in Sent : \E j \in Validators : m \in node[j].sent
    BY DEF Full, Inv, Typed, TypeInv, Sent
  <1>1. PICK t : /\ node' = [node EXCEPT ![i] = t] /\ node[i].up
                 /\ \/ \E x : Starts(node[i], x, i) /\ Handled(x, t, Sent, i)
                    \/ t = OnPrecommitTimeout(node[i])
    BY <1>0, StepRule
  <1>2. ASSUME NEW x, Starts(node[i], x, i), Handled(x, t, Sent, i)
        PROVE  Fits(node, i, t)
    <2>1. /\ Fits(node, i, x) /\ x.up
          /\ \E g : /\ Fits(node, i, g)
                    /\ g \in Stays(x, i) \cup Leaves(x, i) /\ Shadow(x, t, g)
      BY <1>0, <1>1, <1>2, HandlerFits
    <2>2. PICK g : /\ Fits(node, i, g)
                   /\ g \in Stays(x, i) \cup Leaves(x, i) /\ Shadow(x, t, g)
      BY <2>1
    <2> QED BY <2>1, <2>2, FitsExit DEF Shadow
  <1>3. ASSUME t = OnPrecommitTimeout(node[i])
        PROVE  Fits(node, i, t)
    BY <1>1, <1>3, FitsTimeout
  <1> QED BY <1>1, <1>2, <1>3 DEF Upd

\* The invariant is inductive.
LEMMA FullNext ==
    ASSUME QuorumsIntersect, Full(node), [Next]_vars
    PROVE  Full(node')
  <1>1. CASE Next
    <2>1. PICK i \in Validators : NodeStep(i)
      BY <1>1 DEF Next
    <2>2. PICK t : node' = Upd(node, i, t) /\ Fits(node, i, t)
      BY <2>1, FullStep
    <2>3. Full(Upd(node, i, t))
      BY <2>2, FitsFull
    <2> QED BY <2>2, <2>3
  <1>2. CASE UNCHANGED vars
    <2>1. node' = node
      BY <1>2 DEF vars
    <2> QED BY <2>1
  <1> QED BY <1>1, <1>2

-----------------------------------------------------------------------------
\* nd is the cluster, but for the last votes of processes that have exited: in nd
\* they have been sent.
Mirrors(nd) ==
    \A j \in Validators :
        /\ node[j].sent \subseteq nd[j].sent /\ node[j].up = nd[j].up
        /\ node[j].height = nd[j].height /\ node[j].chain = nd[j].chain
        /\ nd[j].up => node[j] = nd[j]

\* A process exits only over a block that a quorum has precommitted.
Ends(nd) == \A j \in Validators : ~nd[j].up => Doomed(nd, nd[j])

\* The nodes look like a cluster in which every process sent its last votes.
GhostInv == \E nd : Full(nd) /\ Ends(nd) /\ Mirrors(nd)

\* The end of a process stays justified when another node, or that process, sends.
LEMMA EndsStep ==
    ASSUME NEW nd, Typed(nd), Ends(nd), NEW i \in Validators, nd[i].up, NEW g, NodeOK(g),
           nd[i].sent \subseteq g.sent, NEW w, w = Upd(nd, i, g), g.up \/ Doomed(w, g)
    PROVE  Ends(w)
  <1>1. w[i] = g /\ \A v \in Validators \ {i} : w[v] = nd[v]
    BY Updated, SMTT(40)
  <1> SUFFICES ASSUME NEW j \in Validators, ~w[j].up PROVE Doomed(w, w[j])
    BY DEF Ends
  <1>2. CASE j = i
    BY <1>1, <1>2
  <1>3. CASE j # i
    <2>1. w[j] = nd[j]
      BY <1>1, <1>3
    <2>2. PICK b \in Block : /\ b.txs \in Unappliable
                             /\ PrecommitQuorum(nd, nd[j].height, nd[j].round, b)
      BY <2>1 DEF Ends, Doomed
    <2>3. PICK Q \in Quorums : \A v \in Q : Precommitted(nd, v, nd[j].height, nd[j].round, b)
      BY <2>2 DEF PrecommitQuorum
    <2>4. \A v \in Q : nd[v].sent \subseteq w[v].sent
      BY <1>1, QuorumMembers
    <2>5. \A v \in Q : Precommitted(w, v, nd[j].height, nd[j].round, b)
      BY <2>3, <2>4 DEF Precommitted
    <2> QED BY <2>1, <2>2, <2>5 DEF PrecommitQuorum, Doomed
  <1> QED BY <1>2, <1>3

\* The mirror of the cluster takes the step of the cluster, sending first.
LEMMA GhostStep ==
    ASSUME QuorumsIntersect, Full(node), NEW nd, Full(nd), Ends(nd), Mirrors(nd),
           NEW i \in Validators, NodeStep(i)
    PROVE  GhostInv'
  <1>0. TypeInv /\ Typed(nd)
    BY DEF Full, Inv, Typed, TypeInv
  <1>1. PICK t : /\ node' = [node EXCEPT ![i] = t] /\ node[i].up
                 /\ \/ \E x : Starts(node[i], x, i) /\ Handled(x, t, Sent, i)
                    \/ t = OnPrecommitTimeout(node[i])
    BY <1>0, StepRule
  <1>2. node[i] = nd[i] /\ nd[i].up
    BY <1>1 DEF Mirrors
  <1>3. \A m \in Sent : \E j \in Validators : m \in nd[j].sent
    BY DEF Sent, Mirrors
  <1>4. \E g : /\ Fits(nd, i, g) /\ (g.up \/ Doomed(Upd(nd, i, g), g))
               /\ t.sent \subseteq g.sent /\ t.up = g.up /\ t.height = g.height
               /\ t.chain = g.chain /\ (g.up => t = g)
    <2>1. ASSUME NEW x, Starts(nd[i], x, i), Handled(x, t, Sent, i)
          PROVE  \E g : /\ Fits(nd, i, g) /\ (g.up \/ Doomed(Upd(nd, i, g), g))
                        /\ t.sent \subseteq g.sent /\ t.up = g.up /\ t.height = g.height
                        /\ t.chain = g.chain /\ (g.up => t = g)
      <3>1. PICK g : /\ Fits(nd, i, g) /\ (g.up \/ Doomed(Upd(nd, i, g), g))
                     /\ g \in Stays(x, i) \cup Leaves(x, i) /\ Shadow(x, t, g)
        BY <1>2, <1>3, <2>1, HandlerFits
      <3>2. g \in NodeState /\ x.sent \subseteq g.sent
        BY <3>1 DEF Stays, Leaves, Speaks
      <3>3. CASE t = g
        BY <3>1, <3>3
      <3>4. CASE ~g.up /\ t = [g EXCEPT !.sent = x.sent]
        <4>1. t.sent = x.sent /\ t.up = g.up /\ t.height = g.height /\ t.chain = g.chain
          BY <3>2, <3>4 DEF NodeState
        <4> QED BY <3>1, <3>2, <3>4, <4>1
      <3> QED BY <3>1, <3>3, <3>4 DEF Shadow
    <2>2. ASSUME t = OnPrecommitTimeout(nd[i])
          PROVE  Fits(nd, i, t) /\ t.up
      BY <1>2, <2>2, FitsTimeout
    <2> QED BY <1>1, <1>2, <2>1, <2>2
  <1>5. PICK g : /\ Fits(nd, i, g) /\ (g.up \/ Doomed(Upd(nd, i, g), g))
                 /\ t.sent \subseteq g.sent /\ t.up = g.up /\ t.height = g.height
                 /\ t.chain = g.chain /\ (g.up => t = g)
    BY <1>4
  <1> DEFINE w == Upd(nd, i, g)
  <1>6. Full(w)
    BY <1>5, FitsFull
  <1>7. NodeOK(g) /\ nd[i].sent \subseteq g.sent
    BY <1>5 DEF Fits
  <1>8. Ends(w)
    BY <1>0, <1>2, <1>5, <1>7, EndsStep, SMTT(40)
  <1>9. w[i] = g /\ \A v \in Validators \ {i} : w[v] = nd[v]
    BY <1>0, <1>7, Updated, SMTT(40)
  <1>10. node'[i] = t /\ \A v \in Validators \ {i} : node'[v] = node[v]
    BY <1>0, <1>1 DEF TypeInv
  <1> HIDE DEF w
  <1>11. Mirrors(w)'
    <2> SUFFICES ASSUME NEW j \in Validators
                 PROVE  /\ node'[j].sent \subseteq w[j].sent /\ node'[j].up = w[j].up
                        /\ node'[j].height = w[j].height /\ node'[j].chain = w[j].chain
                        /\ w[j].up => node'[j] = w[j]
      BY DEF Mirrors
    <2>1. CASE j = i
      BY <1>5, <1>9, <1>10, <2>1
    <2>2. CASE j # i
      BY <1>9, <1>10, <2>2 DEF Mirrors
    <2> QED BY <2>1, <2>2
  <1> QED BY <1>6, <1>8, <1>11 DEF GhostInv

-----------------------------------------------------------------------------
\* The height of a node is one above its chain.
Above(s) ==
    /\ s.height \in Nat /\ s.round \in Nat
    /\ s.height = Len(s.chain) + 1 /\ Len(s.chain) \in Nat

\* A well-formed node is one above its chain.
LEMMA NodeAbove ==
    ASSUME NEW s, NodeOK(s)
    PROVE  Above(s)
  BY SMTT(40) DEF NodeOK, NodeState, Above

\* A number that is not above another is at most the other.
LEMMA NotAbove ==
    ASSUME NEW a \in Nat, NEW b \in Nat, ~(a > b)
    PROVE  a <= b
  BY SMTT(40)

\* The chain of a node is below a block that ended another process.
LEMMA EndIsFinal ==
    ASSUME QuorumsIntersect, NEW nd, Full(nd), Ends(nd),
           NEW i \in Validators, NEW j \in Validators, ~nd[i].up
    PROVE  nd[j].height <= nd[i].height
  <1> DEFINE h == nd[i].height
             c == nd[j].chain
  <1>0. /\ h \in Nat /\ nd[i].round \in Nat /\ nd[j].height \in Nat
        /\ nd[i].height = Len(nd[i].chain) + 1 /\ nd[j].height = Len(c) + 1
        /\ Len(nd[i].chain) \in Nat /\ Len(c) \in Nat
    <2>1. NodeOK(nd[i]) /\ NodeOK(nd[j])
      BY DEF Full, Inv, Typed
    <2>2. Above(nd[i]) /\ Above(nd[j])
      BY <2>1, NodeAbove
    <2> QED BY <2>2 DEF Above
  <1> SUFFICES ASSUME nd[j].height > h PROVE FALSE
    BY <1>0, NotAbove
  <1>1. h \in 1 .. Len(c)
    BY <1>0, SMTT(40)
  <1>2. PICK b \in Block : b.txs \in Unappliable /\ PrecommitQuorum(nd, h, nd[i].round, b)
    BY DEF Ends, Doomed
  <1>3. PICK q \in Nat, d \in Block : c[h] = <<q, d.txs>> /\ PrecommitQuorum(nd, h, q, d)
    BY <1>1 DEF Full, Inv, ChainInv
  <1>4. b = d
    BY <1>0, <1>2, <1>3, CommitsAgree DEF Full
  <1>5. c[h][2] \notin Unappliable
    BY <1>1 DEF Full, Appliable
  <1>6. c[h][2] = d.txs
    BY <1>3, SMTT(40)
  <1> QED BY <1>2, <1>4, <1>5, <1>6

\* No node ever gets past the height at which a block that apply_block refuses
\* has ended a process, as long as any two quorums share a validator.
THEOREM HaltTheorem ==
    ASSUME QuorumsIntersect
    PROVE  Spec => []HaltHeightIsFinal
  <1>1. Init => Full(node) /\ GhostInv
    <2> SUFFICES ASSUME Init PROVE Full(node) /\ GhostInv
      BY SMTT(40)
    <2>1. Full(node)
      BY InvInit
    <2>2. \A j \in Validators : node[j].up
      BY SMTT(40) DEF Init, InitNode
    <2>3. Ends(node)
      BY <2>2 DEF Ends
    <2>4. Mirrors(node)
      BY DEF Mirrors
    <2> QED BY <2>1, <2>3, <2>4 DEF GhostInv
  <1>2. Full(node) /\ GhostInv /\ [Next]_vars => (Full(node) /\ GhostInv)'
    <2> SUFFICES ASSUME Full(node), GhostInv, [Next]_vars PROVE Full(node') /\ GhostInv'
      OBVIOUS
    <2>1. Full(node')
      BY FullNext
    <2>2. PICK nd : Full(nd) /\ Ends(nd) /\ Mirrors(nd)
      BY DEF GhostInv
    <2>3. CASE Next
      BY <2>1, <2>2, <2>3, GhostStep DEF Next
    <2>4. CASE UNCHANGED vars
      <3>1. node' = node
        BY <2>4 DEF vars
      <3> QED BY <2>1, <2>2, <3>1 DEF GhostInv, Mirrors
    <2> QED BY <2>3, <2>4
  <1>3. GhostInv => HaltHeightIsFinal
    <2> SUFFICES ASSUME GhostInv, NEW i \in Validators, NEW j \in Validators, ~node[i].up
                 PROVE  node[j].height <= node[i].height
      BY DEF HaltHeightIsFinal
    <2>1. PICK nd : Full(nd) /\ Ends(nd) /\ Mirrors(nd)
      BY DEF GhostInv
    <2>2. /\ ~nd[i].up /\ node[i].height = nd[i].height /\ node[j].height = nd[j].height
      BY <2>1 DEF Mirrors
    <2>3. nd[j].height <= nd[i].height
      BY <2>1, <2>2, EndIsFinal
    <2> QED BY <2>2, <2>3
  <1> QED BY <1>1, <1>2, <1>3, PTL DEF Spec

-----------------------------------------------------------------------------
\* Every quorum has a member whose lock is of a round before r.
Blocked(nd, h, r) ==
    \A Q \in Quorums : \E v \in Q :
        nd[v].height = h /\ nd[v].locked # None /\ nd[v].locked.round < r

\* No block gathers a quorum in a round after the locks.
LEMMA BlockedQuorums ==
    ASSUME QuorumsIntersect, NEW nd, Full(nd), NEW h \in Nat, NEW r \in Nat, Blocked(nd, h, r),
           NEW b \in Block
    PROVE  ~PrevoteQuorum(nd, h, r, b) /\ ~PrecommitQuorum(nd, h, r, b)
  <1>1. ASSUME PrevoteQuorum(nd, h, r, b) PROVE FALSE
    <2>1. PICK Q \in Quorums : \A v \in Q : Prevoted(nd, v, h, r, b)
      BY <1>1 DEF PrevoteQuorum
    <2>2. PICK v \in Q : nd[v].height = h /\ nd[v].locked # None /\ nd[v].locked.round < r
      BY DEF Blocked
    <2>3. v \in Validators
      BY QuorumMembers
    <2>4. VotesLocked(nd[v], v) /\ nd[v].locked \in Block
      BY <2>2, <2>3 DEF Full, Inv, Typed, NodeState
    <2>5. r <= nd[v].locked.round
      BY <2>1, <2>2, <2>4 DEF VotesLocked, Prevoted
    <2>6. nd[v].locked.round \in Nat
      BY <2>4 DEF Block
    <2> QED BY <2>2, <2>5, <2>6, SMTT(40)
  <1>2. ASSUME PrecommitQuorum(nd, h, r, b) PROVE FALSE
    <2>1. PICK Q \in Quorums : \A v \in Q : Precommitted(nd, v, h, r, b)
      BY <1>2 DEF PrecommitQuorum
    <2>2. PICK v \in Q : TRUE
      BY DEF QuorumsIntersect
    <2>3. v \in Validators
      BY QuorumMembers
    <2>4. PrevoteQuorum(nd, h, r, b)
      BY <2>1, <2>2, <2>3 DEF Full, Inv, PrecommitInv
    <2> QED BY <1>1, <2>4
  <1> QED BY <1>1, <1>2

\* The states of node i in its round, with its lock.
Stuck(nd, i) ==
    {s \in During(nd, i) :
        s.height = nd[i].height /\ s.round = nd[i].round /\ s.locked = nd[i].locked}

\* A node in a round after the locks neither locks nor commits.
LEMMA StuckPass ==
    ASSUME QuorumsIntersect, NEW nd, Full(nd), NEW i \in Validators, nd[i].up,
           NEW V, \A m \in V : \E j \in Validators : m \in nd[j].sent,
           Blocked(nd, nd[i].height, nd[i].round)
    PROVE  Passes(Stuck(nd, i), {}, V, i)
  <1> DEFINE P == During(nd, i)
             S == Stuck(nd, i)
  <1>0. Typed(nd) /\ NodeOK(nd[i]) /\ nd[i].height \in Nat /\ nd[i].round \in Nat
    BY FullFits DEF NodeOK, NodeState
  <1>1. Passes(P, After(nd, i), V, i)
    BY <1>0, FitsPass
  <1>2. \A s : s \in S <=> s \in P /\ s.height = nd[i].height /\ s.round = nd[i].round
                                   /\ s.locked = nd[i].locked
    BY DEF Stuck
  <1>3. \A s \in P : NodeOK(s) /\ s.up /\ Fits(nd, i, s)
    BY DEF During, Fits
  <1>4. ASSUME NEW s \in S, NEW b \in Block
        PROVE  ~QuorumMet(Voters(s.prevotes, b)) /\ ~QuorumMet(Voters(s.precommits, b))
    <2> DEFINE w == Upd(nd, i, s)
    <2>1. Fits(nd, i, s) /\ NodeOK(s) /\ s.up
      BY <1>2, <1>3, <1>4
    <2>2. Full(w)
      BY <2>1, FitsFull
    <2>3. w[i] = s /\ \A v \in Validators \ {i} : w[v] = nd[v]
      BY <1>0, <2>1, Updated, SMTT(40)
    <2> HIDE DEF w
    <2>4. \A v \in Validators : w[v].height = nd[v].height /\ w[v].locked = nd[v].locked
      BY <1>2, <1>4, <2>3
    <2>5. Blocked(w, nd[i].height, nd[i].round)
      <3> SUFFICES ASSUME NEW Q \in Quorums
                   PROVE  \E v \in Q : /\ w[v].height = nd[i].height /\ w[v].locked # None
                                       /\ w[v].locked.round < nd[i].round
        BY DEF Blocked
      <3>1. PICK v \in Q : /\ nd[v].height = nd[i].height /\ nd[v].locked # None
                           /\ nd[v].locked.round < nd[i].round
        BY DEF Blocked
      <3>2. v \in Validators
        BY QuorumMembers
      <3>3. w[v].height = nd[v].height /\ w[v].locked = nd[v].locked
        BY <2>4, <3>2
      <3> QED BY <3>1, <3>3
    <2>6. /\ ~PrevoteQuorum(w, nd[i].height, nd[i].round, b)
          /\ ~PrecommitQuorum(w, nd[i].height, nd[i].round, b)
      BY <1>0, <2>2, <2>5, BlockedQuorums
    <2>7. s.height = nd[i].height /\ s.round = nd[i].round
      BY <1>2, <1>4
    <2> QED BY <2>1, <2>2, <2>3, <2>6, <2>7, TallyQuorum DEF Full
  <1> HIDE DEF P, S
  <1>5. PassesTypes(S, {})
    BY <1>2, <1>3 DEF PassesTypes
  <1>6. PassesCount(S, V)
    <2> SUFFICES ASSUME NEW s \in S, NEW vote \in Vote, vote \in V \cup s.sent,
                        Countable(s, vote),
                        NEW t, \/ vote.type = "prevote" /\ t = CountPrevote(s, vote)
                               \/ vote.type = "precommit" /\ t = CountPrecommit(s, vote)
                 PROVE  t \in S
      BY DEF PassesCount
    <2>1. s \in P
      BY <1>2
    <2>2. t \in P
      BY <1>1, <2>1 DEF Passes, PassesCount
    <2>3. NodeOK(s)
      BY <1>3, <2>1
    <2>4. SamePlace(s, t) /\ t.locked = s.locked
      BY <2>3, CountFields, SMTT(40)
    <2> QED BY <1>2, <2>2, <2>4 DEF SamePlace
  <1>7. PassesLock(S, i)
    BY <1>4 DEF PassesLock
  <1>8. PassesCommit(S, {})
    BY <1>4 DEF PassesCommit
  <1>9. ASSUME NEW s \in S, NEW m \in Message, NEW t, t = Sending(s, m), t \in P
        PROVE  t \in S
    <2>1. NodeOK(s)
      BY <1>2, <1>3, <1>9
    <2>2. SamePlace(s, t) /\ t.locked = s.locked
      BY <1>9, <2>1, SendFields, SMTT(40)
    <2> QED BY <1>2, <1>9, <2>2 DEF SamePlace
  <1>10. \A s \in S : \A type \in {"prevote", "precommit"} : \A b \in Hash :
            VoteOf(s, type, b, i) \in Message
    BY <1>2, <1>3, VoteOfType DEF Message
  <1>11. PassesPrevote(S, i)
    <2> SUFFICES ASSUME NEW s \in S, NEW b \in Block, s.proposal = b, s.locked \in {None, b}
                 PROVE  Sending(s, VoteOf(s, "prevote", b, i)) \in S
      BY DEF PassesPrevote
    <2>1. Sending(s, VoteOf(s, "prevote", b, i)) \in P
      BY <1>1, <1>2 DEF Passes, PassesPrevote
    <2> QED BY <1>9, <1>10, <2>1 DEF Hash
  <1>12. PassesZero(S, i)
    <2> SUFFICES ASSUME NEW s \in S, NEW type \in {"prevote", "precommit"}
                 PROVE  Sending(s, VoteOf(s, type, ZERO_HASH, i)) \in S
      BY DEF PassesZero
    <2>1. Sending(s, VoteOf(s, type, ZERO_HASH, i)) \in P
      BY <1>1, <1>2 DEF Passes, PassesZero
    <2> QED BY <1>9, <1>10, <2>1 DEF Hash
  <1>13. PassesStep(S, {})
    <2> SUFFICES ASSUME NEW step \in VoteSteps, NEW s \in S, NEW t, t = SetStep(s, step)
                 PROVE  t \in S
      BY DEF PassesStep
    <2>1. s \in P /\ NodeOK(s)
      BY <1>2, <1>3
    <2>2. t \in P
      BY <1>1, <2>1 DEF Passes, PassesStep
    <2>3. SamePlace(s, t) /\ t.locked = s.locked
      BY <2>1, StepFields, SMTT(40)
    <2> QED BY <1>2, <2>2, <2>3 DEF SamePlace
  <1>14. PassesProposal(S, V)
    <2> SUFFICES ASSUME NEW s \in S, NEW p \in Proposal, p \in V \cup s.sent, InRound(s, p),
                        VerifiedProposal(p), ValidBlock(s, p.block),
                        NEW t, t = [s EXCEPT !.proposal = p.block]
                 PROVE  t \in S
      BY DEF PassesProposal
    <2>1. s \in P /\ NodeOK(s) /\ p.block \in Block
      BY <1>2, <1>3 DEF Proposal
    <2>2. t \in P
      BY <1>1, <2>1 DEF Passes, PassesProposal
    <2>3. SamePlace(s, t) /\ t.locked = s.locked
      BY <2>1, TakeFields, SMTT(40)
    <2> QED BY <1>2, <2>2, <2>3 DEF SamePlace
  <1> QED BY <1>5, <1>6, <1>7, <1>8, <1>11, <1>12, <1>13, <1>14 DEF Passes, S

\* One step of a stalled cluster: the height, the lock, and no earlier round.
LEMMA StallStep ==
    ASSUME QuorumsIntersect, Full(node), NEW h, Stalled(h), NEW i \in Validators, NodeStep(i)
    PROVE  \E t : /\ node' = [node EXCEPT ![i] = t]
                  /\ t.height = node[i].height /\ t.locked = node[i].locked
                  /\ t.round \in {node[i].round, node[i].round + 1}
  <1> DEFINE s == node[i]
  <1>0. /\ TypeInv /\ NodeOK(s) /\ Fits(node, i, s)
        /\ \A m \in Sent : \E j \in Validators : m \in node[j].sent
    BY FullFits DEF Full, Inv, Typed, TypeInv, Sent
  <1>1. PICK t : /\ node' = [node EXCEPT ![i] = t] /\ s.up
                 /\ \/ \E x : Starts(s, x, i) /\ Handled(x, t, Sent, i)
                    \/ t = OnPrecommitTimeout(s)
    BY <1>0, StepRule
  <1>2. Blocked(node, s.height, s.round)
    BY QuorumMembers DEF Blocked, Stalled, LockedBefore
  <1>3. ASSUME NEW x, Starts(s, x, i), Handled(x, t, Sent, i)
        PROVE  t.height = s.height /\ t.locked = s.locked /\ t.round = s.round
    <2>1. Fits(node, i, x) /\ x.up
      BY <1>1, <1>3, FitsStart
    <2>2. x = s \/ \E p : Opens(s, x, p, i)
      BY <1>0, <1>1, <1>3, StartFields
    <2>3. x.height = s.height /\ x.round = s.round /\ x.locked = s.locked
      BY <2>2 DEF Opens
    <2>4. x \in Stuck(node, i)
      BY <2>1, <2>3 DEF Stuck, During, Fits, NodeOK
    <2>5. PICK g \in Stuck(node, i) \cup {} : Shadow(x, t, g)
      BY <1>0, <1>1, <1>2, <1>3, <2>4, StuckPass DEF Handled, Reaches
    <2>6. /\ g.up /\ g.height = s.height /\ g.round = s.round /\ g.locked = s.locked
      BY <2>5 DEF Stuck, During
    <2> QED BY <2>5, <2>6 DEF Shadow
  <1>4. ASSUME t = OnPrecommitTimeout(s)
        PROVE  t.height = s.height /\ t.locked = s.locked /\ t.round = s.round + 1
    BY <1>0, <1>4 DEF OnPrecommitTimeout, FreshRound, NodeOK, NodeState
  <1> QED BY <1>1, <1>3, <1>4

\* A stalled height stays stalled, as long as any two quorums share a validator.
THEOREM StallTheorem ==
    ASSUME QuorumsIntersect
    PROVE  Spec => StallIsPermanent
  <1>1. Init => Full(node)
    BY InvInit
  <1>2. Full(node) /\ [Next]_vars => Full(node)'
    BY FullNext
  <1>3. ASSUME Full(node), NEW h, Stalled(h), NEW i \in Validators, NodeStep(i)
        PROVE  Stalled(h)'
    <2>0. Typed(node) /\ TypeInv
      BY <1>3 DEF Full, Inv, Typed, TypeInv
    <2>1. PICK t : /\ node' = [node EXCEPT ![i] = t]
                   /\ t.height = node[i].height /\ t.locked = node[i].locked
                   /\ t.round \in {node[i].round, node[i].round + 1}
      BY <1>3, StallStep
    <2>2. node'[i] = t /\ \A v \in Validators \ {i} : node'[v] = node[v]
      BY <2>0, <2>1 DEF TypeInv
    <2>3. \A v \in Validators : /\ node'[v].height = node[v].height
                                /\ node'[v].locked = node[v].locked
                                /\ node'[v].round \in {node[v].round, node[v].round + 1}
      BY <2>1, <2>2
    <2>4. \A v \in Validators : node[v].round \in Nat
      BY <2>0, PositionTypes
    <2>5. ASSUME NEW v \in Validators, NEW j \in Validators, LockedBefore(v, node[j].round)
          PROVE  node'[v].locked # None /\ node'[v].locked.round < node'[j].round
      <3>1. node[v].locked # None /\ node[v].locked.round < node[j].round
        BY <2>5 DEF LockedBefore
      <3>2. node[v].locked.round \in Nat
        BY <2>0, <3>1 DEF TypeInv, NodeState, Block
      <3> QED BY <2>3, <2>4, <3>1, <3>2, SMTT(40)
    <2>6. \A v \in Validators : node'[v].height = h
      BY <1>3, <2>3 DEF Stalled
    <2>7. \A Q \in Quorums : \E v \in Q : \A j \in Validators :
              node'[v].locked # None /\ node'[v].locked.round < node'[j].round
      BY <1>3, <2>5, QuorumMembers DEF Stalled
    <2> QED BY <2>6, <2>7 DEF Stalled, LockedBefore
  <1>4. Full(node) /\ [Next]_vars
            => [\A h \in 1 .. MaxHeight : Stalled(h) => Stalled(h)']_vars
    BY <1>3 DEF Next
  <1> QED BY <1>1, <1>2, <1>4, PTL DEF Spec, StallIsPermanent

-----------------------------------------------------------------------------
\* No two nodes ever commit different blocks at one height, whatever the order
\* of messages and timeouts, as long as any two quorums share a validator.
THEOREM AgreementTheorem ==
    ASSUME QuorumsIntersect
    PROVE  Spec => []Agreement
  <1>1. Init => Full(node)
    BY InvInit
  <1>2. Full(node) /\ [Next]_vars => Full(node)'
    BY FullNext
  <1>3. Full(node) => Agreement
    <2> SUFFICES ASSUME Full(node), NEW i \in Validators, NEW j \in Validators,
                        NEW h \in DOMAIN node[i].chain \cap DOMAIN node[j].chain
                 PROVE  node[i].chain[h] = node[j].chain[h]
      BY DEF Agreement
    <2>0. node[i].chain \in Seq(Entry) /\ node[j].chain \in Seq(Entry)
      BY DEF Full, Inv, Typed, NodeState
    <2>1. h \in 1 .. Len(node[i].chain) /\ h \in 1 .. Len(node[j].chain) /\ h \in Nat
      BY <2>0, SMTT(40)
    <2>2. PICK r \in Nat, b \in Block :
             node[i].chain[h] = <<r, b.txs>> /\ PrecommitQuorum(node, h, r, b)
      BY <2>1 DEF Full, Inv, ChainInv
    <2>3. PICK q \in Nat, c \in Block :
             node[j].chain[h] = <<q, c.txs>> /\ PrecommitQuorum(node, h, q, c)
      BY <2>1 DEF Full, Inv, ChainInv
    <2>4. r = q /\ b = c
      BY <2>1, <2>2, <2>3, CommitsAgree DEF Full
    <2> QED BY <2>2, <2>3, <2>4
  <1> QED BY <1>1, <1>2, <1>3, PTL DEF Spec

-----------------------------------------------------------------------------
\* The votes on the network are the ones the nodes have in their logs.
LEMMA CastVotes ==
    ASSUME Full(node), NEW h, NEW r, NEW b, NEW v \in Validators
    PROVE  /\ v \in Cast("prevote", h, r, b) <=> Prevoted(node, v, h, r, b)
           /\ v \in Cast("precommit", h, r, b) <=> Precommitted(node, v, h, r, b)
  <1>1. ASSUME NEW type \in {"prevote", "precommit"}
        PROVE  v \in Cast(type, h, r, b) <=> Msg(type, h, r, b, v) \in node[v].sent
    <2> DEFINE m == Msg(type, h, r, b, v)
    <2>1. m.type # "proposal" /\ m.validator = v
      BY DEF Msg
    <2>2. v \in Cast(type, h, r, b) <=> m \in Sent
      BY DEF Cast, Msg
    <2> HIDE DEF m
    <2>3. m \in Sent <=> \E j \in Validators : m \in node[j].sent
      BY DEF Sent
    <2>4. \A j \in Validators : m \in node[j].sent => j = v
      BY <2>1 DEF Full, Inv, OwnMessages
    <2> QED BY <2>2, <2>3, <2>4 DEF m
  <1> QED BY <1>1 DEF Prevoted, Precommitted

\* A quorum on the network is a quorum in the logs of the nodes.
LEMMA BackedVotes ==
    ASSUME Full(node), NEW h, NEW r, NEW b
    PROVE  /\ Backed("prevote", h, r, b) <=> PrevoteQuorum(node, h, r, b)
           /\ Backed("precommit", h, r, b) <=> PrecommitQuorum(node, h, r, b)
  <1>1. \A Q \in Quorums : \A v \in Q : v \in Validators
    BY DEF Quorums
  <1>2. \A Q \in Quorums : Q \subseteq Cast("prevote", h, r, b) <=>
                              \A v \in Q : Prevoted(node, v, h, r, b)
    BY <1>1, CastVotes
  <1>3. \A Q \in Quorums : Q \subseteq Cast("precommit", h, r, b) <=>
                              \A v \in Q : Precommitted(node, v, h, r, b)
    BY <1>1, CastVotes
  <1> QED BY <1>2, <1>3 DEF Backed, PrevoteQuorum, PrecommitQuorum

\* A block is in a chain only if it was proposed at its height and round on top
\* of the chain below it, and a quorum has precommitted it there.
THEOREM CommitQuorumTheorem ==
    ASSUME QuorumsIntersect
    PROVE  Spec => []CommitHasQuorum
  <1>1. Init => Full(node)
    BY InvInit
  <1>2. Full(node) /\ [Next]_vars => Full(node)'
    BY FullNext
  <1>3. Full(node) => CommitHasQuorum
    <2> SUFFICES ASSUME Full(node), NEW i \in Validators, NEW h \in DOMAIN node[i].chain
                 PROVE  \E b \in BlocksOf(h, node[i].chain[h][1]) :
                           /\ b.txs = node[i].chain[h][2]
                           /\ b.prev = SubSeq(node[i].chain, 1, h - 1)
                           /\ Backed("precommit", h, b.round, b)
      BY DEF CommitHasQuorum
    <2>0. node[i].chain \in Seq(Entry)
      BY DEF Full, Inv, Typed, NodeState
    <2>1. h \in 1 .. Len(node[i].chain) /\ h \in Nat
      BY <2>0, SMTT(40)
    <2>2. PICK r \in Nat, b \in Block :
             /\ node[i].chain[h] = <<r, b.txs>>
             /\ b.prev = SubSeq(node[i].chain, 1, h - 1)
             /\ PrecommitQuorum(node, h, r, b)
      BY <2>1 DEF Full, Inv, ChainInv
    <2>3. PICK v \in Validators : Precommitted(node, v, h, r, b)
      <3>1. PICK Q \in Quorums : \A v \in Q : Precommitted(node, v, h, r, b)
        BY <2>2 DEF PrecommitQuorum
      <3>2. PICK v \in Q : TRUE
        BY DEF QuorumsIntersect
      <3> QED BY <3>1, <3>2 DEF Quorums
    <2>4. PICK w \in Validators : Prevoted(node, w, h, r, b)
      <3>1. PrevoteQuorum(node, h, r, b)
        BY <2>1, <2>3 DEF Full, Inv, PrecommitInv
      <3>2. PICK Q \in Quorums : \A x \in Q : Prevoted(node, x, h, r, b)
        BY <3>1 DEF PrevoteQuorum
      <3>3. PICK x \in Q : TRUE
        BY DEF QuorumsIntersect
      <3> QED BY <3>2, <3>3 DEF Quorums
    <2>5. Proposed(node, h, r, b)
      BY <2>1, <2>4 DEF Full, Inv, PrevoteInv
    <2>6. b.round = r
      BY <2>1, <2>5, SMTT(40) DEF Full, Inv, ProposalInv
    <2>7. b \in BlocksOf(h, r)
      <3> DEFINE m == PropMsg(h, r, b)
      <3>1. m.type = "proposal" /\ m.height = h /\ m.round = r /\ m.block = b
        BY DEF PropMsg
      <3>2. m \in Sent
        BY <2>1, <2>5, ProposerType DEF Proposed, Sent
      <3> HIDE DEF m
      <3> QED BY <3>1, <3>2 DEF BlocksOf
    <2>8. Backed("precommit", h, b.round, b)
      BY <2>2, <2>6, BackedVotes
    <2>9. node[i].chain[h][1] = r /\ node[i].chain[h][2] = b.txs
      BY <2>2, SMTT(40)
    <2> QED BY <2>2, <2>7, <2>8, <2>9
  <1> QED BY <1>1, <1>2, <1>3, PTL DEF Spec

\* Once a quorum has prevoted a block, no block of an earlier round of that
\* height can be committed any more.
THEOREM LockTheorem ==
    ASSUME QuorumsIntersect
    PROVE  Spec => []LaterQuorumExcludesEarlier
  <1>1. Init => Full(node)
    BY InvInit
  <1>2. Full(node) /\ [Next]_vars => Full(node)'
    BY FullNext
  <1>3. Full(node) => LaterQuorumExcludesEarlier
    <2> SUFFICES ASSUME Full(node), NEW m \in Sent, m.type = "prevote", m.hash # ZERO_HASH,
                        Backed("prevote", m.height, m.round, m.hash),
                        NEW r \in 0 .. m.round - 1, NEW b \in BlocksOf(m.height, r)
                 PROVE  CannotCommit(m.height, r, b)
      BY DEF LaterQuorumExcludesEarlier
    <2>0. \A j \in Validators : node[j].sent \subseteq Message
      BY DEF Full, Inv, Typed, NodeState
    <2>1. m \in Message /\ Sent \subseteq Message
      BY <2>0 DEF Sent
    <2>2. m \in Vote
      BY <2>1 DEF Message, Proposal
    <2>3. m.height \in Nat /\ m.round \in Nat /\ m.hash \in Block
      BY <2>2 DEF Vote, Hash
    <2>4. r \in Nat /\ r < m.round
      BY <2>3, SMTT(40)
    <2>5. b \in Block
      <3>1. PICK p \in Sent : p.type = "proposal" /\ b = p.block
        BY DEF BlocksOf
      <3>2. p \in Proposal
        BY <2>1, <3>1 DEF Message, Vote
      <3> QED BY <3>1, <3>2 DEF Proposal
    <2>6. PrevoteQuorum(node, m.height, m.round, m.hash)
      BY BackedVotes
    <2>7. Excluded(node, m.height, r, b)
      BY <2>3, <2>4, <2>5, <2>6 DEF Full, Inv, LaterExcludes
    <2>8. \A v \in Validators :
             Left(node, v, m.height, r) /\ ~Precommitted(node, v, m.height, r, b) =>
                Passed(v, m.height, r) /\ v \notin Cast("precommit", m.height, r, b)
      BY CastVotes DEF Left, Passed
    <2> QED BY <2>7, <2>8 DEF Excluded, CannotCommit, Quorums
  <1> QED BY <1>1, <1>2, <1>3, PTL DEF Spec

-----------------------------------------------------------------------------
\* The longest chain of a cluster (LongestChain for the current state).
Longest(nd) ==
    LET i == CHOOSE i \in Validators :
                \A j \in Validators : Len(nd[j].chain) <= Len(nd[i].chain)
    IN  nd[i].chain

\* Some node is behind no other.  There are finitely many nodes, so this is true
\* of any chains; as an invariant it needs no induction on the number of nodes.
SomeAhead(nd) == \E k \in Validators : \A j \in Validators : Len(nd[j].chain) <= Len(nd[k].chain)

\* Some node has the longest chain.
LEMMA LongestHolder ==
    ASSUME NEW nd, SomeAhead(nd)
    PROVE  \E k \in Validators : /\ Longest(nd) = nd[k].chain
                                 /\ \A j \in Validators : Len(nd[j].chain) <= Len(nd[k].chain)
  BY DEF SomeAhead, Longest

\* The chains of two nodes agree where both have a block.
LEMMA ChainsAgree ==
    ASSUME QuorumsIntersect, NEW nd, Full(nd), NEW i \in Validators, NEW j \in Validators,
           NEW h \in 1 .. Len(nd[i].chain), h \in 1 .. Len(nd[j].chain)
    PROVE  nd[i].chain[h] = nd[j].chain[h]
  <1>0. nd[i].chain \in Seq(Entry) /\ h \in Nat
    BY SMTT(40) DEF Full, Inv, Typed, NodeState
  <1>1. PICK r \in Nat, b \in Block :
           nd[i].chain[h] = <<r, b.txs>> /\ PrecommitQuorum(nd, h, r, b)
    BY DEF Full, Inv, ChainInv
  <1>2. PICK q \in Nat, c \in Block :
           nd[j].chain[h] = <<q, c.txs>> /\ PrecommitQuorum(nd, h, q, c)
    BY DEF Full, Inv, ChainInv
  <1>3. r = q /\ b = c
    BY <1>0, <1>1, <1>2, CommitsAgree DEF Full
  <1> QED BY <1>1, <1>2, <1>3

\* Two chains of one length are one chain.
LEMMA SameChain ==
    ASSUME QuorumsIntersect, NEW nd, Full(nd), NEW i \in Validators, NEW j \in Validators,
           Len(nd[i].chain) = Len(nd[j].chain)
    PROVE  nd[i].chain = nd[j].chain
  <1>1. nd[i].chain \in Seq(Entry) /\ nd[j].chain \in Seq(Entry)
    BY DEF Full, Inv, Typed, NodeState
  <1>2. \A h \in 1 .. Len(nd[i].chain) : nd[i].chain[h] = nd[j].chain[h]
    BY ChainsAgree
  <1> QED BY <1>1, <1>2, SMTT(40)

\* Whoever is behind nobody has the longest chain.
LEMMA LongestIs ==
    ASSUME QuorumsIntersect, NEW nd, Full(nd), NEW k \in Validators,
           \A j \in Validators : Len(nd[j].chain) <= Len(nd[k].chain)
    PROVE  Longest(nd) = nd[k].chain
  <1>1. PICK m \in Validators : /\ Longest(nd) = nd[m].chain
                                /\ \A j \in Validators : Len(nd[j].chain) <= Len(nd[m].chain)
    BY LongestHolder DEF SomeAhead
  <1>2. nd[k].chain \in Seq(Entry) /\ nd[m].chain \in Seq(Entry)
    BY DEF Full, Inv, Typed, NodeState
  <1>3. Len(nd[k].chain) <= Len(nd[m].chain) /\ Len(nd[m].chain) <= Len(nd[k].chain)
    BY <1>1
  <1>4. Len(nd[k].chain) = Len(nd[m].chain)
    BY <1>2, <1>3, SMTT(40)
  <1> QED BY <1>1, <1>4, SameChain

\* No timer takes a node past the last round.
RoundsBounded == \A i \in Validators : node[i].round <= MaxRound

\* The positions up to n + 1.
LEMMA NextPosition ==
    ASSUME NEW n \in Nat, NEW m \in Nat, n <= m
    PROVE  /\ n = m \/ n < m
           /\ n < m => n + 1 \in 1 .. m /\ n + 1 <= m
           /\ n + 1 \in 1 .. n + 1
  BY SMTT(40)

\* d is chain c with the entry <<r, p>> after it.
Longer(c, d, r, p) ==
    /\ Len(c) \in Nat /\ Len(d) \in Nat /\ Len(d) = Len(c) + 1 /\ Len(c) <= Len(d)
    /\ d[Len(c) + 1] = <<r, p>> /\ <<r, p>> \in Entry

\* An appended entry is the last of the longer chain.
LEMMA AppendLonger ==
    ASSUME NEW c \in Seq(Entry), NEW r \in Nat, NEW p \in Payloads,
           NEW d, d = Append(c, <<r, p>>)
    PROVE  Longer(c, d, r, p)
  BY SMTT(40) DEF Entry, Longer

\* One more than a bound on numbers bounds them too.
LEMMA BelowNext ==
    ASSUME NEW n \in Nat, NEW k \in Nat, k <= n
    PROVE  k <= n + 1
  BY SMTT(40)

\* What a step does to the chain of its node and to the longest chain.
LEMMA LogStep ==
    ASSUME QuorumsIntersect, Full(node), Full(node'), RoundsBounded, SomeAhead(node),
           NEW i \in Validators, NodeStep(i)
    PROVE  \/ \A j \in Validators : node'[j].chain = node[j].chain
           \/ /\ \A j \in Validators \ {i} : node'[j].chain = node[j].chain
              /\ Len(node[i].chain) < Len(Longest(node)) /\ Longest(node') = Longest(node)
              /\ node'[i].chain = Append(node[i].chain, Longest(node)[Len(node[i].chain) + 1])
           \/ /\ \A j \in Validators \ {i} : node'[j].chain = node[j].chain
              /\ node[i].chain = Longest(node) /\ Longest(node') = node'[i].chain
              /\ \E e \in (0 .. MaxRound) \X Payloads : node'[i].chain = Append(node[i].chain, e)
  <1> DEFINE s == node[i]
  <1>0. TypeInv
    BY DEF Full, Inv, Typed, TypeInv
  <1>1. PICK t : /\ node' = [node EXCEPT ![i] = t] /\ Advances(s, t)
    BY <1>0, StepMoves
  <1>2. node'[i] = t /\ \A j \in Validators \ {i} : node'[j] = node[j]
    BY <1>0, <1>1 DEF TypeInv
  <1>3. \A j \in Validators : node[j].chain \in Seq(Entry) /\ node[j].round \in Nat
    BY <1>0 DEF TypeInv, NodeState
  <1>4. CASE t.chain = s.chain
    BY <1>2, <1>4
  <1>5. ASSUME NEW c \in Payloads, t.chain = Append(s.chain, <<s.round, c>>)
        PROVE  \/ /\ Len(s.chain) < Len(Longest(node)) /\ Longest(node') = Longest(node)
                  /\ t.chain = Append(s.chain, Longest(node)[Len(s.chain) + 1])
               \/ /\ s.chain = Longest(node) /\ Longest(node') = t.chain
                  /\ \E e \in (0 .. MaxRound) \X Payloads : t.chain = Append(s.chain, e)
    <2> DEFINE e == <<s.round, c>>
               n == Len(s.chain)
    <2>1. e \in (0 .. MaxRound) \X Payloads
      BY <1>3, ClusterAssumption, SMTT(40) DEF RoundsBounded
    <2>2. n \in Nat /\ Len(t.chain) = n + 1 /\ t.chain[n + 1] = e /\ e \in Entry
      <3>1. Longer(s.chain, t.chain, s.round, c)
        BY <1>3, <1>5, AppendLonger
      <3> QED BY <3>1 DEF Longer
    <2>3. PICK k \in Validators : /\ Longest(node) = node[k].chain
                                  /\ \A j \in Validators : Len(node[j].chain) <= Len(node[k].chain)
      BY LongestHolder
    <2>4. Len(node[k].chain) \in Nat /\ n <= Len(node[k].chain)
      BY <1>3, <2>3, SMTT(40)
    <2>5. CASE n = Len(node[k].chain)
      <3>1. s.chain = Longest(node)
        BY <2>3, <2>5, SameChain
      <3>2. \A j \in Validators : Len(node'[j].chain) <= Len(node'[i].chain)
        <4>1. \A j \in Validators : Len(node[j].chain) \in Nat /\ Len(node[j].chain) <= n
          BY <1>3, <2>3, <2>5, SMTT(40)
        <4>2. \A j \in Validators : Len(node'[j].chain) <= n + 1
          <5> SUFFICES ASSUME NEW j \in Validators PROVE Len(node'[j].chain) <= n + 1
            OBVIOUS
          <5>1. CASE j = i
            <6>1. n + 1 <= n + 1
              BY <2>2, SMTT(40)
            <6> QED BY <1>2, <2>2, <5>1, <6>1
          <5>2. CASE j # i
            <6>1. Len(node[j].chain) <= n + 1
              BY <2>2, <4>1, BelowNext
            <6> QED BY <1>2, <5>2, <6>1
          <5> QED BY <5>1, <5>2
        <4> QED BY <1>2, <2>2, <4>2
      <3>3. Longest(node') = node'[i].chain
        BY <3>2, LongestIs
      <3> QED BY <1>2, <1>5, <2>1, <3>1, <3>3
    <2>6. CASE n < Len(node[k].chain)
      <3>1. k # i
        BY <2>2, <2>6, SMTT(40)
      <3>2. \A j \in Validators : Len(node'[j].chain) <= Len(node'[k].chain)
        <4>1. node'[k] = node[k]
          BY <1>2, <3>1
        <4>2. Len(t.chain) <= Len(node[k].chain)
          BY <2>2, <2>4, <2>6, NextPosition
        <4> QED BY <1>2, <2>3, <4>1, <4>2
      <3>3. Longest(node') = node'[k].chain /\ node'[k].chain = node[k].chain
        BY <1>2, <3>1, <3>2, LongestIs
      <3>4. n + 1 \in 1 .. Len(t.chain) /\ n + 1 \in 1 .. Len(node[k].chain)
        BY <2>2, <2>4, <2>6, NextPosition
      <3>5. node'[i].chain[n + 1] = node'[k].chain[n + 1]
        <4> DEFINE h == n + 1
        <4>1. h \in 1 .. Len(node'[i].chain) /\ h \in 1 .. Len(node'[k].chain)
          BY <1>2, <3>3, <3>4
        <4> HIDE DEF h
        <4>2. node'[i].chain[h] = node'[k].chain[h]
          BY <4>1, ChainsAgree
        <4> QED BY <4>2 DEF h
      <3>6. e = Longest(node)[n + 1]
        BY <1>2, <2>2, <2>3, <3>3, <3>5
      <3> QED BY <1>5, <2>3, <2>6, <3>3, <3>6
    <2> QED BY <2>2, <2>4, <2>5, <2>6, NextPosition
  <1> QED BY <1>1, <1>2, <1>4, <1>5 DEF Advances

\* After a step, too, some node is behind no other: the one that was, or the one
\* that has committed.
LEMMA AheadStep ==
    ASSUME Full(node), SomeAhead(node), NEW i \in Validators, NodeStep(i)
    PROVE  SomeAhead(node')
  <1>0. TypeInv
    BY DEF Full, Inv, Typed, TypeInv
  <1>1. PICK t : node' = [node EXCEPT ![i] = t] /\ Advances(node[i], t)
    BY <1>0, StepMoves
  <1>2. node'[i] = t /\ \A j \in Validators \ {i} : node'[j] = node[j]
    BY <1>0, <1>1 DEF TypeInv
  <1>3. \A j \in Validators : node[j].chain \in Seq(Entry) /\ node[j].round \in Nat
    BY <1>0 DEF TypeInv, NodeState
  <1>4. PICK k \in Validators : \A j \in Validators : Len(node[j].chain) <= Len(node[k].chain)
    BY DEF SomeAhead
  <1>5. Len(t.chain) \in Nat /\ Len(node[i].chain) <= Len(t.chain)
    <2>1. CASE t.chain = node[i].chain
      BY <1>3, <2>1, SMTT(40)
    <2>2. ASSUME NEW c \in Payloads, t.chain = Append(node[i].chain, <<node[i].round, c>>)
          PROVE  Len(t.chain) \in Nat /\ Len(node[i].chain) <= Len(t.chain)
      <3>1. Longer(node[i].chain, t.chain, node[i].round, c)
        BY <1>3, <2>2, AppendLonger
      <3> QED BY <3>1 DEF Longer
    <2> QED BY <1>1, <2>1, <2>2 DEF Advances
  <1>6. CASE Len(t.chain) <= Len(node[k].chain)
    <2>1. \A j \in Validators : Len(node'[j].chain) <= Len(node[k].chain)
      BY <1>2, <1>4, <1>6
    <2>2. Len(node[k].chain) <= Len(node'[k].chain)
      BY <1>2, <1>3, <1>5, SMTT(40)
    <2>3. \A j \in Validators : Len(node'[j].chain) \in Nat
      BY <1>2, <1>3, <1>5, SMTT(40)
    <2>4. \A j \in Validators : Len(node'[j].chain) <= Len(node'[k].chain)
      BY <1>3, <2>1, <2>2, <2>3, SMTT(40)
    <2> QED BY <2>4 DEF SomeAhead
  <1>7. CASE Len(node[k].chain) < Len(t.chain)
    <2>1. \A j \in Validators : Len(node[j].chain) <= Len(t.chain)
      BY <1>3, <1>4, <1>5, <1>7, SMTT(40)
    <2>2. \A j \in Validators : Len(node'[j].chain) <= Len(node'[i].chain)
      BY <1>2, <1>5, <2>1, SMTT(40)
    <2> QED BY <2>2 DEF SomeAhead
  <1> QED BY <1>3, <1>5, <1>6, <1>7, SMTT(40)

\* The chains of the cluster implement the replicated log, as long as any two
\* quorums share a validator.
THEOREM LogTheorem ==
    ASSUME QuorumsIntersect
    PROVE  Spec => ImplementsLog
  <1> DEFINE LInv == Full(node) /\ RoundsBounded /\ SomeAhead(node)
             chains == [i \in Validators |-> node[i].chain]
  <1>1. Init => LInv /\ Log!LogInit
    <2> SUFFICES ASSUME Init PROVE LInv /\ Log!LogInit
      BY SMTT(40)
    <2>1. Full(node)
      BY InvInit
    <2>2. \A i \in Validators : node[i].chain = <<>> /\ node[i].round = 0
      BY SMTT(40) DEF Init, InitNode
    <2>3. RoundsBounded
      BY <2>2, ClusterAssumption, SMTT(40) DEF RoundsBounded
    <2>6. SomeAhead(node)
      <3>1. \A i, j \in Validators : Len(node[i].chain) <= Len(node[j].chain)
        BY <2>2, SMTT(40)
      <3>2. 0 \in Validators
        BY ValidatorSetAssumption, SMTT(40) DEF Validators
      <3> QED BY <3>1, <3>2 DEF SomeAhead
    <2>4. LongestChain = <<>>
      BY <2>2, <2>6, LongestHolder DEF LongestChain, Longest
    <2>5. chains = [i \in Validators |-> <<>>]
      BY <2>2
    <2> QED BY <2>1, <2>3, <2>4, <2>5, <2>6 DEF Log!LogInit
  <1>2. LInv /\ [Next]_vars => LInv'
    <2> SUFFICES ASSUME LInv, [Next]_vars PROVE Full(node') /\ RoundsBounded' /\ SomeAhead(node')
      BY DEF SomeAhead
    <2>1. Full(node')
      BY FullNext
    <2>2. ASSUME NEW i \in Validators, NodeStep(i) PROVE RoundsBounded' /\ SomeAhead(node')
      <3>0. TypeInv
        BY DEF Full, Inv, Typed, TypeInv
      <3>1. PICK t : /\ node' = [node EXCEPT ![i] = t] /\ Advances(node[i], t)
        BY <2>2, <3>0, StepMoves
      <3>2. node'[i] = t /\ \A j \in Validators \ {i} : node'[j] = node[j]
        BY <3>0, <3>1 DEF TypeInv
      <3>3. node[i].round \in Nat /\ node[i].round <= MaxRound /\ MaxRound \in Nat
        BY <3>0, ClusterAssumption DEF TypeInv, NodeState, RoundsBounded
      <3>4. t.round \in {node[i].round, 0} \/ (t.round = node[i].round + 1 /\ node[i].round < MaxRound)
        BY <3>1 DEF Advances
      <3>5. t.round <= MaxRound
        BY <3>3, <3>4, SMTT(40)
      <3>6. RoundsBounded'
        BY <3>2, <3>5 DEF RoundsBounded
      <3> QED BY <2>1, <2>2, <3>6, AheadStep
    <2>3. CASE UNCHANGED vars
      BY <2>3 DEF vars, RoundsBounded, SomeAhead
    <2> QED BY <2>1, <2>2, <2>3 DEF Next
  <1>3. LInv /\ LInv' /\ [Next]_vars => [Log!LogNext]_(Log!LogVars)
    <2> SUFFICES ASSUME Full(node), RoundsBounded, SomeAhead(node), Full(node'), [Next]_vars
                 PROVE  [Log!LogNext]_(Log!LogVars)
      OBVIOUS
    <2> DEFINE copy == [j \in Validators |-> node[j].chain]
               next == [j \in Validators |-> node'[j].chain]
    <2>0. LongestChain = Longest(node) /\ LongestChain' = Longest(node')
      BY DEF LongestChain, Longest
    <2>1. ASSUME \A j \in Validators : node'[j].chain = node[j].chain
          PROVE  LongestChain' = LongestChain /\ next = copy
      <3>1. PICK k \in Validators : /\ Longest(node) = node[k].chain
                                    /\ \A j \in Validators : Len(node[j].chain) <= Len(node[k].chain)
        BY LongestHolder
      <3>2. \A j \in Validators : Len(node'[j].chain) <= Len(node'[k].chain)
        BY <2>1, <3>1
      <3>3. Longest(node') = node'[k].chain
        BY <3>2, LongestIs
      <3> QED BY <2>0, <2>1, <3>1, <3>3
    <2>2. ASSUME NEW i \in Validators, NodeStep(i)
          PROVE  Log!LogNext \/ (LongestChain' = LongestChain /\ next = copy)
      <3>1. CASE \A j \in Validators : node'[j].chain = node[j].chain
        BY <2>1, <3>1
      <3>2. CASE /\ \A j \in Validators \ {i} : node'[j].chain = node[j].chain
                 /\ Len(node[i].chain) < Len(Longest(node)) /\ Longest(node') = Longest(node)
                 /\ node'[i].chain = Append(node[i].chain, Longest(node)[Len(node[i].chain) + 1])
        <4>1. next = [copy EXCEPT ![i] = Append(copy[i], Longest(node)[Len(copy[i]) + 1])]
          BY <3>2
        <4>2. Len(copy[i]) < Len(Longest(node))
          BY <3>2
        <4>3. Log!Learn(i)
          BY <2>0, <3>2, <4>1, <4>2 DEF Log!Learn
        <4> QED BY <4>3 DEF Log!LogNext
      <3>3. CASE /\ \A j \in Validators \ {i} : node'[j].chain = node[j].chain
                 /\ node[i].chain = Longest(node) /\ Longest(node') = node'[i].chain
                 /\ \E e \in (0 .. MaxRound) \X Payloads :
                        node'[i].chain = Append(node[i].chain, e)
        <4>1. PICK e \in (0 .. MaxRound) \X Payloads : node'[i].chain = Append(node[i].chain, e)
          BY <3>3
        <4>2. next = [copy EXCEPT ![i] = Longest(node')] /\ copy[i] = Longest(node)
          BY <3>3
        <4>3. Longest(node') = Append(Longest(node), e)
          BY <3>3, <4>1
        <4>4. Log!Decide(i, e)
          BY <2>0, <4>2, <4>3 DEF Log!Decide
        <4> QED BY <4>1, <4>4 DEF Log!LogNext
      <3> QED BY <2>2, <3>1, <3>2, <3>3, LogStep
    <2>3. CASE UNCHANGED vars
      BY <2>1, <2>3 DEF vars, Log!LogVars
    <2>4. CASE Next
      BY <2>2, <2>4 DEF Next, Log!LogVars
    <2> QED BY <2>3, <2>4
  <1> QED BY <1>1, <1>2, <1>3, PTL DEF Spec, ImplementsLog, Log!LogSpec
=============================================================================
