---------------------------- MODULE ReplicaProofs ----------------------------
(***************************************************************************)
(* Applying a block, replaying a chain, and one node through commits,      *)
(* failed saves, crashes and restarts, for every set of events, every      *)
(* block size and both builds of apply_block.                              *)
(*                                                                         *)
(* FoldLeft is a CHOOSE over the solutions of a recursion, so each loop of *)
(* the node (the two loops of apply_block, replaying) is first unrolled    *)
(* into the values it goes through; what it computes is then shown by      *)
(* induction on its turns.  The sections are: the ledger; the loops; what  *)
(* a block that was applied leaves; the two builds on flat blocks;         *)
(* replaying a chain; the disk; the invariants of ledger and chain;        *)
(* the mempool.                                                            *)
(***************************************************************************)
EXTENDS Replica, FoldProofs

\* The method of every step that names none.
USE ZenonT(40)

\* Linked, with exactly the childless events as tips.
Linked(ledger) ==
    /\ ledger.events \subseteq Events
    /\ Closed(ledger)
    /\ ledger.tips = Childless(ledger.events)

\* No hash occurs in what it is the hash of.
LEMMA NotOwnParent ==
    ASSUME NEW e \in Events PROVE Prev[e] # e
  <1>1. {e} \in SUBSET Events /\ {e} # {}
    BY SMTT(40)
  <1> QED BY <1>1, LedgerAssumption

\* try_add_event keeps the ledger linked, whatever it is given and in whatever
\* order: the tips it maintains step by step are the childless events.
THEOREM LedgerTheorem ==
    /\ Linked(EmptyLedger)
    /\ \A ledger, e : Linked(ledger) /\ e \in Events => Linked(TryAddEvent(ledger, e))
  <1>1. Linked(EmptyLedger)
    BY SMTT(40) DEF Linked, EmptyLedger, Closed, Childless
  <1>2. ASSUME NEW ledger, NEW e \in Events, Linked(ledger), LinkResult(ledger, e) = "Ok"
        PROVE  Linked(AddEvent(ledger, e))
    <2> DEFINE events == ledger.events
               grown == events \cup {e}
    <2>1. e \notin events /\ HasParent(events, e) /\ e # ZERO_HASH
      BY <1>2, LedgerAssumption DEF LinkResult
    <2>2. AddEvent(ledger, e).events = grown
      BY SMTT(40) DEF AddEvent
    <2>3. AddEvent(ledger, e).tips = (Childless(events) \ {Prev[e]}) \cup {e}
      BY <1>2, SMTT(40) DEF AddEvent, Linked
    <2>4. \A d \in grown : HasParent(grown, d)
      BY <1>2, <2>1 DEF Linked, Closed, HasParent
    <2>5. \A d \in events : Prev[d] # e
      \* A child of e would have found no parent.
      BY <1>2, <2>1 DEF Linked, Closed, HasParent
    <2>6. Childless(grown) = (Childless(events) \ {Prev[e]}) \cup {e}
      <3>1. \A x \in grown : x \in Childless(grown) <=>
                x \in (Childless(events) \ {Prev[e]}) \cup {e}
        BY <2>1, <2>5, NotOwnParent DEF Childless
      <3>2. Childless(grown) \subseteq grown /\ Childless(events) \subseteq grown
        BY DEF Childless
      <3> QED BY <3>1, <3>2
    <2>7. grown \subseteq Events
      BY <1>2 DEF Linked
    <2> HIDE DEF events, grown
    <2> QED BY <2>2, <2>3, <2>4, <2>6, <2>7 DEF Linked, Closed
  <1> QED BY <1>1, <1>2 DEF TryAddEvent

\* The values of the two loops of apply_block.
Contexts == [Authors -> Nat]
Ledgers == [events : SUBSET Events, tips : SUBSET Events]
States == [ledger : Ledgers, ctx : Contexts]
CheckStates == [ok : BOOLEAN, ctx : Contexts, known : SUBSET Events]
RunStates == [ok : BOOLEAN, ledger : Ledgers, ctx : Contexts]

\* touch raises the timestamp of one author.
LEMMA TouchType ==
    ASSUME NEW ctx \in Contexts, NEW e \in Events
    PROVE  /\ Touch(ctx, e) \in Contexts /\ Author[e] \in Authors
           /\ Touch(ctx, e)[Author[e]] =
                 IF Timestamp[e] > ctx[Author[e]] THEN Timestamp[e] ELSE ctx[Author[e]]
           /\ \A a \in Authors \ {Author[e]} : Touch(ctx, e)[a] = ctx[a]
  <1>1. Author[e] \in Authors
    BY DEF Authors
  <1>2. Timestamp[e] \in Nat
    BY LedgerAssumption
  <1> QED BY <1>1, <1>2, SMTT(40) DEF Touch, Contexts

\* The first loop keeps its types.
LEMMA CheckTxType ==
    ASSUME NEW run \in CheckStates, NEW tx \in Txs
    PROVE  CheckTx(run, tx) \in CheckStates
  <1>1. CASE run.ok /\ Acceptable(run.ctx, run.known, tx)
    <2>1. tx \in Events /\ run.ctx \in Contexts /\ run.known \in SUBSET Events
      BY <1>1 DEF Acceptable, CheckStates
    <2>2. Touch(run.ctx, tx) \in Contexts /\ run.known \cup {tx} \in SUBSET Events
      BY <2>1, TouchType
    <2>3. CheckTx(run, tx) = [ok |-> TRUE, ctx |-> Touch(run.ctx, tx), known |-> run.known \cup {tx}]
      BY <1>1 DEF CheckTx
    <2> QED BY <2>2, <2>3, SMTT(40) DEF CheckStates
  <1>2. CASE ~(run.ok /\ Acceptable(run.ctx, run.known, tx))
    <2>1. CheckTx(run, tx) = [run EXCEPT !.ok = FALSE]
      BY <1>2 DEF CheckTx
    <2> QED BY <2>1 DEF CheckStates
  <1> QED BY <1>1, <1>2, SMTT(40)

\* try_add_event keeps the type of a ledger.
LEMMA AddType ==
    ASSUME NEW ledger \in Ledgers, NEW e \in Events
    PROVE  AddEvent(ledger, e) \in Ledgers /\ TryAddEvent(ledger, e) \in Ledgers
  <1>1. AddEvent(ledger, e) \in Ledgers
    BY SMTT(40) DEF AddEvent, Ledgers
  <1> QED BY <1>1 DEF TryAddEvent

\* Linking one event keeps the types.
LEMMA LinkTxType ==
    ASSUME NEW run \in RunStates, NEW e \in Events
    PROVE  LinkTx(run, e) \in RunStates
  <1>1. run.ledger \in Ledgers /\ run.ctx \in Contexts
    BY DEF RunStates
  <1>2. TryAddEvent(run.ledger, e) \in Ledgers /\ Touch(run.ctx, e) \in Contexts
    BY <1>1, AddType, TouchType
  <1>3. (LinkResult(run.ledger, e) = "Ok") \in BOOLEAN
    OBVIOUS
  <1> QED BY <1>2, <1>3 DEF LinkTx, RunStates

\* A loop that has failed keeps its types.
LEMMA FailType ==
    ASSUME NEW run \in RunStates
    PROVE  [run EXCEPT !.ok = FALSE] \in RunStates /\ ~[run EXCEPT !.ok = FALSE].ok
  BY DEF RunStates

\* The second loop of the default build keeps its types.
LEMMA ApplyTxType ==
    ASSUME NEW run \in RunStates, NEW tx \in Txs
    PROVE  ApplyTx(run, tx) \in RunStates
  BY LinkTxType, FailType DEF ApplyTx

\* The second loop of the parallel build keeps its types.
LEMMA ApplyCheckedTxType ==
    ASSUME NEW run \in RunStates, NEW tx \in Events
    PROVE  ApplyCheckedTx(run, tx) \in RunStates
  BY LinkTxType DEF ApplyCheckedTx

\* FoldLeft with CheckTx, and the recursion it is defined by.
Checking(base, txs) == FoldLeft(CheckTx, base, txs)
CheckEquation(iter, base, txs) ==
    iter = [s \in SUBSET DOMAIN txs |->
              IF s = {} THEN base
              ELSE CheckTx(iter[s \ {Max(s)}], txs[Max(s)])]

\* The fold is a value of that recursion.
LEMMA CheckUnfolds ==
    ASSUME NEW base, NEW txs
    PROVE  Checking(base, txs) = (CHOOSE iter : CheckEquation(iter, base, txs))[DOMAIN txs]
  BY SMTT(40) DEF Checking, FoldLeft, MapThenFoldSet, CheckEquation

\* The first loop of the default build, turn by turn.
LEMMA CheckRun ==
    ASSUME NEW n \in Nat, NEW txs \in [1 .. n -> Txs], NEW base \in CheckStates
    PROVE  \E run \in [0 .. n -> CheckStates] :
              /\ run[0] = base /\ \A k \in 1 .. n : run[k] = CheckTx(run[k - 1], txs[k])
              /\ Checking(base, txs) = run[n]
  <1>1. PICK V : V = CheckStates
    BY SMTT(40)
  <1>0. base \in V /\ \A v \in V, k \in 1 .. n : CheckTx(v, txs[k]) \in V
    BY <1>1, CheckTxType
  <1>2. PICK step : IsStep(step, V, n) /\ \A v \in V, k \in 1 .. n : step[<<v, k>>] = CheckTx(v, txs[k])
    <2> DEFINE f == [p \in V \X (1 .. n) |-> CheckTx(p[1], txs[p[2]])]
    <2>1. f \in [V \X (1 .. n) -> V] /\ \A v \in V, k \in 1 .. n : f[<<v, k>>] = CheckTx(v, txs[k])
      BY <1>0, SMTT(40)
    <2> QED BY <2>1 DEF IsStep
  <1>3. DOMAIN txs = 1 .. n
    OBVIOUS
  <1>4. PICK iter : IsTable(iter, V, base, step, n)
    BY <1>0, <1>2, SequenceFold
  <1>5. \A s \in SUBSET (1 .. n) : s # {} => Max(s) \in 1 .. n
    BY MaxMember
  <1>6. \A s \in SUBSET (1 .. n) :
           iter[s] = IF s = {} THEN base ELSE CheckTx(iter[s \ {Max(s)}], txs[Max(s)])
    BY <1>2, <1>4, <1>5 DEF IsTable
  <1>7. CheckEquation(iter, base, txs)
    BY <1>3, <1>4, <1>6 DEF CheckEquation, IsTable
  <1>8. PICK c : c = (CHOOSE x : CheckEquation(x, base, txs)) /\ CheckEquation(c, base, txs)
    BY <1>7
  <1>9. \A s \in SUBSET (1 .. n) :
           c[s] = IF s = {} THEN base ELSE CheckTx(c[s \ {Max(s)}], txs[Max(s)])
    BY <1>3, <1>8 DEF CheckEquation
  <1>10. Follows(c, V, base, step, n)
    BY <1>2, <1>5, <1>9 DEF Follows
  <1>11. PICK run : Unrolls(run, c, V, base, step, n)
    BY <1>0, <1>2, <1>10, FoldRun
  <1>12. \A k \in 1 .. n : k - 1 \in 0 .. n
    BY SMTT(40)
  <1>13. \A k \in 1 .. n : run[k] = CheckTx(run[k - 1], txs[k])
    BY <1>2, <1>11, <1>12 DEF IsRun, Unrolls
  <1>14. Checking(base, txs) = c[1 .. n]
    BY <1>3, <1>8, CheckUnfolds
  <1> QED BY <1>11, <1>13, <1>14, <1>1 DEF IsRun, Unrolls

\* FoldLeft with ApplyTx, and the recursion it is defined by.
Applying(base, txs) == FoldLeft(ApplyTx, base, txs)
ApplyEquation(iter, base, txs) ==
    iter = [s \in SUBSET DOMAIN txs |->
              IF s = {} THEN base
              ELSE ApplyTx(iter[s \ {Max(s)}], txs[Max(s)])]

\* The fold is a value of that recursion.
LEMMA ApplyUnfolds ==
    ASSUME NEW base, NEW txs
    PROVE  Applying(base, txs) = (CHOOSE iter : ApplyEquation(iter, base, txs))[DOMAIN txs]
  BY SMTT(40) DEF Applying, FoldLeft, MapThenFoldSet, ApplyEquation

\* The second loop of the default build, turn by turn.
LEMMA ApplyRun ==
    ASSUME NEW n \in Nat, NEW txs \in [1 .. n -> Txs], NEW base \in RunStates
    PROVE  \E run \in [0 .. n -> RunStates] :
              /\ run[0] = base /\ \A k \in 1 .. n : run[k] = ApplyTx(run[k - 1], txs[k])
              /\ Applying(base, txs) = run[n]
  <1>1. PICK V : V = RunStates
    BY SMTT(40)
  <1>0. base \in V /\ \A v \in V, k \in 1 .. n : ApplyTx(v, txs[k]) \in V
    BY <1>1, ApplyTxType
  <1>2. PICK step : IsStep(step, V, n) /\ \A v \in V, k \in 1 .. n : step[<<v, k>>] = ApplyTx(v, txs[k])
    <2> DEFINE f == [p \in V \X (1 .. n) |-> ApplyTx(p[1], txs[p[2]])]
    <2>1. f \in [V \X (1 .. n) -> V] /\ \A v \in V, k \in 1 .. n : f[<<v, k>>] = ApplyTx(v, txs[k])
      BY <1>0, SMTT(40)
    <2> QED BY <2>1 DEF IsStep
  <1>3. DOMAIN txs = 1 .. n
    OBVIOUS
  <1>4. PICK iter : IsTable(iter, V, base, step, n)
    BY <1>0, <1>2, SequenceFold
  <1>5. \A s \in SUBSET (1 .. n) : s # {} => Max(s) \in 1 .. n
    BY MaxMember
  <1>6. \A s \in SUBSET (1 .. n) :
           iter[s] = IF s = {} THEN base ELSE ApplyTx(iter[s \ {Max(s)}], txs[Max(s)])
    BY <1>2, <1>4, <1>5 DEF IsTable
  <1>7. ApplyEquation(iter, base, txs)
    BY <1>3, <1>4, <1>6 DEF ApplyEquation, IsTable
  <1>8. PICK c : c = (CHOOSE x : ApplyEquation(x, base, txs)) /\ ApplyEquation(c, base, txs)
    BY <1>7
  <1>9. \A s \in SUBSET (1 .. n) :
           c[s] = IF s = {} THEN base ELSE ApplyTx(c[s \ {Max(s)}], txs[Max(s)])
    BY <1>3, <1>8 DEF ApplyEquation
  <1>10. Follows(c, V, base, step, n)
    BY <1>2, <1>5, <1>9 DEF Follows
  <1>11. PICK run : Unrolls(run, c, V, base, step, n)
    BY <1>0, <1>2, <1>10, FoldRun
  <1>12. \A k \in 1 .. n : k - 1 \in 0 .. n
    BY SMTT(40)
  <1>13. \A k \in 1 .. n : run[k] = ApplyTx(run[k - 1], txs[k])
    BY <1>2, <1>11, <1>12 DEF IsRun, Unrolls
  <1>14. Applying(base, txs) = c[1 .. n]
    BY <1>3, <1>8, ApplyUnfolds
  <1> QED BY <1>11, <1>13, <1>14, <1>1 DEF IsRun, Unrolls

\* FoldLeft with ApplyCheckedTx, and the recursion it is defined by.
Linking(base, txs) == FoldLeft(ApplyCheckedTx, base, txs)
LinkEquation(iter, base, txs) ==
    iter = [s \in SUBSET DOMAIN txs |->
              IF s = {} THEN base
              ELSE ApplyCheckedTx(iter[s \ {Max(s)}], txs[Max(s)])]

\* The fold is a value of that recursion.
LEMMA LinkUnfolds ==
    ASSUME NEW base, NEW txs
    PROVE  Linking(base, txs) = (CHOOSE iter : LinkEquation(iter, base, txs))[DOMAIN txs]
  BY SMTT(40) DEF Linking, FoldLeft, MapThenFoldSet, LinkEquation

\* The second loop of the parallel build, turn by turn.
LEMMA LinkRun ==
    ASSUME NEW n \in Nat, NEW txs \in [1 .. n -> Events], NEW base \in RunStates
    PROVE  \E run \in [0 .. n -> RunStates] :
              /\ run[0] = base /\ \A k \in 1 .. n : run[k] = ApplyCheckedTx(run[k - 1], txs[k])
              /\ Linking(base, txs) = run[n]
  <1>1. PICK V : V = RunStates
    BY SMTT(40)
  <1>0. base \in V /\ \A v \in V, k \in 1 .. n : ApplyCheckedTx(v, txs[k]) \in V
    BY <1>1, ApplyCheckedTxType
  <1>2. PICK step : IsStep(step, V, n) /\ \A v \in V, k \in 1 .. n : step[<<v, k>>] = ApplyCheckedTx(v, txs[k])
    <2> DEFINE f == [p \in V \X (1 .. n) |-> ApplyCheckedTx(p[1], txs[p[2]])]
    <2>1. f \in [V \X (1 .. n) -> V] /\ \A v \in V, k \in 1 .. n : f[<<v, k>>] = ApplyCheckedTx(v, txs[k])
      BY <1>0, SMTT(40)
    <2> QED BY <2>1 DEF IsStep
  <1>3. DOMAIN txs = 1 .. n
    OBVIOUS
  <1>4. PICK iter : IsTable(iter, V, base, step, n)
    BY <1>0, <1>2, SequenceFold
  <1>5. \A s \in SUBSET (1 .. n) : s # {} => Max(s) \in 1 .. n
    BY MaxMember
  <1>6. \A s \in SUBSET (1 .. n) :
           iter[s] = IF s = {} THEN base ELSE ApplyCheckedTx(iter[s \ {Max(s)}], txs[Max(s)])
    BY <1>2, <1>4, <1>5 DEF IsTable
  <1>7. LinkEquation(iter, base, txs)
    BY <1>3, <1>4, <1>6 DEF LinkEquation, IsTable
  <1>8. PICK c : c = (CHOOSE x : LinkEquation(x, base, txs)) /\ LinkEquation(c, base, txs)
    BY <1>7
  <1>9. \A s \in SUBSET (1 .. n) :
           c[s] = IF s = {} THEN base ELSE ApplyCheckedTx(c[s \ {Max(s)}], txs[Max(s)])
    BY <1>3, <1>8 DEF LinkEquation
  <1>10. Follows(c, V, base, step, n)
    BY <1>2, <1>5, <1>9 DEF Follows
  <1>11. PICK run : Unrolls(run, c, V, base, step, n)
    BY <1>0, <1>2, <1>10, FoldRun
  <1>12. \A k \in 1 .. n : k - 1 \in 0 .. n
    BY SMTT(40)
  <1>13. \A k \in 1 .. n : run[k] = ApplyCheckedTx(run[k - 1], txs[k])
    BY <1>2, <1>11, <1>12 DEF IsRun, Unrolls
  <1>14. Linking(base, txs) = c[1 .. n]
    BY <1>3, <1>8, LinkUnfolds
  <1> QED BY <1>11, <1>13, <1>14, <1>1 DEF IsRun, Unrolls

-----------------------------------------------------------------------------
\* A context with the newest timestamp of each author, and 0 for an author
\* without events.
Newest(ctx, events) ==
    \A a \in Authors :
        /\ \A e \in events : Author[e] = a => Timestamp[e] <= ctx[a]
        /\ ctx[a] = 0 \/ \E e \in events : Author[e] = a /\ ctx[a] = Timestamp[e]

\* What apply_block keeps of ledger and contexts.
Sound(st) ==
    /\ st.ledger \in Ledgers /\ st.ctx \in Contexts
    /\ Linked(st.ledger) /\ Newest(st.ctx, st.ledger.events)

\* touch keeps the newest timestamps.
LEMMA TouchNewest ==
    ASSUME NEW ctx \in Contexts, NEW events \in SUBSET Events, NEW e \in Events,
           Newest(ctx, events)
    PROVE  Newest(Touch(ctx, e), events \cup {e})
  <1>1. ASSUME NEW a \in Authors, a # Author[e]
        PROVE  /\ \A d \in events \cup {e} : Author[d] = a => Timestamp[d] <= Touch(ctx, e)[a]
               /\ \/ Touch(ctx, e)[a] = 0
                  \/ \E d \in events \cup {e} : Author[d] = a /\ Touch(ctx, e)[a] = Timestamp[d]
    <2>1. Touch(ctx, e)[a] = ctx[a]
      BY <1>1, TouchType
    <2> QED BY <1>1, <2>1 DEF Newest
  <1>2. /\ \A d \in events \cup {e} : Author[d] = Author[e] => Timestamp[d] <= Touch(ctx, e)[Author[e]]
        /\ \/ Touch(ctx, e)[Author[e]] = 0
           \/ \E d \in events \cup {e} : Author[d] = Author[e] /\ Touch(ctx, e)[Author[e]] = Timestamp[d]
    <2> DEFINE old == ctx[Author[e]]
               new == Touch(ctx, e)[Author[e]]
    <2>1. Author[e] \in Authors /\ new = IF Timestamp[e] > old THEN Timestamp[e] ELSE old
      BY TouchType, SMTT(40)
    <2>2. old \in Nat /\ \A d \in Events : Timestamp[d] \in Nat
      BY <2>1, LedgerAssumption, SMTT(40) DEF Contexts
    <2>3. /\ \A d \in events : Author[d] = Author[e] => Timestamp[d] <= old
          /\ old = 0 \/ \E d \in events : Author[d] = Author[e] /\ old = Timestamp[d]
      BY <2>1 DEF Newest
    <2> HIDE DEF old, new
    <2>4. Timestamp[e] <= new /\ \A t \in Nat : t <= old => t <= new
      BY <2>1, <2>2, SMTT(40)
    <2>5. new = old \/ new = Timestamp[e]
      BY <2>1
    <2>6. \A d \in events \cup {e} : Author[d] = Author[e] => Timestamp[d] <= new
      BY <2>2, <2>3, <2>4
    <2>7. new = 0 \/ \E d \in events \cup {e} : Author[d] = Author[e] /\ new = Timestamp[d]
      BY <2>3, <2>5
    <2> QED BY <2>6, <2>7 DEF new
  <1> QED BY <1>1, <1>2 DEF Newest

\* An event that try_add_event accepts, and what it leaves.
LEMMA LinkOk ==
    ASSUME NEW run, NEW e, LinkTx(run, e).ok
    PROVE  /\ e \notin run.ledger.events /\ HasParent(run.ledger.events, e)
           /\ LinkTx(run, e).ledger = AddEvent(run.ledger, e)
           /\ LinkTx(run, e).ledger.events = run.ledger.events \cup {e}
           /\ LinkTx(run, e).ctx = Touch(run.ctx, e)
  <1>1. LinkResult(run.ledger, e) = "Ok"
    BY DEF LinkTx
  <1>2. LinkTx(run, e).ledger = AddEvent(run.ledger, e) /\ LinkTx(run, e).ctx = Touch(run.ctx, e)
    BY <1>1 DEF LinkTx, TryAddEvent
  <1>3. AddEvent(run.ledger, e).events = run.ledger.events \cup {e}
    BY DEF AddEvent
  <1> QED BY <1>1, <1>2, <1>3 DEF LinkResult

\* An event that is new and has its parent is accepted.
LEMMA LinkAccepts ==
    ASSUME NEW run, NEW e, e \notin run.ledger.events, HasParent(run.ledger.events, e)
    PROVE  LinkTx(run, e).ok
  BY DEF LinkTx, LinkResult

\* Linking one event keeps ledger and contexts sound.
LEMMA LinkSound ==
    ASSUME NEW run \in RunStates, NEW e \in Events, Sound(run), LinkTx(run, e).ok
    PROVE  Sound(LinkTx(run, e))
  <1> DEFINE r == LinkTx(run, e)
  <1>1. r \in RunStates
    BY LinkTxType
  <1>2. r.ledger \in Ledgers /\ r.ctx \in Contexts
    BY <1>1 DEF RunStates
  <1>3. run.ctx \in Contexts /\ run.ledger.events \in SUBSET Events
    BY DEF RunStates, Ledgers
  <1>4. Newest(r.ctx, r.ledger.events)
    <2>1. r.ctx = Touch(run.ctx, e) /\ r.ledger.events = run.ledger.events \cup {e}
      BY LinkOk, SMTT(40)
    <2>2. Newest(run.ctx, run.ledger.events)
      BY DEF Sound
    <2>3. Newest(Touch(run.ctx, e), run.ledger.events \cup {e})
      BY <1>3, <2>2, TouchNewest
    <2> QED BY <2>1, <2>3
  <1>5. Linked(r.ledger)
    <2>1. r.ledger = TryAddEvent(run.ledger, e)
      BY DEF LinkTx
    <2> QED BY <2>1, LedgerTheorem DEF Sound
  <1> QED BY <1>2, <1>4, <1>5 DEF Sound

-----------------------------------------------------------------------------
\* The events of the first k transactions of a block are new to a ledger, and
\* different from each other.
Taken(txs, k) == {txs[i] : i \in 1 .. k}
Fresh(txs, k, events) ==
    /\ Taken(txs, k) \subseteq Events \ events
    /\ \A i, j \in 1 .. k : txs[i] = txs[j] => i = j

\* One transaction more.
LEMMA FreshGrows ==
    ASSUME NEW n \in Nat, NEW k \in 1 .. n, NEW txs, NEW events
    PROVE  /\ k - 1 \in 0 .. n /\ k \in 0 .. n
           /\ Taken(txs, 0) = {} /\ Taken(txs, k) = Taken(txs, k - 1) \cup {txs[k]}
           /\ Fresh(txs, 0, events)
           /\ (Fresh(txs, k - 1, events) /\ txs[k] \in Events
                 /\ txs[k] \notin events \cup Taken(txs, k - 1)) => Fresh(txs, k, events)
  <1>1. k - 1 \in 0 .. n /\ k \in 0 .. n /\ 1 .. 0 = {} /\ 1 .. k = (1 .. k - 1) \cup {k}
    BY SMTT(40)
  <1>2. Taken(txs, 0) = {} /\ Taken(txs, k) = Taken(txs, k - 1) \cup {txs[k]}
    BY <1>1 DEF Taken
  <1>3. Fresh(txs, 0, events)
    BY <1>1, <1>2 DEF Fresh
  <1>4. ASSUME Fresh(txs, k - 1, events), txs[k] \in Events, txs[k] \notin events \cup Taken(txs, k - 1)
        PROVE  Fresh(txs, k, events)
    <2>1. Taken(txs, k) \subseteq Events \ events
      BY <1>2, <1>4 DEF Fresh
    <2>2. \A i \in 1 .. k - 1 : txs[i] # txs[k]
      BY <1>4 DEF Taken
    <2>3. \A i, j \in 1 .. k : txs[i] = txs[j] => i = j
      BY <1>1, <1>4, <2>2 DEF Fresh
    <2> QED BY <2>1, <2>3 DEF Fresh
  <1> QED BY <1>1, <1>2, <1>3, <1>4

\* Either second loop, as long as it does not fail, links every transaction.
LinksAll(run, txs, n) ==
    \A k \in 1 .. n : run[k].ok =>
        run[k - 1].ok /\ txs[k] \in Events /\ run[k] = LinkTx(run[k - 1], txs[k])

\* What a loop that links leaves at its end.
LEMMA LinksSound ==
    ASSUME NEW n \in Nat, NEW txs, NEW run \in [0 .. n -> RunStates],
           Sound(run[0]), LinksAll(run, txs, n), run[n].ok
    PROVE  /\ Sound(run[n]) /\ Fresh(txs, n, run[0].ledger.events)
           /\ run[n].ledger.events = run[0].ledger.events \cup Taken(txs, n)
  <1> DEFINE Good(k) == /\ Sound(run[k]) /\ Fresh(txs, k, run[0].ledger.events)
                        /\ run[k].ledger.events = run[0].ledger.events \cup Taken(txs, k)
             U == {k \in 0 .. n : run[k].ok => Good(k)}
  <1>1. 0 \in 0 .. n /\ n \in 0 .. n /\ 1 .. 0 = {}
    BY SMTT(40)
  <1>2. 0 \in U
    <2>1. Taken(txs, 0) = {}
      BY <1>1 DEF Taken
    <2>2. Fresh(txs, 0, run[0].ledger.events)
      BY <1>1, <2>1 DEF Fresh
    <2> QED BY <1>1, <2>1, <2>2
  <1>3. ASSUME NEW k \in 1 .. n, k - 1 \in U PROVE k \in U
    <2>1. k - 1 \in 0 .. n /\ k \in 0 .. n
      BY FreshGrows
    <2>2. ASSUME run[k].ok PROVE Good(k)
      <3>1. run[k - 1].ok /\ txs[k] \in Events /\ run[k] = LinkTx(run[k - 1], txs[k])
        BY <2>2 DEF LinksAll
      <3>2. Good(k - 1) /\ run[k - 1] \in RunStates
        BY <1>3, <2>1, <3>1
      <3>3. Sound(run[k])
        BY <2>2, <3>1, <3>2, LinkSound
      <3>4. txs[k] \notin run[k - 1].ledger.events /\ run[k].ledger.events = run[k - 1].ledger.events \cup {txs[k]}
        <4>1. LinkTx(run[k - 1], txs[k]).ok
          BY <2>2, <3>1
        <4>2. /\ txs[k] \notin run[k - 1].ledger.events
              /\ LinkTx(run[k - 1], txs[k]).ledger.events = run[k - 1].ledger.events \cup {txs[k]}
          BY <4>1, LinkOk, SMTT(40)
        <4> QED BY <3>1, <4>2
      <3>5. Fresh(txs, k, run[0].ledger.events)
        BY <3>1, <3>2, <3>4, FreshGrows
      <3>6. run[k].ledger.events = run[0].ledger.events \cup Taken(txs, k)
        BY <3>2, <3>4, FreshGrows
      <3> QED BY <3>3, <3>5, <3>6
    <2> QED BY <2>1, <2>2
  <1> HIDE DEF U, Good
  <1>4. \A k \in 0 .. n : k \in U
    BY <1>2, <1>3, LoopInduction
  <1> QED BY <1>1, <1>4 DEF U, Good

-----------------------------------------------------------------------------
\* A state of the right type, and the two loops at their start.
Typed(st) == st.ledger \in Ledgers /\ st.ctx \in Contexts
CheckStart(st) == [ok |-> TRUE, ctx |-> st.ctx, known |-> st.ledger.events]

\* The loops start with values of their types.
LEMMA StartType ==
    ASSUME NEW st, Typed(st)
    PROVE  /\ CheckStart(st) \in CheckStates /\ Running(st) \in RunStates /\ Refused(st) \in RunStates
           /\ CheckStart(st).ok /\ CheckStart(st).ctx = st.ctx /\ CheckStart(st).known = st.ledger.events
           /\ Running(st).ok /\ Running(st).ctx = st.ctx /\ Running(st).ledger = st.ledger
           /\ ~Refused(st).ok
  <1>1. st.ledger \in Ledgers /\ st.ctx \in Contexts /\ st.ledger.events \in SUBSET Events
    BY DEF Typed, Ledgers
  <1>2. CheckStart(st) \in CheckStates /\ CheckStart(st).ok
        /\ CheckStart(st).ctx = st.ctx /\ CheckStart(st).known = st.ledger.events
    BY <1>1 DEF CheckStart, CheckStates
  <1>3. Running(st) \in RunStates /\ Running(st).ok /\ Running(st).ctx = st.ctx /\ Running(st).ledger = st.ledger
    BY <1>1 DEF Running, RunStates
  <1>4. Refused(st) \in RunStates /\ ~Refused(st).ok
    BY <1>3, FailType DEF Refused
  <1> QED BY <1>2, <1>3, <1>4

\* A block as a function on its positions.
LEMMA BlockShape ==
    ASSUME NEW txs \in Seq(Txs)
    PROVE  /\ Len(txs) \in Nat /\ txs \in [1 .. Len(txs) -> Txs] /\ DOMAIN txs = 1 .. Len(txs)
           /\ ToSet(txs) = Taken(txs, Len(txs))
  <1>1. Len(txs) \in Nat /\ txs \in [1 .. Len(txs) -> Txs] /\ DOMAIN txs = 1 .. Len(txs)
    BY SMTT(40)
  <1> QED BY <1>1 DEF ToSet, Taken

\* A turn of the first loop that does not fail.
LEMMA CheckOk ==
    ASSUME NEW run \in CheckStates, NEW tx, CheckTx(run, tx).ok
    PROVE  /\ run.ok /\ Acceptable(run.ctx, run.known, tx) /\ tx \in Events
           /\ CheckTx(run, tx).ctx = Touch(run.ctx, tx) /\ CheckTx(run, tx).known = run.known \cup {tx}
  <1>1. ~[run EXCEPT !.ok = FALSE].ok
    BY SMTT(40) DEF CheckStates
  <1>2. run.ok /\ Acceptable(run.ctx, run.known, tx)
    BY <1>1 DEF CheckTx
  <1> QED BY <1>2 DEF CheckTx, Acceptable

\* A transaction that is acceptable passes.
LEMMA CheckPasses ==
    ASSUME NEW run, NEW tx, run.ok, Acceptable(run.ctx, run.known, tx)
    PROVE  CheckTx(run, tx).ok
  BY DEF CheckTx

\* A turn of the second loop that does not fail.
LEMMA ApplyOk ==
    ASSUME NEW run \in RunStates, NEW tx, ApplyTx(run, tx).ok
    PROVE  run.ok /\ tx \in Events /\ ApplyTx(run, tx) = LinkTx(run, tx)
  <1>1. run.ok /\ tx \in Events /\ Valid(run.ctx, tx)
    BY FailType DEF ApplyTx
  <1> QED BY <1>1 DEF ApplyTx

\* The values the two loops go through.
ChecksBy(c, st, txs, n) ==
    /\ c \in [0 .. n -> CheckStates] /\ c[0] = CheckStart(st)
    /\ \A k \in 1 .. n : c[k] = CheckTx(c[k - 1], txs[k])
AppliesBy(r, st, txs, n) ==
    /\ r \in [0 .. n -> RunStates] /\ r[0] = Running(st)
    /\ \A k \in 1 .. n : r[k] = ApplyTx(r[k - 1], txs[k])
LinksBy(r, st, txs, n) ==
    /\ r \in [0 .. n -> RunStates] /\ r[0] = Running(st)
    /\ \A k \in 1 .. n : r[k] = ApplyCheckedTx(r[k - 1], txs[k])
InStep(c, r, n) ==
    \A k \in 0 .. n : c[k].ok => r[k].ok /\ r[k].ctx = c[k].ctx /\ r[k].ledger.events = c[k].known

\* The first loop of the default build from a state.
LEMMA CheckLoop ==
    ASSUME NEW st, Typed(st), NEW n \in Nat, NEW txs \in [1 .. n -> Txs]
    PROVE  \E c : ChecksBy(c, st, txs, n) /\ Checking(CheckStart(st), txs) = c[n]
  <1>1. CheckStart(st) \in CheckStates
    BY StartType
  <1>2. PICK c \in [0 .. n -> CheckStates] :
           /\ c[0] = CheckStart(st) /\ \A k \in 1 .. n : c[k] = CheckTx(c[k - 1], txs[k])
           /\ Checking(CheckStart(st), txs) = c[n]
    BY <1>1, CheckRun
  <1> QED BY <1>2 DEF ChecksBy

\* The second loop of the default build from a state.
LEMMA ApplyLoop ==
    ASSUME NEW st, Typed(st), NEW n \in Nat, NEW txs \in [1 .. n -> Txs]
    PROVE  \E r : AppliesBy(r, st, txs, n) /\ Applying(Running(st), txs) = r[n]
  <1>1. Running(st) \in RunStates
    BY StartType
  <1>2. PICK r \in [0 .. n -> RunStates] :
           /\ r[0] = Running(st) /\ \A k \in 1 .. n : r[k] = ApplyTx(r[k - 1], txs[k])
           /\ Applying(Running(st), txs) = r[n]
    BY <1>1, ApplyRun
  <1> QED BY <1>2 DEF AppliesBy

\* The second loop of the parallel build from a state.
LEMMA LinkLoop ==
    ASSUME NEW st, Typed(st), NEW n \in Nat, NEW txs \in [1 .. n -> Events]
    PROVE  \E r : LinksBy(r, st, txs, n) /\ Linking(Running(st), txs) = r[n]
  <1>1. Running(st) \in RunStates
    BY StartType
  <1>2. PICK r \in [0 .. n -> RunStates] :
           /\ r[0] = Running(st) /\ \A k \in 1 .. n : r[k] = ApplyCheckedTx(r[k - 1], txs[k])
           /\ Linking(Running(st), txs) = r[n]
    BY <1>1, LinkRun
  <1> QED BY <1>2 DEF LinksBy

\* The second loop of the default build never fails: what the first one has
\* accepted one after the other, the second links one after the other.
LEMMA SecondLoop ==
    ASSUME NEW st, Typed(st), NEW n \in Nat, NEW txs \in [1 .. n -> Txs],
           NEW c, NEW r, ChecksBy(c, st, txs, n), AppliesBy(r, st, txs, n)
    PROVE  InStep(c, r, n)
  <1> USE DEF ChecksBy, AppliesBy
  <1> DEFINE Same(k) == r[k].ok /\ r[k].ctx = c[k].ctx /\ r[k].ledger.events = c[k].known
             U == {k \in 0 .. n : c[k].ok => Same(k)}
  <1>1. 0 \in U
    <2>1. 0 \in 0 .. n
      BY SMTT(40)
    <2>2. Same(0)
      BY StartType, SMTT(40)
    <2> QED BY <2>1, <2>2
  <1>2. ASSUME NEW k \in 1 .. n, k - 1 \in U PROVE k \in U
    <2>1. k - 1 \in 0 .. n /\ k \in 0 .. n
      BY FreshGrows
    <2>2. ASSUME c[k].ok PROVE Same(k)
      <3>0. c[k - 1] \in CheckStates /\ CheckTx(c[k - 1], txs[k]).ok /\ c[k] = CheckTx(c[k - 1], txs[k])
        BY <2>1, <2>2
      <3>1. /\ c[k - 1].ok /\ Acceptable(c[k - 1].ctx, c[k - 1].known, txs[k]) /\ txs[k] \in Events
            /\ CheckTx(c[k - 1], txs[k]).ctx = Touch(c[k - 1].ctx, txs[k])
            /\ CheckTx(c[k - 1], txs[k]).known = c[k - 1].known \cup {txs[k]}
        BY <3>0, CheckOk, SMTT(40)
      <3>2. Same(k - 1)
        BY <1>2, <3>1
      <3>3. /\ Valid(r[k - 1].ctx, txs[k]) /\ txs[k] \notin r[k - 1].ledger.events
            /\ HasParent(r[k - 1].ledger.events, txs[k])
        BY <3>1, <3>2 DEF Acceptable
      <3>4. LinkTx(r[k - 1], txs[k]).ok
        BY <3>3, LinkAccepts
      <3>5. r[k] = LinkTx(r[k - 1], txs[k])
        BY <3>1, <3>2, <3>3 DEF ApplyTx
      <3>6. /\ LinkTx(r[k - 1], txs[k]).ledger.events = r[k - 1].ledger.events \cup {txs[k]}
            /\ LinkTx(r[k - 1], txs[k]).ctx = Touch(r[k - 1].ctx, txs[k])
        BY <3>4, LinkOk, SMTT(40)
      <3> QED BY <3>0, <3>1, <3>2, <3>4, <3>5, <3>6
    <2> QED BY <2>1, <2>2
  <1> HIDE DEF U, Same
  <1>3. \A k \in 0 .. n : k \in U
    BY <1>1, <1>2, LoopInduction
  <1> QED BY <1>3 DEF U, Same, InStep

\* The default build, with its loops named.
LEMMA SerialShape ==
    ASSUME NEW st, NEW txs
    PROVE  ApplySerial(st, txs) = IF Checking(CheckStart(st), txs).ok
                                  THEN Applying(Running(st), txs) ELSE Refused(st)
  BY DEF ApplySerial, Checking, Applying, CheckStart

\* The parallel build, with its loop named.
LEMMA ParallelShape ==
    ASSUME NEW st, NEW txs
    PROVE  ApplyParallel(st, txs) =
              IF \A tx \in ToSet(txs) : Acceptable(st.ctx, st.ledger.events, tx)
              THEN Linking(Running(st), txs) ELSE Refused(st)
  BY DEF ApplyParallel, Linking

\* A block that the first loop accepts is applied to its end.
LEMMA CheckedApplies ==
    ASSUME NEW st, Typed(st), NEW txs \in Seq(Txs), Checking(CheckStart(st), txs).ok
    PROVE  Applying(Running(st), txs).ok
  <1>1. PICK n : n = Len(txs)
    BY SMTT(40)
  <1>2. n \in Nat /\ txs \in [1 .. n -> Txs]
    BY <1>1, BlockShape
  <1>4. PICK c : ChecksBy(c, st, txs, n) /\ Checking(CheckStart(st), txs) = c[n]
    BY <1>2, CheckLoop
  <1>5. PICK r : AppliesBy(r, st, txs, n) /\ Applying(Running(st), txs) = r[n]
    BY <1>2, ApplyLoop
  <1>6. InStep(c, r, n)
    BY <1>2, <1>4, <1>5, SecondLoop
  <1>7. n \in 0 .. n
    BY <1>2, SMTT(40)
  <1> QED BY <1>4, <1>5, <1>6, <1>7 DEF InStep

-----------------------------------------------------------------------------
\* The start of a loop is as sound as the state it starts from.
LEMMA SoundStart ==
    ASSUME NEW st, Sound(st)
    PROVE  Typed(st) /\ Sound(Running(st)) /\ Running(st) \in RunStates /\ Running(st).ledger = st.ledger
  <1>1. Typed(st)
    BY DEF Sound, Typed
  <1>2. Running(st).ctx = st.ctx /\ Running(st).ledger = st.ledger /\ Running(st) \in RunStates
    BY <1>1, StartType, SMTT(40)
  <1>3. Sound(Running(st))
    BY <1>2 DEF Sound
  <1> QED BY <1>1, <1>2, <1>3

\* What a block that was applied leaves.
Applied(run, st, txs) ==
    /\ Sound(run) /\ Fresh(txs, Len(txs), st.ledger.events)
    /\ run.ledger.events = st.ledger.events \cup ToSet(txs)

\* Either second loop that ends well has linked the whole block.
LEMMA LoopApplied ==
    ASSUME NEW st, Sound(st), NEW txs \in Seq(Txs), NEW n, n = Len(txs),
           NEW r \in [0 .. n -> RunStates], r[0] = Running(st), LinksAll(r, txs, n), r[n].ok
    PROVE  Applied(r[n], st, txs)
  <1>1. n \in Nat /\ ToSet(txs) = Taken(txs, n)
    BY BlockShape
  <1>2. Sound(r[0]) /\ r[0].ledger = st.ledger
    BY SoundStart
  <1>3. /\ Sound(r[n]) /\ Fresh(txs, n, r[0].ledger.events)
        /\ r[n].ledger.events = r[0].ledger.events \cup Taken(txs, n)
    BY <1>1, <1>2, LinksSound, SMTT(40)
  <1> QED BY <1>1, <1>2, <1>3 DEF Applied

\* apply_block of the default build.
LEMMA SerialApplied ==
    ASSUME NEW st, Sound(st), NEW txs \in Seq(Txs)
    PROVE  /\ ApplySerial(st, txs) \in RunStates
           /\ ApplySerial(st, txs).ok => Applied(ApplySerial(st, txs), st, txs)
  <1>1. PICK n : n = Len(txs)
    BY SMTT(40)
  <1>2. n \in Nat /\ txs \in [1 .. n -> Txs] /\ Typed(st)
    BY <1>1, BlockShape, SoundStart
  <1>3. PICK r : AppliesBy(r, st, txs, n) /\ Applying(Running(st), txs) = r[n]
    BY <1>2, ApplyLoop
  <1>4. n \in 0 .. n /\ \A k \in 1 .. n : k - 1 \in 0 .. n
    BY <1>2, SMTT(40)
  <1>5. LinksAll(r, txs, n)
    <2>1. ASSUME NEW k \in 1 .. n, r[k].ok
          PROVE  r[k - 1].ok /\ txs[k] \in Events /\ r[k] = LinkTx(r[k - 1], txs[k])
      <3>1. r[k - 1] \in RunStates /\ r[k] = ApplyTx(r[k - 1], txs[k]) /\ ApplyTx(r[k - 1], txs[k]).ok
        BY <1>3, <1>4, <2>1 DEF AppliesBy
      <3> QED BY <3>1, ApplyOk, SMTT(40)
    <2> QED BY <2>1 DEF LinksAll
  <1>6. r[n].ok => Applied(r[n], st, txs)
    BY <1>1, <1>3, <1>5, LoopApplied DEF AppliesBy
  <1>7. r[n] \in RunStates /\ Refused(st) \in RunStates /\ ~Refused(st).ok
    BY <1>2, <1>3, <1>4, StartType DEF AppliesBy
  <1>8. ApplySerial(st, txs) = r[n] \/ ApplySerial(st, txs) = Refused(st)
    BY <1>3, SerialShape
  <1> QED BY <1>6, <1>7, <1>8

\* apply_block of the parallel build.
LEMMA ParallelApplied ==
    ASSUME NEW st, Sound(st), NEW txs \in Seq(Txs)
    PROVE  /\ ApplyParallel(st, txs) \in RunStates
           /\ ApplyParallel(st, txs).ok => Applied(ApplyParallel(st, txs), st, txs)
  <1>1. PICK n : n = Len(txs)
    BY SMTT(40)
  <1>2. n \in Nat /\ txs \in [1 .. n -> Txs] /\ Typed(st) /\ ToSet(txs) = Taken(txs, n)
    BY <1>1, BlockShape, SoundStart
  <1>3. Refused(st) \in RunStates /\ ~Refused(st).ok
    BY <1>2, StartType
  <1>4. CASE \A tx \in ToSet(txs) : Acceptable(st.ctx, st.ledger.events, tx)
    <2>1. \A k \in 1 .. n : txs[k] \in Events
      BY <1>2, <1>4 DEF Acceptable, Taken
    <2>2. txs \in [1 .. n -> Events]
      BY <1>2, <2>1, SMTT(40)
    <2>3. PICK r : LinksBy(r, st, txs, n) /\ Linking(Running(st), txs) = r[n]
      BY <1>2, <2>2, LinkLoop
    <2>4. n \in 0 .. n
      BY <1>2, SMTT(40)
    <2>5. LinksAll(r, txs, n)
      BY <2>1, <2>3 DEF LinksAll, LinksBy, ApplyCheckedTx
    <2>6. r[n].ok => Applied(r[n], st, txs)
      BY <1>1, <2>3, <2>5, LoopApplied DEF LinksBy
    <2>7. ApplyParallel(st, txs) = r[n] /\ r[n] \in RunStates
      BY <1>4, <2>3, <2>4, ParallelShape DEF LinksBy
    <2> QED BY <2>6, <2>7
  <1>5. CASE ~\A tx \in ToSet(txs) : Acceptable(st.ctx, st.ledger.events, tx)
    BY <1>3, <1>5, ParallelShape
  <1> QED BY <1>4, <1>5

\* apply_block, in either build: a block that is applied leaves a sound state
\* with the events of the block, all of them new, and nothing else.
LEMMA BlockApplied ==
    ASSUME NEW b, NEW st, Sound(st), NEW txs \in Seq(Txs)
    PROVE  /\ ApplyBlock(b, st, txs) \in RunStates
           /\ ApplyBlock(b, st, txs).ok => Applied(ApplyBlock(b, st, txs), st, txs)
  BY SerialApplied, ParallelApplied DEF ApplyBlock

-----------------------------------------------------------------------------
\* No author twice, no parent with its child, on the first n positions.
FlatTo(txs, n) ==
    \A i, j \in 1 .. n :
        (i # j /\ {txs[i], txs[j]} \subseteq Events) =>
            Author[txs[i]] # Author[txs[j]] /\ Prev[txs[i]] # txs[j]

\* The first k transactions are acceptable to the state before the block.
AcceptableTo(st, txs, k) == \A i \in 1 .. k : Acceptable(st.ctx, st.ledger.events, txs[i])

\* What the first loop knows, in terms of the state before the block.
Tracks(run, st, txs, k) ==
    /\ run.known = st.ledger.events \cup Taken(txs, k)
    /\ \A a \in Authors : (\A i \in 1 .. k : Author[txs[i]] # a) => run.ctx[a] = st.ctx[a]

\* touch leaves the other authors alone.
LEMMA TouchOther ==
    ASSUME NEW ctx \in Contexts, NEW e \in Events, NEW a \in Authors, a # Author[e]
    PROVE  Touch(ctx, e)[a] = ctx[a]
  BY TouchType, SMTT(40)

\* In a flat block a transaction is acceptable to the state before the block
\* just if it is acceptable after the transactions before it.
LEMMA FlatLocal ==
    ASSUME NEW st, NEW n \in Nat, NEW k \in 1 .. n, NEW txs, NEW run, FlatTo(txs, n),
           AcceptableTo(st, txs, k - 1), Tracks(run, st, txs, k - 1)
    PROVE  Acceptable(run.ctx, run.known, txs[k]) <=> Acceptable(st.ctx, st.ledger.events, txs[k])
  <1>1. \A i \in 1 .. k - 1 : i \in 1 .. n /\ i # k
    BY SMTT(40)
  <1>2. CASE txs[k] \in Events
    <2>1. \A i \in 1 .. k - 1 : Author[txs[i]] # Author[txs[k]] /\ Prev[txs[k]] # txs[i]
      BY <1>1, <1>2 DEF FlatTo, AcceptableTo, Acceptable
    <2>2. txs[k] \notin Taken(txs, k - 1) /\ Prev[txs[k]] \notin Taken(txs, k - 1)
      BY <2>1 DEF Taken
    <2>3. Author[txs[k]] \in Authors
      BY <1>2 DEF Authors
    <2>4. run.ctx[Author[txs[k]]] = st.ctx[Author[txs[k]]]
      BY <2>1, <2>3 DEF Tracks
    <2>5. Valid(run.ctx, txs[k]) <=> Valid(st.ctx, txs[k])
      BY <2>4 DEF Valid
    <2>6. /\ txs[k] \in run.known <=> txs[k] \in st.ledger.events
          /\ HasParent(run.known, txs[k]) <=> HasParent(st.ledger.events, txs[k])
      BY <2>2 DEF Tracks, HasParent
    <2> QED BY <2>5, <2>6 DEF Acceptable
  <1>3. CASE txs[k] \notin Events
    BY <1>3 DEF Acceptable
  <1> QED BY <1>2, <1>3, SMTT(40)

\* The first loop accepts what the state before the block accepts.
Decides(c, st, txs, n) == \A k \in 0 .. n : c[k].ok <=> AcceptableTo(st, txs, k)

\* The first loop over a flat block.
LEMMA FlatLoop ==
    ASSUME NEW st, Typed(st), NEW n \in Nat, NEW txs \in [1 .. n -> Txs], FlatTo(txs, n),
           NEW c, ChecksBy(c, st, txs, n)
    PROVE  Decides(c, st, txs, n)
  <1> DEFINE Good(k) == /\ c[k].ok <=> AcceptableTo(st, txs, k)
                        /\ c[k].ok => Tracks(c[k], st, txs, k)
             U == {k \in 0 .. n : Good(k)}
  <1>1. 0 \in 0 .. n /\ n \in 0 .. n /\ 1 .. 0 = {}
    BY SMTT(40)
  <1>2. 0 \in U
    <2>1. Taken(txs, 0) = {} /\ AcceptableTo(st, txs, 0)
      BY <1>1 DEF Taken, AcceptableTo
    <2>2. c[0].ok /\ c[0].ctx = st.ctx /\ c[0].known = st.ledger.events
      BY StartType DEF ChecksBy
    <2>3. Tracks(c[0], st, txs, 0)
      BY <2>1, <2>2 DEF Tracks
    <2> QED BY <1>1, <2>1, <2>2, <2>3
  <1>3. ASSUME NEW k \in 1 .. n, k - 1 \in U PROVE k \in U
    <2>1. k - 1 \in 0 .. n /\ k \in 0 .. n /\ Taken(txs, k) = Taken(txs, k - 1) \cup {txs[k]}
      BY FreshGrows
    <2>2. c[k - 1] \in CheckStates /\ c[k] = CheckTx(c[k - 1], txs[k])
      BY <2>1 DEF ChecksBy
    <2>3. 1 .. k = (1 .. k - 1) \cup {k}
      BY SMTT(40)
    <2>4. AcceptableTo(st, txs, k) <=> AcceptableTo(st, txs, k - 1) /\ Acceptable(st.ctx, st.ledger.events, txs[k])
      BY <2>3 DEF AcceptableTo
    <2>5. CASE c[k].ok
      <3>1. /\ c[k - 1].ok /\ Acceptable(c[k - 1].ctx, c[k - 1].known, txs[k]) /\ txs[k] \in Events
            /\ c[k].ctx = Touch(c[k - 1].ctx, txs[k]) /\ c[k].known = c[k - 1].known \cup {txs[k]}
        BY <2>2, <2>5, CheckOk, SMTT(40)
      <3>2. AcceptableTo(st, txs, k - 1) /\ Tracks(c[k - 1], st, txs, k - 1)
        BY <1>3, <3>1
      <3>3. AcceptableTo(st, txs, k)
        BY <2>4, <3>1, <3>2, FlatLocal
      <3>4. ASSUME NEW a \in Authors, \A i \in 1 .. k : Author[txs[i]] # a
            PROVE  c[k].ctx[a] = st.ctx[a]
        <4>1. c[k - 1].ctx \in Contexts
          BY <2>2 DEF CheckStates
        <4>2. a # Author[txs[k]] /\ c[k - 1].ctx[a] = st.ctx[a]
          BY <2>3, <3>2, <3>4 DEF Tracks
        <4>3. Touch(c[k - 1].ctx, txs[k])[a] = c[k - 1].ctx[a]
          BY <3>1, <4>1, <4>2, TouchOther
        <4> QED BY <3>1, <4>2, <4>3
      <3>5. Tracks(c[k], st, txs, k)
        BY <2>1, <3>1, <3>2, <3>4 DEF Tracks
      <3> QED BY <2>1, <2>5, <3>3, <3>5
    <2>6. CASE ~c[k].ok
      <3>1. ~AcceptableTo(st, txs, k)
        <4>1. SUFFICES ASSUME AcceptableTo(st, txs, k) PROVE FALSE
          BY SMTT(40)
        <4>2. c[k - 1].ok /\ Tracks(c[k - 1], st, txs, k - 1) /\ AcceptableTo(st, txs, k - 1)
          BY <1>3, <2>4, <4>1
        <4>3. Acceptable(c[k - 1].ctx, c[k - 1].known, txs[k])
          BY <2>4, <4>1, <4>2, FlatLocal
        <4> QED BY <2>2, <2>6, <4>2, <4>3, CheckPasses
      <3> QED BY <2>1, <2>6, <3>1
    <2> QED BY <2>5, <2>6, SMTT(40)
  <1> HIDE DEF U, Good
  <1>4. \A k \in 0 .. n : k \in U
    BY <1>2, <1>3, LoopInduction
  <1> QED BY <1>4 DEF U, Good, Decides

\* The two second loops do the same to a block that both first checks accept.
LEMMA FlatSame ==
    ASSUME NEW n \in Nat, NEW txs, NEW st, NEW c, NEW r, NEW l,
           AppliesBy(r, st, txs, n), LinksBy(l, st, txs, n), InStep(c, r, n),
           \A k \in 0 .. n : c[k].ok
    PROVE  l[n] = r[n]
  <1> DEFINE U == {k \in 0 .. n : l[k] = r[k]}
  <1>1. 0 \in 0 .. n /\ n \in 0 .. n
    BY SMTT(40)
  <1>2. 0 \in U
    BY <1>1 DEF AppliesBy, LinksBy
  <1>3. ASSUME NEW k \in 1 .. n, k - 1 \in U PROVE k \in U
    <2>1. k - 1 \in 0 .. n /\ k \in 0 .. n
      BY FreshGrows
    <2>2. r[k - 1] \in RunStates /\ r[k] = ApplyTx(r[k - 1], txs[k]) /\ ApplyTx(r[k - 1], txs[k]).ok
      BY <2>1 DEF AppliesBy, InStep
    <2>3. r[k - 1].ok /\ ApplyTx(r[k - 1], txs[k]) = LinkTx(r[k - 1], txs[k])
      BY <2>2, ApplyOk, SMTT(40)
    <2>4. l[k] = ApplyCheckedTx(l[k - 1], txs[k]) /\ l[k - 1] = r[k - 1]
      BY <1>3 DEF LinksBy
    <2>5. l[k] = LinkTx(r[k - 1], txs[k])
      BY <2>3, <2>4 DEF ApplyCheckedTx
    <2> QED BY <2>1, <2>2, <2>3, <2>5
  <1> HIDE DEF U
  <1>4. \A k \in 0 .. n : k \in U
    BY <1>2, <1>3, LoopInduction
  <1> QED BY <1>1, <1>4 DEF U

\* The two builds agree on a flat block, whatever the state before it.
LEMMA FlatAgree ==
    ASSUME NEW st, Typed(st), NEW txs \in Seq(Txs), Flat(txs)
    PROVE  ApplySerial(st, txs) = ApplyParallel(st, txs)
  <1>1. PICK n : n = Len(txs)
    BY SMTT(40)
  <1>2. n \in Nat /\ txs \in [1 .. n -> Txs] /\ ToSet(txs) = Taken(txs, n) /\ DOMAIN txs = 1 .. n
    BY <1>1, BlockShape
  <1>3. FlatTo(txs, n)
    BY <1>2 DEF Flat, FlatTo
  <1>4. PICK c : ChecksBy(c, st, txs, n) /\ Checking(CheckStart(st), txs) = c[n]
    BY <1>2, CheckLoop
  <1>5. PICK r : AppliesBy(r, st, txs, n) /\ Applying(Running(st), txs) = r[n]
    BY <1>2, ApplyLoop
  <1>6. InStep(c, r, n) /\ Decides(c, st, txs, n)
    BY <1>2, <1>3, <1>4, <1>5, SecondLoop, FlatLoop
  <1>7. n \in 0 .. n /\ \A k \in 0 .. n : 1 .. k \subseteq 1 .. n
    BY <1>2, SMTT(40)
  <1>8. (\A tx \in ToSet(txs) : Acceptable(st.ctx, st.ledger.events, tx)) <=> AcceptableTo(st, txs, n)
    BY <1>2 DEF Taken, AcceptableTo
  <1>9. CASE AcceptableTo(st, txs, n)
    <2>1. \A k \in 0 .. n : c[k].ok
      BY <1>6, <1>7, <1>9 DEF Decides, AcceptableTo
    <2>2. \A k \in 1 .. n : txs[k] \in Events
      BY <1>9 DEF AcceptableTo, Acceptable
    <2>3. txs \in [1 .. n -> Events]
      BY <1>2, <2>2, SMTT(40)
    <2>4. PICK l : LinksBy(l, st, txs, n) /\ Linking(Running(st), txs) = l[n]
      BY <1>2, <2>3, LinkLoop
    <2>5. l[n] = r[n]
      BY <1>2, <1>5, <1>6, <2>1, <2>4, FlatSame
    <2>6. ApplySerial(st, txs) = r[n]
      BY <1>4, <1>5, <1>7, <2>1, SerialShape
    <2>7. ApplyParallel(st, txs) = l[n]
      BY <1>8, <1>9, <2>4, ParallelShape
    <2> QED BY <2>5, <2>6, <2>7
  <1>10. CASE ~AcceptableTo(st, txs, n)
    <2>1. ~c[n].ok
      BY <1>6, <1>7, <1>10 DEF Decides
    <2>2. ApplySerial(st, txs) = Refused(st)
      BY <1>4, <2>1, SerialShape
    <2>3. ApplyParallel(st, txs) = Refused(st)
      BY <1>8, <1>10, ParallelShape
    <2> QED BY <2>2, <2>3
  <1> QED BY <1>9, <1>10, SMTT(40)

-----------------------------------------------------------------------------
\* What a replay goes through: a run that has not failed is sound.
SoundRuns == {run \in RunStates : run.ok => Sound(run)}

\* One block of restore_from_store.
ReplayTurn(b, run, txs) == IF run.ok THEN ApplyBlock(b, run, txs) ELSE run

\* A block keeps the run sound.
LEMMA ReplayTurnType ==
    ASSUME NEW b, NEW run \in SoundRuns, NEW txs \in Seq(Txs)
    PROVE  ReplayTurn(b, run, txs) \in SoundRuns
  <1>1. CASE run.ok
    <2>1. Sound(run)
      BY <1>1 DEF SoundRuns
    <2>2. /\ ApplyBlock(b, run, txs) \in RunStates
          /\ ApplyBlock(b, run, txs).ok => Applied(ApplyBlock(b, run, txs), run, txs)
      BY <2>1, BlockApplied, SMTT(40)
    <2> QED BY <1>1, <2>2 DEF ReplayTurn, SoundRuns, Applied
  <1>2. CASE ~run.ok
    BY <1>2 DEF ReplayTurn
  <1> QED BY <1>1, <1>2, SMTT(40)

\* The loop over the blocks, and the recursion it is defined by.
Replaying(b, base, blocks) == FoldLeft(LAMBDA run, block : ReplayTurn(b, run, block), base, blocks)
ReplayEquation(iter, b, base, blocks) ==
    iter = [s \in SUBSET DOMAIN blocks |->
              IF s = {} THEN base
              ELSE ReplayTurn(b, iter[s \ {Max(s)}], blocks[Max(s)])]

\* The fold is a value of that recursion.
LEMMA ReplayUnfolds ==
    ASSUME NEW b, NEW base, NEW blocks
    PROVE  Replaying(b, base, blocks) = (CHOOSE iter : ReplayEquation(iter, b, base, blocks))[DOMAIN blocks]
  BY SMTT(40) DEF Replaying, FoldLeft, MapThenFoldSet, ReplayEquation

\* The values that the loop goes through, up to its result.
ReplaysTo(run, b, base, blocks, n) ==
    /\ run \in [0 .. n -> SoundRuns] /\ run[0] = base
    /\ \A k \in 1 .. n : run[k] = ReplayTurn(b, run[k - 1], blocks[k])
    /\ Replaying(b, base, blocks) = run[n]

\* restore_from_store, block by block.
LEMMA ReplayRun ==
    ASSUME NEW b, NEW n \in Nat, NEW blocks \in [1 .. n -> Seq(Txs)], NEW base \in SoundRuns
    PROVE  \E run : ReplaysTo(run, b, base, blocks, n)
  <1>1. PICK V : V = SoundRuns
    BY SMTT(40)
  <1>0. base \in V /\ \A v \in V, k \in 1 .. n : ReplayTurn(b, v, blocks[k]) \in V
    BY <1>1, ReplayTurnType
  <1>2. PICK step : IsStep(step, V, n) /\ \A v \in V, k \in 1 .. n : step[<<v, k>>] = ReplayTurn(b, v, blocks[k])
    <2> DEFINE f == [p \in V \X (1 .. n) |-> ReplayTurn(b, p[1], blocks[p[2]])]
    <2>1. f \in [V \X (1 .. n) -> V] /\ \A v \in V, k \in 1 .. n : f[<<v, k>>] = ReplayTurn(b, v, blocks[k])
      BY <1>0, SMTT(40)
    <2> QED BY <2>1 DEF IsStep
  <1>3. DOMAIN blocks = 1 .. n
    OBVIOUS
  <1>4. PICK iter : IsTable(iter, V, base, step, n)
    BY <1>0, <1>2, SequenceFold
  <1>5. \A s \in SUBSET (1 .. n) : s # {} => Max(s) \in 1 .. n
    BY MaxMember
  <1>6. \A s \in SUBSET (1 .. n) :
           iter[s] = IF s = {} THEN base ELSE ReplayTurn(b, iter[s \ {Max(s)}], blocks[Max(s)])
    BY <1>2, <1>4, <1>5 DEF IsTable
  <1>7. ReplayEquation(iter, b, base, blocks)
    BY <1>3, <1>4, <1>6 DEF ReplayEquation, IsTable
  <1>8. PICK c : c = (CHOOSE x : ReplayEquation(x, b, base, blocks)) /\ ReplayEquation(c, b, base, blocks)
    BY <1>7
  <1>9. \A s \in SUBSET (1 .. n) :
           c[s] = IF s = {} THEN base ELSE ReplayTurn(b, c[s \ {Max(s)}], blocks[Max(s)])
    BY <1>3, <1>8 DEF ReplayEquation
  <1>10. Follows(c, V, base, step, n)
    BY <1>2, <1>5, <1>9 DEF Follows
  <1>11. PICK run : Unrolls(run, c, V, base, step, n)
    BY <1>0, <1>2, <1>10, FoldRun
  <1>12. \A k \in 1 .. n : k - 1 \in 0 .. n
    BY SMTT(40)
  <1>13. \A k \in 1 .. n : run[k] = ReplayTurn(b, run[k - 1], blocks[k])
    BY <1>2, <1>11, <1>12 DEF IsRun, Unrolls
  <1>14. Replaying(b, base, blocks) = c[1 .. n]
    BY <1>3, <1>8, ReplayUnfolds
  <1> QED BY <1>11, <1>13, <1>14, <1>1 DEF IsRun, Unrolls, ReplaysTo

-----------------------------------------------------------------------------
\* The ledger that the blocks of a chain make.
Rebuilt(b, blocks) == Replaying(b, Running(EmptyState), blocks)

\* The values restore_from_store goes through.
ReplaysBy(run, b, blocks, n) ==
    /\ run \in [0 .. n -> SoundRuns] /\ run[0] = Running(EmptyState)
    /\ \A k \in 1 .. n : run[k] = ReplayTurn(b, run[k - 1], blocks[k])
    /\ Rebuilt(b, blocks) = run[n]

\* Replay is the fold of ReplayTurn.
LEMMA ReplayShape ==
    ASSUME NEW blocks PROVE Replay(blocks) = Rebuilt(build, blocks)
  BY SMTT(40) DEF Replay, Rebuilt, Replaying, ReplayTurn

\* A node starts with nothing, and that is sound.
LEMMA EmptySound ==
    /\ Sound(EmptyState) /\ EmptyState \in States /\ EmptyState.ledger.events = {}
    /\ Running(EmptyState) \in SoundRuns /\ Running(EmptyState).ok
    /\ Running(EmptyState).ledger.events = {}
  <1>1. EmptyState.ledger = EmptyLedger /\ EmptyState.ctx = NewContext
    BY DEF EmptyState
  <1>2. EmptyLedger \in Ledgers /\ EmptyLedger.events = {}
    BY DEF EmptyLedger, Ledgers
  <1>3. NewContext \in Contexts /\ \A a \in Authors : NewContext[a] = 0
    BY SMTT(40) DEF NewContext, Contexts
  <1>4. Newest(NewContext, {})
    BY <1>3 DEF Newest
  <1>5. Linked(EmptyLedger)
    BY LedgerTheorem
  <1>6. Sound(EmptyState)
    BY <1>1, <1>2, <1>3, <1>4, <1>5 DEF Sound
  <1>7. /\ Sound(Running(EmptyState)) /\ Running(EmptyState) \in RunStates
        /\ Running(EmptyState).ledger = EmptyState.ledger
    BY <1>6, SoundStart
  <1>8. EmptyState \in States
    BY <1>2, <1>3 DEF EmptyState, States
  <1>9. Running(EmptyState).ok
    BY DEF Running
  <1> QED BY <1>1, <1>2, <1>6, <1>7, <1>8, <1>9 DEF SoundRuns

\* A replay, block by block.
LEMMA ReplayLoop ==
    ASSUME NEW b, NEW n \in Nat, NEW blocks \in [1 .. n -> Seq(Txs)]
    PROVE  \E run : ReplaysBy(run, b, blocks, n)
  <1>1. PICK base : base = Running(EmptyState)
    BY SMTT(40)
  <1>2. base \in SoundRuns
    BY <1>1, EmptySound
  <1>3. PICK run : ReplaysTo(run, b, base, blocks, n)
    BY <1>2, ReplayRun
  <1> QED BY <1>1, <1>3 DEF ReplaysBy, Rebuilt, ReplaysTo

\* The transactions of the first k blocks.
TxsTo(blocks, k) == UNION {ToSet(blocks[h]) : h \in 1 .. k}

\* As long as a replay does not fail, it has the transactions of the blocks so far.
LEMMA ReplayEvents ==
    ASSUME NEW b, NEW n \in Nat, NEW blocks \in [1 .. n -> Seq(Txs)],
           NEW run, ReplaysBy(run, b, blocks, n)
    PROVE  \A k \in 0 .. n : run[k].ok => run[k].ledger.events = TxsTo(blocks, k)
  <1> DEFINE U == {k \in 0 .. n : run[k].ok => run[k].ledger.events = TxsTo(blocks, k)}
  <1>1. 0 \in 0 .. n /\ n \in 0 .. n /\ 1 .. 0 = {}
    BY SMTT(40)
  <1>2. 0 \in U
    <2>1. TxsTo(blocks, 0) = {}
      BY <1>1 DEF TxsTo
    <2> QED BY <1>1, <2>1, EmptySound DEF ReplaysBy
  <1>3. ASSUME NEW k \in 1 .. n, k - 1 \in U PROVE k \in U
    <2>1. k - 1 \in 0 .. n /\ k \in 0 .. n /\ 1 .. k = (1 .. k - 1) \cup {k}
      BY SMTT(40)
    <2>2. TxsTo(blocks, k) = TxsTo(blocks, k - 1) \cup ToSet(blocks[k])
      BY <2>1 DEF TxsTo
    <2>3. ASSUME run[k].ok PROVE run[k].ledger.events = TxsTo(blocks, k)
      <3>1. run[k - 1] \in SoundRuns /\ run[k] = ReplayTurn(b, run[k - 1], blocks[k])
        BY <2>1 DEF ReplaysBy
      <3>2. run[k - 1].ok /\ run[k] = ApplyBlock(b, run[k - 1], blocks[k])
        BY <2>3, <3>1 DEF ReplayTurn
      <3>3. Sound(run[k - 1]) /\ blocks[k] \in Seq(Txs) /\ ApplyBlock(b, run[k - 1], blocks[k]).ok
        BY <2>3, <3>1, <3>2 DEF SoundRuns
      <3>4. Applied(ApplyBlock(b, run[k - 1], blocks[k]), run[k - 1], blocks[k])
        BY <3>3, BlockApplied
      <3> QED BY <1>3, <2>2, <3>2, <3>4 DEF Applied
    <2> QED BY <2>1, <2>3
  <1> HIDE DEF U
  <1>4. \A k \in 0 .. n : k \in U
    BY <1>2, <1>3, LoopInduction
  <1> QED BY <1>4 DEF U

\* No transaction has two places in the first n blocks.
OnceTo(blocks, n) ==
    \A g, h \in 1 .. n : \A i \in DOMAIN blocks[g], j \in DOMAIN blocks[h] :
        blocks[g][i] = blocks[h][j] => g = h /\ i = j

\* A block of new transactions keeps every transaction in one place.
LEMMA OnceGrows ==
    ASSUME NEW n \in Nat, NEW blocks \in [1 .. n -> Seq(Txs)], NEW k \in 1 .. n,
           OnceTo(blocks, k - 1), Fresh(blocks[k], Len(blocks[k]), TxsTo(blocks, k - 1))
    PROVE  OnceTo(blocks, k)
  <1>1. PICK txs : txs = blocks[k]
    BY SMTT(40)
  <1>2. 1 .. k = (1 .. k - 1) \cup {k} /\ txs \in Seq(Txs)
    BY <1>1, SMTT(40)
  <1>3. DOMAIN txs = 1 .. Len(txs) /\ ToSet(txs) = Taken(txs, Len(txs))
    BY <1>2, BlockShape
  <1>4. \A i, j \in DOMAIN txs : txs[i] = txs[j] => i = j
    BY <1>1, <1>3 DEF Fresh
  <1>5. ASSUME NEW h \in 1 .. k - 1, NEW i \in DOMAIN blocks[h], NEW j \in DOMAIN txs
        PROVE  blocks[h][i] # txs[j]
    <2>1. blocks[h][i] \in TxsTo(blocks, k - 1)
      <3>1. blocks[h][i] \in ToSet(blocks[h])
        BY DEF ToSet
      <3> QED BY <3>1 DEF TxsTo
    <2>2. txs[j] \notin TxsTo(blocks, k - 1)
      BY <1>1, <1>3 DEF Fresh, Taken
    <2> QED BY <2>1, <2>2
  <1>6. ASSUME NEW g \in 1 .. k, NEW h \in 1 .. k, NEW i \in DOMAIN blocks[g], NEW j \in DOMAIN blocks[h],
               blocks[g][i] = blocks[h][j]
        PROVE  g = h /\ i = j
    <2>1. CASE g \in 1 .. k - 1 /\ h \in 1 .. k - 1
      BY <1>6, <2>1 DEF OnceTo
    <2>2. CASE g = k /\ h = k
      BY <1>1, <1>4, <1>6, <2>2
    <2>3. CASE g \in 1 .. k - 1 /\ h = k
      BY <1>1, <1>5, <1>6, <2>3
    <2>4. CASE g = k /\ h \in 1 .. k - 1
      BY <1>1, <1>5, <1>6, <2>4
    <2> QED BY <1>2, <2>1, <2>2, <2>3, <2>4
  <1> QED BY <1>6 DEF OnceTo

\* A replay that does not fail has met every transaction in one place: apply_block
\* takes none that the ledger holds, nor one twice.
LEMMA ReplayOnce ==
    ASSUME NEW b, NEW n \in Nat, NEW blocks \in [1 .. n -> Seq(Txs)],
           NEW run, ReplaysBy(run, b, blocks, n), run[n].ok
    PROVE  OnceTo(blocks, n)
  <1> DEFINE U == {k \in 0 .. n : run[k].ok => OnceTo(blocks, k)}
  <1>1. 0 \in 0 .. n /\ n \in 0 .. n /\ 1 .. 0 = {}
    BY SMTT(40)
  <1>2. 0 \in U
    BY <1>1 DEF OnceTo
  <1>3. ASSUME NEW k \in 1 .. n, k - 1 \in U PROVE k \in U
    <2>1. k - 1 \in 0 .. n /\ k \in 0 .. n
      BY SMTT(40)
    <2>2. ASSUME run[k].ok PROVE OnceTo(blocks, k)
      <3>1. run[k - 1] \in SoundRuns /\ run[k] = ReplayTurn(b, run[k - 1], blocks[k])
        BY <2>1 DEF ReplaysBy
      <3>2. run[k - 1].ok /\ run[k] = ApplyBlock(b, run[k - 1], blocks[k])
        BY <2>2, <3>1 DEF ReplayTurn
      <3>3. Sound(run[k - 1]) /\ blocks[k] \in Seq(Txs) /\ ApplyBlock(b, run[k - 1], blocks[k]).ok
        BY <2>2, <3>1, <3>2 DEF SoundRuns
      <3>4. Applied(ApplyBlock(b, run[k - 1], blocks[k]), run[k - 1], blocks[k])
        BY <3>3, BlockApplied
      <3>5. run[k - 1].ledger.events = TxsTo(blocks, k - 1)
        BY <2>1, <3>2, ReplayEvents
      <3>6. Fresh(blocks[k], Len(blocks[k]), TxsTo(blocks, k - 1))
        BY <3>4, <3>5 DEF Applied
      <3>7. OnceTo(blocks, k - 1)
        BY <1>3, <3>2
      <3> QED BY <3>6, <3>7, OnceGrows
    <2> QED BY <2>1, <2>2
  <1> HIDE DEF U
  <1>4. \A k \in 0 .. n : k \in U
    BY <1>2, <1>3, LoopInduction
  <1> QED BY <1>1, <1>4 DEF U

\* The first n elements are the same.
AgreeAt(s, t, n) == s[n] = t[n]
SameTo(s, t, n, m) == \A k \in 1 .. n : k \in 1 .. m /\ t[k] = s[k]

\* Two replays that see the same first n blocks agree on them.
LEMMA ReplaysAgree ==
    ASSUME NEW b, NEW n \in Nat, NEW m, NEW blocks, NEW more, NEW run, NEW longer,
           ReplaysBy(run, b, blocks, n), ReplaysBy(longer, b, more, m),
           SameTo(blocks, more, n, m)
    PROVE  AgreeAt(longer, run, n)
  <1> DEFINE U == {k \in 0 .. n : longer[k] = run[k]}
  <1>1. 0 \in 0 .. n /\ n \in 0 .. n
    BY SMTT(40)
  <1>2. 0 \in U
    BY <1>1 DEF ReplaysBy
  <1>3. ASSUME NEW k \in 1 .. n, k - 1 \in U PROVE k \in U
    <2>1. k - 1 \in 0 .. n /\ k \in 0 .. n
      BY SMTT(40)
    <2> QED BY <1>3, <2>1 DEF ReplaysBy, SameTo
  <1> HIDE DEF U
  <1>4. \A k \in 0 .. n : k \in U
    BY <1>2, <1>3, LoopInduction
  <1> QED BY <1>1, <1>4 DEF U, AgreeAt

-----------------------------------------------------------------------------
Blocks == Seq(Txs)
Snapshots == Seq(Blocks) \X BOOLEAN

\* What a save and a restart rely on: a node that serves started from a file and
\* has its blocks, or has a slashing state; what is renamed is its own snapshot.
DiskInv ==
    /\ chain \in Seq(Blocks) /\ slashing \in BOOLEAN
    /\ file = <<>> \/ file \in Snapshots
    /\ (Serving /\ file = <<>>) => slashing
    /\ (Serving /\ file # <<>>) => IsPrefix(file[1], chain)
    /\ proc = "rename" => tmp = <<chain, slashing>> /\ ~slashing

\* A prefix, element by element.
LEMMA PrefixElements ==
    ASSUME NEW S, NEW s \in Seq(S), NEW t \in Seq(S)
    PROVE  IsPrefix(s, t) <=> /\ Len(s) <= Len(t)
                              /\ \A k \in 1 .. Len(s) : s[k] = t[k]
  <1>1. ASSUME Len(s) <= Len(t)
        PROVE  SubSeq(s, 1, Len(s)) = SubSeq(t, 1, Len(s)) <=> \A k \in 1 .. Len(s) : s[k] = t[k]
    <2>1. SubSeq(s, 1, Len(s)) = s
      BY SMTT(40)
    <2>2. \A k \in 1 .. Len(s) : SubSeq(t, 1, Len(s))[k] = t[k]
      BY <1>1, SMTT(40)
    <2>3. SubSeq(t, 1, Len(s)) \in Seq(S) /\ Len(SubSeq(t, 1, Len(s))) = Len(s)
      BY <1>1, SMTT(40)
    <2> QED BY <2>1, <2>2, <2>3, SMTT(40)
  <1> QED BY <1>1, SMTT(40) DEF IsPrefix

\* A chain is a prefix of itself, and of itself with one block more.
LEMMA PrefixGrows ==
    ASSUME NEW S, NEW s \in Seq(S), NEW t \in Seq(S), NEW e \in S
    PROVE  /\ IsPrefix(s, s)
           /\ IsPrefix(s, t) => IsPrefix(s, Append(t, e))
  <1>1. Append(t, e) \in Seq(S) /\ Len(Append(t, e)) = Len(t) + 1
    BY SMTT(40)
  <1>2. \A k \in 1 .. Len(t) : Append(t, e)[k] = t[k]
    BY SMTT(40)
  <1>3. IsPrefix(s, s)
    BY PrefixElements, SMTT(40)
  <1>4. ASSUME IsPrefix(s, t) PROVE IsPrefix(s, Append(t, e))
    <2>1. Len(s) <= Len(t) /\ \A k \in 1 .. Len(s) : s[k] = t[k]
      BY <1>4, PrefixElements, SMTT(40)
    <2>2. Len(s) <= Len(Append(t, e)) /\ \A k \in 1 .. Len(s) : s[k] = Append(t, e)[k]
      BY <1>1, <1>2, <2>1, SMTT(40)
    <2> QED BY <1>1, <2>2, PrefixElements
  <1> QED BY <1>3, <1>4, SMTT(40)

\* The blocks that consensus may decide on are sequences of transactions.
LEMMA BlockType == ValidBlocks \subseteq Blocks
  BY BlockAssumption, SMTT(40) DEF ValidBlocks, BoundedSeq, Blocks

-----------------------------------------------------------------------------
\* Commits, failed saves, crashes and restarts keep the invariant.
LEMMA DiskStep == DiskInv /\ [Next]_vars => DiskInv'
  <1> SUFFICES ASSUME DiskInv, [Next]_vars PROVE DiskInv'
    BY SMTT(40)
  <1> USE DEF disk, memory, Serving
  <1>1. <<>> \in Seq(Blocks) /\ FALSE \in BOOLEAN /\ TRUE \in BOOLEAN
    BY SMTT(40)
  <1>2. CASE Start
    BY <1>2 DEF DiskInv, Start
  <1>3. CASE Restore
    <2>1. CASE file = <<>>
      <3>1. proc' = "running" /\ slashing' = TRUE /\ chain' = chain /\ file' = file
        BY <1>3, <2>1 DEF Restore
      <3> QED BY <1>1, <2>1, <3>1 DEF DiskInv
    <2>2. CASE file # <<>> /\ Replay(file[1]).ok
      <3>1. file[1] \in Seq(Blocks) /\ file[2] \in BOOLEAN
        BY <2>2, SMTT(40) DEF DiskInv, Snapshots
      <3>2. /\ proc' = "running" /\ chain' = file[1] /\ slashing' = file[2]
            /\ file' = file
        BY <1>3, <2>2 DEF Restore
      <3>3. IsPrefix(file[1], file[1])
        BY <3>1, PrefixElements, SMTT(40)
      <3> QED BY <2>2, <3>1, <3>2, <3>3 DEF DiskInv
    <2>3. CASE file # <<>> /\ ~Replay(file[1]).ok
      BY <1>1, <1>3, <2>3 DEF DiskInv, Restore, Forget
    <2> QED BY <2>1, <2>2, <2>3
  <1>4. CASE Slash
    <2>1. proc = "running" /\ proc' = "running" /\ slashing' = TRUE /\ chain' = chain /\ file' = file
      BY <1>4 DEF Slash
    <2> QED BY <1>1, <2>1 DEF DiskInv
  <1>5. CASE WriteTmp
    BY <1>5 DEF DiskInv, WriteTmp, Snapshot, Encodes
  <1>6. CASE RenameTmp
    <2>1. CASE UNCHANGED disk
      BY <1>6, <2>1 DEF DiskInv, RenameTmp
    <2>2. CASE file' = tmp
      <3>1. file' = <<chain, slashing>> /\ proc' = "running" /\ UNCHANGED memory
        BY <1>6, <2>2 DEF DiskInv, RenameTmp
      <3>2. file' \in Snapshots /\ file'[1] = chain /\ file' # <<>>
        BY <3>1, SMTT(40) DEF DiskInv, Snapshots
      <3>3. IsPrefix(chain, chain)
        BY PrefixElements, SMTT(40) DEF DiskInv
      <3> QED BY <3>1, <3>2, <3>3 DEF DiskInv
    <2> QED BY <1>6, <2>1, <2>2 DEF RenameTmp
  <1>7. CASE Crash
    BY <1>1, <1>7 DEF DiskInv, Crash, Forget
  <1>8. ASSUME NEW tx \in Txs, SubmitTx(tx) PROVE DiskInv'
    BY <1>8 DEF DiskInv, SubmitTx
  <1>9. ASSUME NEW txs \in ValidBlocks, CommitBlock(txs) PROVE DiskInv'
    <2>1. CASE ApplyBlock(build, state, txs).ok
      <3>1. txs \in Blocks
        BY BlockType
      <3>2. /\ proc = "running" /\ proc' = "write" /\ chain' = Append(chain, txs)
            /\ UNCHANGED <<slashing, file, tmp>>
        BY <1>9, <2>1 DEF CommitBlock, Decided, Record
      <3>3. chain' \in Seq(Blocks)
        BY <3>1, <3>2, SMTT(40) DEF DiskInv
      <3>4. file # <<>> => IsPrefix(file[1], chain')
        <4>1. file # <<>> => file[1] \in Seq(Blocks)
          BY SMTT(40) DEF DiskInv, Snapshots
        <4> QED BY <3>1, <3>2, <4>1, PrefixGrows DEF DiskInv
      <3> QED BY <3>2, <3>3, <3>4 DEF DiskInv
    <2>2. CASE ~ApplyBlock(build, state, txs).ok
      BY <1>1, <1>9, <2>2 DEF DiskInv, CommitBlock, Forget
    <2> QED BY <2>1, <2>2, SMTT(40)
  <1>10. CASE UNCHANGED vars
    BY <1>10 DEF DiskInv, vars
  <1> QED BY <1>2, <1>3, <1>4, <1>5, <1>6, <1>7, <1>8, <1>9, <1>10 DEF Next

\* A node starts with no file, or with one of before slashing.
LEMMA DiskInit == Init => DiskInv
  <1> SUFFICES ASSUME Init PROVE DiskInv
    BY SMTT(40)
  <1>1. \A blocks \in EarlierChains : blocks \in Seq(Blocks)
    BY EarlierAssumption, BlockType, SMTT(40)
  <1>2. \A blocks \in EarlierChains : <<blocks, FALSE>> \in Snapshots
    BY <1>1 DEF Snapshots
  <1>3. file = <<>> \/ file \in Snapshots
    BY <1>2 DEF Init
  <1>4. chain \in Seq(Blocks) /\ proc = "down"
    BY SMTT(40) DEF Init
  <1>5. slashing \in BOOLEAN
    BY DEF Init
  <1> QED BY <1>3, <1>4, <1>5 DEF DiskInv, Serving

\* For every set of earlier files, and in every order of commits, penalties,
\* failed saves, crashes and restarts (commit_block, restore_from_store,
\* SnapshotStore::save): bft_snapshot.json changes only by getting more blocks,
\* only when it was there before, and only by a node without a slashing state.
THEOREM DiskTheorem == Spec => DiskOnlyGrows
  <1>1. DiskInv /\ [Next]_vars =>
            (file' # file => ~slashing /\ file # <<>> /\ IsPrefix(file[1], file'[1]))
    <2> SUFFICES ASSUME DiskInv, [Next]_vars, file' # file
                 PROVE  ~slashing /\ file # <<>> /\ IsPrefix(file[1], file'[1])
      BY SMTT(40)
    <2>1. RenameTmp /\ file' = tmp
      BY DEF Next, Start, Restore, Slash, WriteTmp, RenameTmp, Crash,
             SubmitTx, CommitBlock, disk, vars
    <2>2. proc = "rename" /\ file' = <<chain, slashing>> /\ ~slashing
      BY <2>1 DEF DiskInv, RenameTmp
    <2>3. file'[1] = chain
      BY <2>2, SMTT(40)
    <2> QED BY <2>2, <2>3 DEF DiskInv, Serving
  <1> QED BY <1>1, DiskInit, DiskStep, PTL DEF Spec, DiskOnlyGrows

-----------------------------------------------------------------------------
\* A sequence t that is s with x at its end.
Longer(t, m, s, n, x) ==
    /\ n \in Nat /\ m \in Nat /\ n = Len(s) /\ m = Len(t) /\ m \in 1 .. m /\ m - 1 = n
    /\ SameTo(s, t, n, m) /\ t[m] = x
    /\ DOMAIN s = 1 .. n /\ DOMAIN t = 1 .. m /\ 1 .. m = (1 .. n) \cup {m}

\* A sequence as a function on its positions.
LEMMA SeqShape ==
    ASSUME NEW S, NEW s \in Seq(S), NEW n, n = Len(s)
    PROVE  n \in Nat /\ s \in [1 .. n -> S] /\ DOMAIN s = 1 .. n
  BY SMTT(40)

\* Append, as a function on positions.
Appended(S, s, x, t, m, n) ==
    /\ t = Append(s, x) /\ Longer(t, m, s, n, x) /\ t \in Seq(S)
    /\ s \in [1 .. n -> S] /\ t \in [1 .. m -> S]

\* Append makes a sequence longer by one.
LEMMA AppendShape ==
    ASSUME NEW S, NEW s \in Seq(S), NEW x \in S
    PROVE  \E t, m, n : Appended(S, s, x, t, m, n)
  <1>0. PICK n, m, t : n = Len(s) /\ m = n + 1 /\ t = Append(s, x)
    OBVIOUS
  <1>1. n \in Nat /\ m \in Nat /\ m \in 1 .. m /\ m - 1 = n /\ 1 .. m = (1 .. n) \cup {m}
    BY <1>0, SMTT(40)
  <1>2. t \in Seq(S) /\ Len(t) = m /\ t[m] = x
    BY <1>0, SMTT(40)
  <1>3. \A k \in 1 .. n : k \in 1 .. m /\ t[k] = s[k]
    BY <1>0, SMTT(40)
  <1>4. s \in [1 .. n -> S] /\ DOMAIN s = 1 .. n
    BY <1>0, SeqShape
  <1>5. t \in [1 .. m -> S] /\ DOMAIN t = 1 .. m
    BY <1>2, SeqShape
  <1>6. Longer(t, m, s, n, x)
    BY <1>0, <1>1, <1>2, <1>3, <1>4, <1>5 DEF Longer, SameTo
  <1> QED BY <1>0, <1>2, <1>4, <1>5, <1>6 DEF Appended

\* Replaying one block more is one turn more.
LEMMA ReplayAppend ==
    ASSUME NEW b, NEW blocks \in Seq(Blocks), NEW txs \in Blocks
    PROVE  Rebuilt(b, Append(blocks, txs)) = ReplayTurn(b, Rebuilt(b, blocks), txs)
  <1>1. PICK more, m, n : Appended(Blocks, blocks, txs, more, m, n)
    BY AppendShape
  <1>2. /\ n \in Nat /\ m \in Nat /\ SameTo(blocks, more, n, m)
        /\ blocks \in [1 .. n -> Seq(Txs)] /\ more \in [1 .. m -> Seq(Txs)]
    BY <1>1 DEF Appended, Longer, Blocks
  <1>3. PICK run : ReplaysBy(run, b, blocks, n)
    BY <1>2, ReplayLoop
  <1>4. PICK longer : ReplaysBy(longer, b, more, m)
    BY <1>2, ReplayLoop
  <1>5. AgreeAt(longer, run, n)
    BY <1>2, <1>3, <1>4, ReplaysAgree
  <1>6. longer[m] = ReplayTurn(b, longer[n], txs)
    BY <1>1, <1>4 DEF ReplaysBy, Appended, Longer
  <1> QED BY <1>1, <1>3, <1>4, <1>5, <1>6 DEF ReplaysBy, AgreeAt, Appended

\* What a chain rebuilds.
LEMMA RebuiltSound ==
    ASSUME NEW b, NEW blocks \in Seq(Blocks)
    PROVE  /\ Rebuilt(b, blocks) \in SoundRuns
           /\ Rebuilt(b, blocks).ok => Rebuilt(b, blocks).ledger.events = TxsOf(blocks)
  <1>1. PICK n : n = Len(blocks)
    BY SMTT(40)
  <1>2. n \in Nat /\ blocks \in [1 .. n -> Seq(Txs)] /\ DOMAIN blocks = 1 .. n /\ n \in 0 .. n
    BY <1>1, SMTT(40) DEF Blocks
  <1>3. PICK run : ReplaysBy(run, b, blocks, n)
    BY <1>2, ReplayLoop
  <1>4. TxsTo(blocks, n) = TxsOf(blocks)
    BY <1>2 DEF TxsTo, TxsOf
  <1>5. run[n] \in SoundRuns
    BY <1>2, <1>3 DEF ReplaysBy
  <1>6. run[n].ok => run[n].ledger.events = TxsTo(blocks, n)
    BY <1>2, <1>3, ReplayEvents
  <1> QED BY <1>3, <1>4, <1>5, <1>6 DEF ReplaysBy

\* No transaction has two places in a chain.
Once(blocks) ==
    \A g, h \in DOMAIN blocks : \A i \in DOMAIN blocks[g], j \in DOMAIN blocks[h] :
        blocks[g][i] = blocks[h][j] => g = h /\ i = j

\* No chain that can be replayed repeats a transaction.
LEMMA RebuiltOnce ==
    ASSUME NEW b, NEW blocks \in Seq(Blocks), Rebuilt(b, blocks).ok
    PROVE  Once(blocks)
  <1>1. PICK n : n = Len(blocks)
    BY SMTT(40)
  <1>2. n \in Nat /\ blocks \in [1 .. n -> Seq(Txs)] /\ DOMAIN blocks = 1 .. n
    BY <1>1, SMTT(40) DEF Blocks
  <1>3. PICK run : ReplaysBy(run, b, blocks, n)
    BY <1>2, ReplayLoop
  <1>4. run[n].ok
    BY <1>3 DEF ReplaysBy
  <1>5. OnceTo(blocks, n)
    BY <1>2, <1>3, <1>4, ReplayOnce
  <1> QED BY <1>2, <1>5 DEF OnceTo, Once

\* An empty chain rebuilds the empty state.
LEMMA RebuiltEmpty ==
    ASSUME NEW b
    PROVE  Rebuilt(b, <<>>) = Running(EmptyState) /\ TxsOf(<<>>) = {}
  <1>1. PICK none : none = <<>>
    BY SMTT(40)
  <1>2. none \in [1 .. 0 -> Seq(Txs)] /\ 0 \in Nat /\ DOMAIN none = {}
    BY <1>1, SMTT(40)
  <1>3. PICK run : ReplaysBy(run, b, none, 0)
    BY <1>2, ReplayLoop
  <1>4. TxsOf(none) = {}
    BY <1>2 DEF TxsOf
  <1> QED BY <1>1, <1>3, <1>4 DEF ReplaysBy

\* apply_block reads ledger and contexts only.
LEMMA SameStart ==
    ASSUME NEW b, NEW st, NEW txs
    PROVE  ApplyBlock(b, Running(st), txs) = ApplyBlock(b, st, txs)
  <1>1. Running(st).ledger = st.ledger /\ Running(st).ctx = st.ctx
    BY DEF Running
  <1>2. Running(Running(st)) = Running(st) /\ CheckStart(Running(st)) = CheckStart(st)
    BY <1>1 DEF Running, CheckStart
  <1>3. Refused(Running(st)) = Refused(st)
    BY <1>2 DEF Refused
  <1>4. ApplySerial(Running(st), txs) = ApplySerial(st, txs)
    BY <1>2, <1>3, SerialShape
  <1>5. ApplyParallel(Running(st), txs) = ApplyParallel(st, txs)
    BY <1>1, <1>2, <1>3, ParallelShape
  <1> QED BY <1>4, <1>5 DEF ApplyBlock

\* The state that a node takes over from a loop that did not fail.
StateOf(run) == [ledger |-> run.ledger, ctx |-> run.ctx]

\* It is what the loop left.
LEMMA StateOfRun ==
    ASSUME NEW run \in RunStates, run.ok
    PROVE  /\ Running(StateOf(run)) = run /\ StateOf(run) \in States
           /\ StateOf(run).ledger = run.ledger /\ StateOf(run).ctx = run.ctx
           /\ Sound(run) => Sound(StateOf(run))
  <1>1. run.ledger \in Ledgers /\ run.ctx \in Contexts /\ run = [ok |-> run.ok, ledger |-> run.ledger, ctx |-> run.ctx]
    BY SMTT(40) DEF RunStates
  <1>2. run.ok = TRUE
    BY SMTT(40) DEF RunStates
  <1>3. StateOf(run).ledger = run.ledger /\ StateOf(run).ctx = run.ctx
    BY DEF StateOf
  <1>4. Running(StateOf(run)) = run
    BY <1>1, <1>2, <1>3 DEF Running
  <1>5. StateOf(run) \in States
    BY <1>1 DEF StateOf, States
  <1>6. Sound(run) => Sound(StateOf(run))
    BY <1>3 DEF Sound
  <1> QED BY <1>3, <1>4, <1>5, <1>6

-----------------------------------------------------------------------------
\* The kinds of step that a node takes, as far as blocks and ledger go.
Still ==
    /\ UNCHANGED <<build, chain, state>>
    /\ file' = file \/ file' = <<chain, slashing>>
Lost == Forget /\ UNCHANGED <<build, file>>
Restored ==
    /\ file # <<>> /\ Rebuilt(build, file[1]).ok
    /\ chain' = file[1] /\ state' = StateOf(Rebuilt(build, file[1]))
    /\ UNCHANGED <<build, file>>
Committed(txs) ==
    /\ ApplyBlock(build, state, txs).ok
    /\ state' = StateOf(ApplyBlock(build, state, txs))
    /\ Record(txs) /\ UNCHANGED <<build, file>>

\* Every step is of one of these kinds.
LEMMA StepKinds ==
    ASSUME DiskInv, [Next]_vars
    PROVE  Still \/ Lost \/ Restored \/ \E txs \in ValidBlocks : Committed(txs)
  <1> USE DEF disk, memory
  <1>1. CASE Start
    BY <1>1 DEF Start, Still
  <1>2. CASE Restore
    <2>1. CASE file = <<>>
      BY <1>2, <2>1 DEF Restore, Still
    <2>2. CASE file # <<>> /\ Replay(file[1]).ok
      BY <1>2, <2>2, ReplayShape DEF Restore, Restored, StateOf
    <2>3. CASE file # <<>> /\ ~Replay(file[1]).ok
      BY <1>2, <2>3 DEF Restore, Lost
    <2> QED BY <2>1, <2>2, <2>3
  <1>3. CASE Slash
    BY <1>3 DEF Slash, Still
  <1>4. CASE WriteTmp
    BY <1>4 DEF WriteTmp, Still
  <1>5. CASE RenameTmp
    BY <1>5 DEF RenameTmp, Still, DiskInv
  <1>6. CASE Crash
    BY <1>6 DEF Crash, Lost
  <1>7. ASSUME NEW tx \in Txs, SubmitTx(tx) PROVE Still
    BY <1>7 DEF SubmitTx, Still
  <1>8. ASSUME NEW txs \in ValidBlocks, CommitBlock(txs) PROVE Committed(txs) \/ Lost
    <2>1. CASE ApplyBlock(build, state, txs).ok
      BY <1>8, <2>1 DEF CommitBlock, Committed, StateOf
    <2>2. CASE ~ApplyBlock(build, state, txs).ok
      BY <1>8, <2>2 DEF CommitBlock, Lost
    <2> QED BY <2>1, <2>2, SMTT(40)
  <1>9. CASE UNCHANGED vars
    BY <1>9 DEF vars, Still
  <1> QED BY <1>1, <1>2, <1>3, <1>4, <1>5, <1>6, <1>7, <1>8, <1>9 DEF Next

\* Ledger and contexts are what replaying the chain gives.
StateInv ==
    /\ Sound(state) /\ state.ledger.events = TxsOf(chain)
    /\ Rebuilt(build, chain) = Running(state)

\* The transactions of a chain with one block more.
LEMMA TxsOfAppend ==
    ASSUME NEW blocks \in Seq(Blocks), NEW txs \in Blocks
    PROVE  TxsOf(Append(blocks, txs)) = TxsOf(blocks) \cup ToSet(txs)
  <1>1. PICK more, m, n : Appended(Blocks, blocks, txs, more, m, n)
    BY AppendShape
  <1>2. /\ DOMAIN blocks = 1 .. n /\ DOMAIN more = (1 .. n) \cup {m} /\ more[m] = txs
        /\ \A k \in 1 .. n : more[k] = blocks[k]
    BY <1>1 DEF Appended, Longer, SameTo
  <1>3. TxsOf(more) = TxsOf(blocks) \cup ToSet(txs)
    BY <1>2 DEF TxsOf
  <1> QED BY <1>1, <1>3 DEF Appended

\* A commit keeps them.
LEMMA StateCommit ==
    ASSUME DiskInv, StateInv, NEW txs \in ValidBlocks, Committed(txs)
    PROVE  StateInv'
  <1>1. txs \in Seq(Txs) /\ txs \in Blocks /\ chain \in Seq(Blocks)
    BY BlockType DEF Blocks, DiskInv
  <1>2. PICK run : run = ApplyBlock(build, state, txs)
    BY SMTT(40)
  <1>3. run \in RunStates /\ run.ok /\ Applied(run, state, txs)
    <2>1. /\ ApplyBlock(build, state, txs) \in RunStates
          /\ ApplyBlock(build, state, txs).ok => Applied(ApplyBlock(build, state, txs), state, txs)
      BY <1>1, BlockApplied, SMTT(40) DEF StateInv
    <2> QED BY <1>2, <2>1 DEF Committed
  <1>4. /\ Running(StateOf(run)) = run /\ StateOf(run).ledger = run.ledger
        /\ Sound(run) => Sound(StateOf(run))
    BY <1>3, StateOfRun
  <1>5. state' = StateOf(run) /\ chain' = Append(chain, txs) /\ build' = build
    BY <1>2 DEF Committed, Record
  <1>6. Sound(StateOf(run)) /\ StateOf(run).ledger.events = TxsOf(Append(chain, txs))
    <2>1. TxsOf(Append(chain, txs)) = TxsOf(chain) \cup ToSet(txs)
      BY <1>1, TxsOfAppend
    <2> QED BY <1>3, <1>4, <2>1 DEF Applied, StateInv
  <1>7. Rebuilt(build, Append(chain, txs)) = Running(StateOf(run))
    <2>1. Rebuilt(build, Append(chain, txs)) = ReplayTurn(build, Running(state), txs)
      BY <1>1, ReplayAppend DEF StateInv
    <2>2. Running(state).ok
      BY DEF Running
    <2>3. ReplayTurn(build, Running(state), txs) = run
      BY <1>2, <2>2, SameStart DEF ReplayTurn
    <2> QED BY <1>4, <2>1, <2>3
  <1> QED BY <1>5, <1>6, <1>7 DEF StateInv

\* So does every other step.
LEMMA StateStep ==
    ASSUME DiskInv, StateInv, [Next]_vars
    PROVE  StateInv'
  <1>1. CASE Still
    BY <1>1 DEF Still, StateInv
  <1>2. CASE Lost
    <2>1. chain' = <<>> /\ state' = EmptyState /\ build' = build
      BY <1>2 DEF Lost, Forget
    <2>2. Rebuilt(build, <<>>) = Running(EmptyState) /\ TxsOf(<<>>) = {}
      BY RebuiltEmpty
    <2>3. Sound(EmptyState) /\ EmptyState.ledger.events = {}
      BY EmptySound
    <2> QED BY <2>1, <2>2, <2>3 DEF StateInv
  <1>3. CASE Restored
    <2>1. PICK run : run = Rebuilt(build, file[1])
      BY SMTT(40)
    <2>2. /\ run.ok /\ chain' = file[1] /\ state' = StateOf(run)
          /\ build' = build /\ file # <<>>
      BY <1>3, <2>1 DEF Restored
    <2>3. file[1] \in Seq(Blocks)
      BY <2>2, SMTT(40) DEF DiskInv, Snapshots
    <2>4. run \in SoundRuns /\ run.ledger.events = TxsOf(file[1])
      BY <2>1, <2>2, <2>3, RebuiltSound
    <2>5. run \in RunStates /\ Sound(run)
      BY <2>2, <2>4 DEF SoundRuns
    <2>6. Running(StateOf(run)) = run /\ StateOf(run).ledger = run.ledger /\ Sound(StateOf(run))
      BY <2>2, <2>5, StateOfRun
    <2> QED BY <2>1, <2>2, <2>4, <2>6 DEF StateInv
  <1> QED BY <1>1, <1>2, <1>3, StepKinds, StateCommit

\* A node that has never run has an empty chain and an empty ledger.
LEMMA StateInit == Init => StateInv
  <1> SUFFICES ASSUME Init PROVE StateInv
    BY SMTT(40)
  <1>1. Rebuilt(build, <<>>) = Running(EmptyState) /\ TxsOf(<<>>) = {}
    BY RebuiltEmpty
  <1>2. Sound(EmptyState) /\ EmptyState.ledger.events = {}
    BY EmptySound
  <1> QED BY <1>1, <1>2 DEF Init, StateInv

\* Both hold in every state.
LEMMA StateAlways == Spec => [](DiskInv /\ StateInv)
  <1>1. DiskInv /\ StateInv /\ [Next]_vars => StateInv'
    BY StateStep
  <1> QED BY <1>1, DiskInit, DiskStep, StateInit, PTL DEF Spec

-----------------------------------------------------------------------------
\* Through commits, failed saves, crashes and restarts, and in either build of
\* apply_block, the ledger holds just the events of the chain, the tips are the
\* childless ones, and each context is the newest timestamp of its author.
THEOREM LedgerChainTheorem == Spec => []LedgerOfChain
  <1>1. StateInv => LedgerOfChain
    <2> SUFFICES ASSUME StateInv PROVE LedgerOfChain
      BY SMTT(40)
    <2>1. state.ledger.events = TxsOf(chain) /\ Linked(state.ledger) /\ Newest(state.ctx, TxsOf(chain))
          /\ state.ctx \in Contexts /\ TxsOf(chain) \subseteq Events
      BY DEF StateInv, Sound, Linked
    <2>2. Closed(state.ledger) /\ state.ledger.tips = Childless(TxsOf(chain))
      BY <2>1 DEF Linked
    <2>3. ASSUME NEW a \in Authors
          PROVE  state.ctx[a] = Max({0} \cup {Timestamp[e] : e \in {d \in TxsOf(chain) : Author[d] = a}})
      <3> DEFINE T == {0} \cup {Timestamp[e] : e \in {d \in TxsOf(chain) : Author[d] = a}}
      <3>1. state.ctx[a] \in Nat /\ \A e \in Events : Timestamp[e] \in Nat
        BY <2>1, LedgerAssumption, SMTT(40) DEF Contexts
      <3>2. state.ctx[a] \in T
        BY <2>1, <2>3 DEF Newest
      <3>3. 0 <= state.ctx[a] /\ T \subseteq Nat
        BY <2>1, <3>1, SMTT(40)
      <3>4. \A t \in T : t <= state.ctx[a]
        BY <2>1, <2>3, <3>3 DEF Newest
      <3> HIDE DEF T
      <3>5. \A t \in T : state.ctx[a] >= t
        BY <3>1, <3>3, <3>4, SMTT(40)
      <3>6. \A m \in T : (\A t \in T : m >= t) => m = state.ctx[a]
        BY <3>1, <3>2, <3>3, <3>4, SMTT(40)
      <3>7. Max(T) = state.ctx[a]
        BY <3>2, <3>5, <3>6 DEF Max
      <3> QED BY <3>7 DEF T
    <2> QED BY <2>1, <2>2, <2>3 DEF LedgerOfChain
  <1> QED BY <1>1, StateAlways, PTL

\* Restartable, by what the chain in the file rebuilds.
Replayable == file = <<>> \/ Rebuilt(build, file[1]).ok

\* A file that restore_from_store accepts is never replaced by one that it
\* refuses: what a save writes is a chain that was applied block by block, and
\* replaying it does the same again.
THEOREM RestartTheorem == Spec => RestartSucceeds
  <1>1. Restartable <=> Replayable
    BY ReplayShape DEF Restartable, Replayable
  <1>2. DiskInv /\ StateInv /\ [Next]_vars => (Replayable => Replayable')
    <2> SUFFICES ASSUME DiskInv, StateInv, [Next]_vars, Replayable PROVE Replayable'
      BY SMTT(40)
    <2>1. build' = build /\ (file' = file \/ file' = <<chain, slashing>>)
      BY StepKinds DEF Still, Lost, Restored, Committed
    <2>2. CASE file' = file
      BY <2>1, <2>2 DEF Replayable
    <2>3. CASE file' = <<chain, slashing>>
      <3>1. file'[1] = chain
        BY <2>3, SMTT(40)
      <3>2. Running(state).ok
        BY DEF Running
      <3>3. Rebuilt(build, chain).ok
        BY <3>2 DEF StateInv
      <3> QED BY <2>1, <3>1, <3>3 DEF Replayable
    <2> QED BY <2>1, <2>2, <2>3
  <1> QED BY <1>1, <1>2, StateAlways, PTL DEF Spec, RestartSucceeds

\* In the default build a block that is refused changes nothing: its second
\* loop never fails after the first has passed.
THEOREM AllOrNothingTheorem == Spec => []SerialAllOrNothing
  <1>1. StateInv => SerialAllOrNothing
    <2> SUFFICES ASSUME StateInv, NEW txs \in ValidBlocks, ~ApplySerial(state, txs).ok
                 PROVE  ApplySerial(state, txs) = Refused(state)
      BY DEF SerialAllOrNothing
    <2>1. Typed(state) /\ txs \in Seq(Txs)
      BY SoundStart, BlockType DEF StateInv, Blocks
    <2>2. CASE Checking(CheckStart(state), txs).ok
      BY <2>1, <2>2, CheckedApplies, SerialShape
    <2>3. CASE ~Checking(CheckStart(state), txs).ok
      BY <2>3, SerialShape
    <2> QED BY <2>2, <2>3, SMTT(40)
  <1> QED BY <1>1, StateAlways, PTL

\* On a block in which no author occurs twice and no parent comes with its
\* child, the two builds of apply_block end in the same state.
THEOREM FlatBlockTheorem == Spec => []BuildsAgreeOnFlatBlocks
  <1>1. StateInv => BuildsAgreeOnFlatBlocks
    <2> SUFFICES ASSUME StateInv, NEW txs \in ValidBlocks, Flat(txs)
                 PROVE  ApplySerial(state, txs) = ApplyParallel(state, txs)
      BY DEF BuildsAgreeOnFlatBlocks
    <2>1. Typed(state) /\ txs \in Seq(Txs)
      BY SoundStart, BlockType DEF StateInv, Blocks
    <2> QED BY <2>1, FlatAgree
  <1> QED BY <1>1, StateAlways, PTL

-----------------------------------------------------------------------------
\* The height that a client is told is the one block the transaction is in, for
\* every chain that a node can hold: it was applied block by block, and
\* apply_block takes no transaction that the ledger holds, nor one twice.
THEOREM CommittedOnceTheorem == Spec => []CommittedOnce
  <1>1. DiskInv /\ StateInv => CommittedOnce
    <2> SUFFICES ASSUME DiskInv, StateInv, NEW h \in DOMAIN chain,
                        NEW i \in DOMAIN chain[h], NEW j \in DOMAIN chain[h]
                 PROVE  HeightOf(chain[h][i]) = h /\ (chain[h][i] = chain[h][j] => i = j)
      BY DEF CommittedOnce
    <2>1. Rebuilt(build, chain).ok
      <3>1. Running(state).ok
        BY DEF Running
      <3> QED BY <3>1 DEF StateInv
    <2>2. Once(chain)
      BY <2>1, RebuiltOnce DEF DiskInv
    <2>3. chain[h][i] = chain[h][j] => i = j
      BY <2>2 DEF Once
    <2> DEFINE tx == chain[h][i]
               H == {0} \cup {g \in DOMAIN chain : tx \in ToSet(chain[g])}
    <2>4. ASSUME NEW g \in DOMAIN chain, tx \in ToSet(chain[g]) PROVE g = h
      <3>1. PICK k \in DOMAIN chain[g] : chain[g][k] = tx
        BY <2>4 DEF ToSet
      <3> QED BY <2>2, <3>1 DEF Once
    <2>5. h \in H
      BY DEF ToSet
    <2>6. H \subseteq {0, h}
      BY <2>4
    <2>7. h \in Nat
      BY SMTT(40) DEF DiskInv
    <2> HIDE DEF H
    <2>8. (\A y \in H : h >= y) /\ \A x \in H : (\A y \in H : x >= y) => x = h
      BY <2>5, <2>6, <2>7, SMTT(40)
    <2>9. Max(H) = h
      BY <2>5, <2>8 DEF Max
    <2> QED BY <2>3, <2>9 DEF HeightOf, H
  <1> QED BY <1>1, StateAlways, PTL

-----------------------------------------------------------------------------
\* One turn of retain in prune_mempool.
PruneTurn(block, kept, tx) == IF tx \in ToSet(block) THEN kept ELSE Append(kept, tx)

\* It keeps its type.
LEMMA PruneTurnType ==
    ASSUME NEW block, NEW kept \in Seq(Txs), NEW tx \in Txs
    PROVE  PruneTurn(block, kept, tx) \in Seq(Txs)
  BY SMTT(40) DEF PruneTurn

\* The loop over the mempool, and the recursion it is defined by.
Pruning(block, base, pool) == FoldLeft(LAMBDA kept, tx : PruneTurn(block, kept, tx), base, pool)
PruneEquation(iter, block, base, pool) ==
    iter = [s \in SUBSET DOMAIN pool |->
              IF s = {} THEN base
              ELSE PruneTurn(block, iter[s \ {Max(s)}], pool[Max(s)])]

\* The fold is a value of that recursion.
LEMMA PruneUnfolds ==
    ASSUME NEW block, NEW base, NEW pool
    PROVE  Pruning(block, base, pool) = (CHOOSE iter : PruneEquation(iter, block, base, pool))[DOMAIN pool]
  BY SMTT(40) DEF Pruning, FoldLeft, MapThenFoldSet, PruneEquation

\* The values that the loop goes through, up to its result.
PrunesTo(run, block, base, pool, n) ==
    /\ run \in [0 .. n -> Seq(Txs)] /\ run[0] = base
    /\ \A k \in 1 .. n : run[k] = PruneTurn(block, run[k - 1], pool[k])
    /\ Pruning(block, base, pool) = run[n]

\* prune_mempool, transaction by transaction.
LEMMA PruneRun ==
    ASSUME NEW block, NEW n \in Nat, NEW pool \in [1 .. n -> Txs], NEW base \in Seq(Txs)
    PROVE  \E run : PrunesTo(run, block, base, pool, n)
  <1>1. PICK V : V = Seq(Txs)
    BY SMTT(40)
  <1>0. base \in V /\ \A v \in V, k \in 1 .. n : PruneTurn(block, v, pool[k]) \in V
    BY <1>1, PruneTurnType
  <1>2. PICK step : IsStep(step, V, n) /\ \A v \in V, k \in 1 .. n : step[<<v, k>>] = PruneTurn(block, v, pool[k])
    <2> DEFINE f == [p \in V \X (1 .. n) |-> PruneTurn(block, p[1], pool[p[2]])]
    <2>1. f \in [V \X (1 .. n) -> V] /\ \A v \in V, k \in 1 .. n : f[<<v, k>>] = PruneTurn(block, v, pool[k])
      BY <1>0, SMTT(40)
    <2> QED BY <2>1 DEF IsStep
  <1>3. DOMAIN pool = 1 .. n
    OBVIOUS
  <1>4. PICK iter : IsTable(iter, V, base, step, n)
    BY <1>0, <1>2, SequenceFold
  <1>5. \A s \in SUBSET (1 .. n) : s # {} => Max(s) \in 1 .. n
    BY MaxMember
  <1>6. \A s \in SUBSET (1 .. n) :
           iter[s] = IF s = {} THEN base ELSE PruneTurn(block, iter[s \ {Max(s)}], pool[Max(s)])
    BY <1>2, <1>4, <1>5 DEF IsTable
  <1>7. PruneEquation(iter, block, base, pool)
    BY <1>3, <1>4, <1>6 DEF PruneEquation, IsTable
  <1>8. PICK c : c = (CHOOSE x : PruneEquation(x, block, base, pool)) /\ PruneEquation(c, block, base, pool)
    BY <1>7
  <1>9. \A s \in SUBSET (1 .. n) :
           c[s] = IF s = {} THEN base ELSE PruneTurn(block, c[s \ {Max(s)}], pool[Max(s)])
    BY <1>3, <1>8 DEF PruneEquation
  <1>10. Follows(c, V, base, step, n)
    BY <1>2, <1>5, <1>9 DEF Follows
  <1>11. PICK run : Unrolls(run, c, V, base, step, n)
    BY <1>0, <1>2, <1>10, FoldRun
  <1>12. \A k \in 1 .. n : k - 1 \in 0 .. n
    BY SMTT(40)
  <1>13. \A k \in 1 .. n : run[k] = PruneTurn(block, run[k - 1], pool[k])
    BY <1>2, <1>11, <1>12 DEF IsRun, Unrolls
  <1>14. Pruning(block, base, pool) = c[1 .. n]
    BY <1>3, <1>8, PruneUnfolds
  <1> QED BY <1>11, <1>13, <1>14, <1>1 DEF IsRun, Unrolls, PrunesTo

\* The size of one transaction more.
AddSize(sum, tx) == sum + Size[tx]

\* It is a number.
LEMMA AddSizeType ==
    ASSUME NEW sum \in Nat, NEW tx \in Txs
    PROVE  AddSize(sum, tx) \in Nat
  BY BlockAssumption, SMTT(40) DEF AddSize

\* The sum over a block, and the recursion it is defined by.
Summing(base, txs) == FoldLeft(LAMBDA sum, tx : AddSize(sum, tx), base, txs)
BytesEquation(iter, base, txs) ==
    iter = [s \in SUBSET DOMAIN txs |->
              IF s = {} THEN base
              ELSE AddSize(iter[s \ {Max(s)}], txs[Max(s)])]

\* The fold is a value of that recursion.
LEMMA BytesUnfolds ==
    ASSUME NEW base, NEW txs
    PROVE  Summing(base, txs) = (CHOOSE iter : BytesEquation(iter, base, txs))[DOMAIN txs]
  BY SMTT(40) DEF Summing, FoldLeft, MapThenFoldSet, BytesEquation

\* The values that the loop goes through, up to its result.
SumsTo(run, base, txs, n) ==
    /\ run \in [0 .. n -> Nat] /\ run[0] = base
    /\ \A k \in 1 .. n : run[k] = AddSize(run[k - 1], txs[k])
    /\ Summing(base, txs) = run[n]

\* The size of a block, transaction by transaction.
LEMMA BytesRun ==
    ASSUME NEW n \in Nat, NEW txs \in [1 .. n -> Txs], NEW base \in Nat
    PROVE  \E run : SumsTo(run, base, txs, n)
  <1>1. PICK V : V = Nat
    OBVIOUS
  <1>0. base \in V /\ \A v \in V, k \in 1 .. n : AddSize(v, txs[k]) \in V
    BY <1>1, AddSizeType
  <1>2. PICK step : IsStep(step, V, n) /\ \A v \in V, k \in 1 .. n : step[<<v, k>>] = AddSize(v, txs[k])
    <2> DEFINE f == [p \in V \X (1 .. n) |-> AddSize(p[1], txs[p[2]])]
    <2>1. f \in [V \X (1 .. n) -> V] /\ \A v \in V, k \in 1 .. n : f[<<v, k>>] = AddSize(v, txs[k])
      BY <1>0
    <2> QED BY <2>1 DEF IsStep
  <1>3. DOMAIN txs = 1 .. n
    OBVIOUS
  <1>4. PICK iter : IsTable(iter, V, base, step, n)
    BY <1>0, <1>2, SequenceFold
  <1>5. \A s \in SUBSET (1 .. n) : s # {} => Max(s) \in 1 .. n
    BY MaxMember
  <1>6. \A s \in SUBSET (1 .. n) :
           iter[s] = IF s = {} THEN base ELSE AddSize(iter[s \ {Max(s)}], txs[Max(s)])
    BY <1>2, <1>4, <1>5 DEF IsTable
  <1>7. BytesEquation(iter, base, txs)
    BY <1>3, <1>4, <1>6 DEF BytesEquation, IsTable
  <1>8. PICK c : c = (CHOOSE x : BytesEquation(x, base, txs)) /\ BytesEquation(c, base, txs)
    BY <1>7
  <1>9. \A s \in SUBSET (1 .. n) :
           c[s] = IF s = {} THEN base ELSE AddSize(c[s \ {Max(s)}], txs[Max(s)])
    BY <1>3, <1>8 DEF BytesEquation
  <1>10. Follows(c, V, base, step, n)
    BY <1>2, <1>5, <1>9 DEF Follows
  <1>11. PICK run : Unrolls(run, c, V, base, step, n)
    BY <1>0, <1>2, <1>10, FoldRun
  <1>12. \A k \in 1 .. n : k - 1 \in 0 .. n
    BY SMTT(40)
  <1>13. \A k \in 1 .. n : run[k] = AddSize(run[k - 1], txs[k])
    BY <1>2, <1>11, <1>12 DEF IsRun, Unrolls
  <1>14. Summing(base, txs) = c[1 .. n]
    BY <1>3, <1>8, BytesUnfolds
  <1> QED BY <1>11, <1>13, <1>14, <1>1 DEF IsRun, Unrolls, SumsTo

\* What is kept of the mempool.
LEMMA PruneLoop ==
    ASSUME NEW pool \in Seq(Txs), NEW block
    PROVE  \E run : PrunesTo(run, block, <<>>, pool, Len(pool)) /\ PruneMempool(pool, block) = run[Len(pool)]
  <1>1. PICK n : n = Len(pool)
    BY SMTT(40)
  <1>2. n \in Nat /\ pool \in [1 .. n -> Txs]
    BY <1>1, SeqShape
  <1>3. PICK none : none = <<>>
    BY SMTT(40)
  <1>4. none \in Seq(Txs)
    BY <1>3, SMTT(40)
  <1>5. PICK run : PrunesTo(run, block, none, pool, n)
    BY <1>2, <1>4, PruneRun
  <1>6. PruneMempool(pool, block) = Pruning(block, <<>>, pool)
    BY DEF PruneMempool, Pruning, PruneTurn
  <1> QED BY <1>1, <1>3, <1>5, <1>6 DEF PrunesTo

\* A transaction that is appended, and one that was there before.
LEMMA AppendMembers ==
    ASSUME NEW s \in Seq(Txs), NEW x \in Txs
    PROVE  ToSet(Append(s, x)) = ToSet(s) \cup {x}
  <1>1. PICK t, m, n : Appended(Txs, s, x, t, m, n)
    BY AppendShape
  <1>2. /\ DOMAIN s = 1 .. n /\ DOMAIN t = (1 .. n) \cup {m} /\ t[m] = x
        /\ \A k \in 1 .. n : t[k] = s[k]
    BY <1>1 DEF Appended, Longer, SameTo
  <1>3. ToSet(t) = ToSet(s) \cup {x}
    BY <1>2 DEF ToSet
  <1> QED BY <1>1, <1>3 DEF Appended

\* prune_mempool keeps what is not in the block.
LEMMA PruneKeeps ==
    ASSUME NEW pool \in Seq(Txs), NEW block, NEW tx \in ToSet(pool), tx \notin ToSet(block)
    PROVE  tx \in ToSet(PruneMempool(pool, block))
  <1>1. PICK n : n = Len(pool)
    BY SMTT(40)
  <1>2. n \in Nat /\ pool \in [1 .. n -> Txs] /\ DOMAIN pool = 1 .. n
    BY <1>1, SeqShape
  <1>3. PICK run : PrunesTo(run, block, <<>>, pool, n) /\ PruneMempool(pool, block) = run[n]
    BY <1>1, PruneLoop
  <1> DEFINE U == {k \in 0 .. n : \A i \in 1 .. k : pool[i] \notin ToSet(block) => pool[i] \in ToSet(run[k])}
  <1>4. 0 \in 0 .. n /\ n \in 0 .. n /\ 1 .. 0 = {}
    BY <1>2, SMTT(40)
  <1>5. 0 \in U
    BY <1>4
  <1>6. ASSUME NEW k \in 1 .. n, k - 1 \in U PROVE k \in U
    <2>1. k - 1 \in 0 .. n /\ k \in 0 .. n /\ 1 .. k = (1 .. k - 1) \cup {k}
      BY <1>2, SMTT(40)
    <2>2. run[k] = PruneTurn(block, run[k - 1], pool[k]) /\ run[k - 1] \in Seq(Txs) /\ pool[k] \in Txs
      BY <1>2, <1>3, <2>1 DEF PrunesTo
    <2>3. ToSet(run[k]) = IF pool[k] \in ToSet(block) THEN ToSet(run[k - 1])
                          ELSE ToSet(run[k - 1]) \cup {pool[k]}
      BY <2>2, AppendMembers DEF PruneTurn
    <2>4. \A i \in 1 .. k : pool[i] \notin ToSet(block) => pool[i] \in ToSet(run[k])
      BY <1>6, <2>1, <2>3
    <2> QED BY <2>1, <2>4
  <1> HIDE DEF U
  <1>7. \A k \in 0 .. n : k \in U
    BY <1>2, <1>5, <1>6, LoopInduction
  <1>8. PICK i \in 1 .. n : tx = pool[i]
    BY <1>2 DEF ToSet
  <1> QED BY <1>3, <1>4, <1>7, <1>8 DEF U

\* prune_mempool keeps the head if it is not in the block.
LEMMA PruneHead ==
    ASSUME NEW pool \in Seq(Txs), NEW block, pool # <<>>, Head(pool) \notin ToSet(block)
    PROVE  /\ PruneMempool(pool, block) # <<>>
           /\ Head(PruneMempool(pool, block)) = Head(pool)
  <1>1. PICK n : n = Len(pool)
    BY SMTT(40)
  <1>2. n \in Nat /\ pool \in [1 .. n -> Txs] /\ DOMAIN pool = 1 .. n
    BY <1>1, SeqShape
  <1>3. PICK run : PrunesTo(run, block, <<>>, pool, n) /\ PruneMempool(pool, block) = run[n]
    BY <1>1, PruneLoop
  <1>4. 1 \in 1 .. n /\ pool[1] = Head(pool) /\ 0 \in 0 .. n /\ n \in 0 .. n /\ n # 0
    BY <1>1, <1>2, SMTT(40)
  <1> DEFINE Led(s) == s # <<>> /\ Head(s) = pool[1]
             U == {k \in 0 .. n : k = 0 \/ Led(run[k])}
  <1>5. 0 \in U
    BY <1>4
  <1>6. ASSUME NEW k \in 1 .. n, k - 1 \in U PROVE k \in U
    <2>1. k - 1 \in 0 .. n /\ k \in 0 .. n /\ (k - 1 = 0 => k = 1)
      BY <1>2, SMTT(40)
    <2>2. run[k] = PruneTurn(block, run[k - 1], pool[k]) /\ run[k - 1] \in Seq(Txs) /\ pool[k] \in Txs
          /\ run[0] = <<>>
      BY <1>2, <1>3, <2>1 DEF PrunesTo
    <2>3. CASE k - 1 = 0
      <3>1. k = 1 /\ run[k] = Append(<<>>, pool[1])
        BY <1>4, <2>1, <2>2, <2>3 DEF PruneTurn
      <3>2. Led(Append(<<>>, pool[1]))
        BY <2>2, <3>1, SMTT(40)
      <3> QED BY <2>1, <3>1, <3>2
    <2>4. CASE Led(run[k - 1])
      <3>1. \A s \in Seq(Txs), x \in Txs : s # <<>> => Append(s, x) # <<>> /\ Head(Append(s, x)) = Head(s)
        BY SMTT(40)
      <3>2. Led(run[k])
        BY <2>2, <2>4, <3>1 DEF PruneTurn
      <3> QED BY <2>1, <3>2
    <2> QED BY <1>6, <2>3, <2>4
  <1> HIDE DEF U
  <1>7. \A k \in 0 .. n : k \in U
    BY <1>2, <1>5, <1>6, LoopInduction
  <1> QED BY <1>3, <1>4, <1>7 DEF U

\* A block is at least as large as each of its transactions.
LEMMA BytesCover ==
    ASSUME NEW txs \in Seq(Txs)
    PROVE  Bytes(txs) \in Nat /\ \A tx \in ToSet(txs) : Size[tx] <= Bytes(txs)
  <1>1. PICK n : n = Len(txs)
    BY SMTT(40)
  <1>2. n \in Nat /\ txs \in [1 .. n -> Txs] /\ DOMAIN txs = 1 .. n
    BY <1>1, SeqShape
  <1>3. PICK zero : zero = 0 /\ zero \in Nat
    BY SMTT(40)
  <1>4. PICK run : SumsTo(run, zero, txs, n)
    BY <1>2, <1>3, BytesRun
  <1>5. Bytes(txs) = Summing(0, txs)
    BY DEF Bytes, Summing, AddSize
  <1> DEFINE U == {k \in 0 .. n : \A i \in 1 .. k : Size[txs[i]] <= run[k]}
  <1>6. 0 \in 0 .. n /\ n \in 0 .. n /\ 1 .. 0 = {}
    BY <1>2, SMTT(40)
  <1>7. 0 \in U
    BY <1>6
  <1>8. ASSUME NEW k \in 1 .. n, k - 1 \in U PROVE k \in U
    <2>1. k - 1 \in 0 .. n /\ k \in 0 .. n /\ 1 .. k = (1 .. k - 1) \cup {k}
      BY <1>2, SMTT(40)
    <2>2. run[k] = run[k - 1] + Size[txs[k]] /\ run[k - 1] \in Nat
      BY <1>2, <1>4, <2>1 DEF SumsTo, AddSize
    <2>3. Size[txs[k]] \in Nat
      BY <1>2, BlockAssumption, SMTT(40)
    <2>4. Size[txs[k]] <= run[k] /\ run[k - 1] <= run[k] /\ run[k] \in Nat
      BY <2>2, <2>3, SMTT(40)
    <2>5. ASSUME NEW i \in 1 .. k - 1 PROVE Size[txs[i]] <= run[k]
      <3>1. i \in 1 .. n
        BY <1>2, SMTT(40)
      <3>2. Size[txs[i]] \in Nat
        BY <1>2, <3>1, BlockAssumption, SMTT(40)
      <3>3. Size[txs[i]] <= run[k - 1]
        BY <1>8
      <3> QED BY <2>2, <2>4, <3>2, <3>3, SMTT(40)
    <2> QED BY <2>1, <2>4, <2>5
  <1> HIDE DEF U
  <1>9. \A k \in 0 .. n : k \in U
    BY <1>2, <1>7, <1>8, LoopInduction
  <1>10. Bytes(txs) = run[n] /\ run[n] \in Nat
    BY <1>3, <1>4, <1>5, <1>6 DEF SumsTo
  <1> QED BY <1>2, <1>6, <1>9, <1>10 DEF U, ToSet

\* The empty block has no bytes.
LEMMA BytesEmpty == Bytes(<<>>) = 0
  <1>1. PICK none : none = <<>>
    BY SMTT(40)
  <1>2. none \in [1 .. 0 -> Txs] /\ 0 \in Nat
    BY <1>1, SMTT(40)
  <1>3. PICK run : SumsTo(run, 0, none, 0)
    BY <1>2, BytesRun
  <1>4. Bytes(none) = Summing(0, none)
    BY DEF Bytes, Summing, AddSize
  <1> QED BY <1>1, <1>3, <1>4 DEF SumsTo

-----------------------------------------------------------------------------
\* The mempool holds transactions.
PoolInv == mempool \in Seq(Txs)

\* How a step that does not end the process changes the mempool: it does not, or
\* a client appends to it, or a block that was applied is pruned from it.
Pruned(txs) ==
    /\ txs \in ValidBlocks /\ mempool' = PruneMempool(mempool, txs)
    /\ ApplyBlock(build, state, txs).ok

\* Every step is of one of these kinds.
LEMMA PoolKinds ==
    ASSUME [Next]_vars
    PROVE  \/ mempool' = mempool \/ (proc' = "down" /\ mempool' = <<>>)
           \/ \E tx \in Txs : mempool' = Append(mempool, tx)
           \/ \E txs \in ValidBlocks : Pruned(txs)
  <1> USE DEF disk, memory
  <1>1. CASE Start \/ Slash \/ WriteTmp \/ RenameTmp
    BY <1>1 DEF Start, Slash, WriteTmp, RenameTmp
  <1>2. CASE Restore
    BY <1>2 DEF Restore, Forget
  <1>3. CASE Crash
    BY <1>3 DEF Crash, Forget
  <1>4. ASSUME NEW tx \in Txs, SubmitTx(tx) PROVE mempool' = Append(mempool, tx)
    BY <1>4 DEF SubmitTx
  <1>5. ASSUME NEW txs \in ValidBlocks, CommitBlock(txs)
        PROVE  Pruned(txs) \/ (proc' = "down" /\ mempool' = <<>>)
    <2>1. CASE ApplyBlock(build, state, txs).ok
      BY <1>5, <2>1 DEF CommitBlock, Record, Pruned
    <2>2. CASE ~ApplyBlock(build, state, txs).ok
      BY <1>5, <2>2 DEF CommitBlock, Forget
    <2> QED BY <2>1, <2>2, SMTT(40)
  <1>6. CASE UNCHANGED vars
    BY <1>6 DEF vars
  <1> QED BY <1>1, <1>2, <1>3, <1>4, <1>5, <1>6 DEF Next

\* prune_mempool leaves transactions.
LEMMA PruneType ==
    ASSUME NEW pool \in Seq(Txs), NEW block
    PROVE  PruneMempool(pool, block) \in Seq(Txs)
  <1>1. PICK n : n = Len(pool)
    BY SMTT(40)
  <1>2. n \in 0 .. n
    BY <1>1, SMTT(40)
  <1>3. PICK run : PrunesTo(run, block, <<>>, pool, n) /\ PruneMempool(pool, block) = run[n]
    BY <1>1, PruneLoop
  <1> QED BY <1>2, <1>3 DEF PrunesTo

\* The mempool keeps its type.
LEMMA PoolStep == PoolInv /\ [Next]_vars => PoolInv'
  <1> SUFFICES ASSUME PoolInv, [Next]_vars PROVE PoolInv'
    BY SMTT(40)
  <1>1. CASE mempool' = mempool
    BY <1>1 DEF PoolInv
  <1>2. CASE mempool' = <<>>
    BY <1>2, SMTT(40) DEF PoolInv
  <1>3. ASSUME NEW tx \in Txs, mempool' = Append(mempool, tx) PROVE PoolInv'
    BY <1>3, SMTT(40) DEF PoolInv
  <1>4. ASSUME NEW txs \in ValidBlocks, Pruned(txs) PROVE PoolInv'
    BY <1>4, PruneType DEF PoolInv, Pruned
  <1> QED BY <1>1, <1>2, <1>3, <1>4, PoolKinds

\* What prune_mempool is given was new to the ledger.
LEMMA PrunedFresh ==
    ASSUME StateInv, NEW txs \in ValidBlocks, Pruned(txs)
    PROVE  ToSet(txs) \subseteq Events \ TxsOf(chain)
  <1>1. txs \in Seq(Txs)
    BY BlockType DEF Blocks
  <1>2. Applied(ApplyBlock(build, state, txs), state, txs)
    BY <1>1, BlockApplied DEF StateInv, Pruned
  <1>3. ToSet(txs) = Taken(txs, Len(txs))
    BY <1>1, BlockShape
  <1> QED BY <1>2, <1>3 DEF Applied, Fresh, StateInv

\* All invariants of the node.
LEMMA PoolAlways == Spec => [](DiskInv /\ StateInv /\ PoolInv)
  <1>1. Init => PoolInv
    BY SMTT(40) DEF Init, PoolInv
  <1> QED BY <1>1, PoolStep, StateAlways, PTL DEF Spec

\* A transaction that no block can commit any more (no event, or in a block
\* already) stays in the mempool of a process to its end: every block that
\* prune_mempool is called with was applied, so it holds neither.
THEOREM DeadTxTheorem == Spec => DeadTxStays
  <1>1. StateInv /\ PoolInv /\ [Next]_vars =>
            \A tx \in ToSet(mempool) :
               (tx \in Junk \cup TxsOf(chain) /\ proc' # "down") => tx \in ToSet(mempool')
    <2> SUFFICES ASSUME StateInv, PoolInv, [Next]_vars, NEW tx \in ToSet(mempool),
                        tx \in Junk \cup TxsOf(chain), proc' # "down"
                 PROVE  tx \in ToSet(mempool')
      BY SMTT(40)
    <2>1. ASSUME NEW x \in Txs, mempool' = Append(mempool, x) PROVE tx \in ToSet(mempool')
      BY <2>1, AppendMembers DEF PoolInv
    <2>2. ASSUME NEW txs \in ValidBlocks, Pruned(txs) PROVE tx \in ToSet(mempool')
      <3>1. tx \notin ToSet(txs)
        BY <2>2, PrunedFresh, BlockAssumption
      <3>2. tx \in ToSet(PruneMempool(mempool, txs))
        BY <3>1, PruneKeeps DEF PoolInv
      <3> QED BY <2>2, <3>2 DEF Pruned
    <2> QED BY <2>1, <2>2, PoolKinds
  <1> QED BY <1>1, PoolAlways, PTL DEF Spec, DeadTxStays

\* A mempool with an oversized head builds empty blocks.
LEMMA OversizedBuilds ==
    ASSUME NEW pool \in Seq(Txs), pool # <<>>, Size[Head(pool)] > MaxBytes
    PROVE  BuildBlock(pool) = <<>>
  <1>1. PICK none : none = <<>>
    BY SMTT(40)
  <1>2. none \in Prefixes(pool)
    <2>1. 0 \in 0 .. Len(pool) /\ SubSeq(pool, 1, 0) = none
      BY <1>1, SMTT(40)
    <2> QED BY <2>1 DEF Prefixes
  <1>3. Fits(none)
    <2>1. Len(none) = 0 /\ Bytes(none) = 0
      BY <1>1, BytesEmpty, SMTT(40)
    <2> QED BY <2>1, BlockAssumption, SMTT(40) DEF Fits
  <1>4. ASSUME NEW p \in Prefixes(pool), Fits(p) PROVE p = none
    <2>1. PICK l \in 0 .. Len(pool) : p = SubSeq(pool, 1, l)
      BY DEF Prefixes
    <2>2. CASE l = 0
      BY <1>1, <2>1, <2>2, SMTT(40)
    <2>3. CASE l # 0
      <3>1. p \in Seq(Txs) /\ 1 \in DOMAIN p /\ p[1] = Head(pool) /\ Head(pool) \in Txs
        BY <2>1, <2>3, SMTT(40)
      <3>2. Head(pool) \in ToSet(p)
        BY <3>1 DEF ToSet
      <3>3. Size[Head(pool)] <= Bytes(p) /\ Bytes(p) \in Nat /\ Size[Head(pool)] \in Nat
        <4>1. Size[Head(pool)] \in Nat
          BY <3>1, BlockAssumption, SMTT(40)
        <4> QED BY <3>1, <3>2, <4>1, BytesCover
      <3>4. Bytes(p) <= MaxBytes /\ MaxBytes \in Nat
        BY <1>4, BlockAssumption DEF Fits
      <3> QED BY <3>3, <3>4, SMTT(40)
    <2> QED BY <2>2, <2>3, SMTT(40)
  <1>5. Len(none) <= Len(none)
    BY <1>1, SMTT(40)
  <1>6. \A q \in Prefixes(pool) : Fits(q) => Len(q) <= Len(none)
    BY <1>4, <1>5
  <1>7. LongestFitting(pool) = none
    BY <1>2, <1>3, <1>4, <1>6 DEF LongestFitting
  <1> QED BY <1>1, <1>7 DEF BuildBlock

\* A transaction above max_block_bytes at the head of the mempool stays there to
\* the end of the process, and every block that build_block makes is empty: no
\* block that passed validate_block can hold it, and prune_mempool removes only
\* what a block holds.
THEOREM OversizedTheorem == Spec => OversizedHeadBlocks
  <1>1. PoolInv /\ [Next]_vars =>
            ((mempool # <<>> /\ Size[Head(mempool)] > MaxBytes /\ proc' # "down") =>
               (Head(mempool') = Head(mempool) /\ BuildBlock(mempool') = <<>>))
    <2> SUFFICES ASSUME PoolInv, [Next]_vars, mempool # <<>>, Size[Head(mempool)] > MaxBytes,
                        proc' # "down"
                 PROVE  Head(mempool') = Head(mempool) /\ BuildBlock(mempool') = <<>>
      BY SMTT(40)
    <2>1. mempool' # <<>> /\ Head(mempool') = Head(mempool)
      <3>1. ASSUME NEW x \in Txs, mempool' = Append(mempool, x)
            PROVE  mempool' # <<>> /\ Head(mempool') = Head(mempool)
        BY <3>1, SMTT(40) DEF PoolInv
      <3>2. ASSUME NEW txs \in ValidBlocks, Pruned(txs)
            PROVE  mempool' # <<>> /\ Head(mempool') = Head(mempool)
        <4>1. txs \in Seq(Txs) /\ Fits(txs)
          BY BlockType DEF Blocks, ValidBlocks
        <4>2. Bytes(txs) \in Nat /\ Bytes(txs) <= MaxBytes /\ MaxBytes \in Nat
              /\ \A tx \in ToSet(txs) : Size[tx] <= Bytes(txs)
          BY <4>1, BytesCover, BlockAssumption DEF Fits
        <4>3. Head(mempool) \in Txs
          BY SMTT(40) DEF PoolInv
        <4>4. Size[Head(mempool)] \in Nat
          BY <4>3, BlockAssumption, SMTT(40)
        <4>5. Head(mempool) \notin ToSet(txs)
          BY <4>2, <4>4, SMTT(40)
        <4>6. PruneMempool(mempool, txs) # <<>> /\ Head(PruneMempool(mempool, txs)) = Head(mempool)
          BY <4>5, PruneHead DEF PoolInv
        <4> QED BY <3>2, <4>6 DEF Pruned
      <3> QED BY <3>1, <3>2, PoolKinds
    <2>2. mempool' \in Seq(Txs)
      BY PoolStep DEF PoolInv
    <2>3. Size[Head(mempool')] > MaxBytes
      BY <2>1
    <2>4. BuildBlock(mempool') = <<>>
      BY <2>1, <2>2, <2>3, OversizedBuilds
    <2> QED BY <2>1, <2>4
  <1> QED BY <1>1, PoolAlways, PTL DEF Spec, OversizedHeadBlocks
=============================================================================
