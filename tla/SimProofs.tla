------------------------------ MODULE SimProofs ------------------------------
(***************************************************************************)
(* The simulator node, for every set of events, every size of its pool and *)
(* every order of deliveries.                                              *)
(***************************************************************************)
EXTENDS SimNode, FoldProofs

\* The method of every step that names none.
USE ZenonT(40)

-----------------------------------------------------------------------------
\* An event is among its ancestors.
LEMMA AncestrySelf ==
    ASSUME NEW e \in Events
    PROVE  e \in Ancestry[e] /\ Ancestry[e] \subseteq Events
  BY DEF Ancestry

\* A set with the parents of its members holds their ancestors.
LEMMA AncestryLeast ==
    ASSUME NEW S \in SUBSET Events, \A x \in S : HasParent(S, x), NEW e \in S
    PROVE  Ancestry[e] \subseteq S
  BY DEF Ancestry

\* The ancestors of an event are such a set.
LEMMA AncestryParent ==
    ASSUME NEW e \in Events, NEW x \in Ancestry[e]
    PROVE  HasParent(Ancestry[e], x)
  <1>1. x \in Events /\ Prev[x] \in Events \cup {ZERO_HASH} /\ ZERO_HASH \notin Events
    BY AncestrySelf, LedgerAssumption
  <1> SUFFICES ASSUME Prev[x] \in Events PROVE Prev[x] \in Ancestry[e]
    BY <1>1 DEF HasParent
  <1>2. ASSUME NEW S \in SUBSET Events, e \in S, \A y \in S : HasParent(S, y)
        PROVE  Prev[x] \in S
    <2>1. x \in S
      BY <1>2, AncestryLeast
    <2> QED BY <1>1, <1>2, <2>1 DEF HasParent
  <1> QED BY <1>2 DEF Ancestry

\* The ancestors of an ancestor.
LEMMA AncestryOf ==
    ASSUME NEW e \in Events, NEW x \in Ancestry[e]
    PROVE  Ancestry[x] \subseteq Ancestry[e]
  BY AncestrySelf, AncestryParent, AncestryLeast

\* A second ancestor is one of the parent.
LEMMA AncestryStep ==
    ASSUME NEW x \in Events, NEW l \in Ancestry[x], l # x
    PROVE  Prev[x] \in Events /\ l \in Ancestry[Prev[x]]
  <1>1. Prev[x] \in Events \cup {ZERO_HASH}
    BY LedgerAssumption
  <1>2. CASE Prev[x] = ZERO_HASH
    <2>1. Ancestry[x] \subseteq {x}
      BY <1>2, AncestryLeast DEF HasParent
    <2> QED BY <2>1
  <1>3. CASE Prev[x] \in Events
    <2>1. PICK S : S = {x} \cup Ancestry[Prev[x]]
      OBVIOUS
    <2>2. S \in SUBSET Events /\ Prev[x] \in Ancestry[Prev[x]] /\ x \in S
      BY <1>3, <2>1, AncestrySelf
    <2>3. \A y \in S : HasParent(S, y)
      BY <1>3, <2>1, <2>2, AncestryParent DEF HasParent
    <2>4. Ancestry[x] \subseteq S
      BY <2>2, <2>3, AncestryLeast
    <2> QED BY <1>3, <2>1, <2>4
  <1> QED BY <1>1, <1>2, <1>3

\* No event is its ancestor's ancestor: hashes have no cycles.
LEMMA AncestryOnce ==
    ASSUME NEW x \in Events, NEW y \in Ancestry[x], x \in Ancestry[y]
    PROVE  x = y
  <1> SUFFICES ASSUME x # y PROVE FALSE
    OBVIOUS
  <1>1. PICK T : T = {z \in Ancestry[x] : x \in Ancestry[z]}
    OBVIOUS
  <1>2. T \in SUBSET Events /\ x \in T /\ y \in Events
    BY <1>1, AncestrySelf
  <1>3. PICK z \in T : Prev[z] \notin T
    BY <1>2, LedgerAssumption
  <1>4. z \in Events /\ z \in Ancestry[x] /\ x \in Ancestry[z]
    BY <1>1, <1>2, <1>3
  <1>5. Prev[z] \in Events /\ x \in Ancestry[Prev[z]]
    <2>1. CASE z # x
      BY <1>4, <2>1, AncestryStep
    <2>2. CASE z = x
      <3>1. Prev[x] \in Events /\ y \in Ancestry[Prev[x]]
        BY <1>2, AncestryStep
      <3>2. Ancestry[y] \subseteq Ancestry[Prev[x]]
        BY <3>1, AncestryOf
      <3> QED BY <2>2, <3>1, <3>2
    <2> QED BY <2>1, <2>2
  <1>6. Prev[z] \in Ancestry[x]
    BY <1>4, <1>5, AncestryParent, LedgerAssumption DEF HasParent
  <1> QED BY <1>1, <1>3, <1>5, <1>6

-----------------------------------------------------------------------------
\* One turn of build_chain_from_tip, and the recursion of Walk.
WalkOn(events, tip, done) ==
    LET cur == IF done = <<>> THEN tip ELSE Prev[Last(done)]
    IN  IF cur \in events THEN Append(done, cur) ELSE done

WalkEquation(walk, ledger, tip, max) ==
    walk = [k \in 0 .. max |-> IF k = 0 THEN <<>> ELSE WalkOn(ledger.events, tip, walk[k - 1])]

\* Walk is the value of that recursion.
LEMMA WalkUnfolds ==
    ASSUME NEW ledger, NEW tip, NEW max
    PROVE  Walk(ledger, tip, max) = (CHOOSE walk : WalkEquation(walk, ledger, tip, max))[max]
  BY DEF Walk, WalkEquation, WalkOn

\* The turns up to the k-th.
WalkedTo(f, ledger, tip, k) ==
    /\ f[0] = <<>>
    /\ \A i \in 1 .. k : f[i] = WalkOn(ledger.events, tip, f[i - 1])

\* The turns can be made.
LEMMA WalkTurns ==
    ASSUME NEW ledger, NEW tip, NEW max \in Nat
    PROVE  \E f : WalkedTo(f, ledger, tip, max)
  <1>1. PICK U : U = {k \in 0 .. max : \E f : WalkedTo(f, ledger, tip, k)}
    OBVIOUS
  <1>2. 0 \in U
    <2>1. 0 \in 0 .. max /\ 1 .. 0 = {}
      BY SMTT(40)
    <2>2. PICK f : f = [i \in {0} |-> <<>>]
      OBVIOUS
    <2>3. WalkedTo(f, ledger, tip, 0)
      BY <2>1, <2>2 DEF WalkedTo
    <2> QED BY <1>1, <2>1, <2>3
  <1>3. ASSUME NEW k \in 1 .. max, k - 1 \in U PROVE k \in U
    <2>1. PICK f : WalkedTo(f, ledger, tip, k - 1)
      BY <1>1, <1>3
    <2>2. PICK g : g = [i \in 0 .. k |-> IF i = k THEN WalkOn(ledger.events, tip, f[k - 1]) ELSE f[i]]
      OBVIOUS
    <2>3. 0 \in 0 .. k /\ 0 # k /\ k \in 0 .. max
      BY SMTT(40)
    <2>4. ASSUME NEW i \in 1 .. k PROVE g[i] = WalkOn(ledger.events, tip, g[i - 1])
      <3>1. i \in 0 .. k /\ i - 1 \in 0 .. k /\ i - 1 # k
        BY SMTT(40)
      <3>2. i = k \/ i \in 1 .. k - 1
        BY SMTT(40)
      <3>3. CASE i = k
        BY <2>2, <3>1, <3>3
      <3>4. CASE i # k
        BY <2>1, <2>2, <3>1, <3>2, <3>4 DEF WalkedTo
      <3> QED BY <3>3, <3>4
    <2>5. WalkedTo(g, ledger, tip, k)
      BY <2>1, <2>2, <2>3, <2>4 DEF WalkedTo
    <2> QED BY <1>1, <2>3, <2>5
  <1>4. \A k \in 0 .. max : k \in U
    BY <1>2, <1>3, LoopInduction
  <1>5. max \in 0 .. max
    BY SMTT(40)
  <1> QED BY <1>1, <1>4, <1>5

\* Walk is the last of them.
LEMMA WalkRun ==
    ASSUME NEW ledger, NEW tip, NEW max \in Nat
    PROVE  \E f : WalkedTo(f, ledger, tip, max) /\ Walk(ledger, tip, max) = f[max]
  <1>1. PICK f : WalkedTo(f, ledger, tip, max)
    BY WalkTurns
  <1>2. PICK g : g = [k \in 0 .. max |-> f[k]]
    OBVIOUS
  <1>3. \A k \in 0 .. max : k = 0 \/ (k # 0 /\ k \in 1 .. max /\ k - 1 \in 0 .. max)
    BY SMTT(40)
  <1>4. \A k \in 0 .. max : g[k] = IF k = 0 THEN <<>> ELSE WalkOn(ledger.events, tip, g[k - 1])
    BY <1>1, <1>2, <1>3 DEF WalkedTo
  <1>5. WalkEquation(g, ledger, tip, max)
    BY <1>2, <1>4 DEF WalkEquation
  <1>6. PICK h : h = CHOOSE walk : WalkEquation(walk, ledger, tip, max)
    OBVIOUS
  <1>7. WalkEquation(h, ledger, tip, max)
    BY <1>5, <1>6
  <1>8. \A k \in 0 .. max : h[k] = IF k = 0 THEN <<>> ELSE WalkOn(ledger.events, tip, h[k - 1])
    BY <1>7 DEF WalkEquation
  <1>9. /\ 0 \in 0 .. max
        /\ \A k \in 1 .. max : k \in 0 .. max /\ k # 0
    BY SMTT(40)
  <1>10. WalkedTo(h, ledger, tip, max)
    BY <1>8, <1>9 DEF WalkedTo
  <1> QED BY <1>6, <1>10, WalkUnfolds

\* A walk from tip: parent after parent, as far as it goes.
IsWalk(w, events, tip, max) ==
    /\ w \in Seq(events) /\ Len(w) <= max
    /\ w # <<>> => w[1] = tip
    /\ \A k \in 1 .. Len(w) - 1 : w[k + 1] = Prev[w[k]]
    /\ \/ Len(w) = max
       \/ w = <<>> /\ tip \notin events
       \/ w # <<>> /\ Prev[w[Len(w)]] \notin events

\* One turn more.
LEMMA WalkTurn ==
    ASSUME NEW events, NEW tip, NEW k \in Nat, NEW w, IsWalk(w, events, tip, k)
    PROVE  IsWalk(WalkOn(events, tip, w), events, tip, k + 1)
  <1>1. w \in Seq(events) /\ Len(w) \in Nat /\ Len(w) <= k
    BY SMTT(40) DEF IsWalk
  <1>2. PICK cur : cur = IF w = <<>> THEN tip ELSE Prev[w[Len(w)]]
    OBVIOUS
  <1>3. WalkOn(events, tip, w) = IF cur \in events THEN Append(w, cur) ELSE w
    BY <1>2 DEF WalkOn, Last
  <1>4. CASE cur \in events
    <2>1. Len(w) = k
      BY <1>2, <1>4 DEF IsWalk
    <2>2. PICK v : v = Append(w, cur)
      OBVIOUS
    <2>3. /\ v \in Seq(events) /\ Len(v) = k + 1 /\ v[k + 1] = cur
          /\ \A i \in 1 .. k : v[i] = w[i]
      BY <1>1, <1>4, <2>1, <2>2, SMTT(40)
    <2>4. v[1] = tip
      <3>1. CASE k = 0
        <4>1. w = <<>> /\ k + 1 = 1
          BY <1>1, <2>1, <3>1, SMTT(40)
        <4> QED BY <1>2, <2>3, <4>1
      <3>2. CASE k # 0
        <4>1. w # <<>> /\ 1 \in 1 .. k
          BY <1>1, <2>1, <3>2, SMTT(40)
        <4> QED BY <2>3, <4>1 DEF IsWalk
      <3> QED BY <3>1, <3>2
    <2>5. ASSUME NEW i \in 1 .. Len(v) - 1 PROVE v[i + 1] = Prev[v[i]]
      <3>1. i \in 1 .. k /\ (i = k \/ (i \in 1 .. k - 1 /\ i + 1 \in 1 .. k))
        BY <2>3, SMTT(40)
      <3>2. CASE i = k
        <4>1. w # <<>>
          BY <1>1, <2>1, <3>1, SMTT(40)
        <4> QED BY <1>2, <2>1, <2>3, <3>1, <3>2, <4>1
      <3>3. CASE i # k
        BY <2>1, <2>3, <3>1, <3>3 DEF IsWalk
      <3> QED BY <3>2, <3>3
    <2>6. Len(v) <= k + 1
      BY <2>3, SMTT(40)
    <2> QED BY <1>3, <1>4, <2>2, <2>3, <2>4, <2>5, <2>6 DEF IsWalk
  <1>5. CASE cur \notin events
    <2>1. Len(w) <= k + 1
      BY <1>1, SMTT(40)
    <2>2. \/ w = <<>> /\ tip \notin events
          \/ w # <<>> /\ Prev[w[Len(w)]] \notin events
      BY <1>2, <1>5
    <2> QED BY <1>3, <1>5, <2>1, <2>2 DEF IsWalk
  <1> QED BY <1>4, <1>5

\* Walk walks.
LEMMA WalkWalks ==
    ASSUME NEW ledger, NEW tip, NEW max \in Nat
    PROVE  IsWalk(Walk(ledger, tip, max), ledger.events, tip, max)
  <1>1. PICK f : WalkedTo(f, ledger, tip, max) /\ Walk(ledger, tip, max) = f[max]
    BY WalkRun
  <1>2. PICK U : U = {k \in 0 .. max : IsWalk(f[k], ledger.events, tip, k)}
    OBVIOUS
  <1>3. 0 \in U
    <2>1. <<>> \in Seq(ledger.events) /\ Len(<<>>) = 0 /\ 0 <= 0 /\ 1 .. 0 - 1 = {}
      BY SMTT(40)
    <2>2. IsWalk(<<>>, ledger.events, tip, 0)
      BY <2>1 DEF IsWalk
    <2>3. IsWalk(f[0], ledger.events, tip, 0)
      BY <1>1, <2>2 DEF WalkedTo
    <2>4. 0 \in 0 .. max
      BY SMTT(40)
    <2> QED BY <1>2, <2>3, <2>4
  <1>4. ASSUME NEW k \in 1 .. max, k - 1 \in U PROVE k \in U
    <2>1. k - 1 \in Nat /\ (k - 1) + 1 = k /\ k \in 0 .. max
      BY SMTT(40)
    <2>2. IsWalk(WalkOn(ledger.events, tip, f[k - 1]), ledger.events, tip, (k - 1) + 1)
      BY <1>2, <1>4, <2>1, WalkTurn
    <2> QED BY <1>1, <1>2, <2>1, <2>2 DEF WalkedTo
  <1>5. \A k \in 0 .. max : k \in U
    BY <1>3, <1>4, LoopInduction
  <1>6. max \in 0 .. max
    BY SMTT(40)
  <1> QED BY <1>1, <1>2, <1>5, <1>6

\* A walk meets only ancestors.
LEMMA WalkAncestors ==
    ASSUME NEW events \in SUBSET Events, NEW tip \in events, NEW max \in Nat,
           NEW w, IsWalk(w, events, tip, max)
    PROVE  \A k \in 1 .. Len(w) : w[k] \in Ancestry[tip]
  <1>1. PICK n \in Nat : n = Len(w)
    BY SMTT(40) DEF IsWalk
  <1>2. \A k \in 1 .. n : w[k] \in Events
    BY <1>1, SMTT(40) DEF IsWalk
  <1>3. PICK U : U = {k \in 0 .. n : k = 0 \/ w[k] \in Ancestry[tip]}
    OBVIOUS
  <1>4. 0 \in U
    BY <1>3, SMTT(40)
  <1>5. ASSUME NEW k \in 1 .. n, k - 1 \in U PROVE k \in U
    <2>1. k \in 0 .. n
      BY SMTT(40)
    <2>2. CASE k = 1
      <3>1. w # <<>>
        BY <1>1, <2>2, SMTT(40)
      <3>2. w[k] = tip
        BY <2>2, <3>1 DEF IsWalk
      <3> QED BY <1>3, <2>1, <3>2, AncestrySelf
    <2>3. CASE k # 1
      <3>1. PICK j \in 1 .. n - 1 : j = k - 1 /\ j + 1 = k /\ j # 0 /\ j \in 1 .. n
        BY <2>3, SMTT(40)
      <3>2. w[k] = Prev[w[j]] /\ w[j] \in Ancestry[tip]
        BY <1>1, <1>3, <1>5, <3>1 DEF IsWalk
      <3>3. Prev[w[j]] \in Events
        BY <1>2, <3>2
      <3>4. Prev[w[j]] \in Ancestry[tip]
        BY <3>2, <3>3, AncestryParent, LedgerAssumption DEF HasParent
      <3> QED BY <1>3, <2>1, <3>2, <3>4
    <2> QED BY <2>2, <2>3
  <1>6. \A k \in 0 .. n : k \in U
    BY <1>4, <1>5, LoopInduction
  <1>7. \A k \in 1 .. n : k \in 0 .. n /\ k # 0
    BY SMTT(40)
  <1> QED BY <1>1, <1>3, <1>6, <1>7

\* What is_ancestor_by_walk finds is an ancestor.
LEMMA FoundIsAncestor ==
    ASSUME NEW ledger, ledger.events \in SUBSET Events, NEW e \in ledger.events, NEW l \in Events,
           NEW max \in Nat, IsAncestorByWalk(ledger, l, e, max)
    PROVE  l \in Ancestry[e]
  <1>1. CASE l = e
    BY <1>1, AncestrySelf
  <1>2. CASE l # e
    <2>1. PICK w : w = Walk(ledger, e, max) /\ IsWalk(w, ledger.events, e, max)
      BY WalkWalks
    <2>2. DOMAIN w = 1 .. Len(w)
      BY <2>1, SMTT(40) DEF IsWalk
    <2>3. PICK k \in 1 .. Len(w) : Prev[w[k]] = l
      BY <1>2, <2>1, <2>2 DEF IsAncestorByWalk, ToSet
    <2>4. w[k] \in Ancestry[e]
      BY <2>1, <2>3, WalkAncestors
    <2> QED BY <2>3, <2>4, AncestryParent, LedgerAssumption DEF HasParent
  <1> QED BY <1>1, <1>2

-----------------------------------------------------------------------------
\* The events on the way from x to its ancestor l.
Gap(l, x) == Cardinality(Ancestry[x] \ Ancestry[l])

\* A gap is a number, and 0 only between an event and itself.
LEMMA GapZero ==
    ASSUME NEW x \in Events, NEW l \in Ancestry[x]
    PROVE  Gap(l, x) \in Nat /\ (Gap(l, x) = 0 => x = l)
  <1>1. IsFiniteSet(Ancestry[x] \ Ancestry[l])
    BY SimAssumption, AncestrySelf, FS_Subset
  <1>2. Gap(l, x) \in Nat /\ (Gap(l, x) = 0 => Ancestry[x] \ Ancestry[l] = {})
    BY <1>1, FS_CardinalityType, FS_EmptySet DEF Gap
  <1> QED BY <1>2, AncestrySelf, AncestryOnce

\* It gets smaller from an event to its parent.
LEMMA GapStep ==
    ASSUME NEW x \in Events, NEW l \in Ancestry[x], l # x
    PROVE  /\ Prev[x] \in Events /\ l \in Ancestry[Prev[x]]
           /\ Gap(l, Prev[x]) \in Nat /\ Gap(l, x) \in Nat /\ Gap(l, Prev[x]) + 1 <= Gap(l, x)
  <1>1. Prev[x] \in Events /\ l \in Ancestry[Prev[x]]
    BY AncestryStep
  <1>2. Gap(l, Prev[x]) \in Nat /\ Gap(l, x) \in Nat
    BY <1>1, GapZero
  <1>3. PICK A, B : A = Ancestry[x] \ Ancestry[l] /\ B = Ancestry[Prev[x]] \ Ancestry[l]
    OBVIOUS
  <1>4. Prev[x] \in Ancestry[x]
    BY <1>1, AncestrySelf, AncestryParent, LedgerAssumption DEF HasParent
  <1>5. x \notin Ancestry[l]
    BY AncestryOnce
  <1>6. Prev[x] # x
    <2>1. {x} \in SUBSET Events /\ {x} # {}
      OBVIOUS
    <2> QED BY <2>1, LedgerAssumption
  <1>7. x \notin Ancestry[Prev[x]]
    BY <1>4, <1>6, AncestryOnce
  <1>8. x \in A /\ B \subseteq A \ {x} /\ IsFiniteSet(A)
    BY <1>3, <1>4, <1>5, <1>7, AncestrySelf, AncestryOf, SimAssumption, FS_Subset
  <1>9. IsFiniteSet(A \ {x}) /\ Cardinality(A \ {x}) = Cardinality(A) - 1
    BY <1>8, FS_RemoveElement
  <1>10. Cardinality(B) <= Cardinality(A \ {x})
    BY <1>8, <1>9, FS_Subset
  <1>11. Gap(l, x) = Cardinality(A) /\ Gap(l, Prev[x]) = Cardinality(B)
    BY <1>3 DEF Gap
  <1>12. Gap(l, Prev[x]) + 1 <= Gap(l, x)
    BY <1>2, <1>9, <1>10, <1>11, SMTT(40)
  <1> QED BY <1>1, <1>2, <1>12

\* An ancestor that is no further away than the walk is found.
LEMMA AncestorIsFound ==
    ASSUME NEW ledger, ledger.events \in SUBSET Events, Closed(ledger), NEW e \in ledger.events,
           NEW l \in Ancestry[e], NEW max \in Nat, Gap(l, e) <= max
    PROVE  IsAncestorByWalk(ledger, l, e, max)
  <1> SUFFICES ASSUME ~IsAncestorByWalk(ledger, l, e, max) PROVE FALSE
    OBVIOUS
  <1>1. PICK w : w = Walk(ledger, e, max) /\ IsWalk(w, ledger.events, e, max)
    BY WalkWalks
  <1>2. PICK n \in Nat : n = Len(w) /\ n <= max /\ DOMAIN w = 1 .. n
    BY <1>1, SMTT(40) DEF IsWalk
  <1>3. l # e /\ \A k \in 1 .. n : Prev[w[k]] # l
    BY <1>1, <1>2 DEF IsAncestorByWalk, ToSet
  <1>4. e \in Events
    OBVIOUS
  <1>5. PICK U : U = {k \in 0 .. n : k = 0 \/ (/\ w[k] \in Events /\ l \in Ancestry[w[k]] /\ w[k] # l
                                             /\ Gap(l, w[k]) + k <= max + 1)}
    OBVIOUS
  <1>6. 0 \in U
    BY <1>5, SMTT(40)
  <1>7. ASSUME NEW k \in 1 .. n, k - 1 \in U PROVE k \in U
    <2>1. k \in 0 .. n
      BY SMTT(40)
    <2>2. CASE k = 1
      <3>1. w # <<>>
        BY <1>2, <2>2, SMTT(40)
      <3>2. w[k] = e
        BY <1>1, <2>2, <3>1 DEF IsWalk
      <3>3. Gap(l, e) \in Nat
        BY <1>4, GapZero
      <3>4. Gap(l, e) + k <= max + 1
        BY <2>2, <3>3, SMTT(40)
      <3> QED BY <1>3, <1>4, <1>5, <2>1, <3>2, <3>4
    <2>3. CASE k # 1
      <3>1. PICK j \in 1 .. n - 1 : j = k - 1 /\ j + 1 = k /\ j # 0 /\ j \in 1 .. n
        BY <2>3, SMTT(40)
      <3>2. w[k] = Prev[w[j]]
        BY <1>1, <1>2, <3>1 DEF IsWalk
      <3>3. w[j] \in Events /\ l \in Ancestry[w[j]] /\ w[j] # l /\ Gap(l, w[j]) + j <= max + 1
        BY <1>5, <1>7, <3>1
      <3>4. /\ Prev[w[j]] \in Events /\ l \in Ancestry[Prev[w[j]]]
            /\ Gap(l, Prev[w[j]]) \in Nat /\ Gap(l, w[j]) \in Nat
            /\ Gap(l, Prev[w[j]]) + 1 <= Gap(l, w[j])
        BY <3>3, GapStep
      <3>5. Gap(l, Prev[w[j]]) + k <= max + 1
        BY <3>1, <3>3, <3>4, SMTT(40)
      <3> QED BY <1>3, <1>5, <2>1, <3>1, <3>2, <3>4, <3>5
    <2> QED BY <2>2, <2>3
  <1>8. \A k \in 0 .. n : k \in U
    BY <1>6, <1>7, LoopInduction
  <1>9. CASE n = 0
    <2>1. w = <<>>
      BY <1>1, <1>2, <1>9, SMTT(40) DEF IsWalk
    <2>2. max = 0
      BY <1>1, <1>2, <1>9, <2>1 DEF IsWalk
    <2>3. Gap(l, e) = 0
      BY <1>4, <2>2, GapZero, SMTT(40)
    <2> QED BY <1>3, <1>4, <2>3, GapZero
  <1>10. CASE n # 0
    <2>1. n \in 0 .. n /\ n \in 1 .. n /\ w # <<>>
      BY <1>2, <1>10, SMTT(40)
    <2>2. w[n] \in Events /\ l \in Ancestry[w[n]] /\ w[n] # l /\ Gap(l, w[n]) + n <= max + 1
      BY <1>5, <1>8, <1>10, <2>1
    <2>3. /\ Prev[w[n]] \in Events /\ l \in Ancestry[Prev[w[n]]]
          /\ Gap(l, Prev[w[n]]) \in Nat /\ Gap(l, w[n]) \in Nat
          /\ Gap(l, Prev[w[n]]) + 1 <= Gap(l, w[n])
      BY <2>2, GapStep
    <2>4. w[n] \in ledger.events
      BY <1>1, <1>2, <2>1, SMTT(40) DEF IsWalk
    <2>5. Prev[w[n]] \in ledger.events
      BY <2>3, <2>4, LedgerAssumption DEF Closed, HasParent
    <2>6. n = max
      BY <1>1, <1>2, <2>1, <2>5 DEF IsWalk
    <2>7. Gap(l, Prev[w[n]]) = 0
      BY <2>2, <2>3, <2>6, SMTT(40)
    <2> QED BY <1>3, <2>1, <2>3, <2>7, GapZero
  <1> QED BY <1>9, <1>10

-----------------------------------------------------------------------------
\* A tip is at least as good as another one.
Beats(score, t, u) ==
    score[t] > score[u] \/ (score[t] = score[u] /\ Rank[t] <= Rank[u])

\* The order is one, and the better of two tips is kept.
LEMMA BeatsOrder ==
    ASSUME NEW S \in SUBSET Events, NEW score, \A u \in S : score[u] \in Int,
           NEW a \in S, NEW b \in S, NEW c \in S
    PROVE  /\ Beats(score, a, a) /\ (Beats(score, a, b) /\ Beats(score, b, c) => Beats(score, a, c))
           /\ KeepBest(score, a, b) \in S
           /\ Beats(score, KeepBest(score, a, b), a) /\ Beats(score, KeepBest(score, a, b), b)
  <1>1. /\ score[a] \in Int /\ score[b] \in Int /\ score[c] \in Int
        /\ Rank[a] \in Nat /\ Rank[b] \in Nat /\ Rank[c] \in Nat
    BY LedgerAssumption
  <1> QED BY <1>1, SMTT(40) DEF Beats, KeepBest

\* The recursion that SelectTip stands for.
SelectEquation(iter, base, rest, score) ==
    iter = [s \in SUBSET DOMAIN rest |->
              IF s = {} THEN base ELSE KeepBest(score, iter[s \ {Max(s)}], rest[Max(s)])]

\* SelectTip is the value of that recursion.
LEMMA SelectUnfolds ==
    ASSUME NEW order, NEW score
    PROVE  SelectTip(order, score)
             = (CHOOSE iter : SelectEquation(iter, Head(order), Tail(order), score))[DOMAIN Tail(order)]
  BY DEF SelectTip, FoldLeft, MapThenFoldSet, SelectEquation

\* The best tips so far, from turn to turn.
Selects(run, V, base, rest, score, n, tip) ==
    /\ run \in [0 .. n -> V] /\ run[0] = base /\ run[n] = tip
    /\ \A k \in 1 .. n : run[k] = KeepBest(score, run[k - 1], rest[k])

\* A sequence of members of V, which have a score, is its first one and n others.
Parts(order, base, rest, V, score, n) ==
    /\ base = Head(order) /\ rest = Tail(order)
    /\ base \in V /\ rest \in [1 .. n -> V] /\ \A u \in V : score[u] \in Int

\* The loop of select_preferred_tip over the tips after the first.
LEMMA SelectRun ==
    ASSUME NEW V, NEW score, NEW base, NEW n \in Nat, NEW rest,
           NEW order, Parts(order, base, rest, V, score, n)
    PROVE  \E run : Selects(run, V, base, rest, score, n, SelectTip(order, score))
  <1>1. base \in V /\ rest \in [1 .. n -> V]
    BY DEF Parts
  <1>0. \A v \in V, k \in 1 .. n : KeepBest(score, v, rest[k]) \in V
    BY <1>1 DEF KeepBest
  <1>2. PICK step : IsStep(step, V, n) /\ \A v \in V, k \in 1 .. n : step[<<v, k>>] = KeepBest(score, v, rest[k])
    <2>0. PICK f : f = [p \in V \X (1 .. n) |-> KeepBest(score, p[1], rest[p[2]])]
      OBVIOUS
    <2>1. f \in [V \X (1 .. n) -> V] /\ \A v \in V, k \in 1 .. n : f[<<v, k>>] = KeepBest(score, v, rest[k])
      BY <1>0, <2>0
    <2> QED BY <2>1 DEF IsStep
  <1>3. DOMAIN rest = 1 .. n
    BY <1>1
  <1>4. PICK iter : IsTable(iter, V, base, step, n)
    BY <1>1, <1>2, SequenceFold
  <1>5. \A s \in SUBSET (1 .. n) : s # {} => Max(s) \in 1 .. n
    BY MaxMember
  <1>6. \A s \in SUBSET (1 .. n) :
           iter[s] = IF s = {} THEN base ELSE KeepBest(score, iter[s \ {Max(s)}], rest[Max(s)])
    BY <1>2, <1>4, <1>5 DEF IsTable
  <1>7. SelectEquation(iter, base, rest, score)
    BY <1>3, <1>4, <1>6 DEF SelectEquation, IsTable
  <1>8. PICK c : c = (CHOOSE x : SelectEquation(x, base, rest, score)) /\ SelectEquation(c, base, rest, score)
    BY <1>7
  <1>9. \A s \in SUBSET (1 .. n) :
           c[s] = IF s = {} THEN base ELSE KeepBest(score, c[s \ {Max(s)}], rest[Max(s)])
    BY <1>3, <1>8 DEF SelectEquation
  <1>10. Follows(c, V, base, step, n)
    BY <1>1, <1>2, <1>5, <1>9 DEF Follows
  <1>11. PICK run : Unrolls(run, c, V, base, step, n)
    BY <1>1, <1>2, <1>10, FoldRun
  <1>12. \A k \in 1 .. n : k - 1 \in 0 .. n
    BY SMTT(40)
  <1>13. \A k \in 1 .. n : run[k] = KeepBest(score, run[k - 1], rest[k])
    BY <1>2, <1>11, <1>12 DEF IsRun, Unrolls
  <1>14. SelectTip(order, score) = c[1 .. n]
    BY <1>3, <1>8, SelectUnfolds DEF Parts
  <1> QED BY <1>11, <1>13, <1>14 DEF IsRun, Unrolls, Selects

\* The tip that is selected is at least as good as every tip of the sequence.
LEMMA SelectBest ==
    ASSUME NEW V \in SUBSET Events, NEW score, \A u \in V : score[u] \in Int,
           NEW order \in Seq(V), order # <<>>
    PROVE  \A k \in 1 .. Len(order) : Beats(score, SelectTip(order, score), order[k])
  <1>1. PICK n \in Nat : n + 1 = Len(order)
    BY SMTT(40)
  <1>2. PICK base, rest : base = Head(order) /\ rest = Tail(order)
    OBVIOUS
  <1>3. base \in V /\ base = order[1] /\ rest \in [1 .. n -> V] /\ \A k \in 1 .. n : rest[k] = order[k + 1]
    <2>1. base = order[1] /\ base \in V
      BY <1>1, <1>2, SMTT(40)
    <2>2. rest \in Seq(V) /\ Len(rest) = n
      BY <1>1, <1>2, SMTT(40)
    <2>3. rest \in [1 .. n -> V]
      BY <2>2, SMTT(40)
    <2>4. ASSUME NEW k \in 1 .. n PROVE rest[k] = order[k + 1]
      BY <1>1, <1>2, SMTT(40)
    <2> QED BY <2>1, <2>3, <2>4
  <1>4. PICK run : Selects(run, V, base, rest, score, n, SelectTip(order, score))
    <2>1. Parts(order, base, rest, V, score, n)
      BY <1>2, <1>3 DEF Parts
    <2> QED BY <2>1, SelectRun
  <1>5. PICK U : U = {k \in 0 .. n : Beats(score, run[k], base) /\ \A i \in 1 .. k : Beats(score, run[k], rest[i])}
    OBVIOUS
  <1>6. 0 \in U
    <2>1. 0 \in 0 .. n /\ 1 .. 0 = {}
      BY SMTT(40)
    <2>2. Beats(score, run[0], base)
      BY <1>3, <1>4, BeatsOrder DEF Selects
    <2> QED BY <1>5, <2>1, <2>2
  <1>7. ASSUME NEW k \in 1 .. n, k - 1 \in U PROVE k \in U
    <2>1. /\ k \in 0 .. n /\ k - 1 \in 0 .. n
          /\ \A i \in 1 .. k : i \in 1 .. n /\ (i = k \/ i \in 1 .. k - 1)
      BY SMTT(40)
    <2>2. run[k - 1] \in V /\ rest[k] \in V /\ run[k] = KeepBest(score, run[k - 1], rest[k]) /\ run[k] \in V
      BY <1>3, <1>4, <2>1 DEF Selects
    <2>3. Beats(score, run[k], run[k - 1]) /\ Beats(score, run[k], rest[k])
      <3>1. PICK a \in V, b \in V : a = run[k - 1] /\ b = rest[k]
        BY <2>2
      <3>2. Beats(score, KeepBest(score, a, b), a) /\ Beats(score, KeepBest(score, a, b), b)
        BY BeatsOrder
      <3> QED BY <2>2, <3>1, <3>2
    <2>4. Beats(score, run[k - 1], base) /\ \A i \in 1 .. k - 1 : Beats(score, run[k - 1], rest[i])
      BY <1>5, <1>7
    <2>5. Beats(score, run[k], base)
      BY <1>3, <2>2, <2>3, <2>4, BeatsOrder
    <2>6. ASSUME NEW i \in 1 .. k PROVE Beats(score, run[k], rest[i])
      <3>1. CASE i = k
        BY <2>3, <3>1
      <3>2. CASE i \in 1 .. k - 1
        BY <1>3, <2>1, <2>2, <2>3, <2>4, <3>2, BeatsOrder
      <3> QED BY <2>1, <3>1, <3>2
    <2> QED BY <1>5, <2>1, <2>5, <2>6
  <1>8. \A k \in 0 .. n : k \in U
    BY <1>6, <1>7, LoopInduction
  <1>9. n \in 0 .. n /\ \A k \in 1 .. Len(order) : k = 1 \/ \E i \in 1 .. n : k = i + 1
    <2>1. \A k \in 1 .. Len(order) : k = 1 \/ (k - 1 \in 1 .. n /\ k = (k - 1) + 1)
      BY <1>1, SMTT(40)
    <2>2. n \in 0 .. n
      BY SMTT(40)
    <2> QED BY <2>1, <2>2
  <1>10. run[n] = SelectTip(order, score)
    BY <1>4 DEF Selects
  <1> QED BY <1>3, <1>5, <1>8, <1>9, <1>10

\* An order of the tips has them all.
LEMMA OrderHasAll ==
    ASSUME NEW S, IsFiniteSet(S), NEW order \in SetToSeqs(S)
    PROVE  order \in Seq(S) /\ \A u \in S : \E k \in 1 .. Len(order) : order[k] = u
  <1>1. PICK n \in Nat : n = Cardinality(S)
    BY FS_CardinalityType
  <1>2. order \in [1 .. n -> S] /\ IsInjective(order)
    BY <1>1 DEF SetToSeqs
  <1>3. order \in Seq(S) /\ Len(order) = n
    BY <1>2, SMTT(40)
  <1>4. order \in Injection(1 .. n, S)
    BY <1>2 DEF Injection, IsInjective
  <1>5. IsFiniteSet(1 .. n) /\ Cardinality(1 .. n) = n
    <2>1. 1 \in Int /\ n \in Int
      BY SMTT(40)
    <2>2. IsFiniteSet(1 .. n) /\ Cardinality(1 .. n) = IF 1 > n THEN 0 ELSE n - 1 + 1
      BY <2>1, FS_Interval
    <2> QED BY <2>2, SMTT(40)
  <1>6. order \in Surjection(1 .. n, S)
    BY <1>1, <1>4, <1>5, FS_Injection
  <1> QED BY <1>3, <1>6 DEF Surjection

-----------------------------------------------------------------------------
\* No event is older than the newest of its author by more than the skew.
Punctual ==
    \A d, e \in Events : Author[d] = Author[e] => Timestamp[d] <= Timestamp[e] + MaxBackwardSkew

\* A node is a record of its fields.
NodeOf(ledger, ctx, overlay, trace, ticks, seen, pending, total, dropped) ==
    [ledger |-> ledger, ctx |-> ctx, overlay |-> overlay, trace |-> trace, ticks |-> ticks,
     seen |-> seen, pending |-> pending, total |-> total, dropped |-> dropped]

IsNode(n) ==
    n = NodeOf(n.ledger, n.ctx, n.overlay, n.trace, n.ticks, n.seen, n.pending, n.total, n.dropped)

\* The ledger: events with their parents, and the tips.
LedgerInv(l) ==
    /\ l = [events |-> l.events, tips |-> l.tips]
    /\ l.events \in SUBSET Events /\ Closed(l) /\ l.tips = Childless(l.events)

\* What the validator has seen of an author is the timestamp of an event.
CtxInv(ctx) ==
    /\ ctx \in [Authors -> Nat]
    /\ \A a \in Authors : ctx[a] = 0 \/ \E d \in Events : Author[d] = a /\ ctx[a] = Timestamp[d]

\* The trace: one row for each event of the ledger.
TraceInv(trace, events) ==
    /\ \E S : trace \in Seq(S)
    /\ Len(trace) = Cardinality(events)
    /\ {trace[k].event : k \in DOMAIN trace} = events
    /\ \A k \in DOMAIN trace : trace[k].parentPresent

\* The pool: the messages in the bucket of their parent, and their number.
Lengths(pending) == [p \in Events |-> Len(pending[p])]

PoolInv(pending, total) ==
    /\ pending \in [Events -> Seq(Events)]
    /\ \A p \in Events : \A k \in 1 .. Len(pending[p]) : Prev[pending[p][k]] = p
    /\ total = SumOf(Lengths(pending), Events) /\ total <= MaxPending

NoneWaits(pending, events) == \A p \in events : pending[p] = <<>>

\* The events of an author, and what the overlay knows of them.
Own(events, a) == {e \in events : Author[e] = a}
Related(d, e) == d \in Ancestry[e] \/ e \in Ancestry[d]
Near(d, e) ==
    Cardinality(Ancestry[e] \ Ancestry[d]) <= MaxLinkWalk /\ Cardinality(Ancestry[d] \ Ancestry[e]) <= MaxLinkWalk
Fork(own) == \E d, e \in own : ~Related(d, e)
Far(own) == \E d, e \in own : Related(d, e) /\ ~Near(d, e)

AuthorInv(st, own) ==
    /\ st = [first |-> st.first, seenBy |-> st.seenBy, lastTip |-> st.lastTip, until |-> st.until,
             slashed |-> st.slashed]
    /\ st.first \in Nat /\ st.seenBy \subseteq {"self"} /\ st.until \in Nat /\ st.slashed \in 0 .. Scale
    /\ st.lastTip \in own
    /\ st.until = 0 /\ QuarantineTicks > 0 => \A d \in own : d \in Ancestry[st.lastTip]
    /\ st.until > 0 => Fork(own) \/ Far(own)

OverlayInv(overlay, events) ==
    /\ \E S : overlay \in [{Author[e] : e \in events} -> S]
    /\ \A a \in {Author[e] : e \in events} : AuthorInv(overlay[a], Own(events, a))

\* Every event received is linked, in the pool, held by a drain, or was turned
\* away; none of those is forged.
Waiting(pending) == UNION {ToSet(pending[p]) : p \in Events}

Accounted(events, pending, dropped, held, recv) ==
    /\ events \cup Waiting(pending) \cup held \subseteq recv \ Forged
    /\ Punctual => recv \ Forged \subseteq events \cup Waiting(pending) \cup held \cup dropped

Core(n, held, recv) ==
    /\ IsNode(n)
    /\ LedgerInv(n.ledger) /\ CtxInv(n.ctx)
    /\ TraceInv(n.trace, n.ledger.events)
    /\ OverlayInv(n.overlay, n.ledger.events)
    /\ n.seen \subseteq n.ledger.events
    /\ PoolInv(n.pending, n.total)
    /\ Accounted(n.ledger.events, n.pending, n.dropped, held, recv)

Good(n, held, recv) == Core(n, held, recv) /\ NoneWaits(n.pending, n.ledger.events)


-----------------------------------------------------------------------------
\* Two functions to numbers that differ in one place.
OneDiffers(f, g, S, x) ==
    /\ \A y \in S : f[y] \in Nat /\ g[y] \in Nat
    /\ \A y \in S \ {x} : g[y] = f[y]

\* A sum after the change of one term.
LEMMA SumUpdate ==
    ASSUME NEW S, IsFiniteSet(S), NEW x \in S, NEW f, NEW g, OneDiffers(f, g, S, x)
    PROVE  /\ SumOf(f, S) \in Nat /\ SumOf(g, S) \in Nat /\ f[x] <= SumOf(f, S)
           /\ SumOf(g, S) = SumOf(f, S) - f[x] + g[x]
  <1>1. IsFiniteSet(S \ {x})
    BY FS_RemoveElement
  <1>2. (\A y \in S : f[y] \in Int /\ f[y] \in Nat) /\ (\A y \in S : g[y] \in Int /\ g[y] \in Nat)
    <2>1. \A y \in Nat : y \in Int
      BY SMTT(40)
    <2> QED BY <2>1 DEF OneDiffers
  <1>3. SumOf(f, S) = f[x] + SumOf(f, S \ {x}) /\ SumOf(g, S) = g[x] + SumOf(g, S \ {x})
    BY <1>2, SumMember
  <1>4. SumOf(f, S \ {x}) = SumOf(g, S \ {x})
    <2>1. \A y \in S \ {x} : f[y] \in Int /\ g[y] = f[y]
      BY <1>2 DEF OneDiffers
    <2> QED BY <1>1, <2>1, SumSame
  <1>5. SumOf(f, S) \in Nat /\ SumOf(g, S) \in Nat /\ SumOf(f, S \ {x}) \in Nat
    <2>1. S \ {x} \in SUBSET S
      OBVIOUS
    <2> QED BY <1>2, <2>1, SumPart
  <1> QED BY <1>2, <1>3, <1>4, <1>5, SMTT(40)

\* A sum of zeros.
LEMMA SumOfZeros ==
    ASSUME NEW S, IsFiniteSet(S), NEW f, \A x \in S : f[x] = 0
    PROVE  SumOf(f, S) = 0
  <1>1. PICK U : U = {T \in SUBSET S : SumOf(f, T) = 0}
    OBVIOUS
  <1>2. {} \in U
    BY <1>1, SumEmpty
  <1>3. ASSUME NEW T \in SUBSET S, NEW x \in S \ T, T \in U PROVE T \cup {x} \in U
    <2>1. IsFiniteSet(T) /\ x \notin T /\ f[x] = 0 /\ SumOf(f, T) = 0 /\ T \cup {x} \in SUBSET S
      BY <1>1, <1>3, FS_Subset
    <2>2. (\A y \in T : f[y] \in Int) /\ f[x] \in Int
      <3>1. 0 \in Int
        BY SMTT(40)
      <3> QED BY <3>1
    <2>3. SumOf(f, T \cup {x}) = f[x] + SumOf(f, T)
      BY <2>1, <2>2, SumAdd
    <2>4. SumOf(f, T \cup {x}) = 0
      BY <2>1, <2>3, SMTT(40)
    <2> QED BY <1>1, <2>1, <2>4
  <1>4. \A T \in SUBSET S : T \in U
    BY <1>2, <1>3, MemberInduction
  <1> QED BY <1>1, <1>4

\* The lengths of the buckets.
LEMMA LengthsOf ==
    ASSUME NEW pending \in [Events -> Seq(Events)]
    PROVE  \A p \in Events : Lengths(pending)[p] = Len(pending[p]) /\ Lengths(pending)[p] \in Nat
  <1>1. \A p \in Events : Len(pending[p]) \in Nat
    BY SMTT(40)
  <1> QED BY <1>1 DEF Lengths

\* The bucket of a parent has changed, and the number of messages with it.
Rebucket(new, pending, p, s) == new = [pending EXCEPT ![p] = s]

BucketSum(new, pending, total, p, s) ==
    /\ total \in Nat /\ Len(pending[p]) \in Nat /\ Len(pending[p]) <= total
    /\ SumOf(Lengths(new), Events) = total - Len(pending[p]) + Len(s)
    /\ new \in [Events -> Seq(Events)]

\* The pool after such a change.
LEMMA BucketChanged ==
    ASSUME NEW pending, NEW total, PoolInv(pending, total), NEW p \in Events, NEW s \in Seq(Events),
           NEW new, Rebucket(new, pending, p, s)
    PROVE  BucketSum(new, pending, total, p, s)
  <1>1. pending \in [Events -> Seq(Events)] /\ total = SumOf(Lengths(pending), Events)
    BY DEF PoolInv
  <1>3. new \in [Events -> Seq(Events)] /\ new[p] = s /\ \A q \in Events \ {p} : new[q] = pending[q]
    BY <1>1 DEF Rebucket
  <1>4. PICK f, g : f = Lengths(pending) /\ g = Lengths(new)
    OBVIOUS
  <1>5. \A q \in Events : f[q] = Len(pending[q]) /\ f[q] \in Nat
    BY <1>1, <1>4, LengthsOf
  <1>6. \A q \in Events : g[q] = Len(new[q]) /\ g[q] \in Nat
    BY <1>3, <1>4, LengthsOf
  <1>7. OneDiffers(f, g, Events, p)
    BY <1>3, <1>5, <1>6 DEF OneDiffers
  <1>8. /\ SumOf(f, Events) \in Nat /\ f[p] <= SumOf(f, Events)
        /\ SumOf(g, Events) = SumOf(f, Events) - f[p] + g[p]
    BY <1>7, SumUpdate, SimAssumption
  <1>9. f[p] = Len(pending[p]) /\ f[p] \in Nat /\ g[p] = Len(s)
    BY <1>3, <1>5, <1>6
  <1> QED BY <1>1, <1>3, <1>4, <1>8, <1>9 DEF BucketSum

\* A bucket is taken out of the pool.
LEMMA PoolTake ==
    ASSUME NEW pending, NEW total, PoolInv(pending, total), NEW p \in Events
    PROVE  /\ total \in Nat /\ Len(pending[p]) \in Nat /\ Len(pending[p]) <= total
           /\ PoolInv([pending EXCEPT ![p] = <<>>], total - Len(pending[p]))
  <1>1. <<>> \in Seq(Events) /\ Len(<<>>) = 0 /\ 1 .. 0 = {} /\ MaxPending \in Nat
    BY SimAssumption, SMTT(40)
  <1>2. pending \in [Events -> Seq(Events)] /\ total <= MaxPending
    BY DEF PoolInv
  <1>4. PICK new : new = [pending EXCEPT ![p] = <<>>]
    OBVIOUS
  <1>3. /\ total \in Nat /\ Len(pending[p]) \in Nat /\ Len(pending[p]) <= total
        /\ SumOf(Lengths(new), Events) = total - Len(pending[p]) + Len(<<>>)
        /\ new \in [Events -> Seq(Events)]
    <2>1. Rebucket(new, pending, p, <<>>)
      BY <1>4 DEF Rebucket
    <2>2. BucketSum(new, pending, total, p, <<>>)
      BY <1>1, <2>1, BucketChanged
    <2> QED BY <2>2 DEF BucketSum
  <1>5. total - Len(pending[p]) + Len(<<>>) = total - Len(pending[p]) /\ total - Len(pending[p]) <= MaxPending
    BY <1>1, <1>2, <1>3, SMTT(40)
  <1>6. ASSUME NEW q \in Events, NEW k \in 1 .. Len(new[q]) PROVE Prev[new[q][k]] = q
    <2>1. CASE q = p
      BY <1>1, <1>2, <1>4, <2>1
    <2>2. CASE q # p
      BY <1>2, <1>4, <2>2 DEF PoolInv
    <2> QED BY <2>1, <2>2
  <1> QED BY <1>3, <1>4, <1>5, <1>6 DEF PoolInv

\* A message is put into the bucket of its parent.
LEMMA PoolQueue ==
    ASSUME NEW pending, NEW total, PoolInv(pending, total), total < MaxPending,
           NEW e \in Events, Prev[e] \in Events
    PROVE  PoolInv([pending EXCEPT ![Prev[e]] = Append(@, e)], total + 1)
  <1>0. PICK p \in Events : p = Prev[e]
    OBVIOUS
  <1>1. PICK s : s = Append(pending[p], e)
    OBVIOUS
  <1>2. pending \in [Events -> Seq(Events)] /\ total <= MaxPending /\ MaxPending \in Nat /\ pending[p] \in Seq(Events)
    BY SimAssumption DEF PoolInv
  <1>3. /\ s \in Seq(Events) /\ Len(s) = Len(pending[p]) + 1
        /\ \A k \in 1 .. Len(s) : s[k] = e \/ (k \in 1 .. Len(pending[p]) /\ s[k] = pending[p][k])
    BY <1>1, <1>2, SMTT(40)
  <1>4. PICK new : new = [pending EXCEPT ![p] = s]
    OBVIOUS
  <1>5. /\ total \in Nat /\ Len(pending[p]) \in Nat /\ Len(pending[p]) <= total
        /\ SumOf(Lengths(new), Events) = total - Len(pending[p]) + Len(s)
        /\ new \in [Events -> Seq(Events)]
    <2>1. Rebucket(new, pending, p, s)
      BY <1>4 DEF Rebucket
    <2>2. BucketSum(new, pending, total, p, s)
      BY <1>3, <2>1, BucketChanged
    <2> QED BY <2>2 DEF BucketSum
  <1>6. total - Len(pending[p]) + Len(s) = total + 1 /\ total + 1 <= MaxPending
    BY <1>2, <1>3, <1>5, SMTT(40)
  <1>7. new[p] = s /\ \A q \in Events \ {p} : new[q] = pending[q]
    BY <1>2, <1>4
  <1>8. ASSUME NEW q \in Events, NEW k \in 1 .. Len(new[q]) PROVE Prev[new[q][k]] = q
    <2>1. CASE q = p
      <3>1. k \in 1 .. Len(s) /\ new[q][k] = s[k]
        BY <1>7, <2>1
      <3>2. \A i \in 1 .. Len(pending[p]) : Prev[pending[p][i]] = p
        BY DEF PoolInv
      <3> QED BY <1>0, <1>3, <2>1, <3>1, <3>2
    <2>2. CASE q # p
      BY <1>7, <2>2 DEF PoolInv
    <2> QED BY <2>1, <2>2
  <1>9. new = [pending EXCEPT ![Prev[e]] = Append(@, e)]
    BY <1>0, <1>1, <1>4
  <1> QED BY <1>5, <1>6, <1>8, <1>9 DEF PoolInv

-----------------------------------------------------------------------------
\* The ledger and an event that can be linked.
LEMMA LinkLedger ==
    ASSUME NEW l, LedgerInv(l), NEW e \in Events, e \notin l.events, HasParent(l.events, e)
    PROVE  TryAddEvent(l, e).events = l.events \cup {e} /\ LedgerInv(TryAddEvent(l, e))
  <1>1. PICK m : m = TryAddEvent(l, e)
    OBVIOUS
  <1>2. m = [events |-> l.events \cup {e}, tips |-> (l.tips \ {Prev[e]}) \cup {e}]
    BY <1>1 DEF TryAddEvent, LinkResult, AddEvent
  <1>3. m.events = l.events \cup {e} /\ m.tips = (l.tips \ {Prev[e]}) \cup {e}
    BY <1>2
  <1>4. m = [events |-> m.events, tips |-> m.tips]
    BY <1>2, <1>3
  <1>5. l.events \in SUBSET Events /\ Closed(l) /\ l.tips = Childless(l.events)
    BY DEF LedgerInv
  <1>6. \A d \in l.events \cup {e} : HasParent(l.events, d)
    BY <1>5 DEF Closed
  <1>7. m.events \in SUBSET Events
    BY <1>3, <1>5
  <1>8. Closed(m)
    BY <1>3, <1>6 DEF Closed, HasParent
  <1>9. \A d \in l.events \cup {e} : Prev[d] # e
    BY <1>6, LedgerAssumption DEF HasParent
  <1>10. m.tips = Childless(m.events)
    BY <1>3, <1>5, <1>9 DEF Childless
  <1> QED BY <1>1, <1>3, <1>4, <1>7, <1>8, <1>10 DEF LedgerInv

\* The validator has seen an event.
LEMMA TouchContext ==
    ASSUME NEW ctx, CtxInv(ctx), NEW e \in Events
    PROVE  CtxInv(Touch(ctx, e))
  <1>1. /\ Author[e] \in Authors /\ Timestamp[e] \in Nat /\ ctx \in [Authors -> Nat]
        /\ \A a \in Authors : ctx[a] = 0 \/ \E d \in Events : Author[d] = a /\ ctx[a] = Timestamp[d]
    BY LedgerAssumption DEF Authors, CtxInv
  <1>2. PICK new : new = Touch(ctx, e)
    OBVIOUS
  <1>3. new \in [Authors -> Nat] /\ \A a \in Authors : new[a] = ctx[a] \/ (a = Author[e] /\ new[a] = Timestamp[e])
    BY <1>1, <1>2 DEF Touch
  <1>4. ASSUME NEW a \in Authors
        PROVE  new[a] = 0 \/ \E d \in Events : Author[d] = a /\ new[a] = Timestamp[d]
    <2>1. CASE new[a] = ctx[a]
      BY <1>1, <2>1
    <2>2. CASE a = Author[e] /\ new[a] = Timestamp[e]
      BY <2>2
    <2> QED BY <1>3, <2>1, <2>2
  <1> QED BY <1>2, <1>3, <1>4 DEF CtxInv

\* Events within the skew of each other are valid unless forged.
LEMMA PunctualIsValid ==
    ASSUME NEW ctx, CtxInv(ctx), Punctual, NEW e \in Events, e \notin Forged
    PROVE  Valid(ctx, e)
  <1>1. /\ Author[e] \in Authors /\ Timestamp[e] \in Nat /\ MaxBackwardSkew \in Nat
        /\ \A d \in Events : Timestamp[d] \in Nat
    BY LedgerAssumption DEF Authors
  <1>2. ctx[Author[e]] = 0 \/ \E d \in Events : Author[d] = Author[e] /\ ctx[Author[e]] = Timestamp[d]
    BY <1>1 DEF CtxInv
  <1>3. CASE ctx[Author[e]] = 0
    <2>1. Timestamp[e] + MaxBackwardSkew >= 0
      BY <1>1, SMTT(40)
    <2> QED BY <1>3, <2>1 DEF Valid
  <1>4. ASSUME NEW d \in Events, Author[d] = Author[e], ctx[Author[e]] = Timestamp[d]
        PROVE  Valid(ctx, e)
    <2>1. Timestamp[d] <= Timestamp[e] + MaxBackwardSkew
      BY <1>4 DEF Punctual
    <2>2. Timestamp[e] + MaxBackwardSkew >= Timestamp[d]
      BY <1>1, <2>1, SMTT(40)
    <2> QED BY <1>4, <2>2 DEF Valid
  <1> QED BY <1>2, <1>3, <1>4

\* The trace and the row of an event that was linked.
LEMMA TraceGrows ==
    ASSUME NEW trace, NEW events, IsFiniteSet(events), TraceInv(trace, events),
           NEW e, e \notin events, NEW row, row.event = e, row.parentPresent
    PROVE  TraceInv(Append(trace, row), events \cup {e})
  <1>1. PICK S : trace \in Seq(S)
    BY DEF TraceInv
  <1>2. PICK V, n, new : V = S \cup {row} /\ n = Len(trace) /\ new = Append(trace, row)
    OBVIOUS
  <1>3. trace \in Seq(V)
    BY <1>1, <1>2, SMTT(40)
  <1>4. /\ n \in Nat /\ new \in Seq(V) /\ Len(new) = n + 1 /\ DOMAIN trace = 1 .. n /\ DOMAIN new = 1 .. n + 1
        /\ new[n + 1] = row /\ \A k \in 1 .. n : new[k] = trace[k]
    BY <1>2, <1>3, SMTT(40)
  <1>5. Cardinality(events \cup {e}) = Cardinality(events) + 1
    BY FS_AddElement
  <1>6. Len(new) = Cardinality(events \cup {e})
    BY <1>2, <1>4, <1>5 DEF TraceInv
  <1>7. n + 1 \in 1 .. n + 1 /\ (\A k \in 1 .. n + 1 : k = n + 1 \/ k \in 1 .. n) /\ (\A k \in 1 .. n : k \in 1 .. n + 1)
    BY <1>4, SMTT(40)
  <1>8. {trace[k].event : k \in 1 .. n} = events /\ \A k \in 1 .. n : trace[k].parentPresent
    BY <1>4 DEF TraceInv
  <1>9. {new[k].event : k \in 1 .. n + 1} = events \cup {e}
    <2>1. ASSUME NEW k \in 1 .. n + 1 PROVE new[k].event \in events \cup {e}
      BY <1>4, <1>7, <1>8
    <2>2. ASSUME NEW x \in events \cup {e} PROVE \E k \in 1 .. n + 1 : x = new[k].event
      <3>1. CASE x = e
        BY <1>4, <1>7, <3>1
      <3>2. CASE x \in events
        <4>1. PICK k \in 1 .. n : x = trace[k].event
          BY <1>8, <3>2
        <4> QED BY <1>4, <1>7, <4>1
      <3> QED BY <3>1, <3>2
    <2> QED BY <2>1, <2>2
  <1>10. \A k \in 1 .. n + 1 : new[k].parentPresent
    BY <1>4, <1>7, <1>8
  <1> QED BY <1>2, <1>4, <1>6, <1>9, <1>10 DEF TraceInv

-----------------------------------------------------------------------------
\* The ancestors of an event are a chain.
LEMMA AncestryChain ==
    ASSUME NEW x \in Events, NEW y \in Ancestry[x], NEW z \in Ancestry[x]
    PROVE  Related(y, z)
  <1> SUFFICES ASSUME z \notin Ancestry[y], y \notin Ancestry[z] PROVE FALSE
    BY DEF Related
  <1>1. PICK S : S = {w \in Ancestry[x] : y \in Ancestry[w] /\ z \in Ancestry[w]}
    OBVIOUS
  <1>2. x \in S /\ S \in SUBSET Events
    BY <1>1, AncestrySelf
  <1>3. PICK w \in S : Prev[w] \notin S
    BY <1>2, LedgerAssumption
  <1>4. w \in Events /\ w \in Ancestry[x] /\ y \in Ancestry[w] /\ z \in Ancestry[w] /\ w # y /\ w # z
    BY <1>1, <1>2, <1>3
  <1>5. Prev[w] \in Events /\ y \in Ancestry[Prev[w]] /\ z \in Ancestry[Prev[w]]
    BY <1>4, AncestryStep
  <1>6. Prev[w] \in Ancestry[x]
    BY <1>4, <1>5, AncestryParent, LedgerAssumption DEF HasParent
  <1> QED BY <1>1, <1>3, <1>5, <1>6

\* The state of an author, as a record.
IsState(st, first, seenBy, lastTip, until, slashed) ==
    st = [first |-> first, seenBy |-> seenBy, lastTip |-> lastTip, until |-> until, slashed |-> slashed]

\* The end of a quarantine that begins now, and the share that is slashed with it.
LaterUntil(until, t) == IF t + QuarantineTicks > until THEN t + QuarantineTicks ELSE until

MoreSlashed(slashed) ==
    LET sum == slashed + (Scale * SlashPercent) \div 100 IN IF sum < Scale THEN sum ELSE Scale

\* What Observe makes of the state of an author.
LEMMA ObserveFields ==
    ASSUME NEW first, NEW seenBy, NEW lastTip, NEW until, NEW slashed, NEW st,
           IsState(st, first, seenBy, lastTip, until, slashed), NEW l, NEW t, NEW e
    PROVE  /\ AncestorLinked(l, st, e) =>
                IsState(Observe(l, st, t, "self", e), first, seenBy \cup {"self"}, e, until, slashed)
           /\ ~AncestorLinked(l, st, e) =>
                IsState(Observe(l, st, t, "self", e), first, seenBy \cup {"self"}, e,
                        LaterUntil(until, t), MoreSlashed(slashed))
  <1>1. PICK seen : seen = [st EXCEPT !.seenBy = @ \cup {"self"}]
    OBVIOUS
  <1>2. IsState(seen, first, seenBy \cup {"self"}, lastTip, until, slashed)
    BY <1>1, SMTT(40) DEF IsState
  <1>3. PICK judged : judged = IF AncestorLinked(l, st, e) THEN seen ELSE Quarantine(seen, t)
    OBVIOUS
  <1>4. Observe(l, st, t, "self", e) = [judged EXCEPT !.lastTip = e]
    BY <1>1, <1>3 DEF Observe
  <1>5. CASE AncestorLinked(l, st, e)
    <2>1. IsState(judged, first, seenBy \cup {"self"}, lastTip, until, slashed)
      BY <1>2, <1>3, <1>5
    <2>2. IsState([judged EXCEPT !.lastTip = e], first, seenBy \cup {"self"}, e, until, slashed)
      BY <2>1, SMTT(40) DEF IsState
    <2> QED BY <1>4, <1>5, <2>2
  <1>6. CASE ~AncestorLinked(l, st, e)
    <2>1. PICK u, s : u = LaterUntil(until, t) /\ s = MoreSlashed(slashed)
      OBVIOUS
    <2>2. judged = Quarantine(seen, t)
      BY <1>3, <1>6
    <2>3. seen.until = until /\ seen.slashed = slashed
      BY <1>2 DEF IsState
    <2>4. judged = [[seen EXCEPT !.until = u] EXCEPT !.slashed = s]
      <3>1. [seen EXCEPT !.until = u].slashed = slashed
        BY <1>2, SMTT(40) DEF IsState
      <3> QED BY <2>1, <2>2, <2>3, <3>1 DEF Quarantine, LaterUntil, MoreSlashed
    <2>5. IsState(judged, first, seenBy \cup {"self"}, lastTip, u, s)
      <3>1. PICK mid : mid = [seen EXCEPT !.until = u]
        OBVIOUS
      <3>2. IsState(mid, first, seenBy \cup {"self"}, lastTip, u, slashed)
        BY <1>2, <3>1, SMTT(40) DEF IsState
      <3>3. IsState([mid EXCEPT !.slashed = s], first, seenBy \cup {"self"}, lastTip, u, s)
        BY <3>2, SMTT(40) DEF IsState
      <3> QED BY <2>4, <3>1, <3>3
    <2>6. IsState([judged EXCEPT !.lastTip = e], first, seenBy \cup {"self"}, e, u, s)
      BY <2>5, SMTT(40) DEF IsState
    <2> QED BY <1>4, <1>6, <2>1, <2>6
  <1> QED BY <1>5, <1>6

\* What an event does to the state of its author, known or new: old are the
\* author's events before.
LEMMA ObserveAuthor ==
    ASSUME NEW l, LedgerInv(l), NEW e \in l.events, NEW t \in Nat,
           NEW old \in SUBSET l.events, \A x \in old : e \notin Ancestry[x],
           NEW st, AuthorInv(st, old) \/ (old = {} /\ st = NewAuthor(t))
    PROVE  AuthorInv(Observe(l, st, t, "self", e), old \cup {e})
  <1>1. /\ l.events \in SUBSET Events /\ Closed(l) /\ e \in Events /\ None \notin Events
        /\ MaxLinkWalk \in Nat /\ QuarantineTicks \in Nat /\ Scale \in Nat /\ SlashPercent \in Nat
    <2>1. SlashPercent \in Nat
      BY OverlayAssumption, SMTT(40)
    <2> QED BY <2>1, OverlayAssumption DEF LedgerInv
  <1>2. e \in old \cup {e}
    OBVIOUS
  <1>3. CASE old = {} /\ st = NewAuthor(t)
    <2>1. IsState(st, t, {}, None, 0, 0) /\ st.lastTip = None
      BY <1>3 DEF NewAuthor, IsState
    <2>2. AncestorLinked(l, st, e)
      BY <2>1 DEF AncestorLinked
    <2>3. PICK new : new = Observe(l, st, t, "self", e)
      OBVIOUS
    <2>4. IsState(new, t, {} \cup {"self"}, e, 0, 0)
      <3>1. IsState(Observe(l, st, t, "self", e), t, {} \cup {"self"}, e, 0, 0)
        BY <2>1, <2>2, ObserveFields
      <3> QED BY <2>3, <3>1
    <2>5. /\ new.first = t /\ new.seenBy = {} \cup {"self"} /\ new.lastTip = e /\ new.until = 0 /\ new.slashed = 0
          /\ new = [first |-> new.first, seenBy |-> new.seenBy, lastTip |-> new.lastTip,
                    until |-> new.until, slashed |-> new.slashed]
      BY <2>4 DEF IsState
    <2>6. 0 \in Nat /\ 0 \in 0 .. Scale /\ ~(0 > 0)
      BY <1>1, SMTT(40)
    <2>7. \A d \in old \cup {e} : d \in Ancestry[e]
      BY <1>1, <1>3, AncestrySelf
    <2>8. new.seenBy \subseteq {"self"} /\ new.first \in Nat
      BY <2>5
    <2> QED BY <1>2, <2>3, <2>5, <2>6, <2>7, <2>8 DEF AuthorInv
  <1>4. CASE AuthorInv(st, old)
    <2>1. PICK p \in old : p = st.lastTip
      BY <1>4 DEF AuthorInv
    <2>2. p \in Events /\ p \in l.events /\ p # None /\ e \notin Ancestry[p]
      BY <1>1
    <2>3. AncestorLinked(l, st, e) <=> Linked(l, p, e)
      BY <2>1, <2>2 DEF AncestorLinked
    <2>4. PICK first, seenBy, until, slashed :
             /\ first = st.first /\ seenBy = st.seenBy /\ until = st.until /\ slashed = st.slashed
             /\ IsState(st, first, seenBy, p, until, slashed)
      BY <1>4, <2>1 DEF AuthorInv, IsState
    <2>5. first \in Nat /\ seenBy \cup {"self"} \subseteq {"self"} /\ until \in Nat /\ slashed \in 0 .. Scale
      BY <1>4, <2>4 DEF AuthorInv
    <2>6. PICK new : new = Observe(l, st, t, "self", e)
      OBVIOUS
    <2>7. CASE Linked(l, p, e)
      <3>1. IsState(new, first, seenBy \cup {"self"}, e, until, slashed)
        <4>1. IsState(st, first, seenBy, p, until, slashed) /\ AncestorLinked(l, st, e)
          BY <2>3, <2>4, <2>7
        <4>2. IsState(Observe(l, st, t, "self", e), first, seenBy \cup {"self"}, e, until, slashed)
          BY <4>1, ObserveFields
        <4> QED BY <2>6, <4>2
      <3>2. /\ new.first = first /\ new.seenBy = seenBy \cup {"self"} /\ new.lastTip = e
            /\ new.until = until /\ new.slashed = slashed
            /\ new = [first |-> new.first, seenBy |-> new.seenBy, lastTip |-> new.lastTip,
                      until |-> new.until, slashed |-> new.slashed]
        BY <3>1 DEF IsState
      <3>3. p \in Ancestry[e]
        BY <1>1, <2>2, <2>7, FoundIsAncestor DEF Linked
      <3>4. Ancestry[p] \subseteq Ancestry[e] /\ e \in Ancestry[e]
        BY <1>1, <3>3, AncestryOf, AncestrySelf
      <3>5. until = 0 /\ QuarantineTicks > 0 => \A d \in old \cup {e} : d \in Ancestry[e]
        BY <1>4, <2>1, <2>4, <3>4 DEF AuthorInv
      <3>6. until > 0 => Fork(old \cup {e}) \/ Far(old \cup {e})
        <4>1. until > 0 => Fork(old) \/ Far(old)
          BY <1>4, <2>4 DEF AuthorInv
        <4> QED BY <4>1 DEF Fork, Far
      <3> QED BY <1>2, <2>5, <2>6, <3>2, <3>5, <3>6 DEF AuthorInv
    <2>8. CASE ~Linked(l, p, e)
      <3>0. PICK u, s : u = LaterUntil(until, t) /\ s = MoreSlashed(slashed)
        OBVIOUS
      <3>1. IsState(new, first, seenBy \cup {"self"}, e, u, s)
        <4>1. ~AncestorLinked(l, st, e)
          BY <2>3, <2>8
        <4>2. IsState(st, first, seenBy, p, until, slashed)
          BY <2>4
        <4>3. IsState(Observe(l, st, t, "self", e), first, seenBy \cup {"self"}, e,
                      LaterUntil(until, t), MoreSlashed(slashed))
          BY <4>1, <4>2, ObserveFields
        <4> QED BY <2>6, <3>0, <4>3
      <3>2. /\ new.first = first /\ new.seenBy = seenBy \cup {"self"} /\ new.lastTip = e
            /\ new.until = u /\ new.slashed = s
            /\ new = [first |-> new.first, seenBy |-> new.seenBy, lastTip |-> new.lastTip,
                      until |-> new.until, slashed |-> new.slashed]
        BY <3>1 DEF IsState
      <3>3. u \in Nat /\ (QuarantineTicks > 0 => u # 0)
        BY <1>1, <2>5, <3>0, SMTT(40) DEF LaterUntil
      <3>4. s \in 0 .. Scale
        <4>1. PICK x : x = Scale * SlashPercent
          OBVIOUS
        <4>2. x \in Nat
          BY <1>1, <4>1, SMTT(40)
        <4>3. PICK y : y = x \div 100
          OBVIOUS
        <4>4. y \in Nat
          BY <4>2, <4>3, SMTT(40)
        <4>5. s = IF slashed + y < Scale THEN slashed + y ELSE Scale
          BY <3>0, <4>1, <4>3 DEF MoreSlashed
        <4> QED BY <1>1, <2>5, <4>4, <4>5, SMTT(40)
      <3>5. Fork(old \cup {e}) \/ Far(old \cup {e})
        <4>1. CASE p \notin Ancestry[e]
          BY <2>2, <4>1 DEF Fork, Related
        <4>2. CASE p \in Ancestry[e]
          <5>1. ~IsAncestorByWalk(l, p, e, MaxLinkWalk)
            BY <2>8 DEF Linked
          <5>2. ~(Gap(p, e) <= MaxLinkWalk)
            BY <1>1, <4>2, <5>1, AncestorIsFound
          <5>3. Related(p, e) /\ ~Near(p, e)
            BY <4>2, <5>2 DEF Related, Near, Gap
          <5> QED BY <5>3 DEF Far
        <4> QED BY <4>1, <4>2
      <3> QED BY <1>2, <2>5, <2>6, <3>2, <3>3, <3>4, <3>5 DEF AuthorInv
    <2> QED BY <2>7, <2>8
  <1> QED BY <1>3, <1>4

-----------------------------------------------------------------------------
\* The overlay after it has observed an event of a ledger.
Observed(overlay, ledger, e) ==
    [a \in DOMAIN overlay \cup {Author[e]} |->
        IF a = Author[e] THEN Observe(ledger, StateOf(overlay, Author[e], tick), tick, "self", e)
        ELSE overlay[a]]

\* The ledger before and after an event was linked.
Grows(l, m, e) == LedgerInv(l) /\ LedgerInv(m) /\ e \notin l.events /\ m.events = l.events \cup {e}

\* The overlay keeps its invariant.
LEMMA OverlayGrows ==
    ASSUME tick \in Nat, NEW l, NEW m, NEW e \in Events, Grows(l, m, e),
           NEW overlay, OverlayInv(overlay, l.events)
    PROVE  OverlayInv(Observed(overlay, m, e), m.events)
  <1>1. /\ l.events \in SUBSET Events /\ Closed(l) /\ LedgerInv(m) /\ e \in m.events
        /\ e \notin l.events /\ m.events = l.events \cup {e}
    BY DEF Grows, LedgerInv
  <1>2. PICK A, B : A = {Author[x] : x \in l.events} /\ B = {Author[x] : x \in m.events}
    OBVIOUS
  <1>3. B = A \cup {Author[e]}
    BY <1>1, <1>2
  <1>4. DOMAIN overlay = A /\ \A a \in A : AuthorInv(overlay[a], Own(l.events, a))
    BY <1>2 DEF OverlayInv
  <1>5. PICK new : new = Observed(overlay, m, e)
    OBVIOUS
  <1>6. /\ DOMAIN new = B
        /\ new[Author[e]] = Observe(m, StateOf(overlay, Author[e], tick), tick, "self", e)
        /\ \A a \in B \ {Author[e]} : a \in A /\ new[a] = overlay[a]
    BY <1>3, <1>4, <1>5 DEF Observed
  <1>7. \E S : new \in [B -> S]
    <2>1. PICK S : S = {new[a] : a \in B}
      OBVIOUS
    <2>2. new = [a \in B |-> new[a]]
      BY <1>3, <1>4, <1>5 DEF Observed
    <2>3. new \in [B -> S]
      BY <2>1, <2>2
    <2> QED BY <2>3
  <1>8. ASSUME NEW a \in B, a # Author[e] PROVE AuthorInv(new[a], Own(m.events, a))
    <2>1. Own(m.events, a) = Own(l.events, a)
      BY <1>1, <1>8 DEF Own
    <2> QED BY <1>4, <1>6, <1>8, <2>1
  <1>9. AuthorInv(new[Author[e]], Own(m.events, Author[e]))
    <2>1. PICK old : old = Own(l.events, Author[e])
      OBVIOUS
    <2>2. Own(m.events, Author[e]) = old \cup {e} /\ old \in SUBSET m.events /\ old \in SUBSET l.events
      BY <1>1, <2>1 DEF Own
    <2>3. \A x \in old : e \notin Ancestry[x]
      <3>1. \A x \in l.events : Ancestry[x] \subseteq l.events
        BY <1>1, AncestryLeast DEF Closed
      <3> QED BY <1>1, <2>2, <3>1
    <2>4. PICK st : st = StateOf(overlay, Author[e], tick)
      OBVIOUS
    <2>5. AuthorInv(st, old) \/ (old = {} /\ st = NewAuthor(tick))
      <3>1. CASE Author[e] \in A
        BY <1>4, <2>1, <2>4, <3>1 DEF StateOf
      <3>2. CASE Author[e] \notin A
        BY <1>2, <1>4, <2>1, <2>4, <3>2 DEF StateOf, Own
      <3> QED BY <3>1, <3>2
    <2>6. AuthorInv(Observe(m, st, tick, "self", e), old \cup {e})
      BY <1>1, <2>2, <2>3, <2>5, ObserveAuthor
    <2> QED BY <1>6, <2>2, <2>4, <2>6
  <1>10. \A a \in B : AuthorInv(new[a], Own(m.events, a))
    BY <1>8, <1>9
  <1> QED BY <1>2, <1>5, <1>7, <1>10 DEF OverlayInv

-----------------------------------------------------------------------------
\* The node after an event was validated.
LEMMA ValidateFields ==
    ASSUME NEW n, IsNode(n), NEW e
    PROVE  ValidateEvent(n, e)
             = NodeOf(n.ledger, IF Valid(n.ctx, e) THEN Touch(n.ctx, e) ELSE n.ctx, n.overlay, n.trace,
                      n.ticks, n.seen, n.pending, n.total, n.dropped)
  <1>1. PICK c : c = Touch(n.ctx, e)
    OBVIOUS
  <1>2. [n EXCEPT !.ctx = c]
          = NodeOf(n.ledger, c, n.overlay, n.trace, n.ticks, n.seen, n.pending, n.total, n.dropped)
    BY SMTT(40) DEF IsNode, NodeOf
  <1>3. CASE Valid(n.ctx, e)
    <2>1. ValidateEvent(n, e) = [n EXCEPT !.ctx = c]
      BY <1>1, <1>3 DEF ValidateEvent
    <2> QED BY <1>1, <1>2, <1>3, <2>1
  <1>4. CASE ~Valid(n.ctx, e)
    BY <1>4 DEF ValidateEvent, IsNode
  <1> QED BY <1>3, <1>4

\* The node after an event was linked, which makes its ledger m, and observed.
AfterLink(n, m, e) ==
    NodeOf(m, n.ctx, Observed(n.overlay, m, e),
           Append(n.trace, TraceRow(m, n.overlay, Observed(n.overlay, m, e), tick, e)),
           Append(n.ticks, tick), n.seen, n.pending, n.total, n.dropped)

\* That is what the two calls do.
LEMMA LinkFields ==
    ASSUME NEW n, IsNode(n), NEW e, e \in TryAddEvent(n.ledger, e).events
    PROVE  ObserveEvent(LinkEvent(n, e), e) = AfterLink(n, TryAddEvent(n.ledger, e), e)
  <1>1. PICK m, k : m = TryAddEvent(n.ledger, e) /\ k = LinkEvent(n, e)
    OBVIOUS
  <1>2. k = NodeOf(m, n.ctx, n.overlay, n.trace, n.ticks, n.seen, n.pending, n.total, n.dropped)
    <2>1. [n EXCEPT !.ledger = m]
            = NodeOf(m, n.ctx, n.overlay, n.trace, n.ticks, n.seen, n.pending, n.total, n.dropped)
      BY SMTT(40) DEF IsNode, NodeOf
    <2> QED BY <1>1, <2>1 DEF LinkEvent
  <1>3. /\ IsNode(k) /\ k.ledger = m /\ k.ctx = n.ctx /\ k.overlay = n.overlay /\ k.trace = n.trace
        /\ k.ticks = n.ticks /\ k.seen = n.seen /\ k.pending = n.pending /\ k.total = n.total
        /\ k.dropped = n.dropped
    BY <1>2 DEF NodeOf, IsNode
  <1>4. PICK o, row : o = Observed(n.overlay, m, e) /\ row = TraceRow(m, n.overlay, o, tick, e)
    OBVIOUS
  <1>5. ObserveEvent(k, e) = [k EXCEPT !.overlay = o, !.trace = Append(@, row), !.ticks = Append(@, tick)]
    BY <1>1, <1>3, <1>4 DEF ObserveEvent, Observed
  <1>6. PICK tr, ti : tr = Append(n.trace, row) /\ ti = Append(n.ticks, tick)
    OBVIOUS
  <1>7. [k EXCEPT !.overlay = o, !.trace = Append(@, row), !.ticks = Append(@, tick)]
          = NodeOf(m, n.ctx, o, tr, ti, n.seen, n.pending, n.total, n.dropped)
    <2>1. PICK k1 : k1 = [k EXCEPT !.overlay = o]
      OBVIOUS
    <2>2. k1 = NodeOf(m, n.ctx, o, n.trace, n.ticks, n.seen, n.pending, n.total, n.dropped)
      BY <1>2, <2>1, SMTT(40) DEF NodeOf
    <2>7. PICK k2 : k2 = [k1 EXCEPT !.trace = tr]
      OBVIOUS
    <2>3. k2 = NodeOf(m, n.ctx, o, tr, n.ticks, n.seen, n.pending, n.total, n.dropped)
      BY <2>2, <2>7, SMTT(40) DEF NodeOf
    <2>8. PICK k3 : k3 = [k2 EXCEPT !.ticks = ti]
      OBVIOUS
    <2>4. k3 = NodeOf(m, n.ctx, o, tr, ti, n.seen, n.pending, n.total, n.dropped)
      BY <2>3, <2>8, SMTT(40) DEF NodeOf
    <2>5. k1.trace = n.trace /\ k2.ticks = n.ticks
      BY <2>2, <2>3 DEF NodeOf
    <2>6. [k EXCEPT !.overlay = o, !.trace = Append(@, row), !.ticks = Append(@, tick)] = k3
      BY <1>6, <2>1, <2>5, <2>7, <2>8
    <2> QED BY <2>4, <2>6
  <1> QED BY <1>1, <1>4, <1>5, <1>6, <1>7 DEF AfterLink

-----------------------------------------------------------------------------
\* The node after a message was queued, or turned away.
LEMMA QueueFields ==
    ASSUME NEW n, IsNode(n), NEW e
    PROVE  QueuePending(n, e)
             = IF n.total >= MaxPending
               THEN NodeOf(n.ledger, n.ctx, n.overlay, n.trace, n.ticks, n.seen, n.pending, n.total,
                           n.dropped \cup {e})
               ELSE NodeOf(n.ledger, n.ctx, n.overlay, n.trace, n.ticks, n.seen,
                           [n.pending EXCEPT ![Prev[e]] = Append(@, e)], n.total + 1, n.dropped)
  <1>1. CASE n.total >= MaxPending
    <2>1. PICK d : d = n.dropped \cup {e}
      OBVIOUS
    <2>2. [n EXCEPT !.dropped = d]
            = NodeOf(n.ledger, n.ctx, n.overlay, n.trace, n.ticks, n.seen, n.pending, n.total, d)
      BY SMTT(40) DEF IsNode, NodeOf
    <2> QED BY <1>1, <2>1, <2>2 DEF QueuePending
  <1>2. CASE ~(n.total >= MaxPending)
    <2>1. PICK p : p = [n.pending EXCEPT ![Prev[e]] = Append(@, e)]
      OBVIOUS
    <2>2. PICK t : t = n.total + 1
      OBVIOUS
    <2>3. PICK k : k = [n EXCEPT !.pending = p]
      OBVIOUS
    <2>4. k = NodeOf(n.ledger, n.ctx, n.overlay, n.trace, n.ticks, n.seen, p, n.total, n.dropped)
      BY <2>3, SMTT(40) DEF IsNode, NodeOf
    <2>5. k.total = n.total
      BY <2>4 DEF NodeOf
    <2>6. [k EXCEPT !.total = t]
            = NodeOf(n.ledger, n.ctx, n.overlay, n.trace, n.ticks, n.seen, p, t, n.dropped)
      BY <2>4, SMTT(40) DEF NodeOf
    <2>7. QueuePending(n, e) = [k EXCEPT !.total = t]
      BY <1>2, <2>1, <2>2, <2>3, <2>5 DEF QueuePending
    <2> QED BY <1>2, <2>1, <2>2, <2>6, <2>7
  <1> QED BY <1>1, <1>2

\* The work after a bucket was taken.
TakenWork(bucket, work) ==
    [k \in DOMAIN bucket |-> [event |-> bucket[k], back |-> k > MaxDrain]] \o work

\* The node after that.
LEMMA TakeFields ==
    ASSUME NEW n, IsNode(n), NEW p, NEW work
    PROVE  TakeBucket(n, p, work)
             = [node |-> NodeOf(n.ledger, n.ctx, n.overlay, n.trace, n.ticks, n.seen,
                                [n.pending EXCEPT ![p] = <<>>],
                                IF Len(n.pending[p]) > n.total THEN 0 ELSE n.total - Len(n.pending[p]),
                                n.dropped),
                work |-> TakenWork(n.pending[p], work)]
  <1>1. PICK q : q = [n.pending EXCEPT ![p] = <<>>]
    OBVIOUS
  <1>2. PICK t : t = IF Len(n.pending[p]) > n.total THEN 0 ELSE n.total - Len(n.pending[p])
    OBVIOUS
  <1>3. PICK k : k = [n EXCEPT !.pending = q]
    OBVIOUS
  <1>4. k = NodeOf(n.ledger, n.ctx, n.overlay, n.trace, n.ticks, n.seen, q, n.total, n.dropped)
    BY <1>3, SMTT(40) DEF IsNode, NodeOf
  <1>5. k.total = n.total
    BY <1>4 DEF NodeOf
  <1>6. [k EXCEPT !.total = t]
          = NodeOf(n.ledger, n.ctx, n.overlay, n.trace, n.ticks, n.seen, q, t, n.dropped)
    BY <1>4, SMTT(40) DEF NodeOf
  <1>7. TakeBucket(n, p, work) = [node |-> [k EXCEPT !.total = t], work |-> TakenWork(n.pending[p], work)]
    BY <1>1, <1>2, <1>3, <1>5 DEF TakeBucket, TakenWork
  <1> QED BY <1>1, <1>2, <1>6, <1>7

\* The node after an event was remembered.
LEMMA RememberFields ==
    ASSUME NEW n, IsNode(n), NEW e
    PROVE  \E s \in SUBSET (n.seen \cup {e}) :
              Remember(n, e) = NodeOf(n.ledger, n.ctx, n.overlay, n.trace, n.ticks, s, n.pending,
                                      n.total, n.dropped)
  <1>1. PICK s : s = IF Cardinality(n.seen \cup {e}) > MaxSeen THEN {} ELSE n.seen \cup {e}
    OBVIOUS
  <1>2. [n EXCEPT !.seen = s]
          = NodeOf(n.ledger, n.ctx, n.overlay, n.trace, n.ticks, s, n.pending, n.total, n.dropped)
    BY SMTT(40) DEF IsNode, NodeOf
  <1>3. s \in SUBSET (n.seen \cup {e})
    BY <1>1
  <1>4. Remember(n, e) = [n EXCEPT !.seen = s]
    BY <1>1 DEF Remember
  <1> QED BY <1>2, <1>3, <1>4

-----------------------------------------------------------------------------
\* A message that waits, waits for its parent.
LEMMA WaitingFor ==
    ASSUME NEW pending, NEW total, PoolInv(pending, total), NEW x \in Waiting(pending)
    PROVE  Prev[x] \in Events /\ pending[Prev[x]] # <<>>
  <1>0. pending \in [Events -> Seq(Events)]
    BY DEF PoolInv
  <1>1. PICK p \in Events : x \in ToSet(pending[p])
    BY DEF Waiting
  <1>2. DOMAIN pending[p] = 1 .. Len(pending[p]) /\ 1 .. Len(<<>>) = {}
    BY <1>0, SMTT(40)
  <1>3. PICK k \in 1 .. Len(pending[p]) : x = pending[p][k]
    BY <1>1, <1>2 DEF ToSet
  <1>4. Prev[x] = p
    BY <1>3 DEF PoolInv
  <1>5. pending[p] # <<>>
    BY <1>2, <1>3
  <1> QED BY <1>4, <1>5

\* Two nodes with the same ledger and the same pool.
SameLedger(m, n) ==
    m.ledger = n.ledger /\ m.seen = n.seen /\ m.pending = n.pending /\ m.total = n.total /\ m.dropped = n.dropped

\* An event is validated.
LEMMA CoreValidate ==
    ASSUME NEW n, NEW held, NEW recv, Core(n, held, recv), NEW e \in Events
    PROVE  Core(ValidateEvent(n, e), held, recv) /\ SameLedger(ValidateEvent(n, e), n)
  <1>1. PICK c : c = IF Valid(n.ctx, e) THEN Touch(n.ctx, e) ELSE n.ctx
    OBVIOUS
  <1>2. PICK v : v = ValidateEvent(n, e)
    OBVIOUS
  <1>3. IsNode(n)
    BY DEF Core
  <1>4. v = NodeOf(n.ledger, c, n.overlay, n.trace, n.ticks, n.seen, n.pending, n.total, n.dropped)
    BY <1>1, <1>2, <1>3, ValidateFields
  <1>5. /\ IsNode(v) /\ v.ledger = n.ledger /\ v.ctx = c /\ v.overlay = n.overlay /\ v.trace = n.trace
        /\ v.seen = n.seen /\ v.pending = n.pending /\ v.total = n.total /\ v.dropped = n.dropped
    BY <1>4 DEF NodeOf, IsNode
  <1>6. CtxInv(c)
    BY <1>1, TouchContext DEF Core
  <1> QED BY <1>2, <1>5, <1>6 DEF Core, SameLedger

\* An event is held; one that is forged is not.
LEMMA CoreHold ==
    ASSUME NEW n, NEW recv, Core(n, {}, recv), NEW e
    PROVE  Core(n, IF e \in Forged THEN {} ELSE {e}, recv \cup {e})
  <1>1. PICK x, p : x = n.ledger.events /\ p = Waiting(n.pending)
    OBVIOUS
  <1>2. /\ x \cup p \cup {} \subseteq recv \ Forged
        /\ Punctual => recv \ Forged \subseteq x \cup p \cup {} \cup n.dropped
    BY <1>1 DEF Core, Accounted
  <1>3. PICK held : held = IF e \in Forged THEN {} ELSE {e}
    OBVIOUS
  <1>4. /\ x \cup p \cup held \subseteq (recv \cup {e}) \ Forged
        /\ Punctual => (recv \cup {e}) \ Forged \subseteq x \cup p \cup held \cup n.dropped
    BY <1>2, <1>3
  <1> QED BY <1>1, <1>3, <1>4 DEF Core, Accounted

\* Events that are held no more are linked, wait, or were turned away.
LEMMA CoreRelease ==
    ASSUME NEW n, NEW held, NEW recv, Core(n, held, recv), NEW rest \in SUBSET held,
           Punctual => held \subseteq rest \cup n.ledger.events \cup Waiting(n.pending) \cup n.dropped
    PROVE  Core(n, rest, recv)
  <1>1. PICK x, p : x = n.ledger.events /\ p = Waiting(n.pending)
    OBVIOUS
  <1>2. /\ x \cup p \cup held \subseteq recv \ Forged
        /\ Punctual => recv \ Forged \subseteq x \cup p \cup held \cup n.dropped
    BY <1>1 DEF Core, Accounted
  <1>3. /\ x \cup p \cup rest \subseteq recv \ Forged
        /\ Punctual => recv \ Forged \subseteq x \cup p \cup rest \cup n.dropped
    BY <1>1, <1>2
  <1> QED BY <1>1, <1>3 DEF Core, Accounted

\* The node has one event more, and the same pool.
Gained(k, n, e) ==
    /\ k.ledger.events = n.ledger.events \cup {e}
    /\ k.seen = n.seen /\ k.pending = n.pending /\ k.total = n.total /\ k.dropped = n.dropped

\* An event is linked and observed.
LEMMA CoreLink ==
    ASSUME tick \in Nat, NEW n, NEW held, NEW recv, Core(n, held, recv), NEW e \in held, e \in Events,
           e \notin n.ledger.events, HasParent(n.ledger.events, e)
    PROVE  /\ Core(ObserveEvent(LinkEvent(n, e), e), held, recv)
           /\ Gained(ObserveEvent(LinkEvent(n, e), e), n, e)
  <1>1. PICK l, m : l = n.ledger /\ m = TryAddEvent(n.ledger, e)
    OBVIOUS
  <1>2. IsNode(n) /\ LedgerInv(l)
    BY <1>1 DEF Core
  <1>3. m.events = l.events \cup {e} /\ LedgerInv(m) /\ Grows(l, m, e)
    BY <1>1, <1>2, LinkLedger DEF Grows
  <1>4. ObserveEvent(LinkEvent(n, e), e) = AfterLink(n, m, e)
    BY <1>1, <1>2, <1>3, LinkFields
  <1>5. PICK o : o = Observed(n.overlay, m, e)
    OBVIOUS
  <1>6. PICK row : row = TraceRow(m, n.overlay, o, tick, e)
    OBVIOUS
  <1>a. PICK tr, ti : tr = Append(n.trace, row) /\ ti = Append(n.ticks, tick)
    OBVIOUS
  <1>7. PICK k : k = NodeOf(m, n.ctx, o, tr, ti, n.seen, n.pending, n.total, n.dropped)
    OBVIOUS
  <1>b. ObserveEvent(LinkEvent(n, e), e) = k
    BY <1>4, <1>5, <1>6, <1>7, <1>a DEF AfterLink
  <1>8. /\ IsNode(k) /\ k.ledger = m /\ k.ctx = n.ctx /\ k.overlay = o /\ k.trace = tr
        /\ k.seen = n.seen /\ k.pending = n.pending /\ k.total = n.total /\ k.dropped = n.dropped
    BY <1>7 DEF NodeOf, IsNode
  <1>9. OverlayInv(o, m.events)
    BY <1>1, <1>3, <1>5, OverlayGrows DEF Core
  <1>10. TraceInv(tr, m.events)
    <2>1. row.event = e /\ row.parentPresent = HasParent(m.events, e)
      BY <1>6 DEF TraceRow
    <2>2. row.parentPresent
      BY <1>1, <1>3, <2>1 DEF HasParent
    <2>3. IsFiniteSet(l.events)
      BY <1>2, SimAssumption, FS_Subset DEF LedgerInv
    <2>4. TraceInv(n.trace, l.events)
      BY <1>1 DEF Core
    <2>5. TraceInv(Append(n.trace, row), l.events \cup {e})
      BY <1>1, <2>1, <2>2, <2>3, <2>4, TraceGrows
    <2> QED BY <1>3, <1>a, <2>5
  <1>11. Accounted(m.events, n.pending, n.dropped, held, recv)
    <2>1. Accounted(l.events, n.pending, n.dropped, held, recv)
      BY <1>1 DEF Core
    <2> QED BY <1>3, <2>1 DEF Accounted
  <1>12. n.seen \subseteq m.events
    BY <1>1, <1>3 DEF Core
  <1>13. CtxInv(n.ctx) /\ PoolInv(n.pending, n.total)
    BY DEF Core
  <1>14. Core(k, held, recv)
    BY <1>3, <1>8, <1>9, <1>10, <1>11, <1>12, <1>13 DEF Core
  <1> QED BY <1>1, <1>3, <1>8, <1>14, <1>b DEF Gained

-----------------------------------------------------------------------------
\* A linked event is remembered.
LEMMA CoreRemember ==
    ASSUME NEW n, NEW held, NEW recv, Core(n, held, recv), NEW e \in n.ledger.events
    PROVE  /\ Core(Remember(n, e), held, recv) /\ Remember(n, e).ledger = n.ledger
           /\ Remember(n, e).pending = n.pending /\ Remember(n, e).total = n.total
  <1>1. IsNode(n)
    BY DEF Core
  <1>2. PICK s \in SUBSET (n.seen \cup {e}) :
           Remember(n, e) = NodeOf(n.ledger, n.ctx, n.overlay, n.trace, n.ticks, s, n.pending, n.total,
                                   n.dropped)
    BY <1>1, RememberFields
  <1>3. PICK k : k = NodeOf(n.ledger, n.ctx, n.overlay, n.trace, n.ticks, s, n.pending, n.total, n.dropped)
    OBVIOUS
  <1>4. /\ IsNode(k) /\ k.ledger = n.ledger /\ k.ctx = n.ctx /\ k.overlay = n.overlay /\ k.trace = n.trace
        /\ k.seen = s /\ k.pending = n.pending /\ k.total = n.total /\ k.dropped = n.dropped
    BY <1>3 DEF NodeOf, IsNode
  <1>5. s \subseteq n.ledger.events
    BY DEF Core
  <1>6. Core(k, held, recv)
    BY <1>4, <1>5 DEF Core
  <1>7. Remember(n, e) = k
    BY <1>2, <1>3
  <1> QED BY <1>4, <1>6, <1>7

\* k is n with an event remembered.
Remembered(n, k, held, recv) ==
    Core(k, held, recv) /\ k.ledger = n.ledger /\ k.pending = n.pending

\* The node that has remembered a linked event.
LEMMA NodeRemembers ==
    ASSUME NEW n, NEW held, NEW recv, Core(n, held, recv), NEW e \in n.ledger.events,
           NEW k, k = Remember(n, e)
    PROVE  Remembered(n, k, held, recv)
  BY CoreRemember DEF Remembered

\* What waits after a bucket was taken.
LEMMA WaitingTake ==
    ASSUME NEW pending \in [Events -> Seq(Events)], NEW p \in Events, NEW q, q = [pending EXCEPT ![p] = <<>>]
    PROVE  /\ Waiting(q) \subseteq Waiting(pending) /\ ToSet(pending[p]) \subseteq Waiting(pending)
           /\ Waiting(pending) \subseteq Waiting(q) \cup ToSet(pending[p])
  <1>1. ToSet(<<>>) = {}
    BY SMTT(40) DEF ToSet
  <1>2. q[p] = <<>> /\ \A r \in Events \ {p} : q[r] = pending[r]
    OBVIOUS
  <1>3. ASSUME NEW x \in Waiting(q) PROVE x \in Waiting(pending)
    <2>1. PICK r \in Events : x \in ToSet(q[r])
      BY DEF Waiting
    <2>2. r # p
      BY <1>1, <1>2, <2>1
    <2> QED BY <1>2, <2>1, <2>2 DEF Waiting
  <1>4. ToSet(pending[p]) \subseteq Waiting(pending)
    BY DEF Waiting
  <1>5. ASSUME NEW x \in Waiting(pending), x \notin ToSet(pending[p]) PROVE x \in Waiting(q)
    <2>1. PICK r \in Events : x \in ToSet(pending[r])
      BY DEF Waiting
    <2>2. r # p
      BY <1>5, <2>1
    <2> QED BY <1>2, <2>1, <2>2 DEF Waiting
  <1> QED BY <1>3, <1>4, <1>5

\* The bucket of p has been taken out of the pool of n.
Took(k, n, p) ==
    /\ k.ledger = n.ledger /\ k.pending = [n.pending EXCEPT ![p] = <<>>]
    /\ k.total = n.total - Len(n.pending[p])

\* A bucket is taken, and its messages are held.
LEMMA CoreTake ==
    ASSUME NEW n, NEW held, NEW recv, Core(n, held, recv), NEW p \in Events, NEW work
    PROVE  /\ Core(TakeBucket(n, p, work).node, held \cup ToSet(n.pending[p]), recv)
           /\ Took(TakeBucket(n, p, work).node, n, p)
           /\ TakeBucket(n, p, work).work = TakenWork(n.pending[p], work)
  <1>1. IsNode(n) /\ PoolInv(n.pending, n.total) /\ n.pending \in [Events -> Seq(Events)]
    BY DEF Core, PoolInv
  <1>2. PICK q : q = [n.pending EXCEPT ![p] = <<>>]
    OBVIOUS
  <1>3. PICK t : t = n.total - Len(n.pending[p])
    OBVIOUS
  <1>4. /\ n.total \in Nat /\ Len(n.pending[p]) \in Nat /\ Len(n.pending[p]) <= n.total
        /\ PoolInv(q, t)
    BY <1>1, <1>2, <1>3, PoolTake
  <1>5. ~(Len(n.pending[p]) > n.total)
    BY <1>4, SMTT(40)
  <1>6. PICK k : k = NodeOf(n.ledger, n.ctx, n.overlay, n.trace, n.ticks, n.seen, q, t, n.dropped)
    OBVIOUS
  <1>7. TakeBucket(n, p, work) = [node |-> k, work |-> TakenWork(n.pending[p], work)]
    BY <1>1, <1>2, <1>3, <1>5, <1>6, TakeFields
  <1>8. /\ IsNode(k) /\ k.ledger = n.ledger /\ k.ctx = n.ctx /\ k.overlay = n.overlay /\ k.trace = n.trace
        /\ k.seen = n.seen /\ k.pending = q /\ k.total = t /\ k.dropped = n.dropped
    BY <1>6 DEF NodeOf, IsNode
  <1>9. Accounted(n.ledger.events, q, n.dropped, held \cup ToSet(n.pending[p]), recv)
    <2>1. PICK a, b, c, x : a = Waiting(n.pending) /\ b = Waiting(q) /\ c = ToSet(n.pending[p]) /\ x = n.ledger.events
      OBVIOUS
    <2>2. b \subseteq a /\ c \subseteq a /\ a \subseteq b \cup c
      BY <1>1, <1>2, <2>1, WaitingTake
    <2>3. /\ x \cup a \cup held \subseteq recv \ Forged
          /\ Punctual => recv \ Forged \subseteq x \cup a \cup held \cup n.dropped
      BY <2>1 DEF Core, Accounted
    <2>4. /\ x \cup b \cup (held \cup c) \subseteq recv \ Forged
          /\ Punctual => recv \ Forged \subseteq x \cup b \cup (held \cup c) \cup n.dropped
      BY <2>2, <2>3
    <2> QED BY <2>1, <2>4 DEF Accounted
  <1>10. Core(k, held \cup ToSet(n.pending[p]), recv)
    BY <1>4, <1>8, <1>9 DEF Core
  <1>11. TakeBucket(n, p, work).node = k /\ TakeBucket(n, p, work).work = TakenWork(n.pending[p], work)
    <2>1. PICK w : w = TakenWork(n.pending[p], work)
      OBVIOUS
    <2>2. PICK d : d = [node |-> k, work |-> w]
      OBVIOUS
    <2>3. d.node = k /\ d.work = w
      BY <2>2
    <2>4. TakeBucket(n, p, work) = d
      BY <1>7, <2>1, <2>2
    <2> QED BY <2>1, <2>3, <2>4
  <1> QED BY <1>2, <1>3, <1>8, <1>10, <1>11 DEF Took

\* A message whose parent is missing is queued, or turned away.
LEMMA GoodQueue ==
    ASSUME NEW n, NEW held, NEW recv, Good(n, held, recv), NEW e \in held, e \in Events,
           Prev[e] \in Events, Prev[e] \notin n.ledger.events, NEW k, k = QueuePending(n, e)
    PROVE  /\ Good(k, held, recv) /\ k.ledger = n.ledger
           /\ e \in Waiting(k.pending) \cup k.dropped
  <1>1. /\ IsNode(n) /\ PoolInv(n.pending, n.total) /\ n.pending \in [Events -> Seq(Events)]
        /\ Core(n, held, recv) /\ NoneWaits(n.pending, n.ledger.events)
        /\ Accounted(n.ledger.events, n.pending, n.dropped, held, recv)
    BY DEF Good, Core, PoolInv
  <1>2. CASE n.total >= MaxPending
    <2>1. PICK d : d = n.dropped \cup {e}
      OBVIOUS
    <2>2. PICK j : j = NodeOf(n.ledger, n.ctx, n.overlay, n.trace, n.ticks, n.seen, n.pending, n.total, d)
      OBVIOUS
    <2>3. k = j
      BY <1>1, <1>2, <2>1, <2>2, QueueFields
    <2>4. /\ IsNode(j) /\ j.ledger = n.ledger /\ j.ctx = n.ctx /\ j.overlay = n.overlay /\ j.trace = n.trace
          /\ j.seen = n.seen /\ j.pending = n.pending /\ j.total = n.total /\ j.dropped = d
      BY <2>2 DEF NodeOf, IsNode
    <2>5. Accounted(n.ledger.events, n.pending, d, held, recv)
      BY <1>1, <2>1 DEF Accounted
    <2>6. Good(j, held, recv)
      BY <1>1, <2>4, <2>5 DEF Good, Core
    <2> QED BY <2>1, <2>3, <2>4, <2>6
  <1>3. CASE ~(n.total >= MaxPending)
    <2>1. PICK q, t : q = [n.pending EXCEPT ![Prev[e]] = Append(@, e)] /\ t = n.total + 1
      OBVIOUS
    <2>2. PICK j : j = NodeOf(n.ledger, n.ctx, n.overlay, n.trace, n.ticks, n.seen, q, t, n.dropped)
      OBVIOUS
    <2>3. k = j
      BY <1>1, <1>3, <2>1, <2>2, QueueFields
    <2>4. /\ IsNode(j) /\ j.ledger = n.ledger /\ j.ctx = n.ctx /\ j.overlay = n.overlay /\ j.trace = n.trace
          /\ j.seen = n.seen /\ j.pending = q /\ j.total = t /\ j.dropped = n.dropped
      BY <2>2 DEF NodeOf, IsNode
    <2>5. PoolInv(q, t)
      <3>1. n.total \in Nat /\ MaxPending \in Nat
        BY <1>1, PoolTake, SimAssumption
      <3>2. n.total < MaxPending
        BY <1>3, <3>1, SMTT(40)
      <3> QED BY <1>1, <2>1, <3>2, PoolQueue
    <2>6. NoneWaits(q, n.ledger.events)
      <3>1. \A p \in n.ledger.events : p \in Events /\ p # Prev[e]
        BY <1>1 DEF Core, LedgerInv
      <3> QED BY <1>1, <2>1, <3>1 DEF NoneWaits
    <2>7. Waiting(q) = Waiting(n.pending) \cup {e}
      <3>1. PICK p \in Events : p = Prev[e]
        OBVIOUS
      <3>2. q[p] = Append(n.pending[p], e) /\ (\A r \in Events \ {p} : q[r] = n.pending[r]) /\ n.pending[p] \in Seq(Events)
        BY <1>1, <2>1, <3>1
      <3>3. ToSet(Append(n.pending[p], e)) = ToSet(n.pending[p]) \cup {e}
        <4>1. PICK s, u : s = n.pending[p] /\ u = Append(s, e)
          OBVIOUS
        <4>2. /\ DOMAIN s = 1 .. Len(s) /\ DOMAIN u = 1 .. Len(s) + 1 /\ u[Len(s) + 1] = e
              /\ Len(s) + 1 \in 1 .. Len(s) + 1
              /\ \A i \in 1 .. Len(s) : u[i] = s[i] /\ i \in 1 .. Len(s) + 1
              /\ \A i \in 1 .. Len(s) + 1 : i \in 1 .. Len(s) \/ i = Len(s) + 1
          BY <3>2, <4>1, SMTT(40)
        <4>3. ToSet(u) = ToSet(s) \cup {e}
          BY <4>2 DEF ToSet
        <4> QED BY <4>1, <4>3
      <3>4. \A r \in Events : ToSet(q[r]) = IF r = p THEN ToSet(n.pending[p]) \cup {e} ELSE ToSet(n.pending[r])
        BY <3>2, <3>3
      <3>5. ASSUME NEW x \in Waiting(q) PROVE x \in Waiting(n.pending) \cup {e}
        <4>1. PICK r \in Events : x \in ToSet(q[r])
          BY DEF Waiting
        <4>2. x = e \/ x \in ToSet(n.pending[r])
          BY <3>4, <4>1
        <4> QED BY <4>2 DEF Waiting
      <3>6. ASSUME NEW x \in Waiting(n.pending) PROVE x \in Waiting(q)
        <4>1. PICK r \in Events : x \in ToSet(n.pending[r])
          BY DEF Waiting
        <4>2. x \in ToSet(q[r])
          BY <3>4, <4>1
        <4> QED BY <4>2 DEF Waiting
      <3>7. e \in Waiting(q)
        BY <3>4 DEF Waiting
      <3> QED BY <3>5, <3>6, <3>7
    <2>8. Accounted(n.ledger.events, q, n.dropped, held, recv)
      BY <1>1, <2>7 DEF Accounted
    <2>9. Good(j, held, recv)
      BY <1>1, <2>4, <2>5, <2>6, <2>8 DEF Good, Core
    <2> QED BY <2>3, <2>4, <2>7, <2>9
  <1> QED BY <1>2, <1>3

-----------------------------------------------------------------------------
\* The messages a drain holds: none is to be put back, and their parents are linked.
Items == [event : Events, back : {FALSE}]

Held(work) == {work[k].event : k \in 1 .. Len(work)}

WorkInv(work, events) ==
    work \in Seq(Items) /\ \A k \in 1 .. Len(work) : Prev[work[k].event] \in events

\* Two sequences, one after the other.
Joins(w, a, b, S) ==
    /\ w \in Seq(S) /\ Len(w) = Len(a) + Len(b) /\ Len(a) \in Nat /\ Len(b) \in Nat
    /\ \A k \in 1 .. Len(a) : w[k] = a[k]
    /\ \A k \in 1 .. Len(b) : w[Len(a) + k] = b[k]

\* That is what \o makes.
LEMMA Joined ==
    ASSUME NEW S, NEW a \in Seq(S), NEW b \in Seq(S)
    PROVE  Joins(a \o b, a, b, S)
  <1>1. a \o b \in Seq(S) /\ Len(a \o b) = Len(a) + Len(b) /\ Len(a) \in Nat /\ Len(b) \in Nat
    BY SMTT(40)
  <1>2. \A k \in 1 .. Len(a) : (a \o b)[k] = a[k]
    BY SMTT(40)
  <1>3. \A k \in 1 .. Len(b) : (a \o b)[Len(a) + k] = b[k]
    BY SMTT(40)
  <1> QED BY <1>1, <1>2, <1>3 DEF Joins

\* The work with the messages of a bucket.
Holds(w, bucket, work, events) ==
    /\ WorkInv(w, events) /\ Len(w) = Len(bucket) + Len(work)
    /\ Held(w) = ToSet(bucket) \cup Held(work)

\* The messages of a bucket are added to the work.
LEMMA WorkTaken ==
    ASSUME NEW events, NEW p \in events, NEW bucket \in Seq(Events), Len(bucket) <= MaxDrain,
           \A k \in 1 .. Len(bucket) : Prev[bucket[k]] = p, NEW work, WorkInv(work, events)
    PROVE  Holds(TakenWork(bucket, work), bucket, work, events)
  <1>1. PICK n \in Nat : n = Len(bucket) /\ DOMAIN bucket = 1 .. n /\ \A k \in 1 .. n : bucket[k] \in Events
    BY SMTT(40)
  <1>2. PICK m : m = [k \in 1 .. n |-> [event |-> bucket[k], back |-> k > MaxDrain]]
    OBVIOUS
  <1>3. \A k \in 1 .. n : ~(k > MaxDrain)
    <2>1. n <= MaxDrain /\ MaxDrain \in Nat
      BY <1>1, SimAssumption
    <2> QED BY <2>1, SMTT(40)
  <1>4. \A k \in 1 .. n : m[k] \in Items /\ m[k].event = bucket[k]
    <2>1. ASSUME NEW k \in 1 .. n PROVE m[k] \in Items /\ m[k].event = bucket[k]
      <3>1. m[k] = [event |-> bucket[k], back |-> FALSE]
        <4>1. (k > MaxDrain) = FALSE
          BY <1>3, SMTT(40)
        <4> QED BY <1>2, <4>1
      <3>2. PICK x : x = bucket[k] /\ x \in Events
        BY <1>1
      <3>3. PICK i : i = [event |-> x, back |-> FALSE]
        OBVIOUS
      <3>4. i \in Items /\ i.event = x
        BY <3>2, <3>3 DEF Items
      <3> QED BY <3>1, <3>2, <3>3, <3>4
    <2> QED BY <2>1
  <1>5. m \in Seq(Items) /\ Len(m) = n
    <2>1. m \in [1 .. n -> Items]
      BY <1>2, <1>4
    <2> QED BY <2>1, SMTT(40)
  <1>6. work \in Seq(Items) /\ \A k \in 1 .. Len(work) : Prev[work[k].event] \in events
    BY DEF WorkInv
  <1>7. PICK w : w = m \o work
    OBVIOUS
  <1>8. /\ w \in Seq(Items) /\ Len(w) = n + Len(work) /\ Len(work) \in Nat
        /\ \A k \in 1 .. n : w[k] = m[k]
        /\ \A k \in 1 .. Len(work) : w[n + k] = work[k]
    <2>1. Joins(m \o work, m, work, Items)
      BY <1>5, <1>6, Joined
    <2> QED BY <1>5, <1>7, <2>1 DEF Joins
  <1>9. /\ \A k \in 1 .. Len(w) : k \in 1 .. n \/ (k - n \in 1 .. Len(work) /\ n + (k - n) = k)
        /\ \A k \in 1 .. n : k \in 1 .. Len(w)
        /\ \A k \in 1 .. Len(work) : n + k \in 1 .. Len(w)
    BY <1>8, SMTT(40)
  <1>10. TakenWork(bucket, work) = w
    BY <1>1, <1>2, <1>7 DEF TakenWork
  <1>11. ASSUME NEW k \in 1 .. Len(w)
         PROVE  Prev[w[k].event] \in events /\ w[k].event \in ToSet(bucket) \cup Held(work)
    <2>1. CASE k \in 1 .. n
      <3>1. w[k].event = bucket[k]
        BY <1>4, <1>8, <2>1
      <3> QED BY <1>1, <2>1, <3>1 DEF ToSet
    <2>2. CASE k - n \in 1 .. Len(work) /\ n + (k - n) = k
      <3>1. w[k] = work[k - n]
        BY <1>8, <2>2
      <3> QED BY <1>6, <2>2, <3>1 DEF Held
    <2> QED BY <1>9, <2>1, <2>2
  <1>12. ASSUME NEW x \in ToSet(bucket) PROVE x \in Held(w)
    <2>1. PICK k \in 1 .. n : x = bucket[k]
      BY <1>1 DEF ToSet
    <2>2. x = w[k].event /\ k \in 1 .. Len(w)
      BY <1>4, <1>8, <1>9, <2>1
    <2> QED BY <2>2 DEF Held
  <1>13. ASSUME NEW x \in Held(work) PROVE x \in Held(w)
    <2>1. PICK k \in 1 .. Len(work) : x = work[k].event
      BY DEF Held
    <2>2. x = w[n + k].event /\ n + k \in 1 .. Len(w)
      BY <1>8, <1>9, <2>1
    <2> QED BY <2>2 DEF Held
  <1>14. Held(w) = ToSet(bucket) \cup Held(work)
    <2>1. \A x \in Held(w) : x \in ToSet(bucket) \cup Held(work)
      BY <1>11 DEF Held
    <2> QED BY <1>12, <1>13, <2>1
  <1> QED BY <1>1, <1>8, <1>10, <1>11, <1>14 DEF WorkInv, Holds

\* The first message is taken off the work.
LEMMA WorkTail ==
    ASSUME NEW events, NEW work, WorkInv(work, events), work # <<>>
    PROVE  /\ WorkInv(Tail(work), events) /\ Len(Tail(work)) \in Nat /\ Len(work) = Len(Tail(work)) + 1
           /\ Held(work) = {Head(work).event} \cup Held(Tail(work))
           /\ Head(work).event \in Events /\ Head(work).back = FALSE /\ Prev[Head(work).event] \in events
  <1>1. work \in Seq(Items) /\ \A k \in 1 .. Len(work) : Prev[work[k].event] \in events
    BY DEF WorkInv
  <1>2. PICK h, t : h = Head(work) /\ t = Tail(work)
    OBVIOUS
  <1>3. /\ t \in Seq(Items) /\ Len(t) \in Nat /\ Len(work) = Len(t) + 1 /\ h = work[1]
        /\ \A k \in 1 .. Len(t) : t[k] = work[k + 1]
    BY <1>1, <1>2, SMTT(40)
  <1>4. /\ 1 \in 1 .. Len(work) /\ \A k \in 1 .. Len(t) : k + 1 \in 1 .. Len(work)
        /\ \A k \in 1 .. Len(work) : k = 1 \/ (k - 1 \in 1 .. Len(t) /\ (k - 1) + 1 = k)
    BY <1>3, SMTT(40)
  <1>5. h \in Items
    BY <1>1, <1>3, <1>4, SMTT(40)
  <1>6. h.event \in Events /\ h.back = FALSE /\ Prev[h.event] \in events
    BY <1>1, <1>3, <1>4, <1>5 DEF Items
  <1>7. WorkInv(t, events)
    BY <1>1, <1>3, <1>4 DEF WorkInv
  <1>8. ASSUME NEW x \in Held(work) PROVE x \in {h.event} \cup Held(t)
    <2>1. PICK k \in 1 .. Len(work) : x = work[k].event
      BY DEF Held
    <2>2. CASE k = 1
      BY <1>3, <2>1, <2>2
    <2>3. CASE k - 1 \in 1 .. Len(t) /\ (k - 1) + 1 = k
      <3>1. t[k - 1] = work[k]
        BY <1>3, <2>3
      <3> QED BY <2>1, <2>3, <3>1 DEF Held
    <2> QED BY <1>4, <2>2, <2>3
  <1>9. h.event \in Held(work)
    BY <1>3, <1>4 DEF Held
  <1>10. ASSUME NEW x \in Held(t) PROVE x \in Held(work)
    <2>1. PICK k \in 1 .. Len(t) : x = t[k].event
      BY DEF Held
    <2> QED BY <1>3, <1>4, <2>1 DEF Held
  <1>11. Held(work) = {h.event} \cup Held(t)
    BY <1>8, <1>9, <1>10
  <1> QED BY <1>2, <1>3, <1>6, <1>7, <1>11

\* What holds after each turn of a drain: the messages it holds and those of the
\* pool fit into the pool and get fewer with every turn, up to its end.
DrainInv(d, k, recv) ==
    /\ Good(d.node, Held(d.work), recv) /\ WorkInv(d.work, d.node.ledger.events)
    /\ d.work = <<>> \/ d.node.total + Len(d.work) + k <= MaxPending

\* The bucket of an event that was just linked is taken.
LEMMA DrainTakes ==
    ASSUME NEW n, NEW held, NEW recv, Core(n, held, recv), NEW p \in n.ledger.events,
           \A q \in n.ledger.events \ {p} : n.pending[q] = <<>>,
           NEW work, WorkInv(work, n.ledger.events),
           held \subseteq {p} \cup Held(work), Held(work) \subseteq held,
           NEW k \in Nat, n.total + Len(work) + k <= MaxPending
    PROVE  DrainInv(TakeBucket(n, p, work), k, recv)
  <1>1. /\ p \in Events /\ PoolInv(n.pending, n.total) /\ n.ledger.events \subseteq Events
        /\ n.pending \in [Events -> Seq(Events)]
    BY DEF Core, LedgerInv, PoolInv
  <1>2. PICK d, m, b : d = TakeBucket(n, p, work) /\ m = d.node /\ b = n.pending[p]
    OBVIOUS
  <1>3. Core(m, held \cup ToSet(b), recv) /\ Took(m, n, p) /\ d.work = TakenWork(b, work)
    BY <1>1, <1>2, CoreTake
  <1>4. /\ m.ledger = n.ledger /\ m.pending = [n.pending EXCEPT ![p] = <<>>] /\ m.total = n.total - Len(b)
    BY <1>2, <1>3 DEF Took
  <1>5. b \in Seq(Events) /\ n.total \in Nat /\ Len(b) \in Nat /\ Len(b) <= n.total /\ n.total <= MaxPending
    BY <1>1, <1>2, PoolTake DEF PoolInv
  <1>6. Len(b) <= MaxDrain
    BY <1>5, SimAssumption, SMTT(40)
  <1>7. \A i \in 1 .. Len(b) : Prev[b[i]] = p
    BY <1>1, <1>2 DEF PoolInv
  <1>8. PICK w : w = TakenWork(b, work)
    OBVIOUS
  <1>9. /\ WorkInv(w, n.ledger.events) /\ Len(w) = Len(b) + Len(work)
        /\ Held(w) = ToSet(b) \cup Held(work)
    <2>1. Holds(TakenWork(b, work), b, work, n.ledger.events)
      BY <1>5, <1>6, <1>7, WorkTaken
    <2> QED BY <1>8, <2>1 DEF Holds
  <1>10. NoneWaits(m.pending, m.ledger.events)
    BY <1>1, <1>4 DEF NoneWaits
  <1>11. Core(m, Held(w), recv)
    <2>1. Held(w) \in SUBSET (held \cup ToSet(b))
      BY <1>9
    <2>2. held \cup ToSet(b) \subseteq Held(w) \cup m.ledger.events \cup Waiting(m.pending) \cup m.dropped
      BY <1>4, <1>9
    <2> QED BY <1>3, <2>1, <2>2, CoreRelease
  <1>12. m.total + Len(w) + k <= MaxPending
    <2>1. Len(work) \in Nat
      BY SMTT(40) DEF WorkInv
    <2>2. m.total = n.total - Len(b) /\ Len(w) = Len(b) + Len(work)
      BY <1>4, <1>9
    <2> QED BY <1>5, <2>1, <2>2, SMTT(40)
  <1> QED BY <1>2, <1>3, <1>4, <1>8, <1>9, <1>10, <1>11, <1>12 DEF DrainInv, Good

-----------------------------------------------------------------------------
\* One turn of the loop.
DrainTurn(d) == IF d.work = <<>> THEN d ELSE DrainChild(d)

\* A turn keeps the invariant.
LEMMA DrainStep ==
    ASSUME tick \in Nat, NEW d, NEW recv, NEW k \in Nat, k - 1 \in Nat, DrainInv(d, k - 1, recv)
    PROVE  DrainInv(DrainTurn(d), k, recv)
  <1>1. CASE d.work = <<>>
    BY <1>1 DEF DrainTurn, DrainInv
  <1>2. CASE d.work # <<>>
    <2>1. PICK n, work, e, t : n = d.node /\ work = d.work /\ e = Head(d.work).event /\ t = Tail(d.work)
      OBVIOUS
    <2>2. /\ Good(n, Held(work), recv) /\ WorkInv(work, n.ledger.events)
          /\ n.total + Len(work) + (k - 1) <= MaxPending
      BY <1>2, <2>1 DEF DrainInv
    <2>3. /\ WorkInv(t, n.ledger.events) /\ Len(t) \in Nat /\ Len(work) = Len(t) + 1
          /\ Held(work) = {e} \cup Held(t)
          /\ e \in Events /\ Head(d.work).back = FALSE /\ Prev[e] \in n.ledger.events
      BY <1>2, <2>1, <2>2, WorkTail
    <2>4. PICK v : v = ValidateEvent(n, e)
      OBVIOUS
    <2>5. Core(n, Held(work), recv) /\ NoneWaits(n.pending, n.ledger.events)
      BY <2>2 DEF Good
    <2>6. Core(v, Held(work), recv) /\ SameLedger(v, n)
      BY <2>3, <2>4, <2>5, CoreValidate
    <2>7. v.ledger = n.ledger /\ v.pending = n.pending /\ v.total = n.total /\ v.dropped = n.dropped /\ v.seen = n.seen
      BY <2>6 DEF SameLedger
    <2>8. n.total + Len(t) + k <= MaxPending
      <3>1. n.total \in Nat
        BY <2>5, <2>3, PoolTake DEF Core
      <3>2. MaxPending \in Nat
        BY SimAssumption
      <3> QED BY <2>2, <2>3, <3>1, <3>2, SMTT(40)
    <2>9. e \notin Forged
      BY <2>3, <2>5 DEF Core, Accounted
    <2>10. n.seen \subseteq n.ledger.events
      BY <2>5 DEF Core
    <2>11. HasParent(v.ledger.events, e)
      BY <2>3, <2>7 DEF HasParent
    <2>12. CASE ~Valid(n.ctx, e) \/ e \in n.ledger.events
      <3>1. DrainTurn(d) = [node |-> v, work |-> t]
        <4>1. LinkResult(v.ledger, e) = "Duplicate" <=> e \in n.ledger.events
          BY <2>7 DEF LinkResult
        <4> QED BY <1>2, <2>1, <2>3, <2>4, <2>12, <4>1 DEF DrainTurn, DrainChild
      <3>2. PICK c : c = [node |-> v, work |-> t]
        OBVIOUS
      <3>3. c.node = v /\ c.work = t
        BY <3>2
      <3>4. Punctual => Held(work) \subseteq Held(t) \cup v.ledger.events \cup Waiting(v.pending) \cup v.dropped
        <4>1. CtxInv(n.ctx)
          BY <2>5 DEF Core
        <4>2. Punctual => e \in v.ledger.events
          BY <2>3, <2>7, <2>9, <2>12, <4>1, PunctualIsValid
        <4> QED BY <2>3, <4>2
      <3>5. Held(t) \in SUBSET Held(work)
        BY <2>3
      <3>6. Core(v, Held(t), recv)
        BY <2>6, <3>4, <3>5, CoreRelease
      <3>7. Good(v, Held(t), recv)
        BY <2>5, <2>7, <3>6 DEF Good
      <3>8. DrainInv(c, k, recv)
        BY <2>3, <2>7, <2>8, <3>3, <3>7 DEF DrainInv
      <3> QED BY <3>1, <3>2, <3>8
    <2>13. CASE Valid(n.ctx, e) /\ e \notin n.ledger.events
      <3>1. PICK m : m = ObserveEvent(LinkEvent(v, e), e)
        OBVIOUS
      <3>2. DrainTurn(d) = TakeBucket(m, e, t)
        <4>1. LinkResult(v.ledger, e) = "Ok"
          BY <2>7, <2>11, <2>13 DEF LinkResult
        <4>2. e \notin n.seen
          BY <2>10, <2>13
        <4> QED BY <1>2, <2>1, <2>3, <2>4, <2>13, <3>1, <4>1, <4>2 DEF DrainTurn, DrainChild
      <3>3. /\ Core(m, Held(work), recv) /\ m.ledger.events = v.ledger.events \cup {e}
            /\ m.pending = v.pending /\ m.total = v.total
        <4>1. e \in Held(work) /\ e \notin v.ledger.events
          BY <2>3, <2>7, <2>13
        <4>2. Core(m, Held(work), recv) /\ Gained(m, v, e)
          BY <2>3, <2>6, <2>11, <3>1, <4>1, CoreLink
        <4> QED BY <4>2 DEF Gained
      <3>4. e \in m.ledger.events /\ \A q \in m.ledger.events \ {e} : m.pending[q] = <<>>
        BY <2>5, <2>7, <3>3 DEF NoneWaits
      <3>5. WorkInv(t, m.ledger.events)
        BY <2>3, <2>7, <3>3 DEF WorkInv
      <3>6. Held(work) \subseteq {e} \cup Held(t) /\ Held(t) \subseteq Held(work)
        BY <2>3
      <3>7. m.total + Len(t) + k <= MaxPending
        BY <2>7, <2>8, <3>3
      <3>8. DrainInv(TakeBucket(m, e, t), k, recv)
        BY <3>3, <3>4, <3>5, <3>6, <3>7, DrainTakes
      <3> QED BY <3>2, <3>8
    <2> QED BY <2>12, <2>13
  <1> QED BY <1>1, <1>2

\* The recursion that DrainPending stands for.
DrainEquation(drain, n, parent) ==
    drain = [k \in 0 .. MaxPending |-> IF k = 0 THEN TakeBucket(n, parent, <<>>) ELSE DrainTurn(drain[k - 1])]

\* DrainPending is the value of that recursion.
LEMMA DrainUnfolds ==
    ASSUME NEW n, NEW parent
    PROVE  DrainPending(n, parent) = (CHOOSE drain : DrainEquation(drain, n, parent))[MaxPending].node
  BY DEF DrainPending, DrainEquation, DrainTurn

\* The turns up to the k-th.
DrainedTo(f, n, parent, k) ==
    f[0] = TakeBucket(n, parent, <<>>) /\ \A i \in 1 .. k : f[i] = DrainTurn(f[i - 1])

\* The turns can be made.
LEMMA DrainTurns ==
    ASSUME NEW n, NEW parent, NEW max \in Nat
    PROVE  \E f : DrainedTo(f, n, parent, max)
  <1>1. PICK U : U = {k \in 0 .. max : \E f : DrainedTo(f, n, parent, k)}
    OBVIOUS
  <1>2. 0 \in U
    <2>1. 0 \in 0 .. max /\ 1 .. 0 = {}
      BY SMTT(40)
    <2>2. PICK f : f = [i \in {0} |-> TakeBucket(n, parent, <<>>)]
      OBVIOUS
    <2>3. DrainedTo(f, n, parent, 0)
      BY <2>1, <2>2 DEF DrainedTo
    <2> QED BY <1>1, <2>1, <2>3
  <1>3. ASSUME NEW k \in 1 .. max, k - 1 \in U PROVE k \in U
    <2>1. PICK f : DrainedTo(f, n, parent, k - 1)
      BY <1>1, <1>3
    <2>2. PICK g : g = [i \in 0 .. k |-> IF i = k THEN DrainTurn(f[k - 1]) ELSE f[i]]
      OBVIOUS
    <2>3. 0 \in 0 .. k /\ 0 # k /\ k \in 0 .. max
      BY SMTT(40)
    <2>4. ASSUME NEW i \in 1 .. k PROVE g[i] = DrainTurn(g[i - 1])
      <3>1. i \in 0 .. k /\ i - 1 \in 0 .. k /\ i - 1 # k
        BY SMTT(40)
      <3>2. i = k \/ i \in 1 .. k - 1
        BY SMTT(40)
      <3>3. CASE i = k
        BY <2>2, <3>1, <3>3
      <3>4. CASE i # k
        BY <2>1, <2>2, <3>1, <3>2, <3>4 DEF DrainedTo
      <3> QED BY <3>3, <3>4
    <2>5. DrainedTo(g, n, parent, k)
      BY <2>1, <2>2, <2>3, <2>4 DEF DrainedTo
    <2> QED BY <1>1, <2>3, <2>5
  <1>4. \A k \in 0 .. max : k \in U
    BY <1>2, <1>3, LoopInduction
  <1>5. max \in 0 .. max
    BY SMTT(40)
  <1> QED BY <1>1, <1>4, <1>5

\* DrainPending is the node after the last of them.
LEMMA DrainRun ==
    ASSUME NEW n, NEW parent
    PROVE  \E f : DrainedTo(f, n, parent, MaxPending) /\ DrainPending(n, parent) = f[MaxPending].node
  <1>0. MaxPending \in Nat
    BY SimAssumption
  <1>1. PICK f : DrainedTo(f, n, parent, MaxPending)
    BY <1>0, DrainTurns
  <1>2. PICK g : g = [k \in 0 .. MaxPending |-> f[k]]
    OBVIOUS
  <1>3. \A k \in 0 .. MaxPending : k = 0 \/ (k # 0 /\ k \in 1 .. MaxPending /\ k - 1 \in 0 .. MaxPending)
    BY <1>0, SMTT(40)
  <1>4. \A k \in 0 .. MaxPending : g[k] = IF k = 0 THEN TakeBucket(n, parent, <<>>) ELSE DrainTurn(g[k - 1])
    BY <1>1, <1>2, <1>3 DEF DrainedTo
  <1>5. DrainEquation(g, n, parent)
    BY <1>2, <1>4 DEF DrainEquation
  <1>6. PICK h : h = CHOOSE drain : DrainEquation(drain, n, parent)
    OBVIOUS
  <1>7. DrainEquation(h, n, parent)
    BY <1>5, <1>6
  <1>8. \A k \in 0 .. MaxPending : h[k] = IF k = 0 THEN TakeBucket(n, parent, <<>>) ELSE DrainTurn(h[k - 1])
    BY <1>7 DEF DrainEquation
  <1>9. 0 \in 0 .. MaxPending /\ \A k \in 1 .. MaxPending : k \in 0 .. MaxPending /\ k # 0
    BY <1>0, SMTT(40)
  <1>10. DrainedTo(h, n, parent, MaxPending)
    BY <1>8, <1>9 DEF DrainedTo
  <1> QED BY <1>6, <1>10, DrainUnfolds

-----------------------------------------------------------------------------
\* A drain that starts well ends with nothing held.
LEMMA DrainEnds ==
    ASSUME tick \in Nat, NEW n, NEW recv, NEW p, DrainInv(TakeBucket(n, p, <<>>), 0, recv)
    PROVE  Good(DrainPending(n, p), {}, recv)
  <1>0. MaxPending \in Nat /\ MaxPending \in 0 .. MaxPending /\ 0 \in 0 .. MaxPending
    BY SimAssumption, SMTT(40)
  <1>1. PICK f : DrainedTo(f, n, p, MaxPending) /\ DrainPending(n, p) = f[MaxPending].node
    BY DrainRun
  <1>2. PICK U : U = {k \in 0 .. MaxPending : DrainInv(f[k], k, recv)}
    OBVIOUS
  <1>3. 0 \in U
    <2>1. f[0] = TakeBucket(n, p, <<>>)
      BY <1>1 DEF DrainedTo
    <2> QED BY <1>0, <1>2, <2>1
  <1>4. ASSUME NEW k \in 1 .. MaxPending, k - 1 \in U PROVE k \in U
    <2>1. k \in Nat /\ k - 1 \in Nat /\ k \in 0 .. MaxPending
      BY <1>0, SMTT(40)
    <2>2. DrainInv(f[k - 1], k - 1, recv) /\ f[k] = DrainTurn(f[k - 1])
      BY <1>1, <1>2, <1>4 DEF DrainedTo
    <2>3. DrainInv(DrainTurn(f[k - 1]), k, recv)
      BY <2>1, <2>2, DrainStep
    <2> QED BY <1>2, <2>1, <2>2, <2>3
  <1>5. \A k \in 0 .. MaxPending : k \in U
    BY <1>0, <1>3, <1>4, LoopInduction
  <1>6. PICK d : d = f[MaxPending]
    OBVIOUS
  <1>7. DrainInv(d, MaxPending, recv)
    BY <1>0, <1>2, <1>5, <1>6
  <1>8. d.work = <<>>
    <2>1. CASE d.work # <<>>
      <3>1. d.node.total + Len(d.work) + MaxPending <= MaxPending
        BY <1>7, <2>1 DEF DrainInv
      <3>2. d.node.total \in Nat
        <4>1. PoolInv(d.node.pending, d.node.total)
          BY <1>7 DEF DrainInv, Good, Core
        <4>2. Head(d.work).event \in Events
          BY <1>7, <2>1, WorkTail DEF DrainInv
        <4> QED BY <4>1, <4>2, PoolTake
      <3>3. d.work \in Seq(Items)
        BY <1>7 DEF DrainInv, WorkInv
      <3>4. Len(d.work) \in Nat /\ Len(d.work) # 0
        BY <2>1, <3>3, SMTT(40)
      <3>5. FALSE
        BY <1>0, <3>1, <3>2, <3>4, SMTT(40)
      <3> QED BY <3>5
    <2> QED BY <2>1
  <1>9. Held(<<>>) = {}
    <2>1. 1 .. Len(<<>>) = {}
      BY SMTT(40)
    <2> QED BY <2>1 DEF Held
  <1>10. Good(d.node, {}, recv)
    BY <1>7, <1>8, <1>9 DEF DrainInv
  <1> QED BY <1>1, <1>6, <1>10

\* A message that changes nothing but the validator's context is accounted for.
LEMMA GoodIgnored ==
    ASSUME NEW n, NEW recv, Good(n, {}, recv), NEW e, NEW v, v = n \/ v = ValidateEvent(n, e),
           e \in Events, Punctual => e \in Forged \cup n.ledger.events
    PROVE  Good(v, {}, recv \cup {e})
  <1>1. Core(n, {}, recv) /\ NoneWaits(n.pending, n.ledger.events)
    BY DEF Good
  <1>2. PICK held : held = IF e \in Forged THEN {} ELSE {e}
    OBVIOUS
  <1>3. Core(n, held, recv \cup {e})
    BY <1>1, <1>2, CoreHold
  <1>4. Punctual => held \subseteq {} \cup n.ledger.events \cup Waiting(n.pending) \cup n.dropped
    BY <1>2
  <1>5. Core(n, {}, recv \cup {e})
    BY <1>3, <1>4, CoreRelease
  <1>6. Core(ValidateEvent(n, e), {}, recv \cup {e}) /\ SameLedger(ValidateEvent(n, e), n)
    BY <1>5, CoreValidate
  <1>7. CASE v = n
    BY <1>1, <1>5, <1>7 DEF Good
  <1>8. CASE v = ValidateEvent(n, e)
    BY <1>1, <1>6, <1>8 DEF Good, SameLedger
  <1> QED BY <1>7, <1>8

\* accept_or_queue_ keeps the invariant.
LEMMA GoodAccept ==
    ASSUME tick \in Nat, NEW n, NEW recv, Good(n, {}, recv), NEW e \in Events
    PROVE  Good(Accept(n, e), {}, recv \cup {e})
  <1>1. Core(n, {}, recv) /\ NoneWaits(n.pending, n.ledger.events)
    BY DEF Good
  <1>2. n.seen \subseteq n.ledger.events /\ CtxInv(n.ctx)
    BY <1>1 DEF Core
  <1>3. PICK v : v = ValidateEvent(n, e)
    OBVIOUS
  <1>4. CASE e \in n.seen \/ ~Valid(n.ctx, e)
    <2>1. Accept(n, e) = n
      BY <1>4 DEF Accept
    <2>2. Punctual => e \in Forged \cup n.ledger.events
      BY <1>2, <1>4, PunctualIsValid
    <2>3. Good(n, {}, recv \cup {e})
      BY <2>2, GoodIgnored
    <2> QED BY <2>1, <2>3
  <1>5. CASE e \notin n.seen /\ Valid(n.ctx, e)
    <2>1. e \notin Forged
      BY <1>5 DEF Valid
    <2>2. Core(n, {e}, recv \cup {e})
      BY <1>1, <2>1, CoreHold
    <2>3. Core(v, {e}, recv \cup {e}) /\ SameLedger(v, n)
      BY <1>3, <2>2, CoreValidate
    <2>4. v.ledger = n.ledger /\ v.pending = n.pending /\ v.total = n.total
      BY <2>3 DEF SameLedger
    <2>5. CASE e \in n.ledger.events
      <3>1. Accept(n, e) = v
        BY <1>3, <1>5, <2>4, <2>5 DEF Accept, LinkResult
      <3>2. Good(v, {}, recv \cup {e})
        BY <1>3, <2>5, GoodIgnored
      <3> QED BY <3>1, <3>2
    <2>6. CASE e \notin n.ledger.events /\ ~HasParent(n.ledger.events, e)
      <3>1. PICK k : k = QueuePending(v, e)
        OBVIOUS
      <3>2. Accept(n, e) = k
        <4>1. LinkResult(v.ledger, e) = "MissingParent"
          BY <2>4, <2>6 DEF LinkResult
        <4> QED BY <1>3, <1>5, <3>1, <4>1 DEF Accept
      <3>3. Prev[e] \in Events /\ Prev[e] \notin v.ledger.events
        BY <2>4, <2>6, LedgerAssumption DEF HasParent
      <3>4. Good(v, {e}, recv \cup {e})
        BY <1>1, <2>3, <2>4 DEF Good
      <3>5. Good(k, {e}, recv \cup {e}) /\ e \in Waiting(k.pending) \cup k.dropped
        BY <3>1, <3>3, <3>4, GoodQueue
      <3>6. Core(k, {e}, recv \cup {e}) /\ NoneWaits(k.pending, k.ledger.events)
        BY <3>5 DEF Good
      <3>8. Core(k, {}, recv \cup {e})
        <4>1. PICK held, rest : held = {e} /\ rest = {}
          OBVIOUS
        <4>2. /\ Core(k, held, recv \cup {e}) /\ rest \in SUBSET held
              /\ Punctual => held \subseteq rest \cup k.ledger.events \cup Waiting(k.pending) \cup k.dropped
          BY <3>5, <3>6, <4>1
        <4>3. Core(k, rest, recv \cup {e})
          BY <4>2, CoreRelease
        <4> QED BY <4>1, <4>3
      <3> QED BY <3>2, <3>6, <3>8 DEF Good
    <2>7. CASE e \notin n.ledger.events /\ HasParent(n.ledger.events, e)
      <3>1. PICK m, k : m = ObserveEvent(LinkEvent(v, e), e) /\ k = Remember(m, e)
        OBVIOUS
      <3>2. Accept(n, e) = DrainPending(k, e)
        <4>1. LinkResult(v.ledger, e) = "Ok"
          BY <2>4, <2>7 DEF LinkResult
        <4> QED BY <1>3, <1>5, <3>1, <4>1 DEF Accept
      <3>3. Core(m, {e}, recv \cup {e}) /\ Gained(m, v, e)
        BY <2>3, <2>4, <2>7, <3>1, CoreLink
      <3>4. m.ledger.events = n.ledger.events \cup {e} /\ m.pending = n.pending
        BY <2>4, <3>3 DEF Gained
      <3>5. Core(k, {e}, recv \cup {e}) /\ k.ledger = m.ledger /\ k.pending = m.pending
        <4>1. e \in m.ledger.events
          BY <3>4
        <4>2. Remembered(m, k, {e}, recv \cup {e})
          BY <3>1, <3>3, <4>1, NodeRemembers
        <4> QED BY <4>2 DEF Remembered
      <3>6. e \in k.ledger.events /\ \A q \in k.ledger.events \ {e} : k.pending[q] = <<>>
        BY <1>1, <3>4, <3>5 DEF NoneWaits
      <3>7. <<>> \in Seq(Items) /\ 1 .. Len(<<>>) = {} /\ Len(<<>>) = 0 /\ 0 \in Nat
        BY SMTT(40)
      <3>8. WorkInv(<<>>, k.ledger.events) /\ Held(<<>>) = {}
        BY <3>7 DEF WorkInv, Held
      <3>9. k.total + Len(<<>>) + 0 <= MaxPending
        <4>1. PoolInv(k.pending, k.total)
          BY <3>5 DEF Core
        <4>2. k.total \in Nat /\ k.total <= MaxPending /\ MaxPending \in Nat
          BY <4>1, PoolTake, SimAssumption DEF PoolInv
        <4> QED BY <3>7, <4>2, SMTT(40)
      <3>10. {e} \subseteq {e} \cup Held(<<>>) /\ Held(<<>>) \subseteq {e}
        BY <3>8
      <3>11. DrainInv(TakeBucket(k, e, <<>>), 0, recv \cup {e})
        BY <3>5, <3>6, <3>7, <3>8, <3>9, <3>10, DrainTakes
      <3> QED BY <3>2, <3>11, DrainEnds
    <2> QED BY <2>5, <2>6, <2>7
  <1> QED BY <1>4, <1>5

-----------------------------------------------------------------------------
\* The inductive invariant.
SimInv == tick \in Nat /\ received \in SUBSET Events /\ Good(node, {}, received)

\* It holds of a new node.
LEMMA SimInit ==
    ASSUME Init
    PROVE  SimInv
  <1>1. node = NewNode /\ tick = 0 /\ received = {}
    BY DEF Init
  <1>2. PICK n : n = NewNode
    OBVIOUS
  <1>3. PICK l, p : l = EmptyLedger /\ p = [q \in Events |-> <<>>]
    OBVIOUS
  <1>4. n = NodeOf(l, NewContext, NoAuthors, <<>>, <<>>, {}, p, 0, {})
    BY <1>2, <1>3 DEF NewNode, NodeOf
  <1>5. /\ IsNode(n) /\ n.ledger = l /\ n.ctx = NewContext /\ n.overlay = NoAuthors /\ n.trace = <<>>
        /\ n.seen = {} /\ n.pending = p /\ n.total = 0 /\ n.dropped = {}
    BY <1>4 DEF NodeOf, IsNode
  <1>6. l.events = {} /\ LedgerInv(l)
    BY <1>3 DEF EmptyLedger, LedgerInv, Closed, Childless
  <1>7. 0 \in Nat /\ <<>> \in Seq({}) /\ <<>> \in Seq(Events) /\ Len(<<>>) = 0 /\ DOMAIN <<>> = {} /\ 1 .. 0 = {}
    BY SMTT(40)
  <1>8. CtxInv(NewContext)
    BY <1>7 DEF CtxInv, NewContext
  <1>9. TraceInv(<<>>, {})
    <2>1. Cardinality({}) = 0
      BY FS_EmptySet
    <2> QED BY <1>7, <2>1 DEF TraceInv
  <1>10. OverlayInv(NoAuthors, {})
    <2>1. {Author[x] : x \in {}} = {}
      OBVIOUS
    <2>2. <<>> \in [{} -> {}]
      BY SMTT(40)
    <2> QED BY <2>1, <2>2 DEF OverlayInv, NoAuthors
  <1>11. PoolInv(p, 0)
    <2>1. p \in [Events -> Seq(Events)] /\ \A q \in Events : p[q] = <<>>
      BY <1>3, <1>7
    <2>2. PICK f : f = Lengths(p)
      OBVIOUS
    <2>3. \A q \in Events : f[q] = 0
      BY <1>7, <2>1, <2>2 DEF Lengths
    <2>4. SumOf(f, Events) = 0
      <3>1. IsFiniteSet(Events)
        BY SimAssumption
      <3> QED BY <2>3, <3>1, SumOfZeros
    <2>5. 0 <= MaxPending
      BY SimAssumption, SMTT(40)
    <2> QED BY <1>7, <2>1, <2>2, <2>4, <2>5 DEF PoolInv
  <1>12. Waiting(p) = {}
    <2>1. \A q \in Events : p[q] = <<>>
      BY <1>3
    <2>2. \A q \in Events : ToSet(p[q]) = {}
      BY <1>7, <2>1 DEF ToSet
    <2> QED BY <2>2 DEF Waiting
  <1>13. Accounted({}, p, {}, {}, {})
    BY <1>12 DEF Accounted
  <1>14. Core(n, {}, {})
    BY <1>5, <1>6, <1>8, <1>9, <1>10, <1>11, <1>13 DEF Core
  <1>15. NoneWaits(n.pending, n.ledger.events)
    BY <1>5, <1>6 DEF NoneWaits
  <1> QED BY <1>1, <1>2, <1>7, <1>14, <1>15 DEF SimInv, Good

\* Every step keeps it.
LEMMA SimStep ==
    ASSUME SimInv, [Next]_vars
    PROVE  SimInv'
  <1>1. tick \in Nat /\ received \in SUBSET Events /\ Good(node, {}, received)
    BY DEF SimInv
  <1>2. ASSUME NEW e \in Events, Deliver(e) PROVE SimInv'
    <2>1. node' = Accept(node, e) /\ received' = received \cup {e} /\ tick' = tick
      BY <1>2 DEF Deliver
    <2>2. Good(node', {}, received')
      BY <1>1, <2>1, GoodAccept
    <2> QED BY <1>1, <2>1, <2>2 DEF SimInv
  <1>3. CASE Tick
    <2>1. node' = node /\ received' = received /\ tick' = tick + 1
      BY <1>3 DEF Tick
    <2>2. tick' \in Nat
      BY <1>1, <2>1, SMTT(40)
    <2> QED BY <1>1, <2>1, <2>2 DEF SimInv
  <1>4. CASE UNCHANGED vars
    BY <1>1, <1>4 DEF SimInv, vars
  <1> QED BY <1>2, <1>3, <1>4 DEF Next

-----------------------------------------------------------------------------
\* The invariant of the simulator node holds in every state, whatever is
\* delivered in whatever order (process_inbox, accept_or_queue_).
THEOREM SimInvariant == Spec => []SimInv
  <1>1. Init => SimInv
    BY SimInit
  <1>2. SimInv /\ [Next]_vars => SimInv'
    BY SimStep
  <1> QED BY <1>1, <1>2, PTL DEF Spec

\* Every linked event is in the trace once, with its parent linked before
\* (dvel_sybil_overlay_observe_event after both link paths of the node).
THEOREM TraceTheorem == Spec => []TraceIsLedger
  <1>1. SimInv => TraceIsLedger
    BY DEF SimInv, Good, Core, TraceInv, TraceIsLedger
  <1> QED BY <1>1, SimInvariant, PTL

\* The recursion that the number of waiting messages stands for.
CountEquation(iter, pending) ==
    iter = [s \in SUBSET Events |->
              IF s = {} THEN 0
              ELSE Len(pending[CHOOSE p \in s : TRUE]) + iter[s \ {CHOOSE p \in s : TRUE}]]

\* iter gives the sum of f over S.
SumsTo(f, S, iter) == SumOf(f, S) = iter[S]

\* A solution of the recursion gives the sum over the whole set.
LEMMA WholeSum ==
    ASSUME NEW S, IsFiniteSet(S), NEW f, \A x \in S : f[x] \in Int,
           NEW iter, SumEquation(iter, f, S)
    PROVE  SumsTo(f, S, iter)
  <1>1. S \in SUBSET S
    OBVIOUS
  <1>2. SumOf(f, S) = iter[S]
    BY <1>1, SumValue
  <1> QED BY <1>2 DEF SumsTo

\* It is the sum of the lengths.
LEMMA CountIsSum ==
    ASSUME NEW pending \in [Events -> Seq(Events)]
    PROVE  MapThenSumSet(LAMBDA p : Len(pending[p]), Events) = SumOf(Lengths(pending), Events)
  <1>1. MapThenSumSet(LAMBDA p : Len(pending[p]), Events) = (CHOOSE iter : CountEquation(iter, pending))[Events]
    BY DEF MapThenSumSet, MapThenFoldSet, CountEquation
  <1>2. PICK f : f = Lengths(pending)
    OBVIOUS
  <1>3. \A p \in Events : f[p] = Len(pending[p]) /\ f[p] \in Nat
    BY <1>2, LengthsOf
  <1>4. \A p \in Events : f[p] \in Int
    <2>1. \A i \in Nat : i \in Int
      BY SMTT(40)
    <2> QED BY <1>3, <2>1
  <1>5. IsFiniteSet(Events) /\ Events \in SUBSET Events
    BY SimAssumption
  <1>6. ASSUME NEW iter PROVE CountEquation(iter, pending) <=> SumEquation(iter, f, Events)
    <2>1. \A s \in SUBSET Events : s # {} => (CHOOSE p \in s : TRUE) \in Events
      OBVIOUS
    <2>2. \A s \in SUBSET Events : s # {} => f[CHOOSE p \in s : TRUE] = Len(pending[CHOOSE p \in s : TRUE])
      BY <1>3, <2>1
    <2>3. PICK F, G : /\ F = [s \in SUBSET Events |->
                                IF s = {} THEN 0
                                ELSE Len(pending[CHOOSE p \in s : TRUE]) + iter[s \ {CHOOSE p \in s : TRUE}]]
                      /\ G = [s \in SUBSET Events |->
                                IF s = {} THEN 0
                                ELSE f[CHOOSE p \in s : TRUE] + iter[s \ {CHOOSE p \in s : TRUE}]]
      OBVIOUS
    <2>4. ASSUME NEW s \in SUBSET Events PROVE F[s] = G[s]
      <3>1. CASE s = {}
        BY <2>3, <3>1
      <3>2. CASE s # {}
        <4>1. PICK p : p = CHOOSE q \in s : TRUE
          OBVIOUS
        <4>2. F[s] = Len(pending[p]) + iter[s \ {p}]
          BY <2>3, <3>2, <4>1
        <4>3. G[s] = f[p] + iter[s \ {p}]
          BY <2>3, <3>2, <4>1
        <4>4. f[p] = Len(pending[p])
          BY <2>2, <3>2, <4>1
        <4> QED BY <4>2, <4>3, <4>4
      <3> QED BY <3>1, <3>2
    <2>5. F = G
      BY <2>3, <2>4
    <2>6. CountEquation(iter, pending) <=> iter = F
      BY <2>3 DEF CountEquation
    <2>7. SumEquation(iter, f, Events) <=> iter = G
      BY <2>3 DEF SumEquation
    <2> QED BY <2>5, <2>6, <2>7
  <1>7. PICK iter : SumEquation(iter, f, Events)
    BY <1>4, <1>5, SumSolution
  <1>8. PICK c : c = (CHOOSE i : CountEquation(i, pending)) /\ CountEquation(c, pending)
    BY <1>6, <1>7
  <1>9. SumEquation(c, f, Events)
    BY <1>6, <1>8
  <1>10. SumOf(f, Events) = c[Events]
    <2>1. SumsTo(f, Events, c)
      BY <1>4, <1>5, <1>9, WholeSum
    <2> QED BY <2>1 DEF SumsTo
  <1> QED BY <1>1, <1>2, <1>8, <1>10

\* After every message the buckets of linked events are empty, and pending_total_
\* is the number of messages that wait, within MAX_PENDING_TOTAL
\* (queue_pending_, drain_pending_for_parent_).
THEOREM PoolTheorem == Spec => []NoneWaitsForLinked
  <1>1. ASSUME SimInv PROVE NoneWaitsForLinked
    <2>1. NoneWaits(node.pending, node.ledger.events) /\ PoolInv(node.pending, node.total)
      BY <1>1 DEF SimInv, Good, Core
    <2>2. PICK f : f = Lengths(node.pending)
      OBVIOUS
    <2>3. node.total = SumOf(f, Events) /\ node.total <= MaxPending /\ node.pending \in [Events -> Seq(Events)]
      BY <2>1, <2>2 DEF PoolInv
    <2>4. node.total = MapThenSumSet(LAMBDA p : Len(node.pending[p]), Events)
      BY <2>2, <2>3, CountIsSum
    <2> QED BY <2>1, <2>3, <2>4 DEF NoneWaits, NoneWaitsForLinked
  <1>2. SimInv => NoneWaitsForLinked
    BY <1>1
  <1> QED BY <1>2, SimInvariant, PTL

\* Gossip order does not matter as long as no event is older than another one of
\* its author by more than the skew: the ledger is what the events that arrived
\* determine (accept_or_queue_ and drain_pending_for_parent_ together).
THEOREM OrderTheorem ==
    ASSUME Punctual
    PROVE  Spec => []LedgerIndependentOfOrder
  <1>1. ASSUME SimInv PROVE LedgerIndependentOfOrder
    <2>1. PICK x, p, lost, kept :
             /\ x = node.ledger.events /\ p = Waiting(node.pending)
             /\ lost = node.dropped \ (x \cup p) /\ kept = received \ (Forged \cup lost)
      OBVIOUS
    <2>2. /\ x \cup p \cup {} \subseteq received \ Forged
          /\ received \ Forged \subseteq x \cup p \cup {} \cup node.dropped
      BY <1>1, <2>1 DEF SimInv, Good, Core, Accounted
    <2>3. kept = x \cup p
      BY <2>1, <2>2
    <2>4. /\ x \in SUBSET Events /\ (\A e \in x : HasParent(x, e)) /\ node.ledger.tips = Childless(x)
          /\ node.pending \in [Events -> Seq(Events)] /\ (\A q \in x : node.pending[q] = <<>>)
      BY <1>1, <2>1 DEF SimInv, Good, Core, LedgerInv, Closed, PoolInv, NoneWaits
    <2>5. ASSUME NEW e \in x PROVE e \in kept /\ Ancestry[e] \subseteq kept
      <3>1. Ancestry[e] \subseteq x
        BY <2>4, AncestryLeast
      <3> QED BY <2>3, <3>1
    <2>6. ASSUME NEW e \in kept, Ancestry[e] \subseteq kept PROVE e \in x
      <3>0. e \in Events
        BY <1>1, <2>1 DEF SimInv
      <3>1. PICK S : S = Ancestry[e] \ x
        OBVIOUS
      <3>2. S \in SUBSET Events /\ S \subseteq p
        BY <2>3, <2>6, <3>0, <3>1, AncestrySelf
      <3>3. ASSUME S # {} PROVE FALSE
        <4>1. PICK y \in S : Prev[y] \notin S
          BY <3>2, <3>3, LedgerAssumption
        <4>2. y \in Waiting(node.pending) /\ y \in Ancestry[e]
          BY <2>1, <3>1, <3>2
        <4>3. Prev[y] \in Events /\ node.pending[Prev[y]] # <<>>
          BY <1>1, <4>2, WaitingFor DEF SimInv, Good, Core
        <4>4. Prev[y] # ZERO_HASH /\ Prev[y] \in Ancestry[e]
          BY <3>0, <4>2, <4>3, AncestryParent, LedgerAssumption DEF HasParent
        <4>5. Prev[y] \in x
          BY <3>1, <4>1, <4>4
        <4> QED BY <2>4, <4>3, <4>5
      <3>4. e \in Ancestry[e]
        BY <3>0, AncestrySelf
      <3> QED BY <3>1, <3>3, <3>4
    <2>7. x = {e \in kept : Ancestry[e] \subseteq kept}
      BY <2>5, <2>6
    <2>8. Pooled(node) = p
      BY <2>1 DEF Pooled, Waiting
    <2>9. kept = received \ (Forged \cup (node.dropped \ (node.ledger.events \cup Pooled(node))))
      BY <2>1, <2>8
    <2> QED BY <2>1, <2>4, <2>7, <2>9 DEF LedgerIndependentOfOrder
  <1>2. SimInv => LedgerIndependentOfOrder
    BY <1>1
  <1> QED BY <1>2, SimInvariant, PTL

\* An author whose events fork has been quarantined, and one who has been
\* quarantined has forked or has two events further apart than the walk, if a
\* quarantine lasts at all (observe_event, is_ancestor_by_walk).
THEOREM ForkTheorem ==
    ASSUME QuarantineTicks > 0
    PROVE  Spec => []ForkIffQuarantined
  <1>1. ASSUME SimInv, NEW a \in Authors
        PROVE  LET own == Own(node.ledger.events, a)
                   caught == a \in DOMAIN node.overlay /\ node.overlay[a].until > 0
               IN  (Fork(own) => caught) /\ (caught => Fork(own) \/ Far(own))
    <2>1. PICK x, o, own : x = node.ledger.events /\ o = node.overlay /\ own = Own(x, a)
      OBVIOUS
    <2>2. PICK A : A = {Author[e] : e \in x}
      OBVIOUS
    <2>3. DOMAIN o = A /\ (\A b \in A : AuthorInv(o[b], Own(x, b))) /\ x \in SUBSET Events
      BY <1>1, <2>1, <2>2 DEF SimInv, Good, Core, OverlayInv, LedgerInv
    <2>4. CASE a \in A
      <3>1. AuthorInv(o[a], own)
        BY <2>1, <2>3, <2>4
      <3>2. PICK u, t : u = o[a].until /\ t = o[a].lastTip
        OBVIOUS
      <3>3. /\ u \in Nat /\ t \in own /\ (u = 0 => \A d \in own : d \in Ancestry[t])
            /\ (u > 0 => Fork(own) \/ Far(own))
        BY <3>1, <3>2 DEF AuthorInv
      <3>4. u = 0 \/ u > 0
        BY <3>3, SMTT(40)
      <3>5. ASSUME u = 0 PROVE ~Fork(own)
        <4>1. t \in Events
          BY <2>1, <2>3, <3>3 DEF Own
        <4>2. \A d, e \in own : Related(d, e)
          BY <3>3, <3>5, <4>1, AncestryChain
        <4> QED BY <4>2 DEF Fork
      <3> QED BY <2>1, <2>3, <2>4, <3>2, <3>3, <3>4, <3>5
    <2>5. CASE a \notin A
      <3>1. own = {}
        BY <2>1, <2>2, <2>5 DEF Own
      <3> QED BY <2>1, <2>3, <2>5, <3>1 DEF Fork
    <2> QED BY <2>4, <2>5
  <1>2. SimInv => ForkIffQuarantined
    BY <1>1 DEF ForkIffQuarantined, Own, Fork, Far, Related, Near
  <1> QED BY <1>2, SimInvariant, PTL

-----------------------------------------------------------------------------
\* The share of the observers is a number.
LEMMA SeenTermType ==
    ASSUME NEW n \in Nat
    PROVE  SeenTerm(n) \in Nat
  <1>1. CASE n = 0
    BY <1>1, SMTT(40) DEF SeenTerm
  <1>2. CASE n >= 8
    BY <1>2, SMTT(40) DEF SeenTerm
  <1>3. CASE n \in 1 .. 7
    BY <1>3, SMTT(40) DEF SeenTerm
  <1>4. n = 0 \/ n >= 8 \/ n \in 1 .. 7
    BY SMTT(40)
  <1> QED BY <1>1, <1>2, <1>3, <1>4

\* The warm-up of an author is a number.
LEMMA WarmupType ==
    ASSUME NEW st, NEW own, AuthorInv(st, own), NEW t \in Nat
    PROVE  /\ AuthorWarmup(st, t) \in Int /\ WarmupLength \in Nat \ {0} /\ Whole \in Nat \ {0}
  <1>1. WarmupLength \in Nat \ {0}
    BY OverlayAssumption, SMTT(40) DEF WarmupLength
  <1>2. Whole \in Nat \ {0}
    BY <1>1, SMTT(40) DEF Whole
  <1>3. st.first \in Nat /\ Cardinality(st.seenBy) \in Nat
    <2>1. IsFiniteSet({"self"})
      BY FS_Singleton
    <2>2. st.first \in Nat /\ st.seenBy \subseteq {"self"}
      BY DEF AuthorInv
    <2> QED BY <2>1, <2>2, FS_Subset, FS_CardinalityType
  <1>4. PICK x, w \in Nat : x = SeenTerm(Cardinality(st.seenBy)) /\ w = WarmupLength
    BY <1>1, <1>3, SeenTermType
  <1>5. PICK age : age = IF t < st.first THEN 0 ELSE IF t - st.first < w THEN t - st.first ELSE w
    OBVIOUS
  <1>6. age \in Int
    BY <1>3, <1>4, <1>5, SMTT(40)
  <1>7. PICK y : y = 35 * x
    OBVIOUS
  <1>8. y \in Nat
    BY <1>4, <1>7, SMTT(40)
  <1>9. PICK z : z = y * w
    OBVIOUS
  <1>10. z \in Int
    BY <1>4, <1>8, <1>9, SMTT(40)
  <1>11. PICK a : a = 65000 * age
    BY SMTT(40)
  <1>12. a + z \in Int
    BY <1>6, <1>10, <1>11, SMTT(40)
  <1>13. AuthorWarmup(st, t) = a + z
    BY <1>4, <1>5, <1>7, <1>9, <1>11, SMTT(40) DEF AuthorWarmup
  <1>14. AuthorWarmup(st, t) \in Int
    BY <1>12, <1>13, SMTT(40)
  <1> QED BY <1>1, <1>2, <1>14

\* The weight of an author is a number.
LEMMA WeightType ==
    ASSUME NEW overlay, NEW events, OverlayInv(overlay, events), NEW t \in Nat, NEW a
    PROVE  Weight(overlay, t, a) \in Int
  <1>1. 0 \in Int
    BY SMTT(40)
  <1>2. CASE a \notin DOMAIN overlay \/ t < StateOf(overlay, a, t).until
    BY <1>1, <1>2 DEF Weight
  <1>3. CASE ~(a \notin DOMAIN overlay \/ t < StateOf(overlay, a, t).until)
    <2>1. a \in {Author[e] : e \in events}
      BY <1>3 DEF OverlayInv
    <2>2. AuthorInv(overlay[a], Own(events, a))
      BY <2>1 DEF OverlayInv
    <2>3. PICK x, s, w : x = AuthorWarmup(overlay[a], t) /\ s = overlay[a].slashed /\ w = Whole
      OBVIOUS
    <2>4. x \in Int /\ w \in Nat \ {0} /\ s \in 0 .. Scale
      BY <2>2, <2>3, WarmupType DEF AuthorInv
    <2>5. PICK y : y = 2 * x * (Scale - s) + w
      OBVIOUS
    <2>6. y \in Int
      <3>1. PICK u, v : u = 2 * x /\ v = Scale - s
        OBVIOUS
      <3>2. u \in Int /\ v \in Int
        BY <2>4, <3>1, OverlayAssumption, SMTT(40)
      <3>3. PICK z : z = u * v
        OBVIOUS
      <3>4. z \in Int
        BY <3>2, <3>3, SMTT(40)
      <3>5. z + w \in Int
        BY <2>4, <3>4, SMTT(40)
      <3> QED BY <2>5, <3>1, <3>3, <3>5
    <2>7. PICK q : q = 2 * w
      OBVIOUS
    <2>8. q \in Nat \ {0}
      BY <2>4, <2>7, SMTT(40)
    <2>9. y \div q \in Int
      BY <2>6, <2>8, SMTT(40)
    <2>10. Weight(overlay, t, a) = y \div q
      BY <1>3, <2>3, <2>5, <2>7 DEF Weight
    <2> QED BY <2>9, <2>10
  <1> QED BY <1>2, <1>3

\* The recursion that the Sybil score stands for.
WeightEquation(iter, overlay, t, S) ==
    iter = [s \in SUBSET S |->
              IF s = {} THEN 0
              ELSE Weight(overlay, t, CHOOSE a \in s : TRUE) + iter[s \ {CHOOSE a \in s : TRUE}]]

\* The Sybil score of a chain is a number.
LEMMA SybilScoreType ==
    ASSUME NEW overlay, NEW t, NEW chain, IsFiniteSet(AuthorsOf(chain)),
           \A a \in AuthorsOf(chain) : Weight(overlay, t, a) \in Int
    PROVE  ScoreSybil(overlay, t, chain) \in Int
  <1>0. PICK S : S = AuthorsOf(chain)
    OBVIOUS
  <1>1. ScoreSybil(overlay, t, chain) = (CHOOSE iter : WeightEquation(iter, overlay, t, S))[S]
    BY <1>0 DEF ScoreSybil, MapThenSumSet, MapThenFoldSet, WeightEquation
  <1>2. PICK f : f = [a \in S |-> Weight(overlay, t, a)]
    OBVIOUS
  <1>3. IsFiniteSet(S) /\ S \in SUBSET S /\ \A a \in S : f[a] = Weight(overlay, t, a) /\ f[a] \in Int
    BY <1>0, <1>2
  <1>6. ASSUME NEW iter PROVE WeightEquation(iter, overlay, t, S) <=> SumEquation(iter, f, S)
    <2>1. \A s \in SUBSET S : s # {} => (CHOOSE a \in s : TRUE) \in S
      OBVIOUS
    <2>2. \A s \in SUBSET S : s # {} => f[CHOOSE a \in s : TRUE] = Weight(overlay, t, CHOOSE a \in s : TRUE)
      BY <1>3, <2>1
    <2>3. PICK F, G : /\ F = [s \in SUBSET S |->
                                IF s = {} THEN 0
                                ELSE Weight(overlay, t, CHOOSE a \in s : TRUE) + iter[s \ {CHOOSE a \in s : TRUE}]]
                      /\ G = [s \in SUBSET S |->
                                IF s = {} THEN 0
                                ELSE f[CHOOSE a \in s : TRUE] + iter[s \ {CHOOSE a \in s : TRUE}]]
      OBVIOUS
    <2>4. ASSUME NEW s \in SUBSET S PROVE F[s] = G[s]
      <3>1. CASE s = {}
        BY <2>3, <3>1
      <3>2. CASE s # {}
        <4>1. PICK a : a = CHOOSE q \in s : TRUE
          OBVIOUS
        <4>2. F[s] = Weight(overlay, t, a) + iter[s \ {a}]
          BY <2>3, <3>2, <4>1
        <4>3. G[s] = f[a] + iter[s \ {a}]
          BY <2>3, <3>2, <4>1
        <4>4. f[a] = Weight(overlay, t, a)
          BY <2>2, <3>2, <4>1
        <4> QED BY <4>2, <4>3, <4>4
      <3> QED BY <3>1, <3>2
    <2>5. F = G
      BY <2>3, <2>4
    <2>6. WeightEquation(iter, overlay, t, S) <=> iter = F
      BY <2>3 DEF WeightEquation
    <2>7. SumEquation(iter, f, S) <=> iter = G
      BY <2>3 DEF SumEquation
    <2> QED BY <2>5, <2>6, <2>7
  <1>7. PICK iter : SumEquation(iter, f, S)
    BY <1>3, SumSolution
  <1>8. PICK c : c = (CHOOSE i : WeightEquation(i, overlay, t, S)) /\ WeightEquation(c, overlay, t, S)
    BY <1>6, <1>7
  <1>9. SumEquation(c, f, S)
    BY <1>6, <1>8
  <1>10. SumOf(f, S) = c[S] /\ SumOf(f, S) \in Int
    <2>0. IsFiniteSet(S) /\ S \in SUBSET S /\ \A a \in S : f[a] \in Int
      BY <1>3
    <2>1. SumOf(f, S) = c[S]
      <3>1. SumsTo(f, S, c)
        BY <1>9, <2>0, WholeSum
      <3> QED BY <3>1 DEF SumsTo
    <2>2. SumOf(f, S) \in Int
      BY <2>0, SumMember
    <2> QED BY <2>1, <2>2
  <1> QED BY <1>1, <1>8, <1>10

\* The scores of the tips are numbers.
LEMMA ScoreTypes ==
    ASSUME NEW l, LedgerInv(l), NEW overlay, OverlayInv(overlay, l.events), NEW t \in Nat, NEW tip \in l.tips
    PROVE  /\ UnitScores(l, MaxSteps)[tip] \in Int /\ LatestScores(l, MaxSteps)[tip] \in Int
           /\ SybilScores(l, overlay, t, MaxSteps)[tip] \in Int
  <1>1. PICK w : w = Walk(l, tip, MaxSteps)
    OBVIOUS
  <1>2. w \in Seq(l.events)
    BY <1>1, WalkWalks, SimAssumption DEF IsWalk
  <1>3. Len(w) \in Int /\ DOMAIN w = 1 .. Len(w) /\ Len(w) \in Nat /\ \A k \in 1 .. Len(w) : w[k] \in l.events
    BY <1>2, SMTT(40)
  <1>4. IsFiniteSet(AuthorsOf(w))
    <2>1. ToSet(w) \subseteq l.events
      BY <1>3 DEF ToSet
    <2>2. IsFiniteSet(l.events)
      BY SimAssumption, FS_Subset DEF LedgerInv
    <2>3. IsFiniteSet(ToSet(w))
      BY <2>1, <2>2, FS_Subset
    <2>4. IsFiniteSet({Author[e] : e \in ToSet(w)})
      <3>1. PICK S, T, f : S = ToSet(w) /\ T = {Author[e] : e \in S} /\ f = [e \in S |-> Author[e]]
        OBVIOUS
      <3>2. f \in Surjection(S, T)
        BY <3>1 DEF Surjection
      <3>3. IsFiniteSet(T)
        BY <2>3, <3>1, <3>2, FS_Surjection
      <3> QED BY <3>1, <3>3
    <2> QED BY <2>4 DEF AuthorsOf
  <1>5. Cardinality(AuthorsOf(w)) \in Int
    <2>1. Cardinality(AuthorsOf(w)) \in Nat
      BY <1>4, FS_CardinalityType
    <2> QED BY <2>1, SMTT(40)
  <1>6. ScoreSybil(overlay, t, w) \in Int
    BY <1>4, WeightType, SybilScoreType
  <1>7. UnitScores(l, MaxSteps)[tip] = Len(w)
    BY <1>1 DEF UnitScores, ScoreUnit
  <1>8. LatestScores(l, MaxSteps)[tip] = Cardinality(AuthorsOf(w))
    BY <1>1 DEF LatestScores, ScoreLatestPerAuthor
  <1>9. SybilScores(l, overlay, t, MaxSteps)[tip] = ScoreSybil(overlay, t, w)
    BY <1>1 DEF SybilScores
  <1> QED BY <1>3, <1>5, <1>6, <1>7, <1>8, <1>9

\* The tip that a loop over the tips keeps is the best one, in every order.
LEMMA BestTip ==
    ASSUME NEW S \in SUBSET Events, S # {}, NEW score, \A u \in S : score[u] \in Int, NEW order \in SetToSeqs(S)
    PROVE  \A u \in S : Beats(score, SelectTip(order, score), u)
  <1>1. IsFiniteSet(S)
    BY SimAssumption, FS_Subset
  <1>2. order \in Seq(S) /\ \A u \in S : \E k \in 1 .. Len(order) : order[k] = u
    BY <1>1, OrderHasAll
  <1>3. order # <<>>
    <2>1. 1 .. Len(<<>>) = {}
      BY SMTT(40)
    <2> QED BY <1>2, <2>1
  <1>4. \A k \in 1 .. Len(order) : Beats(score, SelectTip(order, score), order[k])
    BY <1>2, <1>3, SelectBest
  <1> QED BY <1>2, <1>4

\* The preferred tip is the one of highest score and smallest hash, in whatever
\* order the hash set yields the tips (select_preferred_tip_score, with unit
\* weights, with the latest event per author and with the Sybil weights).
THEOREM TipTheorem == Spec => []PreferredTipOrderFree
  <1>1. ASSUME SimInv, node.ledger.tips # {}, NEW order \in SetToSeqs(node.ledger.tips), NEW u \in node.ledger.tips
        PROVE  /\ Beats(UnitScores(node.ledger, MaxSteps), PreferredUnit(node, order), u)
               /\ Beats(LatestScores(node.ledger, MaxSteps), PreferredLatest(node, order), u)
               /\ Beats(SybilScores(node.ledger, node.overlay, tick, MaxSteps), PreferredSybil(node, order), u)
    <2>1. /\ tick \in Nat /\ LedgerInv(node.ledger) /\ OverlayInv(node.overlay, node.ledger.events)
      BY <1>1 DEF SimInv, Good, Core
    <2>2. node.ledger.tips \in SUBSET Events
      BY <2>1 DEF LedgerInv, Childless
    <2>3. \A t \in node.ledger.tips :
             /\ UnitScores(node.ledger, MaxSteps)[t] \in Int /\ LatestScores(node.ledger, MaxSteps)[t] \in Int
             /\ SybilScores(node.ledger, node.overlay, tick, MaxSteps)[t] \in Int
      BY <2>1, ScoreTypes
    <2>4. Beats(UnitScores(node.ledger, MaxSteps), PreferredUnit(node, order), u)
      BY <1>1, <2>2, <2>3, BestTip DEF PreferredUnit
    <2>5. Beats(LatestScores(node.ledger, MaxSteps), PreferredLatest(node, order), u)
      BY <1>1, <2>2, <2>3, BestTip DEF PreferredLatest
    <2>6. Beats(SybilScores(node.ledger, node.overlay, tick, MaxSteps), PreferredSybil(node, order), u)
      BY <1>1, <2>2, <2>3, BestTip DEF PreferredSybil
    <2> QED BY <2>4, <2>5, <2>6
  <1>2. SimInv => PreferredTipOrderFree
    BY <1>1 DEF PreferredTipOrderFree, Beats
  <1> QED BY <1>2, SimInvariant, PTL
=============================================================================
