----------------------------- MODULE TipScoring -----------------------------
(***************************************************************************)
(* Chains and preferred tips (scoring.rs).  A chain is walked from a tip   *)
(* towards its origin; the code stores it the other way round, and reads   *)
(* it from the tip again wherever the order matters.                       *)
(***************************************************************************)
EXTENDS EventLedger

\* build_chain_from_tip: at most max steps, and no further than known events.
Walk(ledger, tip, max) ==
    LET walk[k \in 0 .. max] ==
            IF k = 0 THEN <<>>
            ELSE LET done == walk[k - 1]
                     cur == IF done = <<>> THEN tip ELSE Prev[Last(done)]
                 IN  IF cur \in ledger.events THEN Append(done, cur) ELSE done
    IN  walk[max]

\* is_ancestor_by_walk: up to max parents are compared.
IsAncestorByWalk(ledger, ancestor, descendant, max) ==
    \/ ancestor = descendant
    \/ \E e \in ToSet(Walk(ledger, descendant, max)) : Prev[e] = ancestor

\* score_chain with UnitWeight, and with the latest event of each author.
ScoreUnit(chain) == Len(chain)
AuthorsOf(chain) == {Author[e] : e \in ToSet(chain)}
ScoreLatestPerAuthor(chain) == Cardinality(AuthorsOf(chain))

\* Defective KeepBest: the first of several equal tips stays.
KeepFirst(score, best, tip) == IF score[tip] > score[best] THEN tip ELSE best

\* The best tip so far is replaced by a better one, or by an equal one with a
\* smaller hash.
KeepBest(score, best, tip) ==
    IF score[tip] > score[best] \/ (score[tip] = score[best] /\ Rank[tip] < Rank[best])
    THEN tip ELSE best

\* The loop over the tips, in the order the hash set yields them.
SelectTip(order, score) ==
    FoldLeft(LAMBDA best, tip : KeepBest(score, best, tip), Head(order), Tail(order))

\* The scores of the tips under LocalPolicyKind Unit and LatestPerAuthorUnit.
UnitScores(ledger, max) == [t \in ledger.tips |-> ScoreUnit(Walk(ledger, t, max))]
LatestScores(ledger, max) ==
    [t \in ledger.tips |-> ScoreLatestPerAuthor(Walk(ledger, t, max))]
=============================================================================
