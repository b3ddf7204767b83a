---------------------------- MODULE SybilOverlay ----------------------------
(***************************************************************************)
(* The Sybil overlay (scoring.rs): warm-up weights and the quarantine of   *)
(* authors whose events fork.  An overlay maps the authors it has seen to  *)
(* their state.                                                            *)
(***************************************************************************)
EXTENDS TipScoring

CONSTANTS
    WarmupTicks,       \* warmup_ticks
    QuarantineTicks,   \* quarantine_ticks
    Scale,             \* fixed_point_scale
    MaxLinkWalk,       \* max_link_walk
    SlashPercent,      \* slash_percent under the policy Slash, 0 under Quarantine
    None               \* last_tip of an author without events

ASSUME OverlayAssumption ==
    /\ WarmupTicks \in Nat /\ QuarantineTicks \in Nat /\ MaxLinkWalk \in Nat
    /\ Scale \in Nat \ {0} /\ SlashPercent \in 0 .. 100
    /\ None \notin Events

NoAuthors == <<>>

NewAuthor(tick) ==
    [first |-> tick, seenBy |-> {}, lastTip |-> None, until |-> 0, slashed |-> 0]

StateOf(overlay, a, tick) == IF a \in DOMAIN overlay THEN overlay[a] ELSE NewAuthor(tick)

\* Two tips of an author are linked if a walk leads from one to the other.
Linked(ledger, d, e) ==
    \/ IsAncestorByWalk(ledger, d, e, MaxLinkWalk)
    \/ IsAncestorByWalk(ledger, e, d, MaxLinkWalk)

\* apply_quarantine_and_slash
Quarantine(st, tick) ==
    [st EXCEPT !.until = IF tick + QuarantineTicks > @ THEN tick + QuarantineTicks ELSE @,
               !.slashed = LET sum == @ + (Scale * SlashPercent) \div 100
                           IN  IF sum < Scale THEN sum ELSE Scale]

AncestorLinked(ledger, st, e) == st.lastTip = None \/ Linked(ledger, st.lastTip, e)

\* Defective Observe: last_tip is only set by the first event.
ObserveFirstTip(ledger, st, tick, observer, e) ==
    LET seen == [st EXCEPT !.seenBy = @ \cup {observer}]
        judged == IF AncestorLinked(ledger, st, e) THEN seen ELSE Quarantine(seen, tick)
    IN  IF st.lastTip = None THEN [judged EXCEPT !.lastTip = e] ELSE judged

\* observe_event, on the state of the event's author.
Observe(ledger, st, tick, observer, e) ==
    LET seen == [st EXCEPT !.seenBy = @ \cup {observer}]
        judged == IF AncestorLinked(ledger, st, e) THEN seen ELSE Quarantine(seen, tick)
    IN  [judged EXCEPT !.lastTip = e]

\* ln(1 + n) / ln(9) in thousandths; 1 from eight observers on.
SeenTerm(n) ==
    IF n = 0 THEN 0
    ELSE IF n >= 8 THEN 1000 ELSE <<315, 500, 631, 732, 815, 886, 946>>[n]

\* author_warmup, 65 % age and 35 % observers, in parts of Whole.
WarmupLength == IF WarmupTicks > 1 THEN WarmupTicks ELSE 1
Whole == 100000 * WarmupLength

AuthorWarmup(st, tick) ==
    LET age == IF tick < st.first THEN 0
               ELSE IF tick - st.first < WarmupLength THEN tick - st.first ELSE WarmupLength
    IN  65000 * age + 35 * SeenTerm(Cardinality(st.seenBy)) * WarmupLength

\* author_weight_fp: the warm-up less the slashed share, rounded to the
\* fixed-point scale.
Weight(overlay, tick, a) ==
    IF a \notin DOMAIN overlay \/ tick < StateOf(overlay, a, tick).until THEN 0
    ELSE (2 * AuthorWarmup(overlay[a], tick) * (Scale - overlay[a].slashed) + Whole)
             \div (2 * Whole)

ScoreSybil(overlay, tick, chain) ==
    MapThenSumSet(LAMBDA a : Weight(overlay, tick, a), AuthorsOf(chain))

SybilScores(ledger, overlay, tick, max) ==
    [t \in ledger.tips |-> ScoreSybil(overlay, tick, Walk(ledger, t, max))]

PreferredTip(ledger, overlay, tick, max) ==
    SelectTip(SetToSeq(ledger.tips), SybilScores(ledger, overlay, tick, max))

\* The row observe_event hands to the trace recorder, after the event.
TraceRow(ledger, before, overlay, tick, e) ==
    LET st == StateOf(before, Author[e], tick)
    IN  [event          |-> e,
         parentPresent  |-> HasParent(ledger.events, e),
         ancestorCheck  |-> AncestorLinked(ledger, st, e),
         untilBefore    |-> st.until,
         untilAfter     |-> overlay[Author[e]].until,
         root           |-> Root(ledger.events),
         preferred      |-> PreferredTip(ledger, overlay, tick, MaxLinkWalk),
         weight         |-> Weight(overlay, tick, Author[e])]
=============================================================================
