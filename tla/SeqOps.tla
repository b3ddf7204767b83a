------------------------------- MODULE SeqOps -------------------------------
(***************************************************************************)
(* The few operators on sequences that the models need, under their names  *)
(* in the community module SequencesExt.  That module also brings in bags  *)
(* and many other operators, and what a prover does for one step takes the *)
(* longer the more definitions are in reach.                               *)
(***************************************************************************)
EXTENDS Integers, Sequences, FiniteSetsExt

ToSet(s) == {s[i] : i \in DOMAIN s}

Last(s) == s[Len(s)]

\* s is the beginning of t.
IsPrefix(s, t) == Len(s) <= Len(t) /\ SubSeq(s, 1, Len(s)) = SubSeq(t, 1, Len(s))

Prefixes(s) == {SubSeq(s, 1, n) : n \in 0 .. Len(s)}

\* The sequences of at most n members of S.
BoundedSeq(S, n) == UNION {[1 .. k -> S] : k \in 0 .. n}

\* All orders of the members of a finite set, and one of them.
SetToSeqs(S) == {f \in [1 .. Cardinality(S) -> S] : IsInjective(f)}
SetToSeq(S) == CHOOSE f \in SetToSeqs(S) : TRUE

\* A loop over a sequence: op(... op(op(base, seq[1]), seq[2]) ..., seq[n]).
FoldLeft(op(_, _), base, seq) ==
    MapThenFoldSet(LAMBDA x, done : op(done, x), base, LAMBDA i : seq[i], Max, DOMAIN seq)

FlattenSeq(seqs) == FoldLeft(LAMBDA s, t : s \o t, <<>>, seqs)
=============================================================================
