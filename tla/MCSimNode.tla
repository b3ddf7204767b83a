----------------------------- MODULE MCSimNode ------------------------------
(***************************************************************************)
(* Two authors.  The first forks (a2, a3) and comes back two events after  *)
(* its second one (a4), further than the walk of one reaches.              *)
(***************************************************************************)
EXTENDS SimNode, TLC

CONSTANTS a1, a2, a3, a4, b1, f

MCEvents == {a1, a2, a3, a4, b1, f}
MCPrev == (a1 :> ZERO_HASH) @@ (a2 :> a1) @@ (a3 :> a1) @@ (b1 :> a2) @@ (a4 :> b1) @@ (f :> a1)
MCAuthor == [e \in MCEvents |-> IF e \in {b1, f} THEN "b" ELSE "a"]
MCTimestamp == (a1 :> 0) @@ (a2 :> 1) @@ (a3 :> 1) @@ (b1 :> 1) @@ (a4 :> 2) @@ (f :> 0)
MCRank == (a1 :> 3) @@ (a2 :> 6) @@ (a3 :> 2) @@ (b1 :> 5) @@ (a4 :> 4) @@ (f :> 1)
=============================================================================
