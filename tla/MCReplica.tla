----------------------------- MODULE MCReplica -----------------------------
(***************************************************************************)
(* Three events: e2 is a child of e1 by another author, and e3 is by the   *)
(* author of e1 and too old to follow it.  Two byte strings are no events, *)
(* one of them above the size of a block.  One of the chains that are on   *)
(* disk holds parent and child in one block, which the build with feature  *)
(* "parallel" refuses.                                                     *)
(***************************************************************************)
EXTENDS Replica

CONSTANTS e1, e2, e3, bad, big, a, b

MCEvents == {e1, e2, e3}
MCJunk == {bad, big}
MCPrev == [e \in MCEvents |-> IF e = e2 THEN e1 ELSE ZERO_HASH]
MCAuthor == [e \in MCEvents |-> IF e = e2 THEN b ELSE a]
MCTimestamp == [e \in MCEvents |-> IF e = e1 THEN 5 ELSE 1]
MCRank == [e \in MCEvents |-> IF e = e1 THEN 3 ELSE IF e = e2 THEN 2 ELSE 1]
MCEarlierChains == {<<<<e1>>>>, <<<<e1, e2>>>>}
MCSize == [tx \in MCEvents \cup MCJunk |-> IF tx = big THEN 9 ELSE IF tx = bad THEN 1 ELSE 2]
=============================================================================
