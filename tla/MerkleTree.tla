----------------------------- MODULE MerkleTree -----------------------------
(***************************************************************************)
(* The Merkle root that Ledger::merkle_root, merkle_root_hashes and the    *)
(* file storage's merkle_root compute, each with a loop of its own.        *)
(* SHA-256 is injective here: the digest of a concatenation is the pair,   *)
(* and a leaf is never a pair, so that no leaf is an inner node.           *)
(***************************************************************************)
EXTENDS Integers, Sequences

\* Defective Pairs: a leaf without a partner is left out.
PairsDropOdd(level) ==
    LET pairs[k \in 0 .. Len(level) \div 2] ==
            IF k = 0 THEN <<>>
            ELSE Append(pairs[k - 1], <<level[2*k - 1], level[2*k]>>)
    IN  pairs[Len(level) \div 2]

\* The last node of an odd level is paired with itself.
Pairs(level) ==
    LET half == (Len(level) + 1) \div 2
        right(k) == IF 2*k <= Len(level) THEN level[2*k] ELSE level[2*k - 1]
        pairs[k \in 0 .. half] ==
            IF k = 0 THEN <<>>
            ELSE Append(pairs[k - 1], <<level[2*k - 1], right(k)>>)
    IN  pairs[half]

\* The only node of the last level.  Every level is shorter than the one below
\* it, so as many levels as leaves are enough.
MerkleRoot(leaves) ==
    LET level[k \in 0 .. Len(leaves)] ==
            IF k = 0 THEN leaves
            ELSE LET below == level[k - 1]
                 IN  IF Len(below) > 1 THEN Pairs(below) ELSE below
    IN  level[Len(leaves)][1]
=============================================================================
