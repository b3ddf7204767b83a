---------------------------- MODULE FileManifest ----------------------------
(***************************************************************************)
(* The manifest of a stored file (storage.rs): how it is written, line by  *)
(* line, and what the reader makes of a text.  SHA-256 is injective, so a  *)
(* chunk stands for its own hash; a signature is the text it signs.        *)
(***************************************************************************)
EXTENDS Integers, SeqOps

CONSTANT None   \* an Option without a value, and a file that does not exist

Line(key, val) == [key |-> key, val |-> val]

\* canonical_string.  The line with the magic word is skipped by the reader.
Canonical(m) ==
    <<Line("file_name", m.name), Line("total_size", m.total),
      Line("chunk_size", m.size), Line("chunks", Len(m.hashes))>>
    \o [k \in DOMAIN m.hashes |-> Line("h", m.hashes[k])]

\* sign_manifest_inplace
Sign(m, key) == [m EXCEPT !.signer = key, !.signature = Canonical(m)]

\* to_string_with_signature
Text(m) ==
    Canonical(m)
    \o (IF m.signer = None THEN <<>> ELSE <<Line("signer", m.signer)>>)
    \o (IF m.signature = None THEN <<>> ELSE <<Line("signature", m.signature)>>)

\* A number whose last digits are missing: a smaller one, or none at all.
Shortened(n) == {None} \cup {d \in 1 .. n - 1 : \E k \in 1 .. 9 : n \div (10 ^ k) = d}

\* What a write that stopped early leaves: some whole lines, and maybe part of
\* the next one, of which the reader understands no more than a shorter number.
Torn(text) ==
    LET lines(k) == SubSeq(text, 1, k)
        cut(k) == IF text[k + 1].key \in {"total_size", "chunk_size", "chunks"}
                  THEN {Line(text[k + 1].key, n) : n \in Shortened(text[k + 1].val)}
                  ELSE {}
    IN  UNION {{lines(k), Append(lines(k), Line("unknown", None))}
                   \cup {Append(lines(k), line) : line \in cut(k)} :
               k \in 0 .. Len(text) - 1}

\* The value of the last line with a key.
Field(text, key) ==
    LET at == {k \in DOMAIN text : text[k].key = key}
    IN  IF at = {} THEN None ELSE text[Max(at)].val

\* The hashes that the loop over the lines pushes.
Push(hashes, line) == IF line.key = "h" THEN Append(hashes, line.val) ELSE hashes
Hashes(text) == FoldLeft(Push, <<>>, text)

\* The conditions under which read_manifest returns a manifest.
Readable(text) ==
    /\ \A k \in DOMAIN text : text[k].key # "unknown"
    /\ \A key \in {"file_name", "total_size", "chunk_size"} : Field(text, key) # None
    /\ Field(text, "chunks") \in {None, Len(Hashes(text))}

ReadManifest(text) ==
    [name |-> Field(text, "file_name"), total |-> Field(text, "total_size"),
     size |-> Field(text, "chunk_size"), hashes |-> Hashes(text),
     signer |-> Field(text, "signer"), signature |-> Field(text, "signature")]

\* verify_manifest_signature, which the callers skip without a signature.
SignatureOk(m) == m.signature # None => m.signer # None /\ m.signature = Canonical(m)
=============================================================================
