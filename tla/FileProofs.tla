----------------------------- MODULE FileProofs -----------------------------
(***************************************************************************)
(* What an upload leaves behind and what a download makes of it, for every *)
(* set of versions, every chunk size and every interleaving of uploads,    *)
(* torn writes and downloads.                                              *)
(***************************************************************************)
EXTENDS FileStore, FoldProofs

\* The bytes of a file, and a file cut in pieces.
Bytes == Seq(STRING)
Pieces == Seq(Bytes)

-----------------------------------------------------------------------------
\* The recursion that FlattenSeq stands for.
FlattenEquation(iter, seqs) ==
    iter = [s \in SUBSET DOMAIN seqs |->
              IF s = {} THEN <<>> ELSE iter[s \ {Max(s)}] \o seqs[Max(s)]]

\* FlattenSeq is the value of that recursion.
LEMMA FlattenUnfolds ==
    ASSUME NEW seqs
    PROVE  FlattenSeq(seqs) = (CHOOSE iter : FlattenEquation(iter, seqs))[DOMAIN seqs]
  BY DEF FlattenSeq, FoldLeft, MapThenFoldSet, FlattenEquation

\* The pieces are put together one after the other.
LEMMA FlattenRun ==
    ASSUME NEW n \in Nat, NEW seqs \in [1 .. n -> Bytes]
    PROVE  \E run \in [0 .. n -> Bytes] :
              /\ run[0] = <<>> /\ \A k \in 1 .. n : run[k] = run[k - 1] \o seqs[k]
              /\ FlattenSeq(seqs) = run[n]
  <1>1. PICK V : V = Bytes
    OBVIOUS
  <1>0. <<>> \in V /\ \A v \in V, k \in 1 .. n : v \o seqs[k] \in V
    BY <1>1 DEF Bytes
  <1>2. PICK step : IsStep(step, V, n) /\ \A v \in V, k \in 1 .. n : step[<<v, k>>] = v \o seqs[k]
    <2> DEFINE f == [p \in V \X (1 .. n) |-> p[1] \o seqs[p[2]]]
    <2>1. f \in [V \X (1 .. n) -> V] /\ \A v \in V, k \in 1 .. n : f[<<v, k>>] = v \o seqs[k]
      BY <1>0
    <2> QED BY <2>1, Zenon DEF IsStep
  <1>3. DOMAIN seqs = 1 .. n
    BY Zenon
  <1>4. PICK iter : IsTable(iter, V, <<>>, step, n)
    BY <1>0, <1>2, SequenceFold, Zenon
  <1>5. \A s \in SUBSET (1 .. n) : s # {} => Max(s) \in 1 .. n
    BY MaxMember, Zenon
  <1>6. \A s \in SUBSET (1 .. n) :
           iter[s] = IF s = {} THEN <<>> ELSE iter[s \ {Max(s)}] \o seqs[Max(s)]
    BY <1>2, <1>4, <1>5, Zenon DEF IsTable
  <1>7. FlattenEquation(iter, seqs)
    BY <1>3, <1>4, <1>6, Zenon DEF FlattenEquation, IsTable
  <1>8. PICK c : c = (CHOOSE x : FlattenEquation(x, seqs)) /\ FlattenEquation(c, seqs)
    BY <1>7, Zenon
  <1>9. \A s \in SUBSET (1 .. n) :
           c[s] = IF s = {} THEN <<>> ELSE c[s \ {Max(s)}] \o seqs[Max(s)]
    BY <1>3, <1>8, Zenon DEF FlattenEquation
  <1>10. Follows(c, V, <<>>, step, n)
    BY <1>2, <1>5, <1>9, Zenon DEF Follows
  <1>11. PICK run : Unrolls(run, c, V, <<>>, step, n)
    BY <1>0, <1>2, <1>10, FoldRun, Zenon
  <1>12. \A k \in 1 .. n : k - 1 \in 0 .. n
    OBVIOUS
  <1>13. \A k \in 1 .. n : run[k] = run[k - 1] \o seqs[k]
    BY <1>2, <1>11, <1>12, Zenon DEF IsRun, Unrolls
  <1>14. FlattenSeq(seqs) = c[1 .. n]
    BY <1>3, <1>8, FlattenUnfolds, Zenon
  <1> QED BY <1>1, <1>11, <1>13, <1>14, Zenon DEF IsRun, Unrolls

\* No piece, or one piece more.
LEMMA FlattenAppend ==
    ASSUME NEW seqs \in Pieces, NEW x \in Bytes
    PROVE  /\ FlattenSeq(<<>>) = <<>> /\ FlattenSeq(seqs) \in Bytes
           /\ Append(seqs, x) \in Pieces
           /\ FlattenSeq(Append(seqs, x)) = FlattenSeq(seqs) \o x
  <1>1. PICK n \in Nat : n = Len(seqs) /\ seqs \in [1 .. n -> Bytes]
    BY DEF Pieces
  <1>2. PICK more : more = Append(seqs, x)
    OBVIOUS
  <1>3. /\ more \in [1 .. n + 1 -> Bytes] /\ more[n + 1] = x
        /\ \A k \in 1 .. n : more[k] = seqs[k]
    <2>1. more \in Seq(Bytes) /\ Len(more) = n + 1
      BY <1>1, <1>2 DEF Pieces
    <2>2. more \in [1 .. n + 1 -> Bytes]
      BY <2>1
    <2>3. more[n + 1] = x /\ \A k \in 1 .. n : more[k] = seqs[k]
      BY <1>1, <1>2 DEF Pieces
    <2> QED BY <2>2, <2>3
  <1>4. PICK r \in [0 .. n -> Bytes] :
              /\ r[0] = <<>> /\ \A k \in 1 .. n : r[k] = r[k - 1] \o seqs[k]
              /\ FlattenSeq(seqs) = r[n]
    BY <1>1, FlattenRun, Zenon
  <1>5. PICK q \in [0 .. n + 1 -> Bytes] :
              /\ q[0] = <<>> /\ \A k \in 1 .. n + 1 : q[k] = q[k - 1] \o more[k]
              /\ FlattenSeq(more) = q[n + 1]
    <2>1. n + 1 \in Nat
      OBVIOUS
    <2> QED BY <1>3, <2>1, FlattenRun, Zenon
  <1>6. PICK U : U = {k \in 0 .. n : q[k] = r[k]}
    OBVIOUS
  <1>7. 0 \in U
    BY <1>4, <1>5, <1>6
  <1>8. ASSUME NEW k \in 1 .. n, k - 1 \in U PROVE k \in U
    <2>1. k \in 0 .. n /\ k \in 1 .. n + 1
      OBVIOUS
    <2>2. q[k - 1] = r[k - 1] /\ more[k] = seqs[k]
      BY <1>3, <1>6, <1>8
    <2>3. q[k] = r[k]
      BY <1>4, <1>5, <2>1, <2>2, Zenon
    <2> QED BY <1>6, <2>1, <2>3
  <1>9. n \in 0 .. n /\ n + 1 \in 1 .. n + 1 /\ (n + 1) - 1 = n
    OBVIOUS
  <1>10. q[n] = r[n]
    <2>1. \A k \in 0 .. n : k \in U
      BY <1>7, <1>8, LoopInduction, Zenon
    <2> QED BY <1>6, <1>9, <2>1
  <1>11. FlattenSeq(more) = r[n] \o x
    BY <1>3, <1>5, <1>9, <1>10
  <1>12. FlattenSeq(<<>>) = <<>>
    <2>1. 0 \in Nat /\ <<>> \in [1 .. 0 -> Bytes]
      OBVIOUS
    <2>2. PICK e \in [0 .. 0 -> Bytes] : e[0] = <<>> /\ FlattenSeq(<<>>) = e[0]
      BY <2>1, FlattenRun, Zenon
    <2> QED BY <2>2
  <1>13. r[n] \in Bytes
    BY <1>4, <1>9
  <1> QED BY <1>2, <1>4, <1>11, <1>12, <1>13 DEF Pieces

\* The first j pieces, put together.
Begun(seqs, j) == FlattenSeq(SubSeq(seqs, 1, j))

\* One piece after the other.
LEMMA Begins ==
    ASSUME NEW seqs \in Pieces, NEW j \in 0 .. Len(seqs)
    PROVE  /\ Begun(seqs, 0) = <<>> /\ Begun(seqs, Len(seqs)) = FlattenSeq(seqs)
           /\ Begun(seqs, j) \in Bytes
           /\ j < Len(seqs) => Begun(seqs, j + 1) = Begun(seqs, j) \o seqs[j + 1]
  <1>1. SubSeq(seqs, 1, 0) = <<>> /\ SubSeq(seqs, 1, Len(seqs)) = seqs
    BY DEF Pieces
  <1>2. SubSeq(seqs, 1, j) \in Pieces
    BY DEF Pieces
  <1>3. ASSUME j < Len(seqs)
        PROVE  /\ seqs[j + 1] \in Bytes
               /\ SubSeq(seqs, 1, j + 1) = Append(SubSeq(seqs, 1, j), seqs[j + 1])
    BY <1>3 DEF Pieces
  <1>4. <<>> \in Bytes
    BY DEF Bytes
  <1>5. FlattenSeq(<<>>) = <<>> /\ Begun(seqs, j) \in Bytes
    BY <1>2, <1>4, FlattenAppend, Zenon DEF Begun
  <1>6. ASSUME j < Len(seqs)
        PROVE  Begun(seqs, j + 1) = Begun(seqs, j) \o seqs[j + 1]
    BY <1>2, <1>3, <1>6, FlattenAppend, Zenon DEF Begun
  <1> QED BY <1>1, <1>5, <1>6, Zenon DEF Begun

\* Files put together in two orders.
LEMMA Associative ==
    ASSUME NEW a \in Bytes, NEW b \in Bytes, NEW c \in Bytes
    PROVE  (a \o b) \o c = a \o (b \o c) /\ a \o b \in Bytes /\ Len(a \o b) = Len(a) + Len(b)
  BY DEF Bytes

\* The length of two files joined.
LEMMA JoinedLen ==
    ASSUME NEW a \in Bytes, NEW b \in Bytes
    PROVE  Len(a \o b) = Len(a) + Len(b)
  BY DEF Bytes

\* The first pieces are the beginning of the file.
LEMMA BeginsFile ==
    ASSUME NEW seqs \in Pieces, NEW j \in 0 .. Len(seqs)
    PROVE  \E rest \in Bytes : FlattenSeq(seqs) = Begun(seqs, j) \o rest
  <1>1. PICK n \in Nat : n = Len(seqs)
    BY DEF Pieces
  <1>2. PICK U : U = {k \in 0 .. n : \E rest \in Bytes :
                                       FlattenSeq(seqs) = Begun(seqs, n - k) \o rest}
    OBVIOUS
  <1>3. 0 \in U
    <2>1. n \in 0 .. Len(seqs) /\ n - 0 = n
      BY <1>1
    <2>2. FlattenSeq(seqs) = Begun(seqs, n) /\ Begun(seqs, n) \in Bytes
      BY <1>1, <2>1, Begins, Zenon
    <2>3. Begun(seqs, n) = Begun(seqs, n) \o <<>> /\ <<>> \in Bytes
      BY <2>2 DEF Bytes
    <2>4. \E rest \in Bytes : FlattenSeq(seqs) = Begun(seqs, n - 0) \o rest
      BY <2>1, <2>2, <2>3, Zenon
    <2>5. 0 \in 0 .. n
      OBVIOUS
    <2> QED BY <1>2, <2>4, <2>5, Zenon
  <1>4. ASSUME NEW k \in 1 .. n, k - 1 \in U PROVE k \in U
    <2>1. PICK m \in 0 .. Len(seqs) : m = n - k /\ m < Len(seqs) /\ n - (k - 1) = m + 1
      BY <1>1, SMTT(40)
    <2>2. PICK rest \in Bytes : FlattenSeq(seqs) = Begun(seqs, m + 1) \o rest
      BY <1>2, <1>4, <2>1
    <2>3. Begun(seqs, m + 1) = Begun(seqs, m) \o seqs[m + 1] /\ Begun(seqs, m) \in Bytes
      BY <2>1, Begins, Zenon
    <2>4. seqs[m + 1] \in Bytes
      BY <2>1 DEF Pieces
    <2>5. FlattenSeq(seqs) = Begun(seqs, m) \o (seqs[m + 1] \o rest)
      <3>1. (Begun(seqs, m) \o seqs[m + 1]) \o rest = Begun(seqs, m) \o (seqs[m + 1] \o rest)
        BY <2>3, <2>4, Associative
      <3> QED BY <2>2, <2>3, <3>1, Zenon
    <2>6. seqs[m + 1] \o rest \in Bytes
      BY <2>4, Associative, Zenon
    <2>7. k \in 0 .. n
      OBVIOUS
    <2> QED BY <1>2, <2>1, <2>5, <2>6, <2>7, Zenon
  <1>5. \A k \in 0 .. n : k \in U
    BY <1>3, <1>4, LoopInduction, Zenon
  <1>6. n - j \in 0 .. n /\ n - (n - j) = j
    BY <1>1
  <1> QED BY <1>2, <1>5, <1>6

-----------------------------------------------------------------------------
\* The manifest of version v cut into the pieces hs.
Plain(hs, v) ==
    [name |-> "file", total |-> Len(Content[v]), size |-> ChunkSize, hashes |-> hs,
     signer |-> None, signature |-> None]
Made(hs, v, sign) == IF sign THEN Sign(Plain(hs, v), Key) ELSE Plain(hs, v)

\* The lines of its text.
CanonicalShape(T, hs, v) ==
    /\ T[1] = Line("file_name", "file") /\ T[2] = Line("total_size", Len(Content[v]))
    /\ T[3] = Line("chunk_size", ChunkSize) /\ T[4] = Line("chunks", Len(hs))
    /\ \A k \in 1 .. Len(hs) : T[k + 4] = Line("h", hs[k])
Shape(T, hs, v, sign) ==
    /\ T \in Seq(Lines) /\ CanonicalShape(T, hs, v)
    /\ Len(T) = Len(hs) + 4 + (IF sign THEN 2 ELSE 0)
    /\ sign => /\ T[Len(hs) + 5] = Line("signer", Key)
               /\ T[Len(hs) + 6] = Line("signature", Canonical(Plain(hs, v)))

\* The parts of a line.
LEMMA LineParts ==
    ASSUME NEW X, NEW key \in Keys, NEW val \in X
    PROVE  /\ Line(key, val) \in [key : Keys, val : X]
           /\ Line(key, val).key = key /\ Line(key, val).val = val
  BY Zenon DEF Line

\* A line that is signed, and any other.
LEMMA LineSigned ==
    ASSUME NEW key \in Keys, NEW val \in Values
    PROVE  Line(key, val) \in Signed
  BY LineParts, Zenon DEF Signed

LEMMA LineAdded ==
    ASSUME NEW key \in Keys, NEW val \in Values \cup {None, Key} \cup Seq(Signed)
    PROVE  Line(key, val) \in Lines
  BY LineParts, Zenon DEF Lines

\* The lines before the hashes.
Four(t, S, a, b, c, d) ==
    t \in Seq(S) /\ Len(t) = 4 /\ t[1] = a /\ t[2] = b /\ t[3] = c /\ t[4] = d
LEMMA FourLines ==
    ASSUME NEW S, NEW a \in S, NEW b \in S, NEW c \in S, NEW d \in S
    PROVE  Four(<<a, b, c, d>>, S, a, b, c, d)
  BY DEF Four

\* One text after another.
Joined(t, S, a, b) ==
    /\ t \in Seq(S) /\ Len(t) = Len(a) + Len(b)
    /\ \A k \in 1 .. Len(a) : t[k] = a[k]
    /\ \A k \in 1 .. Len(b) : t[k + Len(a)] = b[k]
LEMMA TextAfter ==
    ASSUME NEW S, NEW a \in Seq(S), NEW b \in Seq(S)
    PROVE  Joined(a \o b, S, a, b)
  BY DEF Joined

\* canonical_string.
LEMMA CanonicalLines ==
    ASSUME NEW hs \in Pieces, NEW v \in Versions
    PROVE  /\ Canonical(Plain(hs, v)) \in Seq(Signed)
           /\ Len(Canonical(Plain(hs, v))) = Len(hs) + 4
           /\ CanonicalShape(Canonical(Plain(hs, v)), hs, v)
  <1>1. PICK A : A = <<Line("file_name", "file"), Line("total_size", Len(Content[v])),
                       Line("chunk_size", ChunkSize), Line("chunks", Len(hs))>>
    OBVIOUS
  <1>2. PICK B : B = [k \in DOMAIN hs |-> Line("h", hs[k])]
    OBVIOUS
  <1>3. Canonical(Plain(hs, v)) = A \o B
    BY <1>1, <1>2, Zenon DEF Canonical, Plain
  <1>4. Len(Content[v]) \in Nat /\ ChunkSize \in Nat /\ Len(hs) \in Nat
    BY FileAssumption DEF Pieces
  <1>5. /\ A \in Seq(Signed) /\ Len(A) = 4
        /\ A[1] = Line("file_name", "file") /\ A[2] = Line("total_size", Len(Content[v]))
        /\ A[3] = Line("chunk_size", ChunkSize) /\ A[4] = Line("chunks", Len(hs))
    <2>1. /\ Line("file_name", "file") \in Signed /\ Line("total_size", Len(Content[v])) \in Signed
          /\ Line("chunk_size", ChunkSize) \in Signed /\ Line("chunks", Len(hs)) \in Signed
      <3>1. /\ "file" \in Values /\ Len(Content[v]) \in Values
            /\ ChunkSize \in Values /\ Len(hs) \in Values
        BY <1>4, Zenon DEF Values
      <3> QED BY <3>1, LineSigned, Zenon DEF Keys
    <2>2. PICK a \in Signed, b \in Signed, c \in Signed, d \in Signed :
             /\ a = Line("file_name", "file") /\ b = Line("total_size", Len(Content[v]))
             /\ c = Line("chunk_size", ChunkSize) /\ d = Line("chunks", Len(hs))
      BY <2>1, Zenon
    <2>3. A = <<a, b, c, d>>
      BY <1>1, <2>2, Zenon
    <2>4. Four(A, Signed, a, b, c, d)
      BY <2>3, FourLines, Zenon
    <2> QED BY <2>2, <2>4, Zenon DEF Four
  <1>6. /\ B \in Seq(Signed) /\ Len(B) = Len(hs)
        /\ \A k \in 1 .. Len(hs) : B[k] = Line("h", hs[k])
    <2>1. DOMAIN hs = 1 .. Len(hs) /\ \A k \in 1 .. Len(hs) : hs[k] \in Seq(STRING)
      BY DEF Pieces, Bytes
    <2>2. \A k \in 1 .. Len(hs) : Line("h", hs[k]) \in Signed
      <3>1. \A k \in 1 .. Len(hs) : hs[k] \in Values
        BY <2>1, Zenon DEF Values
      <3> QED BY <3>1, LineSigned, Zenon DEF Keys
    <2>3. \A k \in 1 .. Len(hs) : B[k] = Line("h", hs[k]) /\ B[k] \in Signed
      BY <1>2, <2>1, <2>2, Zenon
    <2>4. B \in [1 .. Len(hs) -> Signed]
      BY <1>2, <2>1, <2>2, Zenon
    <2> QED BY <1>4, <2>3, <2>4
  <1>7. /\ A \o B \in Seq(Signed) /\ Len(A \o B) = Len(hs) + 4
        /\ \A k \in 1 .. 4 : (A \o B)[k] = A[k]
        /\ \A k \in 1 .. Len(hs) : (A \o B)[k + 4] = B[k]
    <2>1. /\ A \o B \in Seq(Signed) /\ Len(A \o B) = 4 + Len(hs)
          /\ \A k \in 1 .. 4 : (A \o B)[k] = A[k]
          /\ \A k \in 1 .. Len(hs) : (A \o B)[k + 4] = B[k]
      <3>1. /\ A \o B \in Seq(Signed) /\ Len(A \o B) = Len(A) + Len(B)
            /\ \A k \in 1 .. Len(A) : (A \o B)[k] = A[k]
            /\ \A k \in 1 .. Len(B) : (A \o B)[k + Len(A)] = B[k]
        <4>1. Joined(A \o B, Signed, A, B)
          BY <1>5, <1>6, TextAfter, Zenon
        <4> QED BY <4>1, Zenon DEF Joined
      <3>2. Len(A) = 4 /\ Len(B) = Len(hs)
        BY <1>5, <1>6, Zenon
      <3> QED BY <3>1, <3>2, Zenon
    <2>2. 4 + Len(hs) = Len(hs) + 4
      BY <1>4
    <2> QED BY <2>1, <2>2, Zenon
  <1> QED BY <1>3, <1>5, <1>6, <1>7 DEF CanonicalShape

\* to_string_with_signature.
LEMMA TextLines ==
    ASSUME NEW hs \in Pieces, NEW v \in Versions, NEW sign \in BOOLEAN
    PROVE  Shape(Text(Made(hs, v, sign)), hs, v, sign)
  <1>1. PICK C : C = Canonical(Plain(hs, v))
    OBVIOUS
  <1>2. C \in Seq(Signed) /\ Len(C) = Len(hs) + 4 /\ CanonicalShape(C, hs, v)
    BY <1>1, CanonicalLines, Zenon
  <1>3. Canonical(Made(hs, v, sign)) = C
    BY <1>1 DEF Canonical, Made, Sign, Plain
  <1>4. Len(hs) \in Nat /\ Signed \subseteq Lines
    BY DEF Pieces, Signed, Lines
  <1>5. C \in Seq(Lines)
    BY <1>2, <1>4
  <1>6. CASE ~sign
    <2>1. Text(Made(hs, v, sign)) = C \o <<>> \o <<>>
      BY <1>3, <1>6 DEF Text, Made, Plain
    <2>2. C \o <<>> \o <<>> = C
      BY <1>5
    <2> QED BY <1>2, <1>5, <1>6, <2>1, <2>2, <1>4 DEF Shape
  <1>7. CASE sign
    <2>1. Key # None /\ C # None
      BY <1>2, FileAssumption, NoneAssumption
    <2>2. Text(Made(hs, v, sign)) = C \o <<Line("signer", Key)>> \o <<Line("signature", C)>>
      BY <1>1, <1>3, <1>7, <2>1 DEF Text, Made, Plain, Sign
    <2>3. Line("signer", Key) \in Lines /\ Line("signature", C) \in Lines
      <3>1. PICK X : X = Values \cup {None, Key} \cup Seq(Signed)
        OBVIOUS
      <3>2. Key \in X /\ C \in X
        BY <1>2, <3>1, Zenon
      <3> QED BY <3>1, <3>2, LineAdded, Zenon DEF Keys
    <2>4. PICK T : T = C \o <<Line("signer", Key)>> \o <<Line("signature", C)>>
      OBVIOUS
    <2>5. /\ T \in Seq(Lines) /\ Len(T) = Len(hs) + 6 /\ \A k \in 1 .. Len(hs) + 4 : T[k] = C[k]
          /\ T[Len(hs) + 5] = Line("signer", Key) /\ T[Len(hs) + 6] = Line("signature", C)
      BY <1>2, <1>4, <1>5, <2>3, <2>4
    <2>6. CanonicalShape(T, hs, v)
      BY <1>2, <1>4, <2>5 DEF CanonicalShape
    <2>7. Len(T) = Len(hs) + 4 + (IF sign THEN 2 ELSE 0)
      BY <1>4, <1>7, <2>5
    <2> QED BY <1>1, <2>2, <2>4, <2>5, <2>6, <2>7, Zenon DEF Shape
  <1> QED BY <1>6, <1>7, Zenon

-----------------------------------------------------------------------------
\* The lines with a number.
Numbered == {"total_size", "chunk_size", "chunks"}

\* t is T, or what is left of it when writing it stopped.
Cut(t, T) ==
    /\ t \in Seq(Lines) /\ Len(t) <= Len(T)
    /\ \A p \in 1 .. Len(t) :
          \/ t[p] = T[p]
          \/ p = Len(t) /\ t[p].key = "unknown"
          \/ p = Len(t) /\ t[p].key = T[p].key /\ T[p].key \in Numbered

\* Whole lines, and one more.
LEMMA LinesAndOne ==
    ASSUME NEW T \in Seq(Lines), NEW k \in 0 .. Len(T) - 1, NEW line \in Lines,
           line.key = "unknown" \/ (line.key = T[k + 1].key /\ T[k + 1].key \in Numbered)
    PROVE  Cut(SubSeq(T, 1, k), T) /\ Cut(Append(SubSeq(T, 1, k), line), T)
  <1>1. PICK s : s = SubSeq(T, 1, k)
    OBVIOUS
  <1>2. s \in Seq(Lines) /\ Len(s) = k /\ \A p \in 1 .. k : s[p] = T[p]
    BY <1>1
  <1>3. PICK t : t = Append(s, line)
    OBVIOUS
  <1>4. /\ t \in Seq(Lines) /\ Len(t) = k + 1 /\ t[k + 1] = line
        /\ \A p \in 1 .. k : t[p] = T[p]
    BY <1>2, <1>3
  <1>5. Cut(s, T)
    BY <1>2 DEF Cut
  <1>6. Len(t) <= Len(T) /\ \A p \in 1 .. Len(t) : p \in 1 .. k \/ p = k + 1
    BY <1>4
  <1>7. Cut(t, T)
    BY <1>4, <1>6, Zenon DEF Cut
  <1> QED BY <1>1, <1>3, <1>5, <1>7, Zenon

\* What the lines say.
Says(T, n, hs, v, sign) ==
    /\ T[1].key = "file_name" /\ T[1].val = "file"
    /\ T[2].key = "total_size" /\ T[2].val = Len(Content[v])
    /\ T[3].key = "chunk_size" /\ T[3].val = ChunkSize
    /\ T[4].key = "chunks" /\ T[4].val = n
    /\ \A k \in 1 .. n : T[k + 4].key = "h" /\ T[k + 4].val = hs[k]
    /\ sign => /\ T[n + 5].key = "signer" /\ T[n + 5].val = Key
               /\ T[n + 6].key = "signature" /\ T[n + 6].val = Canonical(Plain(hs, v))
LEMMA ShapeKeys ==
    ASSUME NEW T, NEW hs, NEW v, NEW sign, Shape(T, hs, v, sign)
    PROVE  Says(T, Len(hs), hs, v, sign)
  <1>1. \A key, val : Line(key, val).key = key /\ Line(key, val).val = val
    BY Zenon DEF Line
  <1>2. /\ T[1].key = "file_name" /\ T[1].val = "file"
        /\ T[2].key = "total_size" /\ T[2].val = Len(Content[v])
        /\ T[3].key = "chunk_size" /\ T[3].val = ChunkSize
        /\ T[4].key = "chunks" /\ T[4].val = Len(hs)
    BY <1>1 DEF Shape, CanonicalShape
  <1>3. \A k \in 1 .. Len(hs) : T[k + 4].key = "h" /\ T[k + 4].val = hs[k]
    BY <1>1 DEF Shape, CanonicalShape
  <1>4. ASSUME sign
        PROVE  /\ T[Len(hs) + 5].key = "signer" /\ T[Len(hs) + 5].val = Key
               /\ T[Len(hs) + 6].key = "signature"
               /\ T[Len(hs) + 6].val = Canonical(Plain(hs, v))
    BY <1>1, <1>4 DEF Shape
  <1> QED BY <1>2, <1>3, <1>4, Zenon DEF Says

\* A write that stopped leaves a part of the text.
LEMMA TornCut ==
    ASSUME NEW hs \in Pieces, NEW v \in Versions, NEW sign, NEW T, Shape(T, hs, v, sign),
           NEW t \in Torn(T) \cup {T}
    PROVE  Cut(t, T)
  <1>0. T \in Seq(Lines)
    BY Zenon DEF Shape
  <1>1. CASE t = T
    BY <1>0, <1>1 DEF Cut
  <1>2. CASE t \in Torn(T)
    <2>1. PICK k \in 0 .. Len(T) - 1 :
             \/ t = SubSeq(T, 1, k)
             \/ t = Append(SubSeq(T, 1, k), Line("unknown", None))
             \/ /\ T[k + 1].key \in Numbered
                /\ \E n \in Shortened(T[k + 1].val) :
                      t = Append(SubSeq(T, 1, k), Line(T[k + 1].key, n))
      <3>1. PICK k \in 0 .. Len(T) - 1 :
               t \in {SubSeq(T, 1, k), Append(SubSeq(T, 1, k), Line("unknown", None))}
                    \cup {Append(SubSeq(T, 1, k), line) :
                            line \in IF T[k + 1].key \in Numbered
                                     THEN {Line(T[k + 1].key, n) : n \in Shortened(T[k + 1].val)}
                                     ELSE {}}
        BY <1>2, Zenon DEF Torn, Numbered
      <3> QED BY <3>1, Zenon
    <2>2. Line("unknown", None) \in Lines /\ Line("unknown", None).key = "unknown"
      BY LineAdded, LineParts, Zenon DEF Keys
    <2>3. CASE t = SubSeq(T, 1, k)
      BY <1>0, <2>2, <2>3, LinesAndOne, Zenon
    <2>4. CASE t = Append(SubSeq(T, 1, k), Line("unknown", None))
      BY <1>0, <2>2, <2>4, LinesAndOne, Zenon
    <2>5. ASSUME T[k + 1].key \in Numbered, NEW n \in Shortened(T[k + 1].val),
                 t = Append(SubSeq(T, 1, k), Line(T[k + 1].key, n))
          PROVE  Cut(t, T)
      <3>1. n \in Values \cup {None, Key} \cup Seq(Signed)
        BY <2>5 DEF Shortened, Values
      <3>2. T[k + 1].key \in Keys
        BY <2>5, Zenon DEF Keys, Numbered
      <3>3. Line(T[k + 1].key, n) \in Lines /\ Line(T[k + 1].key, n).key = T[k + 1].key
        BY <3>1, <3>2, LineAdded, LineParts, Zenon
      <3> QED BY <1>0, <2>5, <3>3, LinesAndOne, Zenon
    <2> QED BY <2>1, <2>3, <2>4, <2>5, Zenon
  <1> QED BY <1>1, <1>2, Zenon

\* The one line with a key.
LEMMA FieldAt ==
    ASSUME NEW t \in Seq(Lines), NEW key, NEW p \in 1 .. Len(t), t[p].key = key,
           \A q \in 1 .. Len(t) : t[q].key = key => q = p
    PROVE  Field(t, key) = t[p].val
  <1>1. PICK at : at = {k \in DOMAIN t : t[k].key = key}
    OBVIOUS
  <1>2. DOMAIN t = 1 .. Len(t) /\ Len(t) \in Nat
    OBVIOUS
  <1>3. at = {p} /\ at \in SUBSET (1 .. Len(t)) /\ at # {}
    BY <1>1, <1>2
  <1>4. Max(at) \in at
    BY <1>2, <1>3, MaxMember, Zenon
  <1>5. Max(at) = p
    BY <1>3, <1>4, Zenon
  <1> QED BY <1>1, <1>3, <1>5, Zenon DEF Field

\* No line with a key.
LEMMA FieldAbsent ==
    ASSUME NEW t \in Seq(Lines), NEW key, \A q \in 1 .. Len(t) : t[q].key # key
    PROVE  Field(t, key) = None
  <1>1. DOMAIN t = 1 .. Len(t)
    OBVIOUS
  <1>2. {k \in DOMAIN t : t[k].key = key} = {}
    BY <1>1
  <1> QED BY <1>2, Zenon DEF Field

-----------------------------------------------------------------------------
\* The recursion that Hashes stands for.
HashesEquation(iter, text) ==
    iter = [s \in SUBSET DOMAIN text |->
              IF s = {} THEN <<>> ELSE Push(iter[s \ {Max(s)}], text[Max(s)])]

\* Hashes is the value of that recursion.
LEMMA HashesUnfolds ==
    ASSUME NEW text
    PROVE  Hashes(text) = (CHOOSE iter : HashesEquation(iter, text))[DOMAIN text]
  BY DEF Hashes, FoldLeft, MapThenFoldSet, HashesEquation

\* The loop over the lines of a text whose hashes are pieces of a file.
LEMMA HashesRun ==
    ASSUME NEW n \in Nat, NEW text \in [1 .. n -> Lines],
           \A k \in 1 .. n : text[k].key = "h" => text[k].val \in Bytes
    PROVE  \E run \in [0 .. n -> Pieces] :
              /\ run[0] = <<>> /\ \A k \in 1 .. n : run[k] = Push(run[k - 1], text[k])
              /\ Hashes(text) = run[n]
  <1>1. PICK V : V = Pieces
    OBVIOUS
  <1>0. <<>> \in V /\ \A v \in V, k \in 1 .. n : Push(v, text[k]) \in V
    BY <1>1 DEF Pieces, Push
  <1>2. PICK step : IsStep(step, V, n) /\ \A v \in V, k \in 1 .. n : step[<<v, k>>] = Push(v, text[k])
    <2> DEFINE f == [p \in V \X (1 .. n) |-> Push(p[1], text[p[2]])]
    <2>1. f \in [V \X (1 .. n) -> V] /\ \A v \in V, k \in 1 .. n : f[<<v, k>>] = Push(v, text[k])
      BY <1>0
    <2> QED BY <2>1, Zenon DEF IsStep
  <1>3. DOMAIN text = 1 .. n
    BY Zenon
  <1>4. PICK iter : IsTable(iter, V, <<>>, step, n)
    BY <1>0, <1>2, SequenceFold, Zenon
  <1>5. \A s \in SUBSET (1 .. n) : s # {} => Max(s) \in 1 .. n
    BY MaxMember, Zenon
  <1>6. \A s \in SUBSET (1 .. n) :
           iter[s] = IF s = {} THEN <<>> ELSE Push(iter[s \ {Max(s)}], text[Max(s)])
    BY <1>2, <1>4, <1>5, Zenon DEF IsTable
  <1>7. HashesEquation(iter, text)
    BY <1>3, <1>4, <1>6, Zenon DEF HashesEquation, IsTable
  <1>8. PICK c : c = (CHOOSE x : HashesEquation(x, text)) /\ HashesEquation(c, text)
    BY <1>7, Zenon
  <1>9. \A s \in SUBSET (1 .. n) :
           c[s] = IF s = {} THEN <<>> ELSE Push(c[s \ {Max(s)}], text[Max(s)])
    BY <1>3, <1>8, Zenon DEF HashesEquation
  <1>10. Follows(c, V, <<>>, step, n)
    BY <1>2, <1>5, <1>9, Zenon DEF Follows
  <1>11. PICK run : Unrolls(run, c, V, <<>>, step, n)
    BY <1>0, <1>2, <1>10, FoldRun, Zenon
  <1>12. \A k \in 1 .. n : k - 1 \in 0 .. n
    OBVIOUS
  <1>13. \A k \in 1 .. n : run[k] = Push(run[k - 1], text[k])
    BY <1>2, <1>11, <1>12, Zenon DEF IsRun, Unrolls
  <1>14. Hashes(text) = c[1 .. n]
    BY <1>3, <1>8, HashesUnfolds, Zenon
  <1> QED BY <1>1, <1>11, <1>13, <1>14, Zenon DEF IsRun, Unrolls

\* The number of hashes in the first k lines of the manifest of a file of n pieces.
Listed(k, n) == IF k <= 4 THEN 0 ELSE IF k <= n + 4 THEN k - 4 ELSE n

\* The reader finds the hashes of the lines that are left.
LEMMA HashesOf ==
    ASSUME NEW hs \in Pieces, NEW v \in Versions, NEW sign \in BOOLEAN, NEW T,
           Shape(T, hs, v, sign), NEW t, Cut(t, T), \A p \in 1 .. Len(t) : t[p].key # "unknown"
    PROVE  Hashes(t) = SubSeq(hs, 1, Listed(Len(t), Len(hs)))
  <1>1. PICK n \in Nat : n = Len(hs)
    BY DEF Pieces
  <1>2. PICK l \in Nat : l = Len(t) /\ t \in [1 .. l -> Lines] /\ l <= Len(T)
    BY DEF Cut, Shape
  <1>3. /\ T[1].key # "h" /\ T[2].key # "h" /\ T[3].key # "h" /\ T[4].key # "h"
        /\ \A k \in 1 .. n : /\ T[k + 4].key = "h" /\ T[k + 4].val = hs[k]
                              /\ T[k + 4].key \notin Numbered
        /\ sign => T[n + 5].key = "signer" /\ T[n + 6].key = "signature"
    <2>1. Says(T, n, hs, v, sign)
      BY <1>1, ShapeKeys, Zenon
    <2> QED BY <2>1, Zenon DEF Says, Numbered
  <1>4. Len(T) = n + 4 + (IF sign THEN 2 ELSE 0)
    BY <1>1, Zenon DEF Shape
  <1>5. ASSUME NEW p \in 1 .. l
        PROVE  /\ p <= 4 \/ n + 4 < p => t[p].key # "h"
               /\ 4 < p /\ p <= n + 4 => t[p].key = "h" /\ t[p].val = hs[p - 4]
    <2>1. t[p] = T[p] \/ (t[p].key = T[p].key /\ T[p].key \in Numbered)
      BY <1>2, Zenon DEF Cut
    <2>2. CASE p <= 4
      <3>1. p \in {1, 2, 3, 4}
        BY <2>2
      <3>2. T[p].key # "h"
        BY <1>3, <3>1, Zenon
      <3> QED BY <2>1, <2>2, <3>2
    <2>3. CASE 4 < p /\ p <= n + 4
      <3>1. PICK k \in 1 .. n : p = k + 4 /\ p - 4 = k
        BY <2>3
      <3> QED BY <1>3, <2>1, <2>3, <3>1
    <2>4. CASE n + 4 < p
      <3>1. sign /\ p \in {n + 5, n + 6}
        BY <1>2, <1>4, <2>4
      <3>2. T[p].key # "h"
        BY <1>3, <3>1, Zenon
      <3> QED BY <2>1, <2>4, <3>2
    <2> QED BY <2>2, <2>3, <2>4
  <1>6. \A k \in 1 .. l : t[k].key = "h" => t[k].val \in Bytes
    <2>1. ASSUME NEW k \in 1 .. l, t[k].key = "h" PROVE t[k].val \in Bytes
      <3>1. 4 < k /\ k <= n + 4
        BY <1>5, <2>1
      <3>2. k - 4 \in 1 .. n
        BY <3>1
      <3>3. hs[k - 4] \in Bytes
        BY <1>1, <3>2 DEF Pieces
      <3> QED BY <1>5, <3>1, <3>3
    <2> QED BY <2>1
  <1>7. PICK run \in [0 .. l -> Pieces] :
              /\ run[0] = <<>> /\ \A k \in 1 .. l : run[k] = Push(run[k - 1], t[k])
              /\ Hashes(t) = run[l]
    BY <1>2, <1>6, HashesRun, Zenon
  <1>8. PICK U : U = {k \in 0 .. l : run[k] = SubSeq(hs, 1, Listed(k, n))}
    OBVIOUS
  <1>9. 0 \in U
    <2>1. SubSeq(hs, 1, 0) = <<>>
      BY DEF Pieces
    <2>2. Listed(0, n) = 0 /\ 0 \in 0 .. l
      BY DEF Listed
    <2>3. run[0] = SubSeq(hs, 1, Listed(0, n))
      BY <1>7, <2>1, <2>2, Zenon
    <2> QED BY <1>8, <2>2, <2>3, Zenon
  <1>10. ASSUME NEW k \in 1 .. l, k - 1 \in U PROVE k \in U
    <2>1. run[k - 1] = SubSeq(hs, 1, Listed(k - 1, n)) /\ run[k] = Push(run[k - 1], t[k])
      BY <1>7, <1>8, <1>10, Zenon
    <2>2. CASE k <= 4 \/ n + 4 < k
      <3>1. Listed(k - 1, n) = Listed(k, n)
        BY <2>2 DEF Listed
      <3>2. t[k].key # "h"
        BY <1>5, <2>2, Zenon
      <3>3. run[k] = SubSeq(hs, 1, Listed(k, n))
        BY <2>1, <3>1, <3>2, Zenon DEF Push
      <3> QED BY <1>8, <3>3
    <2>3. CASE 4 < k /\ k <= n + 4
      <3>1. PICK j \in 1 .. n : j = k - 4 /\ Listed(k, n) = j /\ Listed(k - 1, n) = j - 1
        BY <2>3 DEF Listed
      <3>2. t[k].key = "h" /\ t[k].val = hs[j]
        BY <1>5, <2>3, <3>1, Zenon
      <3>3. run[k] = Append(SubSeq(hs, 1, j - 1), hs[j])
        BY <2>1, <3>1, <3>2, Zenon DEF Push
      <3>4. SubSeq(hs, 1, j) = Append(SubSeq(hs, 1, j - 1), hs[j])
        BY <1>1 DEF Pieces
      <3>5. run[k] = SubSeq(hs, 1, Listed(k, n))
        BY <3>1, <3>3, <3>4, Zenon
      <3> QED BY <1>8, <3>5
    <2> QED BY <2>2, <2>3
  <1>11. \A k \in 0 .. l : k \in U
    BY <1>9, <1>10, LoopInduction, Zenon
  <1>12. l \in 0 .. l
    OBVIOUS
  <1> QED BY <1>1, <1>2, <1>7, <1>8, <1>11, <1>12, Zenon

\* The places of the lines.
LEMMA Places ==
    ASSUME NEW n \in Nat, NEW sign \in BOOLEAN, NEW l,
           l = n + 4 + (IF sign THEN 2 ELSE 0), NEW p \in 1 .. l
    PROVE  \/ p = 1 \/ p = 2 \/ p = 3 \/ p = 4 \/ \E k \in 1 .. n : p = k + 4
           \/ sign /\ (p = n + 5 \/ p = n + 6)
  <1>1. CASE p <= 4
    BY <1>1
  <1>2. CASE 4 < p /\ p <= n + 4
    <2>1. p - 4 \in 1 .. n /\ p = (p - 4) + 4
      BY <1>2
    <2> QED BY <2>1
  <1>3. CASE n + 4 < p
    BY <1>3
  <1> QED BY <1>1, <1>2, <1>3

\* A complete text is read as the manifest it was written from.
LEMMA ReadWhole ==
    ASSUME NEW hs \in Pieces, NEW v \in Versions, NEW sign \in BOOLEAN, NEW T,
           Shape(T, hs, v, sign)
    PROVE  Readable(T) /\ ReadManifest(T) = Made(hs, v, sign)
  <1>1. PICK n \in Nat : n = Len(hs)
    BY DEF Pieces
  <1>0. Says(T, n, hs, v, sign)
    BY <1>1, ShapeKeys, Zenon
  <1>2. T \in Seq(Lines) /\ Len(T) = n + 4 + (IF sign THEN 2 ELSE 0)
    BY <1>1, Zenon DEF Shape
  <1>3. \A p \in 1 .. Len(T) :
           \/ p = 1 /\ T[p].key = "file_name"
           \/ p = 2 /\ T[p].key = "total_size"
           \/ p = 3 /\ T[p].key = "chunk_size"
           \/ p = 4 /\ T[p].key = "chunks"
           \/ T[p].key = "h"
           \/ sign /\ p = n + 5 /\ T[p].key = "signer"
           \/ sign /\ p = n + 6 /\ T[p].key = "signature"
    <2> SUFFICES ASSUME NEW p \in 1 .. Len(T)
                 PROVE  \/ p = 1 /\ T[p].key = "file_name"
                        \/ p = 2 /\ T[p].key = "total_size"
                        \/ p = 3 /\ T[p].key = "chunk_size"
                        \/ p = 4 /\ T[p].key = "chunks"
                        \/ T[p].key = "h"
                        \/ sign /\ p = n + 5 /\ T[p].key = "signer"
                        \/ sign /\ p = n + 6 /\ T[p].key = "signature"
      BY Zenon
    <2>1. \/ p = 1 \/ p = 2 \/ p = 3 \/ p = 4 \/ \E k \in 1 .. n : p = k + 4
          \/ sign /\ (p = n + 5 \/ p = n + 6)
      BY <1>2, Places, Zenon
    <2> QED BY <1>0, <2>1, Zenon DEF Says
  <1>4. /\ 1 \in 1 .. Len(T) /\ 2 \in 1 .. Len(T) /\ 3 \in 1 .. Len(T) /\ 4 \in 1 .. Len(T)
        /\ sign => n + 5 \in 1 .. Len(T) /\ n + 6 \in 1 .. Len(T)
    BY <1>2
  <1>5. /\ Field(T, "file_name") = "file" /\ Field(T, "total_size") = Len(Content[v])
        /\ Field(T, "chunk_size") = ChunkSize /\ Field(T, "chunks") = n
    <2>1. /\ T[1].key = "file_name" /\ T[1].val = "file"
          /\ T[2].key = "total_size" /\ T[2].val = Len(Content[v])
          /\ T[3].key = "chunk_size" /\ T[3].val = ChunkSize
          /\ T[4].key = "chunks" /\ T[4].val = n
      BY <1>0, Zenon DEF Says
    <2>2. \A q \in 1 .. Len(T) : /\ T[q].key = "file_name" => q = 1
                                 /\ T[q].key = "total_size" => q = 2
                                 /\ T[q].key = "chunk_size" => q = 3
                                 /\ T[q].key = "chunks" => q = 4
      BY <1>3, Zenon
    <2>3. Field(T, "file_name") = T[1].val
      BY <1>2, <1>4, <2>1, <2>2, FieldAt, Zenon
    <2>4. Field(T, "total_size") = T[2].val
      BY <1>2, <1>4, <2>1, <2>2, FieldAt, Zenon
    <2>5. Field(T, "chunk_size") = T[3].val
      BY <1>2, <1>4, <2>1, <2>2, FieldAt, Zenon
    <2>6. Field(T, "chunks") = T[4].val
      BY <1>2, <1>4, <2>1, <2>2, FieldAt, Zenon
    <2> QED BY <2>1, <2>3, <2>4, <2>5, <2>6, Zenon
  <1>6. ASSUME sign
        PROVE  Field(T, "signer") = Key /\ Field(T, "signature") = Canonical(Plain(hs, v))
    <2>1. /\ T[n + 5].key = "signer" /\ T[n + 5].val = Key
          /\ T[n + 6].key = "signature" /\ T[n + 6].val = Canonical(Plain(hs, v))
      BY <1>0, <1>6, Zenon DEF Says
    <2>2. \A q \in 1 .. Len(T) : /\ T[q].key = "signer" => q = n + 5
                                 /\ T[q].key = "signature" => q = n + 6
      BY <1>3, Zenon
    <2>3. Field(T, "signer") = T[n + 5].val
      BY <1>2, <1>4, <1>6, <2>1, <2>2, FieldAt, Zenon
    <2>4. Field(T, "signature") = T[n + 6].val
      BY <1>2, <1>4, <1>6, <2>1, <2>2, FieldAt, Zenon
    <2> QED BY <2>1, <2>3, <2>4, Zenon
  <1>7. ASSUME ~sign
        PROVE  Field(T, "signer") = None /\ Field(T, "signature") = None
    <2>1. \A q \in 1 .. Len(T) : T[q].key # "signer" /\ T[q].key # "signature"
      BY <1>3, <1>7, Zenon
    <2> QED BY <1>2, <2>1, FieldAbsent, Zenon
  <1>8. Hashes(T) = hs
    <2>1. Cut(T, T)
      BY <1>2 DEF Cut
    <2>2. \A p \in 1 .. Len(T) : T[p].key # "unknown"
      BY <1>3, Zenon
    <2>3. Hashes(T) = SubSeq(hs, 1, Listed(Len(T), n))
      BY <1>1, <2>1, <2>2, HashesOf, Zenon
    <2>4. Listed(Len(T), n) = n
      BY <1>2 DEF Listed
    <2>5. SubSeq(hs, 1, n) = hs
      BY <1>1 DEF Pieces
    <2> QED BY <2>3, <2>4, <2>5, Zenon
  <1>9. Readable(T)
    <2>1. "file" # None /\ Len(Content[v]) # None /\ ChunkSize # None
      <3>1. Len(Content[v]) \in Nat /\ ChunkSize \in Nat
        BY FileAssumption
      <3> QED BY <3>1, NoneAssumption, Zenon DEF Values
    <2>2. DOMAIN T = 1 .. Len(T)
      BY <1>2
    <2>3. \A k \in DOMAIN T : T[k].key # "unknown"
      BY <1>3, <2>2, Zenon
    <2> QED BY <1>1, <1>5, <1>8, <2>1, <2>3, Zenon DEF Readable
  <1>10. CASE sign
    <2>1. Made(hs, v, sign) = Sign(Plain(hs, v), Key)
      BY <1>10, Zenon DEF Made
    <2> QED BY <1>5, <1>6, <1>8, <1>9, <1>10, <2>1 DEF ReadManifest, Sign, Plain
  <1>11. CASE ~sign
    <2>1. Made(hs, v, sign) = Plain(hs, v)
      BY <1>11, Zenon DEF Made
    <2> QED BY <1>5, <1>7, <1>8, <1>9, <1>11, <2>1, Zenon DEF ReadManifest, Plain
  <1> QED BY <1>10, <1>11, Zenon

\* sign_manifest_inplace signs what verify_manifest_signature checks.
LEMMA MadeIsSigned ==
    ASSUME NEW hs \in Pieces, NEW v \in Versions, NEW sign \in BOOLEAN
    PROVE  SignatureOk(Made(hs, v, sign)) /\ (sign => Made(hs, v, sign).signer = Key)
           /\ Made(hs, v, sign).hashes = hs /\ Made(hs, v, sign).total = Len(Content[v])
  <1>1. CASE sign
    <2>1. PICK m : m = Made(hs, v, sign)
      OBVIOUS
    <2>2. m = [Plain(hs, v) EXCEPT !.signer = Key, !.signature = Canonical(Plain(hs, v))]
      BY <1>1, <2>1, Zenon DEF Made, Sign
    <2>3. /\ m.name = "file" /\ m.total = Len(Content[v]) /\ m.size = ChunkSize /\ m.hashes = hs
          /\ m.signer = Key /\ m.signature = Canonical(Plain(hs, v))
      BY <2>2 DEF Plain
    <2>4. Canonical(m) = Canonical(Plain(hs, v))
      BY <2>3 DEF Canonical, Plain
    <2>5. SignatureOk(m)
      BY <2>3, <2>4, FileAssumption, Zenon DEF SignatureOk
    <2> QED BY <2>1, <2>3, <2>5, Zenon
  <1>2. CASE ~sign
    BY <1>2, Zenon DEF Made, Plain, SignatureOk
  <1> QED BY <1>1, <1>2, Zenon

\* m gives the size of version v and the first of the pieces hs.
Lists(m, hs, v) ==
    m.total = Len(Content[v]) /\ \E j \in 0 .. Len(hs) : m.hashes = SubSeq(hs, 1, j)

\* What is left of a text is read, if at all, with the size of the whole file and
\* the first of its pieces.
LEMMA ReadCut ==
    ASSUME NEW hs \in Pieces, NEW v \in Versions, NEW sign \in BOOLEAN, NEW T,
           Shape(T, hs, v, sign), NEW t, Cut(t, T), Readable(t)
    PROVE  Lists(ReadManifest(t), hs, v)
  <1>1. PICK n \in Nat : n = Len(hs)
    BY DEF Pieces
  <1>0. Says(T, n, hs, v, sign)
    BY <1>1, ShapeKeys, Zenon
  <1>2. T \in Seq(Lines) /\ Len(T) = n + 4 + (IF sign THEN 2 ELSE 0) /\ Len(T) \in Nat
    BY <1>1 DEF Shape
  <1>3. t \in Seq(Lines) /\ Len(t) \in Nat /\ Len(t) <= Len(T) /\ DOMAIN t = 1 .. Len(t)
    BY DEF Cut
  <1>4. \A p \in 1 .. Len(t) : t[p].key # "unknown"
    BY <1>3, Zenon DEF Readable
  <1>5. Hashes(t) = SubSeq(hs, 1, Listed(Len(t), n)) /\ Listed(Len(t), n) \in 0 .. n
    <2>1. Listed(Len(t), n) \in 0 .. n
      BY <1>3 DEF Listed
    <2> QED BY <1>1, <1>4, <2>1, HashesOf, Zenon
  <1>6. \A p \in 1 .. Len(t) : p \in 1 .. Len(T) /\ t[p].key = T[p].key
    <2>1. \A p \in 1 .. Len(t) : p \in 1 .. Len(T)
      BY <1>2, <1>3
    <2> QED BY <1>4, <2>1, Zenon DEF Cut
  <1>7. \A p \in 1 .. Len(t) : /\ t[p].key = "total_size" => p = 2
                               /\ t[p].key = "chunk_size" => p = 3
    <2> SUFFICES ASSUME NEW p \in 1 .. Len(T)
                 PROVE  /\ T[p].key = "total_size" => p = 2
                        /\ T[p].key = "chunk_size" => p = 3
      BY <1>6, Zenon
    <2>1. \/ p = 1 \/ p = 2 \/ p = 3 \/ p = 4 \/ \E k \in 1 .. n : p = k + 4
          \/ sign /\ (p = n + 5 \/ p = n + 6)
      BY <1>2, Places, Zenon
    <2> QED BY <1>0, <2>1, Zenon DEF Says
  <1>8. 3 \in 1 .. Len(t)
    <2>1. Field(t, "chunk_size") # None
      BY Zenon DEF Readable
    <2>2. PICK p \in 1 .. Len(t) : t[p].key = "chunk_size"
      BY <1>3, <2>1, FieldAbsent, Zenon
    <2> QED BY <1>7, <2>2, Zenon
  <1>9. 2 \in 1 .. Len(t) /\ 2 # Len(t)
    BY <1>3, <1>8
  <1>10. t[2] = T[2]
    BY <1>4, <1>9, Zenon DEF Cut
  <1>11. Field(t, "total_size") = Len(Content[v])
    <2>1. t[2].key = "total_size" /\ t[2].val = Len(Content[v])
      BY <1>0, <1>10, Zenon DEF Says
    <2> QED BY <1>3, <1>7, <1>9, <2>1, FieldAt, Zenon
  <1>12. ReadManifest(t).total = Field(t, "total_size") /\ ReadManifest(t).hashes = Hashes(t)
    BY Zenon DEF ReadManifest
  <1> QED BY <1>1, <1>5, <1>11, <1>12, Zenon DEF Lists

-----------------------------------------------------------------------------
\* hs is version v cut into pieces.
Whole(hs, v) == hs \in Pieces /\ v \in Versions /\ FlattenSeq(hs) = Content[v]

\* The chunk files hold the pieces hs.
Stored(hs) == \A k \in 1 .. Len(hs) : chunk[k] = hs[k]

\* The manifest file is what the upload of one version has written, or a part.
ManifestInv ==
    manifest # None =>
        \E hs \in Pieces, sign \in BOOLEAN :
            /\ Whole(hs, described)
            /\ manifest \in Torn(Text(Made(hs, described, sign)))
                              \cup {Text(Made(hs, described, sign))}

\* What has been read is stored, is being stored or is still to be stored.
UploadInv ==
    /\ chunk \in [1 .. MaxChunks -> Bytes \cup {None}]
    /\ up \in [pc : {"idle", "chunks", "manifest"}, of : Versions \cup {None}, rest : Bytes,
              sign : BOOLEAN, next : Bytes, hashes : Pieces]
    /\ up.pc # "idle" =>
          /\ latest = None
          /\ up.of \in Versions
          /\ FlattenSeq(up.hashes) \o (up.next \o up.rest) = Content[up.of]
          /\ Len(up.hashes) <= Len(FlattenSeq(up.hashes))
          /\ Stored(up.hashes)
          /\ up.next # <<>> => /\ chunk[Len(up.hashes) + 1] \in Bytes
                               /\ Len(chunk[Len(up.hashes) + 1]) < Len(up.next)
    /\ up.pc = "manifest" => up.next = <<>> /\ up.rest = <<>> /\ described = up.of

\* After a complete upload the directory holds its version.
CompleteInv ==
    latest # None =>
        /\ latest.of = described /\ latest.signed \in BOOLEAN
        /\ \E hs \in Pieces : /\ Whole(hs, latest.of) /\ Stored(hs)
                              /\ manifest = Text(Made(hs, latest.of, latest.signed))

\* A download has read the beginning of a version, and has counted or copied the
\* first of its pieces.
DownloadInv ==
    /\ down = [pc |-> down.pc, m |-> down.m, of |-> down.of, next |-> down.next,
               total |-> down.total, quiet |-> down.quiet]
    /\ down.pc \in {"idle", "verify", "copy", "ok", "failed"} /\ down.quiet \in BOOLEAN
    /\ down.pc \in {"verify", "copy", "ok"} =>
          /\ down.of \in Versions /\ down.m.hashes \in Pieces
          /\ down.next \in 1 .. Len(down.m.hashes) + 1
          /\ down.m.total = Len(Content[down.of])
          /\ \E rest \in Bytes : Content[down.of] = FlattenSeq(down.m.hashes) \o rest
    /\ down.pc = "verify" => down.total = Len(Begun(down.m.hashes, down.next - 1))
    /\ down.pc \in {"copy", "ok"} => /\ FlattenSeq(down.m.hashes) = Content[down.of]
                                     /\ output = Begun(down.m.hashes, down.next - 1)
    /\ down.pc = "ok" => down.next = Len(down.m.hashes) + 1

\* A download that began after a complete upload, and before the next one, has
\* read that upload's manifest and has not failed.
QuietInv ==
    down.quiet => /\ latest # None /\ down.pc \in {"verify", "copy", "ok"}
                  /\ down.of = latest.of /\ down.m = ReadManifest(manifest)

FileInv == ManifestInv /\ UploadInv /\ CompleteInv /\ DownloadInv /\ QuietInv

-----------------------------------------------------------------------------
\* No version has more bytes than there may be chunks.
LEMMA MaxChunksBound ==
    ASSUME NEW v \in Versions
    PROVE  MaxChunks \in Nat /\ Len(Content[v]) <= MaxChunks
  <1>1. PICK f : f = [w \in Versions |-> Len(Content[w])]
    OBVIOUS
  <1>2. \A w \in Versions : f[w] = Len(Content[w]) /\ f[w] \in Nat
    BY <1>1, FileAssumption
  <1>3. PICK x \in Versions : \A w \in Versions : f[w] <= f[x]
    BY <1>2, FileAssumption, GreatestValue, Zenon
  <1>4. \E n \in {Len(Content[w]) : w \in Versions} : \A w \in Versions : Len(Content[w]) <= n
    BY <1>2, <1>3, Zenon
  <1>5. /\ MaxChunks \in {Len(Content[w]) : w \in Versions}
        /\ \A w \in Versions : Len(Content[w]) <= MaxChunks
    BY <1>4, Zenon DEF MaxChunks
  <1> QED BY <1>2, <1>5

\* A file in two parts.
LEMMA TwoParts ==
    ASSUME NEW r \in Bytes, NEW n \in 0 .. Len(r)
    PROVE  /\ SubSeq(r, 1, n) \in Bytes /\ Len(SubSeq(r, 1, n)) = n
           /\ SubSeq(r, n + 1, Len(r)) \in Bytes
           /\ SubSeq(r, 1, n) \o SubSeq(r, n + 1, Len(r)) = r
  <1>0. r \in Seq(STRING) /\ Len(r) \in Nat /\ n \in Nat
    BY DEF Bytes
  <1>1. PICK a, b : a = SubSeq(r, 1, n) /\ b = SubSeq(r, n + 1, Len(r))
    OBVIOUS
  <1>2. /\ a \in Seq(STRING) /\ Len(a) = n /\ \A k \in 1 .. n : a[k] = r[k]
    BY <1>1 DEF Bytes
  <1>3. /\ b \in Seq(STRING) /\ Len(b) = Len(r) - n
        /\ \A k \in 1 .. Len(r) - n : b[k] = r[n + k]
    BY <1>1 DEF Bytes
  <1>4. a \o b = r
    <2>1. a \o b \in Seq(STRING) /\ Len(a \o b) = Len(r)
      BY <1>2, <1>3 DEF Bytes
    <2>2. ASSUME NEW k \in 1 .. Len(r) PROVE (a \o b)[k] = r[k]
      <3>1. CASE k <= n
        BY <1>2, <1>3, <3>1 DEF Bytes
      <3>2. CASE n < k
        <4>1. PICK j \in 1 .. Len(r) - n : j = k - n /\ n + j = k
          BY <1>0, <3>2
        <4>2. (a \o b)[k] = b[j]
          BY <1>0, <1>2, <1>3, <3>2, <4>1
        <4>3. b[j] = r[k]
          BY <1>3, <4>1, Zenon
        <4> QED BY <4>2, <4>3, Zenon
      <3>3. k <= n \/ n < k
        BY <1>0
      <3> QED BY <3>1, <3>2, <3>3, Zenon
    <2>3. PICK c : c = a \o b
      OBVIOUS
    <2>4. c \in Seq(STRING) /\ Len(c) = Len(r) /\ \A k \in 1 .. Len(c) : c[k] = r[k]
      BY <2>1, <2>2, <2>3, Zenon
    <2>5. c = r
      BY <1>0, <2>4
    <2> QED BY <2>3, <2>5, Zenon
  <1> QED BY <1>1, <1>2, <1>3, <1>4 DEF Bytes

\* A file and nothing.
LEMMA NoBytes ==
    ASSUME NEW r \in Bytes
    PROVE  /\ <<>> \in Bytes /\ <<>> \o r = r /\ r \o <<>> = r
           /\ Len(r) \in Nat /\ Len(r) = 0 <=> r = <<>>
  BY DEF Bytes

\* At the start.
LEMMA FileInit == Init => FileInv
  <1> SUFFICES ASSUME Init PROVE FileInv
    OBVIOUS
  <1>1. <<>> \in Bytes /\ <<>> \in Pieces
    BY DEF Bytes, Pieces
  <1>2. UploadInv
    BY <1>1, Zenon DEF Init, UploadInv, IdleUpload
  <1>3. DownloadInv /\ QuietInv
    BY Zenon DEF Init, DownloadInv, QuietInv, IdleDownload
  <1>4. ManifestInv /\ CompleteInv
    BY Zenon DEF Init, ManifestInv, CompleteInv
  <1> QED BY <1>2, <1>3, <1>4 DEF FileInv

\* An upload that is under way rules out what is said of a complete one.
LEMMA Underway ==
    ASSUME FileInv, up.pc # "idle"
    PROVE  latest = None /\ ~down.quiet
  BY Zenon DEF FileInv, UploadInv, QuietInv, DownloadInv

\* An upload begins.
LEMMA StartStep ==
    ASSUME FileInv, NEW v \in Versions, NEW sign \in BOOLEAN, StartUpload(v, sign)
    PROVE  FileInv'
  <1>1. /\ up'.pc = "chunks" /\ up'.of = v /\ up'.rest = Content[v] /\ up'.sign = sign
        /\ up'.next = <<>> /\ up'.hashes = <<>>
        /\ up' = [pc |-> "chunks", of |-> v, rest |-> Content[v], sign |-> sign, next |-> <<>>,
                  hashes |-> <<>>]
    BY DEF StartUpload, IdleUpload
  <1>2. <<>> \in Bytes /\ <<>> \in Pieces /\ Content[v] \in Bytes
    BY FileAssumption DEF Bytes, Pieces
  <1>3. FlattenSeq(<<>>) = <<>>
    BY <1>2, FlattenAppend, Zenon
  <1>4. UploadInv'
    <2>1. up' \in [pc : {"idle", "chunks", "manifest"}, of : Versions \cup {None}, rest : Bytes,
                  sign : BOOLEAN, next : Bytes, hashes : Pieces]
      BY <1>1, <1>2, Zenon
    <2>2. latest' = None /\ chunk' = chunk
      BY Zenon DEF StartUpload
    <2>3. FlattenSeq(up'.hashes) \o (up'.next \o up'.rest) = Content[up'.of]
      BY <1>1, <1>2, <1>3, NoBytes, Zenon
    <2>4. Len(<<>>) <= Len(FlattenSeq(<<>>)) /\ \A k \in 1 .. Len(<<>>) : chunk[k] = <<>>[k]
      BY <1>3
    <2> QED BY <1>1, <2>1, <2>2, <2>3, <2>4, Zenon DEF FileInv, UploadInv, Stored
  <1>5. DownloadInv' /\ QuietInv'
    <2>1. down' = [down EXCEPT !.quiet = FALSE] /\ output' = output
      BY Zenon DEF StartUpload
    <2>2. /\ down'.pc = down.pc /\ down'.m = down.m /\ down'.of = down.of /\ down'.next = down.next
          /\ down'.total = down.total /\ down'.quiet = FALSE
          /\ down' = [pc |-> down'.pc, m |-> down'.m, of |-> down'.of, next |-> down'.next,
                      total |-> down'.total, quiet |-> down'.quiet]
      BY <2>1 DEF FileInv, DownloadInv
    <2> QED BY <2>1, <2>2, Zenon DEF FileInv, DownloadInv, QuietInv
  <1>6. ManifestInv' /\ CompleteInv'
    BY Zenon DEF FileInv, StartUpload, ManifestInv, CompleteInv
  <1> QED BY <1>4, <1>5, <1>6, Zenon DEF FileInv

\* A chunk file is created and written in part.
LEMMA CreateStep ==
    ASSUME FileInv, NEW n \in 1 .. ChunkSize, NEW part \in 0 .. ChunkSize - 1, CreateChunk(n, part)
    PROVE  FileInv'
  <1>0. ChunkSize \in Nat
    BY FileAssumption
  <1>1. /\ up.pc = "chunks" /\ up.next = <<>> /\ n <= Len(up.rest) /\ part < n
        /\ up' = [up EXCEPT !.next = SubSeq(up.rest, 1, n),
                            !.rest = SubSeq(up.rest, n + 1, Len(up.rest))]
        /\ chunk' = [chunk EXCEPT ![Len(up.hashes) + 1] = SubSeq(up.rest, 1, part)]
        /\ UNCHANGED <<manifest, down, output, latest, described, uploads>>
    BY Zenon DEF CreateChunk
  <1>2. PICK hs \in Pieces, rest \in Bytes : hs = up.hashes /\ rest = up.rest
    BY Zenon DEF FileInv, UploadInv
  <1>3. n \in 0 .. Len(rest) /\ part \in 0 .. Len(rest) /\ Len(rest) \in Nat
    BY <1>0, <1>1, <1>2 DEF Bytes
  <1>4. PICK next \in Bytes, left \in Bytes, begun \in Bytes :
           /\ next = SubSeq(rest, 1, n) /\ left = SubSeq(rest, n + 1, Len(rest))
           /\ begun = SubSeq(rest, 1, part)
           /\ Len(next) = n /\ next \o left = rest /\ Len(begun) = part
    <2>1. /\ SubSeq(rest, 1, n) \in Bytes /\ Len(SubSeq(rest, 1, n)) = n
          /\ SubSeq(rest, n + 1, Len(rest)) \in Bytes
          /\ SubSeq(rest, 1, n) \o SubSeq(rest, n + 1, Len(rest)) = rest
      BY <1>3, TwoParts
    <2>2. SubSeq(rest, 1, part) \in Bytes /\ Len(SubSeq(rest, 1, part)) = part
      BY <1>3, TwoParts
    <2> QED BY <2>1, <2>2, Zenon
  <1>5. /\ up'.pc = "chunks" /\ up'.of = up.of /\ up'.rest = left /\ up'.sign = up.sign
        /\ up'.next = next /\ up'.hashes = hs
        /\ up' \in [pc : {"idle", "chunks", "manifest"}, of : Versions \cup {None}, rest : Bytes,
                   sign : BOOLEAN, next : Bytes, hashes : Pieces]
    BY <1>1, <1>2, <1>4 DEF FileInv, UploadInv
  <1>6. /\ up.of \in Versions /\ FlattenSeq(hs) \o (<<>> \o rest) = Content[up.of]
        /\ Len(hs) <= Len(FlattenSeq(hs)) /\ Stored(hs) /\ latest = None
    BY <1>1, <1>2, Zenon DEF FileInv, UploadInv
  <1>7. FlattenSeq(hs) \in Bytes
    BY <1>4, FlattenAppend, Zenon
  <1>8. Len(hs) + 1 \in 1 .. MaxChunks /\ Len(hs) \in Nat
    <2>1. Len(Content[up.of]) = Len(FlattenSeq(hs)) + Len(rest)
      <3>1. FlattenSeq(hs) \o rest = Content[up.of]
        BY <1>6, NoBytes, Zenon
      <3> QED BY <1>7, <3>1, JoinedLen, Zenon
    <2>2. MaxChunks \in Nat /\ Len(Content[up.of]) <= MaxChunks
      BY <1>6, MaxChunksBound, Zenon
    <2>3. Len(FlattenSeq(hs)) \in Nat /\ Len(hs) \in Nat
      BY <1>7 DEF Bytes, Pieces
    <2>4. 0 < Len(rest)
      BY <1>0, <1>1, <1>2, <1>3
    <2> QED BY <1>3, <1>6, <2>1, <2>2, <2>3, <2>4
  <1>9. /\ chunk' \in [1 .. MaxChunks -> Bytes \cup {None}]
        /\ chunk'[Len(hs) + 1] = begun /\ \A k \in 1 .. Len(hs) : chunk'[k] = chunk[k]
    <2>1. chunk \in [1 .. MaxChunks -> Bytes \cup {None}]
      BY Zenon DEF FileInv, UploadInv
    <2>2. chunk' = [chunk EXCEPT ![Len(hs) + 1] = begun]
      BY <1>1, <1>2, <1>4, Zenon
    <2>3. \A k \in 1 .. Len(hs) : k \in 1 .. MaxChunks /\ k # Len(hs) + 1
      <3>1. MaxChunks \in Nat
        BY <1>6, MaxChunksBound, Zenon
      <3> QED BY <1>8, <3>1
    <2> QED BY <1>8, <2>1, <2>2, <2>3, Zenon
  <1>10. UploadInv'
    <2>1. FlattenSeq(hs) \o (next \o left) = Content[up.of]
      BY <1>4, <1>6, NoBytes, Zenon
    <2>2. Stored(hs)'
      BY <1>6, <1>9, Zenon DEF Stored
    <2>3. Len(begun) < Len(next)
      BY <1>1, <1>4, Zenon
    <2> QED BY <1>1, <1>5, <1>6, <1>9, <2>1, <2>2, <2>3, Zenon DEF UploadInv
  <1>11. ~down.quiet
    BY <1>1, Underway, Zenon
  <1>12. DownloadInv' /\ QuietInv' /\ ManifestInv' /\ CompleteInv'
    BY <1>1, <1>6, <1>11, Zenon DEF FileInv, DownloadInv, QuietInv, ManifestInv, CompleteInv
  <1> QED BY <1>10, <1>12, Zenon DEF FileInv

\* A chunk file is complete.
LEMMA FinishStep ==
    ASSUME FileInv, FinishChunk
    PROVE  FileInv'
  <1>1. /\ up.pc = "chunks" /\ up.next # <<>>
        /\ chunk' = [chunk EXCEPT ![Len(up.hashes) + 1] = WriteOver(chunk[Len(up.hashes) + 1], up.next)]
        /\ up' = [up EXCEPT !.hashes = Append(up.hashes, up.next), !.next = <<>>]
        /\ UNCHANGED <<manifest, down, output, latest, described, uploads>>
    BY Zenon DEF FinishChunk
  <1>2. PICK hs \in Pieces, rest \in Bytes, next \in Bytes :
           hs = up.hashes /\ rest = up.rest /\ next = up.next
    BY Zenon DEF FileInv, UploadInv
  <1>3. /\ up.of \in Versions /\ FlattenSeq(hs) \o (next \o rest) = Content[up.of]
        /\ Len(hs) <= Len(FlattenSeq(hs)) /\ Stored(hs) /\ latest = None
        /\ chunk[Len(hs) + 1] \in Bytes /\ Len(chunk[Len(hs) + 1]) < Len(next)
    BY <1>1, <1>2, Zenon DEF FileInv, UploadInv
  <1>4. PICK more \in Pieces : /\ more = Append(hs, next)
                               /\ FlattenSeq(more) = FlattenSeq(hs) \o next
                               /\ FlattenSeq(hs) \in Bytes
    BY FlattenAppend, Zenon
  <1>5. /\ Len(hs) \in Nat /\ Len(more) = Len(hs) + 1 /\ more[Len(hs) + 1] = next
        /\ \A k \in 1 .. Len(hs) : more[k] = hs[k]
    BY <1>4 DEF Pieces
  <1>6. /\ up'.pc = "chunks" /\ up'.of = up.of /\ up'.rest = rest /\ up'.sign = up.sign
        /\ up'.next = <<>> /\ up'.hashes = more
        /\ up' \in [pc : {"idle", "chunks", "manifest"}, of : Versions \cup {None}, rest : Bytes,
                   sign : BOOLEAN, next : Bytes, hashes : Pieces]
    <2>1. <<>> \in Bytes
      BY DEF Bytes
    <2> QED BY <1>1, <1>2, <1>4, <2>1 DEF FileInv, UploadInv
  <1>7. WriteOver(chunk[Len(hs) + 1], next) = next
    <2>1. PICK old \in Bytes : old = chunk[Len(hs) + 1] /\ Len(old) < Len(next)
      BY <1>3, Zenon
    <2>2. SubSeq(old, Len(next) + 1, Len(old)) = <<>>
      BY <2>1 DEF Bytes
    <2> QED BY <2>1, <2>2, NoBytes, Zenon DEF WriteOver
  <1>8. /\ Len(next) \in Nat \ {0} /\ Len(rest) \in Nat /\ Len(FlattenSeq(hs)) \in Nat
        /\ Len(FlattenSeq(more)) = Len(FlattenSeq(hs)) + Len(next)
        /\ Len(Content[up.of]) = Len(FlattenSeq(hs)) + (Len(next) + Len(rest))
    <2>1. Len(next) \in Nat \ {0} /\ Len(rest) \in Nat /\ Len(FlattenSeq(hs)) \in Nat
      BY <1>1, <1>2, <1>4, NoBytes
    <2>2. Len(FlattenSeq(more)) = Len(FlattenSeq(hs)) + Len(next)
      BY <1>4, Associative, Zenon
    <2>3. next \o rest \in Bytes /\ Len(next \o rest) = Len(next) + Len(rest)
      BY Associative, Zenon
    <2>4. Len(Content[up.of]) = Len(FlattenSeq(hs)) + Len(next \o rest)
      BY <1>3, <1>4, <2>3, JoinedLen, Zenon
    <2> QED BY <2>1, <2>2, <2>3, <2>4, Zenon
  <1>9. Len(hs) + 1 \in 1 .. MaxChunks /\ Len(more) <= Len(FlattenSeq(more))
    <2>1. MaxChunks \in Nat /\ Len(Content[up.of]) <= MaxChunks
      BY <1>3, MaxChunksBound, Zenon
    <2> QED BY <1>3, <1>5, <1>8, <2>1
  <1>10. /\ chunk' \in [1 .. MaxChunks -> Bytes \cup {None}]
         /\ chunk'[Len(hs) + 1] = next /\ \A k \in 1 .. Len(hs) : chunk'[k] = chunk[k]
    <2>1. chunk \in [1 .. MaxChunks -> Bytes \cup {None}]
      BY Zenon DEF FileInv, UploadInv
    <2>2. chunk' = [chunk EXCEPT ![Len(hs) + 1] = next]
      BY <1>1, <1>2, <1>7, Zenon
    <2>3. \A k \in 1 .. Len(hs) : k \in 1 .. MaxChunks /\ k # Len(hs) + 1
      <3>1. MaxChunks \in Nat
        BY <1>3, MaxChunksBound, Zenon
      <3> QED BY <1>5, <1>9, <3>1
    <2> QED BY <1>9, <2>1, <2>2, <2>3, Zenon
  <1>11. UploadInv'
    <2>1. FlattenSeq(more) \o (<<>> \o rest) = Content[up.of]
      <3>1. (FlattenSeq(hs) \o next) \o rest = FlattenSeq(hs) \o (next \o rest)
        BY <1>4, Associative
      <3> QED BY <1>3, <1>4, <3>1, NoBytes, Zenon
    <2>2. Stored(more)'
      <3>1. \A k \in 1 .. Len(more) : k \in 1 .. Len(hs) \/ k = Len(hs) + 1
        BY <1>5
      <3> QED BY <1>3, <1>5, <1>10, <3>1, Zenon DEF Stored
    <2> QED BY <1>1, <1>3, <1>6, <1>9, <1>10, <2>1, <2>2, Zenon DEF UploadInv
  <1>12. ~down.quiet
    BY <1>1, Underway, Zenon
  <1>13. DownloadInv' /\ QuietInv' /\ ManifestInv' /\ CompleteInv'
    BY <1>1, <1>3, <1>12, Zenon DEF FileInv, DownloadInv, QuietInv, ManifestInv, CompleteInv
  <1> QED BY <1>11, <1>13, Zenon DEF FileInv

\* The manifest an upload writes.
LEMMA NewIsMade == NewManifest = Made(up.hashes, up.of, up.sign)
  BY Zenon DEF NewManifest, Made, Plain

\* The manifest file is written in part.
LEMMA WriteStep ==
    ASSUME FileInv, WriteManifest
    PROVE  FileInv'
  <1>1. /\ up.pc = "chunks" /\ up.next = <<>> /\ up.rest = <<>>
        /\ manifest' \in Torn(Text(NewManifest)) /\ described' = up.of
        /\ up' = [up EXCEPT !.pc = "manifest"]
        /\ UNCHANGED <<chunk, down, output, latest, uploads>>
    BY Zenon DEF WriteManifest
  <1>2. /\ up.hashes \in Pieces /\ up.sign \in BOOLEAN /\ up.of \in Versions /\ latest = None
        /\ FlattenSeq(up.hashes) \o (<<>> \o <<>>) = Content[up.of]
    BY <1>1, Zenon DEF FileInv, UploadInv
  <1>3. Whole(up.hashes, up.of)
    <2>1. <<>> \in Bytes
      BY DEF Bytes
    <2>2. FlattenSeq(up.hashes) \in Bytes
      BY <1>2, <2>1, FlattenAppend, Zenon
    <2> QED BY <1>2, <2>1, <2>2, NoBytes, Zenon DEF Whole
  <1>4. ManifestInv'
    <2>1. manifest' \in Torn(Text(Made(up.hashes, up.of, up.sign)))
      BY <1>1, NewIsMade, Zenon
    <2> QED BY <1>1, <1>2, <1>3, <2>1, Zenon DEF ManifestInv, Whole
  <1>5. UploadInv'
    <2>1. /\ up'.pc = "manifest" /\ up'.of = up.of /\ up'.rest = up.rest /\ up'.sign = up.sign
          /\ up'.next = up.next /\ up'.hashes = up.hashes
          /\ up' \in [pc : {"idle", "chunks", "manifest"}, of : Versions \cup {None}, rest : Bytes,
                     sign : BOOLEAN, next : Bytes, hashes : Pieces]
      BY <1>1 DEF FileInv, UploadInv
    <2> QED BY <1>1, <2>1, Zenon DEF FileInv, UploadInv, Stored
  <1>6. ~down.quiet
    BY <1>1, Underway, Zenon
  <1>7. DownloadInv' /\ QuietInv' /\ CompleteInv'
    BY <1>1, <1>2, <1>6, Zenon DEF FileInv, DownloadInv, QuietInv, CompleteInv
  <1> QED BY <1>4, <1>5, <1>7, Zenon DEF FileInv

\* IdleUpload is a state of an upload.
LEMMA IdleUploadInv ==
    ASSUME FileInv, up' = IdleUpload, chunk' = chunk
    PROVE  UploadInv'
  <1>1. <<>> \in Bytes /\ <<>> \in Pieces
    BY DEF Bytes, Pieces
  <1> QED BY <1>1, Zenon DEF FileInv, UploadInv, IdleUpload

\* The manifest file is complete.
LEMMA CompleteStep ==
    ASSUME FileInv, FinishUpload
    PROVE  FileInv'
  <1>1. /\ up.pc = "manifest" /\ manifest' = Text(NewManifest)
        /\ latest' = [of |-> up.of, signed |-> up.sign] /\ up' = IdleUpload
        /\ UNCHANGED <<chunk, down, output, described, uploads>>
    BY Zenon DEF FinishUpload
  <1>2. /\ up.hashes \in Pieces /\ up.sign \in BOOLEAN /\ up.of \in Versions /\ described = up.of
        /\ FlattenSeq(up.hashes) \o (<<>> \o <<>>) = Content[up.of] /\ Stored(up.hashes)
    BY <1>1, Zenon DEF FileInv, UploadInv
  <1>3. Whole(up.hashes, up.of)
    <2>1. <<>> \in Bytes
      BY DEF Bytes
    <2>2. FlattenSeq(up.hashes) \in Bytes
      BY <1>2, <2>1, FlattenAppend, Zenon
    <2> QED BY <1>2, <2>1, <2>2, NoBytes, Zenon DEF Whole
  <1>4. manifest' = Text(Made(up.hashes, up.of, up.sign))
    BY <1>1, NewIsMade, Zenon
  <1>5. ManifestInv'
    BY <1>1, <1>2, <1>3, <1>4, Zenon DEF ManifestInv, Whole
  <1>6. CompleteInv'
    <2>1. latest'.of = up.of /\ latest'.signed = up.sign
      BY <1>1, Zenon
    <2>2. Stored(up.hashes) => (\A k \in 1 .. Len(up.hashes) : chunk'[k] = up.hashes[k])
      BY <1>1, Zenon DEF Stored
    <2> QED BY <1>1, <1>2, <1>3, <1>4, <2>1, <2>2, Zenon DEF CompleteInv, Whole, Stored
  <1>7. UploadInv'
    BY <1>1, IdleUploadInv, Zenon
  <1>8. ~down.quiet
    BY <1>1, Underway, Zenon
  <1>9. DownloadInv' /\ QuietInv'
    BY <1>1, <1>8, Zenon DEF FileInv, DownloadInv, QuietInv
  <1> QED BY <1>5, <1>6, <1>7, <1>9, Zenon DEF FileInv

\* An upload stops half way.
LEMMA AbortStep ==
    ASSUME FileInv, AbortUpload
    PROVE  FileInv'
  <1>1. UploadInv'
    BY IdleUploadInv, Zenon DEF AbortUpload
  <1>2. DownloadInv' /\ QuietInv' /\ ManifestInv' /\ CompleteInv'
    BY Zenon DEF AbortUpload, FileInv, DownloadInv, QuietInv, ManifestInv, CompleteInv, Stored
  <1> QED BY <1>1, <1>2, Zenon DEF FileInv

-----------------------------------------------------------------------------
\* A download changes neither the directory nor the upload.
LEMMA DownloadKeeps ==
    ASSUME FileInv, UNCHANGED <<chunk, manifest, up, latest, described>>
    PROVE  ManifestInv' /\ UploadInv' /\ CompleteInv'
  BY Zenon DEF FileInv, ManifestInv, UploadInv, CompleteInv, Stored

\* What there is to be read after a complete upload.
LEMMA CompleteReads ==
    ASSUME FileInv, latest # None
    PROVE  /\ latest.of = described /\ latest.signed \in BOOLEAN /\ manifest # None /\ Readable(manifest)
           /\ latest.signed => ReadManifest(manifest).signer = Key
           /\ SignatureOk(ReadManifest(manifest))
           /\ \E hs \in Pieces : /\ Whole(hs, latest.of) /\ Stored(hs)
                                 /\ ReadManifest(manifest).hashes = hs
  <1>1. PICK hs \in Pieces : /\ Whole(hs, latest.of) /\ Stored(hs)
                             /\ manifest = Text(Made(hs, latest.of, latest.signed))
    BY Zenon DEF FileInv, CompleteInv
  <1>2. latest.of = described /\ latest.signed \in BOOLEAN /\ latest.of \in Versions
    BY <1>1, Zenon DEF FileInv, CompleteInv, Whole
  <1>3. Shape(manifest, hs, latest.of, latest.signed)
    BY <1>1, <1>2, TextLines, Zenon
  <1>4. Readable(manifest) /\ ReadManifest(manifest) = Made(hs, latest.of, latest.signed)
    BY <1>2, <1>3, ReadWhole, Zenon
  <1>5. manifest # None
    BY <1>3, NoneAssumption, Zenon DEF Shape
  <1>6. /\ SignatureOk(Made(hs, latest.of, latest.signed))
        /\ latest.signed => Made(hs, latest.of, latest.signed).signer = Key
        /\ Made(hs, latest.of, latest.signed).hashes = hs
    BY <1>2, MadeIsSigned, Zenon
  <1> QED BY <1>1, <1>2, <1>4, <1>5, <1>6, Zenon

\* The manifest is read.
LEMMA OpenStep ==
    ASSUME FileInv, NEW expectSigner \in BOOLEAN, OpenManifest(expectSigner)
    PROVE  FileInv'
  <1>1. PICK q : q = (latest # None /\ (expectSigner => latest.signed))
    OBVIOUS
  <1>2. PICK m : m = ReadManifest(manifest)
    OBVIOUS
  <1>3. PICK ok : ok = (/\ manifest # None /\ Readable(manifest)
                        /\ expectSigner => m.signer = Key
                        /\ SignatureOk(m))
    OBVIOUS
  <1>4. /\ down' = IF ok
                   THEN [[IdleDownload EXCEPT !.of = described, !.quiet = q]
                            EXCEPT !.pc = "verify", !.m = m]
                   ELSE [[IdleDownload EXCEPT !.of = described, !.quiet = q] EXCEPT !.pc = "failed"]
        /\ UNCHANGED <<chunk, manifest, up, output, latest, described, uploads>>
    BY <1>1, <1>2, <1>3, Zenon DEF OpenManifest
  <1>5. q \in BOOLEAN /\ ok \in BOOLEAN
    BY <1>1, <1>3, Zenon
  <1>6. q => ok /\ latest # None /\ latest.of = described
    BY <1>1, <1>2, <1>3, CompleteReads, Zenon
  <1>7. ManifestInv' /\ UploadInv' /\ CompleteInv'
    BY <1>4, DownloadKeeps, Zenon
  <1>8. CASE ok
    <2>1. /\ down'.pc = "verify" /\ down'.m = m /\ down'.of = described /\ down'.next = 1
          /\ down'.total = 0 /\ down'.quiet = q
          /\ down' = [pc |-> "verify", m |-> m, of |-> described, next |-> 1, total |-> 0, quiet |-> q]
      BY <1>4, <1>8 DEF IdleDownload
    <2>2. PICK hs \in Pieces, sign \in BOOLEAN :
             /\ Whole(hs, described)
             /\ manifest \in Torn(Text(Made(hs, described, sign)))
                               \cup {Text(Made(hs, described, sign))}
      BY <1>3, <1>8, Zenon DEF FileInv, ManifestInv
    <2>3. described \in Versions /\ FlattenSeq(hs) = Content[described] /\ Readable(manifest)
      BY <1>3, <1>8, <2>2, Zenon DEF Whole
    <2>4. PICK T : T = Text(Made(hs, described, sign)) /\ Shape(T, hs, described, sign)
      BY <2>3, TextLines, Zenon
    <2>5. Cut(manifest, T)
      BY <2>2, <2>3, <2>4, TornCut, Zenon
    <2>6. m.total = Len(Content[described]) /\ \E j \in 0 .. Len(hs) : m.hashes = SubSeq(hs, 1, j)
      <3>1. Lists(ReadManifest(manifest), hs, described)
        BY <2>3, <2>4, <2>5, ReadCut, Zenon
      <3> QED BY <1>2, <3>1, Zenon DEF Lists
    <2>7. PICK j \in 0 .. Len(hs) : m.hashes = SubSeq(hs, 1, j)
      BY <2>6, Zenon
    <2>8. \E rest \in Bytes : Content[described] = FlattenSeq(m.hashes) \o rest
      BY <2>3, <2>7, BeginsFile, Zenon DEF Begun
    <2>9. m.hashes \in Pieces /\ 0 \in 0 .. Len(m.hashes) /\ 1 \in 1 .. Len(m.hashes) + 1 /\ 1 - 1 = 0
      BY <2>7 DEF Pieces
    <2>10. Len(Begun(m.hashes, 0)) = 0
      <3>1. Begun(m.hashes, 0) = <<>>
        BY <2>9, Begins, Zenon
      <3>2. Len(<<>>) = 0
        OBVIOUS
      <3> QED BY <3>1, <3>2, Zenon
    <2>11. DownloadInv'
      BY <1>5, <2>1, <2>3, <2>6, <2>8, <2>9, <2>10, Zenon DEF DownloadInv
    <2>12. QuietInv'
      BY <1>2, <1>4, <1>6, <2>1, Zenon DEF QuietInv
    <2> QED BY <1>7, <2>11, <2>12, Zenon DEF FileInv
  <1>9. CASE ~ok
    <2>1. /\ down'.pc = "failed" /\ down'.quiet = q
          /\ down' = [pc |-> down'.pc, m |-> down'.m, of |-> down'.of, next |-> down'.next,
                      total |-> down'.total, quiet |-> down'.quiet]
      BY <1>4, <1>9 DEF IdleDownload
    <2>2. DownloadInv'
      BY <1>5, <2>1, Zenon DEF DownloadInv
    <2>3. QuietInv'
      BY <1>6, <1>9, <2>1, Zenon DEF QuietInv
    <2> QED BY <1>7, <2>2, <2>3, Zenon DEF FileInv
  <1> QED BY <1>8, <1>9, Zenon

\* What a download reads after a complete upload is all there.
LEMMA QuietReads ==
    ASSUME FileInv, down.quiet
    PROVE  /\ FlattenSeq(down.m.hashes) = Content[down.of]
           /\ \A k \in 1 .. Len(down.m.hashes) : Matches(k)
  <1>1. latest # None /\ down.of = latest.of /\ down.m = ReadManifest(manifest)
    BY Zenon DEF FileInv, QuietInv
  <1>2. PICK hs \in Pieces : Whole(hs, latest.of) /\ Stored(hs) /\ down.m.hashes = hs
    BY <1>1, CompleteReads, Zenon
  <1>3. \A k \in 1 .. Len(hs) : hs[k] \in Bytes
    BY DEF Pieces
  <1>4. None \notin Bytes
    BY NoneAssumption, Zenon DEF Bytes, Values
  <1>5. \A k \in 1 .. Len(hs) : chunk[k] = hs[k] /\ hs[k] # None
    BY <1>2, <1>3, <1>4, Zenon DEF Stored
  <1> QED BY <1>1, <1>2, <1>5, Zenon DEF Whole, Matches

\* A download fails, but not one that nothing disturbs.
LEMMA FailStep ==
    ASSUME FileInv, Fail, ~down.quiet, UNCHANGED <<chunk, manifest, up, output, latest, described>>
    PROVE  FileInv'
  <1>1. down = [pc |-> down.pc, m |-> down.m, of |-> down.of, next |-> down.next,
                total |-> down.total, quiet |-> down.quiet] /\ down.quiet \in BOOLEAN
    BY Zenon DEF FileInv, DownloadInv
  <1>2. down' = [down EXCEPT !.pc = "failed"]
    BY Zenon DEF Fail
  <1>3. /\ down'.pc = "failed" /\ down'.quiet = down.quiet
        /\ down' = [pc |-> down'.pc, m |-> down'.m, of |-> down'.of, next |-> down'.next,
                    total |-> down'.total, quiet |-> down'.quiet]
    BY <1>1, <1>2
  <1>4. ManifestInv' /\ UploadInv' /\ CompleteInv'
    BY DownloadKeeps, Zenon
  <1>5. DownloadInv' /\ QuietInv'
    BY <1>1, <1>3, Zenon DEF DownloadInv, QuietInv
  <1> QED BY <1>4, <1>5, Zenon DEF FileInv

\* The next chunk, once it matches, is the next piece.
LEMMA NextPiece ==
    ASSUME FileInv, down.pc \in {"verify", "copy"}, down.next <= Len(down.m.hashes),
           Matches(down.next)
    PROVE  /\ down.next + 1 \in 1 .. Len(down.m.hashes) + 1 /\ down.next + 1 - 1 = down.next
           /\ Begun(down.m.hashes, down.next - 1) \in Bytes /\ chunk[down.next] \in Bytes
           /\ Begun(down.m.hashes, down.next)
                 = Begun(down.m.hashes, down.next - 1) \o chunk[down.next]
  <1>0. down.m.hashes \in Pieces /\ down.next \in 1 .. Len(down.m.hashes) + 1
    BY Zenon DEF FileInv, DownloadInv
  <1>a. PICK hs \in Pieces : hs = down.m.hashes
    BY <1>0, Zenon
  <1>b. PICK n \in 1 .. Len(hs) + 1 : n = down.next
    BY <1>0, <1>a, Zenon
  <1>1. hs = down.m.hashes /\ n = down.next
    BY <1>a, <1>b, Zenon
  <1>2. n <= Len(hs) /\ chunk[n] = hs[n]
    BY <1>1, Zenon DEF Matches
  <1>3. Len(hs) \in Nat /\ \A k \in 1 .. Len(hs) : hs[k] \in Bytes
    BY DEF Pieces
  <1>c. Len(hs) \in Nat /\ n <= Len(hs)
    BY <1>2, <1>3, Zenon
  <1>4. PICK j \in 0 .. Len(hs) : j = n - 1 /\ j < Len(hs) /\ j + 1 = n
    <2>1. n - 1 \in 0 .. Len(hs) /\ n - 1 < Len(hs) /\ (n - 1) + 1 = n
      BY <1>c, SMTT(40)
    <2> QED BY <2>1, Zenon
  <1>5. n + 1 \in 1 .. Len(hs) + 1 /\ n + 1 - 1 = n /\ n \in 1 .. Len(hs)
    BY <1>c, SMTT(40)
  <1>6. Begun(hs, j) \in Bytes /\ Begun(hs, n) = Begun(hs, j) \o hs[n]
    BY <1>4, Begins, Zenon
  <1> QED BY <1>1, <1>2, <1>3, <1>4, <1>5, <1>6, Zenon

\* A chunk is verified.
LEMMA VerifyStep ==
    ASSUME FileInv, VerifyChunk
    PROVE  FileInv'
  <1>1. /\ down.pc = "verify" /\ down.next <= Len(down.m.hashes)
        /\ UNCHANGED <<chunk, manifest, up, output, latest, described>>
    BY Zenon DEF VerifyChunk
  <1>2. down.m.hashes \in Pieces /\ down.next \in 1 .. Len(down.m.hashes) + 1
    BY <1>1, Zenon DEF FileInv, DownloadInv
  <1>3. CASE ~Matches(down.next)
    <2>1. Fail
      BY <1>3, Zenon DEF VerifyChunk
    <2>2. down.next \in 1 .. Len(down.m.hashes)
      BY <1>1, <1>2 DEF Pieces
    <2> QED BY <1>1, <1>3, <2>1, <2>2, QuietReads, FailStep, Zenon
  <1>4. CASE Matches(down.next)
    <2>1. down' = [down EXCEPT !.next = @ + 1, !.total = @ + Len(chunk[down.next])]
      BY <1>4, Zenon DEF VerifyChunk
    <2>2. down = [pc |-> down.pc, m |-> down.m, of |-> down.of, next |-> down.next,
                  total |-> down.total, quiet |-> down.quiet]
      BY Zenon DEF FileInv, DownloadInv
    <2>3. /\ down'.pc = down.pc /\ down'.quiet = down.quiet /\ down'.m = down.m /\ down'.of = down.of
          /\ down'.next = down.next + 1 /\ down'.total = down.total + Len(chunk[down.next])
          /\ down' = [pc |-> down'.pc, m |-> down'.m, of |-> down'.of, next |-> down'.next,
                      total |-> down'.total, quiet |-> down'.quiet]
      BY <2>1, <2>2
    <2>4. /\ down.next + 1 \in 1 .. Len(down.m.hashes) + 1 /\ down.next + 1 - 1 = down.next
          /\ Begun(down.m.hashes, down.next - 1) \in Bytes /\ chunk[down.next] \in Bytes
          /\ Begun(down.m.hashes, down.next)
                = Begun(down.m.hashes, down.next - 1) \o chunk[down.next]
      BY <1>1, <1>4, NextPiece, Zenon
    <2>5. down.total = Len(Begun(down.m.hashes, down.next - 1))
      BY <1>1, Zenon DEF FileInv, DownloadInv
    <2>6. down'.total = Len(Begun(down'.m.hashes, down'.next - 1))
      <3>1. PICK a \in Bytes, b \in Bytes :
               a = Begun(down.m.hashes, down.next - 1) /\ b = chunk[down.next]
        BY <2>4, Zenon
      <3>2. Len(a \o b) = Len(a) + Len(b)
        BY JoinedLen, Zenon
      <3>3. Len(Begun(down.m.hashes, down.next)) = down.total + Len(chunk[down.next])
        BY <2>4, <2>5, <3>1, <3>2, Zenon
      <3>4. down'.next - 1 = down.next /\ down'.m.hashes = down.m.hashes
        <4>1. down.next \in Nat /\ down'.next = down.next + 1
          BY <1>2, <2>3 DEF Pieces
        <4>2. down'.next - 1 = down.next
          BY <4>1
        <4> QED BY <2>3, <4>2, Zenon
      <3> QED BY <2>3, <3>3, <3>4, Zenon
    <2>7. DownloadInv'
      BY <1>1, <2>3, <2>4, <2>6, Zenon DEF FileInv, DownloadInv
    <2>8. QuietInv'
      BY <1>1, <2>3, Zenon DEF FileInv, QuietInv
    <2> QED BY <1>1, <2>7, <2>8, DownloadKeeps, Zenon DEF FileInv
  <1> QED BY <1>3, <1>4, Zenon

\* All chunks are verified: they are a whole version if their sizes add up.
LEMMA EndVerifyStep ==
    ASSUME FileInv, EndVerify
    PROVE  FileInv'
  <1>1. /\ down.pc = "verify" /\ down.next > Len(down.m.hashes)
        /\ UNCHANGED <<chunk, manifest, up, latest, described>>
    BY Zenon DEF EndVerify
  <1>2. /\ down.m.hashes \in Pieces /\ down.next \in 1 .. Len(down.m.hashes) + 1
        /\ down.m.total = Len(Content[down.of])
        /\ down.total = Len(Begun(down.m.hashes, down.next - 1))
    BY <1>1, Zenon DEF FileInv, DownloadInv
  <1>3. Len(down.m.hashes) \in 0 .. Len(down.m.hashes) /\ down.next - 1 = Len(down.m.hashes)
        /\ 0 \in 0 .. Len(down.m.hashes) /\ 1 \in 1 .. Len(down.m.hashes) + 1
    BY <1>1, <1>2 DEF Pieces
  <1>4. /\ Begun(down.m.hashes, Len(down.m.hashes)) = FlattenSeq(down.m.hashes)
        /\ FlattenSeq(down.m.hashes) \in Bytes /\ Begun(down.m.hashes, 0) = <<>>
    BY <1>2, <1>3, Begins, Zenon
  <1>5. down.total = Len(FlattenSeq(down.m.hashes))
    BY <1>2, <1>3, <1>4, Zenon
  <1>6. CASE down.total # down.m.total
    <2>1. Fail /\ UNCHANGED output
      BY <1>6, Zenon DEF EndVerify
    <2> QED BY <1>1, <1>2, <1>5, <1>6, <2>1, QuietReads, FailStep, Zenon
  <1>7. CASE down.total = down.m.total
    <2>1. down' = [down EXCEPT !.pc = "copy", !.next = 1] /\ output' = <<>>
      BY <1>7, Zenon DEF EndVerify
    <2>2. down = [pc |-> down.pc, m |-> down.m, of |-> down.of, next |-> down.next,
                  total |-> down.total, quiet |-> down.quiet]
      BY Zenon DEF FileInv, DownloadInv
    <2>3. /\ down'.pc = "copy" /\ down'.quiet = down.quiet /\ down'.m = down.m /\ down'.of = down.of
          /\ down'.next = 1
          /\ down' = [pc |-> down'.pc, m |-> down'.m, of |-> down'.of, next |-> down'.next,
                      total |-> down'.total, quiet |-> down'.quiet]
      BY <2>1, <2>2
    <2>4. PICK a \in Bytes, rest \in Bytes :
             a = FlattenSeq(down.m.hashes) /\ Content[down.of] = a \o rest
      BY <1>1, <1>4, Zenon DEF FileInv, DownloadInv
    <2>5. Len(a \o rest) = Len(a)
      BY <1>2, <1>5, <1>7, <2>4, Zenon
    <2>6. a \o rest = a
      <3>1. Len(a \o rest) = Len(a) + Len(rest)
        BY JoinedLen, Zenon
      <3>2. Len(rest) = 0
        BY <2>5, <3>1 DEF Bytes
      <3> QED BY <3>2, NoBytes, Zenon
    <2>7. FlattenSeq(down.m.hashes) = Content[down.of]
      BY <2>4, <2>6, Zenon
    <2>8. 1 - 1 = 0
      OBVIOUS
    <2>9. DownloadInv'
      BY <1>1, <1>3, <1>4, <2>1, <2>3, <2>7, <2>8, Zenon DEF FileInv, DownloadInv
    <2>10. QuietInv'
      BY <1>1, <2>3, Zenon DEF FileInv, QuietInv
    <2> QED BY <1>1, <2>9, <2>10, DownloadKeeps, Zenon DEF FileInv
  <1> QED BY <1>6, <1>7, Zenon

\* A chunk is copied.
LEMMA CopyStep ==
    ASSUME FileInv, CopyChunk
    PROVE  FileInv'
  <1>1. /\ down.pc = "copy" /\ down.next <= Len(down.m.hashes)
        /\ UNCHANGED <<chunk, manifest, up, latest, described>>
    BY Zenon DEF CopyChunk
  <1>2. /\ down.m.hashes \in Pieces /\ down.next \in 1 .. Len(down.m.hashes) + 1
        /\ output = Begun(down.m.hashes, down.next - 1)
    BY <1>1, Zenon DEF FileInv, DownloadInv
  <1>3. CASE ~Matches(down.next)
    <2>1. Fail /\ UNCHANGED output
      BY <1>3, Zenon DEF CopyChunk
    <2>2. down.next \in 1 .. Len(down.m.hashes)
      BY <1>1, <1>2 DEF Pieces
    <2> QED BY <1>1, <1>3, <2>1, <2>2, QuietReads, FailStep, Zenon
  <1>4. CASE Matches(down.next)
    <2>1. down' = [down EXCEPT !.next = @ + 1] /\ output' = output \o chunk[down.next]
      BY <1>4, Zenon DEF CopyChunk
    <2>2. down = [pc |-> down.pc, m |-> down.m, of |-> down.of, next |-> down.next,
                  total |-> down.total, quiet |-> down.quiet]
      BY Zenon DEF FileInv, DownloadInv
    <2>3. /\ down'.pc = down.pc /\ down'.quiet = down.quiet /\ down'.m = down.m /\ down'.of = down.of
          /\ down'.next = down.next + 1
          /\ down' = [pc |-> down'.pc, m |-> down'.m, of |-> down'.of, next |-> down'.next,
                      total |-> down'.total, quiet |-> down'.quiet]
      BY <2>1, <2>2
    <2>4. /\ down.next + 1 \in 1 .. Len(down.m.hashes) + 1 /\ down.next + 1 - 1 = down.next
          /\ Begun(down.m.hashes, down.next)
                = Begun(down.m.hashes, down.next - 1) \o chunk[down.next]
      BY <1>1, <1>4, NextPiece, Zenon
    <2>5. output' = Begun(down'.m.hashes, down'.next - 1)
      <3>1. down'.next - 1 = down.next /\ down'.m.hashes = down.m.hashes
        <4>1. down.next \in Nat /\ down'.next = down.next + 1
          BY <1>2, <2>3 DEF Pieces
        <4>2. down'.next - 1 = down.next
          BY <4>1
        <4> QED BY <2>3, <4>2, Zenon
      <3> QED BY <1>2, <2>1, <2>4, <3>1, Zenon
    <2>6. DownloadInv'
      BY <1>1, <2>3, <2>4, <2>5, Zenon DEF FileInv, DownloadInv
    <2>7. QuietInv'
      BY <1>1, <2>3, Zenon DEF FileInv, QuietInv
    <2> QED BY <1>1, <2>6, <2>7, DownloadKeeps, Zenon DEF FileInv
  <1> QED BY <1>3, <1>4, Zenon

\* All chunks are copied.
LEMMA EndStep ==
    ASSUME FileInv, EndDownload
    PROVE  FileInv'
  <1>1. /\ down.pc = "copy" /\ down.next > Len(down.m.hashes)
        /\ down' = [down EXCEPT !.pc = "ok"]
        /\ UNCHANGED <<chunk, manifest, up, output, latest, described>>
    BY Zenon DEF EndDownload
  <1>2. /\ down.m.hashes \in Pieces /\ down.next \in 1 .. Len(down.m.hashes) + 1
        /\ down = [pc |-> down.pc, m |-> down.m, of |-> down.of, next |-> down.next,
                   total |-> down.total, quiet |-> down.quiet]
    BY <1>1, Zenon DEF FileInv, DownloadInv
  <1>3. down.next = Len(down.m.hashes) + 1
    BY <1>1, <1>2 DEF Pieces
  <1>4. /\ down'.pc = "ok" /\ down'.quiet = down.quiet /\ down'.m = down.m /\ down'.of = down.of
        /\ down'.next = down.next
        /\ down' = [pc |-> down'.pc, m |-> down'.m, of |-> down'.of, next |-> down'.next,
                    total |-> down'.total, quiet |-> down'.quiet]
    BY <1>1, <1>2
  <1>5. DownloadInv'
    BY <1>1, <1>3, <1>4, Zenon DEF FileInv, DownloadInv
  <1>6. QuietInv'
    BY <1>1, <1>4, Zenon DEF FileInv, QuietInv
  <1> QED BY <1>1, <1>5, <1>6, DownloadKeeps, Zenon DEF FileInv

-----------------------------------------------------------------------------
\* Every step keeps the invariant.
LEMMA FileNext == FileInv /\ [Next]_vars => FileInv'
  <1> SUFFICES ASSUME FileInv, [Next]_vars PROVE FileInv'
    OBVIOUS
  <1>1. CASE Upload
    <2>1. ASSUME NEW v \in Versions, NEW sign \in BOOLEAN, StartUpload(v, sign) PROVE FileInv'
      BY <2>1, StartStep, Zenon
    <2>2. ASSUME NEW n \in 1 .. ChunkSize, NEW part \in 0 .. ChunkSize - 1, CreateChunk(n, part)
          PROVE  FileInv'
      BY <2>2, CreateStep, Zenon
    <2>3. FinishChunk \/ WriteManifest \/ FinishUpload \/ AbortUpload => FileInv'
      BY FinishStep, WriteStep, CompleteStep, AbortStep, Zenon
    <2> QED BY <1>1, <2>1, <2>2, <2>3, Zenon DEF Upload
  <1>2. CASE Download
    <2>1. ASSUME NEW expectSigner \in BOOLEAN, OpenManifest(expectSigner) PROVE FileInv'
      BY <2>1, OpenStep, Zenon
    <2>2. VerifyChunk \/ EndVerify \/ CopyChunk \/ EndDownload => FileInv'
      BY VerifyStep, EndVerifyStep, CopyStep, EndStep, Zenon
    <2> QED BY <1>2, <2>1, <2>2, Zenon DEF Download
  <1>3. CASE UNCHANGED vars
    <2>1. UNCHANGED <<chunk, manifest, up, down, output, latest, described>>
      BY <1>3, Zenon DEF vars
    <2>2. DownloadInv'
      BY <2>1, Zenon DEF FileInv, DownloadInv
    <2>3. QuietInv'
      BY <2>1, Zenon DEF FileInv, QuietInv
    <2> QED BY <2>1, <2>2, <2>3, DownloadKeeps, Zenon DEF FileInv
  <1> QED BY <1>1, <1>2, <1>3, Zenon DEF Next

\* The invariant holds in every reachable state.
LEMMA FileInvariant == Spec => []FileInv
  BY FileInit, FileNext, PTL DEF Spec

\* A download that reports success has written one whole version, the one whose
\* manifest it read, whatever uploads did meanwhile (reassemble hashes what it
\* copies).
THEOREM WholeVersionTheorem == Spec => []WholeVersion
  <1>1. FileInv => WholeVersion
    <2> SUFFICES ASSUME FileInv, down.pc = "ok" PROVE output = Content[down.of]
      BY Zenon DEF WholeVersion
    <2>1. /\ down.m.hashes \in Pieces /\ FlattenSeq(down.m.hashes) = Content[down.of]
          /\ output = Begun(down.m.hashes, down.next - 1) /\ down.next = Len(down.m.hashes) + 1
      BY Zenon DEF FileInv, DownloadInv
    <2>2. down.next - 1 = Len(down.m.hashes) /\ 0 \in 0 .. Len(down.m.hashes)
      BY <2>1 DEF Pieces
    <2>3. Begun(down.m.hashes, Len(down.m.hashes)) = FlattenSeq(down.m.hashes)
      BY <2>1, <2>2, Begins, Zenon
    <2> QED BY <2>1, <2>2, <2>3, Zenon
  <1> QED BY <1>1, FileInvariant, PTL

\* The output file is only emptied for a manifest whose pieces are a whole version
\* (read_manifest, and the total size in verify_chunks).
THEOREM OutputTheorem == Spec => []OutputEmptiedForWholeVersion
  <1>1. FileInv => OutputEmptiedForWholeVersion
    BY Zenon DEF FileInv, DownloadInv, OutputEmptiedForWholeVersion
  <1> QED BY <1>1, FileInvariant, PTL

\* After a complete upload, and until the next one begins, no download fails, and
\* one that succeeds has written that upload's version.
THEOREM CompleteUploadTheorem == Spec => []CompleteUploadCanBeRead
  <1>1. FileInv /\ WholeVersion => CompleteUploadCanBeRead
    BY Zenon DEF FileInv, QuietInv, WholeVersion, CompleteUploadCanBeRead
  <1> QED BY <1>1, FileInvariant, WholeVersionTheorem, PTL
=============================================================================
