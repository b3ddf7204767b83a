----------------------------- MODULE FileStore ------------------------------
(***************************************************************************)
(* Upload and download of a file through a directory of chunks             *)
(* (storage.rs, called by dvel-file and through ffi.rs).  An upload        *)
(* overwrites what an earlier upload of the same name left, may stop at    *)
(* any step, and may run while a download does.                            *)
(***************************************************************************)
EXTENDS FileManifest

CONSTANTS
    Versions,     \* versions of the file
    Content,      \* the bytes of each version
    ChunkSize,    \* chunk_size
    Key,          \* the key of the uploader
    MaxUploads    \* bound on the number of uploads

ASSUME FileAssumption ==
    /\ IsFiniteSet(Versions) /\ Content \in [Versions -> Seq(STRING)]
    /\ ChunkSize \in Nat \ {0} /\ MaxUploads \in Nat
    /\ Key # None

\* The lines that are signed and all lines of a manifest: a signature is the text
\* it signs.
Keys == {"file_name", "total_size", "chunk_size", "chunks", "h", "signer", "signature", "unknown"}
Values == Nat \cup {"file"} \cup Seq(STRING)
Signed == [key : Keys, val : Values]
Lines == [key : Keys, val : Values \cup {None, Key} \cup Seq(Signed)]

\* An Option without a value is none of the values it can have.
ASSUME NoneAssumption ==
    None \notin Values \cup Seq(Signed) \cup Seq(Lines)

MaxChunks == CHOOSE n \in {Len(Content[v]) : v \in Versions} :
                 \A v \in Versions : Len(Content[v]) <= n

VARIABLES
    chunk,      \* the chunk files, None where there is none
    manifest,   \* the lines of the manifest file, or None
    up,         \* the running upload
    down,       \* the running or last download
    output,     \* the file the download writes, or None
    latest,     \* history: the version of the last upload, if it is complete
    described,  \* history: the version whose upload wrote the manifest
    uploads     \* uploads so far

vars == <<chunk, manifest, up, down, output, latest, described, uploads>>

NoManifest == [name |-> None, total |-> 0, size |-> 0, hashes |-> <<>>,
               signer |-> None, signature |-> None]
IdleUpload == [pc |-> "idle", of |-> None, rest |-> <<>>, sign |-> FALSE, next |-> <<>>,
               hashes |-> <<>>]
IdleDownload == [pc |-> "idle", m |-> NoManifest, of |-> None, next |-> 1, total |-> 0,
                 quiet |-> FALSE]

Init ==
    /\ chunk = [k \in 1 .. MaxChunks |-> None]
    /\ manifest = None
    /\ up = IdleUpload
    /\ down = IdleDownload
    /\ output = None
    /\ latest = None
    /\ described = None
    /\ uploads = 0

-----------------------------------------------------------------------------
(* Upload. *)

\* chunk_file_to_dir, up to its loop.
StartUpload(v, sign) ==
    /\ up.pc = "idle" /\ uploads < MaxUploads
    /\ up' = [IdleUpload EXCEPT !.pc = "chunks", !.of = v, !.rest = Content[v], !.sign = sign]
    /\ uploads' = uploads + 1
    /\ latest' = None
    /\ down' = [down EXCEPT !.quiet = FALSE]
    /\ UNCHANGED <<chunk, manifest, output, described>>

\* Writing from the start of a file replaces that much of it.
WriteOver(old, new) == new \o SubSeq(old, Len(new) + 1, Len(old))

\* Defective CreateChunk: an existing file keeps its length.
OpenChunk(n, part) ==
    /\ up.pc = "chunks" /\ up.next = <<>>
    /\ n <= ChunkSize /\ n <= Len(up.rest)
    /\ part < n
    /\ up' = [up EXCEPT !.next = SubSeq(up.rest, 1, n), !.rest = SubSeq(@, n + 1, Len(@))]
    /\ chunk' = [chunk EXCEPT ![Len(up.hashes) + 1] =
                    WriteOver(IF @ = None THEN <<>> ELSE @, SubSeq(up.rest, 1, part))]
    /\ UNCHANGED <<manifest, down, output, latest, described, uploads>>

\* A read returns between one byte and chunk_size; File::create empties the
\* chunk's file, of which a part may be written before the rest.
CreateChunk(n, part) ==
    /\ up.pc = "chunks" /\ up.next = <<>>
    /\ n <= ChunkSize /\ n <= Len(up.rest)
    /\ part < n
    /\ up' = [up EXCEPT !.next = SubSeq(up.rest, 1, n), !.rest = SubSeq(@, n + 1, Len(@))]
    /\ chunk' = [chunk EXCEPT ![Len(up.hashes) + 1] = SubSeq(up.rest, 1, part)]
    /\ UNCHANGED <<manifest, down, output, latest, described, uploads>>

FinishChunk ==
    /\ up.pc = "chunks" /\ up.next # <<>>
    /\ chunk' = [chunk EXCEPT ![Len(up.hashes) + 1] = WriteOver(@, up.next)]
    /\ up' = [up EXCEPT !.hashes = Append(@, up.next), !.next = <<>>]
    /\ UNCHANGED <<manifest, down, output, latest, described, uploads>>

\* The manifest chunk_file_to_dir returns, signed if a key was given.
NewManifest ==
    LET m == [name |-> "file", total |-> Len(Content[up.of]), size |-> ChunkSize,
              hashes |-> up.hashes, signer |-> None, signature |-> None]
    IN  IF up.sign THEN Sign(m, Key) ELSE m

\* write_manifest is fs::write: the file is emptied and then written.
WriteManifest ==
    /\ up.pc = "chunks" /\ up.next = <<>> /\ up.rest = <<>>
    /\ manifest' \in Torn(Text(NewManifest))
    /\ described' = up.of
    /\ up' = [up EXCEPT !.pc = "manifest"]
    /\ UNCHANGED <<chunk, down, output, latest, uploads>>

FinishUpload ==
    /\ up.pc = "manifest"
    /\ manifest' = Text(NewManifest)
    /\ latest' = [of |-> up.of, signed |-> up.sign]
    /\ up' = IdleUpload
    /\ UNCHANGED <<chunk, down, output, described, uploads>>

\* A crash, or an error of the file system that ends the upload.
AbortUpload ==
    /\ up.pc # "idle"
    /\ up' = IdleUpload
    /\ UNCHANGED <<chunk, manifest, down, output, latest, described, uploads>>

Upload ==
    \/ \E v \in Versions, sign \in BOOLEAN : StartUpload(v, sign)
    \/ \E n \in 1 .. ChunkSize, part \in 0 .. ChunkSize - 1 : CreateChunk(n, part)
    \/ FinishChunk
    \/ WriteManifest
    \/ FinishUpload
    \/ AbortUpload

-----------------------------------------------------------------------------
(* Download. *)

Fail == down' = [down EXCEPT !.pc = "failed"]

\* The manifest is read and its signer and signature are checked.
OpenManifest(expectSigner) ==
    /\ down.pc \in {"idle", "ok", "failed"}
    /\ LET begun == [IdleDownload EXCEPT
                          !.of = described,
                          !.quiet = latest # None /\ (expectSigner => latest.signed)]
           m == ReadManifest(manifest)
       IN  down' = IF /\ manifest # None /\ Readable(manifest)
                      /\ expectSigner => m.signer = Key
                      /\ SignatureOk(m)
                   THEN [begun EXCEPT !.pc = "verify", !.m = m]
                   ELSE [begun EXCEPT !.pc = "failed"]
    /\ UNCHANGED <<chunk, manifest, up, output, latest, described, uploads>>

Matches(k) == chunk[k] # None /\ chunk[k] = down.m.hashes[k]

\* verify_chunks, one chunk file at a time.
VerifyChunk ==
    /\ down.pc = "verify" /\ down.next <= Len(down.m.hashes)
    /\ IF Matches(down.next)
       THEN down' = [down EXCEPT !.next = @ + 1, !.total = @ + Len(chunk[down.next])]
       ELSE Fail
    /\ UNCHANGED <<chunk, manifest, up, output, latest, described, uploads>>

\* Defective EndVerify: the sum of the sizes is not compared.
EndVerifyUnsized ==
    /\ down.pc = "verify" /\ down.next > Len(down.m.hashes)
    /\ down' = [down EXCEPT !.pc = "copy", !.next = 1]
    /\ output' = <<>>
    /\ UNCHANGED <<chunk, manifest, up, latest, described, uploads>>

\* The sizes add up, and reassemble empties the output file.
EndVerify ==
    /\ down.pc = "verify" /\ down.next > Len(down.m.hashes)
    /\ IF down.total = down.m.total
       THEN down' = [down EXCEPT !.pc = "copy", !.next = 1] /\ output' = <<>>
       ELSE Fail /\ UNCHANGED output
    /\ UNCHANGED <<chunk, manifest, up, latest, described, uploads>>

\* Defective CopyChunk: the chunk is not hashed a second time.
CopyUnchecked ==
    /\ down.pc = "copy" /\ down.next <= Len(down.m.hashes)
    /\ down' = [down EXCEPT !.next = @ + 1]
    /\ output' = output \o chunk[down.next]
    /\ UNCHANGED <<chunk, manifest, up, latest, described, uploads>>

\* reassemble reads and hashes every chunk again.
CopyChunk ==
    /\ down.pc = "copy" /\ down.next <= Len(down.m.hashes)
    /\ IF Matches(down.next)
       THEN down' = [down EXCEPT !.next = @ + 1] /\ output' = output \o chunk[down.next]
       ELSE Fail /\ UNCHANGED output
    /\ UNCHANGED <<chunk, manifest, up, latest, described, uploads>>

EndDownload ==
    /\ down.pc = "copy" /\ down.next > Len(down.m.hashes)
    /\ down' = [down EXCEPT !.pc = "ok"]
    /\ UNCHANGED <<chunk, manifest, up, output, latest, described, uploads>>

Download ==
    \/ \E expectSigner \in BOOLEAN : OpenManifest(expectSigner)
    \/ VerifyChunk \/ EndVerify \/ CopyChunk \/ EndDownload

Next == Upload \/ Download

Spec == Init /\ [][Next]_vars

-----------------------------------------------------------------------------
\* A download that reports success has written one whole version, the one whose
\* manifest it read, however uploads of other versions interleave with it or
\* stop half way (reassemble hashes what it copies).
WholeVersion == down.pc = "ok" => output = Content[down.of]

\* The output file is only emptied for a manifest that lists a whole version: one
\* that was cut short fails before that, unless only its signature is missing
\* (read_manifest, and the total size in verify_chunks).
OutputEmptiedForWholeVersion ==
    down.pc \in {"copy", "ok"} => FlattenSeq(down.m.hashes) = Content[down.of]

\* A complete upload makes up for everything older uploads left behind, longer
\* chunk lists and halves of chunks included: until the next upload begins every
\* download succeeds with that version.
CompleteUploadCanBeRead ==
    down.quiet => /\ down.pc # "failed"
                  /\ down.pc = "ok" => output = Content[latest.of]
=============================================================================
