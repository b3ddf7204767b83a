---------------------------- MODULE MCFileStore -----------------------------
(***************************************************************************)
(* Three versions of one file: three bytes, two, and none.                 *)
(***************************************************************************)
EXTENDS FileStore

MCVersions == {"long", "short", "empty"}
MCContent == [v \in MCVersions |->
                 CASE v = "long" -> <<"x", "y", "x">> [] v = "short" -> <<"x", "x">>
                   [] v = "empty" -> <<>>]
=============================================================================
