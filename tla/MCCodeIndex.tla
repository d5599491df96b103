---------------------------- MODULE MCCodeIndex ----------------------------
(***************************************************************************)
(* Instance of CodeIndex for TLC: two files, a content of one chunk, one   *)
(* of two, and one of two that is refused, before its first chunk or       *)
(* before its second.                                                      *)
(***************************************************************************)
EXTENDS CodeIndex

Files == {"a", "b"}
FilesInOrder == [a |-> 1, b |-> 2]
Texts == {"short", "long", "refused"}
ChunkCounts == [short |-> 1, long |-> 2, refused |-> 2]
=============================================================================
