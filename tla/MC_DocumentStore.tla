--------------------------- MODULE MC_DocumentStore ---------------------------
(* A model of DocumentStore for TLC: two file ids, two records, a record   *)
(* left by a binary without minithumbnails and one by the first binary     *)
(* with them, and one restart.                                             *)
EXTENDS DocumentStore

MCNoMinithumbnail == ""
MCMinithumbnails == {MCNoMinithumbnail, "m1"}
MCOldVersions == {1, 2}
=============================================================================
