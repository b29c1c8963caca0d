-------------------------- MODULE MC_EmojiGroupList --------------------------
(* A model of EmojiGroupList for TLC: clock values one hour apart and one *)
(* second off, so that a deadline is met exactly and passed by a second;  *)
(* two group lists on the server; one restart.                            *)
EXTENDS EmojiGroupList

MCClock == {1, 3601, 3602, 7202, 7203}
MCGroupLists == {1, 2}
=============================================================================
