--------------------- MODULE MC_NotificationSettings ------------------------
(* NotificationSettings for TLC with a 10-bit int32: IntMax = 2^9 - 1 and  *)
(* a year of 7 seconds.  The clock reaches the last seconds of int32 time, *)
(* where a precise mute would overflow, and its very end.                   *)
EXTENDS NotificationSettings

MCIntMax == 511
MCMaxPreciseMuteFor == 7
MCClock == {0, 300, 505, 511}
\* Non-positive, precise, the precision bound, just past it, and the
\* largest int32.
MCMuteFors == {-1, 0, 3, 7, 8, 511}
\* Past, in the model's future, and the largest int32.
MCServerMuteUntils == {0, 300, 510, 511}
=============================================================================
