---------------------------- MODULE MC_VideoNotes ----------------------------
(***************************************************************************)
(* Instances of VideoNotes for TLC.  The server's fields are data to the   *)
(* transcription flow, so the transcription run takes one value of each;   *)
(* the cache run takes a negative duration and an oversized dimension so   *)
(* that create_video_note's normalisation is exercised.                    *)
(***************************************************************************)
EXTENDS VideoNotes

MCTexts == {"", "a"}

OneDuration == {5}
OneDims == {<<240, 240>>}

RawDurations == {-1, 5}
RawDims == {<<240, 240>>, <<800, 800>>}

MCMinis == {"m"}
=============================================================================
