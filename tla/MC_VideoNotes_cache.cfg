\* Two video notes, raw server fields that need normalising, two thumbnail
\* ids so that a dup of a note with a thumbnail can happen, one message and
\* one promise so that a transcription can be made final before a dup.
CONSTANTS
    FileIds = {f1, f2}
    Msgs = {m1}
    ServerMsgs = {m1}
    Promises = {p1}
    Thumbs = {th1, th2}
    Texts <- MCTexts
    EmptyText = ""
    Durations <- RawDurations
    Dims <- RawDims
    Minis <- MCMinis
    NoMini = ""
    IsBot = FALSE
    Absent = Absent
    NoFile = NoFile
    NoThumb = NoThumb
SPECIFICATION Spec
INVARIANTS
    TypeOK
    ThumbsNotAliased
