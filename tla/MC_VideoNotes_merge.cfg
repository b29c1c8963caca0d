\* The cache instance, checking what spec 8 says of merge.
CONSTANTS
    FileIds = {f1, f2}
    Msgs = {m1}
    ServerMsgs = {m1}
    Promises = {p1}
    Thumbs = {th1, th2}
    Texts <- MCTexts
    EmptyText = ""
    Durations <- RawDurations
    Dims <- RawDims
    Minis <- MCMinis
    NoMini = ""
    IsBot = FALSE
    Absent = Absent
    NoFile = NoFile
    NoThumb = NoThumb
SPECIFICATION Spec
PROPERTIES
    MergeUnifies
