\* Two video notes, three messages (two of them sent, one scheduled), two
\* callers' promises, two texts so that a partial text can change.
CONSTANTS
    FileIds = {f1, f2}
    Msgs = {m1, m2, m3}
    ServerMsgs = {m1, m2}
    Promises = {p1, p2}
    Thumbs = {th1}
    Texts <- MCTexts
    EmptyText = ""
    Durations <- OneDuration
    Dims <- OneDims
    Minis <- MCMinis
    NoMini = ""
    IsBot = FALSE
    Absent = Absent
    NoFile = NoFile
    NoThumb = NoThumb
SPECIFICATION Spec
INVARIANTS
    RegistryConsistent
    NoContractViolation
    ViewsFresh
    InFlightExactlyOne
    ResolvedOnce
PROPERTIES
    FinalTranscriptionKept
