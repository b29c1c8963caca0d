\* One video note shown by two sent messages, two callers' promises: enough
\* for a promise to join a transcription in flight, for a partial text to
\* change, and for both recognize_speech and rate_speech_recognition to wait.
CONSTANTS
    FileIds = {f1}
    Msgs = {m1, m2}
    ServerMsgs = {m1, m2}
    Promises = {p1, p2}
    Thumbs = {th1}
    Texts <- MCTexts
    EmptyText = ""
    Durations <- OneDuration
    Dims <- OneDims
    Minis <- MCMinis
    NoMini = ""
    IsBot = FALSE
    Absent = Absent
    NoFile = NoFile
    NoThumb = NoThumb
SPECIFICATION Spec
PROPERTIES
    PromisesResolved
