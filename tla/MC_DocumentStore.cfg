CONSTANTS
    FileIds = {f1, f2}
    NoFile = NoFile
    Names = {n1}
    Minithumbnails <- MCMinithumbnails
    NoMinithumbnail <- MCNoMinithumbnail
    Thumbnails = {t1}
    Slots = {s1, s2}
    CurrentVersion = 3
    SupportMinithumbnails = 2
    OldVersions <- MCOldVersions
    MaxRestarts = 1
SPECIFICATION Spec
INVARIANTS
    TypeOK
    ParsedAsStored
