SPECIFICATION MCSpec
CONSTANTS
    Size = 3
    WmRetries = 1
    FileVersions = {1, 2}
    Ranges <- MCRanges
    MaxDownloads = 3
CHECK_DEADLOCK FALSE
INVARIANTS
    TypeOK
    StoredIsFile
    DownloadTypeOK
    SuccessIsWhole
    ResumesOneVersion
    RefusalsUnwritten
    RangesSelect
PROPERTIES
    ImplementsContract
    WritersEnd
    CommitIsFinal
    DownloadEnds
