CONSTANTS
    PageSize = 8
    Log2Smallest = 1
    NrBuckets = 3
    Header = 1
    SizeMax = 31
    HeapStart = 3
    Bufsiz = 3
    FopenMax = 3
    FileSize = 6
    Newline = 10
    Name = "file"
    Limits = {8, 16, 24}
    Requests = {1, 2, 5, 7, 8, 31}
    MaxCalls = 5
    UserBuf = 100
    LongMax = 31
    IntMax = 15
    ShortMax = 7
    Pprec = 2
    Jobs <- MCJobs
    Contents <- MCContents
    Texts <- MCTexts
    Typed <- MCTyped
SPECIFICATION Spec
INVARIANT Disjoint
INVARIANT Owned
INVARIANT Computes
PROPERTY BuffersDoNotShow
PROPERTY Prompted
CHECK_DEADLOCK FALSE
