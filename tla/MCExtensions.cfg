SPECIFICATION Spec
CONSTANTS
    NULL = NULL
    NOMEM = NOMEM
    MaxDigit = 40
    ExpCap = 10
    Pow2Cap = 7
    MantBits = 3
    ExpField = 3
    ExpOffset = 6
    ExpLimit = 0
    Literals <- MCLiterals
    Summands <- MCSummands
    Pairs <- MCPairs
    Doubles <- MCDoubles
    Rounds = {0, 1, 3}
    Failures = {"none", "newA", "newB", "A", "B", "mul", "square", "result", "init"}
    MaxSum = 3
    NoUuid = NoUuid
    UuidBytes = 2
    DashBefore = {1}
    VersionByte = 0
    VariantByte = 1
    UuidArgs <- MCUuidArgs
    RandomBlobs <- MCRandom
    NoAddr = NoAddr
    V4Bits = 3
    V6Bytes = 2
    ByteBits = 3
    Addrs <- MCAddrs
    IntBits = 4
    DefaultStop = 6
    RealGap = 1
    Queries <- MCQueries
    Frames <- MCSummands
    MaxFrame = 3
    Strings <- MCStrings
    Mantissas <- MCMantissas
    Exponents <- MCExponents
    ECap = 12
    EZero = 10
    ByteSize = 1
    ShellQueries <- MCShellQueries
    WordBytes = 2
    StateBytes = 12
    HashSizes = {3, 4}
    DefaultSize = 3
    Hashed <- MCHashed
    Sizes = {0, 4, 5}
    Chunks <- MCChunks
    MaxChunks = 3
    SqlArgs <- MCSqlArgs
    Patterns <- MCPatterns
    BadTexts <- MCBad
    Subjects <- MCSubjects
    InitBytes = 12
    NoText = NoText
    Trees <- MCTrees
    Paths <- MCPaths
    Contents <- MCContents
    Umask = {"g"}
    Perms = {{"u", "g"}}
    MTimes <- MCTimes
    IoFaults = {"none", "write", "chmod", "utimes"}
    MaxLinks = 2
    MaxChanges = 1
    Schemas <- MCSchemas
    Keywords <- MCKeywords
    Collated <- MCCollated
    Typed <- MCTyped
    Handles = {c1}
    Originals <- MCOriginals
    Pages = {1, 2}
    RoundUp = 2
    MaxSize = 5
    MaxFile = 7
    Faulty = TRUE
    Tables <- MCTables
    Content <- MCContent
    UserIndexes <- MCUserIndexes
    Triggers <- MCTriggers
    Buffers <- MCBuffers
    Names = 7
    MaxTries = 2
    MaxStatements = 3
    Thread = {"t1", "t2"}
    MaxBusy = 2

    
    
    
PROPERTIES
    AppendIsAFile
    ShimTransparent
