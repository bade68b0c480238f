SPECIFICATION Spec
CONSTANTS
    Texts <- MCTexts
    AskedTexts <- MCAskedTexts
    Imports <- MCImports
    Lines <- MCLines
    MaxText = 4
    CommandLines <- MCCommandLines
    InitFiles <- MCInitFiles
    VfsNames = {"a"}
    MAX_INPUT_NESTING = 2
    MaxSignals = 2
    MaxTemps = 1
    Files = {"f", "g", "z"}
    Content <- MCContent
    Unopenable = {"z"}
    Asks = {"unspec", "readonly", "hexdb"}
    NAux = 2
    MaxHandles = 3
    Cells <- MCCells
    Results <- MCResults
    Widths = {0, 1, 2, 3, 4}
    Statements <- MCStatements
    PrettyWidth = 4
    Inputs <- MCInputs
    ExecModes = {"list", "json", "column"}
    MaxDepth = 2
    ParamNames = {"n1"}
    Values = {"v1", "v2"}
    TickLimits = {0, 2}
    MaxTicks = 4
    Databases <- MCDatabases
    Damages = {0, 1, 2}
    Interrupts = TRUE
    Globs <- MCGlobs
    Outputs <- MCOutputs
    UserTests <- MCUserTests
    MaxChanges = 3
    Schemas <- MCSchemas
    Edited <- MCEdited
    HexTexts <- MCHexTexts
    PageMin = 2
    PageMax = 8
    LineBytes = 2
    NPages = 3
    StepPages = 2
    MaxFaults = 2
    Attached <- MCAttached
    Likes = {{"a", "b", "c", "d", "e", "f", "g"}, {"b", "d"}}
    LineWidth = 12
    Hashed <- MCHashed
    SumOptions <- MCSumOptions
INVARIANTS
    
    InputInOrder
    
    
    
    OutputComplete
    
    
