CONSTANTS
    Versions = {2, 3}
    Data = {"a", "b", "c", "d"}
    FileNames = {"launch"}
    SecurityNames = {"fcrt", "odd"}
    Empty = "empty"
    NoHash = NoHash
    NoNand = NoNand
    NoPatch = NoPatch
    NoSection = NoSection
    NoLine = NoLine
    OnefXell = {"c"}
    Platform = "trinity"
    Scenarios <- MCScenarios
    Dumps <- MCDumps
    MaxBuilds = 2
SPECIFICATION Spec
CHECK_DEADLOCK FALSE
INVARIANTS TypeOK ImageAsListed FailsOnlyForMissing PairedWithDump
