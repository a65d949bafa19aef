SPECIFICATION Spec
CONSTANTS
    Files <- AllFiles
    Envs <- AllEnvs
    Numbers = {"4001", "7001"}
    Durations = {"10s", "15s"}
    RootedPaths = {"/ws", "/"}
    AbsolutePaths = {"/absolute"}
INVARIANTS
    SourcesInOrder
    OnlyCompleteRuns
    PathsFollowFile
