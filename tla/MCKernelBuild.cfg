SPECIFICATION Spec
CONSTANTS
    Boards <- MCBoards
    GitBoards <- MCGitBoards
    Sources <- MCSources
    Source <- MCSource
    PkgName <- MCPkgName
    MaxCommits = 2
    MaxInterrupts = 1
INVARIANTS TypeOK NewMeansNew UndisturbedOk DoneIsExact
