SPECIFICATION Spec
CONSTANTS
    Boards <- MCBoards
    GitBoards <- MCGitBoards
    Sources <- MCSources
    Source <- MCSource
    PkgName <- MCPkgName
    MaxCommits = 1
    MaxInterrupts = 0
INVARIANT DoneMeansImage
