CONSTANTS
    Names <- MCNames
    Words <- MCWords
    Literals <- MCLiterals
    MaxNesting = 120
    Environments <- MCEnvironments
    Trees <- MCTrees
    MaxDepth = 8
    Paths <- MCPaths
    EnvVars = {"SET"}
    AllowedPaths = {"ok", "readonly"}
    WritablePaths = {"ok", "blocked"}
    Events = {"e"}
SPECIFICATION Spec
INVARIANTS TypeOK ChecksHold GuardsRead GuardsDecide FailsAlone OverlayWins
CHECK_DEADLOCK FALSE
