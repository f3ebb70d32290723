SPECIFICATION Spec
CONSTANTS
    Nodes = {n1, n2, n3, n4}
    Kinds = {"regularRisk", "violation"}
    MaxDepth = 3
    MaxBlocks = 1
    UndoDepth = 1
    WithTb = TRUE
    Fragments <- MCFragments
SYMMETRY Same
INVARIANTS TypeOK LevelsFollow
PROPERTIES NoNodeLost DepthKept TbKept BlocksKept RisksStayPlaced SummariesFollow
