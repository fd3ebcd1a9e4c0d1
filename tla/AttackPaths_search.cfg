SPECIFICATION Spec
CONSTANTS
    FindingIds = {f1, f2, f3}
    AssetIds = {a1, a2, a3}
    Categories <- MCCategories
    AssetTypes <- MCAssetTypes
    Scores <- MCScores
SYMMETRY Symmetry
INVARIANTS
    PathsAreReal
    SearchIsComplete
    ShortestPaths
    NothingIsCutOff
    NothingWorseIsMissed
\* The search ends.
CHECK_DEADLOCK FALSE
