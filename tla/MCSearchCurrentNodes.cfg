CONSTANTS
    Graphs <- MCGraphs
    Queries <- MCQueries
    CaseFold <- MCCaseFold
    NoNode = NoNode
SPECIFICATION Spec
INVARIANT TypeOK
INVARIANT ItemsMatchQuery
INVARIANT ListHeightBounded
PROPERTY ListFollowsEachInputChange
