CONSTANTS
    Graphs <- MCOneGraph
    Queries <- MCQueries
    CaseFold <- MCCaseFold
    NoNode = NoNode
SPECIFICATION Spec
PROPERTY ImplementsAbstractSearch
