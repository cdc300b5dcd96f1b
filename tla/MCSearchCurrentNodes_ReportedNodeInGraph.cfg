CONSTANTS
    Graphs <- MCGraphs
    Queries <- MCQueries
    CaseFold <- MCCaseFold
    NoNode = NoNode
SPECIFICATION Spec
PROPERTY ReportedNodeInGraph
