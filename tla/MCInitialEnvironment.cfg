CONSTANTS
    ServerLists <- MCServerLists
    MaxRefetches = 2
    None = None
SPECIFICATION Spec
INVARIANT TypeOK
