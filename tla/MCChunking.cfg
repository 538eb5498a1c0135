SPECIFICATION ChunkSpec
CONSTANTS
    BodyTarget = 5
    BodyMax = 6
    OverlapTarget = 3
    OverlapMax = 4
    Separator = 1
    MaxItems = 4
    Blocks <- MCBlocks
    Headings <- MCHeadings
INVARIANTS
    NothingLost
    WithinBudget
    ChunkIsPassage
    HeadingsAreOpen
CHECK_DEADLOCK FALSE
