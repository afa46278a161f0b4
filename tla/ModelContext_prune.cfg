\* A branch under the root that is compacted and goes on, beside an explored one.
SPECIFICATION ContextSpec
CONSTANTS
    LastContext = 3
    MaxParts = 0
    MaxPrunes = 1
INVARIANT PrunedApart
\* every node may be there
CHECK_DEADLOCK FALSE
