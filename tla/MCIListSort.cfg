CONSTANTS
    Addrs <- MCAddrs
    NULL = NULL
    Nums = {1, 2, 3}
    Hits = {1, 2, 3}
    MaxSortMoves = 12
    MaxCnt = 8
    MaxHits = 3
    Calls = {"append", "sort", "clear"}
SPECIFICATION Spec
INVARIANT NoCrash
PROPERTY SortOrders
PROPERTY CountsRefinement
