CONSTANTS
    Addrs <- MCAddrs
    NULL = NULL
    Nums = {1, 2, 3}
    Hits = {1, 2, 3}
    MaxSortMoves = 12
    MaxCnt = 8
    MaxHits = 3
    Calls = {"add_if_uniq", "clear"}
SPECIFICATION Spec
INVARIANT Ascending
