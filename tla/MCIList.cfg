CONSTANTS
    Addrs <- MCAddrs
    NULL = NULL
    Nums = {1, 2, 3}
    Hits = {1, 2, 3}
    MaxSortMoves = 12
    MaxCnt = 8
    MaxHits = 3
    Calls = {"append", "add_if_uniq", "next", "sort", "clear"}
SPECIFICATION Spec
INVARIANT TypeOK
INVARIANT NoDangling
CHECK_DEADLOCK FALSE
