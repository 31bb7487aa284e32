-------------------------------- MODULE IList --------------------------------
(***************************************************************************)
(* The singly linked integer list of src/src/ausearch-int.c, pointer by   *)
(* pointer: nodes live in a heap of Addrs, malloc hands out the lowest     *)
(* free address, and the list is whatever is reachable from head.  The     *)
(* list record is [node, alloc, head, cur, cnt, crash]; crash is "null"  *)
(* once a call has dereferenced a NULL cur, "loops" when sort_by_hits     *)
(* does not end, and "none" otherwise.                                     *)
(*                                                                         *)
(* A client builds a list with ilist_append or ilist_add_if_uniq, walks it *)
(* with ilist_next, orders it with ilist_sort_by_hits and empties it with  *)
(* ilist_clear, in any order.                                              *)
(***************************************************************************)
EXTENDS Integers, Sequences, SequencesExt, FiniteSetsExt

CONSTANTS
    Addrs,          \* the heap: addresses malloc can return
    NULL,           \* the null pointer
    Nums,           \* numbers a caller stores
    Hits,           \* hit counts a caller passes to ilist_append
    MaxSortMoves,   \* node moves after which sort_by_hits is taken to loop
    MaxCnt,         \* bound on cnt, which sort_by_hits raises on every move
    MaxHits,        \* bound on the hits add_if_uniq counts up
    Calls           \* which calls the client makes: a subset of
                    \* {"append", "add_if_uniq", "next", "sort", "clear"}

VARIABLES
    l,      \* the ilist
    call    \* the last call the client made

vars == <<l, call>>

\* The addresses reachable from a, in order, stopping at NULL or after as
\* many steps as there are addresses.
RECURSIVE Reach(_, _, _)
Reach(L, a, n) ==
    IF a = NULL \/ n = 0 THEN <<>> ELSE <<a>> \o Reach(L, L.node[a].next, n - 1)

List(L) == Reach(L, L.head, Cardinality(Addrs))

Nxt(L, a) == L.node[a].next

\* A node that is not allocated; freed memory is never read again, so its
\* contents are forgotten.
Blank == [num |-> 0, hits |-> 0, aux |-> 0, next |-> NULL]

Free(L, S) == [L EXCEPT !.alloc = @ \ S, !.node = [a \in Addrs |-> IF a \in S THEN Blank ELSE @[a]]]

\* ilist_create.
IlistCreate ==
    [node |-> [a \in Addrs |-> Blank],
     alloc |-> {}, head |-> NULL, cur |-> NULL, cnt |-> 0, crash |-> "none"]

(***************************************************************************)
(* ilist_append: a new node at the lowest free address becomes head when  *)
(* the list is empty and is otherwise linked after cur, whatever cur is;  *)
(* it becomes cur.                                                          *)
(***************************************************************************)
IlistAppend(L, num, hits, aux) ==
    LET a == Min(Addrs \ L.alloc)
        L1 == [L EXCEPT !.node[a] = [num |-> num, hits |-> hits, aux |-> aux,
                                     next |-> NULL],
                        !.alloc = @ \cup {a}]
    IN  IF L.head = NULL THEN [L1 EXCEPT !.head = a, !.cur = a, !.cnt = @ + 1]
        ELSE IF L.cur = NULL THEN [L1 EXCEPT !.crash = "null"]
        ELSE [L1 EXCEPT !.node[L.cur].next = a, !.cur = a, !.cnt = @ + 1]

\* ilist_next.
IlistNext(L) == IF L.cur = NULL THEN L ELSE [L EXCEPT !.cur = Nxt(L, L.cur)]

\* Mutant: head and cnt are reset, cur is not.
IlistClearKeepCur(L) ==
    [Free(L, ToSet(List(L))) EXCEPT !.head = NULL, !.cnt = 0]

\* ilist_clear: every node reachable from head is freed.
IlistClear(L) ==
    [Free(L, ToSet(List(L))) EXCEPT !.head = NULL, !.cur = NULL, !.cnt = 0]

(***************************************************************************)
(* ilist_add_if_uniq: walk from head with prev trailing cur.  An equal     *)
(* number gains a hit; a larger one is passed; before a smaller one the    *)
(* new node is inserted: when prev is head, head is set to NULL so that    *)
(* the append makes the node head, else cur is set to prev; the append's   *)
(* node then gets next = cur.  At the end of the list the node is          *)
(* appended.                                                                *)
(***************************************************************************)
\* Mutant: the hit counter is decremented.
RECURSIVE AddWalkDecHits(_, _, _, _, _)
AddWalkDecHits(L, prev, c, num, aux) ==
    IF c = NULL THEN IlistAppend(L, num, 1, aux)
    ELSE IF L.node[c].num = num THEN [L EXCEPT !.node[c].hits = @ - 1]
    ELSE IF num > L.node[c].num THEN AddWalkDecHits(L, c, Nxt(L, c), num, aux)
    ELSE LET L1 == IF prev = L.head THEN [L EXCEPT !.head = NULL]
                   ELSE [L EXCEPT !.cur = prev]
             L2 == IlistAppend(L1, num, 1, aux)
         IN  [L2 EXCEPT !.node[L2.cur].next = c]

RECURSIVE AddWalk(_, _, _, _, _)
AddWalk(L, prev, c, num, aux) ==
    IF c = NULL THEN IlistAppend(L, num, 1, aux)
    ELSE IF L.node[c].num = num THEN [L EXCEPT !.node[c].hits = @ + 1]
    ELSE IF num > L.node[c].num THEN AddWalk(L, c, Nxt(L, c), num, aux)
    ELSE LET L1 == IF prev = L.head THEN [L EXCEPT !.head = NULL]
                   ELSE [L EXCEPT !.cur = prev]
             L2 == IlistAppend(L1, num, 1, aux)
         IN  [L2 EXCEPT !.node[L2.cur].next = c]

IlistAddIfUniq(L, num, aux) == AddWalk(L, L.head, L.head, num, aux)

(***************************************************************************)
(* The loop of ilist_sort_by_hits: a node with fewer hits than the next is *)
(* unlinked (head moves on when it is head, else prev skips it), appended  *)
(* again at the end, freed, and the walk starts over from head.  moves     *)
(* counts the restarts; MaxSortMoves of them mark a loop that does not     *)
(* end ("loops").                                                          *)
(***************************************************************************)
\* Mutant: after a move the walk goes on instead of starting over.
RECURSIVE SortLoopNoRestart(_, _, _, _)
SortLoopNoRestart(L, c, prev, moves) ==
    IF moves >= MaxSortMoves THEN [L EXCEPT !.crash = "loops"]
    ELSE IF c = NULL \/ Nxt(L, c) = NULL THEN L
    ELSE IF L.node[c].hits < L.node[Nxt(L, c)].hits
    THEN LET L1 == IF L.head = c THEN [L EXCEPT !.head = Nxt(L, c)] ELSE L
             L2 == IF prev # NULL THEN [L1 EXCEPT !.node[prev].next = Nxt(L, c)]
                   ELSE L1
             L3 == IlistAppend(L2, L.node[c].num, L.node[c].hits, L.node[c].aux)
         IN  SortLoopNoRestart(Free(L3, {c}), Nxt(L, c), prev, moves + 1)
    ELSE SortLoopNoRestart(L, Nxt(L, c), c, moves)

\* Mutant: the detached node's predecessor is not relinked.
RECURSIVE SortLoopNoUnlink(_, _, _, _)
SortLoopNoUnlink(L, c, prev, moves) ==
    IF moves >= MaxSortMoves THEN [L EXCEPT !.crash = "loops"]
    ELSE IF c = NULL \/ Nxt(L, c) = NULL THEN L
    ELSE IF L.node[c].hits < L.node[Nxt(L, c)].hits
    THEN LET L1 == IF L.head = c THEN [L EXCEPT !.head = Nxt(L, c)] ELSE L
             L3 == IlistAppend(L1, L.node[c].num, L.node[c].hits, L.node[c].aux)
         IN  SortLoopNoUnlink(Free(L3, {c}), L3.head, NULL, moves + 1)
    ELSE SortLoopNoUnlink(L, Nxt(L, c), c, moves)

RECURSIVE SortLoop(_, _, _, _)
SortLoop(L, c, prev, moves) ==
    IF moves >= MaxSortMoves THEN [L EXCEPT !.crash = "loops"]
    ELSE IF c = NULL \/ Nxt(L, c) = NULL THEN L
    ELSE IF L.node[c].hits < L.node[Nxt(L, c)].hits
    THEN LET L1 == IF L.head = c THEN [L EXCEPT !.head = Nxt(L, c)] ELSE L
             L2 == IF prev # NULL THEN [L1 EXCEPT !.node[prev].next = Nxt(L, c)]
                   ELSE L1
             L3 == IlistAppend(L2, L.node[c].num, L.node[c].hits, L.node[c].aux)
         IN  SortLoop(Free(L3, {c}), L3.head, NULL, moves + 1)
    ELSE SortLoop(L, Nxt(L, c), c, moves)

(***************************************************************************)
(* ilist_sort_by_hits: lists of one node are left alone; otherwise, when   *)
(* cur is not the last node, cur and the loop's prev are both set to the   *)
(* last node (prev is not reset before the loop), and the loop runs from  *)
(* head.                                                                    *)
(***************************************************************************)
\* Mutant: the cnt <= 1 early return is dropped.
IlistSortByHitsNoCntCheck(L) ==
    IF L.cur = NULL THEN [L EXCEPT !.crash = "null"]
    ELSE IF Nxt(L, L.cur) = NULL THEN SortLoop(L, L.head, NULL, 0)
    ELSE LET r == Reach(L, L.cur, Cardinality(Addrs))
         IN  SortLoop([L EXCEPT !.cur = r[Len(r)]], L.head, r[Len(r)], 0)

IlistSortByHits(L) ==
    IF L.cnt <= 1 THEN L
    ELSE IF L.cur = NULL THEN [L EXCEPT !.crash = "null"]
    ELSE IF Nxt(L, L.cur) = NULL THEN SortLoop(L, L.head, NULL, 0)
    ELSE LET r == Reach(L, L.cur, Cardinality(Addrs))
         IN  SortLoop([L EXCEPT !.cur = r[Len(r)]], L.head, r[Len(r)], 0)


(***************************************************************************)
(* The client: any call of Calls, while no call has crashed and the heap   *)
(* has an address free for the node a call may allocate.                   *)
(***************************************************************************)
Init == l = IlistCreate /\ call = "create"

\* A call that may malloc a node needs a free address, and raises cnt.
HeapRoom == l.alloc # Addrs /\ l.cnt < MaxCnt

Call(name, L) ==
    /\ name \in Calls /\ l.crash = "none"
    /\ l' = L /\ call' = name

CallAppend == HeapRoom /\ \E n \in Nums, h \in Hits : Call("append", IlistAppend(l, n, h, 0))

CallAddIfUniq ==
    /\ HeapRoom
    /\ \A a \in l.alloc : l.node[a].hits < MaxHits
    /\ \E n \in Nums : Call("add_if_uniq", IlistAddIfUniq(l, n, 0))

CallNext == Call("next", IlistNext(l))

CallSort == HeapRoom /\ Call("sort", IlistSortByHits(l))

CallClear == Call("clear", IlistClear(l))

Next == CallAppend \/ CallAddIfUniq \/ CallNext \/ CallSort \/ CallClear

Spec == Init /\ [][Next]_vars

-----------------------------------------------------------------------------
(***************************************************************************)
(* Properties.                                                              *)
(***************************************************************************)

TypeOK ==
    /\ l.node \in [Addrs -> [num : Nums \cup {0}, hits : Nat, aux : {0},
                             next : Addrs \cup {NULL}]]
    /\ l.alloc \subseteq Addrs
    /\ l.head \in Addrs \cup {NULL} /\ l.cur \in Addrs \cup {NULL}
    /\ l.cnt \in Nat
    /\ l.crash \in {"none", "null", "loops"}

(***************************************************************************)
(* No pointer of the list dangles: head, cur and the next of every node    *)
(* reachable from head are NULL or allocated, across any sequence of       *)
(* appends, inserts, walks, sorts (which free a node per move) and        *)
(* clears.                                                                  *)
(***************************************************************************)
NoDangling ==
    \A p \in {l.head, l.cur} \cup {l.node[a].next : a \in ToSet(List(l))} :
        p \in l.alloc \cup {NULL}

\* The hits the list holds per number: the sum over the nodes reachable
\* from head.
CountsOf(L) ==
    LET r == List(L)
    IN  [n \in Nums |->
           MapThenSumSet(LAMBDA i : IF L.node[r[i]].num = n THEN L.node[r[i]].hits ELSE 0,
                         DOMAIN r)]

Counts == INSTANCE IListCounts WITH counts <- CountsOf(l)

(***************************************************************************)
(* Every call keeps the tally: a number added with some hits (by           *)
(* ilist_append, or with one hit by ilist_add_if_uniq) is found with them  *)
(* by walking the list from head; sorting and walking change no tally.     *)
(***************************************************************************)
CountsRefinement == Counts!Spec

(***************************************************************************)
(* ilist_sort_by_hits leaves the list ordered by hits, most first.         *)
(***************************************************************************)
SortOrders ==
    [][call' = "sort" =>
         LET r == List(l') IN
         \A i \in 1..(Len(r) - 1) : l'.node[r[i]].hits >= l'.node[r[i + 1]].hits]_vars

\* No call dereferences a NULL cur, and every sort ends.
NoCrash == l.crash = "none"

(***************************************************************************)
(* "Insert so list is from low to high": a list built by                    *)
(* ilist_add_if_uniq holds each number once, in increasing order.          *)
(***************************************************************************)
Ascending ==
    LET r == List(l) IN \A i \in 1..(Len(r) - 1) : l.node[r[i]].num < l.node[r[i + 1]].num

====
