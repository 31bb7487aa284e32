------------------------------- MODULE RList --------------------------------
(***************************************************************************)
(* The search rule list (src/auparse/rlist.c, rlist.h): the rules in       *)
(* insertion order and the list's cursor, an index with 0 for NULL.        *)
(* aurule_append reaches the tail through the cursor, so whether the       *)
(* cursor is NULL when a rule is appended is part of the state.            *)
(***************************************************************************)
EXTENDS Integers, Sequences

\* aurule_create / aurule_clear: no rules, NULL cursor.
AuruleCreate == [items |-> <<>>, cur |-> 0]
AuruleClear(l) == AuruleCreate

\* aurule_first (rlist.h): cursor to the head, NULL for an empty list.
AuruleFirst(l) == [l EXCEPT !.cur = IF l.items = <<>> THEN 0 ELSE 1]

\* aurule_next: advance a non-NULL cursor, NULL past the tail.
AuruleNext(l) ==
    [l EXCEPT !.cur = IF @ = 0 \/ @ = Len(l.items) THEN 0 ELSE @ + 1]

(***************************************************************************)
(* aurule_append dereferences l->cur whenever the list is not empty        *)
(* (l->cur->item, then l->cur->next).  AppendDerefsNull says that it      *)
(* would dereference NULL.                                                 *)
(***************************************************************************)
AppendDerefsNull(l) == l.items # <<>> /\ l.cur = 0

\* aurule_append otherwise: the new node goes at the tail and is current.
AuruleAppend(l, rule) ==
    [items |-> Append(l.items, rule), cur |-> Len(l.items) + 1]

=============================================================================
