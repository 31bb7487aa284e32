---------------------------- MODULE IListCounts ----------------------------
(***************************************************************************)
(* What the integer list of src/src/ausearch-int.c promises its caller:    *)
(* a tally of hits per number.  Adding a number with some hits raises its  *)
(* tally, clearing empties it; sorting and walking the list do not change  *)
(* it.                                                                     *)
(***************************************************************************)
EXTENDS Naturals

CONSTANTS Nums, Hits

VARIABLE counts

Init == counts = [n \in Nums |-> 0]

Add(n, h) == counts' = [counts EXCEPT ![n] = @ + h]

Reset == counts' = [n \in Nums |-> 0]

Next == \/ \E n \in Nums, h \in Hits \cup {1} : Add(n, h)
        \/ Reset

Spec == Init /\ [][Next]_counts

=============================================================================
