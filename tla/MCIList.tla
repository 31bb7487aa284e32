------------------------------- MODULE MCIList -------------------------------
(***************************************************************************)
(* Bounds for checking IList: a heap of four nodes holds a list of three   *)
(* and the node sort_by_hits allocates before it frees one.                *)
(***************************************************************************)
EXTENDS IList

MCAddrs == 1..4

====
