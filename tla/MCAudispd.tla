------------------------------ MODULE MCAudispd ------------------------------
(***************************************************************************)
(* Bounds for checking Audispd.  A queue of two messages (CONF_CON_OUT_SZ  *)
(* is 32) is enough to fill it, drop a message, compact it while a message *)
(* is half written, and store at its last slot; two connection slots plus  *)
(* a third connection exercise "Too many connections" and fd reuse.        *)
(***************************************************************************)
EXTENDS Audispd

\* Three messages of one or two body bytes behind a two-byte header, so
\* that a partial write can stop inside the header or inside the body.
\* Junk (0) stands for a zeroed header: hlen and size 0.
MCMsgSize == [k \in 0..3 |-> IF k = 0 THEN 0 ELSE IF k = 2 THEN 2 ELSE 1]

\* One body byte each: fewer partial-write states for the liveness run.
MCMsgSizeOne == [k \in 0..3 |-> IF k = 0 THEN 0 ELSE 1]

====
