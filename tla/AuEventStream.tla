---------------------------- MODULE AuEventStream ----------------------------
(***************************************************************************)
(* What the event assembler of auparse promises its client, stated over    *)
(* the whole input instead of buffers, offsets and a look-ahead slot: the  *)
(* lines of the source, read in order, are cut into events, each event     *)
(* being a line and the following lines with the same timestamp.           *)
(*                                                                         *)
(* A line whose timestamp cannot be parsed joins the event it is read      *)
(* into; when such a line opens an event the event's timestamp is         *)
(* unspecified (a member of TSVals).  pos counts the lines handed out so  *)
(* far and ev is the event the client holds (<<>> for none).              *)
(***************************************************************************)
EXTENDS Integers, Sequences

CONSTANTS
    Streams,    \* the possible inputs, each a sequence of lines [ts, ...]
    TSVals,     \* the timestamps an event can carry
    NoTS        \* the ts of a line without a parsable timestamp

VARIABLES stream, pos, ev

svars == <<stream, pos, ev>>

\* The timestamp of the event opened by line i, given what an unparsable
\* line leaves it as.
OpenKey(s, i, j) == IF s[i].ts = NoTS THEN j ELSE s[i].ts

\* A line belongs to the event with timestamp k.
Joins(line, k) == line.ts \in {k, NoTS}

\* The last line of the event that opens at line i with timestamp k.
GroupEnd(s, i, k) ==
    CHOOSE n \in i..Len(s) :
        /\ \A m \in (i + 1)..n : Joins(s[m], k)
        /\ n = Len(s) \/ ~Joins(s[n + 1], k)

\* The events that can open at line i.
GroupsAt(s, i) == { SubSeq(s, i, GroupEnd(s, i, OpenKey(s, i, j))) : j \in TSVals }

(***************************************************************************)
(* The positions at which an event can open when reading on from p: p     *)
(* itself and every event boundary after it, up to the end of the input.   *)
(***************************************************************************)
RECURSIVE Boundaries(_, _)
Boundaries(s, p) ==
    IF p >= Len(s) THEN {p}
    ELSE {p} \cup UNION { Boundaries(s, p + Len(g)) : g \in GroupsAt(s, p + 1) }

Init ==
    /\ stream \in Streams
    /\ pos = 0
    /\ ev = <<>>

\* The next event is handed out.
Deliver ==
    /\ pos < Len(stream)
    /\ \E g \in GroupsAt(stream, pos + 1) :
         ev' = g /\ pos' = pos + Len(g)
    /\ UNCHANGED stream

\* The input is used up: the client holds no event.
Exhaust ==
    /\ pos = Len(stream)
    /\ ev' = <<>>
    /\ UNCHANGED <<stream, pos>>

\* A search passes over whole events and stops on a later one, or at the
\* end of the input.
Seek ==
    /\ \E p \in Boundaries(stream, pos) :
         \/ /\ p < Len(stream)
            /\ \E g \in GroupsAt(stream, p + 1) : ev' = g /\ pos' = p + Len(g)
         \/ p = Len(stream) /\ ev' = <<>> /\ pos' = p
    /\ UNCHANGED stream

\* The input is rewound to its first line; the held event is kept.
Rewind ==
    /\ pos' = 0
    /\ UNCHANGED <<stream, ev>>

Next == Deliver \/ Exhaust \/ Seek \/ Rewind

Spec == Init /\ [][Next]_svars

=============================================================================
