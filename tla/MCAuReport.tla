---------------------------- MODULE MCAuReport ----------------------------
(***************************************************************************)
(* Bounds for checking AuReport: three timestamps (0 the all-zero one),   *)
(* the rotated set audit.log, audit.log.1, audit.log.2, and lines shaped   *)
(* like the test logs': two records of one event, an event split by a     *)
(* line without a timestamp, and events of equal timestamps in two files. *)
(***************************************************************************)
EXTENDS AuReport

L(i, t) == [id |-> i, ts |-> t]

MCTSVals == {0, 1, 2}
MCLogFiles == <<"audit.log", "audit.log.1", "audit.log.2">>
MCFileNames == Range(MCLogFiles)

\* Disk(log, log1, log2): the contents of audit.log, .1 and .2.
Disk(a, b, c) == [f \in MCFileNames |->
                     CASE f = "audit.log"   -> a
                       [] f = "audit.log.1" -> b
                       [] OTHER             -> c]

\* Two files, an event of .1 continued at the start of audit.log, and a
\* line without a timestamp inside an event; and one file only, with an
\* all-zero timestamp first.
MCInitDisks ==
    { Disk(<<L(4, 2), L(5, 1)>>, <<L(1, 1), L(2, NoTS), L(3, 2)>>, Gone),
      Disk(<<L(1, 0), L(2, 1), L(3, 1)>>, Gone, Gone) }

\* A rotation just happened: audit.log is empty.
MCInitDisksRotated ==
    { Disk(<<>>, <<L(1, 1), L(2, 1), L(3, 2)>>, Gone) }

MCStdinLines == <<L(1, 2), L(2, NoTS), L(3, 2)>>
MCUserFiles == {"audit.log.1", "audit.log.2"}
MCSources == {"stdin", "file", "logs"}
MCReportTypes == {"time", "summary", "other"}

====
