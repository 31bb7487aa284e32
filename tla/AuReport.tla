---------------------------- MODULE AuReport ----------------------------
(***************************************************************************)
(* The log reader of aureport, src/src/aureport.c: main picks the input    *)
(* (a pipe on stdin, the file of -if, or the rotated log set), and         *)
(* process_log_fd calls get_record until the file ends.  get_record keeps  *)
(* one line of look-ahead in the static saved_buff and gathers the lines   *)
(* whose timestamp equals the first one's into the event list.  One step   *)
(* is one iteration of process_log_fd's loop, with what follows it when    *)
(* the loop ends: fclose, the per-file summary, and the next file.         *)
(*                                                                         *)
(* A line is [id, ts]: ts is its timestamp (sec.milli:serial as one        *)
(* integer, 0 the all-zero one) or NoTS when extract_timestamp cannot      *)
(* parse it.  scan and per_event_processing (aureport-scan.c, not in the   *)
(* tree) are a free choice of whether an event is of interest.            *)
(***************************************************************************)
EXTENDS Integers, Sequences, SequencesExt

CONSTANTS
    NULL,
    NoTS,          \* the timestamp of a line extract_timestamp cannot parse
    TSVals,        \* timestamps, and the values an unset event can hold
    FileNames,     \* path names on the disk
    Gone,          \* what the disk holds under a name with no file
    LogFiles,      \* log_file, log_file.1, ... as process_logs names them
    InitDisks,     \* the disks aureport may start on
    StdinLines,    \* what a pipe on stdin carries
    UserFiles,     \* the names -if may give
    Sources,       \* "stdin" (a pipe), "file" (-if), "logs"
    ReportTypes,   \* "time", "summary", and a detail report "other"
    MaxDiskFaults  \* rotations and read errors while aureport runs

ASSUME 0 \in TSVals /\ NoTS \notin TSVals /\ MaxDiskFaults \in Nat

VARIABLES
    ar,         \* aureport's globals and process_log_fd's locals
    reported,   \* history: the events handed to scan, in order
    disk,       \* file name -> its lines, or Gone
    disk0,      \* the disk when aureport started
    diskFaults  \* rotations and read errors so far

vars == <<ar, reported, disk, disk0, diskFaults>>

\* fopen(name, "r"): NULL when no file has the name.
FOpen(d, f) == IF d[f] = Gone THEN NULL ELSE [lines |-> d[f], pos |-> 0, err |-> FALSE]

(***************************************************************************)
(* get_record: take saved_buff, else fgets; NULL from fgets is 1 at end of *)
(* file and -1 on an error.  The first line sets the event's timestamp    *)
(* l->e; a line with another timestamp goes to saved_buff and ends the     *)
(* event.  A line without a timestamp leaves the loop-local event e as it  *)
(* was: junk, the stack's value, which the step chooses.                   *)
(***************************************************************************)
\* extract_timestamp and str2event: the line's timestamp, or, when the
\* line has none or it does not parse, the event e as it was.
ExtractTimestamp(line, junk) == IF line.ts = NoTS THEN junk ELSE line.ts

\* events_are_equal: serial, milli and sec all equal.
EventsAreEqual(e1, e2) == e1 = e2

\* A variant that closes the event after each line.
RECURSIVE GatherOneLine(_, _, _, _, _)
GatherOneLine(f, sv, ents, le, junk) ==
    IF sv = NULL /\ (f.err \/ f.pos = Len(f.lines))
    THEN [ret |-> IF f.err THEN -1 ELSE 1, ents |-> ents, e |-> le, fd |-> f, saved |-> NULL]
    ELSE LET line == IF sv # NULL THEN sv ELSE f.lines[f.pos + 1]
             f1   == IF sv # NULL THEN f ELSE [f EXCEPT !.pos = @ + 1]
             e    == ExtractTimestamp(line, junk)
         IN  IF ents = <<>> THEN GatherOneLine(f1, NULL, <<line>>, e, junk)
             ELSE [ret |-> 0, ents |-> ents, e |-> le, fd |-> f1, saved |-> line]

RECURSIVE Gather(_, _, _, _, _)
Gather(f, sv, ents, le, junk) ==
    IF sv = NULL /\ (f.err \/ f.pos = Len(f.lines))
    THEN [ret |-> IF f.err THEN -1 ELSE 1, ents |-> ents, e |-> le, fd |-> f, saved |-> NULL]
    ELSE LET line == IF sv # NULL THEN sv ELSE f.lines[f.pos + 1]
             f1   == IF sv # NULL THEN f ELSE [f EXCEPT !.pos = @ + 1]
             e    == ExtractTimestamp(line, junk)
             le1  == IF ents = <<>> THEN e ELSE le
         IN  IF EventsAreEqual(le1, e) THEN Gather(f1, NULL, Append(ents, line), le1, junk)
             ELSE [ret |-> 0, ents |-> ents, e |-> le1, fd |-> f1, saved |-> line]

GetRecord(f, sv, junk) == Gather(f, sv, <<>>, 0, junk)

\* A variant that does not check fopen's result.
ProcessFileNoCheck(a, name) ==
    [a EXCEPT !.pc = "read", !.fd = FOpen(disk, name), !.fname = name,
              !.first = FALSE, !.lastEv = 0]

\* process_file: fopen, and process_log_fd's set-up of its locals; a
\* failed fopen makes main return 1.
ProcessFile(a, name) ==
    LET f == FOpen(disk, name)
    IN  IF f = NULL THEN [a EXCEPT !.pc = "done", !.rc = 1]
        ELSE [a EXCEPT !.pc = "read", !.fd = f, !.fname = name,
                       !.first = FALSE, !.lastEv = 0]

\* The number of log files access() finds, log_file, log_file.1, ...
Leading(d) == CHOOSE k \in 0..Len(LogFiles) :
                  /\ \A j \in 1..k : d[LogFiles[j]] # Gone
                  /\ k < Len(LogFiles) => d[LogFiles[k + 1]] = Gone

\* main after the input is read: no event of interest in a detailed report
\* other than the time report is exit status 1.
MainTail(a) ==
    [a EXCEPT !.pc = "done",
              !.rc = IF ~a.found /\ a.detailed /\ a.rtype # "time" THEN 1 ELSE 0]

\* main: a pipe on stdin first, then -if, else process_logs, which counts
\* the logs and starts with the oldest.
Start ==
    /\ ar.pc = "main"
    /\ ar' = CASE ar.src = "stdin" ->
                    [ar EXCEPT !.pc = "read", !.fname = "stdin",
                               !.fd = [lines |-> StdinLines, pos |-> 0, err |-> FALSE]]
               [] ar.src = "file" -> ProcessFile(ar, ar.userFile)
               [] OTHER ->
                    LET n == Leading(disk) - 1
                    IN  ProcessFile([ar EXCEPT !.num = n], LogFiles[IF n > 0 THEN n + 1 ELSE 1])
    /\ UNCHANGED <<reported, disk, disk0, diskFaults>>

\* The end of process_log_fd (fclose, very_last_event from last_event),
\* then process_logs' next file, newer by one, or main's tail.
EndFile(a) ==
    LET a1 == [a EXCEPT !.fd = NULL, !.veryLast = a.lastEv]
    IN  IF a.src = "logs" /\ a.num - 1 >= 0
        THEN ProcessFile([a1 EXCEPT !.num = @ - 1], LogFiles[a.num])
        ELSE MainTail(a1)

\* The time and summary reports keep the first and last event of a file,
\* and the first of the run while very_first_event.sec is still 0.
Bookkeep(a, le) ==
    IF a.rtype \notin {"time", "summary"} THEN a
    ELSE [a EXCEPT !.first = TRUE,
                   !.firstEv = IF a.first THEN @ ELSE le,
                   !.veryFirst = IF ~a.first /\ @ = 0 THEN le ELSE @,
                   !.lastEv = le]

\* A variant that ends the loop before keeping the event get_record
\* returned with 1.
ReadRecordDropLast ==
    /\ ar.pc = "read"
    /\ \E junk \in TSVals, hit \in BOOLEAN :
        LET g  == GetRecord(ar.fd, ar.saved, junk)
            a1 == [ar EXCEPT !.fd = g.fd, !.saved = g.saved]
            a2 == [Bookkeep(a1, g.e) EXCEPT !.found = @ \/ hit]
        IN  IF g.ret # 0 \/ g.ents = <<>>
            THEN ar' = EndFile(a1) /\ UNCHANGED reported
            ELSE /\ ar' = a2
                 /\ reported' = Append(reported, [file |-> ar.fname, recs |-> g.ents, e |-> g.e])
    /\ UNCHANGED <<disk, disk0, diskFaults>>

(***************************************************************************)
(* One iteration of process_log_fd's loop: get_record; an error or an      *)
(* empty list ends the loop, else the event is kept, scanned and cleared,  *)
(* and the loop goes on while get_record returned 0.                      *)
(***************************************************************************)
ReadRecord ==
    /\ ar.pc = "read"
    /\ \E junk \in TSVals, hit \in BOOLEAN :
        LET g  == GetRecord(ar.fd, ar.saved, junk)
            a1 == [ar EXCEPT !.fd = g.fd, !.saved = g.saved]
            a2 == [Bookkeep(a1, g.e) EXCEPT !.found = @ \/ hit]
        IN  IF g.ret < 0 \/ g.ents = <<>>
            THEN ar' = EndFile(a1) /\ UNCHANGED reported
            ELSE /\ ar' = IF g.ret = 0 THEN a2 ELSE EndFile(a2)
                 /\ reported' = Append(reported, [file |-> ar.fname, recs |-> g.ents, e |-> g.e])
    /\ UNCHANGED <<disk, disk0, diskFaults>>

Init ==
    /\ disk \in InitDisks
    /\ disk0 = disk
    /\ diskFaults = 0
    /\ reported = <<>>
    /\ \E s \in Sources, uf \in UserFiles, rt \in ReportTypes, det \in BOOLEAN :
        ar = [pc |-> "main", src |-> s, userFile |-> uf, rtype |-> rt, detailed |-> det,
              num |-> 0, fd |-> NULL, fname |-> NULL, saved |-> NULL, first |-> FALSE,
              firstEv |-> 0, lastEv |-> 0, veryFirst |-> 0, veryLast |-> 0,
              found |-> FALSE, rc |-> NULL]

Next == Start \/ ReadRecord

Spec == Init /\ [][Next]_vars

(***************************************************************************)
(* auditd under aureport, bounded by MaxDiskFaults: it rotates the logs    *)
(* (log_file.k becomes log_file.k+1, and a new, empty log_file starts), or *)
(* the next read of the open file fails.                                   *)
(***************************************************************************)
DiskFault == diskFaults < MaxDiskFaults /\ diskFaults' = diskFaults + 1

Rotate ==
    /\ DiskFault
    /\ disk' = [f \in FileNames |->
                  IF f \notin Range(LogFiles) THEN disk[f]
                  ELSE LET k == CHOOSE k \in DOMAIN LogFiles : LogFiles[k] = f
                       IN  IF k = 1 THEN <<>> ELSE disk[LogFiles[k - 1]]]
    /\ UNCHANGED <<ar, reported, disk0>>

ReadError ==
    /\ DiskFault
    /\ ar.fd # NULL
    /\ ar' = [ar EXCEPT !.fd.err = TRUE]
    /\ UNCHANGED <<reported, disk, disk0>>

FaultNext == Next \/ Rotate \/ ReadError

FaultSpec == Init /\ [][FaultNext]_vars

-----------------------------------------------------------------------------
Lines == UNION {UNION {Range(d[f]) : f \in {f \in FileNames : d[f] # Gone}} : d \in InitDisks}
             \cup Range(StdinLines)
Stream == [lines : Seq(Lines), pos : Nat, err : BOOLEAN]

TypeOK ==
    /\ ar.pc \in {"main", "read", "done"}
    /\ ar.pc = "read" => ar.fd \in Stream /\ ar.fd.pos <= Len(ar.fd.lines)
    /\ ar.saved \in Lines \cup {NULL}
    /\ ar.num \in -1..Len(LogFiles) - 1
    /\ {ar.firstEv, ar.lastEv, ar.veryFirst, ar.veryLast} \subseteq TSVals
    /\ ar.rc \in {NULL, 0, 1} /\ (ar.rc = NULL <=> ar.pc # "done")
    /\ \A k \in DOMAIN reported : reported[k].recs \in Seq(Lines) \ {<<>>}

\* What aureport was asked to read, on disk d: the pipe, the -if file, or
\* the logs access() finds, oldest first.
Input(d) ==
    CASE ar.src = "stdin" -> StdinLines
      [] ar.src = "file"  -> d[ar.userFile]
      [] OTHER -> LET n == Leading(d)
                  IN  FlattenSeq([j \in 1..n |-> d[LogFiles[n - j + 1]]])

Parsed(l) == l.ts # NoTS

(***************************************************************************)
(* A report that ends with status 0 has handed every line of its input to  *)
(* scan exactly once and in order: get_record's look-ahead in saved_buff,  *)
(* the last event of a file (get_record returning 1), and process_logs'    *)
(* walk over the rotated files, oldest first, lose and repeat nothing.     *)
(***************************************************************************)
ReportCoversLogs ==
    ar.pc = "done" /\ ar.rc = 0 =>
        FlattenSeq([k \in DOMAIN reported |-> reported[k].recs]) = Input(disk0)

(***************************************************************************)
(* get_record's grouping: the lines of an event that carry a timestamp     *)
(* all carry the same one, and two events read one after the other from   *)
(* the same file are split only where the timestamp changes.              *)
(***************************************************************************)
EventGrouping ==
    /\ \A k \in DOMAIN reported : \A i, j \in DOMAIN reported[k].recs :
          Parsed(reported[k].recs[i]) /\ Parsed(reported[k].recs[j])
             => reported[k].recs[i].ts = reported[k].recs[j].ts
    /\ \A k \in 1..Len(reported) - 1 :
          LET a == Last(reported[k].recs)  b == reported[k + 1].recs[1]
          IN  reported[k].file = reported[k + 1].file /\ Parsed(a) /\ Parsed(b)
                 => a.ts # b.ts

(***************************************************************************)
(* The summary's time range ends at the last event read: very_last_event  *)
(* is copied from the last file's last_event when that file is closed.    *)
(***************************************************************************)
SummaryRangeEndsAtLastEvent ==
    ar.pc = "done" /\ ar.rtype \in {"time", "summary"} /\ reported # <<>>
        => ar.veryLast = Last(reported).e

====
