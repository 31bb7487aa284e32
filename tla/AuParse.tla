------------------------------- MODULE AuParse -------------------------------
(***************************************************************************)
(* The auparse parser state (src/auparse/auparse.c, internal.h) driven by  *)
(* a single client through the library's API, over an in-memory source     *)
(* (AUSOURCE_BUFFER / AUSOURCE_BUFFER_ARRAY), a list of log files          *)
(* (AUSOURCE_FILE / AUSOURCE_FILE_ARRAY / AUSOURCE_LOGS) or an open        *)
(* descriptor (AUSOURCE_DESCRIPTOR).  The files live on a disk that the    *)
(* rest of the system changes while the client reads: a file is unlinked,  *)
(* the logs are rotated, or a read fails.                                  *)
(*                                                                         *)
(* The variable au mirrors auparse_state_t.  Every API function is an      *)
(* operator from a state to [au, rc] (its return value); functions that    *)
(* call one another (ausearch_next_event -> auparse_first_record ->        *)
(* auparse_next_event -> retrieve_next_line) compose the same way, and     *)
(* one call of the API is one step.                                        *)
(***************************************************************************)
EXTENDS Integers, Sequences, SequencesExt, ELList, RList

CONSTANTS
    NULL,       \* the NULL pointer (saved_buf, find_field, a rule value)
    Sources,    \* the buffer arrays auparse_init may be given
    TSVals,     \* the abstract timestamps; 0 is the all-zero triple
    Names,      \* field names a client may search for
    Vals,       \* field values a client may search for
    OpNames,    \* operator strings passed to ausearch_add_item
    Hows,       \* ausearch_rule_t values passed to ausearch_add_item
    Wheres,     \* austop_t values passed to ausearch_set_stop
    MaxRules,   \* bound on the length of the rule list
    SourceKinds,    \* the ausource_t values a client opens the parser with
    FileNames,      \* path names on the disk
    Gone,           \* what the disk holds under a name with no file
    InitDisk,       \* the files on the disk when auparse_init runs
    FileArrays,     \* the file name arrays given to AUSOURCE_FILE_ARRAY
    LogFiles,       \* log_file, log_file.1, ... as load_config names them
    MaxDiskFaults   \* bound on unlinks, rotations and read errors

ASSUME ZeroEvent \in TSVals /\ MaxRules \in Nat \ {0}
ASSUME SourceKinds \subseteq {"buffer", "file", "logs", "descriptor"}
ASSUME LogFiles \in Seq(FileNames) /\ MaxDiskFaults \in Nat

\* A line without a parsable "type=.. msg=audit(..)" prefix: extract_timestamp
\* returns without writing e.
NoTS == -1

\* The NULL source_list[i] that terminates the buffer array.
NoBuf == -1

(***************************************************************************)
(* The enumerations of auparse-defs.h, in declaration order: the code      *)
(* compares them with < and <=.                                            *)
(***************************************************************************)
RULE_CLEAR == 0
RULE_OR == 1
RULE_AND == 2
RULE_REGEX == 3

STOP_EVENT == 0
STOP_RECORD == 1
STOP_FIELD == 2

OP_EXISTS == 1
OP_EQUAL == 2
OP_NOT_EQUAL == 3

VARIABLES
    au,     \* auparse_state_t
    rc,     \* what it returned (1/0/-1; 1 for a non-NULL string)
    fault,  \* "none", or the NULL dereference the last call crashed on
    disk,   \* file name -> its lines, or Gone
    diskFaults  \* unlinks, rotations and read errors so far

vars == <<au, rc, fault, disk, diskFaults>>

-----------------------------------------------------------------------------
(***************************************************************************)
(* The state auparse_init leaves for a source of kind kind: source_list    *)
(* (buffers or file names), the FILE in (NULL, or an open file as the      *)
(* lines it holds, how many were read and whether the next read fails),    *)
(* and alloc, the slots malloc'ed for source_list.                         *)
(***************************************************************************)
AuparseInit(kind, list, in, alloc) ==
    [source |-> kind, sourceList |-> list, in |-> in, alloc |-> alloc,
     listIdx |-> 0, nextBuf |-> NoBuf, off |-> 0,
     saved |-> NULL, le |-> AupListCreate, rules |-> AuruleCreate,
     findField |-> NULL, searchWhere |-> STOP_EVENT,
     searchHow |-> RULE_CLEAR]

\* source_list[i] as the buffer index i, or the NULL terminator.
SourceAt(a, i) == IF i < Len(a.sourceList) THEN i ELSE NoBuf

(***************************************************************************)
(* readline_buf: the next line of next_buf from offset off.  A buffer is   *)
(* the sequence of its newline-separated lines and off counts the lines    *)
(* consumed.                                                               *)
(***************************************************************************)
ReadlineBuf(a) ==
    LET buf == a.sourceList[a.nextBuf + 1]
    IN  IF a.off < Len(buf)
        THEN [au |-> [a EXCEPT !.off = @ + 1], rc |-> 1, line |-> buf[a.off + 1]]
        ELSE [au |-> a, rc |-> 0, line |-> NULL]

\* Variant of BufLoop that moves to the next buffer without zeroing off.
RECURSIVE BufLoopKeepOff(_)
BufLoopKeepOff(a) ==
    IF a.nextBuf = NoBuf THEN [au |-> a, rc |-> 0, line |-> NULL]
    ELSE LET r == ReadlineBuf(a)
         IN  IF r.rc > 0 THEN r
             ELSE BufLoopKeepOff([a EXCEPT !.listIdx = @ + 1,
                                           !.nextBuf = SourceAt(a, a.listIdx + 1)])

(***************************************************************************)
(* retrieve_next_line for buffer sources: next_buf is taken from           *)
(* source_list[0] only while list_idx = 0 and next_buf is NULL; an         *)
(* exhausted buffer moves on to the next one.                              *)
(***************************************************************************)
RECURSIVE BufLoop(_)
BufLoop(a) ==
    IF a.nextBuf = NoBuf THEN [au |-> a, rc |-> 0, line |-> NULL]
    ELSE LET r == ReadlineBuf(a)
         IN  IF r.rc > 0 THEN r
             ELSE BufLoop([a EXCEPT !.off = 0, !.listIdx = @ + 1,
                                    !.nextBuf = SourceAt(a, a.listIdx + 1)])

\* fopen(f, "r") on disk d: NULL when no file has the name.
FOpen(d, f) == IF d[f] = Gone THEN NULL ELSE [lines |-> d[f], pos |-> 0, err |-> FALSE]

(***************************************************************************)
(* readline_file: getline on in.  A failed read (not at end of file)       *)
(* returns -1; the failure is the one the disk had pending, and the next   *)
(* read is tried afresh.                                                   *)
(***************************************************************************)
ReadlineFile(a) ==
    CASE a.in.err -> [au |-> [a EXCEPT !.in.err = FALSE], rc |-> -1, line |-> NULL]
      [] a.in.pos < Len(a.in.lines) ->
            [au |-> [a EXCEPT !.in.pos = @ + 1], rc |-> 1, line |-> a.in.lines[a.in.pos + 1]]
      [] OTHER -> [au |-> a, rc |-> 0, line |-> NULL]

(***************************************************************************)
(* The while (au->in) loop of retrieve_next_line for file sources: at end  *)
(* of file the file is closed, list_idx moves on and the next name is      *)
(* opened; if that fopen fails the call returns -1 with in NULL and        *)
(* list_idx past the first file, so the loop is never entered again.       *)
(***************************************************************************)
RECURSIVE FileLoop(_)
FileLoop(a) ==
    IF a.in = NULL THEN [au |-> a, rc |-> 0, line |-> NULL]
    ELSE LET r  == ReadlineFile(a)
             a1 == [a EXCEPT !.in = NULL, !.listIdx = @ + 1]
             f  == FOpen(disk, a.sourceList[a1.listIdx + 1])
         IN  CASE r.rc # 0 -> r
               [] a1.listIdx >= Len(a.sourceList) -> [au |-> a1, rc |-> 0, line |-> NULL]
               [] f = NULL -> [au |-> a1, rc |-> -1, line |-> NULL]
               [] OTHER -> FileLoop([a1 EXCEPT !.in = f])

(***************************************************************************)
(* retrieve_next_line.  A descriptor source is never read.  The first     *)
(* file is opened while list_idx = 0 and in is NULL; next_buf is taken    *)
(* from source_list[0] while list_idx = 0 and next_buf is NULL.            *)
(***************************************************************************)
RetrieveNextLine(a) ==
    CASE a.source = "descriptor" -> [au |-> a, rc |-> 0, line |-> NULL]
      [] a.source \in {"file", "logs"} ->
            IF a.listIdx = 0 /\ a.in = NULL
            THEN LET f == FOpen(disk, a.sourceList[1])
                 IN  IF f = NULL THEN [au |-> a, rc |-> -1, line |-> NULL]
                     ELSE FileLoop([a EXCEPT !.in = f])
            ELSE FileLoop(a)
      [] OTHER ->
            BufLoop(IF a.listIdx = 0 /\ a.nextBuf = NoBuf
                    THEN [a EXCEPT !.nextBuf = SourceAt(a, 0)] ELSE a)

\* Variant of extract_timestamp that zeroes e for a line it cannot parse.
ExtractTimestampZero(line, e) == IF line.ts = NoTS THEN ZeroEvent ELSE line.ts

\* extract_timestamp: the line's timestamp, or e unwritten.
ExtractTimestamp(line, e) == IF line.ts = NoTS THEN e ELSE line.ts

\* The reset_current tail of auparse_next_event.
ResetCurrent(a) ==
    [au |-> [a EXCEPT !.le = AupListFirstField(AupListFirst(@))],
     rc |-> IF a.le.recs # <<>> THEN 1 ELSE 0]

\* Variant of the do-loop that sets the event's timestamp on every line, not
\* only while the list is empty.
RECURSIVE GatherSetAlways(_, _, _)
GatherSetAlways(a, line, e0) ==
    LET e  == ExtractTimestamp(line, e0)
        a1 == [a EXCEPT !.le = AupListSetEvent(@, e)]
    IN  IF e = a1.le.e
        THEN LET nx == RetrieveNextLine([a1 EXCEPT !.le = AupListAppend(@, line)])
             IN  CASE nx.rc < 0 -> [au |-> nx.au, rc |-> nx.rc]
                   [] nx.rc = 0 -> ResetCurrent(nx.au)
                   [] OTHER -> GatherSetAlways(nx.au, nx.line, e)
        ELSE ResetCurrent([a1 EXCEPT !.saved = line])

\* Variant of the do-loop that ends the event, as at end of input, when
\* retrieve_next_line fails.
RECURSIVE GatherErrorAsEnd(_, _, _)
GatherErrorAsEnd(a, line, e0) ==
    LET e  == ExtractTimestamp(line, e0)
        a1 == IF a.le.recs = <<>> THEN [a EXCEPT !.le = AupListSetEvent(@, e)]
              ELSE a
    IN  IF e = a1.le.e
        THEN LET nx == RetrieveNextLine([a1 EXCEPT !.le = AupListAppend(@, line)])
             IN  IF nx.rc <= 0 THEN ResetCurrent(nx.au)
                 ELSE GatherErrorAsEnd(nx.au, nx.line, e)
        ELSE ResetCurrent([a1 EXCEPT !.saved = line])

(***************************************************************************)
(* The do-loop of auparse_next_event with line in cur_buf.  e is the       *)
(* loop's local au_event_t; it is never initialised, so for a line that    *)
(* extract_timestamp cannot parse it keeps what the slot held: the         *)
(* previous iteration's timestamp, or junk on the first iteration.         *)
(***************************************************************************)
RECURSIVE Gather(_, _, _)
Gather(a, line, e0) ==
    LET e  == ExtractTimestamp(line, e0)
        a1 == IF a.le.recs = <<>> THEN [a EXCEPT !.le = AupListSetEvent(@, e)]
              ELSE a
    IN  IF e = a1.le.e
        THEN LET nx == RetrieveNextLine([a1 EXCEPT !.le = AupListAppend(@, line)])
             IN  CASE nx.rc < 0 -> [au |-> nx.au, rc |-> nx.rc]
                   [] nx.rc = 0 -> ResetCurrent(nx.au)
                   [] OTHER -> Gather(nx.au, nx.line, e)
        ELSE ResetCurrent([a1 EXCEPT !.saved = line])

\* auparse_next_event; junk is what e holds before its first write.
NextEventOp(a, junk) ==
    LET a1 == [a EXCEPT !.le = AupListClear(@)]
        got == IF a.saved # NULL
               THEN [au |-> [a1 EXCEPT !.saved = NULL], rc |-> 1, line |-> a.saved]
               ELSE RetrieveNextLine(a1)
    IN  IF got.rc <= 0 THEN [au |-> got.au, rc |-> got.rc]
        ELSE Gather(got.au, got.line, junk)

\* auparse_first_record: loads an event first when none is loaded.
FirstRecordOp(a, junk) ==
    LET b == IF a.le.recs = <<>> THEN NextEventOp(a, junk) ELSE [au |-> a, rc |-> 1]
    IN  IF b.rc <= 0 THEN b
        ELSE [au |-> [b.au EXCEPT !.le = AupListFirst(@)], rc |-> 1]

\* auparse_next_record: after a lazy first_record, advance the cursor.
NextRecordOp(a, junk) ==
    LET b == IF a.le.recs = <<>> THEN FirstRecordOp(a, junk) ELSE [au |-> a, rc |-> 1]
        l == AupListNext(b.au.le)
    IN  IF b.rc <= 0 THEN b
        ELSE [au |-> [b.au EXCEPT !.le = l], rc |-> IF l.cur # 0 THEN 1 ELSE 0]

\* auparse_first_field
FirstFieldOp(a) ==
    [au |-> [a EXCEPT !.le = AupListFirstField(@)], rc |-> IF a.le.cur # 0 THEN 1 ELSE 0]

\* auparse_next_field
NextFieldOp(a) ==
    IF a.le.cur = 0 THEN [au |-> a, rc |-> 0]
    ELSE LET r == NvlistNext(a.le.recs[a.le.cur])
         IN  [au |-> [a EXCEPT !.le.recs[a.le.cur] = r], rc |-> IF r.nvcur # 0 THEN 1 ELSE 0]

(***************************************************************************)
(* The scan of auparse_find_field_next from the record cursor on: in each  *)
(* record the field cursor either stops on a field with the name or runs  *)
(* off the end (to NULL) before the record cursor moves on.               *)
(***************************************************************************)
RECURSIVE ScanRecords(_, _)
ScanRecords(l, name) ==
    IF l.cur = 0 THEN [le |-> l, rc |-> 0]
    ELSE LET i == NvlistFindName(l.recs[l.cur], name)
         IN  IF i # 0 THEN [le |-> [l EXCEPT !.recs[l.cur].nvcur = i], rc |-> 1]
             ELSE ScanRecords(AupListNext([l EXCEPT !.recs[l.cur].nvcur = 0]), name)

\* Variant of auparse_find_field_next that scans from the first record.
FindFieldNextOpFromFirst(a) ==
    IF a.findField = NULL THEN [au |-> a, rc |-> -1]
    ELSE IF a.le.e = ZeroEvent THEN [au |-> a, rc |-> 0]
    ELSE LET s == ScanRecords(AupListFirst(a.le), a.findField)
         IN  [au |-> [a EXCEPT !.le = s.le], rc |-> s.rc]

\* auparse_find_field_next; only an event with non-zero seconds is scanned.
FindFieldNextOp(a) ==
    IF a.findField = NULL THEN [au |-> a, rc |-> -1]
    ELSE IF a.le.e = ZeroEvent THEN [au |-> a, rc |-> 0]
    ELSE LET s == ScanRecords(a.le, a.findField)
         IN  [au |-> [a EXCEPT !.le = s.le], rc |-> s.rc]

\* auparse_find_field: remember the name, then find_field_next.
FindFieldOp(a, name) == FindFieldNextOp([a EXCEPT !.findField = name])

(***************************************************************************)
(* auparse_reset: a file source closes in, a descriptor is rewound, and    *)
(* every source has list_idx and off set to 0.  Nothing else is reset.    *)
(***************************************************************************)
AuparseReset(a) ==
    LET in == CASE a.source \in {"file", "logs"} -> NULL
                [] a.source = "descriptor" /\ a.in # NULL -> [a.in EXCEPT !.pos = 0]
                [] OTHER -> a.in
    IN  [a EXCEPT !.in = in, !.listIdx = 0, !.off = 0]

-----------------------------------------------------------------------------
(* The search layer *)

\* lookup_op: -1 for an operator string not in optab.
LookupOp(op) ==
    CASE op = "exists" -> OP_EXISTS
      [] op = "="      -> OP_EQUAL
      [] op = "!="     -> OP_NOT_EQUAL
      [] OTHER         -> -1

(***************************************************************************)
(* ausearch_add_item.  The check meant for lookup_op's result tests the    *)
(* pointer op, so an unknown operator is not rejected.  A CLEAR request    *)
(* empties the list before the value is checked.                          *)
(***************************************************************************)
AddItemOp(a, field, op, value, how) ==
    LET t_op == LookupOp(op)
        a1   == IF how = RULE_CLEAR THEN [a EXCEPT !.rules = AuruleClear(@)] ELSE a
        rule == [field |-> field, op |-> t_op,
                 val |-> IF t_op = OP_EXISTS THEN NULL ELSE value]
    IN  CASE field = NULL \/ a.searchHow = RULE_REGEX
                \/ how < RULE_CLEAR \/ how > RULE_AND ->
               [au |-> a, rc |-> -1, fault |-> "none"]
          [] how # RULE_CLEAR /\ how # a.searchHow /\ a.searchHow # RULE_CLEAR ->
               [au |-> a, rc |-> -1, fault |-> "none"]
          [] t_op # OP_EXISTS /\ value = NULL ->
               [au |-> a1, rc |-> -1, fault |-> "none"]
          [] AppendDerefsNull(a1.rules) ->
               [au |-> a1, rc |-> -1, fault |-> "aurule_append"]
          [] OTHER ->
               [au |-> [a1 EXCEPT !.rules = AuruleAppend(@, rule), !.searchHow = how],
                rc |-> 0, fault |-> "none"]

\* ausearch_set_stop
SetStopOp(a, where) ==
    IF where < STOP_EVENT \/ where > STOP_FIELD THEN [au |-> a, rc |-> -1]
    ELSE [au |-> [a EXCEPT !.searchWhere = where], rc |-> 0]

\* ausearch_clear
SearchClearOp(a) ==
    [a EXCEPT !.rules = AuruleClear(@), !.searchWhere = STOP_EVENT,
              !.searchHow = RULE_CLEAR]

(***************************************************************************)
(* The rule loop of ausearch_compare over record r from the rule under    *)
(* the rule cursor.  nvlist_find_name moves r's field cursor; an exists    *)
(* rule whose field is present returns 1 whatever the mode.                *)
(***************************************************************************)
\* Variant of ausearch_compare's rule loop without the AND-mode exit on a
\* rule that fails: the loop runs to the last rule and reports a match.
RECURSIVE CompareFromNoAndExit(_, _, _)
CompareFromNoAndExit(r, rl, how) ==
    LET rule == rl.items[rl.cur]
        i    == NvlistFindName(r, rule.field)
        r1   == IF i # 0 THEN [r EXCEPT !.nvcur = i] ELSE r
        tmp  == IF i = 0 THEN FALSE
                ELSE IF rule.op = OP_EQUAL THEN rule.val = r.nv[i].val
                ELSE rule.val # r.nv[i].val
        nxt  == AuruleNext(rl)
    IN  CASE i # 0 /\ rule.op = OP_EXISTS -> [rc |-> 1, r |-> r1, rules |-> rl]
          [] how # RULE_AND /\ how <= RULE_OR /\ tmp ->
                                             [rc |-> 1, r |-> r1, rules |-> rl]
          [] nxt.cur = 0 -> [rc |-> IF how = RULE_AND THEN 1 ELSE 0,
                             r |-> r1, rules |-> nxt]
          [] OTHER -> CompareFromNoAndExit(r1, nxt, how)

RECURSIVE CompareFrom(_, _, _)
CompareFrom(r, rl, how) ==
    LET rule == rl.items[rl.cur]
        i    == NvlistFindName(r, rule.field)
        r1   == IF i # 0 THEN [r EXCEPT !.nvcur = i] ELSE r
        tmp  == IF i = 0 THEN FALSE
                ELSE IF rule.op = OP_EQUAL THEN rule.val = r.nv[i].val
                ELSE rule.val # r.nv[i].val
        nxt  == AuruleNext(rl)
    IN  CASE i # 0 /\ rule.op = OP_EXISTS -> [rc |-> 1, r |-> r1, rules |-> rl]
          [] how = RULE_AND /\ ~tmp       -> [rc |-> 0, r |-> r1, rules |-> rl]
          [] how # RULE_AND /\ how <= RULE_OR /\ tmp ->
                                             [rc |-> 1, r |-> r1, rules |-> rl]
          [] nxt.cur = 0 -> [rc |-> IF how = RULE_AND THEN 1 ELSE 0,
                             r |-> r1, rules |-> nxt]
          [] OTHER -> CompareFrom(r1, nxt, how)

\* ausearch_compare on the record under the record cursor.
AusearchCompare(a) ==
    LET rl == AuruleFirst(a.rules)
        c  == CompareFrom(a.le.recs[a.le.cur], rl, a.searchHow)
    IN  CASE a.searchHow = RULE_REGEX -> [au |-> a, rc |-> -1]
          [] a.le.cur = 0 -> [au |-> a, rc |-> 0]
          [] rl.cur = 0 -> [au |-> [a EXCEPT !.rules = rl],
                            rc |-> IF a.searchHow = RULE_AND THEN 1 ELSE 0]
          [] OTHER -> [au |-> [a EXCEPT !.le.recs[a.le.cur] = c.r, !.rules = c.rules],
                       rc |-> c.rc]

\* Variant of ausearch_reposition_cursors that leaves STOP_RECORD where
\* the compare stopped, as STOP_FIELD does.
RepositionRecordAsField(a) ==
    CASE a.searchWhere = STOP_EVENT ->
             [a EXCEPT !.le = AupListFirstField(AupListFirst(@))]
      [] OTHER -> a

\* ausearch_reposition_cursors
Reposition(a) ==
    CASE a.searchWhere = STOP_EVENT ->
             [a EXCEPT !.le = AupListFirstField(AupListFirst(@))]
      [] a.searchWhere = STOP_RECORD -> [a EXCEPT !.le = AupListFirstField(@)]
      [] OTHER -> a

(***************************************************************************)
(* The two loops of ausearch_next_event from the current record:          *)
(* compare, else the next record (auparse_next_record with an event        *)
(* loaded), else the next event.                                           *)
(***************************************************************************)
RECURSIVE SearchLoop(_, _)
SearchLoop(a, junk) ==
    LET c  == AusearchCompare(a)
        nl == AupListNext(c.au.le)
        ne == NextEventOp([c.au EXCEPT !.le = nl], junk)
    IN  CASE c.rc > 0 -> [au |-> Reposition(c.au), rc |-> 1]
          [] c.rc < 0 -> c
          [] nl.cur # 0 -> SearchLoop([c.au EXCEPT !.le = nl], junk)
          [] ne.rc > 0 -> SearchLoop(ne.au, junk)
          [] OTHER -> ne

\* ausearch_next_event
SearchNextEventOp(a, junk) ==
    LET f == FirstRecordOp(a, junk)
    IN  CASE a.rules.items = <<>> -> [au |-> a, rc |-> -1]
          [] f.rc <= 0 -> f
          [] OTHER -> SearchLoop(f.au, junk)

-----------------------------------------------------------------------------
(* The client: one API call per step.  A crashed process takes no step. *)

Live == fault = "none"

Return(r) == au' = r.au /\ rc' = r.rc /\ UNCHANGED <<fault, disk, diskFaults>>

(***************************************************************************)
(* setup_log_file_array on disk d: log_file, log_file.1, ... are probed    *)
(* with access() until one is missing, num is one less than the number     *)
(* found, num + 2 slots are malloc'ed and the names are written oldest     *)
(* first, then the NULL.  With no log file num is -1: log_file and the     *)
(* NULL are written into the one slot allocated.                           *)
(***************************************************************************)
SetupLogFileArray(d) ==
    LET found == CHOOSE k \in 0..Len(LogFiles) :
                    /\ \A j \in 1..k : d[LogFiles[j]] # Gone
                    /\ k < Len(LogFiles) => d[LogFiles[k + 1]] = Gone
        num   == found - 1
    IN  [list  |-> IF num < 0 THEN <<LogFiles[1]>>
                   ELSE [j \in 1..found |-> LogFiles[found - j + 1]],
         alloc |-> num + 2]

(***************************************************************************)
(* The parsers auparse_init returns (it returns NULL, and the client has   *)
(* no parser, when a named file is not readable).  AUSOURCE_FILE is the    *)
(* one-name FILE_ARRAY; AUSOURCE_DESCRIPTOR fdopens a file the client     *)
(* opened.                                                                 *)
(***************************************************************************)
InitParsers ==
    LET logs == SetupLogFileArray(InitDisk)
    IN  { AuparseInit("buffer", src, NULL, Len(src) + 1) :
            src \in IF "buffer" \in SourceKinds THEN Sources ELSE {} }
        \cup { AuparseInit("file", fa, NULL, Len(fa) + 1) :
                 fa \in { fa \in FileArrays : "file" \in SourceKinds
                                              /\ \A i \in DOMAIN fa : InitDisk[fa[i]] # Gone } }
        \cup (IF "logs" \in SourceKinds
               THEN {AuparseInit("logs", logs.list, NULL, logs.alloc)} ELSE {})
        \cup { AuparseInit("descriptor", <<>>, FOpen(InitDisk, fa[1]), 0) :
                 fa \in { fa \in FileArrays : "descriptor" \in SourceKinds
                                              /\ InitDisk[fa[1]] # Gone } }

Init ==
    /\ disk = InitDisk /\ diskFaults = 0
    /\ au \in InitParsers
    /\ rc = 1 /\ fault = "none"

NextEvent ==
    Live /\ \E j \in TSVals : Return(NextEventOp(au, j))

FirstRecord ==
    Live /\ \E j \in TSVals : Return(FirstRecordOp(au, j))

NextRecord ==
    Live /\ \E j \in TSVals : Return(NextRecordOp(au, j))

FirstField == Live /\ Return(FirstFieldOp(au))

NextField == Live /\ Return(NextFieldOp(au))

FindField ==
    Live /\ \E n \in Names : Return(FindFieldOp(au, n))

FindFieldNext == Live /\ Return(FindFieldNextOp(au))

Reset == Live /\ Return([au |-> AuparseReset(au), rc |-> 0])

\* The rule list is bounded by MaxRules; a CLEAR request is always allowed.
AddItem ==
    /\ Live
    /\ \E f \in Names \cup {NULL}, op \in OpNames, v \in Vals \cup {NULL},
          how \in Hows :
         /\ how = RULE_CLEAR \/ Len(au.rules.items) < MaxRules
         /\ LET r == AddItemOp(au, f, op, v, how)
            IN  au' = r.au /\ rc' = r.rc /\ fault' = r.fault
         /\ UNCHANGED <<disk, diskFaults>>

\* ausearch_add_regex: every path ends at err_out.
AddRegex == Live /\ Return([au |-> au, rc |-> -1])

SetStop ==
    Live /\ \E w \in Wheres : Return(SetStopOp(au, w))

SearchClear ==
    Live /\ Return([au |-> SearchClearOp(au), rc |-> 0])

SearchNextEvent ==
    Live /\ \E j \in TSVals :
        Return(SearchNextEventOp(au, j))

-----------------------------------------------------------------------------
(* The disk under the client, bounded by MaxDiskFaults. *)

DiskFault == diskFaults < MaxDiskFaults /\ diskFaults' = diskFaults + 1
                /\ UNCHANGED <<rc, fault>>

\* A file is unlinked; a FILE already open on it reads on.
Unlink ==
    /\ DiskFault
    /\ \E f \in FileNames : disk[f] # Gone /\ disk' = [disk EXCEPT ![f] = Gone]
    /\ UNCHANGED au

(***************************************************************************)
(* auditd rotates the logs: log_file.k becomes log_file.k+1, the oldest    *)
(* falls off and log_file starts empty.  An open FILE keeps its file.      *)
(***************************************************************************)
Rotate ==
    /\ DiskFault
    /\ LogFiles # <<>>
    /\ disk' = [f \in FileNames |->
                  IF f \notin Range(LogFiles) THEN disk[f]
                  ELSE LET k == CHOOSE k \in DOMAIN LogFiles : LogFiles[k] = f
                       IN  IF k = 1 THEN <<>> ELSE disk[LogFiles[k - 1]]]
    /\ UNCHANGED au

\* The next read of the open file fails (EIO).
ReadError ==
    /\ DiskFault
    /\ au.in # NULL /\ ~au.in.err
    /\ au' = [au EXCEPT !.in.err = TRUE]
    /\ UNCHANGED disk

DiskNext == Unlink \/ Rotate \/ ReadError

(***************************************************************************)
(* The clients the runs drive: one that reads the event stream without     *)
(* rewinding it, one that also rewinds it, and one that searches it (with  *)
(* the plain next_event a search client calls between matches).           *)
(***************************************************************************)
ReadNext ==
    \/ NextEvent \/ FirstRecord \/ NextRecord \/ FirstField \/ NextField
    \/ FindField \/ FindFieldNext

TraverseNext == ReadNext \/ Reset \/ DiskNext

SearchNext ==
    \/ AddItem \/ AddRegex \/ SetStop \/ SearchClear \/ SearchNextEvent
    \/ NextEvent

Next == TraverseNext \/ SearchNext

Spec == Init /\ [][Next]_vars

ReadSpec     == Init /\ [][ReadNext]_vars
TraverseSpec == Init /\ [][TraverseNext]_vars
SearchSpec   == Init /\ [][SearchNext]_vars

-----------------------------------------------------------------------------
(* Properties *)

\* Every line some source or file holds.
SourceLines ==
    UNION {ToSet(FlattenSeq(src)) : src \in Sources}
    \cup UNION {ToSet(InitDisk[f]) : f \in {f \in FileNames : InitDisk[f] # Gone}}

\* Every variable keeps the shape of the C structure it models.
TypeOK ==
    /\ au.source \in SourceKinds
    /\ au.sourceList \in Sources \cup Seq(FileNames)
    /\ au.in \in {NULL} \cup [lines : Seq(SourceLines), pos : Nat, err : BOOLEAN]
    /\ au.alloc \in Nat
    /\ au.listIdx \in 0..Len(au.sourceList)
    /\ au.nextBuf \in {NoBuf} \cup 0..(Len(au.sourceList) - 1)
    /\ au.off \in Nat
    /\ au.saved \in SourceLines \cup {NULL}
    /\ au.le.e \in TSVals
    /\ au.le.cur \in 0..Len(au.le.recs)
    /\ \A i \in DOMAIN au.le.recs :
          /\ au.le.recs[i].line \in SourceLines
          /\ au.le.recs[i].nvcur \in 0..Len(au.le.recs[i].nv)
    /\ Len(au.rules.items) <= MaxRules
    /\ au.rules.cur \in 0..Len(au.rules.items)
    /\ \A i \in DOMAIN au.rules.items :
          /\ au.rules.items[i].field \in Names
          /\ au.rules.items[i].op \in {-1, OP_EXISTS, OP_EQUAL, OP_NOT_EQUAL}
          /\ au.rules.items[i].val \in Vals \cup {NULL}
    /\ au.findField \in Names \cup {NULL}
    /\ au.searchWhere \in {STOP_EVENT, STOP_RECORD, STOP_FIELD}
    /\ au.searchHow \in {RULE_CLEAR, RULE_OR, RULE_AND}
    /\ rc \in {-1, 0, 1}
    /\ fault \in {"none", "aurule_append"}
    /\ disk \in [FileNames -> Seq(SourceLines) \cup {Gone}]
    /\ diskFaults \in 0..MaxDiskFaults

-----------------------------------------------------------------------------
(* Helpers of the properties *)

\* The lines of the event in hand, in record order.
EventLines(l) == [i \in DOMAIN l.recs |-> l.recs[i].line]

\* The lines readline_buf has handed out: whole buffers before list_idx,
\* then off lines of the current one.
LinesRead(a) == Len(FlattenSeq(SubSeq(a.sourceList, 1, a.listIdx))) + a.off

\* The lines auparse_next_event has consumed: read, less the one it holds
\* back in saved_buf.
Consumed(a) == LinesRead(a) - (IF a.saved = NULL THEN 0 ELSE 1)

\* The field cursor is on a field, and that field.
OnAField(l) == l.cur # 0 /\ l.recs[l.cur].nvcur # 0
CurField(l) == l.recs[l.cur].nv[l.recs[l.cur].nvcur]

\* The fields a scan from the cursor to the end of the event has ahead of
\* it: the rest of the current record and every field of the later ones.
FieldsAhead(l) ==
    IF l.cur = 0 THEN {}
    ELSE LET r == l.recs[l.cur]
         IN  { r.nv[k] : k \in IF r.nvcur = 0 THEN {} ELSE r.nvcur..Len(r.nv) }
             \cup UNION { ToSet(l.recs[i].nv) : i \in (l.cur + 1)..Len(l.recs) }

\* A field satisfies a rule, as section 4.4 of the design defines it.
Sat(f, rule) ==
    /\ f.name = rule.field
    /\ CASE rule.op = OP_EXISTS -> TRUE
         [] rule.op = OP_EQUAL  -> f.val = rule.val
         [] OTHER               -> f.val # rule.val

\* A record's fields satisfy the rule list: every rule (AND) or one (OR).
RecordMatches(fields, rules, how) ==
    IF how = RULE_AND
    THEN \A i \in DOMAIN rules : \E k \in DOMAIN fields : Sat(fields[k], rules[i])
    ELSE \E i \in DOMAIN rules : \E k \in DOMAIN fields : Sat(fields[k], rules[i])

\* The lines a search has still to look at: the event in hand, then the
\* input not yet consumed.
Unsearched(a) ==
    LET s == FlattenSeq(a.sourceList)
    IN  EventLines(a.le) \o SubSeq(s, Consumed(a) + 1, Len(s))

-----------------------------------------------------------------------------
(* Safety of the event assembler *)

(***************************************************************************)
(* The records auparse_next_event gathered all carry the event's          *)
(* timestamp or none at all, and the line it holds back in saved_buf       *)
(* carries another one: the do-loop of auparse_next_event appends while    *)
(* events_are_equal and saves the first line that differs, and no other   *)
(* call touches le or saved_buf.  Held across first_record/next_record's   *)
(* lazy loads, reset and find_field.                                      *)
(***************************************************************************)
EventConsistent ==
    /\ \A i \in DOMAIN au.le.recs : au.le.recs[i].line.ts \in {au.le.e, NoTS}
    /\ au.saved # NULL => au.saved.ts \notin {au.le.e, NoTS}

(***************************************************************************)
(* An event's timestamp is the timestamp of one of its lines, a line       *)
(* without one counting as the all-zero triple (design 4.1): the e that    *)
(* auparse_next_event passes to aup_list_set_event is never the contents  *)
(* of an unwritten stack slot.                                             *)
(***************************************************************************)
EventTimestampDefined ==
    au.le.recs # <<>> =>
        \E i \in DOMAIN au.le.recs :
            au.le.e = IF au.le.recs[i].line.ts = NoTS THEN ZeroEvent
                      ELSE au.le.recs[i].line.ts

(***************************************************************************)
(* A line whose timestamp is the all-zero triple is an event of its own    *)
(* (design 4.1: zero timestamps force event boundaries), whatever          *)
(* events_are_equal says of two zero triples.                              *)
(***************************************************************************)
ZeroForcesBoundary ==
    \A i \in DOMAIN au.le.recs :
        au.le.recs[i].line.ts = ZeroEvent => Len(au.le.recs) = 1

(***************************************************************************)
(* The assembler implements AuEventStream: the event in hand is always     *)
(* the next group of equal-timestamp lines of the concatenated buffers,    *)
(* whether it was loaded by next_event, lazily by first_record or          *)
(* next_record, or by a search passing over events; auparse_reset          *)
(* rewinds to the first line.  The mapping counts consumed lines from      *)
(* list_idx and off, less the line held in saved_buf.                      *)
(***************************************************************************)
Stream == INSTANCE AuEventStream
            WITH Streams <- {FlattenSeq(src) : src \in Sources},
                 stream  <- FlattenSeq(au.sourceList),
                 pos     <- Consumed(au),
                 ev      <- EventLines(au.le)

StreamRefinement == Stream!Spec

-----------------------------------------------------------------------------
(* Safety of the file sources *)

(***************************************************************************)
(* A traversal call during which a read of the log file fails returns -1  *)
(* (design 7: I/O errors abort the current traversal call), whether the    *)
(* failure hits the first line or one in the middle of an event, and      *)
(* through the lazy loads of first_record and next_record: the do-loop of  *)
(* auparse_next_event returns retrieve_next_line's error instead of       *)
(* emitting the partial event.                                             *)
(***************************************************************************)
ReadErrorReported ==
    [][ ReadNext /\ au.in # NULL /\ au.in.err /\ au'.in # NULL /\ ~au'.in.err
          => rc' = -1 ]_vars

(***************************************************************************)
(* auparse_next_event reports the end of a file source only when every    *)
(* name of source_list has been opened and read to its end (design 4.1:   *)
(* file arrays are traversed in order).  retrieve_next_line's failed fopen *)
(* of a later file leaves in NULL with list_idx past the first file.      *)
(***************************************************************************)
EndMeansAllFilesRead ==
    [][ NextEvent /\ rc' = 0 /\ au.source \in {"file", "logs"}
          => au'.listIdx = Len(au'.sourceList) ]_vars

(***************************************************************************)
(* The source_list setup_log_file_array writes, names and terminating      *)
(* NULL, fits in the slots it malloc'ed.                                   *)
(***************************************************************************)
LogListFits == Len(au.sourceList) + 1 <= au.alloc \/ au.source # "logs"

-----------------------------------------------------------------------------
(* Safety of field lookup *)

(***************************************************************************)
(* auparse_find_field / auparse_find_field_next return a value only with   *)
(* the cursor on a field of that name, and never behind where the scan     *)
(* started (design 8: the scan is monotonic): the record loop only moves  *)
(* forward with aup_list_next and nvlist_find_name only forward from the   *)
(* field cursor.                                                           *)
(***************************************************************************)
FindFieldSound ==
    [][ (FindField \/ FindFieldNext) /\ rc' = 1 =>
          /\ OnAField(au'.le)
          /\ CurField(au'.le).name = au'.findField
          /\ \/ au'.le.cur > au.le.cur
             \/ /\ au'.le.cur = au.le.cur
                /\ au'.le.recs[au.le.cur].nvcur >= au.le.recs[au.le.cur].nvcur
      ]_vars

(***************************************************************************)
(* A find that returns NULL had no field of that name ahead of it: none   *)
(* in the rest of the current record and none in the later records of the *)
(* event (design 4.1: the scan runs across the remaining records).         *)
(***************************************************************************)
FindFieldComplete ==
    [][ (FindField \/ FindFieldNext) /\ rc' # 1 =>
          \A f \in FieldsAhead(au.le) : f.name # au'.findField
      ]_vars

-----------------------------------------------------------------------------
(* Safety of the search layer *)

(***************************************************************************)
(* Where ausearch_next_event leaves the cursors after a match (design      *)
(* 4.4): STOP_EVENT on the first field of the first record, STOP_RECORD on *)
(* the first field of a record with a field that satisfies a rule, and     *)
(* STOP_FIELD on a field that satisfies a rule.  ausearch_compare moves    *)
(* the field cursor with nvlist_find_name rule after rule, and             *)
(* ausearch_reposition_cursors rewinds part of it.                         *)
(***************************************************************************)
SearchStopsWhereAsked ==
    [][ SearchNextEvent /\ rc' = 1 =>
          LET l  == au'.le
              rs == au.rules.items
          IN  CASE au.searchWhere = STOP_EVENT ->
                     l.cur = 1 /\ l.recs[1].nvcur = (IF l.recs[1].nv = <<>> THEN 0 ELSE 1)
                [] au.searchWhere = STOP_RECORD ->
                     /\ l.cur # 0 /\ l.recs[l.cur].nvcur = 1
                     /\ \E i \in DOMAIN rs, k \in DOMAIN l.recs[l.cur].nv :
                           Sat(l.recs[l.cur].nv[k], rs[i])
                [] OTHER ->
                     OnAField(l) /\ \E i \in DOMAIN rs : Sat(CurField(l), rs[i])
      ]_vars

(***************************************************************************)
(* A search that reports a match stopped on an event with a record that    *)
(* satisfies the rule list: all rules in AND mode, one in OR mode (design  *)
(* 4.4 and 8).                                                             *)
(***************************************************************************)
SearchSound ==
    [][ SearchNextEvent /\ rc' = 1 =>
          \E i \in DOMAIN au'.le.recs :
              RecordMatches(au'.le.recs[i].nv, au.rules.items, au.searchHow)
      ]_vars

(***************************************************************************)
(* A search that reports a match in OR mode, or in AND mode with no       *)
(* exists rule, stopped on an event with a record whose fields satisfy    *)
(* the rule list.  ausearch_compare runs the rules one after another on   *)
(* one record, each nvlist_find_name starting from the field cursor the   *)
(* previous rule moved, and returns on the first rule that decides; the    *)
(* exists short-circuit (SearchSound) is the one case left out.            *)
(***************************************************************************)
SearchSoundBeyondExists ==
    [][ /\ SearchNextEvent /\ rc' = 1
        /\ au.searchHow = RULE_AND =>
              \A i \in DOMAIN au.rules.items : au.rules.items[i].op # OP_EXISTS
        => \E i \in DOMAIN au'.le.recs :
              RecordMatches(au'.le.recs[i].nv, au.rules.items, au.searchHow)
      ]_vars

(***************************************************************************)
(* A search that reports no match had no record satisfying the rule list   *)
(* in the event in hand or in the rest of the input (design 8: a search    *)
(* for what the log does not contain returns 0, and only then).            *)
(***************************************************************************)
SearchComplete ==
    [][ SearchNextEvent /\ rc' = 0 =>
          \A line \in ToSet(Unsearched(au)) :
              ~RecordMatches(ParseUpRecord(line.tokens).fields,
                             au.rules.items, au.searchHow)
      ]_vars

(***************************************************************************)
(* ausearch_add_item that fails leaves the rule list as it was (design 7:  *)
(* invalid search-rule parameters return an error and do not corrupt       *)
(* state).                                                                 *)
(***************************************************************************)
FailedAddKeepsRules ==
    [][ AddItem /\ rc' = -1 => au'.rules.items = au.rules.items ]_vars

(***************************************************************************)
(* Every rule in the list has one of the operators of optab (design 4.4:  *)
(* add_item validates that op is exists, = or !=).                         *)
(***************************************************************************)
RulesWellFormed ==
    \A i \in DOMAIN au.rules.items :
        au.rules.items[i].op \in {OP_EXISTS, OP_EQUAL, OP_NOT_EQUAL}

(***************************************************************************)
(* No sequence of API calls makes the library dereference NULL: in         *)
(* particular aurule_append, reached from ausearch_add_item, never finds   *)
(* the rule cursor NULL in a non-empty list.                               *)
(***************************************************************************)
NoCrash == fault = "none"

=============================================================================
