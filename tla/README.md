# TLA+ models of auparse, ausearch, aureport, audispd and audisp-remote (debian_audit)

These modules model five parts of the tree:
- the audit-log parsing library under `src/auparse/`:
  - its line sources (buffers, single files, the rotated log set, a
    descriptor);
  - the event assembler, record/field cursors and search engine;
  - the uid and gid paths of the field interpreter, with their caches, and
    the exit, escaped, perm, success and promiscuous decoders;
- the integer list of `ausearch` (`src/src/ausearch-int.c`);
- the file loop of `aureport` (`src/src/aureport.c`): which logs it reads,
  in which order, and how it groups their lines into events;
- the event dispatcher `audispd` (`src/audisp/audispd.c`);
- the configuration loader of the `audisp-remote` plugin
  (`src/audisp/plugins/remote/remote-config.c`).

The models are written from the C source, and `spec.md` (the design) is used
only where the code is not in this tree. TLC checks them.

## The system and how its parts interact

A client creates one `auparse_state_t` with `auparse_init` and drives it
through API calls, one thread, synchronously (design section 5). The state
links these parts:

| part | source | what it holds |
|---|---|---|
| line source | `auparse.c` `retrieve_next_line`, `readline_buf`, `readline_file`, `setup_log_file_array` | `source_list`, `list_idx`, `next_buf`, `off` (buffer sources), `in` (the open `FILE*`) |
| event assembler | `auparse.c` `auparse_next_event` | the event list `le`, the one-line look-ahead `saved_buf` |
| event list | `ellist.c`, `ellist.h` | records of the current event, record cursor, event timestamp |
| record parser | `ellist.c` `parse_up_record` | fields of one record, its type |
| name/value list | `nvlist.h` (`nvlist.c` is not in the tree) | fields of a record, field cursor |
| rule list | `rlist.c`, `rlist.h` | search rules, rule cursor |
| search engine | `auparse.c` `ausearch_*` | `search_how`, `search_where`, and the cursors above |
| field interpreter, uid/gid cache | `interpret.c`, `nvpair.c` | per-field display strings, process-wide caches |

Every cursor is shared between layers:
- `find_field` and `ausearch_compare` move the field cursors that `next_field` uses.
- The search's rule loop moves the rule cursor that `aurule_append` later relies on.
- `first_record` and `next_record` load events lazily through `auparse_next_event`.

Most of what is hard to get right here is the order of these calls and the
state one leaves for the next.

The uid and gid caches (`aulookup_uid` and `aulookup_gid` in
`interpret.c`) are process-wide. Each lives from the first interpreted
uid (gid) until `auparse_destroy` calls `aulookup_destroy_uid_list`
(`aulookup_destroy_gid_list`), and each it is kept in an `nvpair` list whose append
depends on where `nvpair_find_val` last left the cursor.

`ausearch` keeps the numbers it reports in an `ilist` (`ausearch-int.c`): a
singly linked list with a cursor, built by `ilist_append` or
`ilist_add_if_uniq` and ordered by `ilist_sort_by_hits`.

`aureport` does not use the library's assembler: its own `process_logs`
opens the rotated logs oldest first (or one file, or stdin), and
`process_file` / `get_record` read each with `fgets`, keeping one
look-ahead line between events, and feed every event to the report's
bookkeeping (`per_event_processing`, the first and last event times).

`audisp-remote` is a plugin of `audispd`. At start-up `load_config` reads
its configuration file line by line into a `remote_conf_t`. A line longer
than `fgets`' buffer arrives in pieces, and each piece is parsed as a line.

`audispd` is a separate process. It reads messages from `auditd` on a pipe
and copies each into the bounded queue (`out[]`, 32 entries) of every
connected client. From one `poll()` loop it then writes the queues to
non-blocking client sockets, so partial writes, `EAGAIN`, write errors and
clients hanging up interleave with new input and new connections.

## Modules

| module | models | state / actions |
|---|---|---|
| `RecordParser` | `parse_up_record` | pure operators over abstract tokens |
| `ELList` | the event list and the nvlist cursor helpers | pure operators on a record `[recs, cur, e]` |
| `RList` | the rule list | pure operators on `[items, cur]` |
| `AuParse` | `auparse_state_t` and the API | variables `au` (the state struct), `rc` (last return value), `fault` (a NULL dereference happened); environment `disk` (the files under each name), `diskFaults` |
| `AuEventStream` | the abstract promise of the event assembler | variables `stream`, `pos`, `ev` |
| `MCAuParse` | model values for TLC | sources, names, values, operator strings, the log files on disk |
| `Interpret` | `print_uid`, `print_gid`, `aulookup_uid`, `aulookup_gid`, both `aulookup_destroy_*_list`, the fcntl branch of `print_a2`, and `nvpair.c` | variables `nvl`, `created`, `pw` and `pwcalls` (history), each a function over `Lookups = {uid, gid}`: the cache list, whether it was created, the database, and the lookups made; `out` (the last rendered field) |
| `MCInterpret` | model values | password and group databases, raw field values |
| `AuReport` | `aureport.c`: `main`, `process_logs`, `process_file`, `get_record`, `extract_timestamp`, `events_are_equal` | variable `ar` (`main`'s and the file loop's locals: source, report type, `fd`, look-ahead `saved`, `first`, event times, `found`, exit code), `reported` (history: each event handed to the report); environment `disk`, `disk0` (the disk at start), `diskFaults` |
| `MCAuReport` | model values | the rotated logs on disk, stdin's lines, the `-if` files |
| `IList` | `ausearch-int.c`, pointer by pointer | variables `l` (heap, `head`, `cur`, `cnt`, crash flag) and `call` |
| `IListCounts` | what an `ilist` promises: a tally of hits per number | variable `counts` |
| `MCIList` | model values | the heap addresses |
| `Audispd` | `audispd.c`: poll loop, accept, input, queue, output | variables `con` (`con_data[]` plus `POLLOUT`), `todo` (fds left to serve in this pass), `alive`; environment `peer`, `sent`, `pipe`, `backlog`, `conns`; `ub` (undefined behaviour seen); history `acc`, `done`, `recv` |
| `MCAudispd` | model values | message sizes |
| `RemoteConfig` | `remote-config.c`: `load_config`, `nv_split`, `kw_lookup` and the keyword parsers | variables `file` (what `open`/`fstat` find), `pc`, `chunks` (the pieces `fgets` returns), `pos`, `lineno`, `config` (the `remote_conf_t`), `ret` |
| `MCRemoteConfig` | model values | words and their lengths, 21 line shapes, the files |

Correspondence, as `map` in `PROJECT.json` records line by line:

- **Lists and cursors.** C linked lists are sequences. A cursor is an index,
  and `0` stands for `NULL`.
- **Timestamps.** The `(sec, milli, serial)` triple is one integer, with `0` as
  the all-zero triple. A line whose timestamp does not parse has `ts = NoTS`.
- **Lines.** A line is `[ts, tokens]`. Each token is abstracted to what
  `parse_up_record` tells apart: `name=value`, `msg=audit(..):`,
  `msg='name=value`, or a bare word.
- **API calls.** Every API function is an operator from the state to
  `[au, rc]`. Functions compose as the C calls do:
  `ausearch_next_event` → `auparse_first_record` → `auparse_next_event` →
  `retrieve_next_line` → `readline_buf`. The loops are `RECURSIVE`
  operators: `BufLoop`, `Gather`, `ScanRecords`, `CompareFrom`, `SearchLoop`.
- **Steps.** One API call is one step, and its action is the whole call:
  - `NextEvent`, `FirstRecord`, `NextRecord`, `FirstField`, `NextField`,
    `FindField`, `FindFieldNext`, `Reset`;
  - `AddItem`, `AddRegex`, `SetStop`, `SearchClear`, `SearchNextEvent`.
- **Uninitialised reads are nondeterministic.**
  - The loop-local `au_event_t e` of `auparse_next_event` is not initialised.
    Its value before the first write is `junk`, chosen from `TSVals` by the
    action. Later iterations reuse the same slot.
  - In `parse_up_record`, an AVC word appended without a name takes the
    previous field's name.
- **Crashes.** A NULL dereference sets `fault`, and a crashed process takes no
  further step.

`AuEventStream` states what the assembler promises, in terms of the
concatenated input and not buffers, offsets and a look-ahead slot:
- an event is a line plus the following lines with its timestamp, or with none;
- a search may pass over whole events;
- a reset rewinds to line 1.

`AuParse` instantiates it with this refinement mapping:
- `pos` is the lines consumed: whole buffers before `list_idx`, plus `off`,
  minus the line in `saved_buf`;
- `ev` is the lines of the current records.

### AuParse line sources

- **The disk.** `disk` maps each file name to its lines, or to `Gone`.
  `FOpen` is `fopen`: `NULL` for a missing file, else a stream at line 0.
- **`auparse_init`.** `InitParsers` gives every parser `auparse_init` can
  return for the `SourceKinds` of a run. For `AUSOURCE_LOGS`,
  `SetupLogFileArray` counts the rotated logs present and lists them oldest
  first, as `setup_log_file_array` does.
- **`retrieve_next_line`.** A buffer source reads through `BufLoop`; a file
  or log source through `FileLoop`, which at end of file closes the stream,
  moves to the next name, and returns -1 if `fopen` of it fails. A
  descriptor source returns 0 (its `readline_file` is the same loop over
  one stream).
- **The environment.** Between two API calls the disk may change: a file is
  unlinked (`Unlink`), the logs are rotated (`Rotate`), or the next read
  fails (`ReadError`, which sets the stream's error flag). At most
  `MaxDiskFaults` such steps happen in a run.
- **`auparse_reset`.** A file or log source closes its stream; a descriptor
  source rewinds it.

### Interpret

- **Raw values.** A raw value is a sequence of characters.
- **strtoul.** It is modelled by what it does: an optional sign, the digits
  of the base, saturation with `ERANGE`, and negation in unsigned arithmetic.
- **Widths.** The result is truncated to an `int`, then passed as `uid_t`.
  The widths are scaled from 64/32 to `LongBits = 8` and `IntBits = 4`. The
  ratio is kept, so every wrap-around of the build is reachable with small
  numbers.
- **The databases.** `getpwuid(u)` returns `pw["uid"][u]` and `getgrgid(g)`
  returns `pw["gid"][g]`. `PwEdit` lets an administrator add, remove or
  rename a user or group with an id of `EditIds` between calls.
- **One lookup for both caches.** `aulookup_uid` and `aulookup_gid` are the
  same code over two lists, so both are `Aulookup(st, k, id)` with
  `k \in Lookups`.
- **The nvpair list.** It is a sequence of `[name, val, item]` nodes with `cur`
  as an index. `NvpairAppend` keeps the code's choice between linking after
  `cur` and after `nvpair_last`.
- **Decoders.** `interpret()` dispatches on the field's type:
  `print_uid`, `print_gid`, `print_exit` (strtol into an `int`), `print_escaped`
  (`unescape` and `x2c`, with a hex digit looked up in a table that also
  holds the terminating NUL), `print_perm`, `print_success` and
  `print_promiscuous`. Any other type shows the raw value.
- **Steps.** Each action is one `interpret()` call on a field
  (`InterpretField`), one on an fcntl `a2` field (`InterpretA2Fcntl`), one
  `aulookup_destroy_uid_list` or `aulookup_destroy_gid_list`
  (`DestroyUidList`, `DestroyGidList`), or an edit of a database (`PwEdit`).

### AuReport

- **Sources.** `Start` is `main` after option parsing: stdin, one `-if`
  file, or `process_logs`, which counts the rotated logs present
  (`Leading`) and opens the oldest. `ProcessFile` is `process_file`'s
  `fopen`; a NULL stream ends `main` with 1.
- **Events.** `Gather` is `get_record`'s loop as a `RECURSIVE` operator:
  it takes the saved line or reads one, takes its timestamp
  (`ExtractTimestamp`, with the uninitialised `e` of an unparsable line as
  `junk`), and stops at the first line of another timestamp, which it keeps
  in `saved`.
- **Steps.** `ReadRecord` is one iteration of `process_file`'s loop: one
  `get_record`, the report's bookkeeping (`Bookkeep`, and whether the
  event matched, `hit`), and at end of file `EndFile`: close, then the next
  newer log or `main`'s tail (`MainTail`).
- **The environment.** As in `AuParse`, the logs may be rotated
  (`Rotate`) or a read may fail (`ReadError`) in `FaultSpec`, at most
  `MaxDiskFaults` times.

### IList

- **The heap.** Nodes live at addresses `Addrs`, and `malloc` returns the
  lowest free one. `free` blanks a node, so that freed contents do not split
  states.
- **The list.** It is what `Reach` finds from `head`.
- **Crashes.** A NULL `cur` dereference sets `crash = "null"`.
  `ilist_sort_by_hits` restarting more than `MaxSortMoves` times sets
  `"loops"`.
- **Steps.** One action per library call. A call's whole loop is a
  `RECURSIVE` operator (`AddWalk`, `SortLoop`).
- **Refinement.** `IList` refines `IListCounts` with the mapping
  `counts <- CountsOf(l)`: the hits per number summed over the reachable
  nodes.

### Audispd

- **Messages.** Message `k` is the bytes `<<k, 1>> .. <<k, HLen + MsgSize[k]>>`.
- **Polling.** `Poll` is `poll()` returning: it picks which `POLLOUT` fds the
  kernel reports writable. `io_poll_loop` then serves the listening socket,
  the pipe and the writable fds, one step each (`ConAccept`, `AuditdInput`,
  `ConOutput`), in the code's order (`todo`). A client can therefore hang up
  between the poll and the write.
- **Writes.** `ConOutput` has one disjunct per outcome of `write`/`writev`:
  - `EAGAIN`;
  - an error, after which the connection is closed;
  - a partial write;
  - a full write;
  - `SIGPIPE` to a closed peer, which kills the process because `main` does
    not ignore it.
- **`con_data_add`.** The compaction records the out-of-bounds read and the
  out-of-bounds store it could make in `ub`.
- **History.** `acc`, `done` and `recv` record per connection what was queued,
  what was written in full, and the bytes the client received.

### RemoteConfig

- **Lines.** A line is a sequence of tokens separated by one space: a word
  of `Words` or a number written as its digits. `fgets` sees it as cells of
  characters, so `GetLines` cuts a line longer than `BufSize - 1` where the
  code cuts it, in the middle of a word if need be.
- **`nv_split`.** It is `strtok` on spaces (`Strtok`) followed by the
  code's checks on a name, `=`, a value and an option.
- **Parsers.** Each keyword's parser is one operator. `NumberParser`
  is `strtoul` with its `ULONG_MAX` check, stored in an `int` of
  `IntBits` bits. `FailActionParser` calls `CheckExeName(nv->option)`,
  which dereferences NULL (`pc = "crashed"`).
- **Steps.** `Open` is the `open`/`fstat` checks; `ReadLine` is one
  iteration of `load_config`'s loop; `EndOfFile` is the loop's exit,
  `sanity_check` and the return.

## Runs

The runs listed in `PROJECT.json`:

| run | spec / cfg | checks | result |
|---|---|---|---|
| `traverse` | `TraverseSpec` (walk, find, reset, all four sources, disk faults) | `TypeOK`, `EventConsistent`, `FindFieldSound`, `ReadErrorReported` | pass |
| `search` | `SearchSpec` (rules, stops, search, next_event) | `SearchSoundBeyondExists`, `SearchStopsWhereAsked`, `StreamRefinement` | pass, about 24k states, 1.5 min |
| `audispd` | `Spec`, `MCAudispd.cfg` | `NoOverflow`, `TypeOK`, `QueueFaithful` | pass, about 2.1M states, 1 min |
| `audispd_drain` | `FairSpec`, `MCAudispdLive.cfg` | `QueuesDrain` | pass, about 150k states, under 2 min |
| `interpret` | `Spec`, `MCInterpret.cfg` | `TypeOK`, `LookedUpOnce`, `EscapedRoundTrip`, `CacheKeepsEntries` | pass, about 56k states, 1 min |
| `ilist` | `Spec`, every call, `MCIList.cfg` | `TypeOK`, `NoDangling` | pass, about 360k states |
| `ilist_sort` | `Spec`, append/sort/clear, `MCIListSort.cfg` | `NoCrash`, `SortOrders`, `CountsRefinement` | pass, about 16k states |
| `aureport` | `Spec`, `MCAuReport.cfg` | `TypeOK`, `ReportCoversLogs`, `EventGrouping` | pass, about 1k states |
| `search_sound` | `SearchSpec` | `SearchSound` | violation |
| `audispd_sigpipe` | `Spec`, `MCAudispdKeepsRunning.cfg` | `KeepsRunning` | violation |
| `audispd_bytestream` | `Spec`, `MCAudispdByteStreamFaithful.cfg` | `ByteStreamFaithful` | violation |
| `remote_config` | `Spec`, `MCRemoteConfig.cfg` | `TypeOK`, `LinesAccepted` | pass, about 1.7k states |

What the passing runs show:
- **Event grouping.** The records of an event share its timestamp, and the
  held-back line has another one. A find result is on a field of the right
  name and never behind the scan's start.
- **Refinement of the assembler.** In a search session, every way an event is
  loaded (explicitly, lazily, or by a search skipping events) hands out
  exactly the next equal-timestamp group of the input.
- **Read errors.** A read error of `fgets` on a file or log source is
  returned as -1 by the call that meets it, after an unlink or a rotation
  as well.
- **Escaped fields.** A bare run of hex digit pairs without a zero byte is
  decoded to its bytes, in either case.
- **Config lines.** When `load_config` returns 0 for a file it opened,
  every piece `fgets` handed it was a blank line, a comment, or a
  `name = value` line whose keyword exists. A mutant that lets an option
  through shows the check is not vacuous.
- **Search stop points.** After a match the cursors sit where `search_where`
  asks.
- **Search soundness outside the exists short-circuit.** In OR mode, and in
  AND mode without an exists rule, a reported match stands on a record
  whose fields satisfy the rule list, although each rule's
  `nvlist_find_name` starts from the field cursor the previous rule moved.
- **audispd queues.** Across accepts, input, `con_data_add`'s compaction, and
  partial, full, failed and refused writes:
  - `out[off..num-1]` is exactly the queued and unsent messages, in order,
    and a reused slot's stale `out[]` never shows through;
  - no store goes past `out[]`;
  - under the fairness below, every queue drains.
- **uid and gid caches.** `getpwuid` (`getgrgid`) succeeds at most once per
  id while its cache lives. No entry is lost, however `find_val` has moved the cursor that
  `append` links after.
- **aureport.** When `aureport` exits with 0, the events it handed to the
  report are exactly the lines of its input, in order: the rotated logs
  oldest first, the `-if` file, or stdin. Every event holds lines of one
  timestamp, and two adjacent events of a file differ at the boundary.
- **ilist.**
  - No pointer reachable from `head`, and not `cur`, points to freed memory,
    for any sequence of the six calls.
  - Lists built by `ilist_append` sort by hits, most first, without a crash,
    and keep the tally of `IListCounts`.

What the violations show (details in `findings` in `PROJECT.json`):
- **`search_sound`.** An `exists` rule short-circuits AND mode (`auparse.c:619`).
- **`audispd_sigpipe`.** `SIGPIPE` is not ignored, so a client that hangs up
  while output is queued for it kills `audispd`.
- **`audispd_bytestream`.** After a partial write, `con_output` restarts the
  message at `hdr` or `msg`. The client receives its start twice and loses
  its end.
- **`MCEndMeansAllFilesRead.cfg`** (a configuration kept beside the
  runs, checking `EndMeansAllFilesRead`). For a file list, `retrieve_next_line`
  returns -1 when `fopen` of the next name fails (`auparse.c:546`), and
  `auparse_next_event` then gives 0 on the next call, so the client sees
  end of input with files still unread. A file removed between two calls
  is enough.

### Further counterexamples (configurations kept beside the runs)

The runs above are the project's budget of twelve. Each configuration below
checks one more property, and TLC finds it violated by what the code does:

| cfg | module | property | what it shows |
|---|---|---|---|
| `MCRead.cfg` | `MCAuParse` | `StreamRefinement` (holds) | `ReadSpec` (walk and find, no reset) refines `AuEventStream`. |
| `MCFindComplete.cfg` | `MCAuParse` | `FindFieldComplete` | `find_field` misses fields of later records whose cursors earlier scans exhausted (`auparse.c:897`). |
| `MCTimestampDefined.cfg` | `MCAuParse` | `EventTimestampDefined` | An event opened by a line without a timestamp takes stack garbage as its timestamp (`auparse.c:691`). |
| `MCZeroBoundary.cfg` | `MCAuParse` | `ZeroForcesBoundary` | All-zero timestamps merge events (`auparse.c:496`). |
| `MCResetRewinds.cfg` | `MCAuParse` | `StreamRefinement` | `reset` replays `saved_buf` and keeps `next_buf` (`auparse.c:202`). |
| `MCSearchComplete.cfg` | `MCAuParse` | `SearchComplete` | AND rules depend on their order (`auparse.c:617`). |
| `MCFailedAdd.cfg` | `MCAuParse` | `FailedAddKeepsRules` | A failed CLEAR add wipes the rules (`auparse.c:249`). |
| `MCNoCrash.cfg` | `MCAuParse` | `NoCrash` | `aurule_append` dereferences the NULL rule cursor a search leaves (`rlist.c:65`). |
| `MCRulesWellFormed.cfg` | `MCAuParse` | `RulesWellFormed` | Unknown operators are accepted, because the code checks the pointer `op` instead of `t_op` (`auparse.c:234`). |
| `MCAudispdNoOverread.cfg` | `MCAudispd` | `NoOverread` | The compaction's `memmove` copies `num` entries from `out + off`, reading past `out[]` (`audispd.c:176`). |
| `MCInterpretSetownRendering.cfg` | `MCInterpret` | `SetownRendering` | fcntl `F_SETOWN`'s hex `a2` is parsed as decimal by `print_uid` (`interpret.c:1047`). |
| `MCIListNextAppend.cfg` | `MCIList` | `NoCrash` | `ilist_append` after `ilist_next` has run `cur` off the end dereferences NULL (`ausearch-int.c:59`). |
| `MCIListAdd.cfg` | `MCIList` | `Ascending` (holds) | `add_if_uniq` keeps its list strictly increasing. |
| `MCIListAddCounts.cfg` | `MCIList` | `CountsRefinement` | `ilist_add_if_uniq` inserting in second place sets `head` to NULL and loses the old head with its hits (`ausearch-int.c:99`). |
| `MCInterpretUidRendering.cfg` | `MCInterpret` | `UidRendering` | `print_uid` shows a non-number such as `a` as `root`, and wraps values past `uid_t` to other users (`interpret.c:345`). |
| `MCInterpretExitRendering.cfg` | `MCInterpret` | `ExitRendering` | `print_exit` truncates strtol's long to an `int`, so a large return value is shown as an error number (`interpret.c:425`). |
| `MCLogListFits.cfg` | `MCAuParse` | `LogListFits` | With no log file present, `setup_log_file_array` still lists `audit.log` in an array of `num + 2` entries, one slot when none is found, and writes two (`auparse.c:82`). |
| `MCRemoteConfigDefaults.cfg` | `MCRemoteConfig` | `ConfigReflectsFile` | `clear_config` sets `port` to `T_TCP` (0), not to the documented default 60 (`remote-config.c:117`). |
| `MCRemoteConfigComment.cfg` | `MCRemoteConfig` | `ConfigReflectsFile` | The tail of a comment longer than the buffer is parsed as a line, so a commented-out `port = 70` is applied (`remote-config.c:256`). |
| `MCRemoteConfigTransport.cfg` | `MCRemoteConfig` | `ConfigReflectsFile` | `transport_parser` stores into `mode`, so `transport = tcp` after `mode = forward` resets the mode (`remote-config.c:400`). |
| `MCAuReportFaults.cfg` | `MCAuReport` | `ReportCoversLogs` | A rotation while `aureport` reads `audit.log.1` makes it open the new, empty `audit.log` and miss the old log's events, and a read error ends a file as if it were complete: `get_record` returns -1, `process_log_fd` breaks out of its loop dropping the rest of the file and returns 0 (`aureport.c:192`), and the exit code is still 0. |
| `MCAuReportSummary.cfg` | `MCAuReport` | `SummaryRangeEndsAtLastEvent` | With an empty `audit.log`, the summary's last-event time is reset to 0 after the last event (`very_last_event = last_event` at `aureport.c:214` runs for the empty file). |
| `MCRemoteConfigNoCrash.cfg` | `MCRemoteConfig` | `NoCrash` | `fail_action = exec...` calls `check_exe_name` on the NULL option (`remote-config.c:468`). |

Each property of a passing run has a mutant in `PROJECT.json`: a one-definition
variant of the code, written in the module just before the definition it
replaces, that TLC finds violating the property.

## Bounds and why they are enough

Three buffer arrays (`MCSources`) are built from the test fixtures' line
shapes. Between them they have:
- two records of one event followed by another event in a second buffer;
- two zero-timestamp lines followed by an event;
- an empty first buffer;
- a blank line inside an event.

This covers:
- event boundaries inside and across buffers;
- skipping an empty buffer;
- the look-ahead line crossing a buffer boundary;
- unparsable lines;
- zero timestamps.

The other bounds:

| bound | value | what it reaches |
|---|---|---|
| `Names` | `{uid, auid}` | present in some records and absent from others, and in both orders relative to each other |
| `Vals` | `{"0"}` | both `=` and `!=` outcomes occur |
| `MaxRules` | 2 | the AND/OR combination of two rules and the rule cursor running off the end |
| `Hows`, `Wheres` | the valid values plus the first invalid one above the range | the range checks' boundaries |
| `TSVals` | `{0, 1, 2}` | the uninitialised `e` either joins or splits the following line, or is zero |

### Bounds of the file sources

| bound | value | what it reaches |
|---|---|---|
| `LogFiles` | `audit.log`, `.1`, `.2` | a rotated set with a gap (`.2` missing), so the count stops early |
| `InitDisk` | `audit.log` one event, `.1` two records, `.2` absent | an event per file, and a file to unlink or rotate away |
| `FileArrays` | `<<audit.log.1, audit.log>>` | a two-file list, whose second `fopen` can fail |
| `MaxDiskFaults` | 1 | one unlink, rotation or read error at any point of a session |

### Bounds of RemoteConfig

| bound | value | what it reaches |
|---|---|---|
| `BufSize` | 128 | the code's own buffer |
| `MCWordLen` | 4, and 126 / 124 for two comment words | a comment that fits, and one that is cut just before a setting |
| line shapes | 21 | every `nv_split` outcome, every keyword, valid and invalid values, a number past `ULONG_MAX` and one past `INT_MAX` |
| `Files` | every pair of line shapes, and five refused files | repeated keywords, and `ENOENT`, other open errors, wrong owner, world-writable, not a regular file |
| `IntBits`, `LongBits` | 8, 16 | the `int` store wraps and the `ULONG_MAX` check fires, with three-digit and five-digit numbers |

### Bounds of AuReport

| bound | value | what it reaches |
|---|---|---|
| `InitDisks` | `audit.log` two events and `.1` with an unparsable line, `.2` absent; or `audit.log` alone with a zero timestamp | two files read oldest first, an event boundary inside and across files, `junk` joining or splitting, and the count stopping at a gap |
| `StdinLines`, `UserFiles` | three lines; `.1` and `.2` | stdin, an `-if` file that exists and one that does not |
| `ReportTypes` | `time`, `summary`, and one detailed report | the bookkeeping of first and last event, and the detailed report's exit code on no match |
| `MaxDiskFaults` | 0 in the run, 1 in `MCAuReportFaults.cfg` | one rotation or read error at any point |

### Bounds of Audispd, Interpret and IList

| bound | value | what it reaches |
|---|---|---|
| `OutSz` (`CONF_CON_OUT_SZ`) | 2 | a full queue, compaction with `off = 0` and `off > 0`, and a dropped message |
| `NumSz` | 6 | two client slots (fds 5 and 6) after the pipe (3) and the socket (4) |
| `MaxConnects` | 3 (2 in the liveness run) | both slots in use, a third connection refused (`fd > NumSz`), and slot reuse after a write error |
| `MaxIn` | 3 | one message more than a queue holds |
| `HLen`, `MsgSize` | 2, 1 | header and body of every message can be split by a partial write |
| `IntBits`, `LongBits` | 4, 8 | `(uid_t)-1`, wrap-around past `uid_t`, negative ints and `ERANGE` |
| `Inputs` | `0 1 5 15 -1 17 777 a` | a named uid, an unknown uid, unset, a negative value, a wrapping value, an out-of-range value, a non-number |
| `MaxPwChanges` | 1 | a user or group renamed or removed after it was cached |
| `EditIds` | `{0, 1, 5, 7, 9}` | edits of cached, uncached and absent ids of both databases |
| gid inputs | `0 7` | a named group and an unknown one |
| `Addrs` | 4 addresses | lists of up to four nodes, with one node freed and reused by a sort move |
| `Nums`, `Hits` | `{1, 2, 3}` | inserts before, between and after nodes, and ties and inversions of hits |
| `MaxCnt`, `MaxHits` | 8, 3 | caps on `cnt` (which sort moves raise) and on repeated hits; calls that would pass them are not taken |
| `MaxSortMoves` | 12 | more moves than any terminating sort of four nodes needs, so reaching it means the sort loops |

## Fairness and liveness

The auparse library and the `ilist` take steps only when their single client
calls them. No process, thread or timer of theirs has to make progress, so no
fairness is assumed for them and no liveness property is claimed. The one
progress hazard there is a client looping on `ausearch_next_event` without
`auparse_next_event`, which re-matches the same event. That is a client
obligation and is listed as a hazard with that note.

`audispd` is a server loop. `FairSpec` assumes:
- **Weak fairness of `Daemon`.** `main` runs `io_poll_block(); io_poll_loop();`
  forever, so while anything is ready the loop keeps serving it.
- **Strong fairness of `ReportsWritable(fd)`.** A client that keeps reading
  makes its socket writable again and again, so poll eventually reports it.
- **Strong fairness of a write that moves bytes.** `EAGAIN` and partial writes
  may repeat, but not forever to a reading client.

The last two are assumptions about the clients, not guarantees of the code.
`QueuesDrain` shows that under them `audispd` itself loses no message:
`POLLOUT` stays set while a message is queued. Clients do not hang up in this
run (`ClientsClose = FALSE`), because a hang-up kills the process (the
`audispd_sigpipe` finding).

Deadlock:
- `traverse` checks deadlock, and so do `audispd_drain` and `ilist_sort`.
- The search runs set `CHECK_DEADLOCK FALSE`, because there the process
  really can stop after the `aurule_append` NULL dereference.
- `audispd` sets it too, because `SIGPIPE` kills the process.
- `ilist` sets it, because a NULL dereference ends the client.
- `interpret` checks deadlock.
- `aureport` sets `CHECK_DEADLOCK FALSE`, because `main` returns once the
  last file is read.
- `remote_config` sets `CHECK_DEADLOCK FALSE`, because `load_config` ends:
  once it has returned (or crashed) the loader takes no further step.

## Not modelled (yet), and the plan

- **Not modelled, and why:**
  - **The `FILE*` source (`AUSOURCE_FILE_POINTER`)** is the descriptor
    source with another constructor, and is not a separate action.
  - **`auparse_destroy`** frees the state; only its call to
    `aulookup_destroy_uid_list` changes what a later call sees, and that is
    `DestroyUidList`.
  - **Read-only accessors:** they change no state.
  - **`aup_list_find_rec*`:** nothing under `src/` calls them.
  - **The rest of the field interpreter:** the other `print_*` helpers are
    stateless table lookups and formatting.
  - **The rest of `audispd`:**
    - `main`'s set-up (signal handlers, `dup`, the socket bind);
    - `cmd_add`, which is only built with `TST`;
    - `auditd_input`'s checks of the header, which die on a malformed one
      (`auditd` is taken to send valid headers);
    - the EOF `die`.
    - `POLLHUP` on an idle hung-up fd, which makes the loop spin, is listed
      as a hazard without a property.
  - **Out of scope per design section 1:** `auditctl` and `lookup_table.c`.
    `lookup_table.c` is static tables. `auditctl` builds one kernel rule from
    its options (`setopt`) and sends it over netlink through `libaudit`,
    which is not in this tree, so the part a model could check (what the
    kernel is asked to do) has no source to translate.
  - **Of `aureport.c`:** option parsing (`check_params`), the report
    formatting (`print_*`) and the per-record scan (`scan`,
    `per_event_processing`): their sources (`aureport-options.c`,
    `aureport-output.c`, `aureport-scan.c`) are not in the tree, so the
    model takes the report type as an input and whether an event matched
    as a free choice.
  - **Of `remote-config.c`:** `free_config` (it frees the strings and
    nothing reads them after), and the enum values, since
    `remote-config.h` is not in the tree: each enum is taken in the order
    of its word table.
- **Plan, in order:**
  1. The full record parser: punctuation, the `(` prefix, the 256-byte
     `seperms` exit, and positional `arch`/`syscall`/`a0`/`a1`. It is checked
     against a reference definition of the design's grammar over bounded
     token sequences.
  2. `StreamRefinement` for the file sources, with the disk fixed during a
     session, and the design's "I/O errors leave the state consistent for a
     subsequent reset".
  3. `audispd`'s `read_all` and header checks, with a short or malformed
     message from `auditd`, and the EOF path with output still queued.
