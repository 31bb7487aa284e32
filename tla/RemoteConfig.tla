---------------------------- MODULE RemoteConfig ----------------------------
(***************************************************************************)
(* The audisp-remote configuration loader,                                 *)
(* src/audisp/plugins/remote/remote-config.c: load_config reads the file   *)
(* with fgets into a 128-byte buffer, splits each piece with strtok on     *)
(* spaces (nv_split), looks the keyword up (kw_lookup) and hands the value *)
(* to the keyword's parser.  One step is one iteration of its loop.        *)
(*                                                                         *)
(* A line of the file is a sequence of tokens separated by one space: a    *)
(* word [word |-> w] of Words (with its length WordLen) or a number        *)
(* [digits |-> ds] written as its digits.  fgets sees the line as cells   *)
(* (a character of a word, a digit, a space, the newline), so a line       *)
(* longer than the buffer is cut where the code cuts it, in the middle of  *)
(* a word if need be.  Words are lower case, so strcasecmp is equality.   *)
(* unsigned long and int have LongBits and IntBits bits (64 and 32 in the  *)
(* build; scaled so that the values a file can hold reach both limits).    *)
(***************************************************************************)
EXTENDS Integers, Sequences, SequencesExt

CONSTANTS
    NULL,
    Words,        \* the words a configuration line can hold
    WordLen,      \* their lengths in characters
    Hashed,       \* the words that start with '#'
    ExecPrefixed, \* the words whose first four letters are "exec"
    Files,        \* what open/fstat find under the file name
    BufSize,      \* the size of load_config's buf
    IntBits,      \* width of int
    LongBits      \* width of unsigned long

ASSUME "=" \in Words /\ WordLen["="] = 1

ULongMax == 2^LongBits - 1

(***************************************************************************)
(* The word tables.  remote-config.h, which declares the enums, is not in  *)
(* the tree; each enum is taken in the order of its table, which           *)
(* fail_action_parser's test i == F_EXEC relies on.                        *)
(***************************************************************************)
KwNames == <<"remote_server", "port", "transport", "mode", "queue_depth", "fail_action">>
TransportWords == <<"tcp">>
ModeWords == <<"immediate", "forward">>
FailActionWords == <<"ignore", "syslog", "exec", "suspend", "single", "halt">>
T_TCP == 0
M_IMMEDIATE == 0
F_SYSLOG == 1
F_EXEC == 2

VARIABLES
    file,     \* the file load_config was given
    pc,       \* "open", "read", "done" or "crashed"
    config,   \* remote_conf_t
    chunks,   \* what fgets returns, piece by piece
    pos,      \* the pieces read so far
    lineno,   \* load_config's lineno
    ret       \* load_config's return value

vars == <<file, pc, config, chunks, pos, lineno, ret>>

-----------------------------------------------------------------------------
(* Lines as fgets sees them *)

Space == [sp |-> " "]
NL == [sp |-> "\n"]

\* The cells of one token: the characters of a word, or digits.
WordCells(w) == [k \in 1..WordLen[w] |-> [w |-> w, i |-> k]]
TokCells(t) ==
    IF "word" \in DOMAIN t THEN WordCells(t.word)
    ELSE [k \in DOMAIN t.digits |-> [d |-> t.digits[k]]]

\* A line written as tokens joined by single spaces.
LineCells(l) ==
    FlattenSeq([j \in DOMAIN l |-> IF j = 1 THEN TokCells(l[1])
                                   ELSE <<Space>> \o TokCells(l[j])])

(***************************************************************************)
(* get_line: fgets reads at most BufSize - 1 characters, so a line and its *)
(* newline come in pieces of that size; the newline is removed.           *)
(***************************************************************************)
GetLines(l) ==
    LET c == LineCells(l) \o <<NL>>
        n == BufSize - 1
    IN  [k \in 1..((Len(c) + n - 1) \div n) |->
            SelectSeq(SubSeq(c, (k - 1) * n + 1, IF k * n < Len(c) THEN k * n ELSE Len(c)),
                      LAMBDA x : x # NL)]

\* strtok(buf, " ") called until it returns NULL: the runs between spaces.
RECURSIVE Strtok(_)
Strtok(c) ==
    LET text == {i \in DOMAIN c : c[i] # Space}
    IN  IF text = {} THEN <<>>
        ELSE LET b  == Min(text)
                 sp == {j \in DOMAIN c : j > b /\ c[j] = Space}
                 e  == IF sp = {} THEN Len(c) ELSE Min(sp) - 1
             IN  <<SubSeq(c, b, e)>> \o Strtok(SubSeq(c, e + 1, Len(c)))

\* A token is the word w when its cells are all of w.
IsWord(r, w) == w \in Words /\ r = WordCells(w)
IsComment(r) == "w" \in DOMAIN r[1] /\ r[1].i = 1 /\ r[1].w \in Hashed
IsNumber(r) == \A i \in DOMAIN r : "d" \in DOMAIN r[i]
NumVal(r) == FoldLeft(LAMBDA acc, c : acc * 10 + c.d, 0, r)

\* The first four characters are those of a word of ExecPrefixed.
StartsExec(r) ==
    Len(r) >= 4 /\ \A i \in 1..4 : "w" \in DOMAIN r[i] /\ r[i].i = i /\ r[i].w \in ExecPrefixed

\* The index (from 0) of the first entry of words that r is, or -1.
Lookup(words, r) ==
    IF \E i \in DOMAIN words : IsWord(r, words[i])
    THEN (CHOOSE i \in DOMAIN words : IsWord(r, words[i])) - 1 ELSE -1

\* Variant of nv_split that stops after the value.
NvSplitNoOption(c) ==
    LET t == Strtok(c)
        none == [name |-> NULL, value |-> NULL, option |-> NULL]
    IN  CASE t = <<>> \/ IsComment(t[1]) -> none
          [] Len(t) < 3 \/ ~IsWord(t[2], "=") -> [none EXCEPT !.name = t[1]]
          [] OTHER -> [none EXCEPT !.name = t[1], !.value = t[3]]

(***************************************************************************)
(* nv_split: the first token is the name unless it opens a comment, then   *)
(* "=", the value and an option.  Its return code is only logged; what     *)
(* load_config acts on is which of name, value and option it set.          *)
(***************************************************************************)
NvSplit(c) ==
    LET t == Strtok(c)
        none == [name |-> NULL, value |-> NULL, option |-> NULL]
    IN  CASE t = <<>> \/ IsComment(t[1]) -> none
          [] Len(t) < 3 \/ ~IsWord(t[2], "=") -> [none EXCEPT !.name = t[1]]
          [] Len(t) = 3 -> [none EXCEPT !.name = t[1], !.value = t[3]]
          [] OTHER -> [name |-> t[1], value |-> t[3], option |-> t[4]]

-----------------------------------------------------------------------------
(* The keyword parsers: each returns [rc, config]; rc = -1 stands for a    *)
(* crash of the process. *)

\* server_parser
ServerParser(nv, cf) == [rc |-> 0, config |-> [cf EXCEPT !.remote_server = nv.value]]

\* Variant of port_parser/depth_parser that keeps strtoul's unsigned long.
NumberParserLong(nv, cf, field) ==
    CASE ~IsNumber(nv.value) -> [rc |-> 1, config |-> cf]
      [] NumVal(nv.value) > ULongMax -> [rc |-> 1, config |-> cf]
      [] OTHER -> [rc |-> 0, config |-> [cf EXCEPT ![field] = NumVal(nv.value)]]

(***************************************************************************)
(* port_parser and depth_parser: every character a digit, strtoul without  *)
(* ERANGE, then stored in an int i; i > INT_MAX cannot hold for an int, so *)
(* the value kept is (unsigned int)i.                                      *)
(***************************************************************************)
NumberParser(nv, cf, field) ==
    CASE ~IsNumber(nv.value) -> [rc |-> 1, config |-> cf]
      [] NumVal(nv.value) > ULongMax -> [rc |-> 1, config |-> cf]
      [] OTHER -> [rc |-> 0, config |-> [cf EXCEPT ![field] = NumVal(nv.value) % 2^IntBits]]

\* transport_parser: a word of transport_words is stored in mode.
TransportParser(nv, cf) ==
    IF Lookup(TransportWords, nv.value) < 0 THEN [rc |-> 1, config |-> cf]
    ELSE [rc |-> 0, config |-> [cf EXCEPT !.mode = Lookup(TransportWords, nv.value)]]

\* mode_parser
ModeParser(nv, cf) ==
    IF Lookup(ModeWords, nv.value) < 0 THEN [rc |-> 1, config |-> cf]
    ELSE [rc |-> 0, config |-> [cf EXCEPT !.mode = Lookup(ModeWords, nv.value)]]

\* check_exe_name(NULL): its first statement reads *val.
CheckExeName(cf) == [rc |-> -1, config |-> cf]

(***************************************************************************)
(* fail_action_parser: the words are tried in order; at i = F_EXEC a value *)
(* that only begins with "exec" goes to check_exe_name(nv->option).  The   *)
(* option is NULL there (load_config rejects a line with an option before  *)
(* it dispatches), and check_exe_name reads *val first.                    *)
(***************************************************************************)
FailActionParser(nv, cf) ==
    LET i == Lookup(FailActionWords, nv.value)
    IN  CASE i >= 0 /\ i <= F_EXEC -> [rc |-> 0, config |-> [cf EXCEPT !.fail_action = i]]
          [] StartsExec(nv.value) -> CheckExeName(cf)
          [] i >= 0 -> [rc |-> 0, config |-> [cf EXCEPT !.fail_action = i]]
          [] OTHER -> [rc |-> 1, config |-> cf]

\* keywords[]: the parser of keyword k.
Dispatch(k, nv, cf) ==
    CASE k = 0 -> ServerParser(nv, cf)
      [] k = 1 -> NumberParser(nv, cf, "port")
      [] k = 2 -> TransportParser(nv, cf)
      [] k = 3 -> ModeParser(nv, cf)
      [] k = 4 -> NumberParser(nv, cf, "queue_depth")
      [] k = 5 -> FailActionParser(nv, cf)

-----------------------------------------------------------------------------
(* load_config *)

\* clear_config: port is set to 60 and then to T_TCP.
ClearConfig ==
    [remote_server |-> NULL, port |-> T_TCP, mode |-> M_IMMEDIATE,
     queue_depth |-> 20, fail_action |-> F_SYSLOG, fail_exe |-> NULL]

Init ==
    /\ file \in Files
    /\ pc = "open" /\ config = ClearConfig
    /\ chunks = <<>> /\ pos = 0 /\ lineno = 1 /\ ret = 0

Finish(r) == pc' = "done" /\ ret' = r

(***************************************************************************)
(* open, fstat and fdopen: a missing file is no error; one that cannot be  *)
(* opened or stat'ed, is not owned by root, is world writable or is not a  *)
(* regular file is refused.                                                *)
(***************************************************************************)
Open ==
    /\ pc = "open"
    /\ IF file.status = "enoent" THEN Finish(0) /\ UNCHANGED chunks
       ELSE IF file.status # "ok" \/ file.uid # 0 \/ file.wother \/ ~file.reg
       THEN Finish(1) /\ UNCHANGED chunks
       ELSE /\ pc' = "read" /\ UNCHANGED ret
            /\ chunks' = FlattenSeq([l \in DOMAIN file.lines |-> GetLines(file.lines[l])])
    /\ UNCHANGED <<file, config, pos, lineno>>

(***************************************************************************)
(* One iteration of the while (get_line(...)) loop: a blank or comment     *)
(* line is skipped; a line with no value, an unknown keyword, an option,   *)
(* or a value the keyword's parser refuses ends the load with 1.           *)
(***************************************************************************)
ReadLine ==
    /\ pc = "read" /\ pos < Len(chunks)
    /\ pos' = pos + 1
    /\ LET nv == NvSplit(chunks[pos + 1])
           k  == Lookup(KwNames, nv.name)
           r  == Dispatch(k, nv, config)
       IN  CASE nv.name = NULL -> lineno' = lineno + 1 /\ UNCHANGED <<pc, config, ret>>
             [] nv.value = NULL \/ k < 0 \/ nv.option # NULL ->
                  Finish(1) /\ UNCHANGED <<config, lineno>>
             [] r.rc < 0 -> pc' = "crashed" /\ UNCHANGED <<config, lineno, ret>>
             [] r.rc # 0 -> Finish(1) /\ UNCHANGED <<config, lineno>>
             [] OTHER -> config' = r.config /\ lineno' = lineno + 1 /\ UNCHANGED <<pc, ret>>
    /\ UNCHANGED <<file, chunks>>

\* End of file: fclose, then sanity_check, which accepts everything.
EndOfFile ==
    /\ pc = "read" /\ pos = Len(chunks)
    /\ Finish(0)
    /\ UNCHANGED <<file, config, chunks, pos, lineno>>

Next == Open \/ ReadLine \/ EndOfFile

Spec == Init /\ [][Next]_vars

-----------------------------------------------------------------------------
(* Properties *)

\* Every variable keeps the shape of the C structure it models.
TypeOK ==
    /\ pc \in {"open", "read", "done", "crashed"}
    /\ config.remote_server = NULL
          \/ \E i \in DOMAIN chunks : config.remote_server \in ToSet(Strtok(chunks[i]))
    /\ config.port \in 0..(2^IntBits - 1)
    /\ config.queue_depth \in 0..(2^IntBits - 1)
    /\ config.mode \in 0..(Len(ModeWords) - 1)
    /\ config.fail_action \in 0..(Len(FailActionWords) - 1)
    /\ config.fail_exe = NULL
    /\ pos \in 0..Len(chunks) /\ lineno \in 1..(pos + 1)
    /\ ret \in {0, 1}

\* A value the keyword's documented words or number syntax admit.
ValueOK(k, v) ==
    CASE k = 1 \/ k = 4 -> IsNumber(v) /\ NumVal(v) <= ULongMax
      [] k = 2 -> Lookup(TransportWords, v) >= 0
      [] k = 3 -> Lookup(ModeWords, v) >= 0
      [] k = 5 -> Lookup(FailActionWords, v) >= 0
      [] OTHER -> TRUE

\* A piece of the file load_config may accept: blank, a comment, or
\* exactly "keyword = value" with a value the keyword admits.
ChunkOK(c) ==
    LET t == Strtok(c)
    IN  \/ t = <<>>
        \/ IsComment(t[1])
        \/ /\ Len(t) = 3 /\ IsWord(t[2], "=")
           /\ Lookup(KwNames, t[1]) >= 0
           /\ ValueOK(Lookup(KwNames, t[1]), t[3])

(***************************************************************************)
(* load_config returns 0 for a file it opened only when every piece fgets  *)
(* gave it is blank, a comment or one "keyword = value" assignment with a  *)
(* valid value.  nv_split's "wrong number of arguments" result is only     *)
(* logged, so a line with extra tokens is refused only by the max_options  *)
(* check, and a bad value only by the keyword's parser.                    *)
(***************************************************************************)
LinesAccepted ==
    pc = "done" /\ ret = 0 /\ file.status = "ok" =>
        \A i \in DOMAIN chunks : ChunkOK(chunks[i])

\* The configuration a file describes: the defaults, then each line
\* "keyword = value" as it was written, the last one winning.
Defaults ==
    [remote_server |-> NULL, port |-> 60, mode |-> M_IMMEDIATE,
     queue_depth |-> 20, fail_action |-> F_SYSLOG, fail_exe |-> NULL]
Assign(cf, l) ==
    LET k == IF Len(l) = 3 /\ l[2] = [word |-> "="] THEN Lookup(KwNames, TokCells(l[1])) ELSE -1
        v == IF k >= 0 THEN TokCells(l[3]) ELSE <<>>
    IN  CASE k = 0 -> [cf EXCEPT !.remote_server = v]
          [] k = 1 -> [cf EXCEPT !.port = NumVal(v)]
          [] k = 3 -> [cf EXCEPT !.mode = Lookup(ModeWords, v)]
          [] k = 4 -> [cf EXCEPT !.queue_depth = NumVal(v)]
          [] k = 5 -> [cf EXCEPT !.fail_action = Lookup(FailActionWords, v)]
          [] OTHER -> cf
RefConfig(lines) == FoldLeft(Assign, Defaults, lines)

(***************************************************************************)
(* A load that succeeds leaves the configuration the file describes:       *)
(* clear_config's defaults (port 60, immediate mode, queue depth 20,       *)
(* syslog on failure) for what the file does not set, the value written   *)
(* for what it does, and nothing from its comments.                        *)
(***************************************************************************)
ConfigReflectsFile ==
    pc = "done" /\ ret = 0 /\ file.status \in {"ok", "enoent"} =>
        config = RefConfig(file.lines)

\* load_config never crashes the process, whatever the file holds.
NoCrash == pc # "crashed"

=============================================================================
