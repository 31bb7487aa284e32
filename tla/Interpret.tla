------------------------------ MODULE Interpret ------------------------------
(***************************************************************************)
(* The field interpreter, src/auparse/interpret.c: the interpret()        *)
(* dispatch, the uid and gid paths with the process-wide caches they keep *)
(* in nvpair lists (src/auparse/nvpair.c): print_uid, print_gid,          *)
(* aulookup_uid, aulookup_gid, aulookup_destroy_uid_list and               *)
(* aulookup_destroy_gid_list, and the fcntl branch of print_a2 that hands  *)
(* an a2 value to print_uid; and the decoders that need no lookup:        *)
(* print_escaped with unescape and x2c, print_exit, print_perm,           *)
(* print_success and print_promiscuous.                                    *)
(*                                                                         *)
(* A raw value is a sequence of characters.  strtoul is modelled by what   *)
(* it does, in a long of LongBits bits; the int it is stored in, and       *)
(* uid_t, have IntBits bits.  (The build has 64 and 32; the model keeps    *)
(* the ratio at smaller widths so that the wrap-arounds are reachable.)    *)
(* The password and group databases are the environment: getpwuid(u)     *)
(* returns pw["uid"][u] and getgrgid(g) pw["gid"][g], and an administrator *)
(* may add, remove or rename a user or a group.                            *)
(***************************************************************************)
EXTENDS Integers, Sequences, SequencesExt, FiniteSetsExt, Bitwise

CONSTANTS
    IntBits,       \* width of int and uid_t
    LongBits,      \* width of unsigned long
    UserNames,     \* names the password and group databases can hold
    NoUser,        \* getpwuid or getgrgid found no entry
    InitPw,        \* the two databases at start, per lookup
    FieldInputs,   \* raw values a log can carry, per field type
    MaxPwChanges,  \* database edits in a behaviour
    EditIds        \* the ids whose entries an administrator may edit

ULongMax == 2^LongBits - 1
Uids == 0..(2^IntBits - 1)
Lookups == {"uid", "gid"}   \* aulookup_uid with uid_nvl, aulookup_gid with gid_nvl
UidUnset == 2^IntBits - 1            \* (uid_t)-1
FSetown == 8                         \* F_SETOWN
FcntlCmds == {FSetown, 4}            \* F_SETOWN and F_SETFL

\* The value of a digit character in base b, or -1 when it is not one.
HexDigits == <<"0", "1", "2", "3", "4", "5", "6", "7", "8", "9",
               "a", "b", "c", "d", "e", "f">>
DigitVal(c, b) ==
    LET v == IF \E i \in 1..16 : HexDigits[i] = c
             THEN (CHOOSE i \in 1..16 : HexDigits[i] = c) - 1 ELSE -1
    IN  IF v < b THEN v ELSE -1

(***************************************************************************)
(* The digit loop of strtoul from position i: the accumulated value        *)
(* saturates at ULongMax + 1, which stands for "out of range".             *)
(***************************************************************************)
RECURSIVE Digits(_, _, _, _)
Digits(s, i, b, acc) ==
    IF i > Len(s) \/ DigitVal(s[i], b) < 0 THEN acc
    ELSE Digits(s, i + 1, b,
                IF acc > ULongMax THEN acc
                ELSE IF acc * b + DigitVal(s[i], b) > ULongMax THEN ULongMax + 1
                ELSE acc * b + DigitVal(s[i], b))

(***************************************************************************)
(* strtoul(s, NULL, b): an optional sign, then digits.  Out of range gives *)
(* ULONG_MAX and ERANGE; no digits give 0 and leave errno alone; a minus   *)
(* sign negates in unsigned arithmetic.                                     *)
(***************************************************************************)
Strtoul(s, b) ==
    LET neg == Len(s) > 0 /\ s[1] = "-"
        start == IF Len(s) > 0 /\ s[1] \in {"-", "+"} THEN 2 ELSE 1
        n == Digits(s, start, b, 0)
    IN  IF n > ULongMax THEN [v |-> ULongMax, erange |-> TRUE]
        ELSE [v |-> IF neg THEN (2^LongBits - n) % 2^LongBits ELSE n,
              erange |-> FALSE]

(***************************************************************************)
(* strtol(s, NULL, b): the same digit loop, out of range being what a      *)
(* signed long cannot hold; ERANGE saturates at LONG_MIN or LONG_MAX.      *)
(***************************************************************************)
Strtol(s, b) ==
    LET neg == Len(s) > 0 /\ s[1] = "-"
        start == IF Len(s) > 0 /\ s[1] \in {"-", "+"} THEN 2 ELSE 1
        n == Digits(s, start, b, 0)
        lim == IF neg THEN 2^(LongBits - 1) ELSE 2^(LongBits - 1) - 1
    IN  IF n > lim THEN [v |-> IF neg THEN -lim ELSE lim, erange |-> TRUE]
        ELSE [v |-> IF neg THEN -n ELSE n, erange |-> FALSE]

\* An unsigned long stored in an int: two's complement truncation.
ToInt(x) == LET m == x % 2^IntBits IN IF m >= 2^(IntBits - 1) THEN m - 2^IntBits ELSE m

\* An int passed as uid_t.
ToUid(i) == i % 2^IntBits

VARIABLES
    nvl,        \* uid_nvl and gid_nvl: [nodes, cur, cnt]; nodes in list order from head
    created,    \* uid_list_created and gid_list_created
    pw,         \* the password and group databases
    pwChanges,  \* edits made to them
    out,        \* the string the last print_* call returned
    pwcalls     \* successful getpwuid/getgrgid calls per id since the cache was made

vars == <<nvl, created, pw, pwChanges, out, pwcalls>>

\* nvpair_create / nvpair_clear: an empty list.
NvpairEmpty == [nodes |-> <<>>, cur |-> 0, cnt |-> 0]

\* Mutant: the search starts at head->next.
NvpairFindValSkipHead(l, v) ==
    LET hits == {i \in 2..Len(l.nodes) : l.nodes[i].val = v}
    IN  IF hits = {} THEN [found |-> FALSE, l |-> l]
        ELSE [found |-> TRUE,
              l |-> [l EXCEPT !.cur = CHOOSE i \in hits : \A j \in hits : i <= j]]

\* nvpair_find_val: the first node with the value becomes current.
NvpairFindVal(l, v) ==
    LET hits == {i \in 1..Len(l.nodes) : l.nodes[i].val = v}
    IN  IF hits = {} THEN [found |-> FALSE, l |-> l]
        ELSE [found |-> TRUE,
              l |-> [l EXCEPT !.cur = CHOOSE i \in hits : \A j \in hits : i <= j]]

\* Mutant: the new node is always linked after cur.
NvpairAppendNoWalk(l, name, v) ==
    LET node == [name |-> name, val |-> v, item |-> l.cnt]
        at == IF l.nodes = <<>> THEN 0 ELSE l.cur
    IN  [nodes |-> Append(SubSeq(l.nodes, 1, at), node),
         cur |-> at + 1, cnt |-> l.cnt + 1]

(***************************************************************************)
(* nvpair_append: the new node (item = cnt) is linked after cur when cur   *)
(* holds item cnt - 1, and otherwise after the last node nvpair_last      *)
(* finds; it becomes current.                                               *)
(***************************************************************************)
NvpairAppend(l, name, v) ==
    LET node == [name |-> name, val |-> v, item |-> l.cnt]
        at == IF l.nodes = <<>> THEN 0
              ELSE IF l.cnt = l.nodes[l.cur].item + 1 THEN l.cur
              ELSE Len(l.nodes)
    IN  [nodes |-> Append(SubSeq(l.nodes, 1, at), node),
         cur |-> at + 1, cnt |-> l.cnt + 1]


\* What snprintf leaves in buf: a name, "unset", or "unknown(%d)" of the
\* uid read back as an int.
Named(n) == [kind |-> "name", arg |-> n]
Unset == [kind |-> "unset", arg |-> 0]
Unknown(u) == [kind |-> "unknown", arg |-> ToInt(u)]
ConvError(s) == [kind |-> "conversion error", arg |-> s]
Raw(s) == [kind |-> "raw", arg |-> s]

\* Mutant: the result of getpwuid is used without checking it.
AulookupNoPwCheck(st, k, u) ==
    IF u = UidUnset THEN [st EXCEPT !.shown = Unset]
    ELSE
    LET l0 == IF st.created[k] = 0 THEN NvpairEmpty ELSE st.nvl[k]
        f == NvpairFindVal(l0, u)
    IN  IF f.found
        THEN [st EXCEPT !.nvl[k] = f.l, !.created[k] = 1,
                        !.shown = Named(f.l.nodes[f.l.cur].name)]
        ELSE [st EXCEPT !.nvl[k] = NvpairAppend(l0, pw[k][u], u), !.created[k] = 1,
                        !.pwcalls[k][u] = @ + 1, !.shown = Named(pw[k][u])]

(***************************************************************************)
(* aulookup_uid(u) (k = "uid") and aulookup_gid(g) (k = "gid"), the same *)
(* code over their own list: "unset" for -1; otherwise the cache is made  *)
(* on first use, searched, and on a miss getpwuid or getgrgid is asked   *)
(* and a name it returns is appended.  Returns the new state and text.    *)
(***************************************************************************)
Aulookup(st, k, u) ==
    IF u = UidUnset THEN [st EXCEPT !.shown = Unset]
    ELSE
    LET l0 == IF st.created[k] = 0 THEN NvpairEmpty ELSE st.nvl[k]
        f == NvpairFindVal(l0, u)
    IN  IF f.found
        THEN [st EXCEPT !.nvl[k] = f.l, !.created[k] = 1,
                        !.shown = Named(f.l.nodes[f.l.cur].name)]
        ELSE IF pw[k][u] # NoUser
        THEN [st EXCEPT !.nvl[k] = NvpairAppend(l0, pw[k][u], u), !.created[k] = 1,
                        !.pwcalls[k][u] = @ + 1, !.shown = Named(pw[k][u])]
        ELSE [st EXCEPT !.nvl[k] = l0, !.created[k] = 1, !.shown = Unknown(u)]

AulookupGid(st, g) == Aulookup(st, "gid", g)

(***************************************************************************)
(* print_uid(val): strtoul in base 10 into an int; ERANGE gives            *)
(* "conversion error(val)", anything else is looked up as a uid_t.         *)
(***************************************************************************)
PrintUid(st, s) ==
    LET r == Strtoul(s, 10)
    IN  IF r.erange THEN [st EXCEPT !.shown = ConvError(s)]
        ELSE Aulookup(st, "uid", ToUid(ToInt(r.v)))

\* print_gid(val): print_uid's code, looked up as a gid_t.
PrintGid(st, s) ==
    LET r == Strtoul(s, 10)
    IN  IF r.erange THEN [st EXCEPT !.shown = ConvError(s)]
        ELSE AulookupGid(st, ToUid(ToInt(r.v)))

-----------------------------------------------------------------------------
(* The decoders that need no lookup. *)

Text(s) == [kind |-> "text", arg |-> s]
Bytes(b) == [kind |-> "bytes", arg |-> b]
Word(w) == [kind |-> "word", arg |-> w]
NoText == [kind |-> "none", arg |-> <<>>]      \* a NULL return

UpperHex == <<"0", "1", "2", "3", "4", "5", "6", "7", "8", "9",
              "A", "B", "C", "D", "E", "F">>
IsXDigit(c) == \E i \in 1..16 : c \in {HexDigits[i], UpperHex[i]}
IsDigit(c) == \E i \in 1..10 : c = HexDigits[i]

\* The character at i, the terminating NUL ("") past the end.
CharAt(s, i) == IF i <= Len(s) THEN s[i] ELSE ""

\* Mutant: the digit is looked up without toupper.
NibbleNoUpper(c) ==
    IF \E i \in 1..16 : UpperHex[i] = c THEN (CHOOSE i \in 1..16 : UpperHex[i] = c) - 1 ELSE 0

(***************************************************************************)
(* x2c: each of two characters, upper-cased, is looked up in AsciiArray.  *)
(* A character not there adds nothing; the NUL finds the array's own      *)
(* terminator at offset 16, which & 0x0F also makes 0.                     *)
(***************************************************************************)
Nibble(c) ==
    LET u == IF \E i \in 11..16 : HexDigits[i] = c
             THEN UpperHex[CHOOSE i \in 11..16 : HexDigits[i] = c] ELSE c
    IN  IF \E i \in 1..16 : UpperHex[i] = u
        THEN (CHOOSE i \in 1..16 : UpperHex[i] = u) - 1 ELSE 0
X2c(s, i) == 16 * Nibble(CharAt(s, i)) + Nibble(CharAt(s, i + 1))

\* A byte string read back as a C string ends at its first zero byte.
CString(b) ==
    LET z == {i \in DOMAIN b : b[i] = 0}
    IN  IF z = {} THEN b ELSE SubSeq(b, 1, Min(z) - 1)

(***************************************************************************)
(* unescape: a value opening with '(' is kept up to and with its ')', or  *)
(* NULL when there is none; otherwise the run of hex digits it opens with *)
(* is decoded pair by pair, NULL when the run is shorter than two.  An    *)
(* odd run pairs its last digit with the NUL.                              *)
(***************************************************************************)
Unescape(s) ==
    IF CharAt(s, 1) = "("
    THEN LET close == {i \in 2..Len(s) : s[i] = ")"}
         IN  IF close = {} THEN NoText ELSE Text(SubSeq(s, 1, Min(close)))
    ELSE LET bad == {i \in 1..Len(s) : ~IsXDigit(s[i])}
             run == SubSeq(s, 1, IF bad = {} THEN Len(s) ELSE Min(bad) - 1)
         IN  IF Len(run) < 2 THEN NoText
             ELSE Bytes(CString([k \in 1..((Len(run) + 1) \div 2) |-> X2c(run, 2 * k - 1)]))

\* print_escaped: a quoted value up to its closing quote, " " when that is
\* missing; anything else is unescaped.
PrintEscaped(s) ==
    IF CharAt(s, 1) = "\""
    THEN LET q == {i \in 2..Len(s) : s[i] = "\""}
         IN  IF q = {} THEN Text(<<" ">>) ELSE Text(SubSeq(s, 2, Min(q) - 1))
    ELSE Unescape(s)

\* print_exit: strtol into an int; a negative int is shown with its errno
\* text, anything else as it was given.
PrintExit(s) ==
    LET r == Strtol(s, 10)
    IN  IF r.erange THEN ConvError(s)
        ELSE IF ToInt(r.v) < 0 THEN [kind |-> "errno", arg |-> ToInt(r.v)]
        ELSE Raw(s)

PermNames == <<"read", "write", "exec", "attr">>
PermBit == [read |-> 4, write |-> 2, exec |-> 1, attr |-> 8]   \* AUDIT_PERM_*

\* print_perm: strtol into an int, 0 standing for all four; the names of
\* the bits set, in the order read, write, exec, attr.
PrintPerm(s) ==
    LET r == Strtol(s, 10)
        bits == (IF ToInt(r.v) = 0 THEN 15 ELSE ToInt(r.v)) % 2^IntBits
    IN  IF r.erange THEN ConvError(s)
        ELSE [kind |-> "perms",
              arg |-> SelectSeq(PermNames, LAMBDA p : (bits & PermBit[p]) # 0)]

S_FAILED == 0
S_SUCCESS == 1

\* aulookup_success
AulookupSuccess(x) ==
    CASE x = S_FAILED -> "no" [] x = S_SUCCESS -> "yes" [] OTHER -> "unset"

\* print_success: a value opening with a digit is read by strtoul into an
\* int and named; any other value is shown as it is.
PrintSuccess(s) ==
    IF ~IsDigit(CharAt(s, 1)) THEN Raw(s)
    ELSE LET r == Strtoul(s, 10)
         IN  IF r.erange THEN ConvError(s) ELSE Word(AulookupSuccess(ToInt(r.v)))

\* print_promiscuous
PrintPromiscuous(s) ==
    LET r == Strtol(s, 10)
    IN  IF r.erange THEN ConvError(s)
        ELSE Word(IF ToInt(r.v) = 0 THEN "no" ELSE "yes")

\* The interpreter's part of the state, as the operators above see it.
St == [nvl |-> nvl, created |-> created, pwcalls |-> pwcalls, shown |-> out.shown]

Apply(st, fn, s) ==
    /\ nvl' = st.nvl /\ created' = st.created /\ pwcalls' = st.pwcalls
    /\ out' = [fn |-> fn, in |-> s, shown |-> st.shown]
    /\ UNCHANGED <<pw, pwChanges>>

Init ==
    /\ nvl = [k \in Lookups |-> NvpairEmpty]
    /\ created = [k \in Lookups |-> 0]
    /\ pw = InitPw
    /\ pwChanges = 0
    /\ out = [fn |-> "none", in |-> <<>>, shown |-> Raw(<<>>)]
    /\ pwcalls = [k \in Lookups |-> [u \in Uids |-> 0]]

(***************************************************************************)
(* interpret(): the field's type tag picks the decoder (an argument of an  *)
(* EXECVE record is T_ESCAPED); a tag whose decoder is not modelled here   *)
(* falls to the default case, which shows the value as it is.              *)
(***************************************************************************)
interpret(st, t, s) ==
    CASE t = "uid"     -> PrintUid(st, s)
      [] t = "gid"     -> PrintGid(st, s)
      [] t = "exit"    -> [st EXCEPT !.shown = PrintExit(s)]
      [] t = "escaped" -> [st EXCEPT !.shown = PrintEscaped(s)]
      [] t = "perm"    -> [st EXCEPT !.shown = PrintPerm(s)]
      [] t = "success" -> [st EXCEPT !.shown = PrintSuccess(s)]
      [] t = "promisc" -> [st EXCEPT !.shown = PrintPromiscuous(s)]
      [] OTHER         -> [st EXCEPT !.shown = Raw(s)]

\* auparse_interpret_field on a field of type t.
InterpretField ==
    \E t \in DOMAIN FieldInputs \ {"a2"} :
        \E s \in FieldInputs[t] : Apply(interpret(St, t, s), t, s)

(***************************************************************************)
(* print_a2 for an fcntl record: the value is parsed in base 16 (ERANGE   *)
(* gives "conversion error"); for F_SETOWN the raw value goes to           *)
(* print_uid, otherwise it is shown as it is.                              *)
(***************************************************************************)
InterpretA2Fcntl ==
    \E s \in FieldInputs["a2"], cmd \in FcntlCmds :
        LET r == Strtoul(s, 16) IN
        \/ r.erange /\ Apply([St EXCEPT !.shown = ConvError(s)], "a2", s)
        \/ ~r.erange /\ cmd = FSetown /\ Apply(PrintUid(St, s), "a2 setown", s)
        \/ ~r.erange /\ cmd # FSetown /\ Apply([St EXCEPT !.shown = Raw(s)], "a2", s)

\* aulookup_destroy_uid_list (called by auparse_destroy): a no-op unless
\* the cache exists, else it is cleared and marked as not created.
DestroyList(k) ==
    /\ created[k] = 1
    /\ nvl' = [nvl EXCEPT ![k] = NvpairEmpty] /\ created' = [created EXCEPT ![k] = 0]
    /\ pwcalls' = [pwcalls EXCEPT ![k] = [u \in Uids |-> 0]]
    /\ UNCHANGED <<pw, pwChanges, out>>

DestroyUidList == DestroyList("uid")

\* aulookup_destroy_gid_list, the same for the gid cache.
DestroyGidList == DestroyList("gid")

\* An administrator adds, removes or renames a user or a group.
PwEdit ==
    /\ pwChanges < MaxPwChanges
    /\ \E k \in Lookups, u \in EditIds \ {UidUnset}, n \in UserNames \cup {NoUser} :
         /\ pw[k][u] # n
         /\ pw' = [pw EXCEPT ![k][u] = n]
    /\ pwChanges' = pwChanges + 1
    /\ UNCHANGED <<nvl, created, out, pwcalls>>

Next == InterpretField \/ InterpretA2Fcntl \/ DestroyUidList \/ DestroyGidList \/ PwEdit

Spec == Init /\ [][Next]_vars


-----------------------------------------------------------------------------
(***************************************************************************)
(* Properties.                                                              *)
(***************************************************************************)

Chars == UNION {ToSet(s) : s \in UNION Range(FieldInputs)}

ShownOK(x) ==
    CASE x.kind = "name" -> x.arg \in UserNames
      [] x.kind = "unset" -> x.arg = 0
      [] x.kind = "unknown" -> x.arg \in Int
      [] x.kind \in {"conversion error", "raw"} -> x.arg \in Seq(Chars)
      [] x.kind = "text" -> x.arg \in Seq(Chars \cup {" "})
      [] x.kind = "bytes" -> x.arg \in Seq(1..255)
      [] x.kind = "none" -> x.arg = <<>>
      [] x.kind = "errno" -> x.arg < 0
      [] x.kind = "perms" -> x.arg \in Seq(Range(PermNames))
      [] x.kind = "word" -> x.arg \in {"no", "yes", "unset"}

TypeOK ==
    /\ \A k \in Lookups :
         /\ nvl[k].nodes \in Seq([name : UserNames, val : Uids, item : Nat])
         /\ nvl[k].cur \in 0..Len(nvl[k].nodes) /\ nvl[k].cnt \in Nat
    /\ created \in [Lookups -> {0, 1}]
    /\ pw \in [Lookups -> [Uids -> UserNames \cup {NoUser}]]
    /\ ShownOK(out.shown)
    /\ pwcalls \in [Lookups -> [Uids -> Nat]]

\* The entries a cache holds.
Cached(k) == ToSet(nvl[k].nodes)

(***************************************************************************)
(* An entry added to the uid cache stays reachable from its head until     *)
(* aulookup_destroy_uid_list, however find_val has moved the cursor that   *)
(* nvpair_append links after.                                               *)
(***************************************************************************)
CacheKeepsEntries ==
    [][\A k \in Lookups : created'[k] = 1 => Cached(k) \subseteq ToSet(nvl'[k].nodes)]_vars

(***************************************************************************)
(* The design's "caches the uid->name mapping for subsequent lookups       *)
(* without repeating the system call": while the cache lives, getpwuid    *)
(* succeeds at most once for any uid.                                      *)
(***************************************************************************)
LookedUpOnce == \A k \in Lookups, u \in Uids : pwcalls[k][u] <= 1

\* The design's rendering of a uid given in base b: a number within uid_t
\* is "unset" for (uid_t)-1 and else its name or "unknown(<value>)";
\* anything else is "conversion error(<value>)".
RefUid(s, b) ==
    LET n == Digits(s, 1, b, 0) IN
    IF s = <<>> \/ \E i \in 1..Len(s) : DigitVal(s[i], b) < 0 \/ n > UidUnset
    THEN ConvError(s)
    ELSE IF n = UidUnset THEN Unset
    ELSE IF pw["uid"][n] # NoUser THEN Named(pw["uid"][n])
    ELSE [kind |-> "unknown", arg |-> n]

(***************************************************************************)
(* print_uid renders a uid field as the design says: a value that is not a *)
(* decimal number within uid_t's range is a conversion error.  (Checked    *)
(* with a fixed password database, so that the cache is never stale.)      *)
(***************************************************************************)
UidRendering == out.fn = "uid" => out.shown = RefUid(out.in, 10)

(***************************************************************************)
(* For fcntl(F_SETOWN) the design says a2 "switches to uid                 *)
(* interpretation": the hex value of a2 is rendered as a uid.              *)
(***************************************************************************)
SetownRendering == out.fn = "a2 setown" => out.shown = RefUid(out.in, 16)

\* The value of a hex digit of either case, as the design reads it.
HexVal(c) == CHOOSE i \in 0..15 : c \in {HexDigits[i + 1], UpperHex[i + 1]}

\* A bare run of hex digit pairs that encodes no zero byte, and its bytes.
IsHexText(s) ==
    /\ s # <<>> /\ Len(s) % 2 = 0
    /\ \A i \in 1..Len(s) : IsXDigit(s[i])
    /\ \A k \in 1..(Len(s) \div 2) : HexVal(s[2 * k - 1]) + HexVal(s[2 * k]) > 0
HexDecode(s) == [k \in 1..(Len(s) \div 2) |-> 16 * HexVal(s[2 * k - 1]) + HexVal(s[2 * k])]

(***************************************************************************)
(* Design 4.3: an escaped value the kernel wrote as a bare run of hex      *)
(* digits is decoded pairwise back to the bytes it encodes, whichever case *)
(* the digits are in.  print_escaped reaches this through unescape and     *)
(* x2c, which upper-cases, looks each digit up and pairs the run.          *)
(***************************************************************************)
EscapedRoundTrip ==
    out.fn = "escaped" /\ IsHexText(out.in) => out.shown = Bytes(HexDecode(out.in))

\* The design's rendering of exit=, the syscall's return value as a long.
RefExit(s) ==
    LET r == Strtol(s, 10)
    IN  IF r.erange THEN ConvError(s)
        ELSE IF r.v < 0 THEN [kind |-> "errno", arg |-> r.v] ELSE Raw(s)

(***************************************************************************)
(* Design 4.3: exit= is rendered from the value the record carries: a     *)
(* negative return is an error number shown with its name, any other      *)
(* return (an mmap address, a byte count) is shown as it is, and only a   *)
(* value a long cannot hold is a conversion error.  print_exit stores     *)
(* strtol's long in an int before testing its sign.                        *)
(***************************************************************************)
ExitRendering == out.fn = "exit" => out.shown = RefExit(out.in)

====
