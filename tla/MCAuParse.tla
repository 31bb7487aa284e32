------------------------------ MODULE MCAuParse ------------------------------
(***************************************************************************)
(* Model values for AuParse: a handful of buffer arrays built from lines   *)
(* shaped like the fixtures of src/auparse/test/auparse_test.c.            *)
(***************************************************************************)
EXTENDS AuParse

\* A name=value token and the msg=audit(...): token.
KV(n, v) == [k |-> "kv", name |-> n, val |-> v]
MsgAudit == [k |-> "msgaudit"]

\* Two records of event 1, one of event 2 (with a quoted sub-message), a
\* record whose timestamp parses to all zeros, and a blank line.
LoginA  == [ts |-> 1, tokens |-> <<KV("type", "LOGIN"), MsgAudit, KV("auid", "48")>>]
SyscallA == [ts |-> 1, tokens |-> <<KV("type", "SYSCALL"), MsgAudit,
                                    KV("uid", "0"), KV("auid", "0")>>]
UserB   == [ts |-> 2, tokens |-> <<KV("type", "USER_LOGIN"), MsgAudit, KV("uid", "0"),
                                   [k |-> "msgq", name |-> "auid", val |-> "48"]>>]
ZeroL   == [ts |-> 0, tokens |-> <<KV("type", "LOGIN"), MsgAudit, KV("uid", "48")>>]
Blank   == [ts |-> NoTS, tokens |-> <<>>]

MCSources ==
    { << <<LoginA, SyscallA>>, <<UserB>> >>,
      << <<ZeroL, ZeroL, UserB>> >>,
      << <<>>, <<SyscallA, Blank>> >> }

\* Inputs without an all-zero timestamp, and one opening with a line that
\* has no timestamp.
MCSourcesNoZero == { << <<LoginA, SyscallA>>, <<UserB>> >> }
MCSourcesBlankFirst == { << <<Blank, LoginA>>, <<UserB>> >> }

\* The operator strings with one that optab does not hold.
MCOpNamesBad == {"exists", "=", "!=", "~"}

\* audit.log and audit.log.1 on disk, audit.log.2 absent; a client opens
\* the two logs oldest first as a FILE_ARRAY, or the oldest as a descriptor.
MCLogFiles == <<"audit.log", "audit.log.1", "audit.log.2">>
MCFileNames == Range(MCLogFiles)
MCInitDisk == [f \in MCFileNames |->
                 CASE f = "audit.log"   -> <<UserB>>
                   [] f = "audit.log.1" -> <<LoginA, SyscallA>>
                   [] OTHER             -> Gone]
\* No log file at all.
MCInitDiskNoLogs == [f \in MCFileNames |-> Gone]
MCFileArrays == {<<"audit.log.1", "audit.log">>}

MCTSVals == {0, 1, 2}
MCNames == {"uid", "auid"}
MCVals == {"0"}
MCOpNames == {"exists", "=", "!="}
MCHows == {RULE_CLEAR, RULE_OR, RULE_AND, RULE_REGEX}
MCWheres == {STOP_EVENT, STOP_RECORD, STOP_FIELD, STOP_FIELD + 1}

=============================================================================
