----------------------------- MODULE MCInterpret -----------------------------
(***************************************************************************)
(* Bounds for checking Interpret: int and uid_t of 4 bits, unsigned long  *)
(* of 8 (the build's 32 and 64 in the same ratio), so that a decimal      *)
(* value can wrap in the int and one of three digits overflows the long.  *)
(***************************************************************************)
EXTENDS Interpret

\* uid 0 is root and uid 1 bin; gid 0 is root and gid 5 adm; no other id
\* has an entry.
MCInitPw == [k \in {"uid", "gid"} |->
                [u \in 0..15 |-> CASE u = 0 -> "root"
                                   [] u = 1 /\ k = "uid" -> "bin"
                                   [] u = 5 /\ k = "gid" -> "adm"
                                   [] OTHER -> NoUser]]

\* Values from the logs: in range, (uid_t)-1 spelt both ways, too wide for
\* the int, too wide for the long, and not a decimal number at all.
MCInputs == {<<"0">>, <<"1">>, <<"5">>, <<"1", "5">>, <<"-", "1">>,
             <<"1", "7">>, <<"7", "7", "7">>, <<"a">>}

\* exit values: success, an error (-ENOENT), a return past the int (an
\* address), and one past the long.
MCExitInputs == {<<"0">>, <<"-", "2">>, <<"9">>, <<"2", "0", "0">>}

\* escaped values: quoted with and without the closing quote, "(null)"
\* with and without its ')', hex runs in both cases, of odd length, with
\* a zero byte, cut short by a non-hex character, and too short.
MCEscapedInputs ==
    {<<"\"", "a", "\"">>, <<"\"", "a">>, <<"(", "n", ")">>, <<"(", "n">>,
     <<"2", "F">>, <<"2", "f">>, <<"A", "0", "f", "F">>, <<"2", "F", "3">>,
     <<"0", "0", "4", "1">>, <<"4", "1", "n">>, <<"4">>}

\* perm values: nothing (everything), read and write, all bits, one past
\* the int's bits, and not a number.
MCPermInputs == {<<"0">>, <<"6">>, <<"-", "1">>, <<"1", "6">>, <<"n">>}

\* gid values: a group, and a gid with no entry; the parsing is
\* print_uid's and is checked there.
MCGidInputs == {<<"0">>, <<"7">>}

MCFieldInputs ==
    [t \in {"uid", "gid", "a2", "exit", "escaped", "perm", "success", "promisc", "other"} |->
        CASE t \in {"uid", "a2"} -> MCInputs
          [] t = "gid"     -> MCGidInputs
          [] t = "exit"    -> MCExitInputs
          [] t = "escaped" -> MCEscapedInputs
          [] t = "perm"    -> MCPermInputs
          [] t = "success" -> {<<"0">>, <<"1">>, <<"2">>, <<"n", "o">>}
          [] t = "promisc" -> {<<"0">>, <<"1">>}
          [] OTHER         -> {<<"n">>}]

\* fcntl a2 values in hex: 0x1 and 0x10 (one past a 4-bit uid_t), and
\* "a", which is 10 in hex and no decimal number.
MCHexFieldInputs == [t \in {"a2"} |-> {<<"1">>, <<"1", "0">>, <<"a">>}]

====
