--------------------------- MODULE MCRemoteConfig ---------------------------
(***************************************************************************)
(* Configuration files for RemoteConfig: every pair of line shapes below,  *)
(* plus the files load_config refuses before reading.  int and unsigned    *)
(* long have 8 and 16 bits, so 200 is past INT_MAX and 70000 past          *)
(* ULONG_MAX.                                                              *)
(***************************************************************************)
EXTENDS RemoteConfig

W(w) == [word |-> w]
N(ds) == [digits |-> ds]
Set(k, v) == <<W(k), W("="), v>>

\* "#pad" fills a comment up to the buffer: after "#pad " the piece ends,
\* and "#cut" ends it in the middle of the next word.
MCWordLen ==
    [w \in {"=", "remote_server", "port", "transport", "mode", "queue_depth",
            "fail_action", "tcp", "immediate", "forward", "ignore", "syslog",
            "exec", "suspend", "single", "halt", "execute", "#", "note",
            "#pad", "#cut", "srv", "bogus", "opt"} |->
        CASE w = "#pad" -> 126
          [] w = "#cut" -> 124
          [] w \in {"=", "#"} -> 1
          [] OTHER -> 4]
MCWords == DOMAIN MCWordLen
MCHashed == {"#", "#pad", "#cut"}
MCExecPrefixed == {"exec", "execute"}

MCLines ==
    { <<>>, <<W("#"), W("note")>>,
      Set("remote_server", W("srv")), Set("port", N(<<6, 0>>)),
      Set("port", N(<<2, 0, 0>>)), Set("port", N(<<7, 0, 0, 0, 0>>)),
      Set("port", W("srv")), Set("queue_depth", N(<<3, 0, 0>>)),
      Set("mode", W("forward")), Set("mode", W("tcp")), Set("transport", W("tcp")),
      Set("fail_action", W("exec")), Set("fail_action", W("execute")),
      Set("fail_action", W("halt")), Set("fail_action", W("bogus")),
      Set("port", N(<<6, 0>>)) \o <<W("opt")>>, <<W("port"), N(<<6, 0>>)>>,
      <<W("port"), W("=")>>, Set("bogus", N(<<1>>)),
      <<W("#pad")>> \o Set("port", N(<<7, 0>>)),
      <<W("#cut")>> \o Set("port", N(<<7, 0>>)) }

Stat(st, uid, wo, reg, lines) ==
    [status |-> st, uid |-> uid, wother |-> wo, reg |-> reg, lines |-> lines]

MCFiles ==
    { Stat("ok", 0, FALSE, TRUE, <<a, b>>) : a \in MCLines, b \in MCLines }
    \cup { Stat("enoent", 0, FALSE, TRUE, <<>>), Stat("error", 0, FALSE, TRUE, <<>>),
           Stat("ok", 1, FALSE, TRUE, <<>>), Stat("ok", 0, TRUE, TRUE, <<>>),
           Stat("ok", 0, FALSE, FALSE, <<>>) }

\* A file that sets the port and then holds a long comment that ends in
\* "port = 70"; and one that sets the mode and then the transport.
MCFilesComment ==
    { Stat("ok", 0, FALSE, TRUE,
           <<Set("port", N(<<6, 0>>)), <<W("#pad")>> \o Set("port", N(<<7, 0>>))>>) }
MCFilesTransport ==
    { Stat("ok", 0, FALSE, TRUE,
           <<Set("port", N(<<6, 0>>)), Set("mode", W("forward")), Set("transport", W("tcp"))>>) }

=============================================================================
