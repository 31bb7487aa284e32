------------------------------- MODULE Audispd -------------------------------
(***************************************************************************)
(* The audit event dispatcher src/audisp/audispd.c: one process that       *)
(* reads audit messages from auditd on a pipe, copies each into the        *)
(* bounded output queue of every connected client, and writes the queues   *)
(* out on non-blocking sockets, all from one poll() loop.                  *)
(*                                                                         *)
(* A connection is the slot con_data[fd] together with the POLLOUT bit of  *)
(* st_poll__fds[fd].events.  A message is its sequence number k; it has     *)
(* HLen header bytes and MsgSize[k] body bytes, byte j of message k being  *)
(* <<k, j>>.  Slot contents that are not a message (the zeroed static      *)
(* array, or memory read past the end of out[]) are Junk.                  *)
(*                                                                         *)
(* The clients, auditd and the kernel are the environment: auditd writes   *)
(* messages, clients connect and (when ClientsClose) hang up, and a write  *)
(* returns any of the results the kernel may give.  acc, done and recv are *)
(* history variables of the current connection on each fd: the messages   *)
(* queued for it, the ones written in full, and the bytes written.         *)
(***************************************************************************)
EXTENDS Integers, Sequences, SequencesExt, FiniteSetsExt

CONSTANTS
    OutSz,          \* CONF_CON_OUT_SZ: messages a connection can queue
    NumSz,          \* CONF_CON_NUM_SZ: the highest fd given a con_data slot
    HLen,           \* sizeof(struct audit_dispatcher_header), in bytes
    MsgSize,        \* MsgSize[k]: body bytes of the k-th message from auditd
    MaxIn,          \* messages auditd sends in a behaviour
    MaxConnects,    \* client connections made in a behaviour
    ClientsClose    \* whether a client may hang up

\* main(): fds 0-2 are open, so dup(STDIN) is fd 3 and the socket fd 4;
\* accepted connections get the lowest free fd from 5 up.
PipeFd == 3
LoclFd == 4
FirstConFd == 5
Slots == FirstConFd..NumSz
Msgs == 1..MaxIn
Junk == 0

VARIABLES
    con,      \* con[fd]: con_data[fd] plus the POLLOUT bit of its pollfd
    peer,     \* peer[fd]: "open" or "closed", the client end of fd
    todo,     \* fds io_poll_loop still has to serve after the last poll
    alive,    \* FALSE once the process has been killed
    sent,     \* messages auditd has written to the pipe
    pipe,     \* messages in the pipe not yet read
    backlog,  \* connections waiting in listen()'s queue
    conns,    \* connections clients have made
    ub,       \* undefined behaviour that has happened: "overread", "overflow"
    acc, done, recv

vars == <<con, peer, todo, alive, sent, pipe, backlog, conns, ub, acc, done, recv>>

Bytes(k) == [j \in 1..(HLen + MsgSize[k]) |-> <<k, j>>]

\* con_data_used_num: messages queued and not yet written out.
ConDataUsedNum(c) == c.num - c.off

\* The messages queued on c, oldest first: out[off] .. out[num - 1].
Queue(c) == [i \in 1..(c.num - c.off) |-> c.out[c.off + i - 1]]

\* Mutant: the compaction copies from out instead of out + off.
MemmoveNoOffset(out, off, n) ==
    [i \in 0..(OutSz - 1) |-> out[i]]

\* memmove(out, out + off, n * sizeof out[0]): slot i gets slot i + off,
\* which for i + off >= OutSz lies past the end of out[].
Memmove(out, off, n) ==
    [i \in 0..(OutSz - 1) |->
        IF i >= n THEN out[i]
        ELSE IF i + off < OutSz THEN out[i + off] ELSE Junk]

(***************************************************************************)
(* con_data_add: compact the queue when out[] is used up to its end, then  *)
(* store the message in out[num++].  Returns the connection and the        *)
(* undefined behaviour the call performs.                                   *)
(***************************************************************************)
ConDataAdd(c, k) ==
    LET full == c.num = OutSz
        cc == IF full
              THEN [c EXCEPT !.out = Memmove(c.out, c.off, c.num),
                             !.num = c.num - c.off, !.off = 0]
              ELSE c
    IN  [con |-> [cc EXCEPT !.out = IF cc.num < OutSz
                                    THEN [@ EXCEPT ![cc.num] = k] ELSE @,
                            !.num = cc.num + 1],
         ub  |-> (IF full /\ c.off + c.num > OutSz THEN {"overread"} ELSE {})
                 \cup (IF cc.num >= OutSz THEN {"overflow"} ELSE {})]

(***************************************************************************)
(* The loop of auditd_input for one connection: messages k..last are read  *)
(* from the pipe in turn, and each is queued on the connection unless it   *)
(* is inactive or its queue holds OutSz messages, in which case the        *)
(* message is dropped for it.                                               *)
(***************************************************************************)
\* Mutant: the queue-full test of auditd_input is off by one.
RECURSIVE FeedOffByOne(_, _, _)
FeedOffByOne(r, k, last) ==
    IF k > last THEN r
    ELSE IF ~r.con.active \/ ConDataUsedNum(r.con) > OutSz
    THEN FeedOffByOne(r, k + 1, last)
    ELSE LET a == ConDataAdd(r.con, k)
         IN  FeedOffByOne([con |-> [a.con EXCEPT !.pollout = TRUE],
                           acc |-> Append(r.acc, k), ub |-> r.ub \cup a.ub],
                          k + 1, last)

RECURSIVE Feed(_, _, _)
Feed(r, k, last) ==
    IF k > last THEN r
    ELSE IF ~r.con.active \/ ConDataUsedNum(r.con) >= OutSz
    THEN Feed(r, k + 1, last)
    ELSE LET a == ConDataAdd(r.con, k)
         IN  Feed([con |-> [a.con EXCEPT !.pollout = TRUE],
                   acc |-> Append(r.acc, k), ub |-> r.ub \cup a.ub],
                  k + 1, last)

\* The bytes con_output hands to write()/writev() for message k when used
\* bytes of it have been written: the code restarts the header at hdr and
\* the body at msg instead of skipping the used bytes.
Wire(k, used) ==
    IF used >= HLen
    THEN [j \in 1..(MsgSize[k] - (used - HLen)) |-> <<k, HLen + j>>]
    ELSE [j \in 1..(HLen - used) |-> <<k, j>>]
         \o [j \in 1..MsgSize[k] |-> <<k, HLen + j>>]

\* The lowest fd accept() can return: fds of active connections are open.
LowestFreeFd ==
    LET free == {fd \in Slots : ~con[fd].active}
    IN  IF free = {} THEN NumSz + 1
        ELSE CHOOSE fd \in free : \A g \in free : fd <= g

EmptyCon == [active |-> FALSE, out |-> [i \in 0..(OutSz - 1) |-> Junk],
             num |-> 0, off |-> 0, used |-> 0, pollout |-> FALSE]

\* main() after io_poll_init and con_init: static storage is zeroed.
Init ==
    /\ con = [fd \in Slots |-> EmptyCon]
    /\ peer = [fd \in Slots |-> "closed"]
    /\ todo = <<>>
    /\ alive = TRUE
    /\ sent = 0 /\ pipe = 0
    /\ backlog = 0 /\ conns = 0
    /\ ub = {}
    /\ acc = [fd \in Slots |-> <<>>]
    /\ done = [fd \in Slots |-> <<>>]
    /\ recv = [fd \in Slots |-> <<>>]


(***************************************************************************)
(* io_poll_block and the poll(): it returns once the listening socket has  *)
(* a connection, the pipe has data, or some fd with POLLOUT set is          *)
(* writable.  Which sockets are writable is up to the clients' reading.    *)
(* io_poll_loop then serves, in this order, the listening socket, the pipe *)
(* and the writable fds by increasing number.                              *)
(***************************************************************************)
Poll ==
    /\ alive /\ todo = <<>>
    /\ \E rout \in SUBSET {fd \in Slots : con[fd].active /\ con[fd].pollout} :
         LET jobs == (IF backlog > 0 THEN <<LoclFd>> ELSE <<>>)
                     \o (IF pipe > 0 THEN <<PipeFd>> ELSE <<>>)
                     \o SetToSortSeq(rout, <)
         IN  jobs # <<>> /\ todo' = jobs
    /\ UNCHANGED <<con, peer, alive, sent, pipe, backlog, conns, ub, acc, done, recv>>

\* Nothing is ready: the process sleeps in poll().
BlockInPoll ==
    /\ alive /\ todo = <<>>
    /\ backlog = 0 /\ pipe = 0
    /\ \A fd \in Slots : ~(con[fd].active /\ con[fd].pollout)
    /\ UNCHANGED vars

Serving(fd) == alive /\ todo # <<>> /\ Head(todo) = fd /\ todo' = Tail(todo)

(***************************************************************************)
(* con_accept: accept() returns the lowest free fd.  One within the table  *)
(* gets con_add: the slot is reset (out[] keeps what the last connection   *)
(* left there) and the pollfd's events are set to 0.  A higher fd is       *)
(* closed again.                                                            *)
(***************************************************************************)
ConAccept ==
    /\ Serving(LoclFd)
    /\ backlog' = backlog - 1
    /\ LET fd == LowestFreeFd IN
       \/ /\ fd <= NumSz
          /\ con' = [con EXCEPT ![fd] = [@ EXCEPT !.used = 0, !.num = 0, !.off = 0,
                                                   !.active = TRUE, !.pollout = FALSE]]
          /\ peer' = [peer EXCEPT ![fd] = "open"]
          /\ acc' = [acc EXCEPT ![fd] = <<>>]
          /\ done' = [done EXCEPT ![fd] = <<>>]
          /\ recv' = [recv EXCEPT ![fd] = <<>>]
       \/ /\ fd > NumSz
          /\ UNCHANGED <<con, peer, acc, done, recv>>
    /\ UNCHANGED <<alive, sent, pipe, conns, ub>>

\* auditd_input: it recurses until read() says EAGAIN, so it reads every
\* message in the pipe, each queued on every connection with room for it.
AuditdInput ==
    /\ Serving(PipeFd)
    /\ LET first == sent - pipe + 1
           r == [fd \in Slots |->
                   Feed([con |-> con[fd], acc |-> acc[fd], ub |-> {}], first, sent)]
       IN  /\ con' = [fd \in Slots |-> r[fd].con]
           /\ acc' = [fd \in Slots |-> r[fd].acc]
           /\ ub' = ub \cup UNION {r[fd].ub : fd \in Slots}
    /\ pipe' = 0
    /\ UNCHANGED <<peer, alive, sent, backlog, conns, done, recv>>

(***************************************************************************)
(* con_output: write the rest of message out[off].  A write to a client   *)
(* that has hung up raises SIGPIPE, whose default action kills the         *)
(* process.  Otherwise write() returns EAGAIN, another error (the          *)
(* connection is closed), part of the bytes (used grows) or all of them    *)
(* (the message is done, and when it was the last one the queue is reset  *)
(* and POLLOUT cleared).                                                    *)
(***************************************************************************)
OutputAgain(fd) ==
    UNCHANGED <<con, acc, done, recv>>

OutputError(fd) ==
    /\ con' = [con EXCEPT ![fd].active = FALSE]
    /\ UNCHANGED <<acc, done, recv>>

\* Mutant: a write of all len bytes is taken for a partial one.
OutputPartialOffByOne(fd) ==
    LET c == con[fd]
        w == Wire(c.out[c.off], c.used)
    IN  /\ \E ret \in 1..Len(w) :
             /\ con' = [con EXCEPT ![fd].used = c.used + ret]
             /\ recv' = [recv EXCEPT ![fd] = @ \o SubSeq(w, 1, ret)]
        /\ UNCHANGED <<acc, done>>

OutputPartial(fd) ==
    LET c == con[fd]
        w == Wire(c.out[c.off], c.used)
    IN  /\ \E ret \in 1..(Len(w) - 1) :
             /\ con' = [con EXCEPT ![fd].used = c.used + ret]
             /\ recv' = [recv EXCEPT ![fd] = @ \o SubSeq(w, 1, ret)]
        /\ UNCHANGED <<acc, done>>

\* Mutant: POLLOUT is cleared after every full write.
OutputFullClearPollout(fd) ==
    LET c == con[fd]
        k == c.out[c.off]
        last == c.off + 1 = c.num
    IN  /\ con' = [con EXCEPT ![fd] =
                     [c EXCEPT !.used = 0,
                               !.off = IF last THEN 0 ELSE c.off + 1,
                               !.num = IF last THEN 0 ELSE c.num,
                               !.pollout = FALSE]]
        /\ recv' = [recv EXCEPT ![fd] = @ \o Wire(k, c.used)]
        /\ done' = [done EXCEPT ![fd] = Append(@, k)]
        /\ UNCHANGED acc

OutputFull(fd) ==
    LET c == con[fd]
        k == c.out[c.off]
        last == c.off + 1 = c.num
    IN  /\ con' = [con EXCEPT ![fd] =
                     [c EXCEPT !.used = 0,
                               !.off = IF last THEN 0 ELSE c.off + 1,
                               !.num = IF last THEN 0 ELSE c.num,
                               !.pollout = ~last /\ c.pollout]]
        /\ recv' = [recv EXCEPT ![fd] = @ \o Wire(k, c.used)]
        /\ done' = [done EXCEPT ![fd] = Append(@, k)]
        /\ UNCHANGED acc

Written(fd) == OutputPartial(fd) \/ OutputFull(fd)

ConOutput(fd) ==
    /\ Serving(fd)
    /\ \/ /\ peer[fd] = "closed"
          /\ alive' = FALSE
          /\ UNCHANGED <<con, acc, done, recv>>
       \/ /\ peer[fd] = "open"
          /\ alive' = TRUE
          /\ \/ OutputAgain(fd) \/ OutputError(fd) \/ Written(fd)
    /\ UNCHANGED <<peer, sent, pipe, backlog, conns, ub>>

\* auditd writes the next message to the pipe.
AuditdWrite ==
    /\ sent < MaxIn
    /\ sent' = sent + 1 /\ pipe' = pipe + 1
    /\ UNCHANGED <<con, peer, todo, alive, backlog, conns, ub, acc, done, recv>>

\* A client connects to the local socket.
ClientConnect ==
    /\ conns < MaxConnects
    /\ conns' = conns + 1 /\ backlog' = backlog + 1
    /\ UNCHANGED <<con, peer, todo, alive, sent, pipe, ub, acc, done, recv>>

\* A client closes its end; audispd never reads from it, so it only learns
\* of this when it next writes.
ClientHangup(fd) ==
    /\ ClientsClose /\ con[fd].active /\ peer[fd] = "open"
    /\ peer' = [peer EXCEPT ![fd] = "closed"]
    /\ UNCHANGED <<con, todo, alive, sent, pipe, backlog, conns, ub, acc, done, recv>>

Daemon == Poll \/ ConAccept \/ AuditdInput \/ \E fd \in Slots : ConOutput(fd)

Environment == AuditdWrite \/ ClientConnect \/ \E fd \in Slots : ClientHangup(fd)

Next == Daemon \/ BlockInPoll \/ Environment

Spec == Init /\ [][Next]_vars

(***************************************************************************)
(* The loop never stops while something is ready (weak fairness of the    *)
(* daemon's steps).  A client that keeps reading makes its socket          *)
(* writable again and again, and its writes make progress: strong         *)
(* fairness of the poll reporting the fd writable and of a write that     *)
(* moves bytes.                                                             *)
(***************************************************************************)
ReportsWritable(fd) == Poll /\ fd \in ToSet(todo')

FairSpec ==
    /\ Spec
    /\ WF_vars(Daemon)
    /\ \A fd \in Slots : SF_vars(ReportsWritable(fd))
    /\ \A fd \in Slots : SF_vars(Serving(fd) /\ peer[fd] = "open" /\ Written(fd)
                                  /\ UNCHANGED <<peer, sent, pipe, backlog, conns, ub>>
                                  /\ alive' = TRUE)


-----------------------------------------------------------------------------
(***************************************************************************)
(* Properties.                                                              *)
(***************************************************************************)

\* The largest message body; struct con_data says used stays below the
\* size of one message.
MaxBody == Max({MsgSize[k] : k \in Msgs})

ConType == [active : BOOLEAN, out : [0..(OutSz - 1) -> Msgs \cup {Junk}],
            num : 0..OutSz, off : 0..OutSz, pollout : BOOLEAN,
            used : 0..(HLen + MaxBody - 1)]

TypeOK ==
    /\ con \in [Slots -> ConType]
    /\ peer \in [Slots -> {"open", "closed"}]
    /\ todo \in Seq({LoclFd, PipeFd} \cup Slots)
    /\ alive \in BOOLEAN
    /\ sent \in 0..MaxIn /\ pipe \in 0..sent
    /\ backlog \in 0..conns /\ conns \in 0..MaxConnects
    /\ ub \subseteq {"overread", "overflow"}

\* The bytes a connection should have received: its queued messages, whole
\* and in order.
Expected(fd) == FlattenSeq([i \in 1..Len(acc[fd]) |-> Bytes(acc[fd][i])])

(***************************************************************************)
(* After any mix of auditd_input, con_data_add's compaction and full or    *)
(* partial con_output writes, out[off..num-1] holds exactly the messages  *)
(* queued for the connection and not yet written, oldest first, and every  *)
(* message written in full was queued, in queue order.                     *)
(***************************************************************************)
QueueFaithful ==
    \A fd \in Slots :
        con[fd].active =>
            /\ con[fd].off <= con[fd].num
            /\ acc[fd] = done[fd] \o Queue(con[fd])

(***************************************************************************)
(* con_data_add never stores into out[OutSz]: the caller's                 *)
(* con_data_used_num check and the compaction together keep num < OutSz   *)
(* at the store.                                                            *)
(***************************************************************************)
NoOverflow == "overflow" \notin ub

(***************************************************************************)
(* The compaction in con_data_add reads only out[]: the memmove copies     *)
(* from out[off] no more entries than lie before the end of the array.     *)
(***************************************************************************)
NoOverread == "overread" \notin ub

(***************************************************************************)
(* What con_output writes on a connection is the byte stream of the        *)
(* messages queued on it: after a partial write the next write carries on  *)
(* from the first unwritten byte.                                          *)
(***************************************************************************)
ByteStreamFaithful == \A fd \in Slots : IsPrefix(recv[fd], Expected(fd))

(***************************************************************************)
(* A client that hangs up costs only its own connection: the error path of *)
(* con_output closes it, and the daemon keeps serving the others.          *)
(***************************************************************************)
KeepsRunning == alive

(***************************************************************************)
(* Every message queued on a connection whose client keeps reading is      *)
(* eventually written: a non-empty queue is drained, or the connection    *)
(* closed by a write error.                                                *)
(***************************************************************************)
QueuesDrain ==
    \A fd \in Slots :
        (con[fd].active /\ ConDataUsedNum(con[fd]) > 0)
            ~> (~con[fd].active \/ ConDataUsedNum(con[fd]) = 0)

====
