----------------------------- MODULE SmtpSession -----------------------------
(***************************************************************************)
(* The SMTP side of one worker: connection.c, request.c and the epoll loop *)
(* of worker.c, with the master's accept and welcome.  Clients follow the  *)
(* protocol: they send a line and wait for the reply.  TCP cuts what they  *)
(* send into arbitrary pieces; the socket is edge triggered and read once  *)
(* per event.                                                              *)
(*                                                                         *)
(* A line is two atoms, so that it can be cut in the middle of its         *)
(* keyword; what a reply says is left out but for its kind.  The queue is  *)
(* the one of MailQueue; its consumer is the mailhandler.                  *)
(***************************************************************************)
EXTENDS Naturals, Sequences, SequencesExt

CONSTANTS
    Clients,         \* connections of this worker; conns[fd] is the client's
    KindsOf,         \* the kinds of mail a client may have: see Kinds
    Cuts,            \* where TCP cuts the stream: see Arrive
    Departs,         \* TRUE: a client may close at any time
    MaxSessions,     \* bound: how often a client connects
    ReadBufferSize,  \* read_buffer_size, in atoms
    DataBufferSize,  \* data_buffer_size, in atoms
    QueueSize        \* queue_size

(* What request_parse_data and the copy into a mail make of the content:   *)
(*   good        headers and a body                                        *)
(*   long        as good, but more atoms                                   *)
(*   big_body    body_len >= BODY_MAX_LEN                                  *)
(*   no_body     no blank line before the end of data: body stays NULL     *)
(*   no_headers  header_count stays 0                                      *)
(*   many        more than HEADER_MAX_LEN headers: wild pointers, and the  *)
(*               copy runs over header_count and body of the mail          *)
(* A client of kind "quits" says QUIT instead of sending a mail.           *)
Kinds == {"good", "long", "big_body", "no_body", "no_headers", "many", "quits"}

ASSUME SessionAssumption ==
    /\ KindsOf \in [Clients -> SUBSET Kinds]
    /\ Cuts \in {"nowhere", "content", "anywhere"}
    /\ Departs \in BOOLEAN
    /\ {MaxSessions, ReadBufferSize, DataBufferSize, QueueSize} \subseteq Nat \ {0}

Atom(line, part) == <<line, part>>
Line(line) == <<Atom(line, 1), Atom(line, 2)>>
Commands == {"EHLO", "MAIL", "RCPT", "QUIT", "DATA"}

\* The content a client sends between DATA and the end-of-data line.
Text(k) == [i \in 1 .. IF k = "long" THEN 3 ELSE 1 |-> Atom("TEXT", i)]

VARIABLES
    client,   \* client[c]: "away", "connecting", "ready", "waiting", "gone"
    kind,     \* kind[c]: the kind of mail of this session
    line,     \* line[c]: the line of its script c sends next
    session,  \* session[c]: how many times c has connected
    told,     \* told[c]: replies c has read in this session
    net,      \* net[c]: atoms under way to the server
    inbox,    \* inbox[c]: replies under way to the client
    sock,     \* sock[c]: atoms in the kernel's receive buffer
    hup,      \* hup[c]: the client's FIN has arrived
    edge,     \* edge[c]: epoll has something to report about c
    fd,       \* fd[c]: "none", "accepted", "polled"
    batch,    \* events epoll_wait returned and not handled yet: c -> "in" | "hup"
    status,   \* status[c]: CONN_* of conns[fd] between two steps of the handler
    buffer,   \* buffer[c]: what the parser has not seen of conn->read_buffer
    slot,     \* slot[c]: the pointers of conns[fd]: "garbage" as malloc left them,
              \* "live", or "null" after a reset
    req,      \* req[c]: conn->request, if live
    resp,     \* resp[c]: conn->response, if live
    worker,   \* "up" or "dead"
    queue,    \* the mails in the queue file
    taken     \* the mails the mailhandler has dequeued

clientVars == <<client, kind, line, session, told>>
netVars == <<net, inbox>>
kernelVars == <<sock, hup, edge, fd, batch>>
connVars == <<status, buffer, slot, req, resp>>
queueVars == <<queue, taken>>
vars == <<clientVars, netVars, kernelVars, connVars, worker, queueVars>>

request_init == [in_data |-> FALSE, data |-> <<>>, process |-> FALSE, quit |-> FALSE]

NoEvents == [c \in {} |-> "in"]

Init ==
    /\ client = [c \in Clients |-> "away"]
    /\ kind = [c \in Clients |-> "quits"]
    /\ line = [c \in Clients |-> 1]
    /\ session = [c \in Clients |-> 0]
    /\ told = [c \in Clients |-> <<>>]
    /\ net = [c \in Clients |-> <<>>]
    /\ inbox = [c \in Clients |-> <<>>]
    /\ sock = [c \in Clients |-> <<>>]
    /\ hup = [c \in Clients |-> FALSE]
    /\ edge = [c \in Clients |-> FALSE]
    /\ fd = [c \in Clients |-> "none"]
    /\ batch = NoEvents
    /\ status = [c \in Clients |-> "INACTIVE"]
    /\ buffer = [c \in Clients |-> <<>>]
    /\ slot = [c \in Clients |-> "garbage"]
    /\ req = [c \in Clients |-> request_init]
    /\ resp = [c \in Clients |-> <<>>]
    /\ worker = "up"
    /\ queue = <<>>
    /\ taken = <<>>

-----------------------------------------------------------------------------
(* The clients and the network (external). *)

Script(c) ==
    IF kind[c] = "quits" THEN <<Line("EHLO"), Line("QUIT")>>
    ELSE <<Line("EHLO"), Line("MAIL"), Line("RCPT"), Line("DATA"),
           Text(kind[c]) \o Line("EOD")>>

Connect(c) ==
    /\ client[c] = "away" /\ session[c] < MaxSessions
    /\ client' = [client EXCEPT ![c] = "connecting"]
    /\ session' = [session EXCEPT ![c] = @ + 1]
    /\ \E k \in KindsOf[c] : kind' = [kind EXCEPT ![c] = k]
    /\ line' = [line EXCEPT ![c] = 1]
    /\ told' = [told EXCEPT ![c] = <<>>]
    /\ UNCHANGED <<netVars, kernelVars, connVars, worker, queueVars>>

Send(c) ==
    /\ client[c] = "ready"
    /\ net' = [net EXCEPT ![c] = @ \o Script(c)[line[c]]]
    /\ client' = [client EXCEPT ![c] = "waiting"]
    /\ UNCHANGED <<kind, line, session, told, inbox, kernelVars, connVars, worker, queueVars>>

\* A reply: go on with the next line, or leave after the last one.
Receive(c) ==
    /\ inbox[c] # <<>> /\ client[c] \in {"connecting", "waiting"}
    /\ told' = [told EXCEPT ![c] = Append(@, Head(inbox[c]))]
    /\ inbox' = [inbox EXCEPT ![c] = Tail(@)]
    /\ line' = [line EXCEPT ![c] = IF client[c] = "waiting" THEN @ + 1 ELSE @]
    /\ client' = [client EXCEPT ![c] =
                    IF client[c] = "waiting" /\ line[c] = Len(Script(c)) THEN "gone" ELSE "ready"]
    /\ UNCHANGED <<kind, session, net, kernelVars, connVars, worker, queueVars>>

\* The client closes by itself, or because the server has closed.
Leave(c) ==
    /\ client[c] \in {"ready", "waiting"}
    /\ Departs \/ (fd[c] = "none" /\ inbox[c] = <<>>)
    /\ client' = [client EXCEPT ![c] = "gone"]
    /\ UNCHANGED <<kind, line, session, told, netVars, kernelVars, connVars, worker, queueVars>>

\* The server has closed its end as well: the fd can be used again.
Forget(c) ==
    /\ client[c] = "gone" /\ fd[c] = "none"
    /\ client' = [client EXCEPT ![c] = "away"]
    /\ net' = [net EXCEPT ![c] = <<>>]
    /\ inbox' = [inbox EXCEPT ![c] = <<>>]
    /\ UNCHANGED <<kind, line, session, told, kernelVars, connVars, worker, queueVars>>

\* A segment of n atoms reaches the server's socket.
Arrive(c, n) ==
    /\ fd[c] # "none"
    /\ n \in 1 .. Len(net[c])
    /\ \/ n = Len(net[c])
       \/ Cuts = "anywhere"
       \/ Cuts = "content" /\ net[c][n][1] \notin Commands
    /\ sock' = [sock EXCEPT ![c] = @ \o SubSeq(net[c], 1, n)]
    /\ net' = [net EXCEPT ![c] = SubSeq(@, n + 1, Len(@))]
    /\ edge' = [edge EXCEPT ![c] = TRUE]
    /\ UNCHANGED <<clientVars, inbox, hup, fd, batch, connVars, worker, queueVars>>

ArriveFin(c) ==
    /\ client[c] = "gone" /\ fd[c] # "none" /\ net[c] = <<>> /\ ~ hup[c]
    /\ hup' = [hup EXCEPT ![c] = TRUE]
    /\ edge' = [edge EXCEPT ![c] = TRUE]
    /\ UNCHANGED <<clientVars, netVars, sock, fd, batch, connVars, worker, queueVars>>

\* The mailhandler empties the queue file.
pq_dequeue ==
    /\ queue # <<>>
    /\ taken' = Append(taken, Head(queue))
    /\ queue' = Tail(queue)
    /\ UNCHANGED <<clientVars, netVars, kernelVars, connVars, worker>>

-----------------------------------------------------------------------------
(* The master: accept, welcome through a temporary connection, hand over. *)

accept(c) ==
    /\ client[c] = "connecting" /\ fd[c] = "none"
    /\ fd' = [fd EXCEPT ![c] = "accepted"]
    /\ inbox' = [inbox EXCEPT ![c] = <<"220">>]
    /\ UNCHANGED <<clientVars, net, sock, hup, edge, batch, connVars, worker, queueVars>>

\* Mutant: what arrived before the hand-over is not reported.
events_add_event_2_silent(c) ==
    /\ fd[c] = "accepted"
    /\ fd' = [fd EXCEPT ![c] = "polled"]
    /\ edge' = [edge EXCEPT ![c] = FALSE]
    /\ UNCHANGED <<clientVars, netVars, sock, hup, batch, connVars, worker, queueVars>>

\* EPOLL_CTL_ADD reports what is already there.
events_add_event_2(c) ==
    /\ fd[c] = "accepted"
    /\ fd' = [fd EXCEPT ![c] = "polled"]
    /\ edge' = [edge EXCEPT ![c] = sock[c] # <<>> \/ hup[c]]
    /\ UNCHANGED <<clientVars, netVars, sock, hup, batch, connVars, worker, queueVars>>

-----------------------------------------------------------------------------
(* The worker. *)

Idle == \A c \in Clients : status[c] \in {"INACTIVE", "READING"}

Ready == {c \in Clients : fd[c] = "polled" /\ edge[c] /\ (sock[c] # <<>> \/ hup[c])}

events_wait ==
    /\ worker = "up" /\ batch = NoEvents /\ Idle
    /\ Ready # {}
    /\ batch' = [c \in Ready |-> IF hup[c] THEN "hup" ELSE "in"]
    /\ edge' = [c \in Clients |-> FALSE]
    /\ UNCHANGED <<clientVars, netVars, sock, hup, fd, connVars, worker, queueVars>>

ReplyTo(keyword) == CASE keyword = "DATA" -> "354"
                      [] keyword = "QUIT" -> "221"
                      [] OTHER -> "250"

\* Mutant: half of the end-of-data line is enough.
EndOfData_early(data) == IsSuffix(<<Atom("EOD", 1)>>, data)

EndOfData(data) == IsSuffix(Line("EOD"), data)

\* request_parse_data: what is kept of the content, without the end-of-data line.
request_parse_data(c) ==
    [from |-> c, session |-> session[c], kind |-> kind[c],
     body |-> IF kind[c] \in {"big_body", "many"}
              THEN <<>> ELSE SubSeq(req[c].data, 1, Len(req[c].data) - 2)]

events_del_and_close(c) ==
    /\ fd' = [fd EXCEPT ![c] = "none"]
    /\ sock' = [sock EXCEPT ![c] = <<>>]
    /\ hup' = [hup EXCEPT ![c] = FALSE]
    /\ edge' = [edge EXCEPT ![c] = FALSE]

\* Mutant: the status stays CONN_CLOSED.
connection_reset_stays_closed(c) ==
    /\ status' = [status EXCEPT ![c] = "CLOSED"]
    /\ slot' = [slot EXCEPT ![c] = "null"]
    /\ req' = [req EXCEPT ![c] = request_init]
    /\ resp' = [resp EXCEPT ![c] = <<>>]
    /\ buffer' = [buffer EXCEPT ![c] = <<>>]

\* The request, the response and the read buffer are freed.
connection_reset(c) ==
    /\ status' = [status EXCEPT ![c] = "INACTIVE"]
    /\ slot' = [slot EXCEPT ![c] = "null"]
    /\ req' = [req EXCEPT ![c] = request_init]
    /\ resp' = [resp EXCEPT ![c] = <<>>]
    /\ buffer' = [buffer EXCEPT ![c] = <<>>]

Close(c) == events_del_and_close(c) /\ connection_reset(c)

\* Mutant: the loop over the events does not advance.
NextEvent_repeats(c) ==
    /\ worker = "up" /\ Idle
    /\ c \in DOMAIN batch
    /\ UNCHANGED batch

NextEvent(c) ==
    /\ worker = "up" /\ Idle
    /\ c \in DOMAIN batch
    /\ batch' = [d \in DOMAIN batch \ {c} |-> batch[d]]

\* The other end has closed: close without reading.
HandleClosed(c) ==
    /\ NextEvent(c)
    /\ batch[c] = "hup"
    /\ Close(c)
    /\ UNCHANGED <<clientVars, netVars, worker, queueVars>>

\* The same on a descriptor that was never read from: connection_setup has left the
\* pointers as they were, and connection_reset frees what they point to.
HandleClosedCrash(c) ==
    /\ NextEvent(c)
    /\ batch[c] = "hup" /\ slot[c] = "garbage"
    /\ worker' = "dead"
    /\ UNCHANGED <<clientVars, netVars, sock, hup, edge, fd, connVars, queueVars>>

connection_start(c) ==
    /\ slot' = [slot EXCEPT ![c] = "live"]
    /\ req' = [req EXCEPT ![c] = request_init]
    /\ resp' = [resp EXCEPT ![c] = <<>>]

\* read fails because the client has reset the connection.
HandleReadError(c) ==
    /\ NextEvent(c)
    /\ batch[c] = "in" /\ client[c] = "gone"
    /\ Close(c)
    /\ UNCHANGED <<clientVars, netVars, worker, queueVars>>

\* connection_start if need be, and one read.
HandleRead(c) ==
    /\ NextEvent(c)
    /\ batch[c] = "in"
    /\ LET n == IF Len(sock[c]) < ReadBufferSize THEN Len(sock[c]) ELSE ReadBufferSize
       IN /\ buffer' = [buffer EXCEPT ![c] = SubSeq(sock[c], 1, n)]
          /\ sock' = [sock EXCEPT ![c] = SubSeq(@, n + 1, Len(@))]
    /\ IF status[c] = "INACTIVE" THEN connection_start(c) ELSE UNCHANGED <<slot, req, resp>>
    /\ status' = [status EXCEPT ![c] = "PARSING"]
    /\ UNCHANGED <<clientVars, netVars, hup, edge, fd, worker, queueVars>>

-----------------------------------------------------------------------------
(* request_parse_commands: one action per turn of its loop. *)

\* The loop stands in front of the first atom of buffer[c].
AtAtom(c) == worker = "up" /\ status[c] = "PARSING" /\ buffer[c] # <<>>

\* strncmp finds a keyword.  Half a keyword at the end of the buffer is compared
\* with what the allocation held before, and may match.
MayMatch(c) ==
    LET a == Head(buffer[c]) IN
    /\ a[1] \in Commands /\ a[2] = 1
    /\ Len(buffer[c]) > 1 => buffer[c][2] = Atom(a[1], 2)

MayMiss(c) == MayMatch(c) => Len(buffer[c]) = 1

\* A command: only DATA moves on behind the whole keyword.
ParseCommand(c) ==
    /\ AtAtom(c) /\ ~ req[c].in_data
    /\ MayMatch(c)
    /\ LET keyword == Head(buffer[c])[1] IN
       /\ resp' = [resp EXCEPT ![c] = Append(@, ReplyTo(keyword))]
       /\ req' = [req EXCEPT ![c].in_data = keyword = "DATA",
                             ![c].quit = @ \/ keyword = "QUIT"]
       /\ buffer' = [buffer EXCEPT ![c] =
                       IF keyword = "DATA" THEN SubSeq(@, 3, Len(@)) ELSE Tail(@)]
    /\ UNCHANGED <<clientVars, netVars, kernelVars, status, slot, worker, queueVars>>

ParseSkip(c) ==
    /\ AtAtom(c) /\ ~ req[c].in_data
    /\ MayMiss(c)
    /\ buffer' = [buffer EXCEPT ![c] = Tail(@)]
    /\ UNCHANGED <<clientVars, netVars, kernelVars, status, slot, req, resp, worker, queueVars>>

\* Mutant: the end of data does not set request->process.
ParseData_unprocessed(c) ==
    /\ AtAtom(c) /\ req[c].in_data
    /\ Len(req[c].data) < DataBufferSize
    /\ LET data == Append(req[c].data, Head(buffer[c]))
           eod == EndOfData(data)
       IN /\ req' = [req EXCEPT ![c] = [in_data |-> ~ eod, data |-> data,
                        process |-> @.process, quit |-> @.quit \/ eod]]
          /\ resp' = [resp EXCEPT ![c] = IF eod THEN Append(@, "queued") ELSE @]
    /\ buffer' = [buffer EXCEPT ![c] = Tail(@)]
    /\ UNCHANGED <<clientVars, netVars, kernelVars, status, slot, worker, queueVars>>

\* In the content: store, and look for the end of data behind what is stored.
ParseData(c) ==
    /\ AtAtom(c) /\ req[c].in_data
    /\ Len(req[c].data) < DataBufferSize
    /\ LET data == Append(req[c].data, Head(buffer[c]))
           eod == EndOfData(data)
       IN /\ req' = [req EXCEPT ![c] = [in_data |-> ~ eod, data |-> data,
                        process |-> @.process \/ eod, quit |-> @.quit \/ eod]]
          /\ resp' = [resp EXCEPT ![c] = IF eod THEN Append(@, "queued") ELSE @]
    /\ buffer' = [buffer EXCEPT ![c] = Tail(@)]
    /\ UNCHANGED <<clientVars, netVars, kernelVars, status, slot, worker, queueVars>>

\* Too much data: CONN_ERROR.
ParseOverflow(c) ==
    /\ AtAtom(c) /\ req[c].in_data
    /\ Len(req[c].data) >= DataBufferSize
    /\ Close(c)
    /\ UNCHANGED <<clientVars, netVars, batch, worker, queueVars>>

Parse(c) == ParseCommand(c) \/ ParseSkip(c) \/ ParseData(c) \/ ParseOverflow(c)

-----------------------------------------------------------------------------
(* Behind the parser. *)

AtEnd(c) == worker = "up" /\ status[c] = "PARSING" /\ buffer[c] = <<>>

StartWriting(c) ==
    /\ status' = [status EXCEPT ![c] = "WRITING"]
    /\ UNCHANGED <<clientVars, netVars, kernelVars, slot, req, buffer, resp, worker, taken>>

\* Nothing to queue; missing headers are only a warning.
ProcessNothing(c) ==
    /\ AtEnd(c)
    /\ ~ req[c].process \/ kind[c] = "no_headers"
    /\ StartWriting(c)
    /\ UNCHANGED queue

\* pq_enqueue: on PQ_MESSAGE_SIZE_REACHED_ERROR only a line is printed.
ProcessMail(c) ==
    /\ AtEnd(c)
    /\ req[c].process /\ kind[c] \notin {"no_headers", "no_body"}
    /\ queue' = IF Len(queue) < QueueSize THEN Append(queue, request_parse_data(c))
                                          ELSE queue
    /\ StartWriting(c)

\* The body is copied from NULL, or a header through a wild pointer.
ProcessCrash(c) ==
    /\ AtEnd(c)
    /\ req[c].process /\ kind[c] \in {"no_body", "many"}
    /\ worker' = "dead"
    /\ UNCHANGED <<clientVars, netVars, kernelVars, connVars, queueVars>>

Process(c) == ProcessNothing(c) \/ ProcessMail(c) \/ ProcessCrash(c)

\* Mutant: the content read so far is cleared between two reads.
HandleWrite_forgets_data(c) ==
    /\ worker = "up" /\ status[c] = "WRITING"
    /\ inbox' = [inbox EXCEPT ![c] = @ \o resp[c]]
    /\ IF req[c].quit
       THEN Close(c)
       ELSE /\ status' = [status EXCEPT ![c] = "READING"]
            /\ req' = [req EXCEPT ![c] = [request_init EXCEPT !.in_data = req[c].in_data]]
            /\ resp' = [resp EXCEPT ![c] = <<>>]
            /\ UNCHANGED <<buffer, slot, sock, hup, edge, fd>>
    /\ UNCHANGED <<clientVars, net, batch, worker, queueVars>>

\* Mutant: the response is not cleared after it was sent.
HandleWrite_keeps_response(c) ==
    /\ worker = "up" /\ status[c] = "WRITING"
    /\ inbox' = [inbox EXCEPT ![c] = @ \o resp[c]]
    /\ IF req[c].quit
       THEN Close(c)
       ELSE /\ status' = [status EXCEPT ![c] = "READING"]
            /\ req' = [req EXCEPT ![c] = IF @.in_data THEN @ ELSE request_init]
            /\ UNCHANGED <<buffer, slot, resp, sock, hup, edge, fd>>
    /\ UNCHANGED <<clientVars, net, batch, worker, queueVars>>

\* send, then close or clear for the next read.
HandleWrite(c) ==
    /\ worker = "up" /\ status[c] = "WRITING"
    /\ inbox' = [inbox EXCEPT ![c] = @ \o resp[c]]
    /\ IF req[c].quit
       THEN Close(c)
       ELSE /\ status' = [status EXCEPT ![c] = "READING"]
            /\ req' = [req EXCEPT ![c] = IF @.in_data THEN @ ELSE request_init]
            /\ resp' = [resp EXCEPT ![c] = <<>>]
            /\ UNCHANGED <<buffer, slot, sock, hup, edge, fd>>
    /\ UNCHANGED <<clientVars, net, batch, worker, queueVars>>

\* send fails because the client is gone: ECONNRESET.
HandleWriteError(c) ==
    /\ worker = "up" /\ status[c] = "WRITING"
    /\ client[c] = "gone"
    /\ Close(c)
    /\ UNCHANGED <<clientVars, netVars, batch, worker, queueVars>>

\* Or EPIPE, with the SIGPIPE that nothing ignores or handles.
HandleWriteKilled(c) ==
    /\ worker = "up" /\ status[c] = "WRITING"
    /\ client[c] = "gone"
    /\ worker' = "dead"
    /\ UNCHANGED <<clientVars, netVars, kernelVars, connVars, queueVars>>

-----------------------------------------------------------------------------
Environment(c) ==
    \/ Connect(c) \/ Send(c) \/ Receive(c) \/ Leave(c) \/ Forget(c)
    \/ (\E n \in 1 .. Len(net[c]) : Arrive(c, n)) \/ ArriveFin(c)

Handle(c) == HandleClosed(c) \/ HandleClosedCrash(c) \/ HandleReadError(c) \/ HandleRead(c)
             \/ Parse(c) \/ Process(c)
             \/ HandleWrite(c) \/ HandleWriteError(c) \/ HandleWriteKilled(c)

Next ==
    \/ \E c \in Clients :
          Environment(c) \/ accept(c) \/ events_add_event_2(c) \/ Handle(c)
    \/ events_wait
    \/ pq_dequeue

Spec == Init /\ [][Next]_vars

\* The master and the worker are processes that loop for ever; the network
\* delivers; a client reads its replies and notices that it was closed.
FairSpec ==
    /\ Spec
    /\ WF_vars(events_wait \/ \E c \in Clients : Handle(c))
    /\ WF_vars(\E c \in Clients : accept(c) \/ events_add_event_2(c))
    /\ \A c \in Clients :
          /\ WF_vars(ArriveFin(c) \/ \E n \in 1 .. Len(net[c]) : Arrive(c, n))
          /\ WF_vars(Receive(c) \/ Leave(c))

-----------------------------------------------------------------------------
Atoms == (Commands \cup {"TEXT", "EOD"}) \X (1 .. 3)
Replies == {"220", "250", "354", "queued", "221"}
Requests == [in_data : BOOLEAN, data : Seq(Atoms), process : BOOLEAN, quit : BOOLEAN]
MailRecords == [from : Clients, session : 0 .. MaxSessions, kind : Kinds, body : Seq(Atoms)]
Mails == ToSet(queue) \cup ToSet(taken)

\* The connection table, the sockets and the queue keep their types.
TypeOK ==
    /\ client \in [Clients -> {"away", "connecting", "ready", "waiting", "gone"}]
    /\ kind \in [Clients -> Kinds]
    /\ line \in [Clients -> 1 .. 6] /\ session \in [Clients -> 0 .. MaxSessions]
    /\ {told, inbox, resp} \subseteq [Clients -> Seq(Replies)]
    /\ {net, sock, buffer} \subseteq [Clients -> Seq(Atoms)]
    /\ {hup, edge} \subseteq [Clients -> BOOLEAN]
    /\ fd \in [Clients -> {"none", "accepted", "polled"}]
    /\ DOMAIN batch \subseteq Clients /\ \A c \in DOMAIN batch : batch[c] \in {"in", "hup"}
    /\ status \in [Clients -> {"INACTIVE", "READING", "PARSING", "WRITING"}]
    /\ slot \in [Clients -> {"garbage", "live", "null"}]
    /\ \A c \in Clients : status[c] # "INACTIVE" <=> slot[c] = "live"
    /\ req \in [Clients -> Requests]
    /\ worker \in {"up", "dead"}
    /\ {queue, taken} \subseteq Seq(MailRecords) /\ Len(queue) <= QueueSize

\* Client sockets are blocking (socket_setup does not change that), so a read
\* without data would stop the worker and every client it serves.  It never
\* happens: an event that is being handled still has its data.
NeverBlocksInRead ==
    \A c \in DOMAIN batch : batch[c] = "in" => sock[c] # <<>> /\ fd[c] = "polled"

\* The content of a queued mail is what its client sent between DATA and the
\* end-of-data line, however TCP cut it (request_parse_commands accumulates it
\* over the reads), and a client's mail is queued once.
ContentIntact ==
    /\ \A m \in Mails : m.kind \notin {"big_body", "many"} => m.body = Text(m.kind)
    /\ LET all == taken \o queue IN
       \A i, j \in DOMAIN all :
          all[i].from = all[j].from /\ all[i].session = all[j].session => i = j

\* "250 Ok: queued as nada" is true: a mail with headers and a body that fits, whose
\* client has read it, is in the queue file or was dequeued from it, with its body.
AckedIsQueued ==
    \A c \in Clients : "queued" \in ToSet(told[c]) /\ kind[c] \in {"good", "long"} =>
        \E m \in Mails : m.from = c /\ m.session = session[c] /\ m.body = Text(kind[c])

\* What a client is told belongs to what it has said: as long as it stays, the
\* replies it has read or has coming are the welcome and one for each line it has
\* sent, in this order; none is sent twice, before its line or to another client,
\* and the content is acknowledged only as the last line.  That holds however often
\* the content is read in pieces with a send for each, and for every session of the
\* descriptor.
RepliesMatch ==
    \A c \in Clients : client[c] \in {"connecting", "ready", "waiting"} =>
        LET all == IF kind[c] = "quits" THEN <<"220", "250", "221">>
                   ELSE <<"220", "250", "250", "250", "354", "queued">>
            sent == IF client[c] = "waiting" THEN line[c] ELSE line[c] - 1
        IN IsPrefix(told[c] \o inbox[c], SubSeq(all, 1, 1 + sent))

\* Every line a client waits on is answered, or its connection is closed.
EveryLineAnswered ==
    \A c \in Clients : client[c] = "waiting" ~> client[c] # "waiting"
=============================================================================
