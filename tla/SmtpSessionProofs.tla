------------------------- MODULE SmtpSessionProofs --------------------------
(***************************************************************************)
(* Theorems about SmtpSession for any set of clients and kinds of mail,    *)
(* any cuts of the stream, any buffer and queue sizes, and any number of   *)
(* sessions.                                                               *)
(***************************************************************************)
EXTENDS SmtpSession, SequenceTheorems, FiniteSetTheorems, TLAPS

-----------------------------------------------------------------------------
(* Types, by the owner of the variables. *)

ClientTypes ==
    /\ client \in [Clients -> {"away", "connecting", "ready", "waiting", "gone"}]
    /\ kind \in [Clients -> Kinds]
    /\ line \in [Clients -> 1 .. 6]
    /\ session \in [Clients -> 0 .. MaxSessions]
    /\ told \in [Clients -> Seq(Replies)]

\* A client that has not left is at a line of its script.
InScript ==
    \A c \in Clients : client[c] \in {"connecting", "ready", "waiting"} =>
        line[c] <= Len(Script(c))

NetTypes == net \in [Clients -> Seq(Atoms)] /\ inbox \in [Clients -> Seq(Replies)]

SocketTypes ==
    /\ sock \in [Clients -> Seq(Atoms)]
    /\ hup \in [Clients -> BOOLEAN] /\ edge \in [Clients -> BOOLEAN]
    /\ fd \in [Clients -> {"none", "accepted", "polled"}]

BatchTypes == DOMAIN batch \subseteq Clients /\ \A c \in DOMAIN batch : batch[c] \in {"in", "hup"}

SlotTypes ==
    /\ slot \in [Clients -> {"garbage", "live", "null"}]
    /\ \A c \in Clients : status[c] # "INACTIVE" <=> slot[c] = "live"

ConnTypes ==
    /\ status \in [Clients -> {"INACTIVE", "READING", "PARSING", "WRITING"}]
    /\ buffer \in [Clients -> Seq(Atoms)]
    /\ SlotTypes
    /\ req \in [Clients -> Requests]
    /\ resp \in [Clients -> Seq(Replies)]

QueueTypes ==
    /\ worker \in {"up", "dead"}
    /\ queue \in Seq(MailRecords) /\ taken \in Seq(MailRecords)
    /\ Len(queue) <= QueueSize

TypeInv ==
    /\ ClientTypes /\ InScript
    /\ NetTypes /\ SocketTypes /\ BatchTypes
    /\ ConnTypes /\ QueueTypes

\* The parts make the whole.
LEMMA TypeInvIsTypeOK == TypeInv => TypeOK
BY DEF TypeInv, ClientTypes, NetTypes, SocketTypes, BatchTypes, ConnTypes, SlotTypes, QueueTypes, TypeOK

\* A line of a script is a sequence of atoms.
LEMMA ScriptTypes ==
    ASSUME ClientTypes, NEW c \in Clients
    PROVE  /\ Len(Script(c)) \in 1 .. 5
           /\ \A i \in 1 .. Len(Script(c)) : Script(c)[i] \in Seq(Atoms)
<1>1. \A x \in Commands \cup {"TEXT", "EOD"} : \A i \in 1 .. 3 : Atom(x, i) \in Atoms
    BY DEF Atom, Atoms
<1>2. \A x \in Commands \cup {"EOD"} : Line(x) \in Seq(Atoms)
    BY <1>1 DEF Line
<1>3. Text(kind[c]) \in Seq(Atoms)
    <2>1. CASE kind[c] = "long"
        <3>1. Text(kind[c]) \in [1 .. 3 -> Atoms]
            BY <1>1, <2>1 DEF Text
        <3> QED BY <3>1, SeqDef
    <2>2. CASE kind[c] # "long"
        <3>1. Text(kind[c]) \in [1 .. 1 -> Atoms]
            BY <1>1, <2>2 DEF Text
        <3> QED BY <3>1, SeqDef
    <2> QED BY <2>1, <2>2
<1>4. Text(kind[c]) \o Line("EOD") \in Seq(Atoms)
    BY <1>2, <1>3
<1>5. CASE kind[c] = "quits"
    BY <1>2, <1>5 DEF Script, Commands
<1>6. CASE kind[c] # "quits"
    <2> DEFINE content == Text(kind[c]) \o Line("EOD")
    <2>1. Script(c) = <<Line("EHLO"), Line("MAIL"), Line("RCPT"), Line("DATA"), content>>
        BY <1>6 DEF Script
    <2>2. \A x \in {"EHLO", "MAIL", "RCPT", "DATA"} : Line(x) \in Seq(Atoms)
        BY <1>2 DEF Commands
    <2>3. content \in Seq(Atoms)
        BY <1>4
    <2> HIDE DEF content
    <2>4. /\ Len(Script(c)) = 5
          /\ Script(c)[1] = Line("EHLO") /\ Script(c)[2] = Line("MAIL")
          /\ Script(c)[3] = Line("RCPT") /\ Script(c)[4] = Line("DATA")
          /\ Script(c)[5] = content
        BY <2>1
    <2>5. \A i \in 1 .. 5 : i = 1 \/ i = 2 \/ i = 3 \/ i = 4 \/ i = 5
        OBVIOUS
    <2> QED BY <2>2, <2>3, <2>4, <2>5
<1> QED BY <1>5, <1>6

\* The first state is well typed.
LEMMA TypeInit == Init => TypeInv
<1> SUFFICES ASSUME Init PROVE TypeInv
    OBVIOUS
<1> USE SessionAssumption DEF Init
<1>1. ClientTypes
    BY DEF ClientTypes, Kinds
<1>2. InScript
    BY DEF InScript
<1>3. NetTypes /\ SocketTypes
    BY DEF NetTypes, SocketTypes
<1>4. BatchTypes
    BY DEF BatchTypes, NoEvents
<1>5. request_init \in Requests
    BY DEF request_init, Requests
<1>6. ConnTypes
    BY <1>5 DEF ConnTypes, SlotTypes
<1>7. QueueTypes
    BY DEF QueueTypes
<1> QED BY <1>1, <1>2, <1>3, <1>4, <1>6, <1>7 DEF TypeInv

\* Closing a descriptor empties its socket and its connection slot.
LEMMA CloseTypes ==
    ASSUME SocketTypes, ConnTypes, NEW c \in Clients, Close(c)
    PROVE  SocketTypes' /\ ConnTypes'
<1>1. request_init \in Requests
    BY DEF request_init, Requests
<1>2. SocketTypes'
    BY DEF SocketTypes, Close, events_del_and_close
<1>3. ConnTypes'
    BY <1>1 DEF ConnTypes, SlotTypes, Close, connection_reset
<1> QED BY <1>2, <1>3

\* An action of a client or of the network keeps the types.
LEMMA EnvironmentTypes ==
    ASSUME TypeInv, NEW c \in Clients, Environment(c)
    PROVE  TypeInv'
<1> USE SessionAssumption DEF TypeInv, ClientTypes
<1>1. CASE Connect(c)
    <2>1. ClientTypes'
        BY <1>1 DEF Connect
    <2>2. InScript'
        <3>1. ASSUME NEW d \in Clients, client'[d] \in {"connecting", "ready", "waiting"}
              PROVE  line'[d] <= Len(Script(d)')
            <4>1. CASE d # c
                BY <1>1, <3>1, <4>1 DEF Connect, InScript, Script
            <4>2. CASE d = c
                BY <1>1, <4>2 DEF Connect, Script
            <4> QED BY <4>1, <4>2
        <3> QED BY <3>1 DEF InScript
    <2> QED BY <1>1, <2>1, <2>2
            DEF Connect, netVars, kernelVars, connVars, queueVars, NetTypes, SocketTypes,
                BatchTypes, ConnTypes, SlotTypes, QueueTypes
<1>2. CASE Send(c)
    <2>1. Script(c)[line[c]] \in Seq(Atoms)
        <3>1. /\ Len(Script(c)) \in 1 .. 5
              /\ \A i \in 1 .. Len(Script(c)) : Script(c)[i] \in Seq(Atoms)
            BY ScriptTypes
        <3>2. line[c] <= Len(Script(c)) /\ line[c] \in 1 .. 6
            BY <1>2 DEF Send, InScript
        <3> QED BY <3>1, <3>2
    <2>2. NetTypes'
        BY <1>2, <2>1 DEF Send, NetTypes
    <2>3. ClientTypes' /\ InScript'
        BY <1>2 DEF Send, InScript, Script
    <2> QED BY <1>2, <2>2, <2>3
            DEF Send, kernelVars, connVars, queueVars, SocketTypes, BatchTypes, ConnTypes, SlotTypes, QueueTypes
<1>3. CASE Receive(c)
    <2>1. Head(inbox[c]) \in Replies /\ Tail(inbox[c]) \in Seq(Replies)
        BY <1>3 DEF Receive, NetTypes
    <2>2. NetTypes'
        BY <1>3, <2>1 DEF Receive, NetTypes
    <2>3. /\ Len(Script(c)) \in 1 .. 5
          /\ line[c] <= Len(Script(c)) /\ line[c] \in 1 .. 6
          /\ line[c] + 1 \in 1 .. 6
        <3>1. PICK n \in 1 .. 5 : n = Len(Script(c))
            BY ScriptTypes
        <3>2. PICK l \in 1 .. 6 : l = line[c] /\ l <= n
            BY <1>3, <3>1 DEF Receive, InScript
        <3>3. l + 1 \in 1 .. 6
            BY <3>2
        <3> QED BY <3>1, <3>2, <3>3
    <2>4. ClientTypes'
        BY <1>3, <2>1, <2>3 DEF Receive
    <2>5. InScript'
        <3>1. ASSUME NEW d \in Clients, client'[d] \in {"connecting", "ready", "waiting"}
              PROVE  line'[d] <= Len(Script(d))
            <4>1. CASE d # c
                BY <1>3, <3>1, <4>1 DEF Receive, InScript
            <4>2. CASE d = c
                BY <1>3, <2>3, <3>1, <4>2 DEF Receive
            <4> QED BY <4>1, <4>2
        <3>2. \A d \in Clients : Script(d)' = Script(d)
            BY <1>3 DEF Receive, Script
        <3> QED BY <3>1, <3>2 DEF InScript
    <2> QED BY <1>3, <2>2, <2>4, <2>5
            DEF Receive, kernelVars, connVars, queueVars, SocketTypes, BatchTypes, ConnTypes, SlotTypes, QueueTypes
<1>4. CASE Leave(c)
    BY <1>4 DEF Leave, netVars, kernelVars, connVars, queueVars, InScript, Script, NetTypes,
                SocketTypes, BatchTypes, ConnTypes, SlotTypes, QueueTypes
<1>5. CASE Forget(c)
    <2>1. ClientTypes'
        BY <1>5 DEF Forget
    <2>2. InScript'
        BY <1>5 DEF Forget, InScript, Script
    <2>3. NetTypes'
        BY <1>5 DEF Forget, NetTypes
    <2>4. SocketTypes' /\ BatchTypes' /\ ConnTypes' /\ QueueTypes'
        BY <1>5 DEF Forget, kernelVars, connVars, queueVars, SocketTypes, BatchTypes,
                    ConnTypes, SlotTypes, QueueTypes
    <2> QED BY <2>1, <2>2, <2>3, <2>4
<1>6. ASSUME NEW n \in 1 .. Len(net[c]), Arrive(c, n) PROVE TypeInv'
    <2>1. SubSeq(net[c], 1, n) \in Seq(Atoms) /\ SubSeq(net[c], n + 1, Len(net[c])) \in Seq(Atoms)
        BY SubSeqProperties DEF NetTypes
    <2>2. sock[c] \o SubSeq(net[c], 1, n) \in Seq(Atoms)
        BY <2>1 DEF SocketTypes
    <2>3. NetTypes'
        BY <1>6, <2>1 DEF Arrive, NetTypes
    <2>4. SocketTypes'
        BY <1>6, <2>2 DEF Arrive, SocketTypes
    <2> QED BY <1>6, <2>3, <2>4
            DEF Arrive, clientVars, connVars, queueVars, InScript, Script, BatchTypes, ConnTypes, SlotTypes,
                QueueTypes
<1>7. CASE ArriveFin(c)
    BY <1>7 DEF ArriveFin, clientVars, netVars, connVars, queueVars, InScript, Script, NetTypes,
                SocketTypes, BatchTypes, ConnTypes, SlotTypes, QueueTypes
<1> QED BY <1>1, <1>2, <1>3, <1>4, <1>5, <1>6, <1>7 DEF Environment

\* The master's hand-over keeps the types.
LEMMA MasterTypes ==
    ASSUME TypeInv, NEW c \in Clients, accept(c) \/ events_add_event_2(c)
    PROVE  TypeInv'
<1> USE DEF TypeInv, ClientTypes, InScript, Script, BatchTypes, ConnTypes, SlotTypes, QueueTypes
<1>1. CASE accept(c)
    <2>1. NetTypes'
        BY <1>1 DEF accept, NetTypes, Replies
    <2>2. SocketTypes'
        BY <1>1 DEF accept, SocketTypes
    <2> QED BY <1>1, <2>1, <2>2 DEF accept, clientVars, connVars, queueVars
<1>2. CASE events_add_event_2(c)
    <2>1. SocketTypes'
        BY <1>2 DEF events_add_event_2, SocketTypes
    <2> QED BY <1>2, <2>1 DEF events_add_event_2, NetTypes, clientVars, netVars, connVars, queueVars
<1> QED BY <1>1, <1>2

\* Waiting for events and reading them keeps the types.
LEMMA EventTypes ==
    ASSUME TypeInv,
           \/ events_wait
           \/ \E c \in Clients : \/ HandleClosed(c) \/ HandleClosedCrash(c)
                                \/ HandleReadError(c) \/ HandleRead(c)
    PROVE  TypeInv'
<1> USE DEF TypeInv, ClientTypes, InScript, Script, NetTypes, QueueTypes
<1>1. CASE events_wait
    <2>1. SocketTypes' /\ BatchTypes'
        BY <1>1 DEF events_wait, SocketTypes, BatchTypes, Ready
    <2> QED BY <1>1, <2>1 DEF events_wait, clientVars, netVars, connVars, queueVars, ConnTypes, SlotTypes
<1>2. ASSUME NEW c \in Clients, HandleClosed(c) \/ HandleReadError(c) PROVE TypeInv'
    <2>1. SocketTypes' /\ ConnTypes'
        BY <1>2, CloseTypes DEF HandleClosed, HandleReadError
    <2>2. BatchTypes'
        BY <1>2 DEF HandleClosed, HandleReadError, NextEvent, BatchTypes
    <2> QED BY <1>2, <2>1, <2>2
            DEF HandleClosed, HandleReadError, clientVars, netVars, queueVars
<1>3. ASSUME NEW c \in Clients, HandleRead(c) PROVE TypeInv'
    <2> DEFINE n == IF Len(sock[c]) < ReadBufferSize THEN Len(sock[c]) ELSE ReadBufferSize
               now == SubSeq(sock[c], 1, n)
               rest == SubSeq(sock[c], n + 1, Len(sock[c]))
    <2>1. sock[c] \in Seq(Atoms)
        BY DEF SocketTypes
    <2>2. n \in Nat /\ n <= Len(sock[c])
        BY <2>1, SessionAssumption
    <2>3. buffer' = [buffer EXCEPT ![c] = now] /\ sock' = [sock EXCEPT ![c] = rest]
        BY <1>3 DEF HandleRead
    <2> HIDE DEF n
    <2>4. now \in Seq(Atoms) /\ rest \in Seq(Atoms)
        BY <2>1, <2>2, SubSeqProperties
    <2> HIDE DEF now, rest
    <2>5. /\ UNCHANGED <<hup, edge, fd>>
          /\ status' = [status EXCEPT ![c] = "PARSING"]
        BY <1>3 DEF HandleRead
    <2>9. /\ req' \in [Clients -> Requests] /\ resp' \in [Clients -> Seq(Replies)]
          /\ slot' = [slot EXCEPT ![c] = "live"]
        <3>1. CASE status[c] = "INACTIVE"
            <4>1. request_init \in Requests /\ <<>> \in Seq(Replies)
                BY DEF request_init, Requests
            <4>2. connection_start(c)
                BY <1>3, <3>1 DEF HandleRead
            <4> QED BY <4>1, <4>2 DEF connection_start, ConnTypes, SlotTypes
        <3>2. CASE status[c] # "INACTIVE"
            <4>1. UNCHANGED <<slot, req, resp>> /\ slot[c] = "live"
                BY <1>3, <3>2 DEF HandleRead, ConnTypes, SlotTypes
            <4> QED BY <4>1 DEF ConnTypes, SlotTypes
        <3> QED BY <3>1, <3>2
    <2>6. SocketTypes'
        BY <2>3, <2>4, <2>5 DEF SocketTypes
    <2>7. ConnTypes'
        BY <2>3, <2>4, <2>5, <2>9 DEF ConnTypes, SlotTypes
    <2>8. BatchTypes'
        BY <1>3 DEF HandleRead, NextEvent, BatchTypes
    <2> QED BY <1>3, <2>6, <2>7, <2>8 DEF HandleRead, clientVars, netVars, queueVars
<1>4. ASSUME NEW c \in Clients, HandleClosedCrash(c) PROVE TypeInv'
    <2>1. BatchTypes'
        BY <1>4 DEF HandleClosedCrash, NextEvent, BatchTypes
    <2> QED BY <1>4, <2>1
            DEF HandleClosedCrash, clientVars, netVars, connVars, queueVars, SocketTypes, ConnTypes, SlotTypes
<1> QED BY <1>1, <1>2, <1>3, <1>4

\* Every turn of the parser's loop keeps the types.
LEMMA ParseTypes ==
    ASSUME TypeInv, NEW c \in Clients, Parse(c)
    PROVE  TypeInv'
<1> USE DEF TypeInv, ClientTypes, InScript, Script, NetTypes, BatchTypes, QueueTypes
<1>1. buffer[c] # <<>> /\ buffer[c] \in Seq(Atoms)
    BY DEF Parse, ParseCommand, ParseSkip, ParseData, ParseOverflow, AtAtom, ConnTypes, SlotTypes
<1>2. /\ Head(buffer[c]) \in Atoms /\ Tail(buffer[c]) \in Seq(Atoms)
      /\ SubSeq(buffer[c], 3, Len(buffer[c])) \in Seq(Atoms)
    <2>1. SubSeq(buffer[c], 3, Len(buffer[c])) \in Seq(Atoms)
        BY <1>1, SubSeqProperties
    <2> QED BY <1>1, <2>1
<1>3. CASE ParseCommand(c)
    <2> DEFINE keyword == Head(buffer[c])[1]
    <2>1. ReplyTo(keyword) \in Replies
        BY DEF ReplyTo, Replies
    <2>2. Append(resp[c], ReplyTo(keyword)) \in Seq(Replies)
        BY <2>1 DEF ConnTypes, SlotTypes
    <2>3. resp' \in [Clients -> Seq(Replies)]
        BY <1>3, <2>2 DEF ParseCommand, ConnTypes, SlotTypes
    <2>4. buffer' \in [Clients -> Seq(Atoms)]
        BY <1>2, <1>3 DEF ParseCommand, ConnTypes, SlotTypes
    <2>5. req' \in [Clients -> Requests]
        <3> DEFINE q == [req[c] EXCEPT !.in_data = keyword = "DATA",
                                       !.quit = @ \/ keyword = "QUIT"]
        <3>1. req' = [req EXCEPT ![c] = q]
            BY <1>3 DEF ParseCommand, ConnTypes, SlotTypes
        <3>2. q \in Requests
            <4>1. req[c] \in Requests
                BY DEF ConnTypes, SlotTypes
            <4> QED BY <4>1 DEF Requests
        <3> HIDE DEF q
        <3> QED BY <3>1, <3>2 DEF ConnTypes, SlotTypes
    <2>6. ConnTypes'
        BY <1>3, <2>3, <2>4, <2>5 DEF ParseCommand, ConnTypes, SlotTypes
    <2> QED BY <1>3, <2>6 DEF ParseCommand, clientVars, netVars, kernelVars, queueVars, SocketTypes
<1>4. CASE ParseSkip(c)
    <2>1. ConnTypes'
        BY <1>2, <1>4 DEF ParseSkip, ConnTypes, SlotTypes
    <2> QED BY <1>4, <2>1 DEF ParseSkip, clientVars, netVars, kernelVars, queueVars, SocketTypes
<1>5. CASE ParseData(c)
    <2> DEFINE data == Append(req[c].data, Head(buffer[c]))
               r == [in_data |-> ~ EndOfData(data), data |-> data,
                     process |-> req[c].process \/ EndOfData(data),
                     quit |-> req[c].quit \/ EndOfData(data)]
    <2>1. req[c].data \in Seq(Atoms)
        BY DEF ConnTypes, SlotTypes, Requests
    <2>2. data \in Seq(Atoms)
        BY <1>2, <2>1
    <2> HIDE DEF data
    <2>3. r \in Requests
        BY <2>2 DEF Requests
    <2>4. req' = [req EXCEPT ![c] = r]
        BY <1>5 DEF ParseData, data
    <2> HIDE DEF r
    <2>5. resp' \in [Clients -> Seq(Replies)]
        BY <1>5 DEF ParseData, ConnTypes, SlotTypes, Replies
    <2>6. req' \in [Clients -> Requests]
        BY <2>3, <2>4 DEF ConnTypes, SlotTypes
    <2>7. buffer' \in [Clients -> Seq(Atoms)]
        BY <1>2, <1>5 DEF ParseData, ConnTypes, SlotTypes
    <2>8. ConnTypes'
        BY <1>5, <2>5, <2>6, <2>7 DEF ParseData, ConnTypes, SlotTypes
    <2> QED BY <1>5, <2>8 DEF ParseData, clientVars, netVars, kernelVars, queueVars, SocketTypes
<1>6. CASE ParseOverflow(c)
    <2>1. SocketTypes' /\ ConnTypes'
        BY <1>6, CloseTypes DEF ParseOverflow
    <2> QED BY <1>6, <2>1 DEF ParseOverflow, clientVars, netVars, queueVars
<1> QED BY <1>3, <1>4, <1>5, <1>6 DEF Parse

\* A mail that was taken apart is a mail.
LEMMA MailTypes ==
    ASSUME TypeInv, NEW c \in Clients
    PROVE  request_parse_data(c) \in MailRecords
<1>1. req[c].data \in Seq(Atoms)
    BY DEF TypeInv, ConnTypes, SlotTypes, Requests
<1>2. SubSeq(req[c].data, 1, Len(req[c].data) - 2) \in Seq(Atoms)
    BY <1>1, SubSeqProperties
<1> QED BY <1>2 DEF request_parse_data, MailRecords, TypeInv, ClientTypes

\* What follows the parser keeps the types; the queue never outgrows queue_size.
LEMMA ProcessTypes ==
    ASSUME TypeInv, NEW c \in Clients,
           Process(c) \/ HandleWrite(c) \/ HandleWriteError(c) \/ HandleWriteKilled(c)
    PROVE  TypeInv'
<1> USE DEF TypeInv, ClientTypes, InScript, Script, NetTypes, BatchTypes
<1>1. CASE ProcessNothing(c)
    BY <1>1 DEF ProcessNothing, AtEnd, StartWriting, clientVars, netVars, kernelVars, queueVars,
                SocketTypes, ConnTypes, SlotTypes, QueueTypes
<1>2. CASE ProcessMail(c)
    <2>1. QueueTypes'
        <3>1. request_parse_data(c) \in MailRecords
            BY MailTypes
        <3>2. Len(queue) \in Nat /\ QueueSize \in Nat
            BY SessionAssumption DEF QueueTypes
        <3>3. CASE queue' = queue
            BY <1>2, <3>3 DEF ProcessMail, StartWriting, QueueTypes
        <3>4. CASE Len(queue) < QueueSize /\ queue' = Append(queue, request_parse_data(c))
            <4>1. queue' \in Seq(MailRecords) /\ Len(queue') = Len(queue) + 1
                BY <3>1, <3>4 DEF QueueTypes
            <4> QED BY <1>2, <3>2, <3>4, <4>1 DEF ProcessMail, StartWriting, QueueTypes
        <3> QED BY <1>2, <3>3, <3>4 DEF ProcessMail
    <2> QED BY <1>2, <2>1
            DEF ProcessMail, AtEnd, StartWriting, clientVars, netVars, kernelVars, SocketTypes,
                ConnTypes, SlotTypes
<1>3. CASE ProcessCrash(c)
    BY <1>3 DEF ProcessCrash, clientVars, netVars, kernelVars, connVars, queueVars,
                SocketTypes, ConnTypes, SlotTypes, QueueTypes
<1>6. CASE HandleWriteKilled(c)
    BY <1>6 DEF HandleWriteKilled, clientVars, netVars, kernelVars, connVars, queueVars,
                SocketTypes, ConnTypes, SlotTypes, QueueTypes
<1>4. CASE HandleWrite(c)
    <2>1. NetTypes'
        <3>1. inbox[c] \o resp[c] \in Seq(Replies)
            BY DEF ConnTypes, SlotTypes
        <3> QED BY <1>4, <3>1 DEF HandleWrite
    <2>2. SocketTypes' /\ ConnTypes'
        <3>1. CASE req[c].quit
            BY <1>4, <3>1, CloseTypes DEF HandleWrite
        <3>2. CASE ~ req[c].quit
            <4>1. request_init \in Requests
                BY DEF request_init, Requests
            <4>2. SocketTypes'
                BY <1>4, <3>2 DEF HandleWrite, SocketTypes
            <4>3. req' \in [Clients -> Requests]
                <5>1. req' = [req EXCEPT ![c] = IF @.in_data THEN @ ELSE request_init]
                    BY <1>4, <3>2 DEF HandleWrite
                <5>2. req \in [Clients -> Requests]
                    BY DEF ConnTypes, SlotTypes
                <5> QED BY <4>1, <5>1, <5>2
            <4>4. resp' \in [Clients -> Seq(Replies)]
                <5>1. <<>> \in Seq(Replies) /\ resp' = [resp EXCEPT ![c] = <<>>]
                    BY <1>4, <3>2 DEF HandleWrite
                <5> QED BY <5>1 DEF ConnTypes, SlotTypes
            <4>5. /\ status[c] = "WRITING" /\ status' = [status EXCEPT ![c] = "READING"]
                  /\ UNCHANGED <<buffer, slot>>
                BY <1>4, <3>2 DEF HandleWrite
            <4> QED BY <4>2, <4>3, <4>4, <4>5 DEF ConnTypes, SlotTypes
        <3> QED BY <3>1, <3>2
    <2> QED BY <1>4, <2>1, <2>2 DEF HandleWrite, clientVars, queueVars, QueueTypes
<1>5. CASE HandleWriteError(c)
    <2>1. SocketTypes' /\ ConnTypes'
        BY <1>5, CloseTypes DEF HandleWriteError
    <2> QED BY <1>5, <2>1 DEF HandleWriteError, clientVars, netVars, queueVars, QueueTypes
<1> QED BY <1>1, <1>2, <1>3, <1>4, <1>5, <1>6 DEF Process

\* Every step keeps the types.
LEMMA TypeStep == TypeInv /\ [Next]_vars => TypeInv'
<1> SUFFICES ASSUME TypeInv, [Next]_vars PROVE TypeInv'
    OBVIOUS
<1>1. CASE UNCHANGED vars
    BY <1>1 DEF vars, clientVars, netVars, kernelVars, connVars, queueVars, TypeInv, ClientTypes,
                InScript, Script, NetTypes, SocketTypes, BatchTypes, ConnTypes, SlotTypes, QueueTypes
<1>2. CASE pq_dequeue
    <2>1. queue # <<>> /\ queue \in Seq(MailRecords) /\ Len(queue) \in Nat
        BY <1>2 DEF pq_dequeue, TypeInv, QueueTypes
    <2>2. /\ Head(queue) \in MailRecords /\ Tail(queue) \in Seq(MailRecords)
          /\ Len(Tail(queue)) = Len(queue) - 1
        BY <2>1
    <2>3. QueueTypes'
        BY <1>2, <2>1, <2>2, SessionAssumption DEF pq_dequeue, TypeInv, QueueTypes
    <2> QED BY <1>2, <2>3
            DEF pq_dequeue, TypeInv, ClientTypes, InScript, Script, NetTypes, BatchTypes,
                clientVars, netVars, kernelVars, connVars, SocketTypes, ConnTypes, SlotTypes
<1> QED BY <1>1, <1>2, EnvironmentTypes, MasterTypes, EventTypes, ParseTypes, ProcessTypes
        DEF Next, Handle

\* The connection table, the sockets and the queue keep their types; the queue
\* file never holds more than queue_size mails (pq_enqueue).
THEOREM TypeCorrect == Spec => []TypeOK
<1>1. Spec => []TypeInv
    BY TypeInit, TypeStep, PTL DEF Spec
<1> QED BY <1>1, TypeInvIsTypeOK, PTL

-----------------------------------------------------------------------------
(* The events of a batch, and the slots of closed descriptors. *)

\* The handler is not at work on a client whose event is still to be handled,
\* and what the event reports is still there.
EventInv ==
    \A c \in DOMAIN batch :
        /\ fd[c] = "polled" /\ status[c] \in {"INACTIVE", "READING"}
        /\ batch[c] = "in" => sock[c] # <<>>

\* A slot that is not in use has no request and no response, and a descriptor that
\* is closed has no event of its former owner in the batch.
SlotInv ==
    \A c \in Clients :
        /\ status[c] = "INACTIVE" => req[c] = request_init /\ resp[c] = <<>>
        /\ fd[c] = "none" => status[c] = "INACTIVE" /\ c \notin DOMAIN batch

\* The two invariants hold at the start.
LEMMA EventInit == Init => EventInv /\ SlotInv
BY DEF Init, EventInv, SlotInv, NoEvents

\* The handler may close the connection it is at work on, or whose event it has
\* just taken from the batch.
LEMMA CloseKeepsEvents ==
    ASSUME TypeInv, EventInv, SlotInv, NEW c \in Clients, Close(c),
           \/ NextEvent(c)
           \/ status[c] \in {"PARSING", "WRITING"} /\ UNCHANGED batch
    PROVE  EventInv' /\ SlotInv'
<1>1. c \notin DOMAIN batch'
    BY DEF NextEvent, EventInv
<1>2. DOMAIN batch' \subseteq DOMAIN batch /\ \A d \in DOMAIN batch' : batch'[d] = batch[d]
    BY DEF NextEvent
<1>3. \A d \in Clients \ {c} : /\ fd'[d] = fd[d] /\ status'[d] = status[d] /\ sock'[d] = sock[d]
                               /\ req'[d] = req[d] /\ resp'[d] = resp[d]
    BY DEF Close, events_del_and_close, connection_reset, TypeInv, SocketTypes, ConnTypes, SlotTypes
<1>4. status'[c] = "INACTIVE" /\ req'[c] = request_init /\ resp'[c] = <<>>
    BY DEF Close, connection_reset, TypeInv, ConnTypes, SlotTypes
<1>5. DOMAIN batch' \subseteq Clients
    BY <1>2 DEF TypeInv, BatchTypes
<1>6. EventInv'
    BY <1>1, <1>2, <1>3, <1>5 DEF EventInv
<1>7. SlotInv'
    BY <1>1, <1>2, <1>3, <1>4 DEF SlotInv
<1> QED BY <1>6, <1>7

\* A step of the handler on a client that stays connected disturbs no event: the
\* client is not in the batch any more.
LEMMA WorkKeepsEvents ==
    ASSUME TypeInv, EventInv, SlotInv, NEW c \in Clients,
           NextEvent(c) \/ (status[c] \in {"PARSING", "WRITING"} /\ UNCHANGED batch),
           \A d \in Clients \ {c} : /\ sock'[d] = sock[d] /\ status'[d] = status[d]
                                    /\ req'[d] = req[d] /\ resp'[d] = resp[d],
           status'[c] # "INACTIVE" \/ UNCHANGED <<status, req, resp>>,
           UNCHANGED fd
    PROVE  EventInv' /\ SlotInv'
<1>1. c \notin DOMAIN batch' /\ fd[c] # "none"
    BY DEF NextEvent, EventInv, SlotInv
<1>2. DOMAIN batch' \subseteq DOMAIN batch /\ \A d \in DOMAIN batch' : batch'[d] = batch[d]
    BY DEF NextEvent
<1>3. DOMAIN batch' \subseteq Clients
    BY <1>2 DEF TypeInv, BatchTypes
<1>4. EventInv'
    BY <1>1, <1>2, <1>3 DEF EventInv
<1>5. SlotInv'
    BY <1>1, <1>2 DEF SlotInv
<1> QED BY <1>4, <1>5

\* What a client, the network or the master does only adds to a socket, and never
\* takes a descriptor away.
LEMMA OutsideKeepsEvents ==
    ASSUME TypeInv, EventInv, SlotInv, NEW c \in Clients,
           Environment(c) \/ accept(c) \/ events_add_event_2(c)
    PROVE  EventInv' /\ SlotInv'
<1> USE DEF TypeInv, SocketTypes, BatchTypes
<1>1. UNCHANGED <<batch, status, req, resp>>
    BY DEF Environment, Connect, Send, Receive, Leave, Forget, Arrive, ArriveFin, accept,
           events_add_event_2, kernelVars, connVars
<1>2. \A d \in Clients : sock[d] # <<>> => sock'[d] # <<>>
    <2>1. ASSUME NEW n \in 1 .. Len(net[c]), Arrive(c, n)
          PROVE  \A d \in Clients : sock[d] # <<>> => sock'[d] # <<>>
        <3>1. SubSeq(net[c], 1, n) \in Seq(Atoms)
            BY SubSeqProperties DEF NetTypes
        <3> DEFINE more == SubSeq(net[c], 1, n)
        <3> HIDE DEF more
        <3>2. sock[c] \in Seq(Atoms) /\ (sock[c] # <<>> => sock[c] \o more # <<>>)
            BY <3>1 DEF more
        <3>3. sock' = [sock EXCEPT ![c] = @ \o more]
            BY <2>1 DEF Arrive, more
        <3> QED BY <3>2, <3>3
    <2>2. (\A n \in 1 .. Len(net[c]) : ~ Arrive(c, n)) => UNCHANGED sock
        BY DEF Environment, Connect, Send, Receive, Leave, Forget, ArriveFin, accept,
               events_add_event_2, kernelVars
    <2> QED BY <2>1, <2>2
<1>3. \A d \in Clients : fd'[d] = fd[d] \/ (fd[d] # "polled" /\ fd'[d] # "none")
    BY DEF Environment, Connect, Send, Receive, Leave, Forget, Arrive, ArriveFin, accept,
           events_add_event_2, kernelVars
<1>4. EventInv'
    BY <1>1, <1>2, <1>3 DEF EventInv
<1>5. SlotInv'
    BY <1>1, <1>3 DEF SlotInv
<1> QED BY <1>4, <1>5

\* Every step keeps the two invariants.
LEMMA EventStep == TypeInv /\ EventInv /\ SlotInv /\ [Next]_vars => EventInv' /\ SlotInv'
<1> SUFFICES ASSUME TypeInv, EventInv, SlotInv, [Next]_vars PROVE EventInv' /\ SlotInv'
    OBVIOUS
<1>1. CASE UNCHANGED vars \/ pq_dequeue
    BY <1>1 DEF vars, pq_dequeue, kernelVars, connVars, EventInv, SlotInv
<1>2. CASE events_wait
    <2>1. EventInv'
        BY <1>2 DEF events_wait, EventInv, Ready, Idle, connVars
    <2>2. SlotInv'
        BY <1>2 DEF events_wait, SlotInv, Ready, connVars
    <2> QED BY <2>1, <2>2
<1>3. ASSUME NEW c \in Clients, Handle(c) PROVE EventInv' /\ SlotInv'
    <2> USE DEF TypeInv, SocketTypes, ConnTypes, SlotTypes
    <2>1. CASE HandleClosed(c) \/ HandleReadError(c) \/ ParseOverflow(c) \/ HandleWriteError(c)
        BY <2>1, CloseKeepsEvents
           DEF HandleClosed, HandleReadError, ParseOverflow, AtAtom, HandleWriteError
    <2>2. CASE HandleRead(c)
        <3>1. \A d \in Clients \ {c} : /\ sock'[d] = sock[d] /\ status'[d] = status[d]
                                       /\ req'[d] = req[d] /\ resp'[d] = resp[d]
            BY <2>2 DEF HandleRead, connection_start
        <3>2. NextEvent(c) /\ UNCHANGED fd /\ status'[c] = "PARSING"
            BY <2>2 DEF HandleRead
        <3> QED BY <3>1, <3>2, WorkKeepsEvents
    <2>3. CASE ParseCommand(c) \/ ParseSkip(c) \/ ParseData(c)
        <3>1. \A d \in Clients \ {c} : /\ sock'[d] = sock[d] /\ status'[d] = status[d]
                                       /\ req'[d] = req[d] /\ resp'[d] = resp[d]
            BY <2>3 DEF ParseCommand, ParseSkip, ParseData, kernelVars
        <3>2. status[c] = "PARSING" /\ UNCHANGED <<batch, fd, status>>
            BY <2>3 DEF ParseCommand, ParseSkip, ParseData, AtAtom, kernelVars
        <3> QED BY <3>1, <3>2, WorkKeepsEvents
    <2>4. CASE Process(c)
        <3>1. \A d \in Clients \ {c} : /\ sock'[d] = sock[d] /\ status'[d] = status[d]
                                       /\ req'[d] = req[d] /\ resp'[d] = resp[d]
            BY <2>4 DEF Process, ProcessNothing, ProcessMail, ProcessCrash, StartWriting,
                        kernelVars, connVars
        <3>2. status[c] = "PARSING" /\ UNCHANGED <<batch, fd>>
            BY <2>4 DEF Process, ProcessNothing, ProcessMail, ProcessCrash, StartWriting, AtEnd,
                        kernelVars
        <3>3. status'[c] # "INACTIVE"
            BY <2>4, <3>2 DEF Process, ProcessNothing, ProcessMail, ProcessCrash, StartWriting,
                              connVars
        <3> QED BY <3>1, <3>2, <3>3, WorkKeepsEvents
    <2>5. CASE HandleWrite(c)
        <3>1. status[c] = "WRITING" /\ UNCHANGED batch
            BY <2>5 DEF HandleWrite
        <3>2. CASE req[c].quit
            BY <2>5, <3>1, <3>2, CloseKeepsEvents DEF HandleWrite
        <3>3. CASE ~ req[c].quit
            <4>1. \A d \in Clients \ {c} : /\ sock'[d] = sock[d] /\ status'[d] = status[d]
                                           /\ req'[d] = req[d] /\ resp'[d] = resp[d]
                BY <2>5, <3>3 DEF HandleWrite
            <4>2. UNCHANGED fd /\ status'[c] = "READING"
                BY <2>5, <3>3 DEF HandleWrite
            <4> QED BY <3>1, <4>1, <4>2, WorkKeepsEvents
        <3> QED BY <3>2, <3>3
    <2>6. CASE HandleClosedCrash(c) \/ HandleWriteKilled(c)
        BY <2>6, WorkKeepsEvents
           DEF HandleClosedCrash, HandleWriteKilled, kernelVars, connVars
    <2> QED BY <1>3, <2>1, <2>2, <2>3, <2>4, <2>5, <2>6 DEF Handle, Parse
<1> QED BY <1>1, <1>2, <1>3, OutsideKeepsEvents DEF Next

\* The three invariants together are inductive.
LEMMA EventsAlways == Spec => [](TypeInv /\ EventInv /\ SlotInv)
<1>1. Init => TypeInv /\ EventInv /\ SlotInv
    BY TypeInit, EventInit
<1>2. TypeInv /\ EventInv /\ SlotInv /\ [Next]_vars => (TypeInv /\ EventInv /\ SlotInv)'
    BY TypeStep, EventStep
<1> QED BY <1>1, <1>2, PTL DEF Spec

\* read is called on a blocking socket only when there is something to read:
\* nothing that happens between epoll_wait and the turn of an event in worker.c's
\* loop takes its data or its descriptor away.
THEOREM NeverBlocksInReadHolds == Spec => []NeverBlocksInRead
<1>1. EventInv => NeverBlocksInRead
    BY DEF EventInv, NeverBlocksInRead
<1> QED BY <1>1, EventsAlways, PTL

-----------------------------------------------------------------------------
(* What SmtpSession promises about the mails: ContentIntact and            *)
(* AckedIsQueued.  Both rest on where a line is on its way from the client *)
(* to the reply, which is one of five stages (Stream).                     *)
(*                                                                         *)
(* TCP may cut the content anywhere but no command line, and the read      *)
(* buffer holds a command line: request_parse_commands does not recognise  *)
(* a command it gets in two pieces.                                        *)

WholeCommands == Cuts # "anywhere" /\ ReadBufferSize >= 2

Content(c) == Text(kind[c]) \o Line("EOD")
AtData(c) == kind[c] # "quits" /\ line[c] = 4
AtContent(c) == kind[c] # "quits" /\ line[c] = 5

\* The server has answered all it was sent.
Listening(c) ==
    /\ status[c] \in {"INACTIVE", "READING"} /\ resp[c] = <<>>
    /\ buffer[c] = <<>> /\ sock[c] = <<>> /\ net[c] = <<>>
    /\ req[c].data = <<>> /\ ~ req[c].process /\ ~ req[c].quit
    /\ Len(inbox[c]) <= 1
    /\ client[c] = "connecting" => line[c] = 1 /\ ~ req[c].in_data
    /\ client[c] = "ready" => inbox[c] = <<>> /\ (req[c].in_data <=> AtContent(c))
    /\ client[c] = "waiting" => inbox[c] # <<>> /\ (req[c].in_data <=> AtData(c))

\* The client has sent a line and has no reply yet.
Asked(c) == client[c] \in {"waiting", "gone"} /\ inbox[c] = <<>>

\* A command is under way, in one piece.
Commanded(c) ==
    /\ Asked(c) /\ resp[c] = <<>> /\ req[c] = request_init
    /\ \E k \in Commands :
          /\ k = "DATA" <=> AtData(c)
          /\ \/ net[c] = Line(k) /\ sock[c] = <<>> /\ buffer[c] = <<>>
             \/ net[c] = <<>> /\ sock[c] = Line(k) /\ buffer[c] = <<>>
             \/ net[c] = <<>> /\ sock[c] = <<>> /\ buffer[c] = Line(k)
    /\ IF buffer[c] = <<>> THEN status[c] \in {"INACTIVE", "READING"} ELSE status[c] = "PARSING"

\* Of s, i atoms are stored, j are read and k have arrived.
Pieces(c, s, i, j, k) ==
    /\ i <= j /\ j <= k /\ k <= Len(s)
    /\ req[c].data = SubSeq(s, 1, i)
    /\ buffer[c] = SubSeq(s, i + 1, j)
    /\ sock[c] = SubSeq(s, j + 1, k)
    /\ net[c] = SubSeq(s, k + 1, Len(s))

\* The content is under way.
InContent(c) ==
    /\ Asked(c) /\ resp[c] = <<>> /\ AtContent(c)
    /\ req[c].in_data /\ ~ req[c].process /\ ~ req[c].quit
    /\ \E i, j, k \in 0 .. Len(Content(c)) :
          i < Len(Content(c)) /\ Pieces(c, Content(c), i, j, k)
    /\ buffer[c] # <<>> => status[c] = "PARSING"

\* A command is recognised and its reply not sent yet.
Answering(c) ==
    /\ Asked(c) /\ sock[c] = <<>> /\ net[c] = <<>>
    /\ \E r \in Replies \ {"queued"} : resp[c] = <<r>>
    /\ req[c].data = <<>> /\ ~ req[c].process
    /\ req[c].in_data <=> AtData(c)
    /\ req[c].in_data => ~ req[c].quit
    /\ \/ status[c] \in {"PARSING", "WRITING"} /\ buffer[c] = <<>>
       \/ /\ status[c] = "PARSING" /\ ~ req[c].in_data
          /\ \E k \in Commands : buffer[c] = <<Atom(k, 2)>>

\* The content is stored and its reply not sent yet.
Complete(c) ==
    /\ Asked(c) /\ AtContent(c)
    /\ buffer[c] = <<>> /\ sock[c] = <<>> /\ net[c] = <<>>
    /\ req[c] = [in_data |-> FALSE, data |-> Content(c), process |-> TRUE, quit |-> TRUE]
    /\ status[c] \in {"PARSING", "WRITING"}
    /\ resp[c] = <<"queued">>

\* Nothing is left of an earlier session, and a session is in one of the stages.
Stream(c) ==
    /\ client[c] = "away" => fd[c] = "none"
    /\ IF fd[c] = "none"
       THEN /\ sock[c] = <<>> /\ buffer[c] = <<>>
            /\ client[c] \in {"away", "connecting"} => net[c] = <<>> /\ inbox[c] = <<>>
            /\ client[c] = "connecting" => line[c] = 1
       ELSE Listening(c) \/ Commanded(c) \/ InContent(c) \/ Answering(c) \/ Complete(c)

StreamInv == \A c \in Clients : Stream(c)

\* A FIN comes from a client that is gone.
FinInv ==
    \A c \in Clients :
        /\ hup[c] => client[c] = "gone" /\ fd[c] # "none"
        /\ c \in DOMAIN batch /\ batch[c] = "hup" => client[c] = "gone"

\* Every mail that was ever queued, in the order of the queue.
Queued == taken \o queue

\* The worker has queued the mail of this session: it is about to reply and
\* close, or has done so.
Served(c) ==
    IF fd[c] = "none" THEN client[c] # "connecting" ELSE req[c].process /\ status[c] = "WRITING"

MailOK(m) ==
    /\ m.session \in 1 .. session[m.from]
    /\ m.kind \notin {"big_body", "many"} => m.body = Text(m.kind)
    /\ m.session = session[m.from] => Served(m.from)

MailsInv ==
    /\ \A i \in DOMAIN Queued : MailOK(Queued[i])
    /\ \A i, j \in DOMAIN Queued :
          Queued[i].from = Queued[j].from /\ Queued[i].session = Queued[j].session => i = j

Delivered(c) ==
    \E i \in DOMAIN Queued :
        Queued[i].from = c /\ Queued[i].session = session[c] /\ Queued[i].body = Text(kind[c])

\* The reply to the content of c is read, under way, or about to be sent.
Acked(c) ==
    \/ "queued" \in ToSet(told[c])
    \/ "queued" \in ToSet(inbox[c])
    \/ fd[c] # "none" /\ req[c].process /\ status[c] = "WRITING"

AckInv == \A c \in Clients : kind[c] \in {"good", "long"} /\ Acked(c) => Delivered(c)

\* pq_enqueue finds room whenever it is called.
Room == \A c \in Clients : ProcessMail(c) => Len(queue) < QueueSize

\* A client that has connected has a session.
Started == \A c \in Clients : client[c] # "away" => session[c] # 0

-----------------------------------------------------------------------------
(* The pieces of a sequence, and the end of the content. *)

\* A piece of a sequence, cut once more.
LEMMA CutPiece ==
    ASSUME NEW S, NEW s \in Seq(S), NEW a \in 0 .. Len(s), NEW b \in a .. Len(s), NEW n \in 0 .. b - a
    PROVE  /\ Len(SubSeq(s, a + 1, b)) = b - a
           /\ SubSeq(SubSeq(s, a + 1, b), 1, n) = SubSeq(s, a + 1, a + n)
           /\ SubSeq(SubSeq(s, a + 1, b), n + 1, b - a) = SubSeq(s, a + n + 1, b)
<1> DEFINE t == SubSeq(s, a + 1, b)
           t1 == SubSeq(t, 1, n)
           t2 == SubSeq(t, n + 1, b - a)
           s1 == SubSeq(s, a + 1, a + n)
           s2 == SubSeq(s, a + n + 1, b)
<1>1. /\ t \in Seq(S) /\ Len(t) = b - a
      /\ \A i \in 1 .. b - a : t[i] = s[a + i]
    BY SubSeqProperties
<1>2. /\ s1 \in Seq(S) /\ Len(s1) = n /\ \A i \in 1 .. n : s1[i] = s[a + i]
      /\ s2 \in Seq(S) /\ Len(s2) = b - a - n /\ \A i \in 1 .. b - a - n : s2[i] = s[a + n + i]
    BY SubSeqProperties
<1> HIDE DEF t, s1, s2
<1>3. /\ t1 \in Seq(S) /\ Len(t1) = n /\ \A i \in 1 .. n : t1[i] = t[i]
      /\ t2 \in Seq(S) /\ Len(t2) = b - a - n /\ \A i \in 1 .. b - a - n : t2[i] = t[n + i]
    BY <1>1, SubSeqProperties
<1> HIDE DEF t1, t2
<1>4. t1 = s1
    <2>1. \A i \in 1 .. n : i \in 1 .. b - a
        OBVIOUS
    <2>2. \A i \in 1 .. n : t1[i] = s1[i]
        BY <1>1, <1>2, <1>3, <2>1
    <2> QED BY <1>2, <1>3, <2>2, SeqEqual
<1>5. t2 = s2
    <2>1. \A i \in 1 .. b - a - n : n + i \in 1 .. b - a /\ a + (n + i) = a + n + i
        OBVIOUS
    <2>2. ASSUME NEW i \in 1 .. b - a - n PROVE t2[i] = s2[i]
        <3>1. t2[i] = t[n + i]
            BY <1>3
        <3>2. t[n + i] = s[a + (n + i)]
            BY <1>1, <2>1
        <3> QED BY <1>2, <2>1, <3>1, <3>2
    <2> QED BY <1>2, <1>3, <2>2, SeqEqual
<1> QED BY <1>1, <1>4, <1>5 DEF t, t1, t2, s1, s2

\* The next atom of a piece moves to the piece before it.
LEMMA MoveAtom ==
    ASSUME NEW S, NEW s \in Seq(S), NEW i \in 0 .. Len(s) - 1, NEW j \in i + 1 .. Len(s)
    PROVE  /\ Head(SubSeq(s, i + 1, j)) = s[i + 1]
           /\ Tail(SubSeq(s, i + 1, j)) = SubSeq(s, i + 2, j)
           /\ Append(SubSeq(s, 1, i), s[i + 1]) = SubSeq(s, 1, i + 1)
<1>1. /\ Head(SubSeq(s, i + 1, j)) = s[i + 1]
      /\ Tail(SubSeq(s, i + 1, j)) = SubSeq(s, i + 2, j)
    <2>1. i + 1 \in 1 .. Len(s) /\ j \in (i + 1) .. Len(s) /\ (i + 1) + 1 = i + 2
        OBVIOUS
    <2> QED BY <2>1, HeadTailOfSubSeq
<1>2. Append(SubSeq(s, 1, i), s[i + 1]) = SubSeq(s, 1, i + 1)
    <2> DEFINE t == SubSeq(s, 1, i)
               u == SubSeq(s, 1, i + 1)
    <2>1. /\ t \in Seq(S) /\ Len(t) = i /\ \A x \in 1 .. i : t[x] = s[x]
          /\ u \in Seq(S) /\ Len(u) = i + 1 /\ \A x \in 1 .. i + 1 : u[x] = s[x]
        BY SubSeqProperties
    <2> HIDE DEF t, u
    <2>2. s[i + 1] \in S
        OBVIOUS
    <2>3. Append(t, s[i + 1]) = u
        BY <2>1, <2>2
    <2> QED BY <2>3 DEF t, u
<1> QED BY <1>1, <1>2

\* The first two elements of a sequence.
LEMMA FirstTwo ==
    ASSUME NEW s
    PROVE  SubSeq(s, 1, 2) = <<s[1], s[2]>>
<1> DEFINE S == {s[1], s[2]}
           t == SubSeq(s, 1, 2)
           u == <<s[1], s[2]>>
<1>1. \A i \in 1 .. 2 : s[i] \in S
    <2>1. \A i \in 1 .. 2 : i = 1 \/ i = 2
        OBVIOUS
    <2> QED BY <2>1
<1>2. s[1] \in S /\ s[2] \in S
    OBVIOUS
<1> HIDE DEF S
<1>3. t \in Seq(S) /\ Len(t) = 2 /\ \A i \in 1 .. 2 : t[i] = s[i]
    BY <1>1, SubSeqProperties
<1>4. u \in Seq(S) /\ Len(u) = 2 /\ u[1] = s[1] /\ u[2] = s[2]
    BY <1>2
<1> HIDE DEF t, u
<1>5. \A i \in 1 .. 2 : t[i] = u[i]
    <2>1. \A i \in 1 .. 2 : i = 1 \/ i = 2
        OBVIOUS
    <2> QED BY <1>3, <1>4, <2>1
<1>6. t = u
    BY <1>3, <1>4, <1>5, SeqEqual
<1> QED BY <1>6 DEF t, u

\* A line at the end of a sequence.
LEMMA SuffixOfTwo ==
    ASSUME NEW S, NEW a, NEW b, NEW t \in Seq(S)
    PROVE  IsSuffix(<<a, b>>, t) <=> Len(t) >= 2 /\ t[Len(t) - 1] = a /\ t[Len(t)] = b
<1> DEFINE r == Reverse(t)
           q == Reverse(<<a, b>>)
<1>1. q = <<b, a>>
    BY DEF Reverse
<1>2. Len(t) \in Nat /\ r = [i \in 1 .. Len(t) |-> t[(Len(t) - i) + 1]]
    BY DEF Reverse
<1>3. Len(r) = Len(t)
    BY <1>2
<1>4. SubSeq(<<b, a>>, 1, 2) = <<b, a>>
    BY FirstTwo
<1>5. ASSUME Len(t) >= 2 PROVE SubSeq(r, 1, 2) = <<t[Len(t)], t[Len(t) - 1]>>
    <2>1. r[1] = t[Len(t)] /\ r[2] = t[Len(t) - 1]
        BY <1>2, <1>5
    <2> HIDE DEF r
    <2>2. SubSeq(r, 1, 2) = <<r[1], r[2]>>
        BY FirstTwo
    <2> QED BY <2>1, <2>2
<1> HIDE DEF r, q
<1>6. IsSuffix(<<a, b>>, t) <=> 2 <= Len(t) /\ <<b, a>> = SubSeq(r, 1, 2)
    BY <1>1, <1>3, <1>4 DEF IsSuffix, IsPrefix, r, q
<1> QED BY <1>2, <1>5, <1>6

\* The text of a mail is followed by the end-of-data line, and nothing in the
\* text looks like it.
LEMMA ContentShape ==
    ASSUME ClientTypes, NEW c \in Clients
    PROVE  /\ Content(c) \in Seq(Atoms) /\ Len(Content(c)) \in Nat /\ Len(Content(c)) >= 3
           /\ \A i \in 1 .. Len(Content(c)) : Content(c)[i][1] \notin Commands
           /\ \A i \in 1 .. Len(Content(c)) :
                 EndOfData(SubSeq(Content(c), 1, i)) <=> i = Len(Content(c))
           /\ SubSeq(Content(c), 1, Len(Content(c)) - 2) = Text(kind[c])
<1> DEFINE T == Text(kind[c])
           n == IF kind[c] = "long" THEN 3 ELSE 1
           E == Line("EOD")
           C == T \o E
<1>1. \A i \in 1 .. 3 : Atom("TEXT", i) \in Atoms /\ Atom("EOD", i) \in Atoms
    BY DEF Atom, Atoms
<1>2. T \in Seq(Atoms) /\ Len(T) = n /\ \A i \in 1 .. n : T[i] = Atom("TEXT", i)
    <2>1. n \in 1 .. 3 /\ T = [i \in 1 .. n |-> Atom("TEXT", i)]
        BY DEF Text
    <2> HIDE DEF n, T
    <2>2. T \in [1 .. n -> Atoms]
        BY <1>1, <2>1
    <2>3. T \in Seq(Atoms)
        BY <2>1, <2>2, SeqDef
    <2> QED BY <2>1, <2>2, <2>3
<1>3. n \in 1 .. 3
    OBVIOUS
<1>4. E \in Seq(Atoms) /\ Len(E) = 2 /\ E[1] = Atom("EOD", 1) /\ E[2] = Atom("EOD", 2)
    BY <1>1 DEF Line
<1> HIDE DEF n, T, E
<1>5. /\ C \in Seq(Atoms) /\ Len(C) = n + 2
      /\ \A i \in 1 .. n : C[i] = Atom("TEXT", i)
      /\ C[n + 1] = Atom("EOD", 1) /\ C[n + 2] = Atom("EOD", 2)
    <2>1. /\ C \in Seq(Atoms) /\ Len(C) = n + 2
          /\ \A i \in 1 .. n + 2 : C[i] = IF i <= n THEN T[i] ELSE E[i - n]
        <3>1. /\ C \in Seq(Atoms) /\ Len(C) = Len(T) + Len(E)
              /\ \A i \in 1 .. Len(T) + Len(E) : C[i] = IF i <= Len(T) THEN T[i] ELSE E[i - Len(T)]
            BY <1>2, <1>4, ConcatProperties, Zenon
        <3> QED BY <1>2, <1>4, <3>1
    <2> HIDE DEF C
    <2>2. \A i \in 1 .. n : i \in 1 .. n + 2 /\ i <= n
        BY <1>3
    <2>3. \A i \in 1 .. n : C[i] = Atom("TEXT", i)
        BY <1>2, <2>1, <2>2
    <2>4. /\ n + 1 \in 1 .. n + 2 /\ ~ (n + 1 <= n) /\ (n + 1) - n = 1
          /\ n + 2 \in 1 .. n + 2 /\ ~ (n + 2 <= n) /\ (n + 2) - n = 2
        BY <1>3
    <2>5. C[n + 1] = E[1] /\ C[n + 2] = E[2]
        BY <2>1, <2>4
    <2> QED BY <1>4, <2>1, <2>3, <2>5
<1>6. SubSeq(C, 1, n) = T
    <2>1. /\ SubSeq(C, 1, n) \in Seq(Atoms) /\ Len(SubSeq(C, 1, n)) = n
          /\ \A i \in 1 .. n : SubSeq(C, 1, n)[i] = C[i]
        BY <1>3, <1>5, SubSeqProperties
    <2>2. \A i \in 1 .. n : C[i] = T[i]
        BY <1>2, <1>5
    <2> QED BY <1>2, <2>1, <2>2, SeqEqual
<1> HIDE DEF C
<1>7. ASSUME NEW i \in 1 .. n + 2
      PROVE  /\ C[i][1] \notin Commands
             /\ EndOfData(SubSeq(C, 1, i)) <=> i = n + 2
    <2>1. C[i] = Atom("TEXT", i) \/ C[i] = Atom("EOD", 1) \/ C[i] = Atom("EOD", 2)
        BY <1>3, <1>5
    <2>2. i < n + 2 => C[i] # Atom("EOD", 2)
        <3>1. i < n + 2 => C[i] = Atom("TEXT", i) \/ C[i] = Atom("EOD", 1)
            BY <1>3, <1>5
        <3> QED BY <3>1 DEF Atom
    <2> DEFINE t == SubSeq(C, 1, i)
    <2>3. t \in Seq(Atoms) /\ Len(t) = i /\ \A x \in 1 .. i : t[x] = C[x]
        BY <1>3, <1>5, SubSeqProperties
    <2> HIDE DEF t
    <2>4. EndOfData(t) <=> i >= 2 /\ C[i - 1] = Atom("EOD", 1) /\ C[i] = Atom("EOD", 2)
        BY <2>3, SuffixOfTwo DEF EndOfData, Line
    <2>5. EndOfData(t) <=> i = n + 2
        BY <1>3, <1>5, <2>2, <2>4
    <2>6. C[i][1] \notin Commands
        BY <2>1 DEF Atom, Commands
    <2> QED BY <2>5, <2>6 DEF t
<1>8. Content(c) = C
    BY DEF Content, C, T, E
<1> QED BY <1>3, <1>5, <1>6, <1>7, <1>8 DEF T

-----------------------------------------------------------------------------
(* The stages. *)

\* Nothing of c's session moves in a step.
Unmoved(c) ==
    /\ client'[c] = client[c] /\ kind'[c] = kind[c] /\ line'[c] = line[c]
    /\ net'[c] = net[c] /\ inbox'[c] = inbox[c]
    /\ sock'[c] = sock[c] /\ fd'[c] = fd[c]
    /\ status'[c] = status[c] /\ buffer'[c] = buffer[c]
    /\ req'[c] = req[c] /\ resp'[c] = resp[c]

\* A session that does not move stays in its stage.
LEMMA UnmovedStream ==
    ASSUME NEW c \in Clients, Stream(c), Unmoved(c)
    PROVE  Stream(c)'
<1> USE DEF Unmoved, AtData, AtContent, Asked
<1>0. Content(c)' = Content(c)
    BY DEF Content
<1>1. Listening(c) => Listening(c)'
    BY DEF Listening
<1>2. Commanded(c) => Commanded(c)'
    BY DEF Commanded
<1>3. InContent(c) => InContent(c)'
    <2> SUFFICES ASSUME InContent(c) PROVE InContent(c)'
        OBVIOUS
    <2> DEFINE s == Content(c)
    <2>1. PICK i \in 0 .. Len(s), j \in 0 .. Len(s), k \in 0 .. Len(s) :
            i < Len(s) /\ Pieces(c, s, i, j, k)
        BY DEF InContent
    <2> HIDE DEF s
    <2>2. \E x, y, z \in 0 .. Len(s)' : x < Len(s)' /\ Pieces(c, s, x, y, z)'
        BY <1>0, <2>1 DEF Pieces, s
    <2> QED BY <2>2 DEF InContent, s
<1>4. Answering(c) => Answering(c)'
    BY DEF Answering
<1>5. Complete(c) => Complete(c)'
    BY <1>0 DEF Complete
<1> QED BY <1>1, <1>2, <1>3, <1>4, <1>5 DEF Stream

\* The line a client sends.
LEMMA ScriptLine ==
    ASSUME ClientTypes, NEW c \in Clients, line[c] <= Len(Script(c))
    PROVE  IF AtContent(c) THEN Script(c)[line[c]] = Content(c)
           ELSE \E k \in Commands : Script(c)[line[c]] = Line(k) /\ (k = "DATA" <=> AtData(c))
<1>1. line[c] \in 1 .. 6
    BY DEF ClientTypes
<1>2. CASE kind[c] = "quits"
    <2>1. Script(c) = <<Line("EHLO"), Line("QUIT")>>
        BY <1>2 DEF Script
    <2>2. Len(Script(c)) = 2 /\ Script(c)[1] = Line("EHLO") /\ Script(c)[2] = Line("QUIT")
        BY <2>1
    <2>3. line[c] = 1 \/ line[c] = 2
        BY <1>1, <2>2
    <2> QED BY <1>2, <2>2, <2>3 DEF AtContent, AtData, Commands
<1>3. CASE kind[c] # "quits"
    <2> DEFINE content == Content(c)
    <2>1. Script(c) = <<Line("EHLO"), Line("MAIL"), Line("RCPT"), Line("DATA"), content>>
        BY <1>3 DEF Script, Content
    <2> HIDE DEF content
    <2>2. /\ Len(Script(c)) = 5
          /\ Script(c)[1] = Line("EHLO") /\ Script(c)[2] = Line("MAIL")
          /\ Script(c)[3] = Line("RCPT") /\ Script(c)[4] = Line("DATA")
          /\ Script(c)[5] = content
        BY <2>1
    <2>3. line[c] = 1 \/ line[c] = 2 \/ line[c] = 3 \/ line[c] = 4 \/ line[c] = 5
        BY <1>1, <2>2
    <2> QED BY <1>3, <2>2, <2>3 DEF AtContent, AtData, Commands, content
<1> QED BY <1>2, <1>3

\* What a line is made of.
LEMMA LineShape ==
    ASSUME NEW k
    PROVE  /\ Line(k) # <<>> /\ Len(Line(k)) = 2
           /\ Head(Line(k)) = Atom(k, 1) /\ Tail(Line(k)) = <<Atom(k, 2)>>
           /\ Line(k)[1] = Atom(k, 1) /\ Line(k)[2] = Atom(k, 2)
           /\ SubSeq(Line(k), 1, 2) = Line(k) /\ SubSeq(Line(k), 3, 2) = <<>>
           /\ Atom(k, 1)[1] = k /\ Atom(k, 1)[2] = 1 /\ Atom(k, 2)[2] = 2
<1>1. SubSeq(Line(k), 1, 2) = <<Line(k)[1], Line(k)[2]>>
    BY FirstTwo
<1>2. SubSeq(Line(k), 3, 2) = <<>>
    BY SubSeqEmpty
<1>3. Line(k)[1] = Atom(k, 1) /\ Line(k)[2] = Atom(k, 2)
    BY DEF Line
<1>4. Atom(k, 1)[1] = k /\ Atom(k, 1)[2] = 1 /\ Atom(k, 2)[2] = 2
    BY DEF Atom
<1>5. Line(k) # <<>> /\ Len(Line(k)) = 2 /\ Head(Line(k)) = Atom(k, 1)
    BY DEF Line
<1>6. Tail(Line(k)) = <<Atom(k, 2)>>
    BY DEF Line
<1>7. SubSeq(Line(k), 1, 2) = Line(k)
    BY <1>1, <1>3 DEF Line
<1> QED BY <1>2, <1>3, <1>4, <1>5, <1>6, <1>7

\* How the stage of the content is reached, or kept.
LEMMA ToInContent ==
    ASSUME NEW c \in Clients, NEW s, Content(c)' = s,
           NEW i \in 0 .. Len(s), NEW j \in 0 .. Len(s), NEW k \in 0 .. Len(s),
           i < Len(s), Pieces(c, s, i, j, k)',
           Asked(c)', resp'[c] = <<>>, AtContent(c)',
           req'[c].in_data, ~ req'[c].process, ~ req'[c].quit,
           buffer'[c] # <<>> => status'[c] = "PARSING", s' = s
    PROVE  InContent(c)'
BY DEF InContent, Pieces

\* The stage of the content does not depend on the status of an empty buffer.
LEMMA KeepInContent ==
    ASSUME NEW c \in Clients, InContent(c),
           Content(c)' = Content(c), Asked(c)', AtContent(c)', resp'[c] = <<>>,
           req'[c] = req[c], buffer'[c] = buffer[c], sock'[c] = sock[c], net'[c] = net[c],
           buffer[c] # <<>> => status'[c] = "PARSING"
    PROVE  InContent(c)'
<1> DEFINE s == Content(c)
<1>1. PICK i \in 0 .. Len(s), j \in 0 .. Len(s), k \in 0 .. Len(s) :
        i < Len(s) /\ Pieces(c, s, i, j, k)
    BY DEF InContent
<1> HIDE DEF s
<1>2. Content(c)' = s /\ s' = s
    BY DEF s
<1>3. Pieces(c, s, i, j, k)'
    BY <1>1, <1>2 DEF Pieces
<1> QED BY <1>1, <1>2, <1>3, ToInContent DEF InContent

\* The stage of the content, with its pieces.
LEMMA FromInContent ==
    ASSUME ClientTypes, NEW c \in Clients, InContent(c)
    PROVE  /\ Content(c) \in Seq(Atoms) /\ Len(Content(c)) \in Nat
           /\ \E i, j, k \in 0 .. Len(Content(c)) :
                 /\ i < Len(Content(c)) /\ i <= j /\ j <= k
                 /\ req[c].data = SubSeq(Content(c), 1, i)
                 /\ buffer[c] = SubSeq(Content(c), i + 1, j)
                 /\ sock[c] = SubSeq(Content(c), j + 1, k)
                 /\ net[c] = SubSeq(Content(c), k + 1, Len(Content(c)))
<1>1. Content(c) \in Seq(Atoms) /\ Len(Content(c)) \in Nat
    BY ContentShape
<1> QED BY <1>1 DEF InContent, Pieces

\* A client that acts stays in a stage, or goes to the next.
LEMMA ClientStream ==
    ASSUME TypeInv, NEW c \in Clients, Stream(c),
           Connect(c) \/ Send(c) \/ Receive(c) \/ Leave(c) \/ Forget(c)
    PROVE  Stream(c)'
<1> USE DEF TypeInv, ClientTypes, NetTypes, SocketTypes, ConnTypes
<1>1. CASE Connect(c)
    BY <1>1 DEF Connect, netVars, kernelVars, connVars, Stream
<1>2. CASE Send(c)
    <2>1. /\ client[c] = "ready" /\ client'[c] = "waiting"
          /\ net'[c] = net[c] \o Script(c)[line[c]]
          /\ kind'[c] = kind[c] /\ line'[c] = line[c] /\ inbox'[c] = inbox[c]
          /\ sock'[c] = sock[c] /\ fd'[c] = fd[c]
          /\ status'[c] = status[c] /\ buffer'[c] = buffer[c]
          /\ req'[c] = req[c] /\ resp'[c] = resp[c]
        BY <1>2 DEF Send, kernelVars, connVars
    <2>2. CASE fd[c] = "none"
        BY <2>1, <2>2 DEF Stream
    <2>3. CASE fd[c] # "none"
        <3>1. Listening(c)
            BY <2>1, <2>3 DEF Stream, Commanded, InContent, Answering, Complete, Asked
        <3>2. Script(c)[line[c]] \in Seq(Atoms)
            <4>1. line[c] <= Len(Script(c)) /\ line[c] \in 1 .. 6
                BY <2>1 DEF InScript
            <4>2. /\ Len(Script(c)) \in 1 .. 5
                  /\ \A i \in 1 .. Len(Script(c)) : Script(c)[i] \in Seq(Atoms)
                BY ScriptTypes
            <4>3. line[c] \in 1 .. Len(Script(c))
                BY <4>1, <4>2
            <4> QED BY <4>2, <4>3
        <3>3. net'[c] = Script(c)[line[c]]
            BY <2>1, <3>1, <3>2 DEF Listening
        <3>4. IF AtContent(c) THEN Script(c)[line[c]] = Content(c)
              ELSE \E k \in Commands : Script(c)[line[c]] = Line(k) /\ (k = "DATA" <=> AtData(c))
            BY <2>1, ScriptLine DEF InScript
        <3>5. Asked(c)' /\ (AtData(c)' <=> AtData(c)) /\ (AtContent(c)' <=> AtContent(c))
            BY <2>1, <3>1 DEF Asked, Listening, AtData, AtContent
        <3>6. CASE AtContent(c)
            <4> DEFINE s == Content(c)
            <4>1. Content(c)' = s /\ s' = s
                BY <2>1 DEF Content
            <4>2. s \in Seq(Atoms) /\ Len(s) \in Nat /\ Len(s) >= 3
                BY ContentShape
            <4>3. net'[c] = s
                BY <3>3, <3>4, <3>6
            <4> HIDE DEF s
            <4>4. SubSeq(s, 1, 0) = <<>> /\ SubSeq(s, 0 + 1, 0) = <<>> /\ SubSeq(s, 0 + 1, Len(s)) = s
                BY <4>2, SubSeqEmpty, SubSeqFull
            <4>5. Pieces(c, s, 0, 0, 0)'
                BY <2>1, <3>1, <4>1, <4>2, <4>3, <4>4 DEF Pieces, Listening
            <4>6. InContent(c)'
                BY <2>1, <3>1, <3>5, <3>6, <4>1, <4>2, <4>5, ToInContent DEF Listening, s
            <4> QED BY <2>1, <2>3, <4>6 DEF Stream
        <3>7. CASE ~ AtContent(c)
            <4>1. req'[c] = request_init
                BY <2>1, <3>1, <3>7 DEF Listening, request_init, Requests
            <4>2. Commanded(c)'
                BY <2>1, <3>1, <3>3, <3>4, <3>5, <3>7, <4>1 DEF Commanded, Listening
            <4> QED BY <2>1, <2>3, <4>2 DEF Stream
        <3> QED BY <3>6, <3>7
    <2> QED BY <2>2, <2>3
<1>3. CASE Receive(c)
    <2>1. /\ inbox[c] # <<>> /\ client[c] \in {"connecting", "waiting"}
          /\ inbox'[c] = Tail(inbox[c])
          /\ line'[c] = IF client[c] = "waiting" THEN line[c] + 1 ELSE line[c]
          /\ client'[c] = "gone" \/ client'[c] = "ready"
          /\ net'[c] = net[c] /\ kind'[c] = kind[c]
          /\ sock'[c] = sock[c] /\ fd'[c] = fd[c]
          /\ status'[c] = status[c] /\ buffer'[c] = buffer[c]
          /\ req'[c] = req[c] /\ resp'[c] = resp[c]
        BY <1>3 DEF Receive, kernelVars, connVars
    <2>2. CASE fd[c] = "none"
        BY <2>1, <2>2 DEF Stream
    <2>3. CASE fd[c] # "none"
        <3>1. Listening(c)
            BY <2>1, <2>3 DEF Stream, Commanded, InContent, Answering, Complete, Asked
        <3>2. inbox'[c] = <<>> /\ Len(inbox'[c]) <= 1
            BY <2>1, <3>1 DEF Listening
        <3>3. line[c] \in 1 .. 6
            OBVIOUS
        <3>4. Listening(c)'
            BY <2>1, <3>1, <3>2, <3>3 DEF Listening, AtData, AtContent
        <3> QED BY <2>1, <2>3, <3>4 DEF Stream
    <2> QED BY <2>2, <2>3
<1>4. CASE Leave(c)
    <2>1. /\ client[c] \in {"ready", "waiting"} /\ client'[c] = "gone"
          /\ kind' = kind /\ line' = line /\ net' = net /\ inbox' = inbox
          /\ sock' = sock /\ fd' = fd
          /\ status' = status /\ buffer' = buffer
          /\ req' = req /\ resp' = resp
        BY <1>4 DEF Leave, netVars, kernelVars, connVars
    <2>2. Asked(c) => Asked(c)'
        BY <2>1 DEF Asked
    <2>3. (AtData(c)' <=> AtData(c)) /\ (AtContent(c)' <=> AtContent(c)) /\ Content(c)' = Content(c)
        BY <2>1 DEF AtData, AtContent, Content
    <2>4. Listening(c) => Listening(c)'
        BY <2>1 DEF Listening
    <2>5. Commanded(c) => Commanded(c)'
        BY <2>1, <2>2, <2>3 DEF Commanded
    <2>6. InContent(c) => InContent(c)'
        <3> SUFFICES ASSUME InContent(c) PROVE InContent(c)'
            OBVIOUS
        <3> QED BY <2>1, <2>2, <2>3, KeepInContent DEF InContent
    <2>7. Answering(c) => Answering(c)'
        BY <2>1, <2>2, <2>3 DEF Answering
    <2>8. Complete(c) => Complete(c)'
        BY <2>1, <2>2, <2>3 DEF Complete
    <2> QED BY <2>1, <2>4, <2>5, <2>6, <2>7, <2>8 DEF Stream
<1>5. CASE Forget(c)
    BY <1>5 DEF Forget, kernelVars, connVars, Stream
<1> QED BY <1>1, <1>2, <1>3, <1>4, <1>5

\* The network and the master move a session on: a command line arrives whole,
\* the content in any pieces.
LEMMA ArrivalStream ==
    ASSUME WholeCommands, TypeInv, SlotInv, NEW c \in Clients, Stream(c),
           \/ \E n \in 1 .. Len(net[c]) : Arrive(c, n)
           \/ ArriveFin(c) \/ accept(c) \/ events_add_event_2(c)
    PROVE  Stream(c)'
<1> USE DEF TypeInv, ClientTypes, NetTypes, SocketTypes, ConnTypes
<1>1. ASSUME NEW n \in 1 .. Len(net[c]), Arrive(c, n) PROVE Stream(c)'
    <2>1. /\ fd[c] # "none"
          /\ sock'[c] = sock[c] \o SubSeq(net[c], 1, n)
          /\ net'[c] = SubSeq(net[c], n + 1, Len(net[c]))
          /\ client' = client /\ kind' = kind /\ line' = line /\ inbox' = inbox /\ fd' = fd
          /\ status' = status /\ buffer' = buffer /\ req' = req /\ resp' = resp
        BY <1>1 DEF Arrive, clientVars, connVars
    <2>2. (Asked(c)' <=> Asked(c)) /\ (AtData(c)' <=> AtData(c))
          /\ (AtContent(c)' <=> AtContent(c)) /\ Content(c)' = Content(c)
        BY <2>1 DEF Asked, AtData, AtContent, Content
    <2>3. net[c] # <<>>
        OBVIOUS
    <2>4. CASE Commanded(c)
        <3>1. PICK k \in Commands :
                /\ k = "DATA" <=> AtData(c)
                /\ net[c] = Line(k) /\ sock[c] = <<>> /\ buffer[c] = <<>>
            BY <2>3, <2>4 DEF Commanded
        <3>2. n = 2
            <4>1. n = 1 \/ n = 2
                <5>1. Len(net[c]) = 2
                    BY <3>1, LineShape
                <5> QED BY <5>1
            <4>2. n = 1 => net[c][n][1] = k
                BY <3>1, LineShape
            <4>3. n = 1 => n # Len(net[c])
                BY <3>1, LineShape
            <4> QED BY <1>1, <4>1, <4>2, <4>3 DEF Arrive, WholeCommands
        <3>3. SubSeq(Line(k), 1, 2) = Line(k) /\ SubSeq(Line(k), 3, 2) = <<>> /\ Len(Line(k)) = 2
            BY LineShape
        <3>4. Line(k) \in Seq(Atoms)
            BY <3>1
        <3>5. sock'[c] = Line(k) /\ net'[c] = <<>>
            BY <2>1, <3>1, <3>2, <3>3, <3>4
        <3>6. Commanded(c)'
            BY <2>1, <2>2, <2>4, <3>1, <3>5 DEF Commanded
        <3> QED BY <2>1, <3>6 DEF Stream
    <2>5. CASE InContent(c)
        <3> DEFINE s == Content(c)
        <3>1. s \in Seq(Atoms) /\ Len(s) \in Nat
            BY FromInContent, <2>5
        <3>2. PICK i \in 0 .. Len(s), j \in 0 .. Len(s), k \in 0 .. Len(s) :
                 /\ i < Len(s) /\ i <= j /\ j <= k
                 /\ req[c].data = SubSeq(s, 1, i)
                 /\ buffer[c] = SubSeq(s, i + 1, j)
                 /\ sock[c] = SubSeq(s, j + 1, k)
                 /\ net[c] = SubSeq(s, k + 1, Len(s))
            BY FromInContent, <2>5
        <3>3. Content(c)' = s /\ s' = s
            BY <2>2
        <3> HIDE DEF s
        <3>4. Len(net[c]) = Len(s) - k
            <4>1. Len(SubSeq(s, k + 1, Len(s))) = Len(s) - k
                BY <3>1, <3>2, CutPiece
            <4> QED BY <3>2, <4>1
        <3>5. n \in 0 .. Len(s) - k /\ k + n \in 0 .. Len(s) /\ j <= k + n
            BY <3>1, <3>2, <3>4
        <3>6. /\ SubSeq(net[c], 1, n) = SubSeq(s, k + 1, k + n)
              /\ SubSeq(net[c], n + 1, Len(net[c])) = SubSeq(s, (k + n) + 1, Len(s))
            <4>1. k \in 0 .. Len(s) /\ Len(s) \in k .. Len(s)
                BY <3>1, <3>2
            <4>2. /\ SubSeq(SubSeq(s, k + 1, Len(s)), 1, n) = SubSeq(s, k + 1, k + n)
                  /\ SubSeq(SubSeq(s, k + 1, Len(s)), n + 1, Len(s) - k) = SubSeq(s, k + n + 1, Len(s))
                BY <3>1, <3>5, <4>1, CutPiece
            <4> QED BY <3>2, <3>4, <4>2
        <3>7. SubSeq(s, j + 1, k) \o SubSeq(s, k + 1, k + n) = SubSeq(s, j + 1, k + n)
            <4>1. /\ j + 1 \in 1 .. Len(s) + 1 /\ k \in (j + 1) - 1 .. Len(s)
                  /\ k + n \in k .. Len(s)
                BY <3>1, <3>2, <3>5
            <4> QED BY <3>1, <4>1, ConcatAdjacentSubSeq
        <3>8. Pieces(c, s, i, j, k + n)'
            <4>1. sock'[c] = SubSeq(s, j + 1, k + n) /\ net'[c] = SubSeq(s, (k + n) + 1, Len(s))
                BY <2>1, <3>2, <3>6, <3>7
            <4>2. i <= j /\ j <= k + n /\ k + n <= Len(s)
                BY <3>1, <3>2, <3>5
            <4> QED BY <2>1, <3>2, <3>3, <4>1, <4>2 DEF Pieces
        <3>9. InContent(c)'
            BY <2>1, <2>2, <2>5, <3>2, <3>3, <3>5, <3>8, ToInContent DEF InContent
        <3> QED BY <2>1, <3>9 DEF Stream
    <2> QED BY <2>1, <2>3, <2>4, <2>5 DEF Stream, Listening, Answering, Complete
<1>2. CASE ArriveFin(c)
    <2>1. Unmoved(c)
        BY <1>2 DEF ArriveFin, clientVars, netVars, connVars, Unmoved
    <2> QED BY <2>1, UnmovedStream
<1>3. CASE accept(c)
    <2>1. /\ client'[c] = "connecting" /\ fd[c] = "none" /\ fd'[c] = "accepted"
          /\ inbox'[c] = <<"220">> /\ client[c] = "connecting"
          /\ kind' = kind /\ line' = line /\ net' = net /\ sock' = sock
          /\ status' = status /\ buffer' = buffer /\ req' = req /\ resp' = resp
        BY <1>3 DEF accept, clientVars, connVars
    <2>2. Len(inbox'[c]) <= 1
        BY <2>1
    <2>3. Listening(c)'
        BY <2>1, <2>2 DEF Listening, Stream, SlotInv, request_init
    <2> QED BY <2>1, <2>3 DEF Stream
<1>4. CASE events_add_event_2(c)
    <2>1. /\ fd[c] = "accepted" /\ fd'[c] = "polled" /\ sock' = sock
          /\ client' = client /\ kind' = kind /\ line' = line /\ net' = net /\ inbox' = inbox
          /\ status' = status /\ buffer' = buffer /\ req' = req /\ resp' = resp
        BY <1>4 DEF events_add_event_2, clientVars, netVars, connVars
    <2>2. (Asked(c)' <=> Asked(c)) /\ (AtData(c)' <=> AtData(c))
          /\ (AtContent(c)' <=> AtContent(c)) /\ Content(c)' = Content(c)
        BY <2>1 DEF Asked, AtData, AtContent, Content
    <2>3. Listening(c) => Listening(c)'
        BY <2>1, <2>2 DEF Listening
    <2>4. Commanded(c) => Commanded(c)'
        BY <2>1, <2>2 DEF Commanded
    <2>5. InContent(c) => InContent(c)'
        <3>1. \A i, j, k \in 0 .. Len(Content(c)) :
                 Pieces(c, Content(c), i, j, k) => Pieces(c, Content(c), i, j, k)'
            BY <2>1, <2>2 DEF Pieces
        <3> HIDE DEF Pieces
        <3> QED BY <2>1, <2>2, <3>1 DEF InContent
    <2>6. Answering(c) => Answering(c)'
        BY <2>1, <2>2 DEF Answering
    <2>7. Complete(c) => Complete(c)'
        BY <2>1, <2>2 DEF Complete
    <2> QED BY <2>1, <2>3, <2>4, <2>5, <2>6, <2>7 DEF Stream
<1> QED BY <1>1, <1>2, <1>3, <1>4

\* A connection is only closed when its client has left or waits for a reply.
LEMMA CloseStream ==
    ASSUME TypeInv, NEW c \in Clients, Close(c),
           client'[c] \notin {"away", "connecting"}
    PROVE  Stream(c)'
BY DEF TypeInv, SocketTypes, ConnTypes, Close, events_del_and_close, connection_reset, Stream

\* One read takes what there is, or as much as the buffer holds.
LEMMA ReadCount ==
    ASSUME NEW l \in Nat, NEW b \in Nat, b >= 2
    PROVE  LET m == IF l < b THEN l ELSE b IN m \in 0 .. l /\ (l = 2 => m = 2)
OBVIOUS

\* An event that is handled: the connection is closed, or what has arrived is read.
LEMMA EventStream ==
    ASSUME WholeCommands, TypeInv, SlotInv, EventInv, FinInv, NEW c \in Clients, Stream(c),
           HandleClosed(c) \/ HandleClosedCrash(c) \/ HandleReadError(c) \/ HandleRead(c)
    PROVE  Stream(c)'
<1> USE DEF TypeInv, ClientTypes, NetTypes, SocketTypes, ConnTypes
<1>0. CASE HandleClosedCrash(c)
    <2>1. Unmoved(c)
        BY <1>0 DEF HandleClosedCrash, clientVars, netVars, connVars, Unmoved
    <2> QED BY <2>1, UnmovedStream
<1>1. CASE HandleClosed(c) \/ HandleReadError(c)
    <2>1. client[c] = "gone" /\ Close(c) /\ client' = client
        BY <1>1 DEF HandleClosed, HandleReadError, NextEvent, FinInv, clientVars
    <2> QED BY <2>1, CloseStream
<1>2. CASE HandleRead(c)
    <2> DEFINE m == IF Len(sock[c]) < ReadBufferSize THEN Len(sock[c]) ELSE ReadBufferSize
    <2>1. /\ client' = client /\ kind' = kind /\ line' = line /\ net' = net /\ inbox' = inbox
          /\ fd' = fd /\ req'[c] = req[c] /\ resp'[c] = resp[c]
          /\ status'[c] = "PARSING"
        BY <1>2 DEF HandleRead, connection_start, SlotInv, clientVars, netVars
    <2>2. sock[c] # <<>> /\ sock[c] \in Seq(Atoms) /\ fd[c] # "none" /\ status[c] # "PARSING"
        BY <1>2 DEF HandleRead, NextEvent, EventInv
    <2>3. m \in 0 .. Len(sock[c]) /\ (Len(sock[c]) = 2 => m = 2)
        <3>1. Len(sock[c]) \in Nat
            BY <2>2
        <3>2. ReadBufferSize \in Nat /\ ReadBufferSize >= 2
            BY SessionAssumption DEF WholeCommands
        <3> QED BY <3>1, <3>2, ReadCount
    <2>4. PICK n \in 0 .. Len(sock[c]) :
            /\ Len(sock[c]) = 2 => n = 2
            /\ buffer'[c] = SubSeq(sock[c], 1, n)
            /\ sock'[c] = SubSeq(sock[c], n + 1, Len(sock[c]))
        <3>1. buffer'[c] = SubSeq(sock[c], 1, m) /\ sock'[c] = SubSeq(sock[c], m + 1, Len(sock[c]))
            BY <1>2 DEF HandleRead
        <3> HIDE DEF m
        <3> QED BY <2>3, <3>1
    <2>5. (Asked(c)' <=> Asked(c)) /\ (AtData(c)' <=> AtData(c))
          /\ (AtContent(c)' <=> AtContent(c)) /\ Content(c)' = Content(c)
        BY <2>1 DEF Asked, AtData, AtContent, Content
    <2>6. CASE Commanded(c)
        <3>1. PICK k \in Commands :
                /\ k = "DATA" <=> AtData(c)
                /\ net[c] = <<>> /\ sock[c] = Line(k) /\ buffer[c] = <<>>
            BY <2>2, <2>6 DEF Commanded
        <3>2. /\ SubSeq(Line(k), 1, 2) = Line(k) /\ SubSeq(Line(k), 3, 2) = <<>>
              /\ Len(Line(k)) = 2 /\ Line(k) # <<>>
            BY LineShape
        <3>3. n = 2
            BY <2>4, <3>1, <3>2
        <3>4. buffer'[c] = Line(k) /\ sock'[c] = <<>> /\ net'[c] = <<>>
            BY <2>1, <2>4, <3>1, <3>2, <3>3
        <3>5. Commanded(c)'
            BY <2>1, <2>4, <2>5, <2>6, <3>1, <3>2, <3>4 DEF Commanded
        <3> QED BY <2>1, <2>2, <3>5, <2>6 DEF Stream, Commanded, Asked
    <2>7. CASE InContent(c)
        <3> DEFINE s == Content(c)
        <3>1. s \in Seq(Atoms) /\ Len(s) \in Nat
            BY FromInContent, <2>7
        <3>2. PICK i \in 0 .. Len(s), j \in 0 .. Len(s), k \in 0 .. Len(s) :
                 /\ i < Len(s) /\ i <= j /\ j <= k
                 /\ req[c].data = SubSeq(s, 1, i)
                 /\ buffer[c] = SubSeq(s, i + 1, j)
                 /\ sock[c] = SubSeq(s, j + 1, k)
                 /\ net[c] = SubSeq(s, k + 1, Len(s))
            BY FromInContent, <2>7
        <3>3. Content(c)' = s /\ s' = s
            BY <2>5
        <3> HIDE DEF s
        <3>4. Len(SubSeq(s, j + 1, k)) = k - j /\ Len(SubSeq(s, i + 1, j)) = j - i
            <4>1. /\ j \in 0 .. Len(s) /\ k \in j .. Len(s) /\ 0 \in 0 .. k - j
                  /\ i \in 0 .. Len(s) /\ j \in i .. Len(s) /\ 0 \in 0 .. j - i
                BY <3>1, <3>2
            <4> QED BY <3>1, <4>1, CutPiece
        <3>5. Len(sock[c]) = k - j /\ i = j
            <4>1. buffer[c] = <<>>
                BY <2>2, <2>7 DEF InContent
            <4>2. Len(sock[c]) = k - j /\ 0 = j - i
                BY <3>2, <3>4, <4>1, EmptySeq
            <4> QED BY <3>2, <4>2
        <3>6. n \in 0 .. k - j /\ j + n \in 0 .. Len(s) /\ i <= j + n /\ j + n <= k /\ k <= Len(s)
            <4>1. n \in 0 .. k - j
                BY <2>4, <3>5
            <4>2. j \in Nat /\ k \in Nat /\ i \in Nat /\ i <= j /\ k <= Len(s)
                BY <3>1, <3>2
            <4> QED BY <3>1, <4>1, <4>2
        <3>7. /\ SubSeq(sock[c], 1, n) = SubSeq(s, j + 1, j + n)
              /\ SubSeq(sock[c], n + 1, Len(sock[c])) = SubSeq(s, (j + n) + 1, k)
            <4>1. k \in j .. Len(s)
                BY <3>1, <3>2
            <4>2. /\ SubSeq(SubSeq(s, j + 1, k), 1, n) = SubSeq(s, j + 1, j + n)
                  /\ SubSeq(SubSeq(s, j + 1, k), n + 1, k - j) = SubSeq(s, j + n + 1, k)
                BY <3>1, <3>6, <4>1, CutPiece
            <4> QED BY <3>2, <3>5, <4>2
        <3>8. buffer'[c] = SubSeq(s, i + 1, j + n) /\ sock'[c] = SubSeq(s, (j + n) + 1, k)
            BY <2>1, <2>4, <3>5, <3>7
        <3>9. Pieces(c, s, i, j + n, k)'
            <4>1. req'[c].data = SubSeq(s, 1, i) /\ net'[c] = SubSeq(s, k + 1, Len(s))
                BY <2>1, <3>2
            <4>2. i <= j + n /\ j + n <= k /\ k <= Len(s)
                BY <3>6
            <4> QED BY <3>3, <3>8, <4>1, <4>2 DEF Pieces
        <3>10. InContent(c)'
            <4>1. /\ resp'[c] = <<>> /\ Asked(c)' /\ AtContent(c)'
                  /\ req'[c].in_data /\ ~ req'[c].process /\ ~ req'[c].quit
                BY <2>1, <2>5, <2>7 DEF InContent
            <4> QED BY <2>1, <2>4, <3>2, <3>3, <3>6, <3>9, <4>1, ToInContent
        <3> QED BY <2>1, <2>2, <2>7, <3>10 DEF Stream, InContent, Asked
    <2> QED BY <2>2, <2>6, <2>7 DEF Stream, Listening, Answering, Complete
<1> QED BY <1>0, <1>1, <1>2

\* One turn of the parser's loop.
LEMMA ParseStream ==
    ASSUME TypeInv, SlotInv, NEW c \in Clients, Stream(c), Parse(c)
    PROVE  Stream(c)'
<1> USE DEF TypeInv, ClientTypes, NetTypes, SocketTypes, ConnTypes
<1>1. status[c] = "PARSING" /\ buffer[c] # <<>> /\ client' = client
    BY DEF Parse, ParseCommand, ParseSkip, ParseData, ParseOverflow, AtAtom, clientVars
<1>2. fd[c] # "none"
    BY <1>1 DEF SlotInv
<1>3. Commanded(c) \/ InContent(c) \/ Answering(c)
    BY <1>1, <1>2 DEF Stream, Listening, Complete
<1>4. Asked(c)
    BY <1>3 DEF Commanded, InContent, Answering
<1>5. CASE ParseOverflow(c)
    BY <1>1, <1>4, <1>5, CloseStream DEF ParseOverflow, Asked
<1>6. ASSUME ~ ParseOverflow(c)
      PROVE  /\ kind' = kind /\ line' = line /\ net' = net /\ inbox' = inbox
             /\ sock' = sock /\ fd' = fd /\ status' = status
    BY <1>6 DEF Parse, ParseCommand, ParseSkip, ParseData, clientVars, netVars, kernelVars
<1>7. ASSUME ~ ParseOverflow(c)
      PROVE  /\ Asked(c)' /\ (AtData(c)' <=> AtData(c))
             /\ (AtContent(c)' <=> AtContent(c)) /\ Content(c)' = Content(c)
    BY <1>1, <1>4, <1>6, <1>7 DEF Asked, AtData, AtContent, Content
<1>8. ASSUME Commanded(c), ~ ParseOverflow(c) PROVE Stream(c)'
    <2>1. PICK k \in Commands :
            /\ k = "DATA" <=> AtData(c)
            /\ net[c] = <<>> /\ sock[c] = <<>> /\ buffer[c] = Line(k)
        BY <1>1, <1>8 DEF Commanded
    <2>2. req[c] = request_init /\ resp[c] = <<>>
        BY <1>8 DEF Commanded
    <2>3. /\ Head(buffer[c]) = Atom(k, 1) /\ Tail(buffer[c]) = <<Atom(k, 2)>>
          /\ Atom(k, 1)[1] = k /\ Atom(k, 1)[2] = 1 /\ Len(buffer[c]) = 2
          /\ buffer[c][2] = Atom(k, 2) /\ SubSeq(buffer[c], 3, Len(buffer[c])) = <<>>
        BY <2>1, LineShape
    <2>4. MayMatch(c)
        BY <2>3 DEF MayMatch
    <2>5. ParseCommand(c)
        BY <1>8, <2>2, <2>3, <2>4 DEF Parse, ParseSkip, MayMiss, ParseData, request_init
    <2>6. /\ resp'[c] = Append(<<>>, ReplyTo(k))
          /\ buffer'[c] = IF k = "DATA" THEN <<>> ELSE <<Atom(k, 2)>>
        BY <2>2, <2>3, <2>5 DEF ParseCommand
    <2>7. /\ req'[c].in_data <=> k = "DATA"
          /\ req'[c].quit <=> k = "QUIT"
          /\ ~ req'[c].process /\ req'[c].data = <<>>
        <3> DEFINE q == [req[c] EXCEPT !.in_data = k = "DATA", !.quit = @ \/ k = "QUIT"]
        <3>1. req' = [req EXCEPT ![c] = q]
            BY <2>3, <2>5 DEF ParseCommand
        <3>2. req'[c] = q
            BY <3>1
        <3>3. /\ q.in_data = (k = "DATA") /\ q.quit = (FALSE \/ k = "QUIT")
              /\ q.data = <<>> /\ q.process = FALSE
            BY <2>2 DEF request_init
        <3> HIDE DEF q
        <3> QED BY <3>2, <3>3
    <2>8. ReplyTo(k) \in Replies \ {"queued"} /\ resp'[c] = <<ReplyTo(k)>>
        BY <2>6 DEF ReplyTo, Replies
    <2>9. Answering(c)'
        BY <1>1, <1>6, <1>7, <1>8, <2>1, <2>6, <2>7, <2>8 DEF Answering
    <2> QED BY <1>1, <1>2, <1>4, <1>6, <1>8, <2>9 DEF Stream, Asked
<1>9. ASSUME Answering(c), ~ ParseOverflow(c) PROVE Stream(c)'
    <2>1. PICK k \in Commands : buffer[c] = <<Atom(k, 2)>>
        BY <1>1, <1>9 DEF Answering
    <2>2. ~ req[c].in_data
        BY <1>1, <1>9 DEF Answering
    <2>3. Head(buffer[c]) = Atom(k, 2) /\ Tail(buffer[c]) = <<>> /\ Atom(k, 2)[2] = 2
        BY <2>1 DEF Atom
    <2>4. ~ MayMatch(c)
        BY <2>3 DEF MayMatch
    <2>5. ParseSkip(c)
        BY <1>9, <2>2, <2>4 DEF Parse, ParseCommand, ParseData
    <2>6. buffer'[c] = <<>> /\ req' = req /\ resp' = resp
        BY <2>3, <2>5 DEF ParseSkip
    <2>7. Answering(c)'
        BY <1>1, <1>6, <1>7, <1>9, <2>6 DEF Answering
    <2> QED BY <1>1, <1>2, <1>4, <1>6, <1>9, <2>7 DEF Stream, Asked
<1>10. ASSUME InContent(c), ~ ParseOverflow(c) PROVE Stream(c)'
    <2> DEFINE s == Content(c)
    <2>1. s \in Seq(Atoms) /\ Len(s) \in Nat
        BY FromInContent, <1>10
    <2>2. PICK i \in 0 .. Len(s), j \in 0 .. Len(s), k \in 0 .. Len(s) :
             /\ i < Len(s) /\ i <= j /\ j <= k
             /\ req[c].data = SubSeq(s, 1, i)
             /\ buffer[c] = SubSeq(s, i + 1, j)
             /\ sock[c] = SubSeq(s, j + 1, k)
             /\ net[c] = SubSeq(s, k + 1, Len(s))
        BY FromInContent, <1>10
    <2>3. Content(c)' = s /\ s' = s
        BY <1>7, <1>10
    <2>4. \A x \in 1 .. Len(s) : EndOfData(SubSeq(s, 1, x)) <=> x = Len(s)
        BY ContentShape
    <2> HIDE DEF s
    <2>5. i < j
        <3>1. i = j => SubSeq(s, i + 1, j) = <<>>
            BY SubSeqEmpty
        <3> QED BY <1>1, <2>2, <3>1
    <2> DEFINE data == Append(req[c].data, Head(buffer[c]))
    <2>6. data = SubSeq(s, 1, i + 1) /\ Tail(buffer[c]) = SubSeq(s, (i + 1) + 1, j)
        <3>1. i \in 0 .. Len(s) - 1 /\ j \in i + 1 .. Len(s) /\ (i + 1) + 1 = i + 2
            BY <2>1, <2>2, <2>5
        <3> QED BY <2>1, <2>2, <3>1, MoveAtom
    <2>7. ParseData(c)
        BY <1>10 DEF Parse, ParseCommand, ParseSkip, InContent
    <2>8. /\ req'[c] = [in_data |-> ~ EndOfData(data), data |-> data,
                        process |-> req[c].process \/ EndOfData(data),
                        quit |-> req[c].quit \/ EndOfData(data)]
          /\ resp'[c] = IF EndOfData(data) THEN Append(resp[c], "queued") ELSE resp[c]
          /\ buffer'[c] = Tail(buffer[c])
        BY <2>7 DEF ParseData
    <2>9. EndOfData(data) <=> i + 1 = Len(s)
        <3>1. i + 1 \in 1 .. Len(s)
            BY <2>1, <2>2
        <3> QED BY <2>4, <2>6, <3>1
    <2> HIDE DEF data
    <2>10. CASE i + 1 = Len(s)
        <3>1. j = Len(s) /\ k = Len(s)
            BY <2>1, <2>2, <2>5, <2>10
        <3>2. /\ SubSeq(s, (i + 1) + 1, j) = <<>> /\ SubSeq(s, j + 1, k) = <<>>
              /\ SubSeq(s, k + 1, Len(s)) = <<>> /\ SubSeq(s, 1, i + 1) = s
            BY <2>1, <2>10, <3>1, SubSeqEmpty, SubSeqFull
        <3>3. buffer'[c] = <<>> /\ sock'[c] = <<>> /\ net'[c] = <<>> /\ data = s
            BY <1>6, <1>10, <2>2, <2>6, <2>8, <3>2
        <3>4. /\ req'[c] = [in_data |-> FALSE, data |-> s, process |-> TRUE, quit |-> TRUE]
              /\ resp'[c] = <<"queued">>
            <4>1. EndOfData(data)
                BY <2>9, <2>10
            <4>2. resp'[c] = Append(<<>>, "queued")
                BY <1>10, <2>8, <4>1 DEF InContent
            <4>3. /\ (~ EndOfData(data)) = FALSE
                  /\ (req[c].process \/ EndOfData(data)) = TRUE
                  /\ (req[c].quit \/ EndOfData(data)) = TRUE
                BY <4>1
            <4>4. req'[c] = [in_data |-> FALSE, data |-> data, process |-> TRUE, quit |-> TRUE]
                BY <2>8, <4>3, Zenon
            <4> QED BY <3>3, <4>2, <4>4
        <3>5. Complete(c)'
            BY <1>1, <1>6, <1>7, <1>10, <2>3, <3>3, <3>4 DEF Complete, InContent
        <3> QED BY <1>1, <1>2, <1>4, <1>6, <1>10, <3>5 DEF Stream, Asked
    <2>11. CASE i + 1 # Len(s)
        <3>1. i + 1 \in 0 .. Len(s) /\ i + 1 < Len(s) /\ i + 1 <= j
            BY <2>1, <2>2, <2>5, <2>11
        <3>2. /\ req'[c].data = SubSeq(s, 1, i + 1)
              /\ req'[c].in_data /\ ~ req'[c].process /\ ~ req'[c].quit
              /\ resp'[c] = <<>>
            <4>1. ~ EndOfData(data)
                BY <2>9, <2>11
            <4>2. resp'[c] = <<>> /\ req'[c].data = data
                BY <1>10, <2>8, <4>1 DEF InContent
            <4>3. /\ req'[c].in_data = ~ EndOfData(data)
                  /\ req'[c].process = (req[c].process \/ EndOfData(data))
                  /\ req'[c].quit = (req[c].quit \/ EndOfData(data))
                BY <2>8
            <4>4. ~ req[c].process /\ ~ req[c].quit
                BY <1>10 DEF InContent
            <4> QED BY <2>6, <4>1, <4>2, <4>3, <4>4
        <3>3. buffer'[c] = SubSeq(s, (i + 1) + 1, j)
            BY <2>6, <2>8
        <3>4. Pieces(c, s, i + 1, j, k)'
            <4>1. sock'[c] = SubSeq(s, j + 1, k) /\ net'[c] = SubSeq(s, k + 1, Len(s))
                BY <1>6, <1>10, <2>2
            <4>2. i + 1 <= j /\ j <= k /\ k <= Len(s)
                BY <2>1, <2>2, <3>1
            <4> QED BY <2>3, <3>2, <3>3, <4>1, <4>2 DEF Pieces
        <3>5. InContent(c)'
            BY <1>1, <1>6, <1>7, <1>10, <2>2, <2>3, <3>1, <3>2, <3>4, ToInContent DEF InContent
        <3> QED BY <1>1, <1>2, <1>4, <1>6, <1>10, <3>5 DEF Stream, Asked
    <2> QED BY <2>10, <2>11
<1> QED BY <1>3, <1>5, <1>8, <1>9, <1>10

\* What follows the parser: the reply is sent, and the connection closed after
\* QUIT and after the content.
LEMMA ReplyStream ==
    ASSUME TypeInv, SlotInv, NEW c \in Clients, Stream(c),
           Process(c) \/ HandleWrite(c) \/ HandleWriteError(c) \/ HandleWriteKilled(c)
    PROVE  Stream(c)'
<1> USE DEF TypeInv, ClientTypes, NetTypes, SocketTypes, ConnTypes
<1>1. client' = client /\ status[c] \in {"PARSING", "WRITING"}
    BY DEF Process, ProcessNothing, ProcessMail, ProcessCrash, StartWriting, AtEnd, HandleWrite,
           HandleWriteError, HandleWriteKilled, clientVars
<1>2. fd[c] # "none"
    BY <1>1 DEF SlotInv
<1>3. Asked(c)
    BY <1>1, <1>2 DEF Stream, Listening, Commanded, InContent, Answering, Complete
<1>4. CASE ProcessCrash(c)
    <2>1. Unmoved(c)
        BY <1>4 DEF ProcessCrash, clientVars, netVars, kernelVars, connVars, Unmoved
    <2> QED BY <2>1, UnmovedStream
<1>8. CASE HandleWriteKilled(c)
    <2>1. Unmoved(c)
        BY <1>8 DEF HandleWriteKilled, clientVars, netVars, kernelVars, connVars, Unmoved
    <2> QED BY <2>1, UnmovedStream
<1>5. CASE HandleWriteError(c) \/ (HandleWrite(c) /\ req[c].quit)
    BY <1>1, <1>3, <1>5, CloseStream DEF HandleWriteError, HandleWriteKilled, HandleWrite, Asked
<1>6. CASE ProcessNothing(c) \/ ProcessMail(c)
    <2>1. /\ kind' = kind /\ line' = line /\ net' = net /\ inbox' = inbox /\ sock' = sock /\ fd' = fd
          /\ buffer' = buffer /\ req' = req /\ resp' = resp /\ buffer[c] = <<>>
          /\ status'[c] = "WRITING"
        BY <1>6 DEF ProcessNothing, ProcessMail, StartWriting, AtEnd, clientVars, netVars, kernelVars
    <2>2. (Asked(c)' <=> Asked(c)) /\ (AtData(c)' <=> AtData(c))
          /\ (AtContent(c)' <=> AtContent(c)) /\ Content(c)' = Content(c)
        BY <1>1, <2>1 DEF Asked, AtData, AtContent, Content
    <2>3. InContent(c) \/ Answering(c) \/ Complete(c)
        <3>1. ~ Commanded(c)
            BY <1>1, <2>1, LineShape DEF Commanded
        <3> QED BY <1>1, <1>2, <3>1 DEF Stream, Listening
    <2>4. InContent(c) => InContent(c)'
        BY <2>1, <2>2, KeepInContent DEF InContent
    <2>5. Answering(c) => Answering(c)'
        BY <1>1, <2>1, <2>2 DEF Answering
    <2>6. Complete(c) => Complete(c)'
        BY <1>1, <2>1, <2>2 DEF Complete
    <2> QED BY <1>1, <1>2, <1>3, <2>1, <2>3, <2>4, <2>5, <2>6 DEF Stream, Asked
<1>7. CASE HandleWrite(c) /\ ~ req[c].quit
    <2>1. /\ status[c] = "WRITING" /\ status'[c] = "READING"
          /\ inbox'[c] = inbox[c] \o resp[c] /\ resp'[c] = <<>>
          /\ req'[c] = IF req[c].in_data THEN req[c] ELSE request_init
          /\ kind' = kind /\ line' = line /\ net' = net /\ sock' = sock /\ fd' = fd
          /\ buffer' = buffer
        BY <1>7 DEF HandleWrite, clientVars
    <2>2. (AtData(c)' <=> AtData(c)) /\ (AtContent(c)' <=> AtContent(c)) /\ Content(c)' = Content(c)
        BY <2>1 DEF AtData, AtContent, Content
    <2>3. CASE InContent(c)
        <3>1. inbox'[c] = <<>> /\ req'[c] = req[c]
            BY <1>3, <2>1, <2>3 DEF InContent, Asked
        <3>2. Asked(c)'
            BY <1>1, <1>3, <3>1 DEF Asked
        <3>3. buffer[c] = <<>>
            BY <2>1, <2>3 DEF InContent
        <3>4. InContent(c)'
            BY <2>1, <2>2, <2>3, <3>1, <3>2, <3>3, KeepInContent DEF InContent
        <3> QED BY <1>1, <1>2, <1>3, <2>1, <3>4 DEF Stream, Asked
    <2>4. CASE Answering(c)
        <3>1. PICK r \in Replies : resp[c] = <<r>>
            BY <2>4 DEF Answering
        <3>2. inbox'[c] = <<r>>
            BY <1>3, <2>1, <3>1 DEF Asked
        <3>3. Len(inbox'[c]) <= 1 /\ inbox'[c] # <<>>
            BY <3>2
        <3>4. /\ req'[c].in_data <=> req[c].in_data
              /\ req'[c].data = <<>> /\ ~ req'[c].process /\ ~ req'[c].quit
            BY <1>7, <2>1, <2>4 DEF Answering, request_init
        <3>5. Listening(c)'
            BY <1>1, <1>3, <2>1, <2>2, <2>4, <3>3, <3>4 DEF Listening, Answering, Asked
        <3> QED BY <1>1, <1>2, <1>3, <2>1, <3>5 DEF Stream, Asked
    <2> QED BY <1>2, <1>7, <2>1, <2>3, <2>4 DEF Stream, Listening, Commanded, Complete
<1> QED BY <1>4, <1>5, <1>6, <1>7, <1>8 DEF Process

\* A step of one client leaves the sessions of the others alone.
LEMMA OthersUnmoved ==
    ASSUME TypeInv, NEW c \in Clients,
           Environment(c) \/ accept(c) \/ events_add_event_2(c) \/ Handle(c)
    PROVE  \A d \in Clients \ {c} : Unmoved(d)
<1> USE DEF TypeInv, ClientTypes, NetTypes, SocketTypes, ConnTypes, Unmoved
<1>1. ASSUME NEW d \in Clients \ {c}, Close(c)
      PROVE  /\ fd'[d] = fd[d] /\ sock'[d] = sock[d] /\ status'[d] = status[d]
             /\ buffer'[d] = buffer[d] /\ req'[d] = req[d] /\ resp'[d] = resp[d]
    BY <1>1 DEF Close, events_del_and_close, connection_reset
<1>2. CASE Connect(c) \/ Send(c) \/ Receive(c) \/ Leave(c) \/ Forget(c)
    BY <1>2 DEF Connect, Send, Receive, Leave, Forget, netVars, kernelVars, connVars
<1>3. CASE (\E n \in 1 .. Len(net[c]) : Arrive(c, n)) \/ ArriveFin(c)
    <2>1. ASSUME NEW n \in 1 .. Len(net[c]), Arrive(c, n)
          PROVE  \A d \in Clients \ {c} : Unmoved(d)
        BY <2>1 DEF Arrive, clientVars, connVars
    <2>2. CASE ArriveFin(c)
        BY <2>2 DEF ArriveFin, clientVars, netVars, connVars
    <2> QED BY <1>3, <2>1, <2>2
<1>4. CASE accept(c) \/ events_add_event_2(c)
    BY <1>4 DEF accept, events_add_event_2, clientVars, netVars, connVars
<1>5. CASE HandleClosed(c) \/ HandleReadError(c) \/ ParseOverflow(c) \/ HandleWriteError(c)
    BY <1>1, <1>5 DEF HandleClosed, HandleReadError, ParseOverflow, HandleWriteError, HandleWriteKilled, clientVars, netVars
<1>6. CASE HandleRead(c)
    BY <1>6 DEF HandleRead, connection_start, clientVars, netVars
<1>7. CASE ParseCommand(c) \/ ParseSkip(c) \/ ParseData(c)
    BY <1>7 DEF ParseCommand, ParseSkip, ParseData, clientVars, netVars, kernelVars
<1>8. CASE Process(c)
    BY <1>8 DEF Process, ProcessNothing, ProcessMail, ProcessCrash, StartWriting, clientVars, netVars,
                kernelVars, connVars
<1>9. CASE HandleWrite(c)
    <2>1. CASE req[c].quit
        BY <1>1, <1>9, <2>1 DEF HandleWrite, clientVars
    <2>2. CASE ~ req[c].quit
        BY <1>9, <2>2 DEF HandleWrite, clientVars
    <2> QED BY <2>1, <2>2
<1>10. CASE HandleClosedCrash(c) \/ HandleWriteKilled(c)
    BY <1>10 DEF HandleClosedCrash, HandleWriteKilled, clientVars, netVars, kernelVars, connVars
<1> QED BY <1>2, <1>3, <1>4, <1>5, <1>6, <1>7, <1>8, <1>9, <1>10 DEF Environment, Handle, Parse

\* Every session stays in a stage.
LEMMA StreamStep ==
    ASSUME WholeCommands, TypeInv, EventInv, SlotInv, FinInv, StreamInv, [Next]_vars
    PROVE  StreamInv'
<1>1. CASE UNCHANGED vars \/ pq_dequeue \/ events_wait
    <2>1. \A d \in Clients : Unmoved(d)
        BY <1>1 DEF vars, pq_dequeue, events_wait, clientVars, netVars, kernelVars, connVars, Unmoved
    <2> QED BY <2>1, UnmovedStream DEF StreamInv
<1>2. ASSUME NEW c \in Clients,
             Environment(c) \/ accept(c) \/ events_add_event_2(c) \/ Handle(c)
      PROVE  StreamInv'
    <2>1. \A d \in Clients \ {c} : Stream(d)'
        BY <1>2, OthersUnmoved, UnmovedStream DEF StreamInv
    <2>2. Stream(c)
        BY DEF StreamInv
    <2>3. Stream(c)'
        BY <1>2, <2>2, ClientStream, ArrivalStream, EventStream, ParseStream, ReplyStream
           DEF Environment, Handle
    <2> QED BY <2>1, <2>3 DEF StreamInv
<1> QED BY <1>1, <1>2 DEF Next

\* A FIN is only reported of a client that is gone.
LEMMA FinStep ==
    ASSUME TypeInv, EventInv, SlotInv, FinInv, [Next]_vars
    PROVE  FinInv'
<1> USE DEF TypeInv, ClientTypes, SocketTypes
<1>1. CASE UNCHANGED vars \/ pq_dequeue
    BY <1>1 DEF vars, pq_dequeue, clientVars, kernelVars, FinInv
<1>2. CASE events_wait
    BY <1>2 DEF events_wait, clientVars, Ready, FinInv
<1>3. ASSUME NEW c \in Clients, Environment(c) \/ accept(c) \/ events_add_event_2(c)
      PROVE  FinInv'
    <2>1. /\ batch' = batch
          /\ \A d \in Clients : hup'[d] => hup[d] \/ (client[d] = "gone" /\ fd[d] # "none")
        BY <1>3 DEF Environment, Connect, Send, Receive, Leave, Forget, Arrive, ArriveFin, accept,
                    events_add_event_2, kernelVars
    <2>2. \A d \in Clients : client[d] = "gone" /\ fd[d] # "none" => client'[d] = "gone" /\ fd'[d] # "none"
        BY <1>3 DEF Environment, Connect, Send, Receive, Leave, Forget, Arrive, ArriveFin, accept,
                    events_add_event_2, kernelVars, clientVars
    <2> QED BY <2>1, <2>2 DEF FinInv, EventInv
<1>4. ASSUME NEW c \in Clients, Handle(c)
      PROVE  FinInv'
    <2>1. client' = client
        BY <1>4 DEF Handle, HandleClosed, HandleClosedCrash, HandleReadError, HandleRead, Parse, ParseCommand, ParseSkip,
                    ParseData, ParseOverflow, Process, ProcessNothing, ProcessMail, ProcessCrash,
                    StartWriting, HandleWrite, HandleWriteError, HandleWriteKilled, clientVars
    <2>2. UNCHANGED batch \/ NextEvent(c)
        BY <1>4 DEF Handle, HandleClosed, HandleClosedCrash, HandleReadError, HandleRead, Parse, ParseCommand, ParseSkip,
                    ParseData, ParseOverflow, Process, ProcessNothing, ProcessMail, ProcessCrash,
                    StartWriting, HandleWrite, HandleWriteError, HandleWriteKilled, kernelVars
    <2>3. \A d \in DOMAIN batch' : d \in DOMAIN batch /\ batch'[d] = batch[d]
        BY <2>2 DEF NextEvent
    <2>4. Close(c) \/ UNCHANGED <<hup, fd>>
        BY <1>4 DEF Handle, HandleClosed, HandleClosedCrash, HandleReadError, HandleRead, Parse, ParseCommand, ParseSkip,
                    ParseData, ParseOverflow, Process, ProcessNothing, ProcessMail, ProcessCrash,
                    StartWriting, HandleWrite, HandleWriteError, HandleWriteKilled, kernelVars
    <2>5. \A d \in Clients : hup'[d] => hup[d] /\ fd'[d] = fd[d]
        BY <2>4 DEF Close, events_del_and_close
    <2> QED BY <2>1, <2>3, <2>5 DEF FinInv
<1> QED BY <1>1, <1>2, <1>3, <1>4 DEF Next

\* At the start nobody is connected.
LEMMA StreamInit == Init => StreamInv /\ FinInv
BY DEF Init, StreamInv, Stream, FinInv, NoEvents

\* Every invariant that speaks of connections.
SessionInv == TypeInv /\ EventInv /\ SlotInv /\ FinInv /\ StreamInv

\* They are inductive.
LEMMA SessionStep ==
    ASSUME WholeCommands
    PROVE  (Init => SessionInv) /\ (SessionInv /\ [Next]_vars => SessionInv')
<1>1. Init => SessionInv
    BY TypeInit, EventInit, StreamInit DEF SessionInv
<1>2. SessionInv /\ [Next]_vars => SessionInv'
    BY TypeStep, EventStep, FinStep, StreamStep DEF SessionInv
<1> QED BY <1>1, <1>2

-----------------------------------------------------------------------------
(* The mails. *)

\* What was ever queued is a sequence of mails.
LEMMA QueuedTypes ==
    ASSUME TypeInv
    PROVE  /\ Queued \in Seq(MailRecords) /\ Len(Queued) \in Nat
           /\ DOMAIN Queued = 1 .. Len(Queued)
           /\ Len(Queued) = Len(taken) + Len(queue)
           /\ \A i \in DOMAIN Queued : Queued[i] \in MailRecords
<1>1. taken \in Seq(MailRecords) /\ queue \in Seq(MailRecords)
    BY DEF TypeInv, QueueTypes
<1>2. Queued \in Seq(MailRecords) /\ Len(Queued) = Len(taken) + Len(queue)
    BY <1>1 DEF Queued
<1> HIDE DEF Queued
<1>3. Len(Queued) \in Nat /\ DOMAIN Queued = 1 .. Len(Queued)
    BY <1>2
<1>4. \A i \in DOMAIN Queued : Queued[i] \in MailRecords
    BY <1>2, <1>3, ElementOfSeq
<1> QED BY <1>2, <1>3, <1>4

\* The mails of the properties are the elements of Queued.
LEMMA MailsAreQueued ==
    ASSUME TypeInv
    PROVE  Mails = {Queued[i] : i \in DOMAIN Queued}
<1>1. taken \in Seq(MailRecords) /\ queue \in Seq(MailRecords)
    BY DEF TypeInv, QueueTypes
<1>2. /\ Len(taken) \in Nat /\ Len(queue) \in Nat
      /\ DOMAIN taken = 1 .. Len(taken) /\ DOMAIN queue = 1 .. Len(queue)
      /\ DOMAIN Queued = 1 .. Len(taken) + Len(queue)
    <2>1. /\ Len(taken) \in Nat /\ Len(queue) \in Nat
          /\ DOMAIN taken = 1 .. Len(taken) /\ DOMAIN queue = 1 .. Len(queue)
        BY <1>1, LenProperties
    <2>2. DOMAIN Queued = 1 .. Len(Queued) /\ Len(Queued) = Len(taken) + Len(queue)
        BY QueuedTypes
    <2> QED BY <2>1, <2>2
<1>3. \A i \in 1 .. Len(taken) + Len(queue) :
         Queued[i] = IF i <= Len(taken) THEN taken[i] ELSE queue[i - Len(taken)]
    BY <1>1, ConcatProperties DEF Queued
<1>4. \A i \in DOMAIN taken : i \in DOMAIN Queued /\ Queued[i] = taken[i]
    BY <1>2, <1>3
<1>5. \A i \in DOMAIN queue : Len(taken) + i \in DOMAIN Queued /\ Queued[Len(taken) + i] = queue[i]
    <2> SUFFICES ASSUME NEW i \in DOMAIN queue
                 PROVE  Len(taken) + i \in DOMAIN Queued /\ Queued[Len(taken) + i] = queue[i]
        OBVIOUS
    <2>1. /\ Len(taken) + i \in 1 .. Len(taken) + Len(queue) /\ ~ (Len(taken) + i <= Len(taken))
          /\ (Len(taken) + i) - Len(taken) = i
        BY <1>2
    <2> QED BY <1>2, <1>3, <2>1
<1>6. \A i \in DOMAIN Queued : Queued[i] \in ToSet(taken) \cup ToSet(queue)
    <2> SUFFICES ASSUME NEW i \in DOMAIN Queued
                 PROVE  Queued[i] \in ToSet(taken) \cup ToSet(queue)
        OBVIOUS
    <2>1. i \in 1 .. Len(taken) + Len(queue)
        BY <1>2
    <2>2. i \in DOMAIN taken \/ (~ (i <= Len(taken)) /\ i - Len(taken) \in DOMAIN queue)
        BY <1>2, <2>1
    <2> QED BY <1>3, <1>4, <2>1, <2>2 DEF ToSet
<1> QED BY <1>4, <1>5, <1>6 DEF Mails, ToSet

\* Dequeuing moves a mail and loses none.
LEMMA DequeueKeeps ==
    ASSUME TypeInv, pq_dequeue
    PROVE  Queued' = Queued
<1>1. queue # <<>> /\ taken' = Append(taken, Head(queue)) /\ queue' = Tail(queue)
    BY DEF pq_dequeue
<1>2. taken \in Seq(MailRecords) /\ queue \in Seq(MailRecords)
    BY DEF TypeInv, QueueTypes
<1> DEFINE h == Head(queue)
           t == Tail(queue)
<1>3. h \in MailRecords /\ t \in Seq(MailRecords) /\ queue = <<h>> \o t
    BY <1>1, <1>2
<1> HIDE DEF h, t
<1>4. Append(taken, h) = taken \o <<h>> /\ <<h>> \in Seq(MailRecords)
    BY <1>2, <1>3
<1>5. (taken \o <<h>>) \o t = taken \o (<<h>> \o t)
    BY <1>2, <1>3, <1>4, ConcatAssociative
<1> QED BY <1>1, <1>3, <1>4, <1>5 DEF Queued, h, t

\* A mail is appended, or nothing is queued.
LEMMA EnqueueAppends ==
    ASSUME TypeInv, NEW c \in Clients, ProcessMail(c)
    PROVE  /\ Len(queue) < QueueSize => Queued' = Append(Queued, request_parse_data(c))
           /\ ~ (Len(queue) < QueueSize) => Queued' = Queued
<1>1. taken \in Seq(MailRecords) /\ queue \in Seq(MailRecords)
    BY DEF TypeInv, QueueTypes
<1> DEFINE m == request_parse_data(c)
<1>2. m \in MailRecords
    BY MailTypes
<1>3. taken' = taken /\ queue' = IF Len(queue) < QueueSize THEN Append(queue, m) ELSE queue
    BY DEF ProcessMail, StartWriting
<1> HIDE DEF m
<1>4. Append(queue, m) = queue \o <<m>> /\ <<m>> \in Seq(MailRecords)
    BY <1>1, <1>2
<1>5. (taken \o queue) \o <<m>> = taken \o (queue \o <<m>>)
    BY <1>1, <1>4, ConcatAssociative
<1>6. taken \o queue \in Seq(MailRecords)
    BY <1>1
<1>7. Append(taken \o queue, m) = (taken \o queue) \o <<m>>
    BY <1>2, <1>6
<1> QED BY <1>3, <1>4, <1>5, <1>7 DEF Queued, m

\* Nothing but these two actions touches the queue.
LEMMA QueueUntouched ==
    ASSUME [Next]_vars, ~ pq_dequeue, \A c \in Clients : ~ ProcessMail(c)
    PROVE  Queued' = Queued
<1>1. UNCHANGED <<queue, taken>>
    <2>1. CASE UNCHANGED vars \/ events_wait
        BY <2>1 DEF vars, events_wait, queueVars
    <2>2. ASSUME NEW c \in Clients, Environment(c) \/ accept(c) \/ events_add_event_2(c)
          PROVE  UNCHANGED <<queue, taken>>
        BY <2>2 DEF Environment, Connect, Send, Receive, Leave, Forget, Arrive, ArriveFin, accept,
                    events_add_event_2, queueVars
    <2>3. ASSUME NEW c \in Clients, Handle(c) PROVE UNCHANGED <<queue, taken>>
        BY <2>3 DEF Handle, HandleClosed, HandleClosedCrash, HandleReadError, HandleRead, Parse, ParseCommand, ParseSkip,
                    ParseData, ParseOverflow, Process, ProcessNothing, ProcessCrash, StartWriting,
                    HandleWrite, HandleWriteError, HandleWriteKilled, queueVars
    <2> QED BY <2>1, <2>2, <2>3 DEF Next
<1> QED BY <1>1 DEF Queued

\* A client connects again, which begins a session, or stays in its session; the
\* mail of a session that is served stays its only one.
LEMMA ServedStep ==
    ASSUME SessionInv, [Next]_vars, NEW d \in Clients
    PROVE  \/ session'[d] = session[d] + 1 /\ client[d] = "away"
           \/ session'[d] = session[d] /\ (Served(d) => Served(d)') /\ (client[d] = "away" => client'[d] = "away")
<1> USE DEF SessionInv, TypeInv, ClientTypes, SocketTypes, ConnTypes, NetTypes
<1>1. CASE UNCHANGED vars \/ pq_dequeue \/ events_wait
    BY <1>1 DEF vars, pq_dequeue, events_wait, clientVars, netVars, kernelVars, connVars, Served
<1>2. ASSUME NEW c \in Clients, c # d,
             Environment(c) \/ accept(c) \/ events_add_event_2(c) \/ Handle(c)
      PROVE  session'[d] = session[d] /\ (Served(d) => Served(d)') /\ client'[d] = client[d]
    <2>1. Unmoved(d)
        BY <1>2, OthersUnmoved
    <2>2. session'[d] = session[d]
        BY <1>2 DEF Environment, Connect, Send, Receive, Leave, Forget, Arrive, ArriveFin, accept,
                    events_add_event_2, Handle, HandleClosed, HandleClosedCrash, HandleReadError, HandleRead, Parse,
                    ParseCommand, ParseSkip, ParseData, ParseOverflow, Process, ProcessNothing,
                    ProcessMail, ProcessCrash, StartWriting, HandleWrite, HandleWriteError, HandleWriteKilled, clientVars
    <2> QED BY <2>1, <2>2 DEF Unmoved, Served
<1>3. CASE Connect(d)
    BY <1>3 DEF Connect
<1>4. CASE Send(d) \/ Receive(d) \/ Leave(d) \/ Forget(d)
    BY <1>4 DEF Send, Receive, Leave, Forget, kernelVars, connVars, Served
<1>5. CASE (\E n \in 1 .. Len(net[d]) : Arrive(d, n)) \/ ArriveFin(d)
    BY <1>5 DEF Arrive, ArriveFin, clientVars, connVars, Served
<1>6. CASE accept(d) \/ events_add_event_2(d)
    BY <1>6 DEF accept, events_add_event_2, clientVars, connVars, Served
<1>7. CASE Handle(d)
    <2>1. session' = session /\ client' = client
        BY <1>7 DEF Handle, HandleClosed, HandleClosedCrash, HandleReadError, HandleRead, Parse, ParseCommand, ParseSkip,
                    ParseData, ParseOverflow, Process, ProcessNothing, ProcessMail, ProcessCrash,
                    StartWriting, HandleWrite, HandleWriteError, HandleWriteKilled, clientVars
    <2>2. CASE ~ Served(d)
        BY <2>1, <2>2
    <2>3. CASE Served(d)
        <3>1. fd[d] # "none"
            BY <1>7 DEF Handle, HandleClosed, HandleClosedCrash, HandleReadError, HandleRead, NextEvent, EventInv, Parse,
                        ParseCommand, ParseSkip, ParseData, ParseOverflow, AtAtom, Process,
                        ProcessNothing, ProcessMail, ProcessCrash, AtEnd, HandleWrite,
                        HandleWriteError, HandleWriteKilled, SlotInv
        <3>2. req[d].process /\ status[d] = "WRITING"
            BY <2>3, <3>1 DEF Served
        <3>3. Complete(d)
            BY <3>1, <3>2 DEF StreamInv, Stream, Listening, Commanded, InContent, Answering, request_init
        <3>4. req[d].quit /\ client[d] # "connecting"
            BY <3>3 DEF Complete, Asked
        <3>5. HandleWrite(d) \/ HandleWriteError(d) \/ HandleWriteKilled(d)
            BY <1>7, <3>2 DEF Handle, HandleClosed, HandleClosedCrash, HandleReadError, HandleRead, NextEvent, EventInv, Parse,
                        ParseCommand, ParseSkip, ParseData, ParseOverflow, AtAtom, Process,
                        ProcessNothing, ProcessMail, ProcessCrash, AtEnd
        <3>6. CASE HandleWriteKilled(d)
            BY <2>1, <2>3, <3>6 DEF HandleWriteKilled, kernelVars, connVars, Served
        <3>7. ASSUME ~ HandleWriteKilled(d) PROVE fd'[d] = "none"
            BY <3>4, <3>5, <3>7 DEF HandleWrite, HandleWriteError, Close, events_del_and_close
        <3> QED BY <2>1, <3>4, <3>6, <3>7 DEF Served
    <2> QED BY <2>2, <2>3
<1> QED BY <1>1, <1>2, <1>3, <1>4, <1>5, <1>6, <1>7 DEF Next, Environment

\* The invariants of the first property.
ContentInv == SessionInv /\ Started /\ MailsInv

\* At the start nothing is queued.
LEMMA ContentInit == Init => Started /\ MailsInv
<1> SUFFICES ASSUME Init PROVE Started /\ MailsInv
    OBVIOUS
<1>1. Started
    BY DEF Init, Started
<1>2. Queued = <<>>
    BY DEF Init, Queued
<1>3. MailsInv
    BY <1>2 DEF MailsInv
<1> QED BY <1>1, <1>3

\* The mail that is queued is its client's content, and its client has none yet.
LEMMA NewMail ==
    ASSUME ContentInv, NEW c \in Clients, ProcessMail(c)
    PROVE  LET m == request_parse_data(c) IN
           /\ m \in MailRecords /\ m.from = c /\ m.session = session[c] /\ m.kind = kind[c]
           /\ m.session \in 1 .. session[c]
           /\ m.kind \notin {"big_body", "many"} => m.body = Text(m.kind)
           /\ ~ Served(c) /\ Served(c)' /\ session' = session
           /\ \A i \in DOMAIN Queued : ~ (Queued[i].from = c /\ Queued[i].session = session[c])
<1> DEFINE m == request_parse_data(c)
<1> USE DEF ContentInv, SessionInv, TypeInv
<1>1. m \in MailRecords /\ m.from = c /\ m.session = session[c] /\ m.kind = kind[c]
    BY MailTypes DEF request_parse_data
<1>2. status[c] = "PARSING" /\ fd[c] # "none" /\ req[c].process
    BY DEF ProcessMail, AtEnd, SlotInv
<1>3. Complete(c)
    BY <1>2 DEF StreamInv, Stream, Listening, Commanded, InContent, Answering, request_init
<1>4. client[c] # "away" /\ req[c].data = Content(c)
    BY <1>3 DEF Complete, Asked
<1>5. m.session \in 1 .. session[c]
    <2>1. session[c] # 0 /\ session[c] \in 0 .. MaxSessions
        BY <1>4 DEF Started, ClientTypes
    <2>2. MaxSessions \in Nat
        BY SessionAssumption
    <2> QED BY <1>1, <2>1, <2>2
<1>6. m.kind \notin {"big_body", "many"} => m.body = Text(m.kind)
    <2>1. SubSeq(Content(c), 1, Len(Content(c)) - 2) = Text(kind[c])
        BY ContentShape
    <2> QED BY <1>4, <2>1 DEF request_parse_data
<1>7. ~ Served(c)
    BY <1>2 DEF Served
<1>8. Served(c)' /\ session' = session
    BY <1>2 DEF ProcessMail, StartWriting, clientVars, kernelVars, Served, ConnTypes
<1>9. \A i \in DOMAIN Queued : ~ (Queued[i].from = c /\ Queued[i].session = session[c])
    BY <1>7 DEF MailsInv, MailOK
<1> HIDE DEF m
<1> QED BY <1>1, <1>5, <1>6, <1>7, <1>8, <1>9 DEF m

\* What is known of a mail stays true.
LEMMA MailStays ==
    ASSUME SessionInv, [Next]_vars, NEW m \in MailRecords, MailOK(m)
    PROVE  MailOK(m)'
<1>1. m.from \in Clients
    BY DEF MailRecords
<1> DEFINE d == m.from
<1>2. session[d] \in Nat /\ m.session \in 1 .. session[d]
    BY <1>1 DEF SessionInv, TypeInv, ClientTypes, MailOK
<1>3. \/ session'[d] = session[d] + 1
      \/ session'[d] = session[d] /\ (Served(d) => Served(d)')
    BY <1>1, ServedStep
<1>4. m.kind \notin {"big_body", "many"} => m.body = Text(m.kind)
    BY DEF MailOK
<1>5. m.session = session[d] => Served(d)
    BY DEF MailOK
<1> HIDE DEF d
<1>6. m.session \in 1 .. session'[d]
    BY <1>2, <1>3
<1>7. m.session = session'[d] => Served(d)'
    BY <1>2, <1>3, <1>5
<1> QED BY <1>4, <1>6, <1>7 DEF MailOK, d

\* Every step keeps what is known of the mails.
LEMMA MailsStep ==
    ASSUME ContentInv, [Next]_vars
    PROVE  Started' /\ MailsInv'
<1> USE DEF ContentInv
<1>0. TypeInv
    BY DEF SessionInv
<1>1. Started'
    <2> SUFFICES ASSUME NEW d \in Clients, client'[d] # "away" PROVE session'[d] # 0
        BY DEF Started
    <2>1. session[d] \in Nat
        BY <1>0 DEF TypeInv, ClientTypes
    <2>2. \/ session'[d] = session[d] + 1
          \/ session'[d] = session[d] /\ client[d] # "away"
        BY ServedStep
    <2> QED BY <2>1, <2>2 DEF Started
<1>2. /\ \A i \in DOMAIN Queued : Queued[i] \in MailRecords
      /\ Queued \in Seq(MailRecords) /\ DOMAIN Queued = 1 .. Len(Queued) /\ Len(Queued) \in Nat
    BY <1>0, QueuedTypes
<1>3. CASE Queued' = Queued
    <2>1. ASSUME NEW i \in DOMAIN Queued' PROVE MailOK(Queued[i])'
        <3>1. PICK m \in MailRecords : m = Queued[i]
            BY <1>2, <1>3
        <3>2. MailOK(m)
            BY <1>3, <3>1 DEF MailsInv
        <3>3. MailOK(m)'
            BY <3>2, MailStays
        <3>4. Queued'[i] = m
            BY <1>3, <3>1
        <3> QED BY <3>3, <3>4 DEF MailOK, Served
    <2>2. ASSUME NEW i \in DOMAIN Queued', NEW j \in DOMAIN Queued',
                 Queued'[i].from = Queued'[j].from /\ Queued'[i].session = Queued'[j].session
          PROVE  i = j
        BY <1>3, <2>2 DEF MailsInv
    <2> QED BY <1>1, <2>1, <2>2 DEF MailsInv
<1>4. ASSUME NEW c \in Clients, ProcessMail(c), Queued' = Append(Queued, request_parse_data(c))
      PROVE  MailsInv'
    <2>1. PICK m \in MailRecords : m = request_parse_data(c)
        BY <1>4, NewMail
    <2>2. /\ m.from = c /\ m.session = session[c] /\ m.session \in 1 .. session[c]
          /\ m.kind \notin {"big_body", "many"} => m.body = Text(m.kind)
          /\ Served(c)' /\ session' = session
          /\ \A i \in DOMAIN Queued : ~ (Queued[i].from = c /\ Queued[i].session = session[c])
        BY <1>4, <2>1, NewMail
    <2>3. MailOK(m)'
        BY <2>2 DEF MailOK, Served
    <2>4. /\ DOMAIN Queued' = 1 .. Len(Queued) + 1
          /\ \A i \in 1 .. Len(Queued) : Queued'[i] = Queued[i]
          /\ Queued'[Len(Queued) + 1] = m
        BY <1>2, <1>4, <2>1
    <2>5. \A i \in DOMAIN Queued' : i \in DOMAIN Queued \/ i = Len(Queued) + 1
        BY <1>2, <2>4
    <2>6. ASSUME NEW i \in DOMAIN Queued' PROVE MailOK(Queued[i])'
        <3>1. CASE i = Len(Queued) + 1
            <4>1. Queued'[i] = m
                BY <2>4, <3>1
            <4> QED BY <2>3, <4>1 DEF MailOK, Served
        <3>2. CASE i \in DOMAIN Queued
            <4>1. PICK x \in MailRecords : x = Queued[i]
                BY <1>2, <3>2
            <4>2. MailOK(x)
                BY <3>2, <4>1 DEF MailsInv
            <4>3. MailOK(x)'
                BY <4>2, MailStays
            <4>4. Queued'[i] = x
                BY <1>2, <2>4, <3>2, <4>1
            <4> QED BY <4>3, <4>4 DEF MailOK, Served
        <3> QED BY <2>5, <3>1, <3>2
    <2>7. ASSUME NEW i \in DOMAIN Queued', NEW j \in DOMAIN Queued',
                 Queued'[i].from = Queued'[j].from /\ Queued'[i].session = Queued'[j].session
          PROVE  i = j
        <3>1. CASE i \in DOMAIN Queued /\ j \in DOMAIN Queued
            BY <1>2, <2>4, <2>7, <3>1 DEF MailsInv
        <3>2. CASE i \in DOMAIN Queued /\ j = Len(Queued) + 1
            BY <1>2, <2>2, <2>4, <2>7, <3>2
        <3>3. CASE j \in DOMAIN Queued /\ i = Len(Queued) + 1
            BY <1>2, <2>2, <2>4, <2>7, <3>3
        <3> QED BY <2>5, <3>1, <3>2, <3>3
    <2> QED BY <2>6, <2>7 DEF MailsInv
<1>5. CASE pq_dequeue
    BY <1>0, <1>3, <1>5, DequeueKeeps
<1>6. ASSUME NEW c \in Clients, ProcessMail(c) PROVE MailsInv'
    BY <1>0, <1>3, <1>4, <1>6, EnqueueAppends
<1> QED BY <1>1, <1>3, <1>5, <1>6, QueueUntouched

\* What MailsInv says is what the property says.
LEMMA MailsInvIsIntact == ContentInv => ContentIntact
<1> SUFFICES ASSUME ContentInv PROVE ContentIntact
    OBVIOUS
<1>1. TypeInv /\ MailsInv
    BY DEF ContentInv, SessionInv
<1>2. \A m \in Mails : m.kind \notin {"big_body", "many"} => m.body = Text(m.kind)
    <2>1. Mails = {Queued[i] : i \in DOMAIN Queued}
        BY <1>1, MailsAreQueued
    <2> QED BY <1>1, <2>1 DEF MailsInv, MailOK
<1> QED BY <1>1, <1>2 DEF ContentIntact, MailsInv, Queued

\* The content of every mail that is queued is what its client sent between DATA
\* and the end of data, however TCP cuts the content and however many reads
\* request_parse_commands needs for it, and no session's mail is queued twice.
THEOREM ContentIntactHolds ==
    ASSUME WholeCommands
    PROVE  Spec => []ContentIntact
<1>1. Init => ContentInv
    BY SessionStep, ContentInit DEF ContentInv
<1>2. ContentInv /\ [Next]_vars => ContentInv'
    BY SessionStep, MailsStep DEF ContentInv
<1> QED BY <1>1, <1>2, MailsInvIsIntact, PTL DEF Spec

-----------------------------------------------------------------------------
(* The acknowledgements. *)

\* No mail is ever lost from Queued.
LEMMA QueuedGrows ==
    ASSUME TypeInv, [Next]_vars
    PROVE  \A i \in DOMAIN Queued : i \in DOMAIN Queued' /\ Queued'[i] = Queued[i]
<1>1. Queued \in Seq(MailRecords) /\ DOMAIN Queued = 1 .. Len(Queued) /\ Len(Queued) \in Nat
    BY QueuedTypes
<1>2. ASSUME NEW m \in MailRecords, Queued' = Append(Queued, m)
      PROVE  \A i \in DOMAIN Queued : i \in DOMAIN Queued' /\ Queued'[i] = Queued[i]
    BY <1>1, <1>2
<1>3. Queued' = Queued \/ \E m \in MailRecords : Queued' = Append(Queued, m)
    BY QueueUntouched, DequeueKeeps, EnqueueAppends, MailTypes
<1> QED BY <1>2, <1>3

\* What a reply that is read leaves in the inbox.
LEMMA ReadReply ==
    ASSUME NEW t \in Seq(Replies), NEW s \in Seq(Replies), s # <<>>
    PROVE  /\ ToSet(Append(t, Head(s))) \subseteq ToSet(t) \cup ToSet(s)
           /\ ToSet(Tail(s)) \subseteq ToSet(s)
<1>1. Len(s) \in Nat /\ 1 \in DOMAIN s /\ Head(s) = s[1]
    OBVIOUS
<1>2. ToSet(Tail(s)) \subseteq ToSet(s)
    <2>1. /\ DOMAIN Tail(s) = 1 .. Len(s) - 1
          /\ \A i \in 1 .. Len(s) - 1 : Tail(s)[i] = s[i + 1] /\ i + 1 \in DOMAIN s
        OBVIOUS
    <2> QED BY <2>1 DEF ToSet
<1>3. ToSet(Append(t, Head(s))) \subseteq ToSet(t) \cup ToSet(s)
    <2> DEFINE h == Head(s)
               u == Append(t, h)
    <2>1. h \in Replies /\ h \in ToSet(s)
        BY <1>1 DEF ToSet
    <2> HIDE DEF h
    <2>2. /\ DOMAIN u = 1 .. Len(t) + 1 /\ u[Len(t) + 1] = h
          /\ \A i \in 1 .. Len(t) : u[i] = t[i] /\ i \in DOMAIN t
        BY <2>1
    <2>3. \A i \in DOMAIN u : i \in 1 .. Len(t) \/ i = Len(t) + 1
        BY <2>2
    <2> HIDE DEF u
    <2>4. \A i \in DOMAIN u : u[i] \in ToSet(t) \cup ToSet(s)
        BY <2>1, <2>2, <2>3 DEF ToSet
    <2>5. ToSet(u) \subseteq ToSet(t) \cup ToSet(s)
        BY <2>4 DEF ToSet
    <2> QED BY <2>5 DEF u, h
<1> QED BY <1>2, <1>3

\* An acknowledgement only appears where the mail has been put into the queue.
LEMMA AckedStep ==
    ASSUME SessionInv, [Next]_vars, NEW d \in Clients, Acked(d)', kind'[d] \in {"good", "long"}
    PROVE  /\ session'[d] = session[d] /\ kind'[d] = kind[d]
           /\ Acked(d) \/ ProcessMail(d)
<1> USE DEF SessionInv, TypeInv, ClientTypes, NetTypes, SocketTypes, ConnTypes
<1>1. CASE UNCHANGED vars \/ pq_dequeue \/ events_wait
    BY <1>1 DEF vars, pq_dequeue, events_wait, clientVars, netVars, kernelVars, connVars, Acked
<1>2. ASSUME NEW c \in Clients, c # d,
             Environment(c) \/ accept(c) \/ events_add_event_2(c) \/ Handle(c)
      PROVE  session'[d] = session[d] /\ kind'[d] = kind[d] /\ Acked(d)
    <2>1. Unmoved(d)
        BY <1>2, OthersUnmoved
    <2>2. session'[d] = session[d] /\ told'[d] = told[d]
        BY <1>2 DEF Environment, Connect, Send, Receive, Leave, Forget, Arrive, ArriveFin, accept,
                    events_add_event_2, Handle, HandleClosed, HandleClosedCrash, HandleReadError, HandleRead, Parse,
                    ParseCommand, ParseSkip, ParseData, ParseOverflow, Process, ProcessNothing,
                    ProcessMail, ProcessCrash, StartWriting, HandleWrite, HandleWriteError, HandleWriteKilled, clientVars
    <2> QED BY <2>1, <2>2 DEF Unmoved, Acked
<1>3. CASE Connect(d)
    <2>1. told'[d] = <<>> /\ inbox'[d] = inbox[d] /\ fd'[d] = fd[d] /\ client[d] = "away"
        BY <1>3 DEF Connect, netVars, kernelVars
    <2>2. fd[d] = "none" /\ inbox[d] = <<>>
        BY <2>1 DEF StreamInv, Stream
    <2> QED BY <2>1, <2>2 DEF Acked, ToSet
<1>4. CASE Receive(d)
    <2>1. /\ session'[d] = session[d] /\ kind'[d] = kind[d]
          /\ fd'[d] = fd[d] /\ req'[d] = req[d] /\ status'[d] = status[d]
          /\ told'[d] = Append(told[d], Head(inbox[d])) /\ inbox'[d] = Tail(inbox[d])
          /\ inbox[d] # <<>>
        BY <1>4 DEF Receive, kernelVars, connVars
    <2>2. ToSet(told'[d]) \cup ToSet(inbox'[d]) \subseteq ToSet(told[d]) \cup ToSet(inbox[d])
        BY <2>1, ReadReply
    <2> QED BY <2>1, <2>2 DEF Acked
<1>5. CASE Send(d) \/ Leave(d) \/ (\E n \in 1 .. Len(net[d]) : Arrive(d, n)) \/ ArriveFin(d)
           \/ events_add_event_2(d)
    BY <1>5 DEF Send, Leave, Arrive, ArriveFin, events_add_event_2, clientVars, netVars, kernelVars,
                connVars, Acked
<1>6. CASE Forget(d)
    <2>1. /\ session'[d] = session[d] /\ kind'[d] = kind[d] /\ told'[d] = told[d]
          /\ fd'[d] = "none" /\ inbox'[d] = <<>>
        BY <1>6 DEF Forget, kernelVars
    <2> QED BY <2>1 DEF Acked, ToSet
<1>7. CASE accept(d)
    <2>1. /\ session'[d] = session[d] /\ kind'[d] = kind[d] /\ told'[d] = told[d]
          /\ inbox'[d] = <<"220">> /\ fd[d] = "none" /\ req'[d] = req[d]
        BY <1>7 DEF accept, clientVars, connVars
    <2>2. ~ req'[d].process
        BY <2>1 DEF SlotInv, request_init
    <2>3. "queued" \notin ToSet(inbox'[d])
        BY <2>1 DEF ToSet
    <2> QED BY <2>1, <2>2, <2>3 DEF Acked
<1>8. CASE Handle(d)
    <2>1. session' = session /\ kind' = kind /\ told' = told
        BY <1>8 DEF Handle, HandleClosed, HandleClosedCrash, HandleReadError, HandleRead, Parse, ParseCommand, ParseSkip,
                    ParseData, ParseOverflow, Process, ProcessNothing, ProcessMail, ProcessCrash,
                    StartWriting, HandleWrite, HandleWriteError, HandleWriteKilled, clientVars
    <2>2. CASE HandleClosed(d) \/ HandleReadError(d) \/ ParseOverflow(d) \/ HandleWriteError(d)
        <3>1. fd'[d] = "none" /\ inbox' = inbox
            BY <2>2 DEF HandleClosed, HandleReadError, ParseOverflow, HandleWriteError, HandleWriteKilled, Close,
                        events_del_and_close, netVars
        <3> QED BY <2>1, <3>1 DEF Acked
    <2>3. CASE HandleRead(d) \/ ParseCommand(d) \/ ParseSkip(d) \/ ParseData(d)
        <3>1. status'[d] = "PARSING" /\ inbox' = inbox
            BY <2>3 DEF HandleRead, ParseCommand, ParseSkip, ParseData, AtAtom, netVars
        <3> QED BY <2>1, <3>1 DEF Acked
    <2>4. CASE ProcessNothing(d)
        <3>1. fd' = fd /\ req' = req /\ inbox' = inbox
            BY <2>4 DEF ProcessNothing, StartWriting, netVars, kernelVars
        <3>2. ~ req[d].process
            BY <2>1, <2>4 DEF ProcessNothing
        <3> QED BY <2>1, <3>1, <3>2 DEF Acked
    <2>5. CASE ProcessCrash(d) \/ HandleClosedCrash(d) \/ HandleWriteKilled(d)
        BY <2>1, <2>5 DEF ProcessCrash, HandleClosedCrash, HandleWriteKilled, netVars, kernelVars,
                          connVars, Acked
    <2>6. CASE HandleWrite(d)
        <3>1. fd[d] # "none" /\ status[d] = "WRITING"
            BY <2>6 DEF HandleWrite, SlotInv
        <3>2. Complete(d) => Acked(d)
            BY <3>1 DEF Complete, Acked
        <3>3. ~ Complete(d) => inbox[d] = <<>> /\ (resp[d] = <<>> \/ \E x \in Replies \ {"queued"} : resp[d] = <<x>>)
            BY <3>1 DEF StreamInv, Stream, Listening, Commanded, InContent, Answering, Asked
        <3>4. inbox'[d] = inbox[d] \o resp[d]
            BY <2>6 DEF HandleWrite
        <3>5. ~ Complete(d) => "queued" \notin ToSet(inbox'[d])
            <4>1. CASE inbox[d] = <<>> /\ resp[d] = <<>>
                BY <3>4, <4>1 DEF ToSet
            <4>2. ASSUME NEW x \in Replies \ {"queued"}, inbox[d] = <<>>, resp[d] = <<x>>
                  PROVE  "queued" \notin ToSet(inbox'[d])
                <5>1. inbox'[d] = <<x>>
                    BY <3>4, <4>2
                <5> QED BY <5>1 DEF ToSet
            <4> QED BY <3>3, <4>1, <4>2
        <3>6. fd'[d] = "none" \/ status'[d] = "READING"
            BY <2>6 DEF HandleWrite, Close, events_del_and_close
        <3> QED BY <2>1, <3>2, <3>5, <3>6 DEF Acked
    <2> QED BY <1>8, <2>1, <2>2, <2>3, <2>4, <2>5, <2>6 DEF Handle, Parse, Process
<1> QED BY <1>1, <1>2, <1>3, <1>4, <1>5, <1>6, <1>7, <1>8 DEF Next, Environment

\* The invariants of the second property.
AckedInv == ContentInv /\ AckInv

\* At the start nothing is acknowledged.
LEMMA AckInit == Init => AckInv
<1> SUFFICES ASSUME Init, NEW c \in Clients PROVE ~ Acked(c)
    BY DEF AckInv
<1>1. told[c] = <<>> /\ inbox[c] = <<>> /\ fd[c] = "none"
    BY DEF Init
<1> QED BY <1>1 DEF Acked, ToSet

\* Every step keeps the acknowledgements true, as long as the queue has room.
LEMMA AckStep ==
    ASSUME AckedInv, [Next]_vars, Room
    PROVE  AckInv'
<1>1. ContentInv /\ SessionInv /\ TypeInv /\ AckInv
    BY DEF AckedInv, ContentInv, SessionInv
<1> SUFFICES ASSUME NEW d \in Clients, kind'[d] \in {"good", "long"}, Acked(d)'
             PROVE  Delivered(d)'
    BY DEF AckInv
<1>2. session'[d] = session[d] /\ kind'[d] = kind[d] /\ (Acked(d) \/ ProcessMail(d))
    BY <1>1, AckedStep
<1>3. CASE Acked(d)
    <2>1. PICK i \in DOMAIN Queued :
            Queued[i].from = d /\ Queued[i].session = session[d] /\ Queued[i].body = Text(kind[d])
        BY <1>1, <1>2, <1>3 DEF AckInv, Delivered
    <2>2. i \in DOMAIN Queued' /\ Queued'[i] = Queued[i]
        BY <1>1, QueuedGrows
    <2> QED BY <1>2, <2>1, <2>2 DEF Delivered
<1>4. CASE ProcessMail(d)
    <2>1. PICK m \in MailRecords : m = request_parse_data(d)
        BY <1>1, <1>4, NewMail
    <2>2. m.from = d /\ m.session = session[d] /\ m.kind = kind[d] /\ m.body = Text(m.kind)
        BY <1>1, <1>2, <1>4, <2>1, NewMail
    <2>3. Queued' = Append(Queued, m)
        BY <1>1, <1>4, <2>1, EnqueueAppends DEF Room
    <2>4. Queued \in Seq(MailRecords) /\ Len(Queued) \in Nat
        BY <1>1, QueuedTypes
    <2>5. Len(Queued) + 1 \in DOMAIN Queued' /\ Queued'[Len(Queued) + 1] = m
        BY <2>3, <2>4
    <2> QED BY <1>2, <2>2, <2>5 DEF Delivered
<1> QED BY <1>2, <1>3, <1>4

\* What AckInv says of the replies a client has read is the property.
LEMMA AckedInvIsAcked == AckedInv => AckedIsQueued
<1> SUFFICES ASSUME AckedInv, NEW c \in Clients,
                    "queued" \in ToSet(told[c]), kind[c] \in {"good", "long"}
             PROVE  \E m \in Mails : m.from = c /\ m.session = session[c] /\ m.body = Text(kind[c])
    BY DEF AckedIsQueued
<1>1. TypeInv /\ AckInv
    BY DEF AckedInv, ContentInv, SessionInv
<1>2. Delivered(c)
    BY <1>1 DEF AckInv, Acked
<1>3. Mails = {Queued[i] : i \in DOMAIN Queued}
    BY <1>1, MailsAreQueued
<1> QED BY <1>2, <1>3 DEF Delivered

\* "250 Ok: queued as nada" is true as long as pq_enqueue always finds room: a
\* client that has read it has its mail, with its body, in the queue file or with
\* the mailhandler.  When pq_enqueue refuses a mail, connection.c only prints a
\* line, so the assumption cannot be dropped.
THEOREM AckedIsQueuedHolds ==
    ASSUME WholeCommands
    PROVE  Spec /\ [][Room]_vars => []AckedIsQueued
<1>1. Init => AckedInv
    BY SessionStep, ContentInit, AckInit DEF ContentInv, AckedInv
<1>2. AckedInv /\ [Next]_vars /\ [Room]_vars => AckedInv'
    <2> SUFFICES ASSUME AckedInv, [Next]_vars, [Room]_vars PROVE AckedInv'
        OBVIOUS
    <2>1. ContentInv'
        BY SessionStep, MailsStep DEF AckedInv, ContentInv
    <2>2. CASE Room
        BY <2>1, <2>2, AckStep DEF AckedInv
    <2>3. CASE UNCHANGED vars
        <3>1. Room
            BY <2>3 DEF Room, ProcessMail, StartWriting, AtEnd, vars, connVars, AckedInv, ContentInv,
                        SessionInv, TypeInv, ConnTypes
        <3> QED BY <2>1, <3>1, AckStep DEF AckedInv
    <2> QED BY <2>2, <2>3
<1> QED BY <1>1, <1>2, AckedInvIsAcked, PTL DEF Spec

-----------------------------------------------------------------------------
(* When the queue has room: there are no more sessions than slots. *)

RoomForAll == IsFiniteSet(Clients) /\ Cardinality(Clients) * MaxSessions <= QueueSize

\* A mail that is about to be queued is one of at most as many as there are sessions.
LEMMA RoomForOneMore ==
    ASSUME RoomForAll, ContentInv, NEW c \in Clients, ProcessMail(c)
    PROVE  Len(queue) < QueueSize
<1> DEFINE S == 1 .. Len(Queued)
           T == Clients \X (1 .. MaxSessions)
           f == [i \in S |-> <<Queued[i].from, Queued[i].session>>]
           N == Cardinality(Clients)
<1>0. TypeInv /\ MailsInv /\ Started
    BY DEF ContentInv, SessionInv
<1>1. /\ Len(Queued) \in Nat /\ DOMAIN Queued = S /\ Len(Queued) = Len(taken) + Len(queue)
      /\ \A i \in S : Queued[i] \in MailRecords
    BY <1>0, QueuedTypes
<1>2. \A i \in S : /\ Queued[i].from \in Clients
                   /\ Queued[i].session \in 1 .. MaxSessions
    <2> SUFFICES ASSUME NEW i \in S
                 PROVE  Queued[i].from \in Clients /\ Queued[i].session \in 1 .. MaxSessions
        OBVIOUS
    <2>1. Queued[i].from \in Clients /\ Queued[i].session \in 0 .. MaxSessions
        BY <1>1 DEF MailRecords
    <2>2. Queued[i].session \in 1 .. session[Queued[i].from]
        BY <1>0, <1>1 DEF MailsInv, MailOK
    <2> QED BY <2>1, <2>2
<1>3. f \in Injection(S, T)
    <2>1. f \in [S -> T]
        BY <1>2
    <2>2. \A i, j \in S : f[i] = f[j] => i = j
        BY <1>0, <1>1 DEF MailsInv
    <2> QED BY <2>1, <2>2 DEF Injection, IsInjective
<1>4. <<c, session[c]>> \in T /\ \A i \in S : f[i] # <<c, session[c]>>
    <2>1. session[c] \in 1 .. MaxSessions
        <3>1. session[c] \in 0 .. MaxSessions
            BY <1>0 DEF TypeInv, ClientTypes
        <3>2. request_parse_data(c).session \in 1 .. session[c]
            BY NewMail
        <3> QED BY <3>1, <3>2
    <2>2. \A i \in DOMAIN Queued : ~ (Queued[i].from = c /\ Queued[i].session = session[c])
        BY NewMail
    <2> QED BY <1>1, <2>1, <2>2
<1>5. f \notin Surjection(S, T)
    BY <1>4 DEF Surjection
<1>6. MaxSessions \in Nat /\ QueueSize \in Nat
    BY SessionAssumption
<1>7. IsFiniteSet(T) /\ Cardinality(T) = N * MaxSessions /\ N \in Nat
    <2>1. IsFiniteSet(1 .. MaxSessions) /\ Cardinality(1 .. MaxSessions) = MaxSessions
        BY <1>6, FS_Interval
    <2> QED BY <2>1, FS_Product, FS_CardinalityType DEF RoomForAll
<1>8. Cardinality(S) = Len(Queued)
    BY <1>1, FS_Interval
<1> HIDE DEF f, T, S
<1>9. Cardinality(S) <= Cardinality(T) /\ Cardinality(S) # Cardinality(T)
    BY <1>3, <1>5, <1>7, FS_Injection
<1>10. N * MaxSessions <= QueueSize /\ N * MaxSessions \in Nat
    BY <1>6, <1>7 DEF RoomForAll
<1>11. Len(taken) \in Nat /\ Len(queue) \in Nat
    BY <1>0 DEF TypeInv, QueueTypes
<1> QED BY <1>1, <1>6, <1>7, <1>8, <1>9, <1>10, <1>11

\* With a slot for every session the acknowledgement is always true.
THEOREM AckedIsQueuedWithRoom ==
    ASSUME WholeCommands, RoomForAll
    PROVE  Spec => []AckedIsQueued
<1>1. Init => AckedInv
    BY SessionStep, ContentInit, AckInit DEF ContentInv, AckedInv
<1>2. AckedInv => Room
    BY RoomForOneMore DEF AckedInv, Room
<1>3. AckedInv /\ [Next]_vars => AckedInv'
    BY <1>2, SessionStep, MailsStep, AckStep DEF AckedInv, ContentInv
<1> QED BY <1>1, <1>3, AckedInvIsAcked, PTL DEF Spec
=============================================================================
