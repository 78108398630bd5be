------------------------- MODULE MailHandlerProofs --------------------------
(***************************************************************************)
(* Theorems about MailHandler for mails of any number and kinds, any queue *)
(* size, any number of starts and so of processes that share the queue,    *)
(* and whatever DNS, the web service and signals do.                       *)
(***************************************************************************)
EXTENDS MailHandler, TLAPS

Stages == {"down", "loop", "validate", "decode", "unzip", "parse", "post", "hung"}

-----------------------------------------------------------------------------
(* Types. *)

\* A sequence of mails that have arrived stays one when another mail arrives.
LEMMA SeqGrows ==
    ASSUME NEW n \in Nat, NEW s \in Seq(1 .. n)
    PROVE  s \in Seq(1 .. n + 1)
<1>1. s \in [1 .. Len(s) -> 1 .. n] /\ Len(s) \in Nat
    OBVIOUS
<1>2. s \in [1 .. Len(s) -> 1 .. n + 1]
    BY <1>1
<1> QED BY <1>1, <1>2

\* A sequence over a set is one over a larger set.
LEMMA SeqWider ==
    ASSUME NEW S, NEW T, S \subseteq T, NEW s \in Seq(S)
    PROVE  s \in Seq(T)
OBVIOUS

\* What a post adds, when n mails have arrived.
Posts(n) == [mail : 1 .. n, by : Handlers]

\* The list of what was posted, entry by entry.
LEMMA PostedEntries ==
    ASSUME TypeOK
    PROVE  /\ Len(posted) \in Nat /\ DOMAIN posted = 1 .. Len(posted)
           /\ \A i \in DOMAIN posted : posted[i].mail \in 1 .. arrived
<1>1. posted \in Seq(Posts(arrived))
    BY DEF TypeOK, Posts
<1>2. /\ Len(posted) \in Nat /\ DOMAIN posted = 1 .. Len(posted)
      /\ \A i \in DOMAIN posted : posted[i] \in Posts(arrived)
    BY <1>1
<1> QED BY <1>2 DEF Posts

\* Nothing is running and nothing has arrived at the beginning.
LEMMA TypeInit == Init => TypeOK
BY HandlerAssumption DEF Init, TypeOK, None, Handlers

\* Whatever a process at work on a mail does with the queue left alone: it goes to
\* another stage with the mail, or it lets go of the mail.
LEMMA StageEnds ==
    ASSUME TypeOK, NEW h \in Handlers, pc[h] \notin {"down", "loop"},
           \/ Die(h) \/ NextMessage(h)
           \/ \E there \in {"decode", "unzip", "parse", "post"} : Goto(h, there)
    PROVE  TypeOK'
<1> USE HandlerAssumption
<1>1. UNCHANGED <<queue, arrived, posted, boots>>
    BY DEF Die, NextMessage, Goto
<1>2. h <= boots
    BY DEF TypeOK, Handlers
<1>3. CASE Die(h)
    BY <1>1, <1>3 DEF TypeOK, Die, None
<1>4. CASE NextMessage(h)
    BY <1>1, <1>2, <1>4 DEF TypeOK, NextMessage, None
<1>5. ASSUME NEW there \in {"decode", "unzip", "parse", "post"}, Goto(h, there)
      PROVE  TypeOK'
    <2>1. message[h] # None /\ curl[h] # "none"
        BY DEF TypeOK
    <2> QED BY <1>1, <1>2, <1>5, <2>1 DEF TypeOK, Goto
<1> QED BY <1>3, <1>4, <1>5

\* A post, whether the answer comes or not, whether the service has the mail or not.
LEMMA PostTypes ==
    ASSUME TypeOK, NEW h \in Handlers, pc[h] \in {"post", "hung"},
           Delivered(h) \/ UNCHANGED posted, Posted(h) \/ Waits(h)
    PROVE  TypeOK'
<1> USE HandlerAssumption
<1>1. message[h] \in 1 .. arrived
    <2>1. message[h] \in 0 .. arrived /\ message[h] # 0 /\ arrived \in Nat
        BY DEF TypeOK, None
    <2> QED BY <2>1
<1>2. [mail |-> message[h], by |-> h] \in Posts(arrived) /\ posted \in Seq(Posts(arrived))
    BY <1>1 DEF TypeOK, Posts
<1>3. posted' \in Seq([mail : 1 .. arrived, by : Handlers])
    <2>1. posted' \in Seq(Posts(arrived))
        BY <1>2 DEF Delivered
    <2> QED BY <2>1 DEF Posts
<1>4. UNCHANGED <<queue, arrived, boots>>
    BY DEF Posted, Waits
<1>5. CASE Posted(h)
    BY <1>3, <1>4, <1>5 DEF TypeOK, Posted, None
<1>6. CASE Waits(h)
    BY <1>3, <1>4, <1>6 DEF TypeOK, Waits, None
<1> QED BY <1>5, <1>6

\* Every step keeps the types.
LEMMA TypeStep == TypeOK /\ [Next]_vars => TypeOK'
<1> SUFFICES ASSUME TypeOK, [Next]_vars PROVE TypeOK'
    OBVIOUS
<1> USE HandlerAssumption
<1>1. CASE UNCHANGED vars
    BY <1>1 DEF TypeOK, vars
<1>2. CASE Enqueue
    <2>1. arrived \in Nat /\ arrived' = arrived + 1 /\ arrived' \in 0 .. Len(KindOf)
        BY <1>2 DEF TypeOK, Enqueue
    <2>2. queue \in Seq(1 .. arrived')
        BY <2>1, SeqGrows DEF TypeOK
    <2>3. posted' \in Seq([mail : 1 .. arrived', by : Handlers])
        <3>1. posted \in Seq(Posts(arrived)) /\ Posts(arrived) \subseteq Posts(arrived')
            BY <2>1 DEF TypeOK, Posts
        <3>2. posted \in Seq(Posts(arrived'))
            BY <3>1, SeqWider
        <3> QED BY <1>2, <3>2 DEF Enqueue, Posts
    <2>4. queue' \in Seq(1 .. arrived')
        BY <1>2, <2>1, <2>2 DEF Enqueue
    <2>5. message' \in [Handlers -> 0 .. arrived']
        BY <1>2, <2>1 DEF TypeOK, Enqueue
    <2> QED BY <1>2, <2>1, <2>3, <2>4, <2>5 DEF TypeOK, Enqueue
<1>3. CASE start
    <2>1. boots' \in 0 .. MaxBoots /\ boots + 1 \in Handlers /\ boots \in Nat
        BY <1>3 DEF TypeOK, start, Handlers
    <2>2. pc[boots + 1] = "down"
        BY <2>1 DEF TypeOK
    <2>3. \A h \in Handlers : h > boots' => h > boots /\ h # boots + 1
        BY <1>3, <2>1 DEF start, Handlers
    <2> QED BY <1>3, <2>1, <2>2, <2>3 DEF TypeOK, start
<1>4. ASSUME NEW h \in Handlers, Kill(h) \/ pq_wait(h) \/ Work(h) \/ PostEnds(h)
      PROVE  TypeOK'
    <2>1. CASE Kill(h)
        BY <2>1 DEF TypeOK, Kill, Die, None
    <2>2. CASE pq_wait(h)
        BY <1>1, <2>2 DEF pq_wait
    <2>3. CASE pq_dequeue(h)
        <3>1. Head(queue) \in 1 .. arrived /\ Tail(queue) \in Seq(1 .. arrived)
            BY <2>3 DEF TypeOK, pq_dequeue
        <3>2. h <= boots
            BY <2>3 DEF TypeOK, pq_dequeue, Handlers
        <3> QED BY <2>3, <3>1, <3>2 DEF TypeOK, pq_dequeue, None
    <2>4. CASE validate_dkim(h)
        BY <2>4, StageEnds DEF validate_dkim
    <2>5. CASE decode_content(h)
        BY <2>5, StageEnds DEF decode_content
    <2>6. CASE unzip(h)
        BY <2>6, StageEnds DEF unzip
    <2>7. CASE parse_xml(h)
        BY <2>7, StageEnds DEF parse_xml
    <2>8. CASE post_data(h) /\ Die(h)
        BY <2>8, StageEnds DEF post_data, PostFirst, PostAgain
    <2>9. CASE post_data(h) /\ ~ Die(h)
        BY <2>9, PostTypes DEF post_data, PostFirst, PostAgain
    <2>10. CASE PostEnds(h)
        BY <2>10, PostTypes DEF PostEnds
    <2> QED BY <1>4, <2>1, <2>2, <2>3, <2>4, <2>5, <2>6, <2>7, <2>8, <2>9, <2>10 DEF Work
<1> QED BY <1>1, <1>2, <1>3, <1>4 DEF Next

-----------------------------------------------------------------------------
(* What each stage lets through. *)

\* The stages a mail has passed exclude the kinds they stop: the signature is
\* checked before the content is decoded, and every later stage only narrows.
StageInv ==
    \A h \in Handlers :
        /\ pc[h] \in {"decode", "unzip", "parse", "post"} => Kind(h) # "unsigned"
        /\ pc[h] \in {"unzip", "parse", "post"} =>
               Kind(h) \notin {"no_encoding", "other_encoding"}
        /\ pc[h] \in {"parse", "post"} => Kind(h) # "not_zip"

\* No mail has passed any stage and none is posted.
LEMMA SignedInit == Init => StageInv /\ OnlySignedPosted
BY DEF Init, StageInv, OnlySignedPosted

\* A mail keeps its kind while it is in hand, so what a stage excluded stays
\* excluded until the post, whatever the other processes do.
LEMMA StageStep == TypeOK /\ StageInv /\ [Next]_vars => StageInv'
<1> SUFFICES ASSUME TypeOK, StageInv, [Next]_vars PROVE StageInv'
    OBVIOUS
<1>1. CASE UNCHANGED <<pc, message>>
    BY <1>1 DEF StageInv, Kind
<1>2. CASE start
    <2>1. \A h \in Handlers : pc'[h] \in {pc[h], "loop"} /\ message'[h] = message[h]
        BY <1>2 DEF start, TypeOK
    <2> QED BY <2>1 DEF StageInv, Kind
<1>3. ASSUME NEW h \in Handlers, Kill(h) \/ Work(h) \/ PostEnds(h) PROVE StageInv'
    <2> DEFINE Passed(k, stage) ==
            /\ stage \in {"decode", "unzip", "parse", "post"} => k # "unsigned"
            /\ stage \in {"unzip", "parse", "post"} =>
                   k \notin {"no_encoding", "other_encoding"}
            /\ stage \in {"parse", "post"} => k # "not_zip"
    <2>1. \A g \in Handlers \ {h} : pc'[g] = pc[g] /\ message'[g] = message[g]
        BY <1>3 DEF TypeOK, Kill, Die, Work, PostEnds, Posted, pq_dequeue, validate_dkim,
            decode_content, unzip, parse_xml, post_data, PostFirst, PostAgain, Waits, Goto,
            NextMessage
    <2>2. CASE pc'[h] \in {"down", "loop", "validate", "hung"}
        BY <2>1, <2>2 DEF StageInv, Kind
    <2>3. ASSUME NEW there \in {"decode", "unzip", "parse", "post"}, Goto(h, there),
                 Passed(Kind(h), there)
          PROVE  StageInv'
        <3>1. pc'[h] = there /\ message'[h] = message[h]
            BY <2>3 DEF Goto, TypeOK
        <3> QED BY <2>1, <2>3, <3>1 DEF StageInv, Kind
    <2>4. CASE validate_dkim(h)
        <3>1. CASE NextMessage(h)
            BY <2>2, <3>1 DEF NextMessage, TypeOK
        <3>2. CASE dkim_validate(h) /\ Goto(h, "decode")
            BY <2>3, <3>2 DEF dkim_validate
        <3> QED BY <2>4, <3>1, <3>2 DEF validate_dkim
    <2>5. CASE decode_content(h)
        <3>1. CASE NextMessage(h) \/ Die(h)
            BY <2>2, <3>1 DEF NextMessage, Die, TypeOK
        <3>2. CASE Goto(h, "unzip") /\ Kind(h) \notin {"no_encoding", "other_encoding"}
            BY <2>3, <2>5, <3>2 DEF decode_content, StageInv
        <3> QED BY <2>5, <3>1, <3>2 DEF decode_content
    <2>6. CASE unzip(h)
        <3>1. CASE NextMessage(h) \/ Die(h)
            BY <2>2, <3>1 DEF NextMessage, Die, TypeOK
        <3>2. CASE Goto(h, "parse") /\ Kind(h) # "not_zip"
            BY <2>3, <2>6, <3>2 DEF unzip, StageInv
        <3> QED BY <2>6, <3>1, <3>2 DEF unzip
    <2>7. CASE parse_xml(h)
        <3>1. CASE NextMessage(h)
            BY <2>2, <3>1 DEF NextMessage, TypeOK
        <3>2. CASE Goto(h, "post")
            BY <2>3, <2>7, <3>2 DEF parse_xml, StageInv
        <3> QED BY <2>7, <3>1, <3>2 DEF parse_xml
    <2>8. CASE Kill(h) \/ pq_dequeue(h) \/ post_data(h) \/ PostEnds(h)
        BY <2>2, <2>8
        DEF TypeOK, Kill, Die, pq_dequeue, post_data, PostFirst, PostAgain, PostEnds, Posted,
            Waits
    <2> QED BY <1>3, <2>4, <2>5, <2>6, <2>7, <2>8 DEF Work
<1> QED BY <1>1, <1>2, <1>3 DEF Next, Enqueue, pq_wait, vars

\* What a process does to the mails: a post adds the mail in hand and leaves the
\* process without it or without an answer; every other step of a process leaves
\* what was posted alone.
LEMMA HandlerStep ==
    ASSUME TypeOK, NEW h \in Handlers, Kill(h) \/ Work(h) \/ PostEnds(h)
    PROVE  /\ UNCHANGED arrived
           /\ \A g \in Handlers \ {h} : pc'[g] = pc[g] /\ message'[g] = message[g]
           /\ \/ pq_dequeue(h)
              \/ /\ UNCHANGED queue
                 /\ message'[h] \in {None, message[h]}
                 /\ pc[h] = "hung" => message'[h] = None
                 /\ \/ UNCHANGED posted
                    \/ /\ pc[h] = "post" /\ Delivered(h)
                       /\ message'[h] = None \/ pc'[h] = "hung"
<1>1. CASE pq_dequeue(h)
    BY <1>1 DEF pq_dequeue, TypeOK
<1>2. CASE Kill(h) \/ PostEnds(h)
    BY <1>2 DEF Kill, Die, PostEnds, Posted, TypeOK
<1>3. CASE validate_dkim(h) \/ decode_content(h) \/ unzip(h) \/ parse_xml(h)
    <2>1. pc[h] # "hung"
        BY <1>3 DEF validate_dkim, decode_content, unzip, parse_xml
    <2>2. Die(h) \/ NextMessage(h) \/ \E there \in Stages : Goto(h, there)
        BY <1>3 DEF validate_dkim, decode_content, unzip, parse_xml, Stages
    <2> QED BY <2>1, <2>2 DEF Die, NextMessage, Goto, TypeOK
<1>4. CASE post_data(h)
    BY <1>4 DEF post_data, PostFirst, PostAgain, Die, Posted, Waits, TypeOK
<1> QED BY <1>1, <1>2, <1>3, <1>4 DEF Work

\* A post adds a mail that has passed every stage.
LEMMA SignedStep ==
    TypeOK /\ StageInv /\ OnlySignedPosted /\ [Next]_vars => OnlySignedPosted'
<1> SUFFICES ASSUME TypeOK, StageInv, OnlySignedPosted, [Next]_vars PROVE OnlySignedPosted'
    OBVIOUS
<1>1. CASE UNCHANGED posted
    BY <1>1 DEF OnlySignedPosted
<1>2. ASSUME NEW h \in Handlers, pc[h] = "post", Delivered(h) PROVE OnlySignedPosted'
    <2>1. KindOf[message[h]] \notin {"unsigned", "no_encoding", "other_encoding", "not_zip"}
        BY <1>2 DEF StageInv, Kind
    <2>2. \A i \in DOMAIN posted' :
             \/ i \in DOMAIN posted /\ posted'[i] = posted[i]
             \/ posted'[i].mail = message[h]
        BY <1>2 DEF TypeOK, Delivered
    <2> QED BY <2>1, <2>2 DEF OnlySignedPosted
<1>3. ASSUME NEW h \in Handlers, Kill(h) \/ Work(h) \/ PostEnds(h) PROVE OnlySignedPosted'
    BY <1>1, <1>2, <1>3, HandlerStep DEF pq_dequeue
<1> QED BY <1>1, <1>3 DEF Next, Enqueue, start, pq_wait, vars

-----------------------------------------------------------------------------
(* Where a mail is, and the order of the posts. *)

\* A mail is in one place: the queue is in the order of arrival and younger than
\* everything that has left it, no two processes have the same mail, and what is in
\* hand is not posted yet, unless its process waits for the answer.
PlaceInv ==
    /\ \A i, j \in DOMAIN queue : i < j => queue[i] < queue[j]
    /\ \A i \in DOMAIN queue, h \in Handlers : message[h] < queue[i]
    /\ \A i \in DOMAIN queue, j \in DOMAIN posted : posted[j].mail < queue[i]
    /\ \A g, h \in Handlers : g # h /\ message[g] = message[h] => message[h] = None
    /\ \A i \in DOMAIN posted, h \in Handlers : posted[i].mail = message[h] => pc[h] = "hung"

\* A process that is not waiting for an answer has a younger mail in hand than all
\* it has posted.
TurnInv ==
    \A i \in DOMAIN posted, h \in Handlers :
        posted[i].by = h /\ message[h] # None /\ pc[h] # "hung" => posted[i].mail < message[h]

OrderInv == PlaceInv /\ TurnInv /\ InOrderAtMostOnce

\* At the start everything is empty.
LEMMA OrderInit == Init => OrderInv
BY DEF Init, OrderInv, PlaceInv, TurnInv, InOrderAtMostOnce

\* A mail that arrives is younger than all before it.
LEMMA OrderEnqueue == ASSUME TypeOK, OrderInv, Enqueue PROVE OrderInv'
<1> USE HandlerAssumption
<1>1. UNCHANGED <<posted, message, pc>> /\ queue' = Append(queue, arrived + 1)
    BY DEF Enqueue
<1>2. /\ arrived \in Nat
      /\ \A h \in Handlers : message[h] \in Nat /\ message[h] <= arrived
      /\ \A i \in DOMAIN posted : posted[i].mail \in Nat /\ posted[i].mail <= arrived
      /\ \A i \in DOMAIN queue : queue[i] \in Nat /\ queue[i] <= arrived
    BY PostedEntries DEF TypeOK
<1>3. /\ Len(queue) \in Nat /\ DOMAIN queue = 1 .. Len(queue)
      /\ DOMAIN queue' = 1 .. Len(queue) + 1
      /\ \A i \in DOMAIN queue : queue'[i] = queue[i]
      /\ queue'[Len(queue) + 1] = arrived + 1
    BY <1>1 DEF TypeOK
<1>4. \A i, j \in DOMAIN queue' : i < j => queue'[i] < queue'[j]
    BY <1>2, <1>3 DEF OrderInv, PlaceInv
<1>5. \A j \in DOMAIN queue' :
         \/ j \in DOMAIN queue /\ queue'[j] = queue[j]
         \/ queue'[j] = arrived + 1
    BY <1>3
<1>6. \A i \in DOMAIN queue', h \in Handlers : message[h] < queue'[i]
    BY <1>2, <1>5 DEF OrderInv, PlaceInv
<1>7. \A i \in DOMAIN queue', j \in DOMAIN posted : posted[j].mail < queue'[i]
    BY <1>2, <1>5 DEF OrderInv, PlaceInv
<1>8. PlaceInv'
    BY <1>1, <1>4, <1>6, <1>7 DEF OrderInv, PlaceInv
<1> QED BY <1>1, <1>8 DEF OrderInv, TurnInv, InOrderAtMostOnce

\* The head of the queue is younger than what is in any hand or posted and older
\* than the rest of the queue.
LEMMA OrderDequeue ==
    ASSUME TypeOK, OrderInv, NEW h \in Handlers, pq_dequeue(h) PROVE OrderInv'
<1>1. /\ queue # <<>> /\ UNCHANGED posted /\ pc[h] = "loop"
      /\ message' = [message EXCEPT ![h] = Head(queue)] /\ queue' = Tail(queue)
      /\ pc' = [pc EXCEPT ![h] = "validate"]
    BY DEF pq_dequeue
<1>2. /\ Len(queue) \in Nat \ {0} /\ DOMAIN queue = 1 .. Len(queue)
      /\ DOMAIN queue' = 1 .. Len(queue) - 1
      /\ \A j \in DOMAIN queue' : queue'[j] = queue[j + 1]
      /\ 1 \in DOMAIN queue /\ message'[h] = queue[1]
    BY <1>1 DEF TypeOK
<1>3. \A j \in DOMAIN queue' : j + 1 \in DOMAIN queue /\ 1 < j + 1 /\ j \in Nat
    BY <1>2
<1>4. \A g \in Handlers \ {h} : message'[g] = message[g] /\ pc'[g] = pc[g]
    BY <1>1 DEF TypeOK
<1>5. /\ \A g \in Handlers : message[g] \in Nat
      /\ \A i \in DOMAIN queue : queue[i] \in Nat
      /\ \A i \in DOMAIN posted : posted[i].mail \in Nat
    BY HandlerAssumption, PostedEntries DEF TypeOK
<1>6. \A i, j \in DOMAIN queue' : i < j => queue'[i] < queue'[j]
    BY <1>2, <1>3 DEF OrderInv, PlaceInv
<1>7. \A i \in DOMAIN queue', g \in Handlers : message'[g] < queue'[i]
    BY <1>2, <1>3, <1>4 DEF OrderInv, PlaceInv
<1>8. \A i \in DOMAIN queue', j \in DOMAIN posted : posted[j].mail < queue'[i]
    BY <1>2, <1>3 DEF OrderInv, PlaceInv
<1>9. \A g \in Handlers : message[g] < message'[h]
    BY <1>2 DEF OrderInv, PlaceInv
<1>10. \A i \in DOMAIN posted : posted[i].mail < message'[h]
    BY <1>2 DEF OrderInv, PlaceInv
<1>11. \A g, k \in Handlers : g # k /\ message'[g] = message'[k] => message'[k] = None
    <2> SUFFICES ASSUME NEW g \in Handlers, NEW k \in Handlers, g # k,
                        message'[g] = message'[k]
                 PROVE  message'[k] = None
        OBVIOUS
    <2>1. g # h /\ k # h
        BY <1>2, <1>4, <1>5, <1>9
    <2> QED BY <1>4, <2>1 DEF OrderInv, PlaceInv
<1>12. \A i \in DOMAIN posted, g \in Handlers :
          posted[i].mail = message'[g] => pc'[g] = "hung"
    <2> SUFFICES ASSUME NEW i \in DOMAIN posted, NEW g \in Handlers,
                        posted[i].mail = message'[g]
                 PROVE  pc'[g] = "hung"
        OBVIOUS
    <2>1. g # h
        BY <1>2, <1>5, <1>10
    <2> QED BY <1>4, <2>1 DEF OrderInv, PlaceInv
<1>13. PlaceInv'
    BY <1>1, <1>6, <1>7, <1>8, <1>11, <1>12 DEF PlaceInv
<1>14. TurnInv'
    BY <1>1, <1>4, <1>10 DEF OrderInv, TurnInv
<1> QED BY <1>1, <1>13, <1>14 DEF OrderInv, InOrderAtMostOnce

\* Letting go of a mail, or taking it to the next stage, disturbs nothing.
LEMMA OrderOther ==
    ASSUME TypeOK, OrderInv, UNCHANGED <<queue, posted>>,
           \A g \in Handlers : \/ message'[g] = None
                               \/ message'[g] = message[g] /\ (pc[g] = "hung" => pc'[g] = "hung")
    PROVE  OrderInv'
<1>1. /\ \A i \in DOMAIN queue : queue[i] \in Nat /\ queue[i] > 0
      /\ \A i \in DOMAIN posted : posted[i].mail \in Nat /\ posted[i].mail > 0
    BY HandlerAssumption, PostedEntries DEF TypeOK
<1>2. PlaceInv'
    BY <1>1 DEF OrderInv, PlaceInv, None
<1>3. TurnInv'
    BY DEF OrderInv, TurnInv
<1> QED BY <1>2, <1>3 DEF OrderInv, InOrderAtMostOnce

\* A post adds a mail that nobody has posted, younger than what its process has
\* posted; the process has no mail afterwards, or waits for the answer.
LEMMA OrderPost ==
    ASSUME TypeOK, OrderInv, NEW h \in Handlers, pc[h] = "post", Delivered(h),
           UNCHANGED queue, message'[h] \in {None, message[h]},
           message'[h] = None \/ pc'[h] = "hung",
           \A g \in Handlers \ {h} : pc'[g] = pc[g] /\ message'[g] = message[g]
    PROVE  OrderInv'
<1> DEFINE new == [mail |-> message[h], by |-> h]
           m == message[h]
<1>1. m # None /\ m \in Nat /\ m > 0
    BY HandlerAssumption DEF TypeOK, None
<1>2. /\ Len(posted) \in Nat /\ DOMAIN posted = 1 .. Len(posted)
      /\ DOMAIN posted' = 1 .. Len(posted) + 1
      /\ \A i \in DOMAIN posted : posted'[i] = posted[i]
      /\ posted'[Len(posted) + 1] = new
    BY DEF TypeOK, Delivered
<1>3. new.mail = m /\ new.by = h
    OBVIOUS
<1>4. \A i \in DOMAIN posted' :
         \/ i \in DOMAIN posted /\ posted'[i] = posted[i]
         \/ i = Len(posted) + 1 /\ posted'[i].mail = m /\ posted'[i].by = h
    BY <1>2, <1>3
<1> HIDE DEF new
<1>5. \A i \in DOMAIN posted : posted[i].mail # m /\ (posted[i].by = h => posted[i].mail < m)
    BY <1>1 DEF OrderInv, PlaceInv, TurnInv
<1>6. \A g \in Handlers : message'[g] \in {None, message[g]}
    OBVIOUS
<1>7. /\ \A i \in DOMAIN queue : queue[i] \in Nat /\ queue[i] > 0
      /\ \A i \in DOMAIN posted : posted[i].mail \in Nat /\ posted[i].mail > 0
    BY HandlerAssumption, PostedEntries DEF TypeOK
<1>8. \A i \in DOMAIN queue, j \in DOMAIN posted' : posted'[j].mail < queue[i]
    BY <1>4 DEF OrderInv, PlaceInv
<1>9. \A i \in DOMAIN queue, g \in Handlers : message'[g] < queue[i]
    BY <1>6, <1>7 DEF OrderInv, PlaceInv, None
<1>10. \A g, k \in Handlers : g # k /\ message'[g] = message'[k] => message'[k] = None
    BY <1>6 DEF OrderInv, PlaceInv
<1>11. \A i \in DOMAIN posted', g \in Handlers :
          posted'[i].mail = message'[g] => pc'[g] = "hung"
    <2> SUFFICES ASSUME NEW i \in DOMAIN posted', NEW g \in Handlers,
                        posted'[i].mail = message'[g]
                 PROVE  pc'[g] = "hung"
        OBVIOUS
    <2>1. message'[g] # None
        BY <1>1, <1>4, <1>7 DEF None
    <2>2. CASE g = h
        BY <2>1, <2>2
    <2>3. CASE g # h
        <3>1. message'[g] = message[g] /\ pc'[g] = pc[g]
            BY <2>3
        <3>2. message[g] # m
            BY <1>1, <2>3 DEF OrderInv, PlaceInv
        <3>3. i \in DOMAIN posted /\ posted'[i] = posted[i]
            BY <1>4, <3>1, <3>2
        <3> QED BY <3>1, <3>3 DEF OrderInv, PlaceInv
    <2> QED BY <2>2, <2>3
<1>12. PlaceInv'
    BY <1>8, <1>9, <1>10, <1>11 DEF OrderInv, PlaceInv
<1>13. TurnInv'
    <2> SUFFICES ASSUME NEW i \in DOMAIN posted', NEW g \in Handlers, posted'[i].by = g,
                        message'[g] # None, pc'[g] # "hung"
                 PROVE  posted'[i].mail < message'[g]
        BY DEF TurnInv
    <2>1. g # h
        OBVIOUS
    <2>2. i \in DOMAIN posted /\ posted'[i] = posted[i]
        BY <1>4, <2>1
    <2> QED BY <2>1, <2>2 DEF OrderInv, TurnInv
<1>14. InOrderAtMostOnce'
    <2> SUFFICES ASSUME NEW i \in DOMAIN posted', NEW j \in DOMAIN posted', i < j
                 PROVE  /\ posted'[i].mail # posted'[j].mail
                        /\ posted'[i].by = posted'[j].by => posted'[i].mail < posted'[j].mail
        BY DEF InOrderAtMostOnce
    <2>1. i \in DOMAIN posted
        BY <1>2
    <2>2. posted'[i] = posted[i]
        BY <1>2, <2>1
    <2>3. CASE j \in DOMAIN posted
        <3>1. posted'[j] = posted[j]
            BY <1>2, <2>3
        <3> QED BY <2>1, <2>2, <2>3, <3>1 DEF OrderInv, InOrderAtMostOnce
    <2>4. CASE j \notin DOMAIN posted
        <3>1. posted'[j].mail = m /\ posted'[j].by = h
            BY <1>4, <2>4
        <3> QED BY <1>5, <2>1, <2>2, <3>1
    <2> QED BY <2>3, <2>4
<1> QED BY <1>12, <1>13, <1>14 DEF OrderInv

\* Every step keeps every mail in one place and the posts in order.
LEMMA OrderStep == TypeOK /\ OrderInv /\ [Next]_vars => OrderInv'
<1> SUFFICES ASSUME TypeOK, OrderInv, [Next]_vars PROVE OrderInv'
    OBVIOUS
<1>1. CASE Enqueue
    BY <1>1, OrderEnqueue
<1>2. CASE start
    <2>1. UNCHANGED <<queue, posted, message>> /\ pc' = [pc EXCEPT ![boots + 1] = "loop"]
        BY <1>2 DEF start
    <2>2. boots + 1 > boots
        BY HandlerAssumption DEF TypeOK
    <2>3. \A g \in Handlers : pc[g] = "hung" => pc'[g] = "hung"
        BY <2>1, <2>2 DEF TypeOK
    <2> QED BY <2>1, <2>3, OrderOther
<1>3. CASE UNCHANGED vars
    BY <1>3, OrderOther DEF vars
<1>4. ASSUME NEW h \in Handlers, Kill(h) \/ Work(h) \/ PostEnds(h) PROVE OrderInv'
    <2>1. CASE pq_dequeue(h)
        BY <2>1, OrderDequeue
    <2>2. CASE ~ pq_dequeue(h) /\ posted' # posted
        BY <1>4, <2>2, HandlerStep, OrderPost
    <2>3. CASE ~ pq_dequeue(h) /\ UNCHANGED posted
        <3>1. /\ UNCHANGED queue
              /\ \A g \in Handlers \ {h} : pc'[g] = pc[g] /\ message'[g] = message[g]
              /\ message'[h] \in {None, message[h]}
              /\ pc[h] = "hung" => message'[h] = None
            BY <1>4, <2>3, HandlerStep
        <3> QED BY <2>3, <3>1, OrderOther
    <2> QED BY <2>1, <2>2, <2>3
<1> QED BY <1>1, <1>2, <1>3, <1>4 DEF Next, pq_wait

-----------------------------------------------------------------------------
(* Theorems. *)

\* The queue, the stages and the mails in hand keep their types through every fault,
\* kill, restart and post without an answer.
THEOREM TypeCorrect == Spec => []TypeOK
BY TypeInit, TypeStep, PTL DEF Spec

\* Nothing reaches the web service that did not pass validate_dkim, whichever of
\* the processes posts it and whatever unzip and parse_xml read beyond the end.
THEOREM OnlySignedPostedHolds == Spec => []OnlySignedPosted
BY TypeInit, TypeStep, SignedInit, StageStep, SignedStep, PTL DEF Spec

\* The web service receives a mail at most once, and from each process in the order
\* of arrival, for any number of processes that restarts have left on the queue.
THEOREM InOrderAtMostOnceHolds == Spec => []InOrderAtMostOnce
<1>1. OrderInv => InOrderAtMostOnce
    BY DEF OrderInv
<1> QED BY <1>1, TypeInit, TypeStep, OrderInit, OrderStep, PTL DEF Spec
=============================================================================
