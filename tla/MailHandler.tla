----------------------------- MODULE MailHandler -----------------------------
(***************************************************************************)
(* dmarc-mailhandler, the process behind a queue file: take a mail out,    *)
(* validate its DKIM signature with a key from DNS, decode, unzip, convert *)
(* the XML to JSON and post it to the web service.                         *)
(*                                                                         *)
(* Every start of the server forks one such process for the queue file,    *)
(* and a stop ends none of them: the init script stops what runs as the    *)
(* server's executable.  So several work on the same file, process h being *)
(* the one of the h-th start.                                              *)
(*                                                                         *)
(* A mail is its number in the order of arrival; KindOf says what each     *)
(* stage makes of it.  A process dies from a fault or a signal and does    *)
(* not come back.                                                          *)
(***************************************************************************)
EXTENDS Naturals, Sequences, SequencesExt

CONSTANTS
    KindOf,       \* KindOf[n]: the kind of the n-th mail, see Kinds
    QueueSize,    \* capacity of the queue file
    DnsMayFail,   \* TRUE: DNS lookups may fail
    WebMayFail,   \* TRUE: the web service may be down
    WebMayHang,   \* TRUE: the web service may take a post and not answer
    MayBeKilled,  \* TRUE: a signal may end a process at any point
    HeapIsZero,   \* TRUE: malloc happens to return zeroed memory
    MaxBoots      \* bound: how often the server is started

(*   report          a signed report                                       *)
(*   no_key_type     a signed report, but the key's DNS record has no k=   *)
(*   unsigned        no DKIM header, another key type, a wrong signature   *)
(*   no_encoding     signed, without Content-Transfer-Encoding             *)
(*   other_encoding  signed, not base64                                    *)
(*   short_zip       signed, shorter than a zip header or than it says     *)
(*   not_zip         signed, not a zip file with deflate                   *)
(*   not_xml         signed and zipped, but no XML document                *)
(*   other_xml       signed and zipped XML, but no report                  *)
Kinds == {"report", "no_key_type", "unsigned", "no_encoding", "other_encoding",
          "short_zip", "not_zip", "not_xml", "other_xml"}

ASSUME HandlerAssumption ==
    /\ KindOf \in Seq(Kinds)
    /\ QueueSize \in Nat \ {0}
    /\ MaxBoots \in Nat \ {0}
    /\ {DnsMayFail, WebMayFail, WebMayHang, MayBeKilled, HeapIsZero} \subseteq BOOLEAN

None == 0  \* no message in hand

Handlers == 1 .. MaxBoots

VARIABLES
    queue,     \* the queue file
    arrived,   \* how many mails have arrived
    pc,        \* pc[h]: "down", "loop", "validate", "decode", "unzip", "parse",
               \* "post", or "hung": inside curl_easy_perform, without an answer
    message,   \* message[h]: the mail in hand
    curl,      \* curl[h]: the handle: "none", "live", "freed"
    posted,    \* what the web service has received, in order: which mail, by whom
    boots      \* how often the server has been started

vars == <<queue, arrived, pc, message, curl, posted, boots>>

Kind(h) == KindOf[message[h]]

Init ==
    /\ queue = <<>> /\ arrived = 0
    /\ pc = [h \in Handlers |-> "down"]
    /\ message = [h \in Handlers |-> None]
    /\ curl = [h \in Handlers |-> "none"]
    /\ posted = <<>>
    /\ boots = 0

-----------------------------------------------------------------------------
(* Around the processes (external). *)

Enqueue ==
    /\ arrived < Len(KindOf) /\ Len(queue) < QueueSize
    /\ arrived' = arrived + 1
    /\ queue' = Append(queue, arrived + 1)
    /\ UNCHANGED <<pc, message, curl, posted, boots>>

\* A fault or a signal ends the process; nobody starts it again.
Die(h) ==
    /\ pc' = [pc EXCEPT ![h] = "down"]
    /\ message' = [message EXCEPT ![h] = None]
    /\ curl' = [curl EXCEPT ![h] = "none"]
    /\ UNCHANGED <<queue, arrived, posted, boots>>

Kill(h) == MayBeKilled /\ pc[h] # "down" /\ Die(h)

-----------------------------------------------------------------------------
(* main *)

Goto(h, there) ==
    /\ pc' = [pc EXCEPT ![h] = there]
    /\ UNCHANGED <<queue, arrived, message, curl, posted, boots>>

\* Mutant: the message is freed and still in hand.
NextMessage_kept(h) == Goto(h, "loop")

\* free (message), and around the loop again.
NextMessage(h) ==
    /\ pc' = [pc EXCEPT ![h] = "loop"]
    /\ message' = [message EXCEPT ![h] = None]
    /\ UNCHANGED <<queue, arrived, curl, posted, boots>>

\* The next start of the server: fork, pq_init and curl_easy_init.
start ==
    /\ boots < MaxBoots
    /\ boots' = boots + 1
    /\ pc' = [pc EXCEPT ![boots + 1] = "loop"]
    /\ curl' = [curl EXCEPT ![boots + 1] = "live"]
    /\ UNCHANGED <<queue, arrived, message, posted>>

pq_wait(h) == pc[h] = "loop" /\ queue = <<>> /\ UNCHANGED vars

\* Mutant: the mail is copied and stays in the queue.
pq_dequeue_peeks(h) ==
    /\ pc[h] = "loop" /\ queue # <<>>
    /\ message' = [message EXCEPT ![h] = Head(queue)]
    /\ pc' = [pc EXCEPT ![h] = "validate"]
    /\ UNCHANGED <<queue, arrived, curl, posted, boots>>

\* One step, as PersistedQueue shows while the semaphore is not reset under it.
pq_dequeue(h) ==
    /\ pc[h] = "loop" /\ queue # <<>>
    /\ message' = [message EXCEPT ![h] = Head(queue)]
    /\ queue' = Tail(queue)
    /\ pc' = [pc EXCEPT ![h] = "validate"]
    /\ UNCHANGED <<arrived, curl, posted, boots>>

\* The verdict of firm-dkim on headers, body, signature and key.
dkim_validate(h) == Kind(h) # "unsigned"

\* Mutant: the result of the validation is ignored.
validate_dkim_ignored(h) == pc[h] = "validate" /\ Goto(h, "decode")

\* Mutant: a mail whose key could not be looked up goes back to the queue.
validate_dkim_requeues(h) ==
    /\ pc[h] = "validate"
    /\ \/ dkim_validate(h) /\ Goto(h, "decode")
       \/ ~ dkim_validate(h) /\ NextMessage(h)
       \/ /\ DnsMayFail /\ Len(queue) < QueueSize
          /\ pc' = [pc EXCEPT ![h] = "loop"]
          /\ queue' = Append(queue, message[h])
          /\ message' = [message EXCEPT ![h] = None]
          /\ UNCHANGED <<arrived, curl, posted, boots>>

\* No header, no key from DNS, or a wrong signature: the mail is dropped.  Without
\* a k= in the record, the key type is whatever the allocation held before.
validate_dkim(h) ==
    /\ pc[h] = "validate"
    /\ \/ dkim_validate(h) /\ Goto(h, "decode")
       \/ (DnsMayFail \/ ~ dkim_validate(h) \/ Kind(h) = "no_key_type") /\ NextMessage(h)

\* Without the header, strcmp runs on NULL.
decode_content(h) ==
    /\ pc[h] = "decode"
    /\ CASE Kind(h) = "no_encoding" -> Die(h)
         [] Kind(h) = "other_encoding" -> NextMessage(h)
         [] OTHER -> Goto(h, "unzip")

\* A short file is at most reported.  What is read beyond its end faults, shows no
\* zip signature, or is inflated as far as it goes.
unzip(h) ==
    /\ pc[h] = "unzip"
    /\ \/ Kind(h) = "short_zip" /\ (Die(h) \/ NextMessage(h) \/ Goto(h, "parse"))
       \/ Kind(h) = "not_zip" /\ NextMessage(h)
       \/ Kind(h) \notin {"short_zip", "not_zip"} /\ Goto(h, "parse")

\* Any XML document gives some JSON.  unzip has not terminated the document, so
\* what the heap holds behind it is part of it: it may spoil a document or complete
\* one.  What came out of a short file may be one or not.
parse_xml(h) ==
    /\ pc[h] = "parse"
    /\ \/ (Kind(h) # "not_xml" \/ ~ HeapIsZero) /\ Goto(h, "post")
       \/ (Kind(h) \in {"short_zip", "not_xml"} \/ ~ HeapIsZero) /\ NextMessage(h)

Delivered(h) == posted' = Append(posted, [mail |-> message[h], by |-> h])

\* curl_easy_perform has returned, whatever its result; the handle is freed.
Posted(h) ==
    /\ pc' = [pc EXCEPT ![h] = "loop"]
    /\ message' = [message EXCEPT ![h] = None]
    /\ curl' = [curl EXCEPT ![h] = "freed"]
    /\ UNCHANGED <<queue, arrived, boots>>

\* There is no time limit on the answer.
Waits(h) ==
    /\ WebMayHang
    /\ pc' = [pc EXCEPT ![h] = "hung"]
    /\ UNCHANGED <<queue, arrived, message, curl, boots>>

PostFirst(h) ==
    /\ pc[h] = "post" /\ curl[h] = "live"
    /\ \/ Delivered(h) /\ (Posted(h) \/ Waits(h))
       \/ UNCHANGED posted /\ ((WebMayFail /\ Posted(h)) \/ Waits(h))

\* Every later post uses the freed handle: it may still work, fail or fault.
PostAgain(h) ==
    /\ pc[h] = "post" /\ curl[h] = "freed"
    /\ \/ (Delivered(h) \/ UNCHANGED posted) /\ (Posted(h) \/ Waits(h))
       \/ Die(h)

\* The service answers at last, or the connection breaks.
PostEnds(h) == pc[h] = "hung" /\ UNCHANGED posted /\ Posted(h)

post_data(h) == PostFirst(h) \/ PostAgain(h)

Work(h) ==
    \/ pq_dequeue(h) \/ validate_dkim(h) \/ decode_content(h)
    \/ unzip(h) \/ parse_xml(h) \/ post_data(h)

Next ==
    \/ Enqueue
    \/ start
    \/ \E h \in Handlers : Kill(h) \/ pq_wait(h) \/ Work(h) \/ PostEnds(h)

Spec == Init /\ [][Next]_vars

\* The server is started, and every process runs on as long as it lives.  Nothing
\* makes the web service answer.
FairSpec ==
    /\ Spec
    /\ WF_vars(boots = 0 /\ start)
    /\ \A h \in Handlers : WF_vars(Work(h))

-----------------------------------------------------------------------------
\* The queue, the stages and the messages in hand keep their types.
TypeOK ==
    /\ queue \in Seq(1 .. arrived)
    /\ posted \in Seq([mail : 1 .. arrived, by : Handlers])
    /\ arrived \in 0 .. Len(KindOf)
    /\ pc \in [Handlers -> {"down", "loop", "validate", "decode", "unzip", "parse",
                            "post", "hung"}]
    /\ message \in [Handlers -> 0 .. arrived]
    /\ curl \in [Handlers -> {"none", "live", "freed"}]
    /\ boots \in 0 .. MaxBoots
    /\ \A h \in Handlers :
        /\ message[h] = None <=> pc[h] \in {"down", "loop"}
        /\ curl[h] = "none" <=> pc[h] = "down"
        /\ h > boots => pc[h] = "down"

\* Nothing reaches the web service whose signature was not found right, and nothing
\* that was not sent as a zip file in base64, whatever the later stages make of
\* what is read beyond the end of a file or of a document.
OnlySignedPosted ==
    \A i \in DOMAIN posted :
        KindOf[posted[i].mail] \notin {"unsigned", "no_encoding", "other_encoding", "not_zip"}

\* The web service receives a mail at most once, from whichever of the processes
\* that share the queue, and from each of them in the order of arrival: across
\* kills, faults, posts without an answer, and restarts that leave the old process
\* at work.  Between two processes the order is not kept.
InOrderAtMostOnce ==
    \A i, j \in DOMAIN posted : i < j =>
        /\ posted[i].mail # posted[j].mail
        /\ posted[i].by = posted[j].by => posted[i].mail < posted[j].mail

InHand(h, n) == message[h] = n /\ pc[h] # "hung"

Received(n) == \E i \in DOMAIN posted : posted[i].mail = n

\* "if the web service is down then the reports will be sent as soon as it gets
\* up": no report that arrived is ever dropped on the way to the web service.
ReportNeverLost ==
    \A n \in 1 .. arrived : KindOf[n] = "report" =>
        n \in ToSet(queue) \/ Received(n) \/ \E h \in Handlers : message[h] = n

\* Some process is neither dead nor waiting for the web service.
SomeoneWorks == \E h \in Handlers : pc[h] \notin {"down", "hung"}

\* One mail never holds up the others: unless in the end every process is dead or
\* waits for a web service that does not answer, every mail is taken out of the
\* queue and dealt with, whatever DNS does, and does not come back.
QueueDrains ==
    []<>SomeoneWorks =>
        \A n \in 1 .. Len(KindOf) :
            n <= arrived ~> [](n \notin ToSet(queue) /\ \A h \in Handlers : ~ InHand(h, n))

\* A report that has arrived is posted in the end, whatever was in the queue
\* before it.
EventuallyPosted ==
    \A n \in 1 .. Len(KindOf) : (n <= arrived /\ KindOf[n] = "report") ~> Received(n)
=============================================================================
