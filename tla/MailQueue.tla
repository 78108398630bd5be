----------------------------- MODULE MailQueue -----------------------------
(***************************************************************************)
(* What lib-pq promises its two callers: per queue file a bounded FIFO of  *)
(* mails.  A worker puts a mail into the queue of its own file, a          *)
(* mailhandler takes the oldest one out and owns it until it is done with  *)
(* it.  Nothing is lost, duplicated, reordered or invented in between.     *)
(* A call on a full or an empty queue changes nothing.                     *)
(***************************************************************************)
EXTENDS Naturals, Sequences

CONSTANTS Queues,           \* the queue files, one per worker
          Consumers,        \* the mailhandler processes
          FileOf,           \* the file a process works on
          MessageMaxCount,  \* capacity of a file
          Mail, NoMail

VARIABLES queue,            \* queue[q]: the mails in file q, oldest first
          got               \* got[c]: the mail consumer c has taken, or NoMail

vars == <<queue, got>>

Init == /\ queue = [q \in Queues |-> <<>>]
        /\ got = [c \in Consumers |-> NoMail]

Put(q, m) == /\ Len(queue[q]) < MessageMaxCount
             /\ queue' = [queue EXCEPT ![q] = Append(@, m)]
             /\ UNCHANGED got

Take(c) == /\ got[c] = NoMail
           /\ queue[FileOf[c]] # <<>>
           /\ got' = [got EXCEPT ![c] = Head(queue[FileOf[c]])]
           /\ queue' = [queue EXCEPT ![FileOf[c]] = Tail(@)]

\* The consumer frees its mail, or dies with it.
Release(c) == /\ got[c] # NoMail
              /\ got' = [got EXCEPT ![c] = NoMail]
              /\ UNCHANGED queue

Next == \/ \E q \in Queues, m \in Mail : Put(q, m)
        \/ \E c \in Consumers : Take(c) \/ Release(c)

Spec == Init /\ [][Next]_vars
=============================================================================
