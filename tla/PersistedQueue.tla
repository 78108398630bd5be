--------------------------- MODULE PersistedQueue ---------------------------
(***************************************************************************)
(* lib-pq: the memory-mapped queue files that carry mails from the worker  *)
(* processes (pq_enqueue) to the mailhandler processes (pq_dequeue), and   *)
(* the one System V semaphore (SEM_KEY) that all of them share.            *)
(*                                                                         *)
(* Every access to the mapped header is a step of its own, so that two     *)
(* processes inside the critical section, or a process killed in the       *)
(* middle of it, leave the header the way the code would.  In particular   *)
(* `x = ++x % max` on a volatile field is two stores, and `++count` is a   *)
(* load and a store.  The mapping is MAP_SHARED: it outlives a process,    *)
(* and an operation that is killed stays half done in the file.            *)
(***************************************************************************)
EXTENDS Integers, Sequences

CONSTANTS
    Queues,           \* the queue files, one per worker
    Producers,        \* the worker processes
    Consumers,        \* the mailhandler processes
    FileOf,           \* the file each process has mapped
    MessageMaxCount,  \* message_max_count of every file
    Mail,             \* the mails that may arrive
    NoMail,           \* a zeroed slot; no mail in hand
    KillPoints,       \* where the environment may kill a process
    InitOnlyWhenQuiet,\* TRUE: pq_init never runs while a process is between
                      \* semaphore_wait and semaphore_post
    Interrupts        \* TRUE: a process that sleeps in semop may be stopped
                      \* and continued, which ends semop with EINTR

Procs == Producers \cup Consumers

PCs == {"dead",                     \* not running
        "ready",                    \* worker_init done, not yet spawned
        "idle",                     \* outside lib-pq
        "wait",                     \* before semop(-1)
        "check", "copy",            \* the guard and the memcpy
        "advance", "wrap",          \* the two stores to the offset
        "load", "store",            \* the two halves of ++/--message_count
        "post"}                     \* before semop(+1)

\* Between semaphore_wait and semaphore_post.
Inside == {"check", "copy", "advance", "wrap", "load", "store", "post"}

\* The offset has moved and message_count has not.
Window == {"wrap", "load", "store"}

ASSUME QueueAssumption ==
    /\ Producers \cap Consumers = {}
    /\ FileOf \in [Procs -> Queues]
    /\ MessageMaxCount \in Nat \ {0}
    /\ NoMail \notin Mail
    /\ KillPoints \subseteq PCs \ {"dead"}
    /\ InitOnlyWhenQuiet \in BOOLEAN
    /\ Interrupts \in BOOLEAN

VARIABLES
    write_offset, read_offset, message_count, \* pq_ref_shared of each file
    memory,   \* memory[q][i]: slot i of file q
    semval,   \* value of the semaphore
    semadj,   \* semadj[p]: what SEM_UNDO adds when p dies
    pc,
    mail,     \* mail[p]: the caller's `mail` buffer
    reg       \* reg[p]: message_count as p loaded it, 0 when not in use

header == <<write_offset, read_offset, message_count>>
sem == <<semval, semadj>>
vars == <<header, memory, sem, pc, mail, reg>>

Slots == 0 .. MessageMaxCount - 1

\* The header, the slots, the semaphore and the registers hold values of
\* their C types; in particular an offset never goes negative.
TypeOK ==
    /\ write_offset \in [Queues -> Nat]
    /\ read_offset \in [Queues -> Nat]
    /\ message_count \in [Queues -> Int]
    /\ memory \in [Queues -> [Slots -> Mail \cup {NoMail}]]
    /\ semval \in Nat
    /\ semadj \in [Procs -> Int]
    /\ pc \in [Procs -> PCs]
    /\ mail \in [Procs -> Mail \cup {NoMail}]
    /\ reg \in [Procs -> Int]

\* The first pq_init has created the files (zero filled) and the semaphore; the
\* processes of alive are running.
InitWith(alive) ==
    /\ write_offset = [q \in Queues |-> 0]
    /\ read_offset = [q \in Queues |-> 0]
    /\ message_count = [q \in Queues |-> 0]
    /\ memory = [q \in Queues |-> [i \in Slots |-> NoMail]]
    /\ semval = 1
    /\ semadj = [p \in Procs |-> 0]
    /\ pc = [p \in Procs |-> IF p \in alive THEN "idle" ELSE "dead"]
    /\ mail = [p \in Procs |-> NoMail]
    /\ reg = [p \in Procs |-> 0]

Init == InitWith({})

Goto(p, from, to) == pc[p] = from /\ pc' = [pc EXCEPT ![p] = to]

-----------------------------------------------------------------------------
(* The semaphore (semop and semctl are the kernel's). *)

\* Mutant: the reset adds to the semaphore instead of setting it.
semaphore_init_adds ==
    /\ InitOnlyWhenQuiet => \A p \in Procs : pc[p] \notin Inside
    /\ semval' = semval + 1
    /\ semadj' = [p \in Procs |-> 0]

\* semctl(SETALL) also clears the undo entry of every process.
semaphore_init ==
    /\ InitOnlyWhenQuiet => \A p \in Procs : pc[p] \notin Inside
    /\ semval' = 1
    /\ semadj' = [p \in Procs |-> 0]

semaphore_wait(p) ==
    /\ Goto(p, "wait", "check")
    /\ semval > 0
    /\ semval' = semval - 1
    /\ semadj' = [semadj EXCEPT ![p] = @ + 1]
    /\ UNCHANGED <<header, memory, mail, reg>>

\* semop fails with EINTR when a sleeping process is stopped and continued (a
\* signal that has a handler faults in it instead, see Kill).  The callers ignore
\* the result: the process goes on without the lock and will still post.
semaphore_interrupted(p) ==
    /\ Interrupts
    /\ semval = 0
    /\ Goto(p, "wait", "check")
    /\ UNCHANGED <<header, memory, sem, mail, reg>>

\* The caller of pq_enqueue frees its mail, the caller of pq_dequeue keeps it.
semaphore_post(p) ==
    /\ Goto(p, "post", "idle")
    /\ semval' = semval + 1
    /\ semadj' = [semadj EXCEPT ![p] = @ - 1]
    /\ mail' = [mail EXCEPT ![p] = IF p \in Producers THEN NoMail ELSE @]
    /\ UNCHANGED <<header, memory, reg>>

-----------------------------------------------------------------------------
(* Starting a process.  pq_init maps an existing file as it is (pq_open). *)

\* The master opens the file of worker p and resets the semaphore.
worker_init(p) ==
    /\ p \in Producers
    /\ Goto(p, "dead", "ready")
    /\ semaphore_init
    /\ UNCHANGED <<header, memory, mail, reg>>

worker_spawn(p) ==
    /\ Goto(p, "ready", "idle")
    /\ UNCHANGED <<header, memory, sem, mail, reg>>

\* The mailhandler opens the same file and resets the semaphore again.
pq_init(p) ==
    /\ p \in Consumers
    /\ Goto(p, "dead", "idle")
    /\ semaphore_init
    /\ UNCHANGED <<header, memory, mail, reg>>

-----------------------------------------------------------------------------
(* pq_enqueue *)

pq_enqueue(p, m) ==
    /\ p \in Producers
    /\ Goto(p, "idle", "wait")
    /\ mail' = [mail EXCEPT ![p] = m]
    /\ UNCHANGED <<header, memory, sem, reg>>

\* Mutant: the early return forgets semaphore_post.
EnqueueFull_keeps_lock(p) ==
    /\ p \in Producers
    /\ message_count[FileOf[p]] >= MessageMaxCount
    /\ Goto(p, "check", "idle")
    /\ UNCHANGED <<header, memory, sem, mail, reg>>

\* PQ_MESSAGE_SIZE_REACHED_ERROR
EnqueueFull(p) ==
    /\ p \in Producers
    /\ message_count[FileOf[p]] >= MessageMaxCount
    /\ Goto(p, "check", "post")
    /\ UNCHANGED <<header, memory, sem, mail, reg>>

\* Mutant: one mail too many.
EnqueueAccept_at_limit(p) ==
    /\ p \in Producers
    /\ message_count[FileOf[p]] <= MessageMaxCount
    /\ Goto(p, "check", "copy")
    /\ UNCHANGED <<header, memory, sem, mail, reg>>

EnqueueAccept(p) ==
    /\ p \in Producers
    /\ message_count[FileOf[p]] < MessageMaxCount
    /\ Goto(p, "check", "copy")
    /\ UNCHANGED <<header, memory, sem, mail, reg>>

\* A copy to behind the last slot changes no slot of this file.
EnqueueCopy(p) ==
    /\ p \in Producers
    /\ Goto(p, "copy", "advance")
    /\ LET q == FileOf[p] IN
       memory' = [memory EXCEPT ![q] =
                    [i \in Slots |-> IF i = write_offset[q] THEN mail[p] ELSE @[i]]]
    /\ UNCHANGED <<header, sem, mail, reg>>

EnqueueAdvance(p) ==
    /\ p \in Producers
    /\ Goto(p, "advance", "wrap")
    /\ write_offset' = [write_offset EXCEPT ![FileOf[p]] = @ + 1]
    /\ UNCHANGED <<read_offset, message_count, memory, sem, mail, reg>>

\* Mutant: without the modulo.
EnqueueWrap_missing(p) ==
    /\ p \in Producers
    /\ Goto(p, "wrap", "load")
    /\ UNCHANGED <<header, memory, sem, mail, reg>>

EnqueueWrap(p) ==
    /\ p \in Producers
    /\ Goto(p, "wrap", "load")
    /\ write_offset' = [write_offset EXCEPT ![FileOf[p]] = @ % MessageMaxCount]
    /\ UNCHANGED <<read_offset, message_count, memory, sem, mail, reg>>

-----------------------------------------------------------------------------
(* pq_dequeue *)

pq_dequeue(p) ==
    /\ p \in Consumers
    /\ Goto(p, "idle", "wait")
    /\ mail' = [mail EXCEPT ![p] = NoMail]
    /\ UNCHANGED <<header, memory, sem, reg>>

\* PQ_MESSAGE_QUEUE_EMPTY_ERROR
DequeueEmpty(p) ==
    /\ p \in Consumers
    /\ message_count[FileOf[p]] <= 0
    /\ Goto(p, "check", "post")
    /\ UNCHANGED <<header, memory, sem, mail, reg>>

DequeueAccept(p) ==
    /\ p \in Consumers
    /\ message_count[FileOf[p]] > 0
    /\ Goto(p, "check", "copy")
    /\ UNCHANGED <<header, memory, sem, mail, reg>>

\* A copy from behind the last slot brings back anything.
DequeueCopy(p) ==
    /\ p \in Consumers
    /\ Goto(p, "copy", "advance")
    /\ \E m \in Mail \cup {NoMail} :
          /\ read_offset[FileOf[p]] \in Slots =>
                m = memory[FileOf[p]][read_offset[FileOf[p]]]
          /\ mail' = [mail EXCEPT ![p] = m]
    /\ UNCHANGED <<header, memory, sem, reg>>

\* Mutant: the reader moves backwards.
DequeueAdvance_back(p) ==
    /\ p \in Consumers
    /\ Goto(p, "advance", "wrap")
    /\ read_offset' = [read_offset EXCEPT ![FileOf[p]] = @ - 1]
    /\ UNCHANGED <<write_offset, message_count, memory, sem, mail, reg>>

DequeueAdvance(p) ==
    /\ p \in Consumers
    /\ Goto(p, "advance", "wrap")
    /\ read_offset' = [read_offset EXCEPT ![FileOf[p]] = @ + 1]
    /\ UNCHANGED <<write_offset, message_count, memory, sem, mail, reg>>

DequeueWrap(p) ==
    /\ p \in Consumers
    /\ Goto(p, "wrap", "load")
    /\ read_offset' = [read_offset EXCEPT ![FileOf[p]] = @ % MessageMaxCount]
    /\ UNCHANGED <<write_offset, message_count, memory, sem, mail, reg>>

-----------------------------------------------------------------------------
(* ++message_count and --message_count *)

LoadCount(p) ==
    /\ Goto(p, "load", "store")
    /\ reg' = [reg EXCEPT ![p] = message_count[FileOf[p]]]
    /\ UNCHANGED <<header, memory, sem, mail>>

StoreCount(p) ==
    /\ Goto(p, "store", "post")
    /\ message_count' = [message_count EXCEPT ![FileOf[p]] =
                            IF p \in Producers THEN reg[p] + 1 ELSE reg[p] - 1]
    /\ reg' = [reg EXCEPT ![p] = 0]
    /\ UNCHANGED <<write_offset, read_offset, memory, sem, mail>>

-----------------------------------------------------------------------------
(* Death of a process: SEM_UNDO gives back what it holds (never below 0). *)

\* Mutant: semop without SEM_UNDO.
Die_without_undo(p) ==
    /\ pc' = [pc EXCEPT ![p] = "dead"]
    /\ semadj' = [semadj EXCEPT ![p] = 0]
    /\ mail' = [mail EXCEPT ![p] = NoMail]
    /\ reg' = [reg EXCEPT ![p] = 0]
    /\ UNCHANGED <<header, memory, semval>>

Die(p) ==
    /\ pc' = [pc EXCEPT ![p] = "dead"]
    /\ semval' = IF semval + semadj[p] < 0 THEN 0 ELSE semval + semadj[p]
    /\ semadj' = [semadj EXCEPT ![p] = 0]
    /\ mail' = [mail EXCEPT ![p] = NoMail]
    /\ reg' = [reg EXCEPT ![p] = 0]
    /\ UNCHANGED <<header, memory>>

\* The offset a process of this kind copies at and moves.
OffsetOf(p) == IF p \in Producers THEN write_offset[FileOf[p]]
                                  ELSE read_offset[FileOf[p]]

\* Bound: an offset one behind the last slot is not pushed further by a
\* second kill at the same place.
Kill(p) == /\ pc[p] \in KillPoints
           /\ pc[p] = "wrap" => OffsetOf(p) <= MessageMaxCount
           /\ Die(p)

\* A memcpy behind the last slot may run out of the mapping.
MemoryFault(p) ==
    /\ pc[p] = "copy"
    /\ OffsetOf(p) \notin Slots
    /\ Die(p)

-----------------------------------------------------------------------------
Start(p) == worker_init(p) \/ worker_spawn(p) \/ pq_init(p)

Enqueue(p) ==
    \/ EnqueueFull(p) \/ EnqueueAccept(p) \/ EnqueueCopy(p)
    \/ EnqueueAdvance(p) \/ EnqueueWrap(p)

Dequeue(p) ==
    \/ DequeueEmpty(p) \/ DequeueAccept(p) \/ DequeueCopy(p)
    \/ DequeueAdvance(p) \/ DequeueWrap(p)

\* The steps a process takes by itself once it has called lib-pq.
Progress(p) ==
    \/ Enqueue(p) \/ Dequeue(p) \/ LoadCount(p) \/ StoreCount(p)
    \/ semaphore_post(p) \/ MemoryFault(p)

Step(p) ==
    \/ Start(p)
    \/ \E m \in Mail : pq_enqueue(p, m)
    \/ pq_dequeue(p)
    \/ semaphore_wait(p) \/ semaphore_interrupted(p)
    \/ Progress(p)
    \/ Kill(p)

Next == \E p \in Procs : Step(p)

Spec == Init /\ [][Next]_vars

-----------------------------------------------------------------------------
(* Safety *)

\* lib-pq's semaphore admits one process at a time to the header and the slots
\* of all files (semaphore_wait/semaphore_post around pq_enqueue, pq_dequeue).
MutualExclusion ==
    \A p, r \in Procs : pc[p] \in Inside /\ pc[r] \in Inside => p = r

\* SEM_UNDO and SETALL never lose the semaphore: whenever it is taken, a
\* process that will give it back is in the critical section.  Otherwise every
\* worker and every mailhandler would sleep in semaphore_wait for ever.
SemaphoreNeverLost ==
    semval = 0 => \E p \in Procs : pc[p] \in Inside /\ semadj[p] = 1

\* Nobody is moving an offset of file q.
AtRest(q) == \A p \in Procs : FileOf[p] = q => pc[p] \notin Window

\* The three header fields of a file agree whenever no call is half way: they
\* are kept redundantly, in separate stores, in a file that outlives crashes.
RingConsistent ==
    \A q \in Queues : AtRest(q) =>
        /\ read_offset[q] \in Slots
        /\ message_count[q] \in 0 .. MessageMaxCount
        /\ write_offset[q] = (read_offset[q] + message_count[q]) % MessageMaxCount

\* A pq_dequeue that succeeds hands out a mail that somebody enqueued, never
\* a slot that nobody wrote.
DequeuedIsMail == \A c \in Consumers : pc[c] \in Window => mail[c] # NoMail

-----------------------------------------------------------------------------
(* Refinement: the queue a caller sees.  pq_enqueue takes effect when it      *)
(* stores message_count, pq_dequeue when it moves read_offset.                *)

InFlight(q) ==
    IF \E c \in Consumers : FileOf[c] = q /\ pc[c] \in Window THEN 1 ELSE 0

Content(q) ==
    [i \in 1 .. message_count[q] - InFlight(q) |->
        memory[q][(read_offset[q] + i - 1) % MessageMaxCount]]

Taken(c) == IF pc[c] \in Window \cup {"post", "idle"} THEN mail[c] ELSE NoMail

Fifo == INSTANCE MailQueue WITH
            queue <- [q \in Queues |-> Content(q)],
            got <- [c \in Consumers |-> Taken(c)]

\* The queue files behave as the bounded FIFO queues of MailQueue: every mail
\* that pq_enqueue accepted is dequeued once, in order, and nothing else is.
FifoSpec == Fifo!Spec

-----------------------------------------------------------------------------
(* Liveness *)

\* A mail in the queue file is handed to a mailhandler in the end: no process
\* starves in semaphore_wait and the polling loop finds it.
EventuallyTaken ==
    \A q \in Queues, m \in Mail :
        (\E i \in DOMAIN Content(q) : Content(q)[i] = m)
            ~> (\E c \in Consumers : FileOf[c] = q /\ Taken(c) = m)
=============================================================================
