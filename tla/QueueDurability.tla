-------------------------- MODULE QueueDurability --------------------------
(***************************************************************************)
(* What a power failure leaves of the queue files.  PersistedQueue is the  *)
(* mapping as the processes see it; this module adds the disk below it.    *)
(*                                                                         *)
(* The kernel writes a page back whenever it likes.  The code asks for it  *)
(* with msync, which takes only page aligned addresses and whose result    *)
(* nobody looks at:                                                        *)
(*   - write_offset is the first field of the file, so its msync writes    *)
(*     the page with the whole header: pq_enqueue makes the header durable *)
(*     as it is at that moment;                                            *)
(*   - read_offset and message_count lie inside that page and their msync  *)
(*     fails: pq_dequeue makes nothing durable, and has no step here;      *)
(*   - a slot's msync fails unless the slot happens to be aligned.         *)
(***************************************************************************)
EXTENDS PersistedQueue

CONSTANTS Aligned,      \* the slots that start at a page boundary
          MaxFailures   \* bound: power failures

ASSUME DurabilityAssumption ==
    /\ Aligned \subseteq Slots
    /\ MaxFailures \in Nat

VARIABLES
    diskHeader,  \* the header page of each file on disk
    diskMemory,  \* the slots of each file on disk
    flush,       \* flush[p]: what pq_enqueue of p still has to msync
    accepted,    \* slots whose pq_enqueue has returned 0, not yet dequeued
    torn,        \* a header that a call has left half way was taken over
    failures

diskVars == <<diskHeader, diskMemory, flush, accepted, torn, failures>>
durableVars == <<vars, diskVars>>

HeaderOf(q) == [write |-> write_offset[q], read |-> read_offset[q],
                count |-> message_count[q]]

DurableInit ==
    /\ Init
    /\ diskHeader = [q \in Queues |-> HeaderOf(q)]
    /\ diskMemory = memory
    /\ flush = [p \in Producers |-> "none"]
    /\ accepted = [q \in Queues |-> {}]
    /\ torn = FALSE
    /\ failures = 0

-----------------------------------------------------------------------------
(* The steps of PersistedQueue, with what they owe to the disk. *)

\* Any step that neither ends an enqueue nor removes a mail.
Work(p) ==
    /\ \/ Start(p) \/ Enqueue(p) \/ LoadCount(p)
       \/ \E m \in Mail : pq_enqueue(p, m)
       \/ pq_dequeue(p)
       \/ semaphore_wait(p)
       \/ DequeueEmpty(p) \/ DequeueAccept(p) \/ DequeueCopy(p) \/ DequeueWrap(p)
       \/ p \in Consumers /\ (StoreCount(p) \/ semaphore_post(p))
       \/ MemoryFault(p)
    /\ UNCHANGED diskVars

\* From here on the mail is the mailhandler's.
Remove(p) ==
    /\ DequeueAdvance(p)
    /\ accepted' = [accepted EXCEPT ![FileOf[p]] = @ \ {read_offset[FileOf[p]]}]
    /\ UNCHANGED <<diskHeader, diskMemory, flush, torn, failures>>

\* The stores of pq_enqueue are done and the msyncs follow.
Count(p) ==
    /\ p \in Producers
    /\ StoreCount(p)
    /\ flush' = [flush EXCEPT ![p] = "header"]
    /\ UNCHANGED <<diskHeader, diskMemory, accepted, torn, failures>>

\* Mutant: the field that is synced is not the first one of the page.
pq_header_sync_fails(p) ==
    /\ flush[p] = "header"
    /\ flush' = [flush EXCEPT ![p] = "slot"]
    /\ UNCHANGED <<vars, diskHeader, diskMemory, accepted, torn, failures>>

pq_header_sync(p) ==
    /\ flush[p] = "header"
    /\ flush' = [flush EXCEPT ![p] = "slot"]
    /\ diskHeader' = [diskHeader EXCEPT ![FileOf[p]] = HeaderOf(FileOf[p])]
    /\ UNCHANGED <<vars, diskMemory, accepted, torn, failures>>

\* The slot that pq_enqueue of p has just filled.
Filled(p) == (write_offset[FileOf[p]] + MessageMaxCount - 1) % MessageMaxCount

msync_message(p) ==
    /\ flush[p] = "slot"
    /\ flush' = [flush EXCEPT ![p] = "done"]
    /\ LET q == FileOf[p] IN
       diskMemory' = [diskMemory EXCEPT ![q] =
           [i \in Slots |-> IF i = Filled(p) /\ i \in Aligned
                            THEN memory[q][i] ELSE @[i]]]
    /\ UNCHANGED <<vars, diskHeader, accepted, torn, failures>>

\* pq_enqueue returns: 0 behind the msyncs, an error straight from the check.
Return(p) ==
    /\ p \in Producers
    /\ semaphore_post(p)
    /\ flush[p] \in {"none", "done"}
    /\ flush' = [flush EXCEPT ![p] = "none"]
    /\ accepted' = [accepted EXCEPT ![FileOf[p]] =
                       IF flush[p] = "done" THEN @ \cup {Filled(p)} ELSE @]
    /\ UNCHANGED <<diskHeader, diskMemory, torn, failures>>

Killed(p) ==
    /\ Kill(p)
    /\ flush' = [r \in Producers |-> IF r = p THEN "none" ELSE flush[r]]
    /\ torn' = (torn \/ pc[p] \in Window)
    /\ UNCHANGED <<diskHeader, diskMemory, accepted, failures>>

-----------------------------------------------------------------------------
(* The kernel and the power supply. *)

WriteBackHeader(q) ==
    /\ diskHeader' = [diskHeader EXCEPT ![q] = HeaderOf(q)]
    /\ UNCHANGED <<vars, diskMemory, flush, accepted, torn, failures>>

WriteBackSlot(q, i) ==
    /\ diskMemory' = [diskMemory EXCEPT ![q][i] = memory[q][i]]
    /\ UNCHANGED <<vars, diskHeader, flush, accepted, torn, failures>>

Consistent(h) ==
    /\ h.read \in Slots
    /\ h.write = (h.read + h.count) % MessageMaxCount

\* Every process is gone, and the semaphore with the kernel that kept it: the
\* first pq_init makes a new one.  The files are what the disk holds.
PowerFailure ==
    /\ failures < MaxFailures
    /\ failures' = failures + 1
    /\ write_offset' = [q \in Queues |-> diskHeader[q].write]
    /\ read_offset' = [q \in Queues |-> diskHeader[q].read]
    /\ message_count' = [q \in Queues |-> diskHeader[q].count]
    /\ memory' = diskMemory
    /\ semval' = 1
    /\ semadj' = [p \in Procs |-> 0]
    /\ pc' = [p \in Procs |-> "dead"]
    /\ mail' = [p \in Procs |-> NoMail]
    /\ reg' = [p \in Procs |-> 0]
    /\ flush' = [p \in Producers |-> "none"]
    /\ torn' = (torn \/ \E q \in Queues : ~ Consistent(diskHeader[q]))
    /\ UNCHANGED <<diskHeader, diskMemory, accepted>>

DurableNext ==
    \/ \E p \in Procs : Work(p) \/ Remove(p) \/ Killed(p)
    \/ \E p \in Producers : \/ Count(p) \/ pq_header_sync(p)
                            \/ msync_message(p) \/ Return(p)
    \/ \E q \in Queues : WriteBackHeader(q) \/ \E i \in Slots : WriteBackSlot(q, i)
    \/ PowerFailure

DurableSpec == DurableInit /\ [][DurableNext]_durableVars

-----------------------------------------------------------------------------
\* The slots a header claims to hold mails.
Live(h) == {(h.read + k) % MessageMaxCount : k \in 0 .. h.count - 1}

\* A mail whose pq_enqueue has returned 0 stays among those the header on disk
\* counts until a mailhandler takes it, whatever the kernel writes back and
\* however often the power fails, unless a kill or a failure leaves a header
\* half way through a call: the one msync of pq_header_sync that works, before
\* semaphore_post, is enough for the header.
NothingForgotten ==
    torn \/ \A q \in Queues : accepted[q] \subseteq Live(diskHeader[q])

\* After a power failure a slot that the header counts holds the mail that
\* was accepted in it ("Persist (flush to disk)", persisted_queue.c:168).  The
\* code does not provide it: see the README.
AcceptedIsOnDisk ==
    \A q \in Queues : \A i \in accepted[q] : diskMemory[q][i] # NoMail
=============================================================================
