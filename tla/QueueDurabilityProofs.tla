----------------------- MODULE QueueDurabilityProofs ------------------------
(***************************************************************************)
(* What the header on disk still counts after a power failure, for any     *)
(* number of files, processes, slots and failures: the one msync of        *)
(* pq_header_sync that works keeps every mail whose pq_enqueue has         *)
(* returned 0 among those the header counts.                               *)
(***************************************************************************)
EXTENDS QueueDurability, PersistedQueueProofs

-----------------------------------------------------------------------------
(* The slots of a ring, without remainders. *)

\* The n slots from offset r on; r may stand behind the last slot.
Arc(r, n) ==
    {i \in Slots : \/ r <= i /\ i < r + n
                   \/ r <= i + MessageMaxCount /\ i + MessageMaxCount < r + n}

\* The slots a header counts (Live) are an arc: no offset is more than one
\* round behind.
LEMMA LiveIsArc ==
    ASSUME NEW h, h.read \in 0 .. MessageMaxCount, h.count \in 0 .. MessageMaxCount
    PROVE  Arc(h.read, h.count) \subseteq Live(h)
<1> SUFFICES ASSUME NEW i \in Arc(h.read, h.count)
             PROVE  \E k \in 0 .. h.count - 1 : i = (h.read + k) % MessageMaxCount
    BY DEF Live
<1>1. MessageMaxCount \in Nat \ {0} /\ i \in Slots
    BY QueueAssumption DEF Arc
<1>2. PICK x \in {i, i + MessageMaxCount} : h.read <= x /\ x < h.read + h.count
    BY DEF Arc
<1>3. x \in 0 .. 2 * MessageMaxCount - 1 /\ i \in 0 .. MessageMaxCount - 1
    BY <1>1, <1>2 DEF Slots
<1>4. x % MessageMaxCount = i
    BY <1>1, <1>2, <1>3, ModOnce
<1>5. x - h.read \in 0 .. h.count - 1 /\ h.read + (x - h.read) = x
    BY <1>1, <1>2, <1>3
<1> QED BY <1>4, <1>5

\* The offset behind the last slot and the first slot are the same place: the second
\* store of `read_offset = ++read_offset % message_max_count`.
LEMMA ArcWraps ==
    ASSUME NEW n \in 0 .. MessageMaxCount, NEW r \in 0 .. MessageMaxCount
    PROVE  Arc(r % MessageMaxCount, n) = Arc(r, n)
<1>1. MessageMaxCount \in Nat \ {0}
    BY QueueAssumption
<1>2. r % MessageMaxCount = IF r = MessageMaxCount THEN 0 ELSE r
    BY <1>1, ModOnce
<1> QED BY <1>1, <1>2 DEF Arc, Slots

\* Taking the oldest mail: only its slot leaves the arc.
LEMMA ArcDrops ==
    ASSUME NEW r \in Slots, NEW n \in 1 .. MessageMaxCount
    PROVE  Arc(r, n) \ {r} \subseteq Arc(r + 1, n - 1)
BY QueueAssumption DEF Arc, Slots

\* A longer arc from the same offset.
LEMMA ArcGrows ==
    ASSUME NEW r \in Nat, NEW n \in Int, NEW k \in Int, n <= k
    PROVE  Arc(r, n) \subseteq Arc(r, k)
BY QueueAssumption DEF Arc, Slots

-----------------------------------------------------------------------------
(* The inductive invariant. *)

\* What the disk, the msyncs and the accepted slots look like.
DiskTypes ==
    /\ diskHeader \in [Queues -> [write : Nat,
                                  read : 0 .. MessageMaxCount,
                                  count : 0 .. MessageMaxCount]]
    /\ diskMemory \in [Queues -> [Slots -> Mail \cup {NoMail}]]
    /\ flush \in [Producers -> {"none", "header", "slot", "done"}]
    /\ accepted \in [Queues -> SUBSET Slots]

\* A worker that has something to msync holds the lock and has counted its mail,
\* and behind the msync of the header the disk agrees with the mapping.
FlushInv ==
    \A p \in Producers :
        /\ flush[p] # "none" => pc[p] = "post" /\ message_count[FileOf[p]] >= 1
        /\ flush[p] \in {"slot", "done"} =>
               diskHeader[FileOf[p]] = HeaderOf(FileOf[p])

\* What has been accepted is in the ring that the processes see,
InMapping == \A q \in Queues : accepted[q] \subseteq Arc(read_offset[q], Left(q))

\* and in the one that the disk describes.
OnDisk ==
    \A q \in Queues : accepted[q] \subseteq Arc(diskHeader[q].read, diskHeader[q].count)

\* The lock and the ring as in PersistedQueueProofs, and the disk.
Sound ==
    /\ TypeOK
    /\ SemInv
    /\ RingInv
    /\ DiskTypes
    /\ FlushInv
    /\ InMapping
    /\ OnDisk

\* Once a header that a call has left half way has been taken over, nothing is
\* claimed any more.
DurableInv == torn \/ Sound

\* The invariant says that nothing accepted is forgotten.
LEMMA SoundNothingForgotten == DurableInv => NothingForgotten
<1> SUFFICES ASSUME Sound, NEW q \in Queues
             PROVE  accepted[q] \subseteq Live(diskHeader[q])
    BY DEF DurableInv, NothingForgotten
<1>1. /\ diskHeader[q].read \in 0 .. MessageMaxCount
      /\ diskHeader[q].count \in 0 .. MessageMaxCount
    BY DEF Sound, DiskTypes
<1> QED BY <1>1, LiveIsArc DEF Sound, OnDisk

\* Fresh files, nothing accepted.
LEMMA DurableInitial == DurableInit => DurableInv
<1> SUFFICES ASSUME DurableInit PROVE Sound
    BY DEF DurableInv
<1>1. TypeOK /\ SemInv /\ RingInv
    BY TypeInit, SemInit, RingInit DEF DurableInit
<1>2. DiskTypes
    BY QueueAssumption DEF DurableInit, DiskTypes, HeaderOf, Init, InitWith
<1>3. FlushInv /\ InMapping /\ OnDisk
    BY DEF DurableInit, FlushInv, InMapping, OnDisk
<1> QED BY <1>1, <1>2, <1>3 DEF Sound

-----------------------------------------------------------------------------
(* The steps of the processes. *)

\* Every step of a process that QueueDurability knows is one of PersistedQueue.
LEMMA ProcessSteps ==
    ASSUME NEW p \in Procs
    PROVE  /\ Work(p) => Step(p)
           /\ Remove(p) => Step(p)
           /\ Killed(p) => Step(p)
           /\ Count(p) => Step(p)
           /\ Return(p) => Step(p)
BY DEF Work, Remove, Killed, Count, Return, Step, Progress, Dequeue

\* A step of a process keeps the lock and the ring, a kill in the window excepted.
LEMMA ProcessSound ==
    ASSUME InitOnlyWhenQuiet, ~Interrupts, Sound,
           NEW p \in Procs, Step(p), Kill(p) => pc[p] \notin Window
    PROVE  TypeOK' /\ SemInv' /\ RingInv'
<1>1. [Next]_vars
    BY DEF Next
<1>2. TypeOK'
    BY <1>1, TypeStep DEF Sound
<1>3. SemInv'
    BY <1>1, SemStep DEF Sound
<1>4. RingInv'
    BY RingProcess DEF Sound, SemInv, semaphore_interrupted
<1> QED BY <1>2, <1>3, <1>4

\* The header is only moved by a process inside: pq_enqueue and pq_dequeue store to it
\* between semaphore_wait and semaphore_post.
LEMMA HeaderMovesInside ==
    ASSUME NEW p \in Procs, Work(p) \/ Remove(p) \/ Killed(p)
    PROVE  /\ p \in Producers /\ pc[p] = "post" => Killed(p)
           /\ pc[p] \notin Inside => UNCHANGED header
<1> USE DEF Goto, Inside
<1>1. CASE Work(p)
    BY <1>1, QueueAssumption
       DEF Work, Start, worker_init, worker_spawn, pq_init, Enqueue, EnqueueFull,
           EnqueueAccept, EnqueueCopy, EnqueueAdvance, EnqueueWrap, LoadCount,
           pq_enqueue, pq_dequeue, semaphore_wait, DequeueEmpty, DequeueAccept,
           DequeueCopy, DequeueWrap, StoreCount, semaphore_post, MemoryFault, Die
<1>2. CASE Remove(p)
    BY <1>2 DEF Remove, DequeueAdvance
<1>3. CASE Killed(p)
    BY <1>3 DEF Killed, Kill, Die
<1> QED BY <1>1, <1>2, <1>3

\* A process moves nobody else's program counter.
LEMMA OthersStay ==
    ASSUME TypeOK, NEW p \in Procs, Step(p)
    PROVE  \E s : pc' = [pc EXCEPT ![p] = s]
BY DEF Step, Start, worker_init, worker_spawn, pq_init, pq_enqueue, pq_dequeue,
       semaphore_wait, semaphore_interrupted, Progress, Enqueue, EnqueueFull,
       EnqueueAccept, EnqueueCopy, EnqueueAdvance, EnqueueWrap, Dequeue, DequeueEmpty,
       DequeueAccept, DequeueCopy, DequeueAdvance, DequeueWrap, LoadCount, StoreCount,
       semaphore_post, MemoryFault, Kill, Die, Goto

\* While a worker is between its stores and semaphore_post, no other process touches
\* the header, so the disk that agreed with it goes on to agree.
LEMMA FlushKept ==
    ASSUME Sound, NEW p \in Procs, Work(p) \/ Remove(p) \/ Killed(p)
    PROVE  FlushInv'
<1> SUFFICES ASSUME NEW r \in Producers, flush'[r] # "none"
             PROVE  /\ pc'[r] = "post" /\ message_count'[FileOf[r]] >= 1
                    /\ flush'[r] \in {"slot", "done"} =>
                           diskHeader'[FileOf[r]] = HeaderOf(FileOf[r])'
    BY DEF FlushInv
<1>1. flush'[r] = flush[r] /\ UNCHANGED diskHeader
    BY DEF Work, Remove, Killed, diskVars
<1>2. /\ pc[r] = "post" /\ message_count[FileOf[r]] >= 1
      /\ flush[r] \in {"slot", "done"} => diskHeader[FileOf[r]] = HeaderOf(FileOf[r])
    BY <1>1 DEF Sound, FlushInv
<1>3. r # p
    BY <1>2, HeaderMovesInside DEF Killed
<1>4. r \in Procs /\ pc[p] \notin Inside
    BY <1>2, <1>3 DEF Sound, SemInv, MutualExclusion, Inside, Procs
<1>5. UNCHANGED header
    BY <1>4, HeaderMovesInside
<1>6. pc'[r] = pc[r]
    BY <1>3, <1>4, ProcessSteps, OthersStay DEF Sound, TypeOK
<1> QED BY <1>1, <1>2, <1>5, <1>6 DEF header, HeaderOf

\* What a process sees of a file that nobody touches.
LEMMA ArcSame ==
    ASSUME NEW q \in Queues, read_offset'[q] = read_offset[q], Left(q)' = Left(q)
    PROVE  Arc(read_offset[q], Left(q))' = Arc(read_offset[q], Left(q))
BY DEF Arc, Slots

\* A step of a process takes nothing out of the files it has not mapped.
LEMMA OtherFiles ==
    ASSUME TypeOK, NEW p \in Procs, NEW s, pc' = [pc EXCEPT ![p] = s],
           NEW q \in Queues, q # FileOf[p], message_count'[q] = message_count[q]
    PROVE  Left(q)' = Left(q)
<1>1. \A c \in Consumers : FileOf[c] = q => pc'[c] = pc[c]
    BY DEF TypeOK, Procs
<1>2. InFlight(q)' = InFlight(q)
    BY <1>1 DEF InFlight
<1> QED BY <1>2 DEF Left

\* The accepted mails stay in the ring that the processes see, whatever a process
\* does short of taking one.
LEMMA WorkKeepsMapping ==
    ASSUME Sound, NEW p \in Procs,
           Work(p) \/ (Killed(p) /\ pc[p] \notin Window)
    PROVE  InMapping'
<1> SUFFICES ASSUME NEW q \in Queues
             PROVE  accepted[q] \subseteq Arc(read_offset[q], Left(q))'
    BY DEF InMapping, Work, Killed, diskVars
<1>a. accepted[q] \subseteq Arc(read_offset[q], Left(q))
    BY DEF Sound, InMapping
<1>b. Span(q) /\ MessageMaxCount \in Nat \ {0} /\ TypeOK /\ FileOf \in [Procs -> Queues]
    BY SpanHolds, QueueAssumption DEF Sound, SemInv
<1>1. CASE p \in Consumers /\ DequeueWrap(p)
    <2>1. /\ pc[p] = "wrap" /\ pc' = [pc EXCEPT ![p] = "load"]
          /\ UNCHANGED message_count
          /\ read_offset' = [read_offset EXCEPT ![FileOf[p]] = @ % MessageMaxCount]
        BY <1>1 DEF DequeueWrap, Goto
    <2>2. Left(q)' = Left(q)
        BY <1>b, <2>1, LeftSame DEF Window
    <2>3. CASE q = FileOf[p]
        <3>1. read_offset'[q] = read_offset[q] % MessageMaxCount
            BY <1>b, <2>1, <2>3 DEF TypeOK
        <3>2. Arc(read_offset[q], Left(q))' = Arc(read_offset'[q], Left(q))
            BY <2>2 DEF Arc, Slots
        <3>3. Arc(read_offset[q] % MessageMaxCount, Left(q)) = Arc(read_offset[q], Left(q))
            BY <1>b, ArcWraps DEF Span
        <3> QED BY <1>a, <3>1, <3>2, <3>3
    <2>4. CASE q # FileOf[p]
        <3>1. read_offset'[q] = read_offset[q]
            BY <1>b, <2>1, <2>4 DEF TypeOK
        <3> QED BY <1>a, <2>2, <3>1, ArcSame
    <2> QED BY <2>3, <2>4
<1>2. CASE p \in Consumers /\ StoreCount(p)
    <2>1. /\ pc[p] = "store" /\ pc' = [pc EXCEPT ![p] = "post"]
          /\ UNCHANGED read_offset
        BY <1>2 DEF StoreCount, Goto
    <2>2. reg[p] = message_count[FileOf[p]] /\ p \notin Producers
        BY <1>2, <2>1, QueueAssumption DEF Sound, RingInv, DequeuingOK
    <2>3. message_count' = [message_count EXCEPT ![FileOf[p]] = message_count[FileOf[p]] - 1]
        BY <1>2, <2>2 DEF StoreCount
    <2>4. CASE q = FileOf[p]
        <3>1. InFlight(q) = 1
            BY <1>2, <2>1, <2>4, OneInFlight DEF Window
        <3>2. \A c \in Consumers : pc'[c] \notin Window
            BY <1>b, <2>1 DEF Sound, SemInv, MutualExclusion, TypeOK, Inside, Window, Procs
        <3>3. InFlight(q)' = 0
            BY <3>2 DEF InFlight
        <3>4. message_count'[q] = message_count[q] - 1 /\ message_count[q] \in Int
            BY <1>b, <2>3, <2>4 DEF TypeOK
        <3>5. Left(q)' = Left(q)
            BY <3>1, <3>3, <3>4 DEF Left
        <3> QED BY <1>a, <2>1, <3>5, ArcSame
    <2>5. CASE q # FileOf[p]
        <3>1. message_count'[q] = message_count[q]
            BY <1>b, <2>3, <2>5 DEF TypeOK
        <3>2. Left(q)' = Left(q)
            BY <1>b, <2>1, <2>5, <3>1, OtherFiles
        <3> QED BY <1>a, <2>1, <3>2, ArcSame
    <2> QED BY <2>4, <2>5
<1>3. CASE ~ (p \in Consumers /\ (DequeueWrap(p) \/ StoreCount(p)))
    <2>1. /\ UNCHANGED <<read_offset, message_count>>
          /\ \E s : /\ pc' = [pc EXCEPT ![p] = s]
                    /\ p \in Consumers => (pc[p] \in Window <=> s \in Window)
        <3> USE DEF Goto, Window, header
        <3>1. CASE Killed(p) /\ pc[p] \notin Window
            <4>1. Die(p)
                BY <3>1 DEF Killed, Kill
            <4>2. /\ UNCHANGED <<read_offset, message_count>>
                  /\ pc' = [pc EXCEPT ![p] = "dead"]
                BY <4>1 DEF Die
            <4>3. p \in Consumers => (pc[p] \in Window <=> "dead" \in Window)
                BY <3>1
            <4> HIDE DEF Window
            <4> QED BY <4>2, <4>3
        <3>2. CASE Enqueue(p)
            BY <3>2, QueueAssumption
               DEF Enqueue, EnqueueFull, EnqueueAccept, EnqueueCopy, EnqueueAdvance,
                   EnqueueWrap
        <3>3. CASE Start(p) \/ LoadCount(p) \/ pq_dequeue(p) \/ semaphore_wait(p)
            BY <3>3 DEF Start, worker_init, worker_spawn, pq_init, LoadCount, pq_dequeue,
                        semaphore_wait
        <3>4. CASE \/ DequeueEmpty(p) \/ DequeueAccept(p) \/ DequeueCopy(p)
                   \/ semaphore_post(p) \/ MemoryFault(p)
                   \/ \E m \in Mail : pq_enqueue(p, m)
            BY <3>4 DEF DequeueEmpty, DequeueAccept, DequeueCopy, semaphore_post,
                        MemoryFault, Die, pq_enqueue
        <3>5. ~ DequeueWrap(p) /\ ~ (p \in Consumers /\ StoreCount(p))
            BY <1>3 DEF DequeueWrap
        <3> QED BY <3>1, <3>2, <3>3, <3>4, <3>5 DEF Work
    <2>2. Left(q)' = Left(q)
        BY <1>b, <2>1, LeftSame
    <2> QED BY <1>a, <2>1, <2>2, ArcSame
<1> QED BY <1>1, <1>2, <1>3

\* The steps that owe the disk nothing.
LEMMA WorkSound ==
    ASSUME InitOnlyWhenQuiet, ~Interrupts, Sound, NEW p \in Procs, Work(p)
    PROVE  Sound'
<1>1. Step(p) /\ UNCHANGED diskVars
    BY ProcessSteps DEF Work
<1>2. Kill(p) => pc[p] \notin Window
    <2>1. pc'[p] # "dead" \/ pc[p] = "copy"
        BY DEF Work, Start, worker_init, worker_spawn, pq_init, Enqueue, EnqueueFull,
               EnqueueAccept, EnqueueCopy, EnqueueAdvance, EnqueueWrap, LoadCount,
               pq_enqueue, pq_dequeue, semaphore_wait, DequeueEmpty, DequeueAccept,
               DequeueCopy, DequeueWrap, StoreCount, semaphore_post, MemoryFault,
               Goto, Sound, TypeOK
    <2>2. Kill(p) => pc'[p] = "dead"
        BY DEF Kill, Die, Sound, TypeOK
    <2> QED BY <2>1, <2>2 DEF Window
<1>3. TypeOK' /\ SemInv' /\ RingInv'
    BY <1>1, <1>2, ProcessSound
<1>4. DiskTypes' /\ OnDisk'
    BY <1>1 DEF Sound, DiskTypes, OnDisk, diskVars, Slots, Arc
<1>5. FlushInv' /\ InMapping'
    BY FlushKept, WorkKeepsMapping
<1> QED BY <1>3, <1>4, <1>5 DEF Sound

\* A mailhandler takes the oldest mail: read_offset leaves exactly its slot behind.
LEMMA RemoveSound ==
    ASSUME InitOnlyWhenQuiet, ~Interrupts, Sound, NEW p \in Procs, Remove(p)
    PROVE  Sound'
<1> DEFINE f == FileOf[p]
<1>a. /\ MessageMaxCount \in Nat \ {0} /\ FileOf \in [Procs -> Queues]
      /\ TypeOK /\ MutualExclusion /\ RingInv /\ DiskTypes
    BY QueueAssumption DEF Sound, SemInv
<1>1. /\ p \in Consumers /\ pc[p] = "advance" /\ pc' = [pc EXCEPT ![p] = "wrap"]
      /\ read_offset' = [read_offset EXCEPT ![f] = @ + 1]
      /\ UNCHANGED message_count
      /\ accepted' = [accepted EXCEPT ![f] = @ \ {read_offset[f]}]
      /\ UNCHANGED <<diskHeader, diskMemory, flush>>
    BY DEF Remove, DequeueAdvance, Goto
<1>2. TypeOK' /\ SemInv' /\ RingInv'
    <2>1. Step(p) /\ (Kill(p) => pc[p] \notin Window)
        BY <1>1, ProcessSteps DEF Window
    <2> QED BY <2>1, ProcessSound
<1>3. \A q \in Queues : accepted'[q] \subseteq accepted[q]
    BY <1>1, <1>a DEF DiskTypes
<1>4. DiskTypes'
    BY <1>1, <1>a DEF DiskTypes, Slots
<1>5. OnDisk'
    BY <1>1, <1>3 DEF Sound, OnDisk, Arc, Slots
<1>6. FlushInv'
    BY FlushKept
<1>7. ASSUME NEW q \in Queues
      PROVE  accepted'[q] \subseteq Arc(read_offset[q], Left(q))'
    <2>1. accepted[q] \subseteq Arc(read_offset[q], Left(q))
        BY DEF Sound, InMapping
    <2>2. CASE q = f
        <3>1. /\ read_offset[q] \in Slots
              /\ message_count[q] \in 1 .. MessageMaxCount
            BY <1>1, <1>a, <2>2, RestWhenAlone
               DEF RestOK, RingInv, DequeuingOK, Inside, Window
        <3>2. InFlight(q) = 0
            BY <1>1, <1>a, <2>2, NoneInFlightAlone DEF Inside, Window
        <3>3. pc'[p] \in Window
            BY <1>1, <1>a DEF TypeOK, Window
        <3>4. InFlight(q)' = 1
            BY <1>1, <2>2, <3>3 DEF InFlight
        <3>5. /\ Left(q) = message_count[q] /\ Left(q)' = message_count[q] - 1
              /\ read_offset'[q] = read_offset[q] + 1
              /\ accepted'[q] = accepted[q] \ {read_offset[q]}
            BY <1>1, <1>a, <2>2, <3>1, <3>2, <3>4 DEF Left, TypeOK, DiskTypes
        <3>6. Arc(read_offset[q], message_count[q]) \ {read_offset[q]}
                 \subseteq Arc(read_offset[q] + 1, message_count[q] - 1)
            BY <3>1, ArcDrops
        <3>7. Arc(read_offset[q], Left(q))' = Arc(read_offset[q] + 1, message_count[q] - 1)
            BY <3>5 DEF Arc, Slots
        <3> QED BY <2>1, <3>5, <3>6, <3>7
    <2>3. CASE q # f
        <3>1. read_offset'[q] = read_offset[q]
            BY <1>1, <1>a, <2>3 DEF TypeOK
        <3>2. Left(q)' = Left(q)
            BY <1>1, <1>a, <2>3, OtherFiles
        <3> QED BY <1>3, <2>1, <3>1, <3>2, ArcSame
    <2> QED BY <2>2, <2>3
<1> QED BY <1>2, <1>4, <1>5, <1>6, <1>7 DEF Sound, InMapping

\* A process that dies outside the window leaves what it had accepted.
LEMMA KilledSound ==
    ASSUME InitOnlyWhenQuiet, ~Interrupts, Sound, NEW p \in Procs, Killed(p),
           pc[p] \notin Window
    PROVE  Sound'
<1>1. TypeOK' /\ SemInv' /\ RingInv'
    BY ProcessSteps, ProcessSound
<1>2. UNCHANGED <<diskHeader, diskMemory, accepted>>
    BY DEF Killed
<1>3. flush' \in [Producers -> {"none", "header", "slot", "done"}]
    BY DEF Killed, Sound, DiskTypes
<1>4. DiskTypes' /\ OnDisk'
    BY <1>2, <1>3 DEF Sound, DiskTypes, OnDisk, Slots, Arc
<1>5. FlushInv' /\ InMapping'
    BY FlushKept, WorkKeepsMapping
<1> QED BY <1>1, <1>4, <1>5 DEF Sound

-----------------------------------------------------------------------------
(* The steps of pq_enqueue behind its copy. *)

\* A worker that stores message_count has the mail counted, and nothing on disk yet.
LEMMA CountSound ==
    ASSUME InitOnlyWhenQuiet, ~Interrupts, Sound, NEW p \in Producers, Count(p)
    PROVE  Sound'
<1> DEFINE f == FileOf[p]
<1>a. /\ MessageMaxCount \in Nat \ {0} /\ FileOf \in [Procs -> Queues]
      /\ p \in Procs /\ p \notin Consumers
      /\ TypeOK /\ MutualExclusion /\ RingInv /\ DiskTypes
    BY QueueAssumption DEF Sound, SemInv, Procs
<1>1. /\ pc[p] = "store" /\ pc' = [pc EXCEPT ![p] = "post"]
      /\ UNCHANGED <<write_offset, read_offset>>
      /\ message_count' = [message_count EXCEPT ![f] = reg[p] + 1]
      /\ flush' = [flush EXCEPT ![p] = "header"]
      /\ UNCHANGED <<diskHeader, diskMemory, accepted>>
    BY <1>a DEF Count, StoreCount, Goto
<1>2. TypeOK' /\ SemInv' /\ RingInv'
    <2>1. Kill(p) => pc'[p] # "post"
        BY <1>a DEF Kill, Die, TypeOK
    <2>2. pc'[p] = "post"
        BY <1>1, <1>a DEF TypeOK
    <2> QED BY <1>a, <2>1, <2>2, ProcessSteps, ProcessSound
<1>3. reg[p] = message_count[f] /\ message_count[f] \in 0 .. MessageMaxCount - 1
    BY <1>1, <1>a DEF RingInv, EnqueuingOK, Window
<1>4. message_count'[f] = message_count[f] + 1
    BY <1>1, <1>3, <1>a DEF TypeOK
<1>5. DiskTypes' /\ OnDisk'
    BY <1>1, <1>a DEF Sound, DiskTypes, OnDisk, Slots, Arc
<1>6. ASSUME NEW r \in Producers, flush'[r] # "none"
      PROVE  /\ pc'[r] = "post" /\ message_count'[FileOf[r]] >= 1
             /\ flush'[r] = "header"
    <2>1. r = p
        <3>1. r # p => flush[r] # "none"
            BY <1>1, <1>6, <1>a DEF DiskTypes
        <3>2. r # p => pc[r] \in Inside /\ pc[p] \in Inside
            BY <1>1, <3>1 DEF Sound, FlushInv, Inside
        <3> QED BY <3>2, <1>a DEF MutualExclusion, Procs
    <2> QED BY <1>1, <1>3, <1>4, <1>a, <2>1 DEF TypeOK, DiskTypes
<1>7. ASSUME NEW q \in Queues
      PROVE  accepted'[q] \subseteq Arc(read_offset[q], Left(q))'
    <2>1. accepted'[q] \subseteq Arc(read_offset[q], Left(q))
        BY <1>1 DEF Sound, InMapping
    <2>2. \A c \in Consumers : pc'[c] = pc[c]
        BY <1>1, <1>a DEF TypeOK, Procs
    <2>3. InFlight(q)' = InFlight(q) /\ InFlight(q) \in {0, 1}
        BY <2>2 DEF InFlight
    <2>4. /\ message_count[q] \in Int /\ message_count'[q] \in Int
          /\ message_count[q] <= message_count'[q] /\ read_offset[q] \in Nat
        BY <1>1, <1>3, <1>4, <1>a DEF TypeOK
    <2>5. Left(q) \in Int /\ Left(q)' \in Int /\ Left(q) <= Left(q)'
        BY <2>3, <2>4 DEF Left
    <2>6. Arc(read_offset[q], Left(q)) \subseteq Arc(read_offset[q], Left(q)')
        BY <2>4, <2>5, ArcGrows
    <2>7. Arc(read_offset[q], Left(q))' = Arc(read_offset[q], Left(q)')
        BY <1>1 DEF Arc, Slots
    <2> QED BY <2>1, <2>6, <2>7
<1>8. FlushInv'
    BY <1>6 DEF FlushInv
<1> QED BY <1>2, <1>5, <1>7, <1>8 DEF Sound, InMapping

\* A step that leaves the mapping and the processes alone keeps what PersistedQueue
\* knows of them.
LEMMA MappingFrame ==
    ASSUME Sound, UNCHANGED vars
    PROVE  /\ TypeOK' /\ SemInv' /\ RingInv'
           /\ \A q \in Queues : /\ HeaderOf(q)' = HeaderOf(q)
                                /\ Arc(read_offset[q], Left(q))' = Arc(read_offset[q], Left(q))
<1>1. UNCHANGED <<write_offset, read_offset, message_count, memory, semval, semadj,
                  pc, mail, reg>>
    BY DEF vars, header, sem
<1>2. TypeOK' /\ SemInv' /\ RingInv'
    BY QueueFrame DEF Sound
<1>3. ASSUME NEW q \in Queues
      PROVE  /\ HeaderOf(q)' = HeaderOf(q)
             /\ Arc(read_offset[q], Left(q))' = Arc(read_offset[q], Left(q))
    <2>1. InFlight(q)' = InFlight(q)
        BY <1>1 DEF InFlight
    <2>2. Left(q)' = Left(q)
        BY <1>1, <2>1 DEF Left
    <2> QED BY <1>1, <2>2, ArcSame DEF HeaderOf
<1> QED BY <1>2, <1>3

\* The header of a file as the disk may hold it, and what it counts.
LEMMA HeaderWritten ==
    ASSUME Sound, NEW q \in Queues
    PROVE  /\ HeaderOf(q) \in [write : Nat, read : 0 .. MessageMaxCount,
                               count : 0 .. MessageMaxCount]
           /\ accepted[q] \subseteq Arc(HeaderOf(q).read, HeaderOf(q).count)
<1>1. Span(q) /\ write_offset[q] \in Nat /\ MessageMaxCount \in Nat
    BY SpanHolds, QueueAssumption DEF Sound, SemInv, TypeOK
<1>2. InFlight(q) \in {0, 1}
    BY DEF InFlight
<1>3. Left(q) \in Int /\ message_count[q] \in Int /\ Left(q) <= message_count[q]
    BY <1>1, <1>2 DEF Left, Span
<1>4. Arc(read_offset[q], Left(q)) \subseteq Arc(read_offset[q], message_count[q])
    BY <1>1, <1>3, ArcGrows DEF Span
<1> QED BY <1>1, <1>4 DEF HeaderOf, Span, Sound, InMapping

\* The header page reaches the disk: by the msync of pq_header_sync or because the
\* kernel writes it back, in the middle of a call too.
LEMMA HeaderSound ==
    ASSUME Sound, NEW q \in Queues, UNCHANGED vars,
           diskHeader' = [diskHeader EXCEPT ![q] = HeaderOf(q)],
           UNCHANGED <<diskMemory, accepted>>,
           \/ UNCHANGED flush
           \/ \E p \in Producers : /\ FileOf[p] = q /\ flush[p] = "header"
                                   /\ flush' = [flush EXCEPT ![p] = "slot"]
    PROVE  Sound'
<1>1. TypeOK' /\ SemInv' /\ RingInv'
    BY MappingFrame
<1>2. /\ diskHeader'[q] = HeaderOf(q)
      /\ \A r \in Queues \ {q} : diskHeader'[r] = diskHeader[r]
    BY DEF Sound, DiskTypes
<1>3. DiskTypes'
    BY HeaderWritten DEF Sound, DiskTypes, Slots
<1>4. OnDisk'
    <2> SUFFICES ASSUME NEW r \in Queues
                 PROVE  accepted[r] \subseteq Arc(diskHeader'[r].read, diskHeader'[r].count)
        BY DEF OnDisk, Arc, Slots
    <2>1. CASE r = q
        BY <1>2, <2>1, HeaderWritten
    <2>2. CASE r # q
        BY <1>2, <2>2 DEF Sound, OnDisk
    <2> QED BY <2>1, <2>2
<1>5. InMapping'
    BY MappingFrame DEF Sound, InMapping
<1>6. ASSUME NEW r \in Producers
      PROVE  /\ flush'[r] # "none" => pc'[r] = "post" /\ message_count'[FileOf[r]] >= 1
             /\ flush'[r] \in {"slot", "done"} =>
                    diskHeader'[FileOf[r]] = HeaderOf(FileOf[r])'
    <2>1. UNCHANGED <<pc, message_count>>
        BY DEF vars, header
    <2>2. flush'[r] # "none" => flush[r] # "none"
        BY DEF Sound, DiskTypes
    <2>3. FileOf[r] \in Queues
        BY QueueAssumption DEF Procs
    <2>4. flush'[r] \in {"slot", "done"} => FileOf[r] = q \/ flush[r] \in {"slot", "done"}
        BY DEF Sound, DiskTypes
    <2> QED BY <1>2, <2>1, <2>2, <2>3, <2>4, MappingFrame DEF Sound, FlushInv
<1>7. FlushInv'
    BY <1>6 DEF FlushInv
<1> QED BY <1>1, <1>3, <1>4, <1>5, <1>7 DEF Sound

\* A slot reaches the disk, or its msync fails; no header and no promise changes.
LEMMA SlotSound ==
    ASSUME Sound, UNCHANGED <<vars, diskHeader, accepted>>,
           diskMemory' \in [Queues -> [Slots -> Mail \cup {NoMail}]],
           \/ UNCHANGED flush
           \/ \E p \in Producers : /\ flush[p] = "slot"
                                   /\ flush' = [flush EXCEPT ![p] = "done"]
    PROVE  Sound'
<1>1. TypeOK' /\ SemInv' /\ RingInv'
    BY MappingFrame
<1>2. flush' \in [Producers -> {"none", "header", "slot", "done"}]
    BY DEF Sound, DiskTypes
<1>3. DiskTypes' /\ OnDisk'
    BY <1>2 DEF Sound, DiskTypes, OnDisk, Slots, Arc
<1>4. InMapping'
    BY MappingFrame DEF Sound, InMapping
<1>5. ASSUME NEW r \in Producers
      PROVE  /\ flush'[r] # "none" => pc'[r] = "post" /\ message_count'[FileOf[r]] >= 1
             /\ flush'[r] \in {"slot", "done"} =>
                    diskHeader'[FileOf[r]] = HeaderOf(FileOf[r])'
    <2>1. UNCHANGED <<pc, message_count>>
        BY DEF vars, header
    <2>2. /\ flush'[r] # "none" => flush[r] # "none"
          /\ flush'[r] \in {"slot", "done"} => flush[r] \in {"slot", "done"}
        BY DEF Sound, DiskTypes
    <2>3. FileOf[r] \in Queues
        BY QueueAssumption DEF Procs
    <2> QED BY <2>1, <2>2, <2>3, MappingFrame DEF Sound, FlushInv
<1>6. FlushInv'
    BY <1>5 DEF FlushInv
<1> QED BY <1>1, <1>3, <1>4, <1>6 DEF Sound

\* The slot that was filled last is the last of the ring.
LEMMA FilledInArc ==
    ASSUME NEW p \in Producers, RestOK(FileOf[p]), message_count[FileOf[p]] >= 1
    PROVE  /\ Filled(p) \in Slots
           /\ Filled(p) \in Arc(read_offset[FileOf[p]], message_count[FileOf[p]])
<1> DEFINE w == write_offset[FileOf[p]]
<1>1. MessageMaxCount \in Nat \ {0} /\ w \in Slots
    BY QueueAssumption DEF RestOK
<1>2. PICK x \in 0 .. 2 * MessageMaxCount - 1 : x = w + MessageMaxCount - 1
    BY <1>1 DEF Slots
<1>3. x % MessageMaxCount = IF x < MessageMaxCount THEN x ELSE x - MessageMaxCount
    BY ModOnce
<1>4. Filled(p) = IF w = 0 THEN MessageMaxCount - 1 ELSE w - 1
    BY <1>1, <1>2, <1>3 DEF Filled, Slots
<1> QED BY <1>1, <1>4 DEF Arc, RestOK, Agree, Slots

\* pq_enqueue returns 0: the mail it promises is counted by the mapping, and behind
\* the msync of the header by the disk as well.
LEMMA ReturnSound ==
    ASSUME InitOnlyWhenQuiet, ~Interrupts, Sound, NEW p \in Producers, Return(p)
    PROVE  Sound'
<1> DEFINE f == FileOf[p]
<1>a. /\ MessageMaxCount \in Nat \ {0} /\ FileOf \in [Procs -> Queues]
      /\ p \in Procs /\ p \notin Consumers
      /\ TypeOK /\ MutualExclusion /\ RingInv /\ DiskTypes
    BY QueueAssumption DEF Sound, SemInv, Procs
<1>1. /\ pc[p] = "post" /\ pc' = [pc EXCEPT ![p] = "idle"]
      /\ UNCHANGED <<write_offset, read_offset, message_count>>
      /\ flush' = [flush EXCEPT ![p] = "none"]
      /\ accepted' = [accepted EXCEPT ![f] =
                         IF flush[p] = "done" THEN @ \cup {Filled(p)} ELSE @]
      /\ UNCHANGED <<diskHeader, diskMemory>>
    BY DEF Return, semaphore_post, Goto, header
<1>2. TypeOK' /\ SemInv' /\ RingInv'
    BY <1>1, <1>a, ProcessSteps, ProcessSound DEF Window
<1>3. RestOK(f)
    BY <1>1, <1>a, RestWhenAlone DEF Inside, Window
<1>4. ASSUME flush[p] = "done"
      PROVE  /\ Filled(p) \in Slots
             /\ Filled(p) \in Arc(read_offset[f], message_count[f])
             /\ diskHeader[f] = HeaderOf(f)
    BY <1>3, <1>4, FilledInArc DEF Sound, FlushInv
<1>5. DiskTypes'
    <2>1. accepted' \in [Queues -> SUBSET Slots]
        BY <1>1, <1>4, <1>a DEF DiskTypes
    <2>2. flush' \in [Producers -> {"none", "header", "slot", "done"}]
        BY <1>1, <1>a DEF DiskTypes
    <2> QED BY <1>1, <1>a, <2>1, <2>2 DEF DiskTypes, Slots
<1>6. ASSUME NEW q \in Queues
      PROVE  /\ accepted'[q] \subseteq Arc(read_offset[q], Left(q))'
             /\ accepted'[q] \subseteq Arc(diskHeader[q].read, diskHeader[q].count)
    <2>1. /\ accepted[q] \subseteq Arc(read_offset[q], Left(q))
          /\ accepted[q] \subseteq Arc(diskHeader[q].read, diskHeader[q].count)
        BY DEF Sound, InMapping, OnDisk
    <2>2. Left(q)' = Left(q)
        BY <1>1, <1>a, LeftSame
    <2>3. Arc(read_offset[q], Left(q))' = Arc(read_offset[q], Left(q))
        BY <1>1, <2>2, ArcSame
    <2>4. CASE q = f /\ flush[p] = "done"
        <3>1. accepted'[q] = accepted[q] \cup {Filled(p)}
            BY <1>1, <1>a, <2>4 DEF DiskTypes
        <3>2. InFlight(q) = 0
            BY <1>1, <1>a, <2>4, NoneInFlightAlone DEF Inside
        <3>3. Left(q) = message_count[q]
            BY <1>3, <2>4, <3>2, <1>a DEF Left, RestOK
        <3>4. /\ diskHeader[q].read = read_offset[q]
              /\ diskHeader[q].count = message_count[q]
            BY <1>4, <2>4 DEF HeaderOf
        <3> QED BY <1>4, <2>1, <2>3, <2>4, <3>1, <3>3, <3>4
    <2>5. CASE ~ (q = f /\ flush[p] = "done")
        <3>1. accepted'[q] = accepted[q]
            BY <1>1, <1>a, <2>5 DEF DiskTypes
        <3> QED BY <2>1, <2>3, <3>1
    <2> QED BY <2>4, <2>5
<1>7. InMapping' /\ OnDisk'
    BY <1>1, <1>6 DEF InMapping, OnDisk, Arc, Slots
<1>8. FlushInv'
    <2> SUFFICES ASSUME NEW r \in Producers, flush'[r] # "none" PROVE FALSE
        BY DEF FlushInv
    <2>1. r # p /\ flush[r] # "none"
        BY <1>1, <1>a DEF DiskTypes
    <2>2. pc[r] = "post" /\ r \in Procs
        BY <2>1 DEF Sound, FlushInv, Procs
    <2> QED BY <1>1, <1>a, <2>1, <2>2 DEF MutualExclusion, Inside
<1> QED BY <1>2, <1>5, <1>7, <1>8 DEF Sound

-----------------------------------------------------------------------------
(* The power fails. *)

\* A header whose fields agree on disk is one that the code can start from.
LEMMA PowerFailureSound ==
    ASSUME Sound, PowerFailure, \A q \in Queues : Consistent(diskHeader[q])
    PROVE  Sound'
<1>a. MessageMaxCount \in Nat \ {0} /\ FileOf \in [Procs -> Queues] /\ DiskTypes
    BY QueueAssumption DEF Sound
<1>1. /\ write_offset' = [q \in Queues |-> diskHeader[q].write]
      /\ read_offset' = [q \in Queues |-> diskHeader[q].read]
      /\ message_count' = [q \in Queues |-> diskHeader[q].count]
      /\ memory' = diskMemory /\ semval' = 1
      /\ semadj' = [p \in Procs |-> 0] /\ pc' = [p \in Procs |-> "dead"]
      /\ mail' = [p \in Procs |-> NoMail] /\ reg' = [p \in Procs |-> 0]
      /\ flush' = [p \in Producers |-> "none"]
      /\ UNCHANGED <<diskHeader, diskMemory, accepted>>
    BY DEF PowerFailure
<1>2. TypeOK'
    <2>1. /\ write_offset' \in [Queues -> Nat] /\ read_offset' \in [Queues -> Nat]
          /\ message_count' \in [Queues -> Int]
        BY <1>1, <1>a DEF DiskTypes
    <2>2. memory' \in [Queues -> [Slots -> Mail \cup {NoMail}]]
        BY <1>1, <1>a DEF DiskTypes
    <2> QED BY <1>1, <2>1, <2>2 DEF TypeOK, PCs, Slots
<1>3. SemInv'
    BY <1>1 DEF SemInv, MutualExclusion, Inside
<1>4. ASSUME NEW q \in Queues PROVE RestOK(q)'
    <2>1. /\ diskHeader[q].read \in Slots
          /\ diskHeader[q].count \in 0 .. MessageMaxCount
          /\ diskHeader[q].write =
                 (diskHeader[q].read + diskHeader[q].count) % MessageMaxCount
        BY <1>a DEF DiskTypes, Consistent
    <2>2. PICK x \in 0 .. 2 * MessageMaxCount - 1 :
              x = diskHeader[q].read + diskHeader[q].count
        BY <1>a, <2>1 DEF Slots
    <2>3. x % MessageMaxCount = IF x < MessageMaxCount THEN x ELSE x - MessageMaxCount
        BY ModOnce
    <2>4. /\ diskHeader[q].write \in Slots
          /\ Agree(diskHeader[q].read, diskHeader[q].count, diskHeader[q].write)
        BY <1>a, <2>1, <2>2, <2>3 DEF Agree, Slots
    <2> QED BY <1>1, <2>1, <2>4 DEF RestOK, Agree, Slots
<1>5. RingInv'
    BY <1>1, <1>4 DEF RingInv, EnqueuingOK, DequeuingOK, Window, Procs
<1>6. DiskTypes' /\ FlushInv' /\ OnDisk'
    BY <1>1, <1>a DEF Sound, DiskTypes, FlushInv, OnDisk, Slots, Arc
<1>7. ASSUME NEW q \in Queues
      PROVE  accepted'[q] \subseteq Arc(read_offset[q], Left(q))'
    <2>1. InFlight(q)' = 0
        BY <1>1 DEF InFlight, Window, Procs
    <2>2. Left(q)' = diskHeader[q].count /\ read_offset'[q] = diskHeader[q].read
        BY <1>1, <1>a, <2>1 DEF Left, DiskTypes
    <2>3. Arc(read_offset[q], Left(q))' = Arc(diskHeader[q].read, diskHeader[q].count)
        BY <2>2 DEF Arc, Slots
    <2> QED BY <1>1, <2>3 DEF Sound, OnDisk
<1> QED BY <1>2, <1>3, <1>5, <1>6, <1>7 DEF Sound, InMapping

-----------------------------------------------------------------------------
\* Every step of the processes, of the kernel and of the power supply keeps the
\* invariant.
LEMMA DurableStep ==
    ASSUME InitOnlyWhenQuiet, ~Interrupts, DurableInv, [DurableNext]_durableVars
    PROVE  DurableInv'
<1> SUFFICES ASSUME ~ torn' PROVE Sound'
    BY DEF DurableInv
<1>t. ~ torn /\ Sound
    <2>1. torn => torn'
        BY DEF DurableNext, Work, Remove, Killed, Count, pq_header_sync, msync_message,
               Return, WriteBackHeader, WriteBackSlot, PowerFailure, durableVars, diskVars
    <2> QED BY <2>1 DEF DurableInv
<1>u. CASE UNCHANGED durableVars
    <2>1. UNCHANGED vars /\ UNCHANGED diskVars
        BY <1>u DEF durableVars
    <2>2. diskMemory' \in [Queues -> [Slots -> Mail \cup {NoMail}]]
        BY <1>t, <2>1 DEF Sound, DiskTypes, diskVars
    <2> QED BY <1>t, <2>1, <2>2, SlotSound DEF diskVars
<1>1. ASSUME NEW p \in Procs, Work(p) \/ Remove(p) \/ Killed(p) PROVE Sound'
    <2>1. CASE Work(p)
        BY <1>t, <2>1, WorkSound
    <2>2. CASE Remove(p)
        BY <1>t, <2>2, RemoveSound
    <2>3. CASE Killed(p)
        <3>1. pc[p] \notin Window
            BY <2>3 DEF Killed
        <3> QED BY <1>t, <2>3, <3>1, KilledSound
    <2> QED BY <1>1, <2>1, <2>2, <2>3
<1>2. ASSUME NEW p \in Producers,
             Count(p) \/ pq_header_sync(p) \/ msync_message(p) \/ Return(p)
      PROVE  Sound'
    <2>a. FileOf[p] \in Queues
        BY QueueAssumption DEF Procs
    <2>1. CASE Count(p)
        BY <1>t, <2>1, CountSound
    <2>2. CASE pq_header_sync(p)
        BY <1>t, <2>a, <2>2, HeaderSound DEF pq_header_sync
    <2>3. CASE msync_message(p)
        <3>1. diskMemory' \in [Queues -> [Slots -> Mail \cup {NoMail}]]
            BY <1>t, <2>a, <2>3 DEF msync_message, Sound, DiskTypes, TypeOK
        <3> QED BY <1>t, <2>3, <3>1, SlotSound DEF msync_message
    <2>4. CASE Return(p)
        BY <1>t, <2>4, ReturnSound
    <2> QED BY <1>2, <2>1, <2>2, <2>3, <2>4
<1>3. ASSUME NEW q \in Queues, WriteBackHeader(q) PROVE Sound'
    BY <1>t, <1>3, HeaderSound DEF WriteBackHeader
<1>4. ASSUME NEW q \in Queues, NEW i \in Slots, WriteBackSlot(q, i) PROVE Sound'
    <2>1. diskMemory' \in [Queues -> [Slots -> Mail \cup {NoMail}]]
        BY <1>t, <1>4 DEF WriteBackSlot, Sound, DiskTypes, TypeOK
    <2> QED BY <1>t, <1>4, <2>1, SlotSound DEF WriteBackSlot
<1>5. CASE PowerFailure
    <2>1. \A q \in Queues : Consistent(diskHeader[q])
        BY <1>5 DEF PowerFailure
    <2> QED BY <1>t, <1>5, <2>1, PowerFailureSound
<1> QED BY <1>u, <1>1, <1>2, <1>3, <1>4, <1>5 DEF DurableNext

\* When pq_init runs only in quiet moments and no sleeping semop is interrupted,
\* a mail whose pq_enqueue has returned 0 stays among those the header on disk counts
\* until a mailhandler takes it: across kills at any instruction, any order of
\* write-back and any number of power failures, unless one of them leaves a header
\* half way through a call.
THEOREM NothingForgottenHolds ==
    ASSUME InitOnlyWhenQuiet, ~Interrupts
    PROVE  DurableSpec => []NothingForgotten
<1>1. DurableInv /\ [DurableNext]_durableVars => DurableInv'
    BY DurableStep
<1> QED BY DurableInitial, SoundNothingForgotten, <1>1, PTL DEF DurableSpec

\* Under the same assumptions the three header fields of a file agree whenever no call
\* is half way, across power failures too, unless a half finished header was taken over.
THEOREM RingSurvivesPowerFailure ==
    ASSUME InitOnlyWhenQuiet, ~Interrupts
    PROVE  DurableSpec => [](torn \/ RingConsistent)
<1>1. DurableInv /\ [DurableNext]_durableVars => DurableInv'
    BY DurableStep
<1>2. DurableInv => torn \/ RingConsistent
    BY RingInvConsistent DEF DurableInv, Sound
<1> QED BY DurableInitial, <1>1, <1>2, PTL DEF DurableSpec
=============================================================================
