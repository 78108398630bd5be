------------------------- MODULE QueueStartupProofs -------------------------
(***************************************************************************)
(* The start sequence of a server with one worker provides what the lock   *)
(* of lib-pq rests on: no pq_init falls into a running call.  It takes all *)
(* three of the assumptions below: with a second worker, with a            *)
(* mailhandler left over from an earlier run, or with a mailhandler that   *)
(* is slower than usleep(500000), TLC shows a reset under a running call.  *)
(***************************************************************************)
EXTENDS QueueStartup, PersistedQueueProofs

\* One worker is configured, nothing is left over from an earlier run, and the
\* mailhandler has opened its queue before the master accepts clients.
PlainStart ==
    /\ max_workers = 1
    /\ Survivors = {}
    /\ SleepCoversStartup

-----------------------------------------------------------------------------
(* The inductive invariant. *)

\* Until its pq_init the one mailhandler is not running, nor is any other.
HandlerInv ==
    /\ boot \in 0 .. 2
    /\ forked \subseteq {HandlerSeq[1]}
    /\ boot = 0 => forked = {}
    /\ boot = 0 \/ forked # {} => \A c \in Consumers : pc[c] = "dead"

\* Until the main loop no worker has a mail to queue, and by then the mailhandler
\* has started.
WorkerInv ==
    /\ running => boot = 2 /\ forked = {}
    /\ ~ running => \A p \in Producers : pc[p] \in {"dead", "ready", "idle"}

StartInv == QueueInv /\ HandlerInv /\ WorkerInv

\* Everything is dead and the master is at its first step.
LEMMA StartInitial ==
    ASSUME PlainStart, StartupInit PROVE Init /\ StartInv
<1>1. Init
    BY DEF StartupInit, PlainStart, Init
<1>2. QueueInv
    BY <1>1, QueueInit
<1>3. \A p \in Procs : pc[p] = "dead"
    BY DEF StartupInit, PlainStart, InitWith
<1>4. HandlerInv /\ WorkerInv
    BY <1>3 DEF HandlerInv, WorkerInv, StartupInit, Procs
<1> QED BY <1>1, <1>2, <1>4 DEF StartInv

\* While a reset may still come, nobody is between semaphore_wait and semaphore_post.
LEMMA QuietUntilStarted ==
    ASSUME HandlerInv, WorkerInv, boot = 0 \/ forked # {}
    PROVE  \A r \in Procs : pc[r] \notin Inside
<1>1. ~ running /\ \A c \in Consumers : pc[c] = "dead"
    BY DEF HandlerInv, WorkerInv
<1> QED BY <1>1 DEF WorkerInv, Procs, Inside

\* A plain start has one worker and one mailhandler.
LEMMA OneWorker ==
    ASSUME PlainStart
    PROVE  /\ max_workers = 1 /\ WorkerSeq \in Seq(Producers)
           /\ WorkerSeq[1] \in Producers /\ HandlerSeq[1] \in Consumers
<1>1. max_workers = 1
    BY DEF PlainStart
<1>2. WorkerSeq \in Seq(Producers) /\ Len(WorkerSeq) = 1
    BY <1>1, StartupAssumption DEF max_workers
<1>3. HandlerSeq \in Seq(Consumers) /\ Len(HandlerSeq) = 1
    BY <1>1, StartupAssumption
<1>4. WorkerSeq[1] \in Producers
    BY <1>2
<1>5. HandlerSeq[1] \in Consumers
    BY <1>3
<1> QED BY <1>1, <1>2, <1>4, <1>5

\* With one worker, worker_init comes first and the mailhandler's pq_init before the
\* main loop.
LEMMA StartIsQuiet ==
    ASSUME PlainStart, TypeOK, HandlerInv, WorkerInv, StartupNext
    PROVE  UNCHANGED vars \/ \E p \in Procs : QuietStep(p)
<1> USE DEF Goto
<1>a. /\ max_workers = 1 /\ WorkerSeq \in Seq(Producers)
      /\ WorkerSeq[1] \in Producers
    BY OneWorker
<1>b. \A p \in Procs : pc' = [pc EXCEPT ![p] = "dead"] => pc'[p] = "dead"
    BY DEF TypeOK
<1>1. CASE master_server_init
    <2>1. boot = 0 /\ worker_init(WorkerSeq[1])
        BY <1>1, <1>a DEF master_server_init, HandlerInv
    <2>2. /\ pc[WorkerSeq[1]] = "dead" /\ WorkerSeq[1] \in Procs
        BY <2>1, <1>a DEF worker_init, Procs
    <2> QED BY <2>1, <2>2, QuietUntilStarted
            DEF QuietStep, Step, Start, semaphore_interrupted, Window
<1>2. CASE spawn_workers
    <2>1. boot = 1 /\ worker_spawn(WorkerSeq[1])
        BY <1>2, <1>a DEF spawn_workers, HandlerInv
    <2>2. /\ pc[WorkerSeq[1]] = "ready" /\ WorkerSeq[1] \in Procs
        BY <2>1, <1>a DEF worker_spawn, Procs
    <2> QED BY <2>1, <2>2
            DEF QuietStep, Step, Start, semaphore_interrupted, worker_init, pq_init, Window
<1>3. CASE enter_main_loop
    BY <1>3 DEF enter_main_loop
<1>4. ASSUME NEW c \in Consumers, mailhandler_start(c)
      PROVE  \E p \in Procs : QuietStep(p)
    <2>1. forked # {} /\ pq_init(c) /\ pc[c] = "dead" /\ c \in Procs
        BY <1>4 DEF mailhandler_start, pq_init, Procs
    <2> QED BY <2>1, QuietUntilStarted
            DEF QuietStep, Step, Start, semaphore_interrupted, Window
<1>5. ASSUME NEW p \in Procs, Serve(p) PROVE QuietStep(p)
    <2>1. Step(p)
        BY <1>5 DEF Serve, Step
    <2>2. CASE (\E m \in Mail : pq_enqueue(p, m)) \/ pq_dequeue(p) \/ semaphore_wait(p)
        <3>1. pc[p] \in {"idle", "wait"} /\ (pc[p] = "wait" => semval > 0)
            BY <2>2 DEF pq_enqueue, pq_dequeue, semaphore_wait
        <3> QED BY <2>1, <3>1
                DEF QuietStep, semaphore_interrupted, worker_init, pq_init, Window, TypeOK
    <2>3. CASE Progress(p)
        <3>1. pc[p] \in Inside /\ (pc'[p] # "dead" \/ pc[p] = "copy")
            BY <2>3 DEF Progress, Enqueue, EnqueueFull, EnqueueAccept, EnqueueCopy,
                        EnqueueAdvance, EnqueueWrap, Dequeue, DequeueEmpty, DequeueAccept,
                        DequeueCopy, DequeueAdvance, DequeueWrap, LoadCount, StoreCount,
                        semaphore_post, MemoryFault, Inside, TypeOK
        <3>2. Kill(p) => pc'[p] = "dead"
            BY <1>b DEF Kill, Die
        <3> QED BY <2>1, <3>1, <3>2
                DEF QuietStep, semaphore_interrupted, worker_init, pq_init, Window, Inside
    <2> QED BY <1>5, <2>2, <2>3 DEF Serve
<1> QED BY <1>1, <1>2, <1>3, <1>4, <1>5 DEF StartupNext

-----------------------------------------------------------------------------
(* The steps keep the invariant. *)

\* A process that is not running does nothing by itself, and a worker without clients
\* does nothing at all.
LEMMA ServeKeepsStart ==
    ASSUME TypeOK, HandlerInv, WorkerInv, NEW p \in Procs, Serve(p)
    PROVE  HandlerInv' /\ WorkerInv'
<1> USE DEF Goto
<1>1. UNCHANGED <<boot, forked, running>>
    BY DEF Serve, bootVars
<1>2. /\ pc[p] # "dead"
      /\ pc[p] = "idle" => running \/ p \in Consumers
      /\ pc[p] # "ready"
      /\ \E s : pc' = [pc EXCEPT ![p] = s]
    BY DEF Serve, pq_enqueue, pq_dequeue, semaphore_wait, Progress, Enqueue, EnqueueFull,
           EnqueueAccept, EnqueueCopy, EnqueueAdvance, EnqueueWrap, Dequeue, DequeueEmpty,
           DequeueAccept, DequeueCopy, DequeueAdvance, DequeueWrap, LoadCount, StoreCount,
           semaphore_post, MemoryFault, Die
<1>3. \A r \in Procs \ {p} : pc'[r] = pc[r]
    BY <1>2 DEF TypeOK
<1>4. HandlerInv'
    <2>1. CASE p \in Producers
        BY <1>1, <1>3, <2>1, QueueAssumption DEF HandlerInv, Procs
    <2>2. CASE p \in Consumers
        BY <1>1, <1>2, <2>2 DEF HandlerInv
    <2> QED BY <2>1, <2>2 DEF Procs
<1>5. WorkerInv'
    <2>1. CASE p \in Producers
        BY <1>1, <1>2, <2>1, QueueAssumption DEF WorkerInv
    <2>2. CASE p \in Consumers
        BY <1>1, <1>3, <2>2, QueueAssumption DEF WorkerInv, Procs
    <2> QED BY <2>1, <2>2 DEF Procs
<1> QED BY <1>4, <1>5

\* The steps of the master and of the mailhandlers' starts.
LEMMA BootKeepsStart ==
    ASSUME PlainStart, TypeOK, HandlerInv, WorkerInv, StartupNext
    PROVE  HandlerInv' /\ WorkerInv'
<1> USE DEF Goto
<1>a. /\ max_workers = 1 /\ WorkerSeq[1] \in Producers /\ HandlerSeq[1] \in Consumers
      /\ Producers \cap Consumers = {}
    BY OneWorker, QueueAssumption
<1>1. CASE master_server_init
    <2>0. boot = 0 /\ boot + 1 = 1
        BY <1>1, <1>a DEF master_server_init, HandlerInv
    <2>1. /\ boot = 0 /\ boot' = 1 /\ UNCHANGED running
          /\ forked' = forked \cup {HandlerSeq[1]}
          /\ pc' = [pc EXCEPT ![WorkerSeq[1]] = "ready"]
        BY <1>1, <2>0 DEF master_server_init, worker_init
    <2>2. \A c \in Consumers : pc'[c] = "dead"
        BY <2>1, <1>a DEF TypeOK, HandlerInv, Procs
    <2>3. ~ running /\ \A p \in Producers : pc'[p] \in {"dead", "ready", "idle"}
        BY <2>1, <1>a DEF TypeOK, WorkerInv, Procs
    <2> QED BY <2>1, <2>2, <2>3, <1>a DEF HandlerInv, WorkerInv
<1>2. CASE spawn_workers
    <2>1. /\ boot = 1 /\ boot' = 2 /\ UNCHANGED <<running, forked>>
          /\ pc' = [pc EXCEPT ![WorkerSeq[1]] = "idle"]
        BY <1>2, <1>a DEF spawn_workers, worker_spawn, HandlerInv
    <2>2. \A c \in Consumers : pc'[c] = pc[c]
        BY <2>1, <1>a DEF TypeOK, Procs
    <2>3. ~ running /\ \A p \in Producers : pc'[p] \in {"dead", "ready", "idle"}
        BY <2>1, <1>a DEF TypeOK, WorkerInv, Procs
    <2> QED BY <2>1, <2>2, <2>3 DEF HandlerInv, WorkerInv
<1>3. CASE enter_main_loop
    <2>1. /\ boot = 2 /\ forked = {} /\ UNCHANGED <<boot, forked, pc>> /\ running'
        BY <1>3, <1>a DEF enter_main_loop, PlainStart, HandlerInv, vars
    <2> QED BY <2>1 DEF HandlerInv, WorkerInv
<1>4. ASSUME NEW c \in Consumers, mailhandler_start(c) PROVE HandlerInv' /\ WorkerInv'
    <2>1. /\ UNCHANGED <<boot, running>> /\ forked' = forked \ {c} /\ c \in forked
          /\ pc' = [pc EXCEPT ![c] = "idle"]
        BY <1>4 DEF mailhandler_start, pq_init
    <2>2. \A p \in Producers : pc'[p] = pc[p]
        BY <2>1, <1>a DEF TypeOK, Procs
    <2> QED BY <2>1, <2>2 DEF HandlerInv, WorkerInv
<1>5. ASSUME NEW p \in Procs, Serve(p) PROVE HandlerInv' /\ WorkerInv'
    BY <1>5, ServeKeepsStart
<1> QED BY <1>1, <1>2, <1>3, <1>4, <1>5 DEF StartupNext

\* Every step of the start and of the service behind it keeps the invariant, and is
\* one of the bounded FIFO.
LEMMA StartStep ==
    ASSUME PlainStart, StartInv, [StartupNext]_startupVars
    PROVE  StartInv' /\ [Fifo!Next]_(Fifo!vars)
<1>u. CASE UNCHANGED startupVars
    <2>1. UNCHANGED vars /\ UNCHANGED <<pc, boot, forked, running>>
        BY <1>u DEF startupVars, vars, bootVars
    <2>2. HandlerInv' /\ WorkerInv'
        BY <2>1 DEF StartInv, HandlerInv, WorkerInv
    <2> QED BY <2>1, <2>2, QueueStutters DEF StartInv
<1>n. CASE StartupNext
    <2>1. TypeOK
        BY DEF StartInv, QueueInv
    <2>2. HandlerInv' /\ WorkerInv'
        BY <1>n, <2>1, BootKeepsStart DEF StartInv
    <2>3. UNCHANGED vars \/ \E p \in Procs : QuietStep(p)
        BY <1>n, <2>1, StartIsQuiet DEF StartInv
    <2> QED BY <2>2, <2>3, QueueStutters, QueueProcess DEF StartInv
<1> QED BY <1>u, <1>n

-----------------------------------------------------------------------------
(* The start as a PersistedQueue that assumes quiet resets. *)

\* The two instances of lib-pq differ in nothing but the reset.
LEMMA SameCalls ==
    ASSUME NEW p \in Procs
    PROVE  /\ \A m \in Mail : pq_enqueue(p, m) => Quiet!pq_enqueue(p, m)
           /\ pq_dequeue(p) => Quiet!pq_dequeue(p)
           /\ semaphore_wait(p) => Quiet!semaphore_wait(p)
           /\ semaphore_post(p) => Quiet!semaphore_post(p)
           /\ semaphore_interrupted(p) => Quiet!semaphore_interrupted(p)
           /\ worker_spawn(p) => Quiet!worker_spawn(p)
           /\ LoadCount(p) => Quiet!LoadCount(p)
           /\ StoreCount(p) => Quiet!StoreCount(p)
<1> USE DEF Goto, Quiet!Goto, header, Quiet!header, sem, Quiet!sem
<1>1. /\ \A m \in Mail : pq_enqueue(p, m) => Quiet!pq_enqueue(p, m)
      /\ pq_dequeue(p) => Quiet!pq_dequeue(p)
    BY DEF pq_enqueue, Quiet!pq_enqueue, pq_dequeue, Quiet!pq_dequeue
<1>2. /\ semaphore_wait(p) => Quiet!semaphore_wait(p)
      /\ semaphore_post(p) => Quiet!semaphore_post(p)
      /\ semaphore_interrupted(p) => Quiet!semaphore_interrupted(p)
    BY DEF semaphore_wait, Quiet!semaphore_wait, semaphore_post, Quiet!semaphore_post,
           semaphore_interrupted, Quiet!semaphore_interrupted
<1>3. worker_spawn(p) => Quiet!worker_spawn(p)
    BY DEF worker_spawn, Quiet!worker_spawn
<1>4. /\ LoadCount(p) => Quiet!LoadCount(p)
      /\ StoreCount(p) => Quiet!StoreCount(p)
    BY DEF LoadCount, Quiet!LoadCount, StoreCount, Quiet!StoreCount
<1> QED BY <1>1, <1>2, <1>3, <1>4

\* The bodies of pq_enqueue and pq_dequeue and the deaths are the same, too.
LEMMA SameBodies ==
    ASSUME NEW p \in Procs
    PROVE  /\ Enqueue(p) => Quiet!Enqueue(p)
           /\ Dequeue(p) => Quiet!Dequeue(p)
           /\ MemoryFault(p) => Quiet!MemoryFault(p)
           /\ Kill(p) => Quiet!Kill(p)
<1> USE DEF Goto, Quiet!Goto, header, Quiet!header, sem, Quiet!sem, Slots, Quiet!Slots
<1>1. Enqueue(p) => Quiet!Enqueue(p)
    BY DEF Enqueue, Quiet!Enqueue, EnqueueFull, Quiet!EnqueueFull, EnqueueAccept,
           Quiet!EnqueueAccept, EnqueueCopy, Quiet!EnqueueCopy, EnqueueAdvance,
           Quiet!EnqueueAdvance, EnqueueWrap, Quiet!EnqueueWrap
<1>2. Dequeue(p) => Quiet!Dequeue(p)
    BY DEF Dequeue, Quiet!Dequeue, DequeueEmpty, Quiet!DequeueEmpty, DequeueAccept,
           Quiet!DequeueAccept, DequeueCopy, Quiet!DequeueCopy, DequeueAdvance,
           Quiet!DequeueAdvance, DequeueWrap, Quiet!DequeueWrap
<1>3. Die(p) => Quiet!Die(p)
    BY DEF Die, Quiet!Die
<1>4. OffsetOf(p) = Quiet!OffsetOf(p)
    BY DEF OffsetOf, Quiet!OffsetOf
<1> QED BY <1>1, <1>2, <1>3, <1>4 DEF MemoryFault, Quiet!MemoryFault, Kill, Quiet!Kill

\* A step that resets the semaphore in a quiet moment only is one of the instance.
LEMMA QuietImplements ==
    ASSUME NEW p \in Procs, QuietStep(p) PROVE Quiet!Step(p)
<1>1. CASE worker_init(p) \/ pq_init(p)
    <2>1. \A r \in Quiet!Procs : pc[r] \notin Quiet!Inside
        BY <1>1 DEF QuietStep, Quiet!Procs, Procs, Quiet!Inside, Inside
    <2>2. Quiet!worker_init(p) \/ Quiet!pq_init(p)
        BY <1>1, <2>1 DEF worker_init, pq_init, semaphore_init, Goto, header,
                          Quiet!worker_init, Quiet!pq_init, Quiet!semaphore_init,
                          Quiet!Goto, Quiet!header, Quiet!Procs, Procs
    <2> QED BY <2>2 DEF Quiet!Step, Quiet!Start
<1>2. CASE ~ (worker_init(p) \/ pq_init(p))
    BY <1>2, SameCalls, SameBodies
       DEF QuietStep, Step, Start, Progress, Quiet!Step, Quiet!Start, Quiet!Progress
<1> QED BY <1>1, <1>2

\* A server with one worker that starts on fresh ground never resets the semaphore
\* under a running call: its start sequence and everything behind it is a behaviour of
\* PersistedQueue with InitOnlyWhenQuiet, the assumption of the lock's proof.
THEOREM BootIsQuietHolds ==
    ASSUME PlainStart PROVE StartupSpec => BootIsQuiet
<1>1. StartupInit => StartInv
    BY StartInitial
<1>2. StartupInit => Quiet!Init
    BY DEF StartupInit, PlainStart, InitWith, Quiet!Init, Quiet!InitWith, Slots,
           Quiet!Slots, Procs, Quiet!Procs
<1>3. StartInv /\ [StartupNext]_startupVars => StartInv'
    BY StartStep
<1>4. StartInv /\ [StartupNext]_startupVars => [Quiet!Next]_(Quiet!vars)
    <2> SUFFICES ASSUME StartInv, [StartupNext]_startupVars
                 PROVE  UNCHANGED vars \/ Quiet!Next
        BY DEF vars, Quiet!vars, header, Quiet!header, sem, Quiet!sem
    <2>1. CASE UNCHANGED startupVars
        BY <2>1 DEF startupVars
    <2>2. CASE StartupNext
        <3>1. UNCHANGED vars \/ \E p \in Procs : QuietStep(p)
            BY <2>2, StartIsQuiet DEF StartInv, QueueInv
        <3> QED BY <3>1, QuietImplements DEF Quiet!Next, Quiet!Procs, Procs
    <2> QED BY <2>1, <2>2
<1> QED BY <1>1, <1>2, <1>3, <1>4, PTL DEF StartupSpec, BootIsQuiet, Quiet!Spec

\* So the lock of lib-pq excludes worker and mailhandler in the real start sequence,
\* where nothing but the order of main and its usleep keeps the resets apart.
THEOREM StartupExcludes ==
    ASSUME PlainStart PROVE StartupSpec => []MutualExclusion
<1>1. StartupInit => StartInv
    BY StartInitial
<1>2. StartInv /\ [StartupNext]_startupVars => StartInv'
    BY StartStep
<1>3. StartInv => MutualExclusion
    BY DEF StartInv, QueueInv, SemInv
<1> QED BY <1>1, <1>2, <1>3, PTL DEF StartupSpec

\* And what the worker queues reaches the mailhandler once and in order.
THEOREM StartupIsFifo ==
    ASSUME PlainStart PROVE StartupSpec => FifoSpec
<1>1. StartupInit => StartInv /\ Fifo!Init
    BY StartInitial, FifoInit
<1>2. StartInv /\ [StartupNext]_startupVars => StartInv'
    BY StartStep
<1>3. StartInv /\ [StartupNext]_startupVars => [Fifo!Next]_(Fifo!vars)
    BY StartStep
<1> QED BY <1>1, <1>2, <1>3, PTL DEF StartupSpec, FifoSpec, Fifo!Spec
=============================================================================
