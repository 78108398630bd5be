---------------------------- MODULE QueueStartup ----------------------------
(***************************************************************************)
(* Who runs pq_init, and when.  The master initialises its workers one     *)
(* after the other; worker_init opens the queue file and forks the         *)
(* mailhandler, which opens the same file whenever its exec gets that far. *)
(* Both calls reset the one semaphore.  Then the master spawns the         *)
(* workers, sleeps half a second and starts to accept clients.             *)
(*                                                                         *)
(* PersistedQueue assumes that such a reset never falls into a running     *)
(* call (InitOnlyWhenQuiet).  This module has the code's order instead of  *)
(* that assumption, so that it can be checked.                             *)
(***************************************************************************)
EXTENDS PersistedQueue

CONSTANTS WorkerSeq,          \* the workers in the order of their numbers
          HandlerSeq,         \* HandlerSeq[k]: the mailhandler of worker k
          Survivors,          \* mailhandlers of an earlier run still alive
          SleepCoversStartup  \* TRUE: usleep(500000) outlasts every exec

max_workers == Len(WorkerSeq)

ASSUME StartupAssumption ==
    /\ WorkerSeq \in Seq(Producers)
    /\ HandlerSeq \in Seq(Consumers)
    /\ Len(HandlerSeq) = max_workers
    /\ Survivors \subseteq Consumers
    /\ SleepCoversStartup \in BOOLEAN

VARIABLES boot,     \* steps of main done: worker_init 1..n, worker_spawn 1..n
          forked,   \* mailhandlers that are between fork and pq_init
          running   \* the master has entered its main loop

bootVars == <<boot, forked, running>>
startupVars == <<vars, bootVars>>

StartupInit ==
    /\ InitWith(Survivors)
    /\ boot = 0
    /\ forked = {}
    /\ running = FALSE

master_server_init ==
    /\ boot < max_workers
    /\ worker_init(WorkerSeq[boot + 1])
    /\ boot' = boot + 1
    /\ forked' = forked \cup {HandlerSeq[boot + 1]}
    /\ UNCHANGED running

spawn_workers ==
    /\ boot \in max_workers .. 2 * max_workers - 1
    /\ worker_spawn(WorkerSeq[boot - max_workers + 1])
    /\ boot' = boot + 1
    /\ UNCHANGED <<forked, running>>

\* Mutant: without the usleep before the main loop.
enter_main_loop_at_once ==
    /\ ~ running
    /\ boot = 2 * max_workers
    /\ running' = TRUE
    /\ UNCHANGED <<vars, boot, forked>>

enter_main_loop ==
    /\ ~ running
    /\ boot = 2 * max_workers
    /\ SleepCoversStartup => forked = {}
    /\ running' = TRUE
    /\ UNCHANGED <<vars, boot, forked>>

\* The mailhandler's main opens the queue.
mailhandler_start(c) ==
    /\ c \in forked
    /\ pq_init(c)
    /\ forked' = forked \ {c}
    /\ UNCHANGED <<boot, running>>

\* Mutant: clients are accepted before the start is complete.
Serve_early(p) ==
    /\ \/ \E m \in Mail : pq_enqueue(p, m)
       \/ pq_dequeue(p)
       \/ semaphore_wait(p)
       \/ Progress(p)
    /\ UNCHANGED bootVars

\* A worker has a mail to queue only once clients are accepted.
Serve(p) ==
    /\ \/ running /\ \E m \in Mail : pq_enqueue(p, m)
       \/ pq_dequeue(p)
       \/ semaphore_wait(p)
       \/ Progress(p)
    /\ UNCHANGED bootVars

StartupNext ==
    \/ master_server_init \/ spawn_workers \/ enter_main_loop
    \/ \E c \in Consumers : mailhandler_start(c)
    \/ \E p \in Procs : Serve(p)

StartupSpec == StartupInit /\ [][StartupNext]_startupVars

\* The master and every started mailhandler get on; the kernel serves semop in
\* arrival order; a mailhandler polls for ever, and no process stops in a call.
StartupFairSpec ==
    /\ StartupSpec
    /\ WF_startupVars(master_server_init \/ spawn_workers \/ enter_main_loop)
    /\ \A p \in Procs :
          /\ SF_startupVars(semaphore_wait(p) /\ UNCHANGED bootVars)
          /\ WF_startupVars(Progress(p) /\ UNCHANGED bootVars)
    /\ \A c \in Consumers :
          /\ WF_startupVars(mailhandler_start(c))
          /\ WF_startupVars(pq_dequeue(c) /\ UNCHANGED bootVars)

-----------------------------------------------------------------------------
Quiet == INSTANCE PersistedQueue WITH InitOnlyWhenQuiet <- TRUE

\* The start sequence meets the assumption that the lock of lib-pq rests on:
\* neither the master's nor a mailhandler's pq_init resets the semaphore while
\* another process is between semaphore_wait and semaphore_post.
BootIsQuiet == Quiet!Spec
=============================================================================
