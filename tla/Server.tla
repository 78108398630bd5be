------------------------------- MODULE Server -------------------------------
(***************************************************************************)
(* The processes of the server and the descriptor table they share.  The   *)
(* master spawns the workers with CLONE_FILES, accepts clients, greets     *)
(* them and adds them to the epoll instance of worker fd % max_workers; a  *)
(* worker closes a descriptor, and the master's next accept may return the *)
(* same number.  What a worker does with an event is SmtpSession; here it  *)
(* keeps or closes the connection.                                         *)
(*                                                                         *)
(* A connection is a number, in the order of accept.  SIGTERM, SIGINT,     *)
(* SIGHUP and SIGQUIT end the process they reach: the handler writes       *)
(* through master_serv, which nothing sets.  Nothing starts a process      *)
(* again.                                                                  *)
(***************************************************************************)
EXTENDS Naturals, FiniteSets, FiniteSetsExt

CONSTANTS max_workers,         \* workers are 0 .. max_workers - 1
          ClientFds,           \* descriptor numbers clients can get
          MapSize,             \* entries of worker_map: 2 * max_clients
          MaxConnections,      \* bound: how many clients connect
          SleepCoversStartup,  \* TRUE: usleep(500000) outlasts every worker's start
          WorkersMayDie,       \* workers a signal or a fault may end
          StartMayFail,        \* workers whose clone or shared memory may fail
          MasterMayDie         \* TRUE: a signal may end the master

Workers == 0 .. max_workers - 1

ASSUME ServerAssumption ==
    /\ max_workers \in Nat \ {0}
    /\ ClientFds \subseteq Nat
    /\ MapSize \in Nat /\ MaxConnections \in Nat
    /\ SleepCoversStartup \in BOOLEAN
    /\ WorkersMayDie \subseteq Workers /\ StartMayFail \subseteq Workers
    /\ MasterMayDie \in BOOLEAN

Free == 0  \* no connection behind a descriptor
Nobody == max_workers  \* no epoll instance behind a number

VARIABLES
    master,     \* "spawn", "loop", "welcome", "add", "dead"
    spawned,    \* workers spawned so far
    worker,     \* worker[w]: "none", "starting", "loop", "dead", "absent"
    ev_handler, \* ev_handler[w]: whose epoll instance the number in the shared
                \* memory of worker w means, or Nobody
    connected,  \* clients that have connected
    accepted,   \* clients that were accepted
    fd,         \* the descriptor the master has in hand
    table,      \* table[d]: the connection behind descriptor d, or Free
    polled,     \* polled[w]: descriptors in the epoll instance of worker w
    ready,      \* descriptors with something to report
    batch       \* batch[w]: events worker w is working on, <<d, connection>>

vars == <<master, spawned, worker, ev_handler, connected, accepted, fd, table, polled, ready,
          batch>>

\* The shared memory outlives the server: it holds the numbers of its last start.
Init ==
    /\ master = "spawn" /\ spawned = 0
    /\ worker = [w \in Workers |-> "none"]
    /\ ev_handler \in [Workers -> Workers \cup {Nobody}]
    /\ connected = 0 /\ accepted = 0
    /\ fd = 0
    /\ table = [d \in ClientFds |-> Free]
    /\ polled = [w \in Workers |-> {}]
    /\ ready = {}
    /\ batch = [w \in Workers |-> {}]

worker_map(d) == d % max_workers

Open == {d \in ClientFds : table[d] # Free}
close(d) == table' = [table EXCEPT ![d] = Free]

-----------------------------------------------------------------------------
(* Clients (external): they connect, and send or close on an open connection. *)

Connect ==
    /\ connected < MaxConnections
    /\ connected' = connected + 1
    /\ UNCHANGED <<master, spawned, worker, ev_handler, accepted, fd, table, polled, ready, batch>>

Arrive(d) ==
    /\ d \in Open \ ready
    /\ ready' = ready \cup {d}
    /\ UNCHANGED <<master, spawned, worker, ev_handler, connected, accepted, fd, table, polled, batch>>

-----------------------------------------------------------------------------
(* The master. *)

\* The master does not look at the result of clone.
worker_spawn ==
    /\ master = "spawn" /\ spawned < max_workers
    /\ \/ worker' = [worker EXCEPT ![spawned] = "starting"]
       \/ /\ spawned \in StartMayFail
          /\ worker' = [worker EXCEPT ![spawned] = "absent"]
    /\ spawned' = spawned + 1
    /\ UNCHANGED <<master, ev_handler, connected, accepted, fd, table, polled, ready, batch>>

\* Mutant: without the usleep before the main loop.
enter_main_loop_at_once ==
    /\ master = "spawn" /\ spawned = max_workers
    /\ master' = "loop"
    /\ UNCHANGED <<spawned, worker, ev_handler, connected, accepted, fd, table, polled, ready, batch>>

enter_main_loop ==
    /\ master = "spawn" /\ spawned = max_workers
    /\ SleepCoversStartup => \A w \in Workers : worker[w] # "starting"
    /\ master' = "loop"
    /\ UNCHANGED <<spawned, worker, ev_handler, connected, accepted, fd, table, polled, ready, batch>>

\* Mutant: the connection on the listen queue is not consumed.
accept_again ==
    /\ master = "loop" /\ accepted < connected
    /\ ClientFds \ Open # {}
    /\ LET d == Min(ClientFds \ Open) IN
       /\ table' = [table EXCEPT ![d] = accepted + 1]
       /\ fd' = d
       /\ master' = IF d < MapSize THEN "welcome" ELSE "dead"
    /\ UNCHANGED <<spawned, worker, ev_handler, connected, accepted, polled, ready, batch>>

\* The kernel hands out the lowest free number.  A number outside worker_map
\* gives the master a wild pointer.
accept ==
    /\ master = "loop" /\ accepted < connected
    /\ ClientFds \ Open # {}
    /\ LET d == Min(ClientFds \ Open) IN
       /\ accepted' = accepted + 1
       /\ table' = [table EXCEPT ![d] = accepted + 1]
       /\ fd' = d
       /\ master' = IF d < MapSize THEN "welcome" ELSE "dead"
    /\ UNCHANGED <<spawned, worker, ev_handler, connected, polled, ready, batch>>

\* connection_handle on a temporary connection: the greeting is sent, or the
\* client is already gone and the descriptor is closed.
connection_handle ==
    /\ master = "welcome"
    /\ master' = "add"
    /\ \/ UNCHANGED <<table, ready>>
       \/ close(fd) /\ ready' = ready \ {fd}
    /\ UNCHANGED <<spawned, worker, ev_handler, connected, accepted, fd, polled, batch>>

\* EPOLL_CTL_ADD fails on a closed descriptor, and when nobody has yet created the
\* epoll instance whose number the worker's shared memory holds; the error is printed.
events_add_event_2 ==
    /\ master = "add"
    /\ LET v == ev_handler[worker_map(fd)] IN
       polled' = IF table[fd] # Free /\ v # Nobody /\ worker[v] \in {"loop", "dead"}
                 THEN [polled EXCEPT ![v] = @ \cup {fd}] ELSE polled
    /\ master' = "loop"
    /\ UNCHANGED <<spawned, worker, ev_handler, connected, accepted, fd, table, ready, batch>>

-----------------------------------------------------------------------------
(* The workers. *)

\* The start: the epoll instance is created and its number published.
worker_server(w) ==
    /\ worker[w] = "starting"
    /\ worker' = [worker EXCEPT ![w] = "loop"]
    /\ ev_handler' = [ev_handler EXCEPT ![w] = w]
    /\ UNCHANGED <<master, spawned, connected, accepted, fd, table, polled, ready, batch>>

\* shmget or shmat fails, and the worker exits.
worker_exit(w) ==
    /\ w \in StartMayFail /\ worker[w] = "starting"
    /\ worker' = [worker EXCEPT ![w] = "absent"]
    /\ UNCHANGED <<master, spawned, ev_handler, connected, accepted, fd, table, polled, ready,
                   batch>>

events_wait(w) ==
    /\ worker[w] = "loop" /\ batch[w] = {}
    /\ polled[w] \cap ready # {}
    /\ batch' = [batch EXCEPT ![w] = {<<d, table[d]>> : d \in polled[w] \cap ready}]
    /\ ready' = ready \ polled[w]
    /\ UNCHANGED <<master, spawned, worker, ev_handler, connected, accepted, fd, table, polled>>

Keep(w, e) ==
    /\ worker[w] = "loop" /\ e \in batch[w]
    /\ batch' = [batch EXCEPT ![w] = @ \ {e}]
    /\ UNCHANGED <<master, spawned, worker, ev_handler, connected, accepted, fd, table, polled, ready>>

\* Mutant: the descriptor is closed and its event is handled once more.
Close_keeps_event(w, e) ==
    /\ worker[w] = "loop" /\ e \in batch[w]
    /\ polled' = [polled EXCEPT ![w] = @ \ {e[1]}]
    /\ close(e[1])
    /\ ready' = ready \ {e[1]}
    /\ UNCHANGED <<master, spawned, worker, ev_handler, connected, accepted, fd, batch>>

\* Mutant: the epoll set keeps the closed descriptor.
Close_keeps_polling(w, e) ==
    /\ worker[w] = "loop" /\ e \in batch[w]
    /\ batch' = [batch EXCEPT ![w] = @ \ {e}]
    /\ close(e[1])
    /\ ready' = ready \ {e[1]}
    /\ UNCHANGED <<master, spawned, worker, ev_handler, connected, accepted, fd, polled>>

\* events_del_event and close.
Close(w, e) ==
    /\ worker[w] = "loop" /\ e \in batch[w]
    /\ batch' = [batch EXCEPT ![w] = @ \ {e}]
    /\ polled' = [polled EXCEPT ![w] = @ \ {e[1]}]
    /\ close(e[1])
    /\ ready' = ready \ {e[1]}
    /\ UNCHANGED <<master, spawned, worker, ev_handler, connected, accepted, fd>>

\* A dead worker leaves the table, and its epoll instance in it, to the others.
Die(w) ==
    /\ w \in WorkersMayDie /\ worker[w] = "loop"
    /\ worker' = [worker EXCEPT ![w] = "dead"]
    /\ batch' = [batch EXCEPT ![w] = {}]
    /\ UNCHANGED <<master, spawned, ev_handler, connected, accepted, fd, table, polled, ready>>

MasterDies ==
    /\ MasterMayDie /\ master \in {"loop", "welcome", "add"}
    /\ master' = "dead"
    /\ UNCHANGED <<spawned, worker, ev_handler, connected, accepted, fd, table, polled, ready, batch>>

Handle(w) == \E e \in batch[w] : Keep(w, e) \/ Close(w, e)

Master == worker_spawn \/ enter_main_loop \/ accept \/ connection_handle \/ events_add_event_2

Worker(w) == worker_server(w) \/ events_wait(w) \/ Handle(w)

Next ==
    \/ Connect \/ \E d \in ClientFds : Arrive(d)
    \/ Master \/ MasterDies
    \/ \E w \in Workers : Worker(w) \/ worker_exit(w) \/ Die(w)

Spec == Init /\ [][Next]_vars

\* Every process that lives runs on.
FairSpec == Spec /\ WF_vars(Master) /\ \A w \in Workers : WF_vars(Worker(w))

-----------------------------------------------------------------------------
\* The table, the epoll sets and the events keep their types.
TypeOK ==
    /\ master \in {"spawn", "loop", "welcome", "add", "dead"}
    /\ spawned \in 0 .. max_workers
    /\ worker \in [Workers -> {"none", "starting", "loop", "dead", "absent"}]
    /\ ev_handler \in [Workers -> Workers \cup {Nobody}]
    /\ connected \in 0 .. MaxConnections /\ accepted \in 0 .. connected
    /\ fd \in ClientFds \cup {0}
    /\ table \in [ClientFds -> 0 .. accepted]
    /\ polled \in [Workers -> SUBSET ClientFds]
    /\ ready \subseteq ClientFds
    /\ batch \in [Workers -> SUBSET (ClientFds \X (1 .. accepted))]

\* An event a worker is about to handle belongs to the connection that is behind
\* the descriptor now: a number that was closed and handed out again while the
\* worker was busy never receives an event of its former connection.
NoStaleEvent ==
    \A w \in Workers : \A e \in batch[w] : table[e[1]] = e[2]

\* Two connections never share a descriptor, and a descriptor is polled by one
\* worker at most and only while it is open, even if workers are missing and a
\* number of an earlier start leads the master to the wrong one.
OneOwner ==
    /\ \A d, e \in Open : table[d] = table[e] => d = e
    /\ \A w \in Workers : \A d \in polled[w] :
          d \in Open /\ \A v \in Workers \ {w} : d \notin polled[v]

\* The hand-over loses no client: when the master is back in its loop every open
\* connection is in the epoll set of its worker, if that worker was started.
NoOrphan ==
    master = "loop" =>
        \A d \in Open : worker[worker_map(d)] # "absent" => d \in polled[worker_map(d)]

\* What a client sends, or its closing, is noticed by a worker in the end, unless
\* the client's worker is dead or was never started, or the master that hands the
\* client over is dead.
EventuallyHandled ==
    \A d \in ClientFds : (d \in ready /\ table[d] # Free) ~>
        d \notin ready \/ worker[worker_map(d)] \in {"dead", "absent"} \/ master = "dead"

\* "child exited, should start it again": the death of a worker does not leave
\* clients without an answer for ever.
EventuallyServed ==
    \A d \in ClientFds : (d \in ready /\ table[d] # Free) ~> d \notin ready
=============================================================================
