---------------------------- MODULE ServerProofs ----------------------------
(***************************************************************************)
(* Theorems about Server for any number of workers, any set of descriptor  *)
(* numbers, any size of worker_map and any number of clients.              *)
(***************************************************************************)
EXTENDS Server, TLAPS, WellFoundedInduction

-----------------------------------------------------------------------------
(* The operators of the model. *)

\* fd % max_workers is the number of a worker.
LEMMA WorkerMapIsWorker ==
    ASSUME NEW d \in ClientFds PROVE worker_map(d) \in Workers
BY ServerAssumption DEF worker_map, Workers

\* A set of numbers that is not empty has a lowest one, and Min is in the set: what
\* the kernel hands out is a free descriptor.
LEMMA MinIsElement ==
    ASSUME NEW S, S \subseteq Nat, S # {} PROVE Min(S) \in S
<1>1. PICK x \in S : \A y \in S : ~ (<<y, x>> \in OpToRel(<, Nat))
    BY WFMin, NatLessThanWellFounded
<1>2. \A y \in S : ~ (y < x)
    BY <1>1 DEF OpToRel
<1>3. \E z \in S : \A y \in S : z =< y
    BY <1>2
<1> QED BY <1>3 DEF Min

\* accept returns a descriptor that is not open.
LEMMA AcceptedIsFree ==
    ASSUME ClientFds \ Open # {}
    PROVE  Min(ClientFds \ Open) \in ClientFds /\ Min(ClientFds \ Open) \notin Open
BY MinIsElement, ServerAssumption

-----------------------------------------------------------------------------
(* Types. *)

\* The types, and that the master has a client's descriptor in hand whenever it
\* greets a client or hands one over: fd is 0 before the first accept.
TypeInv == TypeOK /\ (master \in {"welcome", "add"} => fd \in ClientFds)

\* What a worker polls is open, and polled by no other; two open
\* descriptors have two connections; the descriptor the master has in hand is not
\* polled yet.
OwnerInv ==
    /\ OneOwner
    /\ master \in {"welcome", "add"} => \A w \in Workers : fd \notin polled[w]

\* Every event of a batch is about a descriptor its worker still polls and about
\* the connection behind it: nobody else closes what a worker polls.
EventInv ==
    \A w \in Workers : \A e \in batch[w] : e[1] \in polled[w] /\ table[e[1]] = e[2]

\* Before the main loop nothing is open, and in it every worker that was started has
\* published its epoll descriptor: the usleep in front of the loop.
StartupInv ==
    /\ \A w \in Workers : worker[w] = "none" => spawned <= w
    /\ \A w \in Workers : worker[w] \in {"loop", "dead"} => ev_handler[w] = w
    /\ master = "spawn" => Open = {}
    /\ master # "spawn" => \A w \in Workers : worker[w] \in {"loop", "dead", "absent"}

\* Every open descriptor but the one in the master's hand is polled by its worker, if
\* that was started.
HandOverInv ==
    \A d \in Open :
        \/ d \in polled[worker_map(d)]
        \/ worker[worker_map(d)] = "absent"
        \/ master \in {"welcome", "add"} /\ d = fd
        \/ master = "dead"

\* The program starts with the types right.
LEMMA TypeInit == Init => TypeInv
BY ServerAssumption DEF Init, TypeInv, TypeOK, Free

\* Every step of the processes and the clients keeps the types.
LEMMA TypeStep == TypeInv /\ OwnerInv /\ [Next]_vars => TypeInv'
<1> SUFFICES ASSUME TypeInv, OwnerInv, [Next]_vars PROVE TypeInv'
    OBVIOUS
<1> USE ServerAssumption DEF TypeInv, TypeOK
<1>1. CASE UNCHANGED vars
    BY <1>1 DEF vars
<1>2. CASE Connect
    BY <1>2 DEF Connect
<1>3. ASSUME NEW d \in ClientFds, Arrive(d) PROVE TypeInv'
    BY <1>3 DEF Arrive, Open
<1>4. CASE worker_spawn
    <2>1. spawned' \in 0 .. max_workers
        BY <1>4 DEF worker_spawn
    <2> QED BY <1>4, <2>1 DEF worker_spawn
<1>5. CASE enter_main_loop
    BY <1>5 DEF enter_main_loop
<1>6. CASE accept
    <2> DEFINE d == Min(ClientFds \ Open)
    <2>1. d \in ClientFds
        BY <1>6, AcceptedIsFree DEF accept
    <2>2. /\ accepted' = accepted + 1 /\ accepted < connected
          /\ table' = [table EXCEPT ![d] = accepted + 1] /\ fd' = d
          /\ master' \in {"welcome", "dead"}
          /\ UNCHANGED <<spawned, worker, ev_handler, connected, polled, ready, batch>>
        BY <1>6 DEF accept
    <2> HIDE DEF d
    <2>3. batch' \in [Workers -> SUBSET (ClientFds \X (1 .. accepted'))]
        <3>1. 1 .. accepted \subseteq 1 .. accepted'
            BY <2>2
        <3> QED BY <3>1, <2>2
    <2> QED BY <2>1, <2>2, <2>3
<1>7. CASE connection_handle
    <2>1. table' \in [ClientFds -> 0 .. accepted']
        BY <1>7 DEF connection_handle, close, Free
    <2> QED BY <1>7, <2>1 DEF connection_handle
<1>8. CASE events_add_event_2
    <2>1. fd \in ClientFds
        BY <1>8 DEF events_add_event_2
    <2>2. polled' \in [Workers -> SUBSET ClientFds]
        BY <1>8, <2>1, WorkerMapIsWorker DEF events_add_event_2
    <2> QED BY <1>8, <2>2 DEF events_add_event_2
<1>9. CASE MasterDies
    BY <1>9 DEF MasterDies
<1>10. ASSUME NEW w \in Workers, worker_server(w) PROVE TypeInv'
    BY <1>10 DEF worker_server
<1>11. ASSUME NEW w \in Workers, events_wait(w) PROVE TypeInv'
    <2>1. \A d \in polled[w] : d \in ClientFds /\ table[d] \in 1 .. accepted
        BY DEF OwnerInv, OneOwner, Open, Free
    <2>2. {<<d, table[d]>> : d \in polled[w] \cap ready} \subseteq ClientFds \X (1 .. accepted)
        BY <2>1
    <2> QED BY <1>11, <2>2 DEF events_wait
<1>12. ASSUME NEW w \in Workers, NEW e \in batch[w], Keep(w, e) PROVE TypeInv'
    BY <1>12 DEF Keep
<1>13. ASSUME NEW w \in Workers, NEW e \in batch[w], Close(w, e) PROVE TypeInv'
    <2>1. table' \in [ClientFds -> 0 .. accepted']
        BY <1>13 DEF Close, close, Free
    <2> QED BY <1>13, <2>1 DEF Close
<1>14. ASSUME NEW w \in Workers, Die(w) PROVE TypeInv'
    BY <1>14 DEF Die
<1>15. ASSUME NEW w \in Workers, worker_exit(w) PROVE TypeInv'
    BY <1>15 DEF worker_exit
<1> QED
    BY <1>1, <1>2, <1>3, <1>4, <1>5, <1>6, <1>7, <1>8, <1>9, <1>10, <1>11, <1>12, <1>13, <1>14,
       <1>15
    DEF Next, Master, Worker, Handle

-----------------------------------------------------------------------------
(* Owners of descriptors, and events. *)

\* At the start nothing is open or polled, and no event is in hand.
LEMMA OwnerInit == Init => OwnerInv /\ EventInv
BY ServerAssumption DEF Init, OwnerInv, OneOwner, EventInv, Open, Free

\* A descriptor is polled by one worker at most.
LEMMA OnePoller ==
    ASSUME OneOwner, NEW v \in Workers, NEW w \in Workers, NEW d \in polled[v], d \in polled[w]
    PROVE  v = w
BY DEF OneOwner

\* Every step keeps the owners: accept hands out a number that is not open, hence
\* not polled, with a connection that is new; only the worker that polls a
\* descriptor closes it, and takes it out of its epoll instance.
LEMMA OwnerStep == TypeInv /\ OwnerInv /\ EventInv /\ [Next]_vars => OwnerInv'
<1> SUFFICES ASSUME TypeInv, OwnerInv, EventInv, [Next]_vars PROVE OwnerInv'
    OBVIOUS
<1> USE ServerAssumption DEF TypeInv, TypeOK, OwnerInv, OneOwner, Open
<1>1. CASE UNCHANGED <<master, fd, table, polled>>
    BY <1>1
<1>2. CASE enter_main_loop
    BY <1>2 DEF enter_main_loop
<1>3. CASE accept
    <2> DEFINE d == Min(ClientFds \ Open)
    <2>1. d \in ClientFds /\ table[d] = Free
        BY <1>3, AcceptedIsFree DEF accept
    <2>2. /\ table' = [table EXCEPT ![d] = accepted + 1] /\ fd' = d
          /\ polled' = polled
        BY <1>3 DEF accept
    <2> HIDE DEF d
    <2>3. \A w \in Workers : d \notin polled[w]
        BY <2>1
    <2>4. \A x \in ClientFds : table'[x] = IF x = d THEN accepted + 1 ELSE table[x]
        BY <2>1, <2>2
    <2>5. \A x \in ClientFds : table[x] # accepted + 1
        OBVIOUS
    <2>6. ASSUME NEW x \in Open', NEW y \in Open', table'[x] = table'[y] PROVE x = y
        BY <2>4, <2>5, <2>6
    <2>7. \A w \in Workers : \A x \in polled'[w] :
             x \in Open' /\ \A v \in Workers \ {w} : x \notin polled'[v]
        BY <2>2, <2>3, <2>4
    <2> QED BY <2>2, <2>3, <2>6, <2>7
<1>4. CASE connection_handle
    <2>1. fd \in ClientFds /\ polled' = polled /\ fd' = fd /\ master' = "add"
        BY <1>4 DEF connection_handle
    <2>2. \A x \in ClientFds : table'[x] = table[x] \/ (x = fd /\ table'[x] = Free)
        BY <1>4, <2>1 DEF connection_handle, close
    <2>3. \A w \in Workers : fd \notin polled[w]
        BY <1>4 DEF connection_handle
    <2> QED BY <2>1, <2>2, <2>3
<1>5. CASE events_add_event_2
    <2>1. fd \in ClientFds /\ table' = table /\ master' = "loop"
        BY <1>5 DEF events_add_event_2
    <2> DEFINE v == ev_handler[worker_map(fd)]
    <2>2. \A w \in Workers : fd \notin polled[w]
        BY <1>5 DEF events_add_event_2
    <2>3. ASSUME NEW w \in Workers, NEW x \in polled'[w]
          PROVE  x \in polled[w] \/ (x = fd /\ w = v /\ table[fd] # Free)
        BY <1>5, <2>3 DEF events_add_event_2
    <2> HIDE DEF v
    <2>4. ASSUME NEW w \in Workers, NEW x \in polled'[w]
          PROVE  x \in Open' /\ \A u \in Workers \ {w} : x \notin polled'[u]
        <3>1. ASSUME NEW u \in Workers \ {w}, x \in polled'[u] PROVE FALSE
            <4>1. x \in polled[u] \/ (x = fd /\ u = v)
                BY <2>3, <3>1
            <4>2. x \in polled[w] \/ (x = fd /\ w = v)
                BY <2>3, <2>4
            <4>3. ~ (x \in polled[u] /\ x \in polled[w])
                OBVIOUS
            <4> QED BY <2>2, <4>1, <4>2, <4>3
        <3>2. x \in Open'
            BY <2>1, <2>3, <2>4
        <3> QED BY <3>1, <3>2
    <2> QED BY <2>1, <2>4
<1>6. CASE MasterDies
    BY <1>6 DEF MasterDies
<1>7. ASSUME NEW w \in Workers, NEW e \in batch[w], Close(w, e) PROVE OwnerInv'
    <2>1. e[1] \in polled[w] /\ e[1] \in ClientFds
        BY DEF EventInv
    <2>2. \A x \in ClientFds : table'[x] = IF x = e[1] THEN Free ELSE table[x]
        BY <1>7, <2>1 DEF Close, close
    <2>3. \A v \in Workers : polled'[v] = IF v = w THEN polled[v] \ {e[1]} ELSE polled[v]
        <3>1. polled' = [polled EXCEPT ![w] = @ \ {e[1]}]
            BY <1>7 DEF Close
        <3>2. polled \in [Workers -> SUBSET ClientFds]
            BY DEF TypeOK
        <3> QED BY <3>1, <3>2
    <2>4. \A v \in Workers : e[1] \notin polled'[v] /\ polled'[v] \subseteq polled[v]
        <3>1. ASSUME NEW v \in Workers
              PROVE  e[1] \notin polled'[v] /\ polled'[v] \subseteq polled[v]
            <4>1. polled'[v] = IF v = w THEN polled[v] \ {e[1]} ELSE polled[v]
                BY <2>3
            <4>2. v # w => e[1] \notin polled[v]
                BY <2>1
            <4> QED BY <4>1, <4>2
        <3> QED BY <3>1
    <2>5. ASSUME NEW x \in Open', NEW y \in Open', table'[x] = table'[y] PROVE x = y
        BY <2>2, <2>5
    <2>6. ASSUME NEW v \in Workers, NEW x \in polled'[v]
          PROVE  x \in Open' /\ \A u \in Workers \ {v} : x \notin polled'[u]
        <3>1. x \in polled[v] /\ x # e[1]
            BY <2>4, <2>6
        <3>2. x \in ClientFds /\ table[x] # Free /\ \A u \in Workers \ {v} : x \notin polled[u]
            BY <3>1
        <3> QED BY <2>2, <2>4, <3>1, <3>2
    <2>7. master' = master /\ fd' = fd
        BY <1>7 DEF Close
    <2> QED BY <2>4, <2>5, <2>6, <2>7
<1> QED
    BY <1>1, <1>2, <1>3, <1>4, <1>5, <1>6, <1>7
    DEF Next, Master, Worker, Handle, Connect, Arrive, worker_spawn, worker_server,
        worker_exit, events_wait, Keep, Die, vars

\* Every step keeps the events of all batches current: a worker closes one of its
\* own descriptors and drops its only event; the others belong to other workers.
LEMMA EventStep == TypeInv /\ OwnerInv /\ EventInv /\ [Next]_vars => EventInv'
<1> SUFFICES ASSUME TypeInv, OwnerInv, EventInv, [Next]_vars PROVE EventInv'
    OBVIOUS
<1> USE ServerAssumption DEF TypeInv, TypeOK, OwnerInv, OneOwner, EventInv, Open
<1>1. CASE UNCHANGED <<table, polled, batch>>
    BY <1>1
<1>2. CASE accept
    <2> DEFINE d == Min(ClientFds \ Open)
    <2>1. d \in ClientFds /\ table[d] = Free
        BY <1>2, AcceptedIsFree DEF accept
    <2>2. table' = [table EXCEPT ![d] = accepted + 1] /\ UNCHANGED <<polled, batch>>
        BY <1>2 DEF accept
    <2> HIDE DEF d
    <2>3. \A w \in Workers : \A x \in polled[w] : x # d /\ x \in ClientFds
        BY <2>1
    <2>4. \A x \in ClientFds : x # d => table'[x] = table[x]
        BY <2>1, <2>2
    <2>5. ASSUME NEW w \in Workers, NEW e \in batch[w]
          PROVE  e[1] \in polled[w] /\ table'[e[1]] = e[2]
        <3>1. e[1] \in polled[w] /\ table[e[1]] = e[2]
            OBVIOUS
        <3>2. e[1] \in ClientFds /\ e[1] # d
            BY <2>3, <3>1
        <3> QED BY <2>4, <3>1, <3>2
    <2> QED BY <2>2, <2>5
<1>3. CASE connection_handle
    <2>1. UNCHANGED <<polled, batch>> /\ \A w \in Workers : fd \notin polled[w]
        BY <1>3 DEF connection_handle
    <2>2. \A x \in ClientFds : x # fd => table'[x] = table[x]
        BY <1>3 DEF connection_handle, close
    <2>3. ASSUME NEW w \in Workers, NEW e \in batch[w]
          PROVE  e[1] \in polled[w] /\ table'[e[1]] = e[2]
        <3>1. e[1] \in polled[w] /\ table[e[1]] = e[2]
            OBVIOUS
        <3>2. e[1] \in ClientFds /\ e[1] # fd
            BY <2>1, <3>1
        <3> QED BY <2>2, <3>1, <3>2
    <2> QED BY <2>1, <2>3
<1>4. CASE events_add_event_2
    <2>1. \A w \in Workers : polled[w] \subseteq polled'[w]
        BY <1>4 DEF events_add_event_2
    <2> QED BY <1>4, <2>1 DEF events_add_event_2
<1>5. ASSUME NEW w \in Workers, events_wait(w) PROVE EventInv'
    BY <1>5 DEF events_wait
<1>6. ASSUME NEW w \in Workers, NEW e \in batch[w], Keep(w, e) PROVE EventInv'
    BY <1>6 DEF Keep
<1>7. ASSUME NEW w \in Workers, NEW e \in batch[w], Close(w, e) PROVE EventInv'
    <2>1. ASSUME NEW v \in Workers, NEW f \in batch'[v]
          PROVE  f \in batch[v] /\ f[1] # e[1]
        <3>1. f \in batch[v] /\ (v = w => f # e)
            BY <1>7, <2>1 DEF Close
        <3>2. CASE v = w
            <4>1. e \in ClientFds \X (1 .. accepted) /\ f \in ClientFds \X (1 .. accepted)
                BY <3>1
            <4>2. f[1] = e[1] => f[2] = e[2]
                BY <3>1
            <4> QED BY <3>1, <3>2, <4>1, <4>2
        <3>3. CASE v # w
            <4>1. f[1] \in polled[v] /\ e[1] \in polled[w]
                BY <3>1
            <4> QED BY <3>1, <3>3, <4>1, OnePoller
        <3> QED BY <3>1, <3>2, <3>3
    <2>2. \A x \in ClientFds : x # e[1] => table'[x] = table[x]
        BY <1>7 DEF Close, close
    <2>3. \A v \in Workers : \A x \in polled[v] : x # e[1] => x \in polled'[v]
        BY <1>7 DEF Close
    <2>4. ASSUME NEW v \in Workers, NEW f \in batch'[v]
          PROVE  f[1] \in polled'[v] /\ table'[f[1]] = f[2]
        <3>1. f \in batch[v] /\ f[1] # e[1]
            BY <2>1
        <3>2. f[1] \in polled[v] /\ table[f[1]] = f[2] /\ f[1] \in ClientFds
            BY <3>1
        <3> QED BY <2>2, <2>3, <3>1, <3>2
    <2> QED BY <2>4
<1>8. ASSUME NEW w \in Workers, Die(w) PROVE EventInv'
    BY <1>8 DEF Die
<1> QED
    BY <1>1, <1>2, <1>3, <1>4, <1>5, <1>6, <1>7, <1>8
    DEF Next, Master, Worker, Handle, Connect, Arrive, worker_spawn, enter_main_loop,
        worker_server, worker_exit, MasterDies, vars

-----------------------------------------------------------------------------
(* The hand-over of a client from the master to a worker. *)

\* At the start no worker exists and nothing is open.
LEMMA HandOverInit == Init => StartupInv /\ HandOverInv
BY ServerAssumption DEF Init, StartupInv, HandOverInv, Open, Free, Workers

\* The start of the workers is over when the master enters its main loop.
LEMMA StartupStep ==
    ASSUME SleepCoversStartup
    PROVE  TypeInv /\ OwnerInv /\ EventInv /\ StartupInv /\ [Next]_vars => StartupInv'
<1> SUFFICES ASSUME TypeInv, OwnerInv, EventInv, StartupInv, [Next]_vars PROVE StartupInv'
    OBVIOUS
<1> USE ServerAssumption DEF TypeInv, TypeOK, StartupInv, Open
<1>1. CASE UNCHANGED <<master, spawned, worker, ev_handler, table>>
    BY <1>1
<1>2. CASE worker_spawn
    <2>1. /\ UNCHANGED <<master, ev_handler, table>> /\ master = "spawn"
          /\ spawned' = spawned + 1 /\ spawned \in Workers
          /\ \E x \in {"starting", "absent"} : worker' = [worker EXCEPT ![spawned] = x]
        BY <1>2 DEF worker_spawn, Workers
    <2>2. \A w \in Workers : w # spawned => worker'[w] = worker[w]
        BY <2>1
    <2>3. worker'[spawned] \in {"starting", "absent"}
        BY <2>1
    <2>4. ASSUME NEW w \in Workers, worker'[w] = "none" PROVE spawned' <= w
        <3>1. w # spawned /\ worker[w] = "none"
            BY <2>2, <2>3, <2>4
        <3> QED BY <2>1, <3>1 DEF Workers
    <2>5. ASSUME NEW w \in Workers, worker'[w] \in {"loop", "dead"} PROVE ev_handler'[w] = w
        BY <2>1, <2>2, <2>3, <2>5
    <2> QED BY <2>1, <2>4, <2>5
<1>3. CASE enter_main_loop
    BY <1>3 DEF enter_main_loop, Workers
<1>4. CASE accept
    BY <1>4 DEF accept
<1>5. CASE connection_handle
    BY <1>5 DEF connection_handle
<1>6. CASE events_add_event_2
    BY <1>6 DEF events_add_event_2
<1>7. CASE MasterDies
    BY <1>7 DEF MasterDies
<1>8. ASSUME NEW w \in Workers, worker_server(w) PROVE StartupInv'
    BY <1>8 DEF worker_server
<1>9. ASSUME NEW w \in Workers, NEW e \in batch[w], Close(w, e) PROVE StartupInv'
    <2>1. e[1] \in Open
        BY DEF EventInv, OwnerInv, OneOwner
    <2> QED BY <1>9, <2>1 DEF Close
<1>10. ASSUME NEW w \in Workers, Die(w) PROVE StartupInv'
    BY <1>10 DEF Die
<1>11. ASSUME NEW w \in Workers, worker_exit(w) PROVE StartupInv'
    BY <1>11 DEF worker_exit
<1> QED
    BY <1>1, <1>2, <1>3, <1>4, <1>5, <1>6, <1>7, <1>8, <1>9, <1>10, <1>11
    DEF Next, Master, Worker, Handle, Connect, Arrive, events_wait, Keep, vars

\* Every step keeps the hand-over: what accept opens is in the master's hand until
\* it is closed or added to the epoll instance of a worker that has published it.
LEMMA HandOverStep ==
    TypeInv /\ OwnerInv /\ EventInv /\ StartupInv /\ HandOverInv /\ [Next]_vars
        => HandOverInv'
<1> SUFFICES ASSUME TypeInv, OwnerInv, EventInv, StartupInv, HandOverInv, [Next]_vars
             PROVE  HandOverInv'
    OBVIOUS
<1> USE ServerAssumption DEF TypeInv, TypeOK, HandOverInv, Open
<1> HIDE DEF worker_map
<1>1. CASE UNCHANGED <<master, worker, fd, table, polled>>
    BY <1>1 DEF worker_map
<1>2. CASE enter_main_loop
    BY <1>2 DEF enter_main_loop, StartupInv
<1>3. CASE accept
    <2> DEFINE d == Min(ClientFds \ Open)
    <2>1. d \in ClientFds
        BY <1>3, AcceptedIsFree DEF accept
    <2>2. /\ master = "loop"
          /\ table' = [table EXCEPT ![d] = accepted + 1] /\ fd' = d
          /\ master' \in {"welcome", "dead"} /\ polled' = polled /\ worker' = worker
        BY <1>3 DEF accept
    <2> HIDE DEF d
    <2>3. \A x \in ClientFds : x # d => table'[x] = table[x]
        BY <2>1, <2>2
    <2> QED BY <2>2, <2>3 DEF worker_map
<1>4. CASE connection_handle
    <2>1. /\ master = "welcome" /\ master' = "add" /\ fd' = fd /\ polled' = polled
          /\ worker' = worker
          /\ \A x \in ClientFds : table'[x] = table[x] \/ table'[x] = Free
        BY <1>4 DEF connection_handle, close
    <2> QED BY <2>1 DEF worker_map
<1>5. CASE events_add_event_2
    <2>1. fd \in ClientFds /\ table' = table /\ master = "add" /\ worker' = worker
        BY <1>5 DEF events_add_event_2
    <2>2. worker_map(fd) \in Workers
        BY <2>1, WorkerMapIsWorker
    <2> DEFINE w == worker_map(fd)
    <2>3. worker[w] = "absent" \/ (worker[w] \in {"loop", "dead"} /\ ev_handler[w] = w /\ w # Nobody)
        BY <2>1, <2>2 DEF StartupInv, Workers, Nobody
    <2>4. worker[w] # "absent" /\ table[fd] # Free => fd \in polled'[w]
        BY <1>5, <2>2, <2>3 DEF events_add_event_2
    <2>5. \A u \in Workers : polled[u] \subseteq polled'[u]
        BY <1>5, <2>2 DEF events_add_event_2
    <2> HIDE DEF w
    <2>6. \A x \in Open' : x \in polled'[worker_map(x)] \/ worker[worker_map(x)] = "absent"
        BY <2>1, <2>4, <2>5, WorkerMapIsWorker DEF w
    <2> QED BY <2>1, <2>6 DEF worker_map
<1>6. CASE MasterDies
    BY <1>6 DEF MasterDies
<1>7. ASSUME NEW w \in Workers, NEW e \in batch[w], Close(w, e) PROVE HandOverInv'
    <2>1. master' = master /\ fd' = fd /\ worker' = worker
        BY <1>7 DEF Close
    <2>2. e[1] \in ClientFds
        OBVIOUS
    <2>3. \A x \in ClientFds : table'[x] = IF x = e[1] THEN Free ELSE table[x]
        BY <1>7, <2>2 DEF Close, close
    <2>4. \A v \in Workers : \A x \in polled[v] : x # e[1] => x \in polled'[v]
        BY <1>7 DEF Close
    <2> QED BY <2>1, <2>3, <2>4, WorkerMapIsWorker DEF worker_map
<1>8. CASE worker_spawn
    <2>1. Open' = {}
        BY <1>8 DEF worker_spawn, StartupInv
    <2> QED BY <2>1
<1>9. ASSUME NEW w \in Workers, worker_server(w) \/ worker_exit(w) \/ Die(w)
      PROVE  HandOverInv'
    <2>1. UNCHANGED <<master, fd, table, polled>> /\ worker[w] # "absent"
        BY <1>9 DEF worker_server, worker_exit, Die
    <2>2. \A v \in Workers : worker[v] = "absent" => worker'[v] = "absent"
        BY <1>9 DEF worker_server, worker_exit, Die
    <2> QED BY <2>1, <2>2, WorkerMapIsWorker DEF worker_map
<1> QED
    BY <1>1, <1>2, <1>3, <1>4, <1>5, <1>6, <1>7, <1>8, <1>9
    DEF Next, Master, Worker, Handle, Connect, Arrive, events_wait, Keep, vars

-----------------------------------------------------------------------------
(* Theorems. *)

\* The three invariants that need no assumption about time hold together: each
\* one's step needs the others.
LEMMA OwnersAlways == Spec => [](TypeInv /\ OwnerInv /\ EventInv)
<1>1. Init => TypeInv /\ OwnerInv /\ EventInv
    BY TypeInit, OwnerInit
<1>2. TypeInv /\ OwnerInv /\ EventInv /\ [Next]_vars => (TypeInv /\ OwnerInv /\ EventInv)'
    BY TypeStep, OwnerStep, EventStep
<1> QED BY <1>1, <1>2, PTL DEF Spec

\* The descriptor table, the epoll sets and the batches keep their types, whoever
\* dies and however slowly the workers start.
THEOREM TypeCorrect == Spec => []TypeOK
<1>1. TypeInv => TypeOK
    BY DEF TypeInv
<1> QED BY <1>1, OwnersAlways, PTL

\* A worker never handles an event of the former connection behind a descriptor
\* that was closed and handed out again by accept.
THEOREM NoStaleEventHolds == Spec => []NoStaleEvent
<1>1. EventInv => NoStaleEvent
    BY DEF EventInv, NoStaleEvent
<1> QED BY <1>1, OwnersAlways, PTL

\* A descriptor has one connection and is polled by one worker at most, and only while
\* it is open, whatever an earlier start left in the shared memory.
THEOREM OneOwnerHolds == Spec => []OneOwner
<1>1. OwnerInv => OneOwner
    BY DEF OwnerInv
<1> QED BY <1>1, OwnersAlways, PTL

\* When the workers' start fits into the usleep before the main loop, no client of a
\* worker that was started is left without it, even if workers die.
THEOREM NoOrphanHolds ==
    ASSUME SleepCoversStartup
    PROVE  Spec => []NoOrphan
<1>1. Init => TypeInv /\ OwnerInv /\ EventInv /\ StartupInv /\ HandOverInv
    BY TypeInit, OwnerInit, HandOverInit
<1>2. TypeInv /\ OwnerInv /\ EventInv /\ StartupInv /\ HandOverInv /\ [Next]_vars
        => (TypeInv /\ OwnerInv /\ EventInv /\ StartupInv /\ HandOverInv)'
    BY TypeStep, OwnerStep, EventStep, StartupStep, HandOverStep
<1>3. HandOverInv => NoOrphan
    BY DEF HandOverInv, NoOrphan
<1> QED BY <1>1, <1>2, <1>3, PTL DEF Spec
=============================================================================
