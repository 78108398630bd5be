------------------------ MODULE PersistedQueueProofs ------------------------
(***************************************************************************)
(* Theorems about PersistedQueue for any set of files, workers,            *)
(* mailhandlers and mails and any queue size.                              *)
(***************************************************************************)
EXTENDS PersistedQueue, FiniteSetTheorems, TLAPS

-----------------------------------------------------------------------------
(* Arithmetic of the ring. *)

\* Taking a remainder by the queue size stays in the slots (`% message_max_count`).
LEMMA ModInSlots ==
    ASSUME NEW x \in Nat PROVE x % MessageMaxCount \in Slots
BY QueueAssumption DEF Slots

\* A remainder below twice the queue size wraps around at most once.
LEMMA ModOnce ==
    ASSUME NEW x \in 0 .. 2 * MessageMaxCount - 1
    PROVE  x % MessageMaxCount =
               IF x < MessageMaxCount THEN x ELSE x - MessageMaxCount
<1>1. MessageMaxCount \in Nat /\ MessageMaxCount > 0
  BY QueueAssumption
<1>2. CASE x < MessageMaxCount
  BY <1>1, <1>2
<1>3. CASE x >= MessageMaxCount
  BY <1>1, <1>3
<1>. QED  BY <1>1, <1>2, <1>3
-----------------------------------------------------------------------------
(* Types.  No assumption on the environment: kills anywhere, signals, resets. *)

\* Every step of every process keeps the header, the slots, the semaphore and
\* the registers in their types.
LEMMA TypeStep == TypeOK /\ [Next]_vars => TypeOK'
<1>. SUFFICES ASSUME TypeOK, [Next]_vars PROVE TypeOK'
  OBVIOUS
<1>a. FileOf \in [Procs -> Queues] /\ MessageMaxCount \in Nat \ {0}
  BY QueueAssumption
<1>b. Slots \subseteq Nat
  BY <1>a DEF Slots
<1>u. CASE UNCHANGED vars
  BY <1>u DEF TypeOK, vars, header, sem
<1>n. ASSUME NEW p \in Procs, Step(p) PROVE TypeOK'
  <2>. USE <1>a DEF header, sem
  <2>1. CASE Start(p)
    BY <2>1 DEF TypeOK, Start, worker_init, worker_spawn, pq_init,
                semaphore_init, Goto, PCs
  <2>2. ASSUME NEW m \in Mail, pq_enqueue(p, m) PROVE TypeOK'
    BY <2>2 DEF TypeOK, pq_enqueue, Goto, PCs
  <2>3. CASE pq_dequeue(p)
    BY <2>3 DEF TypeOK, pq_dequeue, Goto, PCs
  <2>4. CASE semaphore_wait(p)
    BY <2>4 DEF TypeOK, semaphore_wait, Goto, PCs
  <2>5. CASE semaphore_interrupted(p)
    BY <2>5 DEF TypeOK, semaphore_interrupted, Goto, PCs
  <2>6. CASE EnqueueFull(p) \/ EnqueueAccept(p) \/ DequeueEmpty(p) \/ DequeueAccept(p)
    BY <2>6 DEF TypeOK, EnqueueFull, EnqueueAccept, DequeueEmpty,
                DequeueAccept, Goto, PCs
  <2>7. CASE EnqueueCopy(p)
    BY <2>7 DEF TypeOK, EnqueueCopy, Goto, PCs
  <2>8. CASE EnqueueAdvance(p) \/ DequeueAdvance(p)
    <3>1. CASE EnqueueAdvance(p)
      BY <3>1 DEF TypeOK, EnqueueAdvance, Goto, PCs
    <3>2. CASE DequeueAdvance(p)
      BY <3>2 DEF TypeOK, DequeueAdvance, Goto, PCs
    <3>. QED  BY <2>8, <3>1, <3>2
  <2>9. CASE EnqueueWrap(p)
    <3>1. write_offset[FileOf[p]] % MessageMaxCount \in Nat
      BY ModInSlots, <1>b DEF TypeOK
    <3>. QED  BY <3>1, <2>9 DEF TypeOK, EnqueueWrap, Goto, PCs
  <2>10. CASE DequeueWrap(p)
    <3>1. read_offset[FileOf[p]] % MessageMaxCount \in Nat
      BY ModInSlots, <1>b DEF TypeOK
    <3>. QED  BY <3>1, <2>10 DEF TypeOK, DequeueWrap, Goto, PCs
  <2>11. CASE DequeueCopy(p)
    BY <2>11 DEF TypeOK, DequeueCopy, Goto, PCs
  <2>12. CASE LoadCount(p)
    BY <2>12 DEF TypeOK, LoadCount, Goto, PCs
  <2>13. CASE StoreCount(p)
    BY <2>13 DEF TypeOK, StoreCount, Goto, PCs
  <2>14. CASE semaphore_post(p)
    BY <2>14 DEF TypeOK, semaphore_post, Goto, PCs
  <2>15. CASE Kill(p) \/ MemoryFault(p)
    <3>1. Die(p)
      BY <2>15 DEF Kill, MemoryFault
    <3>2. semval' \in Nat
      BY <3>1 DEF TypeOK, Die
    <3>. QED  BY <3>1, <3>2 DEF TypeOK, Die, PCs
  <2>. QED
    BY <1>n, <2>1, <2>2, <2>3, <2>4, <2>5, <2>6, <2>7, <2>8, <2>9, <2>10, <2>11,
       <2>12, <2>13, <2>14, <2>15
       DEF Step, Progress, Enqueue, Dequeue
<1>. QED  BY <1>u, <1>n DEF Next

\* The initial files, semaphore and processes are well typed.
LEMMA TypeInit == Init => TypeOK
BY QueueAssumption DEF Init, InitWith, TypeOK, PCs

\* Whatever is killed, signalled or reset, the queue files, the semaphore and
\* the processes' variables keep their types (no offset goes negative).
THEOREM TypeCorrect == Spec => []TypeOK
BY TypeInit, TypeStep, PTL DEF Spec
-----------------------------------------------------------------------------
(* The semaphore, when pq_init runs only in quiet moments and no sleeping     *)
(* semop is interrupted.  Kills may come anywhere.                            *)

\* The semaphore, the undo counts and the critical section agree.
SemInv ==
    /\ MutualExclusion
    /\ \A p \in Procs : semadj[p] = IF pc[p] \in Inside THEN 1 ELSE 0
    /\ semval \in {0, 1}
    /\ semval = 1 <=> \A p \in Procs : pc[p] \notin Inside

\* A step between semaphore_wait and semaphore_post: p stays inside.
InsideStep(p) ==
    /\ pc[p] \in Inside
    /\ \E s \in Inside : pc' = [pc EXCEPT ![p] = s]
    /\ UNCHANGED sem

\* The steps of pq_enqueue and pq_dequeue between semaphore_wait and
\* semaphore_post are steps of one process that stays in the critical section.
LEMMA WorkIsInside ==
    ASSUME NEW p \in Procs,
           Enqueue(p) \/ Dequeue(p) \/ LoadCount(p) \/ StoreCount(p)
    PROVE  InsideStep(p)
<1>1. CASE Enqueue(p)
  BY <1>1 DEF Enqueue, EnqueueFull, EnqueueAccept, EnqueueCopy, EnqueueAdvance,
              EnqueueWrap, Goto, Inside, InsideStep, sem
<1>2. CASE Dequeue(p)
  BY <1>2 DEF Dequeue, DequeueEmpty, DequeueAccept, DequeueCopy, DequeueAdvance,
              DequeueWrap, Goto, Inside, InsideStep, sem
<1>3. CASE LoadCount(p) \/ StoreCount(p)
  BY <1>3 DEF LoadCount, StoreCount, Goto, Inside, InsideStep, sem
<1>. QED  BY <1>1, <1>2, <1>3

\* A step of a process that is neither interrupted in semop nor killed in the window,
\* and that resets the semaphore only in a quiet moment.
QuietStep(p) ==
    /\ Step(p)
    /\ ~ semaphore_interrupted(p)
    /\ Kill(p) => pc[p] \notin Window
    /\ worker_init(p) \/ pq_init(p) => \A r \in Procs : pc[r] \notin Inside

\* A step of a process keeps semaphore, undo counts and critical section in
\* agreement, a kill included: SEM_UNDO gives back exactly what the dead process
\* held.  A reset by pq_init has to come in a quiet moment.
LEMMA SemProcess ==
    ASSUME TypeOK, SemInv, NEW p \in Procs, Step(p), ~ semaphore_interrupted(p),
           worker_init(p) \/ pq_init(p) => \A r \in Procs : pc[r] \notin Inside
    PROVE  SemInv'
<1>. USE DEF Goto
<1>1. CASE worker_init(p) \/ pq_init(p)
  BY <1>1 DEF worker_init, pq_init, semaphore_init, SemInv, MutualExclusion,
              TypeOK, Inside
<1>2. CASE worker_spawn(p) \/ pq_dequeue(p) \/ \E m \in Mail : pq_enqueue(p, m)
  <2>1. /\ pc[p] \notin Inside /\ UNCHANGED sem
        /\ \E s \in PCs \ Inside : pc' = [pc EXCEPT ![p] = s]
    BY <1>2 DEF worker_spawn, pq_dequeue, pq_enqueue, Inside, PCs, sem
  <2>. QED  BY <2>1 DEF SemInv, MutualExclusion, TypeOK, sem
<1>3. CASE semaphore_wait(p)
  <2>1. semval = 1 /\ \A r \in Procs : pc[r] \notin Inside
    BY <1>3 DEF semaphore_wait, SemInv
  <2>2. pc'[p] \in Inside /\ \A r \in Procs \ {p} : pc'[r] \notin Inside
    BY <1>3, <2>1 DEF semaphore_wait, TypeOK, Inside
  <2>3. semval' = 0 /\ semadj' = [semadj EXCEPT ![p] = @ + 1]
    BY <1>3, <2>1 DEF semaphore_wait
  <2>. QED  BY <2>1, <2>2, <2>3 DEF SemInv, MutualExclusion, TypeOK
<1>4. CASE Enqueue(p) \/ Dequeue(p) \/ LoadCount(p) \/ StoreCount(p)
  <2>1. PICK s \in Inside : pc' = [pc EXCEPT ![p] = s]
    BY <1>4, WorkIsInside DEF InsideStep
  <2>2. pc[p] \in Inside /\ UNCHANGED <<semval, semadj>>
    BY <1>4, WorkIsInside DEF InsideStep, sem
  <2>3. \A r \in Procs : pc'[r] \in Inside <=> pc[r] \in Inside
    BY <2>1, <2>2 DEF TypeOK
  <2>. QED  BY <2>2, <2>3 DEF SemInv, MutualExclusion
<1>5. CASE semaphore_post(p)
  <2>1. pc[p] \in Inside /\ semval = 0 /\ semadj[p] = 1
    BY <1>5 DEF semaphore_post, SemInv, Inside
  <2>2. \A r \in Procs : pc'[r] \notin Inside
    BY <1>5, <2>1 DEF semaphore_post, SemInv, MutualExclusion, TypeOK, Inside
  <2>3. semval' = 1 /\ semadj' = [semadj EXCEPT ![p] = @ - 1]
    BY <1>5, <2>1 DEF semaphore_post
  <2>4. \A r \in Procs : semadj'[r] = 0
    BY <2>1, <2>3 DEF SemInv, MutualExclusion, TypeOK
  <2>. QED  BY <2>2, <2>3, <2>4 DEF SemInv, MutualExclusion
<1>6. CASE Kill(p) \/ MemoryFault(p)
  <2>1. Die(p)
    BY <1>6 DEF Kill, MemoryFault
  <2>2. /\ pc'[p] \notin Inside
        /\ \A r \in Procs \ {p} : pc'[r] = pc[r] /\ semadj'[r] = semadj[r]
        /\ semadj'[p] = 0
    BY <2>1 DEF Die, TypeOK, Inside
  <2>3. CASE pc[p] \in Inside
    <3>1. semval = 0 /\ semadj[p] = 1
      BY <2>3 DEF SemInv
    <3>2. semval' = 1
      BY <2>1, <3>1 DEF Die
    <3>3. \A r \in Procs : pc'[r] \notin Inside
      BY <2>2, <2>3 DEF SemInv, MutualExclusion
    <3>. QED  BY <2>2, <3>2, <3>3 DEF SemInv, MutualExclusion
  <2>4. CASE pc[p] \notin Inside
    <3>1. semval' = semval
      BY <2>1, <2>4 DEF Die, SemInv, TypeOK
    <3>2. \A r \in Procs : pc'[r] \in Inside <=> pc[r] \in Inside
      BY <2>2, <2>4
    <3>3. \A r \in Procs : semadj'[r] = semadj[r]
      BY <2>2, <2>4 DEF SemInv
    <3>. QED  BY <3>1, <3>2, <3>3 DEF SemInv, MutualExclusion
  <2>. QED  BY <2>3, <2>4
<1>. QED
  BY <1>1, <1>2, <1>3, <1>4, <1>5, <1>6 DEF Step, Start, Progress

\* Every step of the system keeps them in agreement.
LEMMA SemStep ==
    ASSUME InitOnlyWhenQuiet, ~Interrupts, TypeOK, SemInv, [Next]_vars
    PROVE  SemInv'
<1>u. CASE UNCHANGED vars
  BY <1>u DEF SemInv, MutualExclusion, vars, sem
<1>n. ASSUME NEW p \in Procs, Step(p) PROVE SemInv'
  <2>1. worker_init(p) \/ pq_init(p) => \A r \in Procs : pc[r] \notin Inside
    BY DEF worker_init, pq_init, semaphore_init
  <2>2. ~ semaphore_interrupted(p)
    BY DEF semaphore_interrupted
  <2>. QED  BY <1>n, <2>1, <2>2, SemProcess
<1>. QED  BY <1>u, <1>n DEF Next

\* Nobody is inside lib-pq when the system starts.
LEMMA SemInit == Init => SemInv
BY DEF Init, InitWith, SemInv, MutualExclusion, Inside

\* The lock of lib-pq works across crashes at any instruction, as long as
\* pq_init does not reset the semaphore under a running call and no signal
\* interrupts a sleeping semop.
THEOREM MutualExclusionHolds ==
    ASSUME InitOnlyWhenQuiet, ~Interrupts
    PROVE  Spec => []MutualExclusion
<1>1. SemInv => MutualExclusion
  BY DEF SemInv
<1>2. TypeOK /\ SemInv /\ [Next]_vars => SemInv'
  BY SemStep
<1>. QED  BY SemInit, TypeInit, TypeStep, <1>1, <1>2, PTL DEF Spec

-----------------------------------------------------------------------------
(* SEM_UNDO, whatever happens: kills anywhere, resets under a running call,   *)
(* interrupted semops.                                                        *)

\* s[i] is the sum of f over the first i processes in the order e.
Totals(n, e, f, s) ==
    /\ s \in [0 .. n -> Int]
    /\ s[0] = 0
    /\ \A i \in 1 .. n : s[i] = s[i - 1] + f[e[i]]

\* When the value of one process changes by d, so does the sum.
LEMMA TotalMoves ==
    ASSUME NEW n \in Nat, NEW e \in Bijection(1 .. n, Procs),
           NEW f \in [Procs -> Int], NEW s, Totals(n, e, f, s),
           NEW p \in Procs, NEW d \in Int,
           NEW g, g[p] = f[p] + d, \A r \in Procs \ {p} : g[r] = f[r]
    PROVE  \E t : Totals(n, e, g, t) /\ t[n] = s[n] + d
<1>1. /\ e \in [1 .. n -> Procs]
      /\ \A i, j \in 1 .. n : e[i] = e[j] => i = j
      /\ \A r \in Procs : \E i \in 1 .. n : e[i] = r
  BY DEF Bijection, Injection, Surjection, IsInjective
<1>2. PICK k \in 1 .. n : e[k] = p
  BY <1>1
<1>. DEFINE t == [i \in 0 .. n |-> IF i < k THEN s[i] ELSE s[i] + d]
<1>3. t \in [0 .. n -> Int] /\ t[0] = 0 /\ t[n] = s[n] + d
  BY <1>2 DEF Totals
<1>4. ASSUME NEW i \in 1 .. n PROVE t[i] = t[i - 1] + g[e[i]]
  <2>1. /\ i \in 0 .. n /\ i - 1 \in 0 .. n /\ s[i] \in Int /\ s[i - 1] \in Int
        /\ s[i] = s[i - 1] + f[e[i]] /\ e[i] \in Procs /\ f[e[i]] \in Int
    <3>1. i \in 0 .. n /\ i - 1 \in 0 .. n
      OBVIOUS
    <3>2. e[i] \in Procs
      BY <1>1
    <3>. QED  BY <3>1, <3>2 DEF Totals
  <2>2. CASE i = k
    BY <1>2, <2>1, <2>2
  <2>3. CASE i # k
    <3>1. e[i] # p
      BY <1>1, <1>2, <2>3
    <3>2. g[e[i]] = f[e[i]]
      BY <2>1, <3>1
    <3>3. CASE i < k
      BY <1>2, <2>1, <3>2, <3>3
    <3>4. CASE i > k
      BY <1>2, <2>1, <3>2, <3>4
    <3>. QED  BY <1>2, <2>3, <3>3, <3>4
  <2>. QED  BY <2>2, <2>3
<1>5. Totals(n, e, g, t)
  BY <1>3, <1>4 DEF Totals
<1>. QED  BY <1>3, <1>5

\* A positive sum has a positive term.
LEMMA TotalPositive ==
    ASSUME NEW n \in Nat, NEW e \in Bijection(1 .. n, Procs),
           NEW f \in [Procs -> Int], NEW s, Totals(n, e, f, s), s[n] >= 1
    PROVE  \E p \in Procs : f[p] >= 1
<1>. DEFINE T == {i \in 0 .. n : s[i] >= 1}
<1>1. n \in T /\ T \subseteq Nat
  OBVIOUS
<1>2. PICK i \in T : \A j \in T : ~ (<<j, i>> \in OpToRel(<, Nat))
  BY <1>1, WFMin, NatLessThanWellFounded
<1>3. i \in 1 .. n /\ i - 1 \in 0 .. n
  BY DEF Totals
<1>4. ~ (s[i - 1] >= 1)
  <2>1. \A j \in T : ~ (j < i)
    BY <1>1, <1>2 DEF OpToRel
  <2>. QED  BY <1>3, <2>1
<1>5. /\ s[i] = s[i - 1] + f[e[i]] /\ s[i - 1] \in Int /\ s[i] >= 1
      /\ e[i] \in Procs /\ f[e[i]] \in Int
  BY <1>3 DEF Totals, Bijection, Injection
<1>. QED  BY <1>4, <1>5

\* What the semaphore has and what SEM_UNDO owes it make up at least one, and only a
\* process inside is owed for.  (n and e enumerate the processes.)  The sum is exactly
\* one until an undo would push the value below 0.
UndoInv(n, e) ==
    /\ \A p \in Procs : semadj[p] <= IF pc[p] \in Inside THEN 1 ELSE 0
    /\ \E s : Totals(n, e, semadj, s) /\ semval + s[n] >= 1

\* At the start, and after a reset by pq_init, nobody is owed anything.
LEMMA UndoReset ==
    ASSUME NEW n \in Nat, NEW e \in Bijection(1 .. n, Procs),
           NEW f, f = [p \in Procs |-> 0]
    PROVE  \E s : Totals(n, e, f, s) /\ s[n] = 0
<1>. DEFINE s == [i \in 0 .. n |-> 0]
<1>1. \A i \in 1 .. n : e[i] \in Procs
  BY DEF Bijection, Injection
<1>2. Totals(n, e, f, s) /\ s[n] = 0
  BY <1>1 DEF Totals
<1>. QED  BY <1>2

\* The semaphore and the undo count of a process move against each other, or the
\* semaphore gains.
LEMMA UndoMoves ==
    ASSUME NEW n \in Nat, NEW e \in Bijection(1 .. n, Procs), TypeOK, UndoInv(n, e),
           NEW p \in Procs, NEW d \in Int,
           semadj'[p] = semadj[p] + d, semval' \in Int, semval' >= semval - d,
           \A r \in Procs \ {p} : semadj'[r] = semadj[r] /\ pc'[r] = pc[r],
           semadj[p] + d <= IF pc'[p] \in Inside THEN 1 ELSE 0
    PROVE  UndoInv(n, e)'
<1>1. semadj \in [Procs -> Int] /\ semval \in Int
  BY DEF TypeOK
<1>2. PICK s : Totals(n, e, semadj, s) /\ semval + s[n] >= 1
  BY DEF UndoInv
<1>3. PICK t : Totals(n, e, semadj', t) /\ t[n] = s[n] + d
  BY <1>1, <1>2, TotalMoves
<1>4. s[n] \in Int
  BY <1>2 DEF Totals
<1>5. semval' + t[n] >= 1
  BY <1>1, <1>2, <1>3, <1>4
<1>6. \A r \in Procs : semadj'[r] <= IF pc'[r] \in Inside THEN 1 ELSE 0
  BY <1>1 DEF UndoInv
<1>7. \E u : Totals(n, e, semadj', u) /\ semval' + u[n] >= 1
  BY <1>3, <1>5
<1>. QED  BY <1>6, <1>7 DEF UndoInv, Totals

\* Every step of every process keeps the account, a reset under a running call and
\* a semop that was interrupted included.
LEMMA UndoStep ==
    ASSUME NEW n \in Nat, NEW e \in Bijection(1 .. n, Procs), TypeOK, TypeOK',
           UndoInv(n, e), [Next]_vars
    PROVE  UndoInv(n, e)'
<1>u. CASE UNCHANGED vars
  BY <1>u DEF UndoInv, Totals, vars, sem
<1>n. ASSUME NEW p \in Procs, Step(p) PROVE UndoInv(n, e)'
  <2>. USE DEF Goto
  <2>t. semadj[p] \in Int /\ semval \in Int /\ semval' \in Int
    BY DEF TypeOK
  <2>b. semadj[p] <= IF pc[p] \in Inside THEN 1 ELSE 0
    BY DEF UndoInv
  <2>s. ASSUME UNCHANGED sem, \A r \in Procs \ {p} : pc'[r] = pc[r],
               pc[p] \in Inside => pc'[p] \in Inside
        PROVE  UndoInv(n, e)'
    <3>1. semadj'[p] = semadj[p] + 0 /\ \A r \in Procs \ {p} : semadj'[r] = semadj[r]
      BY <2>s, <2>t DEF sem
    <3>2. semval' >= semval - 0 /\ semadj[p] + 0 <= IF pc'[p] \in Inside THEN 1 ELSE 0
      BY <2>s, <2>t, <2>b DEF sem
    <3>. QED  BY <2>s, <2>t, <3>1, <3>2, UndoMoves
  <2>1. CASE worker_init(p) \/ pq_init(p)
    <3>1. semval' = 1 /\ semadj' = [r \in Procs |-> 0]
      BY <2>1 DEF worker_init, pq_init, semaphore_init
    <3>2. PICK s : Totals(n, e, semadj', s) /\ s[n] = 0
      BY <3>1, UndoReset
    <3>3. semval' + s[n] >= 1
      BY <3>1, <3>2
    <3>4. \A r \in Procs : semadj'[r] <= IF pc'[r] \in Inside THEN 1 ELSE 0
      BY <3>1
    <3>. QED  BY <3>2, <3>3, <3>4 DEF UndoInv, Totals
  <2>2. CASE \/ worker_spawn(p) \/ pq_dequeue(p) \/ semaphore_interrupted(p)
             \/ \E m \in Mail : pq_enqueue(p, m)
    BY <2>2, <2>s DEF worker_spawn, pq_dequeue, pq_enqueue, semaphore_interrupted,
                      Inside, TypeOK
  <2>3. CASE Enqueue(p) \/ Dequeue(p) \/ LoadCount(p) \/ StoreCount(p)
    BY <2>3, <2>s, WorkIsInside DEF InsideStep, TypeOK
  <2>4. CASE semaphore_wait(p)
    <3>1. semadj[p] + 1 <= 1 /\ pc'[p] \in Inside
      BY <2>4, <2>t, <2>b DEF semaphore_wait, TypeOK, Inside
    <3>2. /\ semadj'[p] = semadj[p] + 1 /\ semval' >= semval - 1
          /\ \A r \in Procs \ {p} : semadj'[r] = semadj[r] /\ pc'[r] = pc[r]
      BY <2>4, <2>t DEF semaphore_wait, TypeOK
    <3>. QED  BY <2>t, <3>1, <3>2, UndoMoves
  <2>5. CASE semaphore_post(p)
    <3>1. semadj[p] + (-1) <= 0
      BY <2>t, <2>b
    <3>2. /\ semadj'[p] = semadj[p] + (-1) /\ semval' >= semval - (-1)
          /\ \A r \in Procs \ {p} : semadj'[r] = semadj[r] /\ pc'[r] = pc[r]
      BY <2>5, <2>t DEF semaphore_post, TypeOK
    <3>. QED  BY <2>t, <3>1, <3>2, UndoMoves
  <2>6. CASE Kill(p) \/ MemoryFault(p)
    <3>1. Die(p)
      BY <2>6 DEF Kill, MemoryFault
    <3>2. /\ semadj'[p] = semadj[p] + (- semadj[p])
          /\ semval' >= semval - (- semadj[p])
          /\ \A r \in Procs \ {p} : semadj'[r] = semadj[r] /\ pc'[r] = pc[r]
      BY <3>1, <2>t DEF Die, TypeOK
    <3>3. semadj[p] + (- semadj[p]) <= 0
      BY <2>t
    <3>. QED  BY <2>t, <3>2, <3>3, UndoMoves
  <2>. QED
    BY <1>n, <2>1, <2>2, <2>3, <2>4, <2>5, <2>6 DEF Step, Start, Progress
<1>. QED  BY <1>u, <1>n DEF Next

\* SEM_UNDO and SETALL never lose the semaphore, whatever is killed at whatever
\* instruction, whoever resets the semaphore under a running call and whichever
\* sleeping semop is interrupted: when it is taken, a process that the kernel will
\* undo for is between semaphore_wait and semaphore_post.
THEOREM SemaphoreNeverLostHolds ==
    ASSUME IsFiniteSet(Procs)
    PROVE  Spec => []SemaphoreNeverLost
<1>1. PICK n \in Nat : ExistsBijection(1 .. n, Procs)
  BY FS_CardinalityType
<1>2. PICK e : e \in Bijection(1 .. n, Procs)
  BY <1>1 DEF ExistsBijection
<1>3. Init => UndoInv(n, e)
  <2>. SUFFICES ASSUME Init PROVE UndoInv(n, e)
    OBVIOUS
  <2>1. semval = 1 /\ semadj = [p \in Procs |-> 0]
    BY DEF Init, InitWith
  <2>2. PICK s : Totals(n, e, semadj, s) /\ s[n] = 0
    BY <1>1, <1>2, <2>1, UndoReset
  <2>. QED  BY <2>1, <2>2 DEF UndoInv
<1>4. TypeOK /\ UndoInv(n, e) => SemaphoreNeverLost
  <2>. SUFFICES ASSUME TypeOK, UndoInv(n, e), semval = 0
                PROVE  \E p \in Procs : pc[p] \in Inside /\ semadj[p] = 1
    BY DEF SemaphoreNeverLost
  <2>1. PICK s : Totals(n, e, semadj, s) /\ semval + s[n] >= 1
    BY DEF UndoInv
  <2>2. s[n] >= 1
    BY <1>1, <2>1 DEF Totals
  <2>3. PICK p \in Procs : semadj[p] >= 1
    BY <1>1, <1>2, <2>1, <2>2, TotalPositive DEF TypeOK
  <2>4. semadj[p] \in Int /\ semadj[p] <= IF pc[p] \in Inside THEN 1 ELSE 0
    BY DEF UndoInv, TypeOK
  <2>. QED  BY <2>3, <2>4
<1>5. TypeOK /\ UndoInv(n, e) /\ [Next]_vars => UndoInv(n, e)'
  BY <1>1, <1>2, UndoStep, TypeStep
<1>. QED  BY <1>3, <1>4, <1>5, TypeInit, TypeStep, PTL DEF Spec

-----------------------------------------------------------------------------
(* The ring, when in addition no process is killed inside the window.         *)

\* A ring read from r holding n mails is written next at w.
Agree(r, n, w) == r + n = w \/ r + n = w + MessageMaxCount

\* What a file looks like when no call is half way.
RestOK(q) ==
    /\ read_offset[q] \in Slots
    /\ write_offset[q] \in Slots
    /\ message_count[q] \in 0 .. MessageMaxCount
    /\ Agree(read_offset[q], message_count[q], write_offset[q])

\* What the worker in the middle of pq_enqueue has made of its file.
EnqueuingOK(p) ==
    LET q == FileOf[p] IN
    /\ pc[p] \in {"copy", "advance"} => message_count[q] < MessageMaxCount
    /\ pc[p] \in Window =>
          /\ read_offset[q] \in Slots
          /\ message_count[q] \in 0 .. MessageMaxCount - 1
          /\ IF pc[p] = "wrap" THEN write_offset[q] \in 1 .. MessageMaxCount
                               ELSE write_offset[q] \in Slots
          /\ Agree(read_offset[q], message_count[q] + 1, write_offset[q])
    /\ pc[p] = "store" => reg[p] = message_count[q]

\* What the mailhandler in the middle of pq_dequeue has made of its file.
DequeuingOK(c) ==
    LET q == FileOf[c] IN
    /\ pc[c] \in {"copy", "advance"} => message_count[q] > 0
    /\ pc[c] \in Window =>
          /\ write_offset[q] \in Slots
          /\ message_count[q] \in 1 .. MessageMaxCount
          /\ IF pc[c] = "wrap" THEN read_offset[q] \in 1 .. MessageMaxCount
                               ELSE read_offset[q] \in Slots
          /\ Agree(read_offset[q], message_count[q] - 1, write_offset[q])
    /\ pc[c] = "store" => reg[c] = message_count[q]

RingInv ==
    /\ \A q \in Queues : AtRest(q) => RestOK(q)
    /\ \A p \in Producers : EnqueuingOK(p)
    /\ \A c \in Consumers : DequeuingOK(c)

\* A step that leaves the header alone and starts or ends outside the part of a
\* call that relies on it (start, call, semop, refusal, death) keeps the ring.
LEMMA RingFrame ==
    ASSUME TypeOK, RingInv, NEW p \in Procs, NEW s \in PCs,
           UNCHANGED header, pc' = [pc EXCEPT ![p] = s],
           pc[p] \notin Window, s \notin Window \cup {"copy", "advance"},
           \A r \in Procs \ {p} : reg'[r] = reg[r]
    PROVE  RingInv'
<1>. USE QueueAssumption
<1>1. \A r \in Procs : r # p => pc'[r] = pc[r]
  BY DEF TypeOK
<1>2. pc'[p] = s
  BY DEF TypeOK
<1>3. \A q \in Queues : AtRest(q)' <=> AtRest(q)
  BY <1>1, <1>2 DEF AtRest, Window
<1>4. \A q \in Queues : (AtRest(q) => RestOK(q))'
  BY <1>3 DEF RingInv, RestOK, Agree, header
<1>5. ASSUME NEW r \in Producers PROVE EnqueuingOK(r)'
  <2>1. CASE r = p
    BY <2>1, <1>2 DEF EnqueuingOK, Window
  <2>2. CASE r # p
    BY <2>2, <1>1 DEF EnqueuingOK, RingInv, Agree, header, Procs
  <2>. QED  BY <2>1, <2>2
<1>6. ASSUME NEW r \in Consumers PROVE DequeuingOK(r)'
  <2>1. CASE r = p
    BY <2>1, <1>2 DEF DequeuingOK, Window
  <2>2. CASE r # p
    BY <2>2, <1>1 DEF DequeuingOK, RingInv, Agree, header, Procs
  <2>. QED  BY <2>1, <2>2
<1>. QED  BY <1>4, <1>5, <1>6 DEF RingInv

\* A step inside the critical section only has to be right about the file of
\* the process that takes it: there is no other process inside.
LEMMA RingLocal ==
    ASSUME TypeOK, MutualExclusion, RingInv,
           NEW p \in Procs, NEW s \in Inside,
           pc[p] \in Inside, pc' = [pc EXCEPT ![p] = s],
           \A q \in Queues \ {FileOf[p]} :
              /\ write_offset'[q] = write_offset[q]
              /\ read_offset'[q] = read_offset[q]
              /\ message_count'[q] = message_count[q],
           s \notin Window => RestOK(FileOf[p])',
           p \in Producers => EnqueuingOK(p)',
           p \in Consumers => DequeuingOK(p)'
    PROVE  RingInv'
<1>. USE QueueAssumption
<1>1. \A r \in Procs : r # p => pc'[r] = pc[r] /\ pc[r] \notin Inside
  BY DEF TypeOK, MutualExclusion
<1>2. pc'[p] = s
  BY DEF TypeOK
<1>3. Window \subseteq Inside /\ {"copy", "advance"} \subseteq Inside
  BY DEF Window, Inside
<1>4. ASSUME NEW q \in Queues, AtRest(q)' PROVE RestOK(q)'
  <2>1. CASE q = FileOf[p]
    BY <2>1, <1>2, <1>4 DEF AtRest
  <2>2. CASE q # FileOf[p]
    <3>1. AtRest(q)
      BY <2>2, <1>1, <1>3 DEF AtRest
    <3>. QED  BY <2>2, <3>1 DEF RingInv, RestOK, Agree
  <2>. QED  BY <2>1, <2>2
<1>5. ASSUME NEW r \in Producers PROVE EnqueuingOK(r)'
  <2>1. CASE r # p
    <3>1. pc'[r] \notin Inside
      BY <2>1, <1>1 DEF Procs
    <3>. QED  BY <3>1 DEF EnqueuingOK, Inside, Window
  <2>. QED  BY <2>1
<1>6. ASSUME NEW r \in Consumers PROVE DequeuingOK(r)'
  <2>1. CASE r # p
    <3>1. pc'[r] \notin Inside
      BY <2>1, <1>1 DEF Procs
    <3>. QED  BY <3>1 DEF DequeuingOK, Inside, Window
  <2>. QED  BY <2>1
<1>. QED  BY <1>4, <1>5, <1>6 DEF RingInv

\* A process that is inside but not in the window finds its file at rest.
LEMMA RestWhenAlone ==
    ASSUME MutualExclusion, RingInv, NEW p \in Procs, pc[p] \in Inside \ Window
    PROVE  RestOK(FileOf[p])
<1>1. AtRest(FileOf[p])
  BY DEF MutualExclusion, AtRest, Inside, Window
<1>. QED  BY <1>1, QueueAssumption DEF RingInv

\* The steps of pq_enqueue keep the ring: the offset moves first, wraps, and
\* the count follows.
LEMMA RingEnqueue ==
    ASSUME TypeOK, MutualExclusion, RingInv, NEW p \in Producers,
           Enqueue(p) \/ LoadCount(p) \/ StoreCount(p)
    PROVE  RingInv'
<1>. DEFINE q == FileOf[p]
<1>a. /\ p \in Procs /\ p \notin Consumers /\ q \in Queues
      /\ MessageMaxCount \in Nat \ {0}
      /\ FileOf \in [Procs -> Queues]
  BY QueueAssumption DEF Procs
<1>b. /\ write_offset[q] \in Nat /\ read_offset[q] \in Nat
      /\ message_count[q] \in Int
  BY <1>a DEF TypeOK
<1>c. EnqueuingOK(p)
  BY DEF RingInv
<1>1. CASE EnqueueFull(p)
  BY <1>1, <1>a, RingFrame DEF EnqueueFull, Goto, Window, PCs
<1>2. CASE EnqueueAccept(p)
  <2>1. pc[p] \in Inside /\ pc[p] \notin Window /\ pc' = [pc EXCEPT ![p] = "copy"]
    BY <1>2 DEF EnqueueAccept, Goto, Inside, Window
  <2>2. RestOK(q)
    BY <2>1, <1>a, RestWhenAlone
  <2>3. RestOK(q)'
    BY <1>2, <2>2 DEF EnqueueAccept, header, RestOK, Agree
  <2>4. EnqueuingOK(p)'
    BY <1>2, <1>a DEF EnqueueAccept, Goto, header, EnqueuingOK, TypeOK, Window
  <2>. QED  BY <1>2, <2>1, <2>3, <2>4, <1>a, RingLocal
            DEF EnqueueAccept, header, Inside
<1>3. CASE EnqueueCopy(p)
  <2>1. pc[p] \in Inside /\ pc[p] \notin Window /\ pc' = [pc EXCEPT ![p] = "advance"]
    BY <1>3 DEF EnqueueCopy, Goto, Inside, Window
  <2>2. RestOK(q)
    BY <2>1, <1>a, RestWhenAlone
  <2>3. RestOK(q)'
    BY <1>3, <2>2 DEF EnqueueCopy, header, RestOK, Agree
  <2>4. EnqueuingOK(p)'
    BY <1>3, <1>a, <1>c DEF EnqueueCopy, Goto, header, EnqueuingOK, TypeOK, Window
  <2>. QED  BY <1>3, <2>1, <2>3, <2>4, <1>a, RingLocal
            DEF EnqueueCopy, header, Inside
<1>4. CASE EnqueueAdvance(p)
  <2>1. pc[p] = "advance" /\ pc' = [pc EXCEPT ![p] = "wrap"]
    BY <1>4 DEF EnqueueAdvance, Goto
  <2>2. RestOK(q) /\ message_count[q] < MessageMaxCount
    BY <2>1, <1>a, <1>c, RestWhenAlone DEF Inside, Window, EnqueuingOK
  <2>3. /\ write_offset'[q] = write_offset[q] + 1
        /\ \A r \in Queues \ {q} : write_offset'[r] = write_offset[r]
        /\ UNCHANGED <<read_offset, message_count>>
    BY <1>4, <1>a DEF EnqueueAdvance, TypeOK
  <2>4. pc'[p] = "wrap"
    BY <2>1, <1>a DEF TypeOK
  <2>5. EnqueuingOK(p)'
    BY <2>2, <2>3, <2>4, <1>a, <1>b DEF EnqueuingOK, RestOK, Agree, Slots, Window
  <2>. QED  BY <2>1, <2>3, <2>5, <1>a, RingLocal DEF Inside, Window
<1>5. CASE EnqueueWrap(p)
  <2>1. pc[p] = "wrap" /\ pc' = [pc EXCEPT ![p] = "load"]
    BY <1>5 DEF EnqueueWrap, Goto
  <2>2. /\ read_offset[q] \in Slots
        /\ message_count[q] \in 0 .. MessageMaxCount - 1
        /\ write_offset[q] \in 1 .. MessageMaxCount
        /\ Agree(read_offset[q], message_count[q] + 1, write_offset[q])
    BY <2>1, <1>c DEF EnqueuingOK, Window
  <2>3. /\ write_offset'[q] = write_offset[q] % MessageMaxCount
        /\ \A r \in Queues \ {q} : write_offset'[r] = write_offset[r]
        /\ UNCHANGED <<read_offset, message_count>>
    BY <1>5, <1>a DEF EnqueueWrap, TypeOK
  <2>4. write_offset'[q] = IF write_offset[q] = MessageMaxCount THEN 0
                                                               ELSE write_offset[q]
    BY <2>2, <2>3, <1>a, ModOnce
  <2>5. pc'[p] = "load"
    BY <2>1, <1>a DEF TypeOK
  <2>6. write_offset'[q] \in Slots
        /\ Agree(read_offset[q], message_count[q] + 1, write_offset'[q])
    BY <2>2, <2>4, <1>a DEF Agree, Slots
  <2>7. EnqueuingOK(p)'
    BY <2>2, <2>3, <2>5, <2>6 DEF EnqueuingOK, Agree, Window
  <2>. QED  BY <2>1, <2>3, <2>7, <1>a, RingLocal DEF Inside, Window
<1>6. CASE LoadCount(p)
  <2>1. pc[p] = "load" /\ pc' = [pc EXCEPT ![p] = "store"] /\ pc'[p] = "store"
    BY <1>6, <1>a DEF LoadCount, Goto, TypeOK
  <2>2. reg'[p] = message_count[q] /\ UNCHANGED header
    BY <1>6, <1>a DEF LoadCount, TypeOK, header
  <2>3. EnqueuingOK(p)'
    BY <2>1, <2>2, <1>c DEF EnqueuingOK, Agree, Window, header
  <2>. QED  BY <2>1, <2>2, <2>3, <1>a, RingLocal DEF Inside, Window, header
<1>7. CASE StoreCount(p)
  <2>1. pc[p] = "store" /\ pc' = [pc EXCEPT ![p] = "post"] /\ pc'[p] = "post"
    BY <1>7, <1>a DEF StoreCount, Goto, TypeOK
  <2>2. /\ message_count'[q] = message_count[q] + 1
        /\ \A r \in Queues \ {q} : message_count'[r] = message_count[r]
        /\ UNCHANGED <<write_offset, read_offset>>
    BY <1>7, <1>a, <1>c, <2>1 DEF StoreCount, TypeOK, EnqueuingOK
  <2>3. RestOK(q)'
    BY <2>1, <2>2, <1>c, <1>a, <1>b DEF EnqueuingOK, RestOK, Agree, Window
  <2>4. EnqueuingOK(p)'
    BY <2>1 DEF EnqueuingOK, Window
  <2>. QED  BY <2>1, <2>2, <2>3, <2>4, <1>a, RingLocal DEF Inside, Window
<1>. QED  BY <1>1, <1>2, <1>3, <1>4, <1>5, <1>6, <1>7 DEF Enqueue
\* The steps of pq_dequeue keep the ring.
LEMMA RingDequeue ==
    ASSUME TypeOK, MutualExclusion, RingInv, NEW p \in Consumers,
           Dequeue(p) \/ LoadCount(p) \/ StoreCount(p)
    PROVE  RingInv'
<1>. DEFINE q == FileOf[p]
<1>a. /\ p \in Procs /\ p \notin Producers /\ q \in Queues
      /\ MessageMaxCount \in Nat \ {0}
      /\ FileOf \in [Procs -> Queues]
  BY QueueAssumption DEF Procs
<1>b. /\ write_offset[q] \in Nat /\ read_offset[q] \in Nat
      /\ message_count[q] \in Int
  BY <1>a DEF TypeOK
<1>c. DequeuingOK(p)
  BY DEF RingInv
<1>1. CASE DequeueEmpty(p)
  BY <1>1, <1>a, RingFrame DEF DequeueEmpty, Goto, Window, PCs
<1>2. CASE DequeueAccept(p)
  <2>1. pc[p] \in Inside /\ pc[p] \notin Window /\ pc' = [pc EXCEPT ![p] = "copy"]
    BY <1>2 DEF DequeueAccept, Goto, Inside, Window
  <2>2. RestOK(q)
    BY <2>1, <1>a, RestWhenAlone
  <2>3. RestOK(q)'
    BY <1>2, <2>2 DEF DequeueAccept, header, RestOK, Agree
  <2>4. DequeuingOK(p)'
    BY <1>2, <1>a DEF DequeueAccept, Goto, header, DequeuingOK, TypeOK, Window
  <2>. QED  BY <1>2, <2>1, <2>3, <2>4, <1>a, RingLocal
            DEF DequeueAccept, header, Inside
<1>3. CASE DequeueCopy(p)
  <2>1. pc[p] \in Inside /\ pc[p] \notin Window /\ pc' = [pc EXCEPT ![p] = "advance"]
    BY <1>3 DEF DequeueCopy, Goto, Inside, Window
  <2>2. RestOK(q)
    BY <2>1, <1>a, RestWhenAlone
  <2>3. RestOK(q)'
    BY <1>3, <2>2 DEF DequeueCopy, header, RestOK, Agree
  <2>4. DequeuingOK(p)'
    BY <1>3, <1>a, <1>c DEF DequeueCopy, Goto, header, DequeuingOK, TypeOK, Window
  <2>. QED  BY <1>3, <2>1, <2>3, <2>4, <1>a, RingLocal
            DEF DequeueCopy, header, Inside
<1>4. CASE DequeueAdvance(p)
  <2>1. pc[p] = "advance" /\ pc' = [pc EXCEPT ![p] = "wrap"]
    BY <1>4 DEF DequeueAdvance, Goto
  <2>2. RestOK(q) /\ message_count[q] > 0
    BY <2>1, <1>a, <1>c, RestWhenAlone DEF Inside, Window, DequeuingOK
  <2>3. /\ read_offset'[q] = read_offset[q] + 1
        /\ \A r \in Queues \ {q} : read_offset'[r] = read_offset[r]
        /\ UNCHANGED <<write_offset, message_count>>
    BY <1>4, <1>a DEF DequeueAdvance, TypeOK
  <2>4. pc'[p] = "wrap"
    BY <2>1, <1>a DEF TypeOK
  <2>5. DequeuingOK(p)'
    BY <2>2, <2>3, <2>4, <1>a, <1>b DEF DequeuingOK, RestOK, Agree, Slots, Window
  <2>. QED  BY <2>1, <2>3, <2>5, <1>a, RingLocal DEF Inside, Window
<1>5. CASE DequeueWrap(p)
  <2>1. pc[p] = "wrap" /\ pc' = [pc EXCEPT ![p] = "load"]
    BY <1>5 DEF DequeueWrap, Goto
  <2>2. /\ write_offset[q] \in Slots
        /\ message_count[q] \in 1 .. MessageMaxCount
        /\ read_offset[q] \in 1 .. MessageMaxCount
        /\ Agree(read_offset[q], message_count[q] - 1, write_offset[q])
    BY <2>1, <1>c DEF DequeuingOK, Window
  <2>3. /\ read_offset'[q] = read_offset[q] % MessageMaxCount
        /\ \A r \in Queues \ {q} : read_offset'[r] = read_offset[r]
        /\ UNCHANGED <<write_offset, message_count>>
    BY <1>5, <1>a DEF DequeueWrap, TypeOK
  <2>4. read_offset'[q] = IF read_offset[q] = MessageMaxCount THEN 0
                                                             ELSE read_offset[q]
    BY <2>2, <2>3, <1>a, ModOnce
  <2>5. pc'[p] = "load"
    BY <2>1, <1>a DEF TypeOK
  <2>6. read_offset'[q] \in Slots
        /\ Agree(read_offset'[q], message_count[q] - 1, write_offset[q])
    BY <2>2, <2>4, <1>a DEF Agree, Slots
  <2>7. DequeuingOK(p)'
    BY <2>2, <2>3, <2>5, <2>6 DEF DequeuingOK, Agree, Window
  <2>. QED  BY <2>1, <2>3, <2>7, <1>a, RingLocal DEF Inside, Window
<1>6. CASE LoadCount(p)
  <2>1. pc[p] = "load" /\ pc' = [pc EXCEPT ![p] = "store"] /\ pc'[p] = "store"
    BY <1>6, <1>a DEF LoadCount, Goto, TypeOK
  <2>2. reg'[p] = message_count[q] /\ UNCHANGED header
    BY <1>6, <1>a DEF LoadCount, TypeOK, header
  <2>3. DequeuingOK(p)'
    BY <2>1, <2>2, <1>c DEF DequeuingOK, Agree, Window, header
  <2>. QED  BY <2>1, <2>2, <2>3, <1>a, RingLocal DEF Inside, Window, header
<1>7. CASE StoreCount(p)
  <2>1. pc[p] = "store" /\ pc' = [pc EXCEPT ![p] = "post"] /\ pc'[p] = "post"
    BY <1>7, <1>a DEF StoreCount, Goto, TypeOK
  <2>2. /\ message_count'[q] = message_count[q] - 1
        /\ \A r \in Queues \ {q} : message_count'[r] = message_count[r]
        /\ UNCHANGED <<write_offset, read_offset>>
    BY <1>7, <1>a, <1>c, <2>1 DEF StoreCount, TypeOK, DequeuingOK
  <2>3. RestOK(q)'
    BY <2>1, <2>2, <1>c, <1>a, <1>b DEF DequeuingOK, RestOK, Agree, Window
  <2>4. DequeuingOK(p)'
    BY <2>1 DEF DequeuingOK, Window
  <2>. QED  BY <2>1, <2>2, <2>3, <2>4, <1>a, RingLocal DEF Inside, Window
<1>. QED  BY <1>1, <1>2, <1>3, <1>4, <1>5, <1>6, <1>7 DEF Dequeue

\* A step of a process keeps the ring, unless it is a kill inside the window.
LEMMA RingProcess ==
    ASSUME TypeOK, MutualExclusion, RingInv, NEW p \in Procs, Step(p),
           ~ semaphore_interrupted(p), Kill(p) => pc[p] \notin Window
    PROVE  RingInv'
<1>1. CASE \/ Start(p) \/ pq_dequeue(p) \/ semaphore_wait(p) \/ semaphore_post(p)
           \/ \E m \in Mail : pq_enqueue(p, m)
  <2>1. /\ UNCHANGED header /\ UNCHANGED reg /\ pc[p] \notin Window
        /\ \E s \in {"ready", "idle", "wait", "check"} : pc' = [pc EXCEPT ![p] = s]
    BY <1>1 DEF Start, worker_init, worker_spawn, pq_init, pq_dequeue, pq_enqueue,
                semaphore_wait, semaphore_post, Goto, Window
  <2>2. {"ready", "idle", "wait", "check"} \subseteq
            PCs \ (Window \cup {"copy", "advance"})
    BY DEF PCs, Window
  <2>. QED  BY <2>1, <2>2, RingFrame
<1>2. CASE Kill(p) \/ MemoryFault(p)
  <2>1. Die(p) /\ pc[p] \notin Window
    BY <1>2 DEF Kill, MemoryFault, Window
  <2>2. /\ UNCHANGED header /\ pc' = [pc EXCEPT ![p] = "dead"]
        /\ \A r \in Procs \ {p} : reg'[r] = reg[r]
    BY <2>1 DEF Die, TypeOK
  <2>. QED  BY <2>1, <2>2, RingFrame DEF PCs, Window
<1>3. CASE Enqueue(p) \/ Dequeue(p) \/ LoadCount(p) \/ StoreCount(p)
  <2>1. CASE p \in Producers
    <3>1. ~ Dequeue(p)
      BY <2>1, QueueAssumption DEF Dequeue, DequeueEmpty, DequeueAccept,
                                   DequeueCopy, DequeueAdvance, DequeueWrap
    <3>. QED  BY <1>3, <2>1, <3>1, RingEnqueue
  <2>2. CASE p \in Consumers
    <3>1. ~ Enqueue(p)
      BY <2>2, QueueAssumption DEF Enqueue, EnqueueFull, EnqueueAccept,
                                   EnqueueCopy, EnqueueAdvance, EnqueueWrap
    <3>. QED  BY <1>3, <2>2, <3>1, RingDequeue
  <2>. QED  BY <2>1, <2>2 DEF Procs
<1>. QED  BY <1>1, <1>2, <1>3 DEF Step, Progress

\* What is known of the queue stays true while nothing moves.
LEMMA QueueFrame ==
    ASSUME TypeOK, SemInv, RingInv, UNCHANGED vars
    PROVE  TypeOK' /\ SemInv' /\ RingInv'
<1>1. UNCHANGED <<write_offset, read_offset, message_count, memory, semval, semadj,
                  pc, mail, reg>>
  BY DEF vars, header, sem
<1>2. TypeOK' /\ SemInv'
  BY <1>1 DEF TypeOK, Slots, SemInv, MutualExclusion
<1>3. RingInv'
  BY <1>1 DEF RingInv, AtRest, RestOK, EnqueuingOK, DequeuingOK, Agree
<1>. QED  BY <1>2, <1>3

\* Every step keeps the ring, provided no kill falls into the window.
LEMMA RingStep ==
    ASSUME KillPoints \cap Window = {}, ~Interrupts,
           TypeOK, MutualExclusion, RingInv, [Next]_vars
    PROVE  RingInv'
<1>u. CASE UNCHANGED vars
  <2>1. UNCHANGED <<write_offset, read_offset, message_count, pc, reg>>
    BY <1>u DEF vars, header
  <2>. QED  BY <2>1 DEF RingInv, AtRest, RestOK, EnqueuingOK, DequeuingOK, Agree
<1>n. ASSUME NEW p \in Procs, Step(p) PROVE RingInv'
  <2>1. Kill(p) => pc[p] \notin Window
    BY DEF Kill
  <2>2. ~ semaphore_interrupted(p)
    BY DEF semaphore_interrupted
  <2>. QED  BY <1>n, <2>1, <2>2, RingProcess
<1>. QED  BY <1>u, <1>n DEF Next

\* Freshly created files are consistent.
LEMMA RingInit == Init => RingInv
BY QueueAssumption DEF Init, InitWith, RingInv, RestOK, EnqueuingOK, DequeuingOK, Agree, Slots,
                       Window, Procs

\* The inductive statement implies that the header fields agree.
LEMMA RingInvConsistent ==
    ASSUME TypeOK, RingInv PROVE RingConsistent
<1>. SUFFICES ASSUME NEW q \in Queues, AtRest(q)
     PROVE  /\ read_offset[q] \in Slots
            /\ message_count[q] \in 0 .. MessageMaxCount
            /\ write_offset[q] = (read_offset[q] + message_count[q]) % MessageMaxCount
  BY DEF RingConsistent
<1>1. RestOK(q) /\ MessageMaxCount \in Nat \ {0}
  BY QueueAssumption DEF RingInv
<1>2. PICK x \in 0 .. 2 * MessageMaxCount - 1 : x = read_offset[q] + message_count[q]
  BY <1>1 DEF RestOK, Slots
<1>3. x % MessageMaxCount = IF x < MessageMaxCount THEN x ELSE x - MessageMaxCount
  BY ModOnce
<1>. QED  BY <1>1, <1>2, <1>3 DEF RestOK, Slots, Agree

\* If kills spare the window between the move of an offset and the store of
\* message_count, a queue file is consistent whenever it is at rest, across any
\* number of crashes and restarts, for any number of processes and files.
THEOREM RingConsistentHolds ==
    ASSUME InitOnlyWhenQuiet, ~Interrupts, KillPoints \cap Window = {}
    PROVE  Spec => []RingConsistent
<1>. DEFINE I == TypeOK /\ SemInv /\ RingInv
<1>1. Init => I
  BY TypeInit, SemInit, RingInit
<1>2. I /\ [Next]_vars => I'
  <2>. SUFFICES ASSUME TypeOK, SemInv, RingInv, [Next]_vars PROVE I'
    OBVIOUS
  <2>1. TypeOK'
    BY TypeStep
  <2>2. SemInv'
    BY SemStep
  <2>3. RingInv'
    BY RingStep DEF SemInv
  <2>. QED  BY <2>1, <2>2, <2>3
<1>3. I => RingConsistent
  BY RingInvConsistent
<1>. QED  BY <1>1, <1>2, <1>3, PTL DEF Spec
-----------------------------------------------------------------------------
(* Refinement: seen from its callers, a queue file is a bounded FIFO of mails *)
(* (MailQueue), across any number of crashes outside the window in which an   *)
(* offset has moved and message_count has not.  First the ring as a sequence. *)

\* The slot i places behind r, for an offset that may stand behind the last slot.
SlotAt(r, i) == IF r + i < MessageMaxCount THEN r + i ELSE r + i - MessageMaxCount

\* How many mails of file q no mailhandler has taken.
Left(q) == message_count[q] - InFlight(q)

\* A ring that can be read as a sequence.
Span(q) ==
    /\ read_offset[q] \in 0 .. MessageMaxCount
    /\ Left(q) \in 0 .. MessageMaxCount
    /\ message_count[q] \in 0 .. MessageMaxCount

\* Nobody takes a mail out of file q.
LEMMA NoneInFlight ==
    ASSUME NEW q \in Queues, \A c \in Consumers : FileOf[c] = q => pc[c] \notin Window
    PROVE  InFlight(q) = 0
BY DEF InFlight

\* A process inside that is not a mailhandler in the window is alone with its file.
LEMMA NoneInFlightAlone ==
    ASSUME MutualExclusion, NEW p \in Procs, pc[p] \in Inside,
           p \in Producers \/ pc[p] \notin Window
    PROVE  InFlight(FileOf[p]) = 0
<1>1. \A c \in Consumers : pc[c] \notin Window
    BY QueueAssumption DEF MutualExclusion, Procs, Inside, Window
<1> QED BY <1>1 DEF InFlight

\* A mailhandler in the window has one mail in flight.
LEMMA OneInFlight ==
    ASSUME NEW c \in Consumers, pc[c] \in Window
    PROVE  InFlight(FileOf[c]) = 1
BY DEF InFlight

\* At every moment the header describes a part of the ring.
LEMMA SpanHolds ==
    ASSUME TypeOK, MutualExclusion, RingInv, NEW q \in Queues
    PROVE  Span(q)
<1> USE QueueAssumption
<1>1. CASE AtRest(q)
    <2>1. InFlight(q) = 0
        BY <1>1, NoneInFlight DEF AtRest, Procs
    <2>2. RestOK(q)
        BY <1>1 DEF RingInv
    <2> QED BY <2>1, <2>2 DEF RestOK, Span, Left, Slots
<1>2. CASE ~ AtRest(q)
    <2>1. PICK p \in Procs : FileOf[p] = q /\ pc[p] \in Window
        BY <1>2 DEF AtRest
    <2>2. CASE p \in Producers
        <3>1. InFlight(q) = 0
            BY <2>1, <2>2, NoneInFlightAlone DEF Inside, Window
        <3>2. EnqueuingOK(p)
            BY <2>2 DEF RingInv
        <3> QED BY <2>1, <3>1, <3>2 DEF EnqueuingOK, Span, Left, Slots
    <2>3. CASE p \in Consumers
        <3>1. InFlight(q) = 1
            BY <2>1, <2>3, OneInFlight
        <3>2. DequeuingOK(p)
            BY <2>3 DEF RingInv
        <3> QED BY <2>1, <3>1, <3>2 DEF DequeuingOK, Span, Left, Slots
    <2> QED BY <2>2, <2>3 DEF Procs
<1> QED BY <1>1, <1>2

\* The content of a file, with the remainders resolved.
Ring(q) == [i \in 1 .. Left(q) |-> memory[q][SlotAt(read_offset[q], i - 1)]]

\* Ring is Content: no offset is more than one round behind.
LEMMA ContentIsRing ==
    TypeOK /\ MutualExclusion /\ RingInv =>
        \A q \in Queues : Span(q) /\ Content(q) = Ring(q)
<1> SUFFICES ASSUME TypeOK, MutualExclusion, RingInv, NEW q \in Queues
             PROVE  Span(q) /\ Content(q) = Ring(q)
    OBVIOUS
<1>1. Span(q) /\ MessageMaxCount \in Nat \ {0}
    BY SpanHolds, QueueAssumption
<1>2. ASSUME NEW i \in 1 .. Left(q)
      PROVE  (read_offset[q] + i - 1) % MessageMaxCount = SlotAt(read_offset[q], i - 1)
    <2>1. PICK x \in 0 .. 2 * MessageMaxCount - 1 : x = read_offset[q] + i - 1
        BY <1>1 DEF Span
    <2>2. x % MessageMaxCount = IF x < MessageMaxCount THEN x ELSE x - MessageMaxCount
        BY ModOnce
    <2>3. x = read_offset[q] + (i - 1)
        BY <1>1, <2>1 DEF Span
    <2>4. x % MessageMaxCount = SlotAt(read_offset[q], i - 1)
        BY <1>1, <2>2, <2>3 DEF SlotAt, Span
    <2> QED BY <2>1, <2>4
<1> QED BY <1>1, <1>2 DEF Content, Ring, Left

-----------------------------------------------------------------------------
(* The mails: what the slots and the callers' buffers hold. *)

\* What is in the ring was put there by a worker.
SlotsOK == \A q \in Queues : \A i \in 1 .. Left(q) :
               memory[q][SlotAt(read_offset[q], i - 1)] \in Mail

\* A worker has a mail from its call on, and from the copy until the count is
\* stored that mail is in the slot behind the last one.
ProducerOK(p) ==
    LET q == FileOf[p] IN
    /\ pc[p] \in {"wait", "check", "copy", "advance"} \cup Window => mail[p] \in Mail
    /\ pc[p] \in {"advance"} \cup Window =>
          memory[q][SlotAt(read_offset[q], message_count[q])] = mail[p]

\* A mailhandler has no mail before the copy, then the oldest one.
ConsumerOK(c) ==
    /\ pc[c] \in {"dead", "ready", "wait", "check", "copy"} => mail[c] = NoMail
    /\ pc[c] = "advance" => mail[c] = memory[FileOf[c]][read_offset[FileOf[c]]]
    /\ pc[c] \in Window => mail[c] \in Mail

MailInv ==
    /\ SlotsOK
    /\ \A p \in Producers : ProducerOK(p)
    /\ \A c \in Consumers : ConsumerOK(c)

\* What is known of the state in which a step is taken.
QueueInv == TypeOK /\ SemInv /\ RingInv /\ MailInv

\* Empty files, no mail in hand.
LEMMA MailInit == Init => MailInv
<1> SUFFICES ASSUME Init PROVE MailInv
    OBVIOUS
<1>1. \A c \in Consumers : pc[c] \notin Window
    BY DEF Init, InitWith, Procs, Window
<1>2. SlotsOK
    <2> SUFFICES ASSUME NEW q \in Queues, NEW i \in 1 .. Left(q) PROVE FALSE
        BY DEF SlotsOK
    <2>1. InFlight(q) = 0 /\ message_count[q] = 0
        BY <1>1, NoneInFlight DEF Init, InitWith
    <2>2. Left(q) = 0
        BY <2>1 DEF Left
    <2> QED BY <2>2
<1> QED BY <1>2 DEF Init, InitWith, MailInv, ProducerOK, ConsumerOK, Procs, Window

\* A step that moves no mail: it leaves the slots and what a reader sees of the
\* header alone, and enters or leaves no mailhandler's window.
LEMMA LeftSame ==
    ASSUME TypeOK, NEW p \in Procs, NEW s, pc' = [pc EXCEPT ![p] = s],
           p \in Consumers => (pc[p] \in Window <=> s \in Window),
           UNCHANGED message_count
    PROVE  \A q \in Queues : Left(q)' = Left(q)
<1>1. \A c \in Consumers : pc'[c] \in Window <=> pc[c] \in Window
    BY DEF TypeOK, Procs
<1>2. \A q \in Queues : InFlight(q)' = InFlight(q)
    BY <1>1 DEF InFlight
<1> QED BY <1>2 DEF Left

\* Seen from the callers nothing has happened.
Unseen ==
    /\ \A q \in Queues : Content(q)' = Content(q)
    /\ \A c \in Consumers : Taken(c)' = Taken(c)

\* A mailhandler gives up the mail it had taken, if any.
Dropped(p) ==
    /\ \A q \in Queues : Content(q)' = Content(q)
    /\ \A c \in Consumers : Taken(c)' = IF c = p THEN NoMail ELSE Taken(c)

\* The content follows the slots, read_offset and the number of mails left.
LEMMA ContentSame ==
    ASSUME NEW q \in Queues, memory'[q] = memory[q], read_offset'[q] = read_offset[q],
           Left(q)' = Left(q)
    PROVE  Content(q)' = Content(q)
BY DEF Content, Left

\* Steps outside the copies and the stores to the header: pc, the semaphore and the
\* mail of one process change.
LEMMA FrameStep ==
    ASSUME QueueInv, NEW p \in Procs, NEW s \in PCs, NEW m,
           pc' = [pc EXCEPT ![p] = s], mail' = [mail EXCEPT ![p] = m],
           UNCHANGED <<read_offset, message_count, memory>>,
           p \in Consumers => (pc[p] \in Window <=> s \in Window),
           p \in Producers => ProducerOK(p)',
           p \in Consumers => ConsumerOK(p)'
    PROVE  /\ MailInv'
           /\ \A q \in Queues : Content(q)' = Content(q)
           /\ \A c \in Consumers \ {p} : Taken(c)' = Taken(c)
<1> USE QueueAssumption
<1>1. \A q \in Queues : Left(q)' = Left(q)
    BY LeftSame DEF QueueInv
<1>2. \A q \in Queues : Content(q)' = Content(q)
    BY <1>1, ContentSame
<1>3. \A r \in Procs \ {p} : pc'[r] = pc[r] /\ mail'[r] = mail[r]
    BY DEF QueueInv, TypeOK
<1>4. SlotsOK'
    BY <1>1 DEF QueueInv, MailInv, SlotsOK, SlotAt
<1>5. ASSUME NEW r \in Producers PROVE ProducerOK(r)'
    <2>1. CASE r # p
        BY <2>1, <1>3 DEF QueueInv, MailInv, ProducerOK, Procs, SlotAt
    <2> QED BY <2>1
<1>6. ASSUME NEW r \in Consumers PROVE ConsumerOK(r)'
    <2>1. CASE r # p
        BY <2>1, <1>3 DEF QueueInv, MailInv, ConsumerOK, Procs
    <2> QED BY <2>1
<1>7. \A c \in Consumers \ {p} : Taken(c)' = Taken(c)
    BY <1>3 DEF Taken, Procs
<1> QED BY <1>2, <1>4, <1>5, <1>6, <1>7 DEF MailInv

\* The steps of a worker that change nothing a mailhandler can see.
LEMMA ProducerFrame ==
    ASSUME QueueInv, NEW p \in Producers, NEW s \in PCs, NEW m,
           pc' = [pc EXCEPT ![p] = s], mail' = [mail EXCEPT ![p] = m],
           UNCHANGED <<read_offset, message_count, memory>>,
           ProducerOK(p)'
    PROVE  MailInv' /\ Unseen
<1>1. p \in Procs /\ p \notin Consumers
    BY QueueAssumption DEF Procs
<1> QED BY <1>1, FrameStep DEF Unseen

\* The steps of a worker up to the copy and between the stores, and its death.
LEMMA ProducerUnseen ==
    ASSUME QueueInv, NEW p \in Producers,
           \/ Start(p) \/ semaphore_wait(p) \/ semaphore_post(p) \/ Die(p)
           \/ EnqueueFull(p) \/ EnqueueAccept(p) \/ EnqueueAdvance(p) \/ EnqueueWrap(p)
           \/ LoadCount(p) \/ \E m \in Mail : pq_enqueue(p, m)
    PROVE  MailInv' /\ Unseen
<1> USE DEF Goto, header
<1>1. p \in Procs /\ pc \in [Procs -> PCs] /\ mail \in [Procs -> Mail \cup {NoMail}]
    BY DEF QueueInv, TypeOK, Procs
<1>2. ProducerOK(p)
    BY DEF QueueInv, MailInv
<1>3. CASE Start(p) \/ semaphore_post(p) \/ Die(p) \/ EnqueueFull(p)
    <2>1. \E s \in {"ready", "idle", "post", "dead"} : pc' = [pc EXCEPT ![p] = s]
        BY <1>3 DEF Start, worker_init, worker_spawn, pq_init, semaphore_post, Die, EnqueueFull
    <2>2. mail' = [mail EXCEPT ![p] = mail[p]] \/ mail' = [mail EXCEPT ![p] = NoMail]
        BY <1>1, <1>3 DEF Start, worker_init, worker_spawn, pq_init, semaphore_post, Die,
                          EnqueueFull
    <2>3. UNCHANGED <<read_offset, message_count, memory>>
        BY <1>3 DEF Start, worker_init, worker_spawn, pq_init, semaphore_post, Die, EnqueueFull
    <2>4. ProducerOK(p)'
        BY <1>1, <2>1 DEF ProducerOK, Window
    <2> QED BY <2>1, <2>2, <2>3, <2>4, ProducerFrame DEF PCs
<1>4. ASSUME NEW m \in Mail, pq_enqueue(p, m) PROVE MailInv' /\ Unseen
    <2>1. /\ pc' = [pc EXCEPT ![p] = "wait"] /\ mail' = [mail EXCEPT ![p] = m]
          /\ UNCHANGED <<read_offset, message_count, memory>>
        BY <1>4 DEF pq_enqueue
    <2>2. ProducerOK(p)'
        BY <1>1, <2>1 DEF ProducerOK, Window
    <2> QED BY <2>1, <2>2, ProducerFrame DEF PCs
<1>5. CASE \/ semaphore_wait(p) \/ EnqueueAccept(p)
           \/ EnqueueAdvance(p) \/ EnqueueWrap(p) \/ LoadCount(p)
    <2>1. PICK s \in {"check", "copy", "wrap", "load", "store"} :
              /\ pc' = [pc EXCEPT ![p] = s]
              /\ s = "check" => pc[p] = "wait"
              /\ s = "copy" => pc[p] = "check"
              /\ s \in Window => pc[p] \in {"advance"} \cup Window
        BY <1>5 DEF semaphore_wait, EnqueueAccept, EnqueueAdvance, EnqueueWrap, LoadCount, Window
    <2>2. /\ mail' = [mail EXCEPT ![p] = mail[p]] /\ mail' = mail
          /\ UNCHANGED <<read_offset, message_count, memory>>
        BY <1>1, <1>5 DEF semaphore_wait, EnqueueAccept, EnqueueAdvance, EnqueueWrap, LoadCount
    <2>3. ProducerOK(p)'
        BY <1>1, <1>2, <2>1, <2>2 DEF ProducerOK, Window, SlotAt
    <2> QED BY <2>1, <2>2, <2>3, ProducerFrame DEF PCs
<1> QED BY <1>3, <1>4, <1>5

\* The steps of a mailhandler outside the window, and its death there: it keeps what
\* it had taken until its next call, or until it dies.
LEMMA ConsumerUnseen ==
    ASSUME QueueInv, NEW p \in Consumers,
           \/ Start(p) \/ semaphore_wait(p) \/ semaphore_post(p)
           \/ DequeueEmpty(p) \/ DequeueAccept(p) \/ DequeueCopy(p) \/ LoadCount(p)
    PROVE  MailInv' /\ Unseen
<1> USE DEF Goto, header
<1>1. /\ p \in Procs /\ p \notin Producers
      /\ pc \in [Procs -> PCs] /\ mail \in [Procs -> Mail \cup {NoMail}]
    BY QueueAssumption DEF QueueInv, TypeOK, Procs
<1>2. ConsumerOK(p)
    BY DEF QueueInv, MailInv
<1>3. CASE \/ Start(p) \/ semaphore_wait(p) \/ semaphore_post(p)
           \/ DequeueEmpty(p) \/ DequeueAccept(p) \/ LoadCount(p)
    <2>1. PICK s \in {"idle", "check", "post", "copy", "store"} :
              /\ pc' = [pc EXCEPT ![p] = s]
              /\ s \in {"check", "copy"} => pc[p] \in {"wait", "check"}
              /\ s \in {"idle", "post"} => pc[p] \in {"dead", "ready", "check", "post"}
              /\ s = "store" => pc[p] = "load"
        BY <1>1, <1>3 DEF Start, worker_init, worker_spawn, pq_init, semaphore_wait,
                          semaphore_post, DequeueEmpty, DequeueAccept, LoadCount
    <2>2. /\ mail' = [mail EXCEPT ![p] = mail[p]] /\ mail'[p] = mail[p]
          /\ UNCHANGED <<read_offset, message_count, memory>>
        BY <1>1, <1>3 DEF Start, worker_init, worker_spawn, pq_init, semaphore_wait,
                          semaphore_post, DequeueEmpty, DequeueAccept, LoadCount
    <2>3. pc'[p] = s
        BY <1>1, <2>1
    <2>4. ConsumerOK(p)' /\ (pc[p] \in Window <=> s \in Window)
        BY <1>2, <2>1, <2>2, <2>3 DEF ConsumerOK, Window
    <2>5. Taken(p)' = Taken(p)
        BY <1>2, <2>1, <2>2, <2>3 DEF ConsumerOK, Taken, Window
    <2>6. s \in PCs
        BY DEF PCs
    <2> QED BY <1>1, <2>1, <2>2, <2>4, <2>5, <2>6, FrameStep DEF Unseen
<1>4. CASE DequeueCopy(p)
    <2>1. pc[p] = "copy" /\ pc' = [pc EXCEPT ![p] = "advance"] /\ pc'[p] = "advance"
        BY <1>1, <1>4 DEF DequeueCopy
    <2>2. RestOK(FileOf[p])
        BY <1>1, <2>1, RestWhenAlone DEF QueueInv, SemInv, Inside, Window
    <2>3. mail' = [mail EXCEPT ![p] = memory[FileOf[p]][read_offset[FileOf[p]]]]
        BY <1>4, <2>2 DEF DequeueCopy, RestOK
    <2>4. UNCHANGED <<read_offset, message_count, memory>>
        BY <1>4 DEF DequeueCopy
    <2>5. ConsumerOK(p)'
        BY <1>1, <2>1, <2>3, <2>4 DEF ConsumerOK, Window
    <2>6. Taken(p)' = Taken(p)
        BY <2>1 DEF Taken, Window
    <2>7. "advance" \in PCs /\ (pc[p] \in Window <=> "advance" \in Window)
        BY <2>1 DEF PCs, Window
    <2> QED BY <1>1, <2>1, <2>3, <2>4, <2>5, <2>6, <2>7, FrameStep DEF Unseen
<1> QED BY <1>3, <1>4

\* The next call of pq_dequeue and a death give up the mail in hand.
LEMMA ConsumerDrops ==
    ASSUME QueueInv, NEW p \in Consumers, pc[p] \notin Window,
           Die(p) \/ pq_dequeue(p)
    PROVE  MailInv' /\ Dropped(p)
<1> USE DEF Goto, header
<1>1. /\ p \in Procs /\ p \notin Producers
      /\ pc \in [Procs -> PCs] /\ mail \in [Procs -> Mail \cup {NoMail}]
    BY QueueAssumption DEF QueueInv, TypeOK, Procs
<1>2. PICK s \in {"dead", "wait"} : pc' = [pc EXCEPT ![p] = s]
    BY DEF Die, pq_dequeue
<1>3. /\ mail' = [mail EXCEPT ![p] = NoMail]
      /\ UNCHANGED <<read_offset, message_count, memory>>
    BY DEF Die, pq_dequeue
<1>4. pc'[p] = s /\ mail'[p] = NoMail
    BY <1>1, <1>2, <1>3
<1>5. ConsumerOK(p)' /\ s \notin Window /\ s \in PCs
    BY <1>4 DEF ConsumerOK, Window, PCs
<1>6. Taken(p)' = NoMail
    BY <1>4 DEF Taken
<1> QED BY <1>1, <1>2, <1>3, <1>5, <1>6, FrameStep DEF Dropped

-----------------------------------------------------------------------------
(* The steps that touch the slots, read_offset or message_count. *)

\* Every file can be read as a sequence.
RingRead == \A q \in Queues : Span(q) /\ Content(q) = Ring(q)

\* The ring invariant makes it so.
LEMMA RingReadHolds == TypeOK /\ MutualExclusion /\ RingInv => RingRead
BY ContentIsRing DEF RingRead

\* Such a step concerns one file and one process: nobody else is inside.
LEMMA LocalStep ==
    ASSUME QueueInv, NEW p \in Procs, NEW s \in Inside,
           pc[p] \in Inside, pc' = [pc EXCEPT ![p] = s], UNCHANGED mail,
           \A r \in Queues \ {FileOf[p]} :
              /\ memory'[r] = memory[r]
              /\ read_offset'[r] = read_offset[r]
              /\ message_count'[r] = message_count[r],
           \A i \in 1 .. Left(FileOf[p])' :
              memory'[FileOf[p]][SlotAt(read_offset'[FileOf[p]], i - 1)] \in Mail,
           p \in Producers => ProducerOK(p)',
           p \in Consumers => ConsumerOK(p)'
    PROVE  /\ MailInv'
           /\ \A r \in Queues \ {FileOf[p]} : Content(r)' = Content(r)
           /\ \A c \in Consumers \ {p} : Taken(c)' = Taken(c)
<1> USE QueueAssumption
<1>1. \A r \in Procs \ {p} : pc'[r] = pc[r] /\ pc[r] \notin Inside
    BY DEF QueueInv, TypeOK, SemInv, MutualExclusion
<1>2. Window \subseteq Inside
    BY DEF Window, Inside
<1>3. ASSUME NEW r \in Queues \ {FileOf[p]} PROVE Left(r)' = Left(r)
    <2>1. \A c \in Consumers : FileOf[c] = r => pc'[c] = pc[c]
        BY <1>1, <1>3 DEF Procs
    <2>2. InFlight(r)' = InFlight(r)
        BY <2>1 DEF InFlight
    <2> QED BY <2>2 DEF Left
<1>4. \A r \in Queues \ {FileOf[p]} : Content(r)' = Content(r)
    BY <1>3, ContentSame
<1>5. SlotsOK'
    <2> SUFFICES ASSUME NEW q \in Queues, NEW i \in 1 .. Left(q)'
                 PROVE  memory'[q][SlotAt(read_offset'[q], i - 1)] \in Mail
        BY DEF SlotsOK, SlotAt
    <2>1. CASE q = FileOf[p]
        BY <2>1
    <2>2. CASE q # FileOf[p]
        BY <2>2, <1>3 DEF QueueInv, MailInv, SlotsOK
    <2> QED BY <2>1, <2>2
<1>6. ASSUME NEW r \in Producers, r # p PROVE ProducerOK(r)'
    <2>1. pc'[r] = pc[r] /\ pc[r] \notin Inside
        BY <1>1, <1>6 DEF Procs
    <2>2. ProducerOK(r)
        BY DEF QueueInv, MailInv
    <2> QED BY <2>1, <2>2 DEF ProducerOK, Inside, Window
<1>7. ASSUME NEW r \in Consumers, r # p PROVE ConsumerOK(r)'
    <2>1. pc'[r] = pc[r] /\ pc[r] \notin Inside
        BY <1>1, <1>7 DEF Procs
    <2>2. ConsumerOK(r)
        BY DEF QueueInv, MailInv
    <2> QED BY <2>1, <2>2 DEF ConsumerOK, Inside, Window
<1>8. \A c \in Consumers \ {p} : Taken(c)' = Taken(c)
    BY <1>1 DEF Taken, Procs
<1> QED BY <1>4, <1>5, <1>6, <1>7, <1>8 DEF MailInv

\* The memcpy of pq_enqueue goes to the slot behind the last mail: no mail that is
\* in the ring is overwritten.
LEMMA EnqueueCopyIsUnseen ==
    ASSUME QueueInv, RingRead, RingRead', NEW p \in Producers, EnqueueCopy(p)
    PROVE  MailInv' /\ Unseen
<1> DEFINE q == FileOf[p]
<1>1. /\ p \in Procs /\ p \notin Consumers /\ q \in Queues
      /\ MessageMaxCount \in Nat \ {0}
    BY QueueAssumption DEF Procs
<1>2. /\ pc[p] = "copy" /\ pc' = [pc EXCEPT ![p] = "advance"] /\ pc'[p] = "advance"
      /\ UNCHANGED <<header, mail>>
    BY <1>1 DEF EnqueueCopy, Goto, QueueInv, TypeOK
<1>3. RestOK(q) /\ message_count[q] < MessageMaxCount
    BY <1>1, <1>2, RestWhenAlone
    DEF QueueInv, SemInv, RingInv, EnqueuingOK, Inside, Window
<1>4. InFlight(q) = 0
    BY <1>1, <1>2, NoneInFlightAlone DEF QueueInv, SemInv, Inside
<1>5. Left(q) = message_count[q] /\ Left(q)' = Left(q)
    <2>1. Left(q) = message_count[q]
        BY <1>3, <1>4 DEF Left, RestOK
    <2>2. Left(q)' = Left(q)
        BY <1>1, <1>2, LeftSame DEF header, QueueInv
    <2> QED BY <2>1, <2>2
<1>6. /\ \A r \in Queues \ {q} : memory'[r] = memory[r]
      /\ \A i \in Slots : memory'[q][i] = IF i = write_offset[q] THEN mail[p] ELSE memory[q][i]
    BY <1>1 DEF EnqueueCopy, QueueInv, TypeOK
<1>7. SlotAt(read_offset[q], message_count[q]) = write_offset[q] /\ write_offset[q] \in Slots
    BY <1>1, <1>3 DEF RestOK, Agree, SlotAt, Slots
<1>8. ASSUME NEW i \in 1 .. message_count[q]
      PROVE  /\ SlotAt(read_offset[q], i - 1) \in Slots
             /\ SlotAt(read_offset[q], i - 1) # write_offset[q]
    BY <1>1, <1>3 DEF RestOK, Agree, SlotAt, Slots
<1>9. \A i \in 1 .. message_count[q] :
          memory'[q][SlotAt(read_offset[q], i - 1)] = memory[q][SlotAt(read_offset[q], i - 1)]
    BY <1>6, <1>8
<1>10. Content(q)' = Content(q)
    <2>1. Content(q) = [i \in 1 .. message_count[q] |->
                            memory[q][SlotAt(read_offset[q], i - 1)]]
        BY <1>1, <1>5 DEF RingRead, Ring
    <2>2. Content(q)' = [i \in 1 .. message_count[q] |->
                            memory'[q][SlotAt(read_offset[q], i - 1)]]
        BY <1>1, <1>2, <1>5 DEF RingRead, Ring, header, SlotAt
    <2> QED BY <1>9, <2>1, <2>2
<1>11. \A i \in 1 .. Left(q)' : memory'[q][SlotAt(read_offset'[q], i - 1)] \in Mail
    BY <1>1, <1>2, <1>5, <1>9 DEF QueueInv, MailInv, SlotsOK, header
<1>12. ProducerOK(p)'
    BY <1>1, <1>2, <1>6, <1>7 DEF ProducerOK, QueueInv, MailInv, header, Window, SlotAt
<1> QED BY <1>1, <1>2, <1>6, <1>10, <1>11, <1>12, LocalStep DEF Unseen, header, Inside

\* The store of message_count makes the copied mail the last one of the queue.
LEMMA EnqueuePuts ==
    ASSUME QueueInv, RingRead, RingRead', NEW p \in Producers, StoreCount(p)
    PROVE  /\ MailInv' /\ mail[p] \in Mail
           /\ Content(FileOf[p]) \in Seq(Mail)
           /\ Len(Content(FileOf[p])) < MessageMaxCount
           /\ Content(FileOf[p])' = Append(Content(FileOf[p]), mail[p])
           /\ \A r \in Queues \ {FileOf[p]} : Content(r)' = Content(r)
           /\ \A c \in Consumers : Taken(c)' = Taken(c)
<1> DEFINE q == FileOf[p]
           n == message_count[q]
<1>1. /\ p \in Procs /\ p \notin Consumers /\ q \in Queues
      /\ MessageMaxCount \in Nat \ {0}
    BY QueueAssumption DEF Procs
<1>2. /\ pc[p] = "store" /\ pc' = [pc EXCEPT ![p] = "post"] /\ pc'[p] = "post"
      /\ UNCHANGED <<read_offset, memory, mail>>
    BY <1>1 DEF StoreCount, Goto, QueueInv, TypeOK
<1>3. EnqueuingOK(p) /\ ProducerOK(p)
    BY DEF QueueInv, RingInv, MailInv
<1>4. /\ n \in 0 .. MessageMaxCount - 1 /\ read_offset[q] \in Slots
      /\ reg[p] = n
      /\ mail[p] \in Mail /\ memory[q][SlotAt(read_offset[q], n)] = mail[p]
    BY <1>2, <1>3 DEF EnqueuingOK, ProducerOK, Window
<1>5. /\ message_count'[q] = n + 1
      /\ \A r \in Queues \ {q} : message_count'[r] = message_count[r]
    BY <1>1, <1>4 DEF StoreCount, QueueInv, TypeOK
<1>6. \A c \in Consumers : pc[c] \notin Window /\ pc'[c] \notin Window
    BY <1>1, <1>2 DEF QueueInv, TypeOK, SemInv, MutualExclusion, Procs, Inside, Window
<1>7. InFlight(q) = 0 /\ InFlight(q)' = 0
    BY <1>6 DEF InFlight
<1>8. Left(q) = n /\ Left(q)' = n + 1
    BY <1>4, <1>5, <1>7 DEF Left
<1> HIDE DEF n
<1>9. /\ Content(q) = [i \in 1 .. n |-> memory[q][SlotAt(read_offset[q], i - 1)]]
      /\ Content(q)' = [i \in 1 .. n + 1 |-> memory[q][SlotAt(read_offset[q], i - 1)]]
    BY <1>1, <1>2, <1>8 DEF RingRead, Ring, SlotAt
<1>10. \A i \in 1 .. n : memory[q][SlotAt(read_offset[q], i - 1)] \in Mail
    BY <1>1, <1>8 DEF QueueInv, MailInv, SlotsOK
<1>11. /\ Content(q) \in Seq(Mail) /\ Len(Content(q)) = n
       /\ DOMAIN Content(q) = 1 .. n
    BY <1>4, <1>9, <1>10
<1>12. Content(q)' = Append(Content(q), mail[p])
    <2>1. \A i \in 1 .. n + 1 : Append(Content(q), mail[p])[i] =
              IF i <= n THEN memory[q][SlotAt(read_offset[q], i - 1)] ELSE mail[p]
        BY <1>4, <1>9, <1>11
    <2>2. memory[q][SlotAt(read_offset[q], (n + 1) - 1)] = mail[p]
        BY <1>4
    <2>3. ASSUME NEW i \in 1 .. n + 1
          PROVE  Append(Content(q), mail[p])[i] = memory[q][SlotAt(read_offset[q], i - 1)]
        <3>1. i <= n \/ i = n + 1
            BY <1>4
        <3>2. ~ (n + 1 <= n)
            BY <1>4
        <3> QED BY <2>1, <2>2, <3>1, <3>2
    <2>4. Append(Content(q), mail[p]) = [i \in 1 .. n + 1 |-> Append(Content(q), mail[p])[i]]
        BY <1>4, <1>11
    <2> QED BY <1>9, <2>3, <2>4
<1>13. \A i \in 1 .. Left(q)' : memory'[q][SlotAt(read_offset'[q], i - 1)] \in Mail
    <2>1. \A i \in 1 .. n + 1 : memory[q][SlotAt(read_offset[q], i - 1)] \in Mail
        <3>1. memory[q][SlotAt(read_offset[q], (n + 1) - 1)] \in Mail
            BY <1>4
        <3> QED BY <1>4, <1>10, <3>1
    <2> QED BY <1>2, <1>8, <2>1
<1>14. ProducerOK(p)'
    BY <1>2 DEF ProducerOK, Window
<1>15. /\ MailInv'
       /\ \A r \in Queues \ {q} : Content(r)' = Content(r)
       /\ \A c \in Consumers \ {p} : Taken(c)' = Taken(c)
    BY <1>1, <1>2, <1>5, <1>13, <1>14, LocalStep DEF Inside, n
<1> QED BY <1>1, <1>4, <1>11, <1>12, <1>15

\* The move of read_offset takes the oldest mail, the one that was copied, out of
\* the queue: the mailhandler has it from here on.
LEMMA DequeueTakes ==
    ASSUME QueueInv, RingRead, RingRead', NEW p \in Consumers, DequeueAdvance(p)
    PROVE  /\ MailInv'
           /\ Taken(p) = NoMail
           /\ Content(FileOf[p]) \in Seq(Mail) /\ Content(FileOf[p]) # <<>>
           /\ Taken(p)' = Head(Content(FileOf[p]))
           /\ Content(FileOf[p])' = Tail(Content(FileOf[p]))
           /\ \A r \in Queues \ {FileOf[p]} : Content(r)' = Content(r)
           /\ \A c \in Consumers \ {p} : Taken(c)' = Taken(c)
<1> DEFINE q == FileOf[p]
           n == message_count[q]
           r0 == read_offset[q]
<1>1. /\ p \in Procs /\ p \notin Producers /\ q \in Queues
      /\ MessageMaxCount \in Nat \ {0}
    BY QueueAssumption DEF Procs
<1>2. /\ pc[p] = "advance" /\ pc' = [pc EXCEPT ![p] = "wrap"] /\ pc'[p] = "wrap"
      /\ UNCHANGED <<message_count, memory, mail>>
    BY <1>1 DEF DequeueAdvance, Goto, QueueInv, TypeOK
<1>3. RestOK(q) /\ DequeuingOK(p) /\ ConsumerOK(p)
    BY <1>1, <1>2, RestWhenAlone
    DEF QueueInv, SemInv, RingInv, MailInv, Inside, Window
<1>4. n \in 1 .. MessageMaxCount /\ r0 \in Slots /\ mail[p] = memory[q][r0]
    BY <1>1, <1>2, <1>3 DEF RestOK, DequeuingOK, ConsumerOK
<1>5. /\ read_offset'[q] = r0 + 1
      /\ \A r \in Queues \ {q} : read_offset'[r] = read_offset[r]
    BY <1>1 DEF DequeueAdvance, QueueInv, TypeOK
<1>6. InFlight(q) = 0
    BY <1>1, <1>2, NoneInFlightAlone DEF QueueInv, SemInv, Inside, Window
<1>7. InFlight(q)' = 1
    BY <1>2 DEF InFlight, Window
<1>8. Left(q) = n /\ Left(q)' = n - 1
    BY <1>2, <1>4, <1>6, <1>7 DEF Left
<1> HIDE DEF n
<1>9. ASSUME NEW i \in 1 .. n - 1
      PROVE  SlotAt(r0 + 1, i - 1) = SlotAt(r0, (i + 1) - 1)
    BY <1>1, <1>4 DEF SlotAt, Slots
<1>10. SlotAt(r0, 1 - 1) = r0
    BY <1>1, <1>4 DEF SlotAt, Slots
<1>11. Content(q) = [i \in 1 .. n |-> memory[q][SlotAt(r0, i - 1)]]
    BY <1>1, <1>8 DEF RingRead, Ring
<1>12. Content(q)' = [i \in 1 .. n - 1 |-> memory[q][SlotAt(r0, (i + 1) - 1)]]
    <2>1. Content(q)' = [i \in 1 .. n - 1 |-> memory[q][SlotAt(r0 + 1, i - 1)]]
        BY <1>1, <1>2, <1>5, <1>8 DEF RingRead, Ring, SlotAt
    <2> QED BY <1>9, <2>1
<1>13. \A i \in 1 .. n : memory[q][SlotAt(r0, i - 1)] \in Mail
    BY <1>1, <1>8 DEF QueueInv, MailInv, SlotsOK
<1>14. /\ Content(q) \in Seq(Mail) /\ Len(Content(q)) = n /\ Content(q) # <<>>
       /\ Head(Content(q)) = mail[p] /\ mail[p] \in Mail
    <2>1. Content(q) \in Seq(Mail) /\ Len(Content(q)) = n
        BY <1>4, <1>11, <1>13
    <2>2. 1 \in 1 .. n
        BY <1>4
    <2>3. Content(q)[1] = memory[q][SlotAt(r0, 1 - 1)]
        BY <1>11, <2>2
    <2>4. Content(q)[1] = mail[p]
        BY <1>4, <1>10, <2>3
    <2> QED BY <1>4, <2>1, <2>2, <2>4
<1>15. Content(q)' = Tail(Content(q))
    <2>1. Tail(Content(q)) = [i \in 1 .. n - 1 |-> Content(q)[i + 1]]
        BY <1>4, <1>14
    <2>2. \A i \in 1 .. n - 1 : Content(q)[i + 1] = memory[q][SlotAt(r0, (i + 1) - 1)]
        BY <1>4, <1>11
    <2> QED BY <1>12, <2>1, <2>2
<1>16. \A i \in 1 .. Left(q)' : memory'[q][SlotAt(read_offset'[q], i - 1)] \in Mail
    <2>1. \A i \in 1 .. n - 1 : memory[q][SlotAt(r0, (i + 1) - 1)] \in Mail
        BY <1>4, <1>13
    <2> QED BY <1>2, <1>5, <1>8, <1>9, <2>1
<1>17. ConsumerOK(p)'
    BY <1>2, <1>14 DEF ConsumerOK, Window
<1>18. /\ MailInv'
       /\ \A r \in Queues \ {q} : Content(r)' = Content(r)
       /\ \A c \in Consumers \ {p} : Taken(c)' = Taken(c)
    BY <1>1, <1>2, <1>5, <1>16, <1>17, LocalStep DEF Inside
<1>19. Taken(p) = NoMail /\ Taken(p)' = mail[p]
    BY <1>2 DEF Taken, Window
<1> QED BY <1>14, <1>15, <1>18, <1>19

\* The wrap of read_offset renames the end of the ring to its beginning.
LEMMA DequeueWrapIsUnseen ==
    ASSUME QueueInv, RingRead, RingRead', NEW p \in Consumers, DequeueWrap(p)
    PROVE  MailInv' /\ Unseen
<1> DEFINE q == FileOf[p]
           r0 == read_offset[q]
<1>1. /\ p \in Procs /\ p \notin Producers /\ q \in Queues
      /\ MessageMaxCount \in Nat \ {0}
    BY QueueAssumption DEF Procs
<1>2. /\ pc[p] = "wrap" /\ pc' = [pc EXCEPT ![p] = "load"] /\ pc'[p] = "load"
      /\ UNCHANGED <<message_count, memory, mail>>
    BY <1>1 DEF DequeueWrap, Goto, QueueInv, TypeOK
<1>3. DequeuingOK(p) /\ ConsumerOK(p)
    BY DEF QueueInv, RingInv, MailInv
<1>4. r0 \in 1 .. MessageMaxCount /\ message_count[q] \in 1 .. MessageMaxCount
    BY <1>2, <1>3 DEF DequeuingOK, Window
<1>5. /\ read_offset'[q] = r0 % MessageMaxCount
      /\ \A r \in Queues \ {q} : read_offset'[r] = read_offset[r]
    BY <1>1 DEF DequeueWrap, QueueInv, TypeOK
<1>6. read_offset'[q] = IF r0 = MessageMaxCount THEN 0 ELSE r0
    BY <1>1, <1>4, <1>5, ModOnce
<1>7. Left(q) = message_count[q] - 1 /\ Left(q)' = Left(q)
    <2>1. InFlight(q) = 1
        BY <1>2, OneInFlight DEF Window
    <2>2. Left(q)' = Left(q)
        BY <1>1, <1>2, LeftSame DEF QueueInv, Window
    <2> QED BY <2>1, <2>2 DEF Left
<1>8. ASSUME NEW i \in 1 .. Left(q) PROVE SlotAt(read_offset'[q], i - 1) = SlotAt(r0, i - 1)
    <2>1. i \in Nat /\ 1 <= i /\ i <= MessageMaxCount
        BY <1>1, <1>4, <1>7
    <2> QED BY <1>1, <1>4, <1>6, <2>1 DEF SlotAt
<1>9. Content(q)' = Content(q)
    <2>1. Content(q) = [i \in 1 .. Left(q) |-> memory[q][SlotAt(r0, i - 1)]]
        BY <1>1 DEF RingRead, Ring
    <2>2. Content(q)' = [i \in 1 .. Left(q) |-> memory[q][SlotAt(read_offset'[q], i - 1)]]
        BY <1>1, <1>2, <1>7 DEF RingRead, Ring, SlotAt
    <2> QED BY <1>8, <2>1, <2>2
<1>10. \A i \in 1 .. Left(q)' : memory'[q][SlotAt(read_offset'[q], i - 1)] \in Mail
    BY <1>1, <1>2, <1>7, <1>8 DEF QueueInv, MailInv, SlotsOK
<1>11. ConsumerOK(p)' /\ Taken(p)' = Taken(p)
    BY <1>2, <1>3 DEF ConsumerOK, Taken, Window
<1>12. /\ MailInv'
       /\ \A r \in Queues \ {q} : Content(r)' = Content(r)
       /\ \A c \in Consumers \ {p} : Taken(c)' = Taken(c)
    BY <1>1, <1>2, <1>5, <1>10, <1>11, LocalStep DEF Inside
<1> QED BY <1>9, <1>11, <1>12 DEF Unseen

\* The store of message_count at the end of pq_dequeue only catches up with the
\* mail that is already gone.
LEMMA DequeueStoreIsUnseen ==
    ASSUME QueueInv, RingRead, RingRead', NEW p \in Consumers, StoreCount(p)
    PROVE  MailInv' /\ Unseen
<1> DEFINE q == FileOf[p]
<1>1. /\ p \in Procs /\ p \notin Producers /\ q \in Queues
    BY QueueAssumption DEF Procs
<1>2. /\ pc[p] = "store" /\ pc' = [pc EXCEPT ![p] = "post"] /\ pc'[p] = "post"
      /\ UNCHANGED <<read_offset, memory, mail>>
    BY <1>1 DEF StoreCount, Goto, QueueInv, TypeOK
<1>3. DequeuingOK(p) /\ ConsumerOK(p)
    BY DEF QueueInv, RingInv, MailInv
<1>4. message_count[q] \in Int /\ reg[p] = message_count[q]
    BY <1>1, <1>2, <1>3 DEF DequeuingOK, QueueInv, TypeOK
<1>5. /\ message_count'[q] = message_count[q] - 1
      /\ \A r \in Queues \ {q} : message_count'[r] = message_count[r]
    BY <1>1, <1>4 DEF StoreCount, QueueInv, TypeOK
<1>6. InFlight(q) = 1
    BY <1>2, OneInFlight DEF Window
<1>7. InFlight(q)' = 0
    <2>1. \A c \in Consumers : pc'[c] \notin Window
        BY <1>1, <1>2 DEF QueueInv, TypeOK, SemInv, MutualExclusion, Procs, Inside, Window
    <2> QED BY <2>1 DEF InFlight
<1>8. Left(q)' = Left(q)
    BY <1>4, <1>5, <1>6, <1>7 DEF Left
<1>9. Content(q)' = Content(q)
    BY <1>1, <1>2, <1>8, ContentSame
<1>10. \A i \in 1 .. Left(q)' : memory'[q][SlotAt(read_offset'[q], i - 1)] \in Mail
    BY <1>1, <1>2, <1>8 DEF QueueInv, MailInv, SlotsOK
<1>11. ConsumerOK(p)' /\ Taken(p)' = Taken(p)
    BY <1>2 DEF ConsumerOK, Taken, Window
<1>12. /\ MailInv'
       /\ \A r \in Queues \ {q} : Content(r)' = Content(r)
       /\ \A c \in Consumers \ {p} : Taken(c)' = Taken(c)
    BY <1>1, <1>2, <1>5, <1>10, <1>11, LocalStep DEF Inside
<1> QED BY <1>9, <1>11, <1>12 DEF Unseen

-----------------------------------------------------------------------------
(* The refinement, step by step. *)

\* What a step of lib-pq is to its callers: nothing, a mail put, a mail taken, or a
\* mail given up.
Puts(p) ==
    /\ mail[p] \in Mail
    /\ Content(FileOf[p]) \in Seq(Mail) /\ Len(Content(FileOf[p])) < MessageMaxCount
    /\ Content(FileOf[p])' = Append(Content(FileOf[p]), mail[p])
    /\ \A r \in Queues \ {FileOf[p]} : Content(r)' = Content(r)
    /\ \A c \in Consumers : Taken(c)' = Taken(c)

Takes(p) ==
    /\ Taken(p) = NoMail
    /\ Content(FileOf[p]) # <<>>
    /\ Taken(p)' = Head(Content(FileOf[p]))
    /\ Content(FileOf[p])' = Tail(Content(FileOf[p]))
    /\ \A r \in Queues \ {FileOf[p]} : Content(r)' = Content(r)
    /\ \A c \in Consumers \ {p} : Taken(c)' = Taken(c)

\* Every step of a process is one of the four.
LEMMA StepMeaning ==
    ASSUME QueueInv, RingRead, RingRead', NEW p \in Procs, QuietStep(p)
    PROVE  /\ MailInv'
           /\ \/ Unseen
              \/ p \in Producers /\ Puts(p)
              \/ p \in Consumers /\ (Takes(p) \/ Dropped(p))
<1>1. Step(p) /\ ~ semaphore_interrupted(p)
    BY DEF QuietStep
<1>2. Kill(p) \/ MemoryFault(p) => Die(p) /\ pc[p] \notin Window
    BY DEF QuietStep, Kill, MemoryFault, Window
<1>3. CASE p \in Producers
    <2>1. p \notin Consumers
        BY <1>3, QueueAssumption
    <2>2. ~ Dequeue(p) /\ ~ pq_dequeue(p)
        BY <2>1 DEF pq_dequeue, Dequeue, DequeueEmpty, DequeueAccept, DequeueCopy,
                    DequeueAdvance, DequeueWrap
    <2>3. CASE EnqueueCopy(p)
        BY <1>3, <2>3, EnqueueCopyIsUnseen
    <2>4. CASE StoreCount(p)
        BY <1>3, <2>4, EnqueuePuts DEF Puts
    <2>5. CASE \/ Start(p) \/ semaphore_wait(p) \/ semaphore_post(p) \/ Die(p)
               \/ EnqueueFull(p) \/ EnqueueAccept(p) \/ EnqueueAdvance(p) \/ EnqueueWrap(p)
               \/ LoadCount(p) \/ \E m \in Mail : pq_enqueue(p, m)
        BY <1>3, <2>5, ProducerUnseen
    <2> QED BY <1>1, <1>2, <2>2, <2>3, <2>4, <2>5 DEF Step, Progress, Enqueue
<1>4. CASE p \in Consumers
    <2>1. p \notin Producers
        BY <1>4, QueueAssumption
    <2>2. ~ Enqueue(p) /\ ~ \E m \in Mail : pq_enqueue(p, m)
        BY <2>1 DEF pq_enqueue, Enqueue, EnqueueFull, EnqueueAccept, EnqueueCopy,
                    EnqueueAdvance, EnqueueWrap
    <2>3. CASE DequeueAdvance(p)
        BY <1>4, <2>3, DequeueTakes DEF Takes
    <2>4. CASE DequeueWrap(p)
        BY <1>4, <2>4, DequeueWrapIsUnseen
    <2>5. CASE StoreCount(p)
        BY <1>4, <2>5, DequeueStoreIsUnseen
    <2>6. CASE pq_dequeue(p) \/ (Die(p) /\ pc[p] \notin Window)
        <3>1. pc[p] \notin Window
            BY <2>6 DEF pq_dequeue, Goto, Window
        <3> QED BY <1>4, <2>6, <3>1, ConsumerDrops
    <2>7. CASE \/ Start(p) \/ semaphore_wait(p) \/ semaphore_post(p)
               \/ DequeueEmpty(p) \/ DequeueAccept(p) \/ DequeueCopy(p) \/ LoadCount(p)
        BY <1>4, <2>7, ConsumerUnseen
    <2> QED BY <1>1, <1>2, <2>2, <2>3, <2>4, <2>5, <2>6, <2>7 DEF Step, Progress, Dequeue
<1> QED BY <1>3, <1>4 DEF Procs

\* The four are steps of MailQueue, or stuttering.
LEMMA MeaningIsFifo ==
    ASSUME NEW p \in Procs,
           \/ Unseen
           \/ p \in Producers /\ Puts(p)
           \/ p \in Consumers /\ (Takes(p) \/ Dropped(p))
    PROVE  [Fifo!Next]_(Fifo!vars)
<1> DEFINE queue == [q \in Queues |-> Content(q)]
           got == [c \in Consumers |-> Taken(c)]
<1>1. FileOf[p] \in Queues
    BY QueueAssumption
<1>2. CASE Unseen
    <2>1. queue' = queue /\ got' = got
        BY <1>2 DEF Unseen
    <2> QED BY <2>1 DEF Fifo!vars
<1>3. CASE p \in Producers /\ Puts(p)
    <2>1. queue' = [queue EXCEPT ![FileOf[p]] = Append(@, mail[p])]
        BY <1>1, <1>3 DEF Puts
    <2>2. got' = got
        BY <1>3 DEF Puts
    <2>3. Len(queue[FileOf[p]]) < MessageMaxCount
        BY <1>1, <1>3 DEF Puts
    <2>4. Fifo!Put(FileOf[p], mail[p])
        BY <2>1, <2>2, <2>3 DEF Fifo!Put
    <2> QED BY <1>1, <1>3, <2>4 DEF Fifo!Next, Puts
<1>4. CASE p \in Consumers /\ Takes(p)
    <2>1. queue' = [queue EXCEPT ![FileOf[p]] = Tail(@)]
        BY <1>1, <1>4 DEF Takes
    <2>2. got' = [got EXCEPT ![p] = Head(queue[FileOf[p]])]
        BY <1>1, <1>4 DEF Takes
    <2>3. got[p] = NoMail /\ queue[FileOf[p]] # <<>>
        BY <1>1, <1>4 DEF Takes
    <2>4. Fifo!Take(p)
        BY <2>1, <2>2, <2>3 DEF Fifo!Take
    <2> QED BY <1>4, <2>4 DEF Fifo!Next
<1>5. CASE p \in Consumers /\ Dropped(p)
    <2>1. queue' = queue
        BY <1>5 DEF Dropped
    <2>2. got' = [got EXCEPT ![p] = NoMail]
        BY <1>5 DEF Dropped
    <2>3. CASE got[p] = NoMail
        <3>1. got' = got
            BY <2>2, <2>3
        <3> QED BY <2>1, <3>1 DEF Fifo!vars
    <2>4. CASE got[p] # NoMail
        <3>1. Fifo!Release(p)
            BY <2>1, <2>2, <2>4 DEF Fifo!Release
        <3> QED BY <1>5, <3>1 DEF Fifo!Next
    <2> QED BY <2>3, <2>4
<1> QED BY <1>2, <1>3, <1>4, <1>5

\* The first state is an empty FIFO.
LEMMA FifoInit == Init => Fifo!Init
<1> SUFFICES ASSUME Init PROVE Fifo!Init
    OBVIOUS
<1>1. RingRead /\ MailInv
    BY MailInit, TypeInit, SemInit, RingInit, RingReadHolds DEF SemInv
<1>2. \A c \in Consumers : pc[c] \notin Window /\ mail[c] = NoMail
    BY DEF Init, InitWith, Procs, Window
<1>3. ASSUME NEW q \in Queues PROVE Content(q) = <<>>
    <2>1. InFlight(q) = 0 /\ message_count[q] = 0
        BY <1>2, NoneInFlight DEF Init, InitWith
    <2>2. Left(q) = 0
        BY <2>1 DEF Left
    <2> QED BY <1>1, <2>2 DEF RingRead, Ring
<1>4. \A c \in Consumers : Taken(c) = NoMail
    BY <1>2 DEF Taken
<1> QED BY <1>3, <1>4 DEF Fifo!Init

\* The invariant and the refinement, for one step of a process.
LEMMA QueueProcess ==
    ASSUME QueueInv, NEW p \in Procs, QuietStep(p)
    PROVE  QueueInv' /\ [Fifo!Next]_(Fifo!vars)
<1>1. TypeOK' /\ SemInv' /\ RingInv'
    BY TypeStep, SemProcess, RingProcess DEF QueueInv, SemInv, QuietStep, Next
<1>2. RingRead
    BY RingReadHolds DEF QueueInv, SemInv
<1>3. RingRead'
    <2>1. (TypeOK /\ MutualExclusion /\ RingInv => RingRead)'
        BY RingReadHolds, PTL
    <2> QED BY <1>1, <2>1 DEF SemInv
<1> QED BY <1>1, <1>2, <1>3, StepMeaning, MeaningIsFifo DEF QueueInv

\* While nothing moves the queue stays what it is.
LEMMA QueueStutters ==
    ASSUME QueueInv, UNCHANGED vars
    PROVE  QueueInv' /\ [Fifo!Next]_(Fifo!vars)
<1>1. TypeOK' /\ SemInv' /\ RingInv'
    BY QueueFrame DEF QueueInv
<1>2. UNCHANGED <<read_offset, message_count, memory, pc, mail>>
    BY DEF vars, header
<1>3. MailInv'
    BY <1>2 DEF QueueInv, MailInv, SlotsOK, ProducerOK, ConsumerOK, SlotAt, Left, InFlight
<1>4. Unseen
    BY <1>2 DEF Unseen, Content, Taken, InFlight
<1>5. UNCHANGED Fifo!vars
    BY <1>4 DEF Fifo!vars, Unseen
<1> QED BY <1>1, <1>3, <1>5 DEF QueueInv

\* The invariant and the refinement, for one step of the system.
LEMMA QueueStep ==
    ASSUME InitOnlyWhenQuiet, ~Interrupts, KillPoints \cap Window = {}
    PROVE  QueueInv /\ [Next]_vars => QueueInv' /\ [Fifo!Next]_(Fifo!vars)
<1> SUFFICES ASSUME QueueInv, [Next]_vars
             PROVE  QueueInv' /\ [Fifo!Next]_(Fifo!vars)
    OBVIOUS
<1>1. CASE UNCHANGED vars
    BY <1>1, QueueStutters
<1>2. ASSUME NEW p \in Procs, Step(p) PROVE QuietStep(p)
    BY <1>2 DEF QuietStep, semaphore_interrupted, Kill, worker_init, pq_init, semaphore_init
<1> QED BY <1>1, <1>2, QueueProcess DEF Next

-----------------------------------------------------------------------------
(* Theorems. *)

\* The four invariants hold from the first state on.
LEMMA QueueInit == Init => QueueInv
BY TypeInit, SemInit, RingInit, MailInit DEF QueueInv

\* lib-pq implements the bounded FIFO its callers rely on: what pq_enqueue accepted
\* pq_dequeue returns once, in order, and nothing else, across crashes and restarts,
\* when the semaphore is reset only in quiet moments, no sleeping semop is
\* interrupted and no process is killed between the two header stores of a call.
THEOREM FifoRefined ==
    ASSUME InitOnlyWhenQuiet, ~Interrupts, KillPoints \cap Window = {}
    PROVE  Spec => FifoSpec
<1>1. QueueInv /\ [Next]_vars => QueueInv'
    BY QueueStep
<1>2. QueueInv /\ [Next]_vars => [Fifo!Next]_(Fifo!vars)
    BY QueueStep
<1> QED BY QueueInit, FifoInit, <1>1, <1>2, PTL DEF Spec, FifoSpec, Fifo!Spec

\* Under the same assumptions a successful pq_dequeue returns a mail somebody queued.
THEOREM DequeuedIsMailHolds ==
    ASSUME InitOnlyWhenQuiet, ~Interrupts, KillPoints \cap Window = {}
    PROVE  Spec => []DequeuedIsMail
<1>1. QueueInv => DequeuedIsMail
    BY QueueAssumption DEF QueueInv, MailInv, ConsumerOK, DequeuedIsMail
<1>2. QueueInv /\ [Next]_vars => QueueInv'
    BY QueueStep
<1> QED BY QueueInit, <1>1, <1>2, PTL DEF Spec
=============================================================================
