------------------------- MODULE PthreadMutexProofs -------------------------
(***************************************************************************)
(* Proofs about PthreadMutex for every number of threads and of spurious   *)
(* wake-ups.  IInv ties the program counters to main's progress, to the    *)
(* owner of the mutex and to the step counter: the threads that have       *)
(* worked are exactly those with a number below the counter.               *)
(***************************************************************************)
EXTENDS PthreadMutex, TLAPS

(* The thread is between pthread_mutex_lock and pthread_mutex_unlock. *)
Holds(t) == pc[t] \in {"test", "work", "advance", "broadcast", "unlock"}

(* Main has not created thread t yet. *)
Fresh(t) == mpc = "create" /\ t >= midx

(* Where main is determines which threads exist and which have returned. *)
MainInv ==
  /\ mpc = "done" <=> ~alive
  /\ \A t \in Threads :
       /\ pc[t] = "idle" <=> Fresh(t)
       /\ mpc = "join" /\ t < midx => pc[t] = "exited"
       /\ mpc \in {"destroy", "done"} => pc[t] = "exited"

(* The mutex is owned by the thread inside, and only then. *)
MutexInv == \A t \in Threads : Holds(t) <=> g_flow_mutex = t

(* The counter separates the threads that have worked from the others, and *)
(* the thread it names is the only one at work.                            *)
ChainInv ==
  \A t \in Threads :
    /\ Worked(t) <=> t < g_flow_step
    /\ pc[t] \in {"work", "advance"} => g_flow_step = t

(* A thread blocked in pthread_cond_wait although its turn has come has    *)
(* its wake-up still ahead.                                                *)
NoLostWakeup ==
  \A t \in Threads :
    pc[t] = "wait" /\ g_flow_step = t => \E u \in Threads : pc[u] = "broadcast"

IInv == TypeOK /\ MainInv /\ MutexInv /\ ChainInv /\ NoLostWakeup

-----------------------------------------------------------------------------

(* The initial state satisfies the invariant. *)
LEMMA InitIInv == Init => IInv
<1> SUFFICES ASSUME Init
             PROVE  IInv
  OBVIOUS
<1>1. 0 \in Threads /\ NoThread \notin Threads
  BY ChainAssumption DEF Threads, NoThread
<1>2. TypeOK
  <2>1. g_flow_step \in 0 .. NumThreads /\ spurious \in 0 .. MaxSpurious
    BY ChainAssumption DEF Init
  <2>2. alive \in BOOLEAN
    BY DEF Init
  <2>3. QED
    BY <1>1, <2>1, <2>2 DEF Init, TypeOK
<1>3. MainInv
  BY DEF Init, MainInv, Fresh, Threads
<1>4. MutexInv
  BY <1>1 DEF Init, MutexInv, Holds
<1>5. ChainInv
  <2>1. \A t \in Threads : ~(t < 0)
    BY DEF Threads
  <2>2. QED
    BY <2>1 DEF Init, ChainInv, Worked
<1>6. NoLostWakeup
  BY DEF Init, NoLostWakeup
<1>7. QED
  BY <1>2, <1>3, <1>4, <1>5, <1>6 DEF IInv

(* The loops over the threads stay within them. *)
LEMMA LoopIndex ==
  ASSUME TypeOK, NEW label, NextOr(label)
  PROVE  midx' \in Threads /\ (mpc' = mpc \/ mpc' = label)
  BY ChainAssumption DEF TypeOK, NextOr, Threads

(* Every step keeps the variables in their types. *)
LEMMA TypeStep ==
  ASSUME TypeOK, ChainInv, [Next]_vars
  PROVE  TypeOK'
<1> USE DEF TypeOK
<1>1. CASE CreateThread
  <2>1. midx' \in Threads /\ mpc' \in {"create", "join"}
    BY <1>1, LoopIndex DEF CreateThread
  <2>2. QED
    BY <1>1, <2>1 DEF CreateThread, Goto
<1>2. CASE JoinThread
  <2>1. midx' \in Threads /\ mpc' \in {"join", "destroy"}
    BY <1>2, LoopIndex DEF JoinThread
  <2>2. QED
    BY <1>2, <2>1 DEF JoinThread
<1>3. CASE DestroyLocks
  BY <1>3 DEF DestroyLocks
<1>4. ASSUME NEW t \in Threads, Advance(t)
      PROVE  TypeOK'
  <2>1. g_flow_step' \in 0 .. NumThreads
    BY <1>4, ChainAssumption DEF Advance, ChainInv, Threads
  <2>2. QED
    BY <1>4, <2>1 DEF Advance, Goto
<1>5. ASSUME NEW t \in Threads, SpuriousWake(t)
      PROVE  TypeOK'
  <2>1. spurious' \in 0 .. MaxSpurious
    BY <1>5, ChainAssumption DEF SpuriousWake
  <2>2. QED
    BY <1>5, <2>1 DEF SpuriousWake, Goto
<1>6. ASSUME NEW t \in Threads, Lock(t) \/ TestTurn(t) \/ Work(t) \/ Unlock(t)
      PROVE  TypeOK'
  BY <1>6 DEF Lock, TestTurn, Work, Unlock, Goto
<1>7. ASSUME NEW t \in Threads, Broadcast(t)
      PROVE  TypeOK'
  BY <1>7 DEF Broadcast
<1>8. CASE UNCHANGED vars
  BY <1>8 DEF vars
<1>9. QED
  BY <1>1, <1>2, <1>3, <1>4, <1>5, <1>6, <1>7, <1>8 DEF Next, Main, thread_work, Terminated

(* Creation and joining go through all threads. *)
LEMMA MainStep ==
  ASSUME TypeOK, MainInv, [Next]_vars
  PROVE  MainInv'
<1> DEFINE Ends(t) ==
      /\ pc[t] = "idle" <=> Fresh(t)
      /\ mpc = "join" /\ t < midx => pc[t] = "exited"
      /\ mpc \in {"destroy", "done"} => pc[t] = "exited"
<1>0. (mpc = "done" <=> ~alive) /\ \A t \in Threads : Ends(t)
  BY DEF MainInv
<1>1. CASE CreateThread
  <2>1. mpc = "create" /\ mpc' # "done" /\ alive' = alive
    BY <1>1 DEF CreateThread, NextOr
  <2>2. ASSUME NEW u \in Threads
        PROVE  Ends(u)'
    <3>1. pc'[u] = IF u = midx THEN "lock" ELSE pc[u]
      BY <1>1 DEF CreateThread, Goto, TypeOK
    <3>2. Fresh(u)' <=> Fresh(u) /\ u # midx
      BY <1>1, ChainAssumption DEF CreateThread, NextOr, Fresh, TypeOK, Threads
    <3>3. ~(mpc' = "join" /\ u < midx') /\ mpc' \notin {"destroy", "done"}
      BY <1>1 DEF CreateThread, NextOr, Threads
    <3>4. QED
      BY <1>0, <3>1, <3>2, <3>3
  <2>3. QED
    BY <1>0, <2>1, <2>2 DEF MainInv
<1>2. CASE JoinThread
  <2>1. mpc = "join" /\ mpc' # "done" /\ alive' = alive /\ pc' = pc /\ pc[midx] = "exited"
    BY <1>2 DEF JoinThread, NextOr
  <2>2. ASSUME NEW u \in Threads
        PROVE  Ends(u)'
    <3>1. ~Fresh(u) /\ ~Fresh(u)'
      BY <1>2 DEF JoinThread, NextOr, Fresh
    <3>2. mpc' = "join" /\ u < midx' => u < midx \/ u = midx
      BY <1>2 DEF JoinThread, NextOr, TypeOK, Threads
    <3>3. mpc' = "destroy" => u < midx \/ u = midx
      BY <1>2, ChainAssumption DEF JoinThread, NextOr, TypeOK, Threads
    <3>4. QED
      BY <1>0, <2>1, <3>1, <3>2, <3>3
  <2>3. QED
    BY <1>0, <2>1, <2>2 DEF MainInv
<1>3. CASE DestroyLocks
  <2>1. mpc = "destroy" /\ mpc' = "done" /\ ~alive' /\ pc' = pc
    BY <1>3 DEF DestroyLocks
  <2>2. ASSUME NEW u \in Threads
        PROVE  Ends(u)'
    BY <1>0, <2>1 DEF Fresh
  <2>3. QED
    BY <2>1, <2>2 DEF MainInv
<1>4. ASSUME NEW t \in Threads, thread_work(t) \/ SpuriousWake(t)
      PROVE  MainInv'
  <2>1. mpc' = mpc /\ midx' = midx /\ alive' = alive
    BY <1>4 DEF thread_work, Lock, TestTurn, Work, Advance, Broadcast, Unlock, SpuriousWake
  <2>2. \A u \in Threads :
          pc'[u] = pc[u] \/ (pc[u] \notin {"idle", "exited"} /\ pc'[u] # "idle")
    BY <1>4 DEF thread_work, Lock, TestTurn, Work, Advance, Broadcast, Unlock, SpuriousWake,
                Goto, TypeOK
  <2>3. \A u \in Threads : Fresh(u)' <=> Fresh(u)
    BY <2>1 DEF Fresh
  <2>4. \A u \in Threads : Ends(u)'
    BY <1>0, <2>1, <2>2, <2>3
  <2>5. QED
    BY <1>0, <2>1, <2>4 DEF MainInv
<1>5. CASE UNCHANGED vars
  BY <1>5 DEF vars, MainInv, Fresh
<1>6. QED
  BY <1>1, <1>2, <1>3, <1>4, <1>5 DEF Next, Main, Terminated

(* A thread that main creates now has not run before. *)
LEMMA CreatedIsIdle ==
  ASSUME TypeOK, MainInv, CreateThread
  PROVE  midx \in Threads /\ pc[midx] = "idle"
<1>1. midx \in Threads /\ midx >= midx
  BY DEF TypeOK, Threads
<1>2. QED
  BY <1>1 DEF CreateThread, MainInv, Fresh

(* Mutual exclusion. *)
LEMMA MutexStep ==
  ASSUME TypeOK, MainInv, MutexInv, [Next]_vars
  PROVE  MutexInv'
<1> USE DEF MutexInv, Holds, TypeOK
<1>0. NoThread \notin Threads
  BY DEF NoThread, Threads
<1>1. CASE CreateThread
  BY <1>1, CreatedIsIdle DEF CreateThread, Goto
<1>2. CASE JoinThread \/ DestroyLocks \/ UNCHANGED vars
  BY <1>2 DEF JoinThread, DestroyLocks, vars
<1>3. ASSUME NEW t \in Threads, Lock(t) \/ TestTurn(t) \/ Unlock(t)
      PROVE  MutexInv'
  BY <1>0, <1>3 DEF Lock, TestTurn, Unlock, Goto
<1>4. ASSUME NEW t \in Threads, Work(t) \/ Advance(t) \/ SpuriousWake(t)
      PROVE  MutexInv'
  BY <1>4 DEF Work, Advance, SpuriousWake, Goto
<1>5. ASSUME NEW t \in Threads, Broadcast(t)
      PROVE  MutexInv'
  BY <1>5 DEF Broadcast
<1>6. QED
  BY <1>1, <1>2, <1>3, <1>4, <1>5 DEF Next, Main, thread_work, Terminated

(* The counter moves past the thread that has just worked, and no other. *)
LEMMA ChainStep ==
  ASSUME TypeOK, MainInv, MutexInv, ChainInv, [Next]_vars
  PROVE  ChainInv'
<1> USE DEF ChainInv, Worked, TypeOK
<1>1. CASE CreateThread
  BY <1>1, CreatedIsIdle DEF CreateThread, Goto
<1>2. CASE JoinThread \/ DestroyLocks \/ UNCHANGED vars
  BY <1>2 DEF JoinThread, DestroyLocks, vars
<1>3. ASSUME NEW t \in Threads, Lock(t) \/ TestTurn(t) \/ Work(t) \/ Unlock(t) \/ SpuriousWake(t)
      PROVE  ChainInv'
  BY <1>3 DEF Lock, TestTurn, Work, Unlock, SpuriousWake, Goto
<1>4. ASSUME NEW t \in Threads, Advance(t)
      PROVE  ChainInv'
  <2>1. g_flow_step = t /\ g_flow_step' = t + 1
    BY <1>4 DEF Advance
  <2>2. \A u \in Threads : pc'[u] = IF u = t THEN "broadcast" ELSE pc[u]
    BY <1>4 DEF Advance, Goto
  <2>3. \A u \in Threads : u # t => pc[u] \notin {"work", "advance"}
    BY <2>1
  <2>4. \A u \in Threads : u < t + 1 <=> (u < t \/ u = t)
    BY DEF Threads
  <2>5. QED
    BY <2>1, <2>2, <2>3, <2>4
<1>5. ASSUME NEW t \in Threads, Broadcast(t)
      PROVE  ChainInv'
  BY <1>5 DEF Broadcast
<1>6. QED
  BY <1>1, <1>2, <1>3, <1>4, <1>5 DEF Next, Main, thread_work, Terminated

(* pthread_cond_wait gives the mutex up in the step that blocks, and the   *)
(* counter moves under the mutex: no broadcast is missed.                  *)
LEMMA WakeupStep ==
  ASSUME TypeOK, MainInv, MutexInv, ChainInv, NoLostWakeup, [Next]_vars
  PROVE  NoLostWakeup'
<1> USE DEF NoLostWakeup, TypeOK
<1>1. CASE CreateThread
  BY <1>1, CreatedIsIdle DEF CreateThread, Goto
<1>2. CASE JoinThread \/ DestroyLocks \/ UNCHANGED vars
  BY <1>2 DEF JoinThread, DestroyLocks, vars
<1>3. ASSUME NEW t \in Threads, Lock(t) \/ TestTurn(t) \/ Work(t) \/ Unlock(t) \/ SpuriousWake(t)
      PROVE  NoLostWakeup'
  BY <1>3 DEF Lock, TestTurn, Work, Unlock, SpuriousWake, Goto
<1>4. ASSUME NEW t \in Threads, Advance(t)
      PROVE  NoLostWakeup'
  BY <1>4 DEF Advance, Goto
<1>5. ASSUME NEW t \in Threads, Broadcast(t)
      PROVE  NoLostWakeup'
  BY <1>5 DEF Broadcast
<1>6. QED
  BY <1>1, <1>2, <1>3, <1>4, <1>5 DEF Next, Main, thread_work, Terminated

(* The inductive invariant holds in every reachable state. *)
LEMMA Inductive == Spec => []IInv
<1>1. IInv /\ [Next]_vars => IInv'
  BY TypeStep, MainStep, MutexStep, ChainStep, WakeupStep DEF IInv
<1>2. QED
  BY InitIInv, <1>1, PTL DEF Spec

-----------------------------------------------------------------------------

(* The variables of pthread_mutex stay in their types: the step counter,   *)
(* which the program never wraps, ends at the number of threads.           *)
THEOREM TypeCorrect == Spec => []TypeOK
  BY Inductive, PTL DEF IInv

(* pthread_mutex_destroy and pthread_cond_destroy run when no thread owns  *)
(* the mutex or sleeps on the condition variable, because main has joined  *)
(* all of them.                                                            *)
THEOREM DestroyIsSafe == Spec => []DestroyedIdle
<1>1. IInv => DestroyedIdle
  <2> SUFFICES ASSUME IInv, ~alive
               PROVE  g_flow_mutex = NoThread /\ \A t \in Threads : pc[t] = "exited"
    BY DEF DestroyedIdle
  <2>1. \A t \in Threads : pc[t] = "exited"
    BY DEF IInv, MainInv
  <2>2. g_flow_mutex \notin Threads
    BY <2>1 DEF IInv, MutexInv, Holds
  <2>3. QED
    BY <2>1, <2>2 DEF IInv, TypeOK
<1>2. QED
  BY Inductive, <1>1, PTL

(* No thread of the chain sleeps through its turn: when the counter names  *)
(* a thread that is blocked in pthread_cond_wait, the thread before it is  *)
(* about to broadcast.                                                     *)
THEOREM WakeupSafe == Spec => []NoLostWakeup
  BY Inductive, PTL DEF IInv

-----------------------------------------------------------------------------
(* The refinement of TurnRing *)

(* Only the thread at Advance moves the counter or changes who has worked. *)
LEMMA ChainFrame ==
  ASSUME TypeOK, MainInv, [Next]_vars, \A t \in Threads : ~Advance(t)
  PROVE  g_flow_step' = g_flow_step /\ \A u \in Threads : Worked(u)' <=> Worked(u)
<1> USE DEF Worked, TypeOK
<1>1. CASE CreateThread
  BY <1>1, CreatedIsIdle DEF CreateThread, Goto
<1>2. CASE JoinThread \/ DestroyLocks \/ UNCHANGED vars
  BY <1>2 DEF JoinThread, DestroyLocks, vars
<1>3. ASSUME NEW t \in Threads,
             Lock(t) \/ TestTurn(t) \/ Work(t) \/ Broadcast(t) \/ Unlock(t) \/ SpuriousWake(t)
      PROVE  g_flow_step' = g_flow_step /\ \A u \in Threads : Worked(u)' <=> Worked(u)
  BY <1>3 DEF Lock, TestTurn, Work, Broadcast, Unlock, SpuriousWake, Goto
<1>4. QED
  BY <1>1, <1>2, <1>3 DEF Next, Main, thread_work, Terminated

(* Every step is a visit of the ring or invisible to it. *)
LEMMA RingStep == IInv /\ [Next]_vars => [Ring!Next]_(Ring!vars)
<1> DEFINE Turn == [p \in {0} |-> g_flow_step % NumThreads]
           Visits == [t \in Threads |-> [p \in {0} |-> IF Worked(t) THEN 1 ELSE 0]]
<1> SUFFICES ASSUME IInv, [Next]_vars
             PROVE  [Ring!Next]_(Ring!vars)
  OBVIOUS
<1>1. Ring!Threads = Threads /\ Ring!Partitions = {0}
  BY DEF Ring!Threads, Threads, Ring!Partitions
<1>2. ASSUME NEW t \in Threads, Advance(t)
      PROVE  Ring!Next
  <2>1. g_flow_step = t /\ g_flow_step' = t + 1 /\ ~Worked(t)
    BY <1>2 DEF IInv, ChainInv, Advance, Worked
  <2>2. \A u \in Threads : Worked(u)' <=> Worked(u) \/ u = t
    BY <1>2 DEF Advance, Goto, Worked, IInv, TypeOK
  <2>3. t % NumThreads = t
    BY ChainAssumption DEF Threads
  <2>4. Turn[0] = t /\ Turn' = [Turn EXCEPT ![0] = (t + 1) % NumThreads]
    BY <2>1, <2>3
  <2>5. Visits[t][0] = 0 /\ Visits' = [Visits EXCEPT ![t][0] = @ + 1]
    BY <2>1, <2>2
  <2>6. \A q \in {0} : Visits[t][q] = IF q < 0 THEN Visits[t][0] + 1 ELSE Visits[t][0]
    OBVIOUS
  <2>7. Ring!Visit(t, 0)
    BY <1>1, <2>4, <2>5, <2>6 DEF Ring!Visit, Ring!InProgramOrder
  <2>8. QED
    BY <1>1, <2>7 DEF Ring!Next
<1>3. CASE \A t \in Threads : ~Advance(t)
  <2>1. g_flow_step' = g_flow_step /\ \A u \in Threads : Worked(u)' <=> Worked(u)
    BY <1>3, ChainFrame DEF IInv
  <2>2. Turn' = Turn /\ Visits' = Visits
    BY <2>1
  <2>3. QED
    BY <2>2 DEF Ring!vars
<1>4. QED
  BY <1>2, <1>3

(* The program starts in an initial state of the ring. *)
LEMMA RingInit == Init => Ring!Init
<1> SUFFICES ASSUME Init
             PROVE  Ring!Init
  OBVIOUS
<1>1. Ring!Threads = Threads /\ Ring!Partitions = {0}
  BY DEF Ring!Threads, Threads, Ring!Partitions
<1>2. 0 % NumThreads = 0
  BY ChainAssumption
<1>3. \A t \in Threads : ~Worked(t)
  BY DEF Init, Worked
<1>4. QED
  BY <1>1, <1>2, <1>3 DEF Init, Ring!Init

(* pthread_mutex is one round of the abstract ring: whichever thread gets  *)
(* the mutex first, each works once and in the order of the numbers.       *)
THEOREM Refinement == Spec => ImplementsRing
  BY RingInit, RingStep, Inductive, PTL DEF Spec, ImplementsRing, Ring!Spec

=============================================================================
