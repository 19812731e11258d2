-------------------------- MODULE PthreadRdwrProofs --------------------------
(***************************************************************************)
(* Proofs about PthreadRdwr for every number of threads and of spurious    *)
(* wake-ups.  That readers work only behind the writer takes three facts   *)
(* together: a reader passes its loop only when the step has been raised,  *)
(* the step is raised only while the writer holds the write lock, and the  *)
(* writer's last action is to give that lock up.                           *)
(***************************************************************************)
EXTENDS PthreadRdwr, TLAPS

WriterPCs == {"idle", "lock", "wrlock", "work", "advance", "broadcast", "unlock",
              "rwunlock", "exited"}
ReaderPCs == {"idle", "lock", "test", "wait", "rdlock", "work", "rwunlock", "exited"}

(* Every thread runs the routine of its number and no thread is created    *)
(* without one.                                                            *)
TypeOK ==
  /\ mpc \in {"routines", "create", "join", "destroy", "done"}
  /\ midx \in Threads
  /\ start_routines \in [Threads -> {"null", "writer", "reader"}]
  /\ pc \in [Threads -> WriterPCs \cup ReaderPCs]
  /\ pc[Writer] \in WriterPCs
  /\ \A t \in Readers : pc[t] \in ReaderPCs
  /\ g_flow_mutex \in Threads \cup {NoThread}
  /\ rdLocks \subseteq Readers
  /\ wrLock \in {Writer, NoThread}
  /\ g_flow_step \in {0, 1}
  /\ alive \in BOOLEAN
  /\ spurious \in 0 .. MaxSpurious

(* Main has not created thread t yet. *)
Fresh(t) == mpc = "routines" \/ (mpc = "create" /\ t >= midx)

MainInv ==
  /\ mpc = "done" <=> ~alive
  /\ mpc = "routines" => midx = 0
  /\ mpc # "routines" =>
       \A t \in Threads : start_routines[t] = IF t = Writer THEN "writer" ELSE "reader"
  /\ \A t \in Threads :
       /\ pc[t] = "idle" <=> Fresh(t)
       /\ mpc = "join" /\ t < midx => pc[t] = "exited"
       /\ mpc \in {"destroy", "done"} => pc[t] = "exited"

(* The thread is inside the mutex; only the writer works there. *)
Holds(t) ==
  \/ pc[t] \in {"test", "wrlock", "advance", "broadcast", "unlock"}
  \/ t = Writer /\ pc[t] = "work"

(* The owner of the mutex and the holders of the read-write lock. *)
LockInv ==
  /\ \A t \in Threads : Holds(t) <=> g_flow_mutex = t
  /\ wrLock = Writer <=> pc[Writer] \in {"work", "advance", "broadcast", "unlock", "rwunlock"}
  /\ \A t \in Readers : t \in rdLocks <=> pc[t] \in {"work", "rwunlock"}

(* The step tells that the writer has worked, and readers pass on it. *)
StepInv ==
  /\ g_flow_step = 1 <=> pc[Writer] \in {"broadcast", "unlock", "rwunlock", "exited"}
  /\ \A t \in Readers :
       pc[t] \in {"rdlock", "work", "rwunlock", "exited"} => g_flow_step = 1

(* A reader blocked in pthread_cond_wait when the step has been raised has *)
(* the writer's broadcast still ahead.                                     *)
NoLostWakeup ==
  \A t \in Readers : pc[t] = "wait" /\ g_flow_step = 1 => pc[Writer] = "broadcast"

IInv == TypeOK /\ MainInv /\ LockInv /\ StepInv /\ NoLostWakeup /\ ReadersAfterWriter

-----------------------------------------------------------------------------

(* Thread numbers: the writer is a thread and no reader. *)
LEMMA ThreadSets ==
  /\ Writer \in Threads /\ Writer \notin Readers /\ Threads = Readers \cup {Writer}
  /\ NoThread \notin Threads /\ NoThread # Writer
  /\ Threads \subseteq Nat /\ Writer = 0
  BY RdwrAssumption DEF Threads, Readers, Writer, NoThread

(* The initial state satisfies the invariant. *)
LEMMA InitIInv == Init => IInv
<1> SUFFICES ASSUME Init
             PROVE  IInv
  OBVIOUS
<1>1. TypeOK
  <2>1. spurious \in 0 .. MaxSpurious /\ midx \in Threads
    BY RdwrAssumption DEF Init, Threads
  <2>2. alive \in BOOLEAN
    BY DEF Init
  <2>3. QED
    BY <2>1, <2>2, ThreadSets DEF Init, TypeOK, WriterPCs, ReaderPCs
<1>2. MainInv
  BY DEF Init, MainInv, Fresh
<1>3. LockInv
  BY ThreadSets DEF Init, LockInv, Holds
<1>4. StepInv /\ NoLostWakeup /\ ReadersAfterWriter
  BY ThreadSets DEF Init, StepInv, NoLostWakeup, ReadersAfterWriter
<1>5. QED
  BY <1>1, <1>2, <1>3, <1>4 DEF IInv

(* The loops of ThreadHelper stay within the threads. *)
LEMMA LoopIndex ==
  ASSUME TypeOK, NEW label, NextOr(label)
  PROVE  midx' \in Threads /\ (mpc' = mpc \/ mpc' = label)
  BY RdwrAssumption DEF TypeOK, NextOr, Threads

(* What main creates is an idle thread that has its routine. *)
LEMMA CreateEffect ==
  ASSUME TypeOK, MainInv, CreateThread
  PROVE  /\ midx \in Threads /\ pc[midx] = "idle"
         /\ pc' = [pc EXCEPT ![midx] = "lock"]
<1>1. midx \in Threads /\ midx >= midx /\ mpc = "create"
  BY ThreadSets DEF TypeOK, CreateThread
<1>2. start_routines[midx] # "null"
  BY <1>1 DEF MainInv
<1>3. QED
  BY <1>1, <1>2 DEF CreateThread, MainInv, Fresh, Goto

(* Which thread is where: the labels of the writer are the writer's alone, *)
(* and the labels of the readers theirs.                                   *)
LEMMA WhoIsWhere ==
  ASSUME TypeOK, NEW t \in Threads
  PROVE  /\ pc[t] \in {"wrlock", "advance", "broadcast", "unlock"} => t = Writer
         /\ pc[t] \in {"test", "wait", "rdlock"} => t \in Readers
  BY ThreadSets DEF TypeOK, WriterPCs, ReaderPCs

(* Lock and Work branch by routine, and the routine is that of the number. *)
LEMMA RoutineOf ==
  ASSUME TypeOK, MainInv, NEW t \in Threads, pc[t] # "idle"
  PROVE  start_routines[t] = "writer" <=> t = Writer
<1>1. mpc # "routines"
  BY DEF MainInv, Fresh
<1>2. QED
  BY <1>1 DEF MainInv

(* What a step of a thread does to the program counters, by routine. *)
LEMMA ThreadMoves ==
  ASSUME TypeOK, MainInv, NEW t \in Threads
  PROVE  /\ Lock(t) => pc' = [pc EXCEPT ![t] = IF t = Writer THEN "wrlock" ELSE "test"]
         /\ Work(t) => pc' = [pc EXCEPT ![t] = IF t = Writer THEN "advance" ELSE "rwunlock"]
         /\ writer_thread(t) => t = Writer
         /\ reader_thread(t) \/ SpuriousWake(t) => t \in Readers
<1>1. Lock(t) => pc' = [pc EXCEPT ![t] = IF t = Writer THEN "wrlock" ELSE "test"]
  BY RoutineOf DEF Lock, Goto
<1>2. Work(t) => pc' = [pc EXCEPT ![t] = IF t = Writer THEN "advance" ELSE "rwunlock"]
  BY RoutineOf DEF Work, Goto
<1>3. writer_thread(t) => t = Writer
  BY WhoIsWhere DEF writer_thread, WrLock, Advance, Broadcast, Unlock
<1>4. reader_thread(t) \/ SpuriousWake(t) => t \in Readers
  BY WhoIsWhere DEF reader_thread, TestStep, RdLock, SpuriousWake
<1>5. QED
  BY <1>1, <1>2, <1>3, <1>4

(* Every step keeps the variables in their types. *)
LEMMA TypeStep ==
  ASSUME TypeOK, MainInv, LockInv, StepInv, [Next]_vars
  PROVE  TypeOK'
<1> USE ThreadSets DEF TypeOK, WriterPCs, ReaderPCs, mainVars
<1>1. CASE SetRoutines
  BY <1>1 DEF SetRoutines, setRoutine
<1>2. CASE CreateThread
  <2>1. midx' \in Threads /\ mpc' \in {"create", "join"}
    BY <1>2, LoopIndex DEF CreateThread
  <2>2. QED
    BY <1>2, <2>1, CreateEffect DEF CreateThread
<1>3. CASE JoinThread
  <2>1. midx' \in Threads /\ mpc' \in {"join", "destroy"}
    BY <1>3, LoopIndex DEF JoinThread
  <2>2. QED
    BY <1>3, <2>1 DEF JoinThread
<1>4. CASE DestroyLocks
  BY <1>4 DEF DestroyLocks
<1>5. ASSUME NEW t \in Threads, Lock(t) \/ Work(t)
      PROVE  TypeOK'
  <2>1. CASE t = Writer
    <3>1. pc' = [pc EXCEPT ![Writer] = "wrlock"] \/ pc' = [pc EXCEPT ![Writer] = "advance"]
      BY <1>5, <2>1, ThreadMoves
    <3>2. QED
      BY <1>5, <3>1 DEF Lock, Work
  <2>2. CASE t # Writer
    <3>1. pc' = [pc EXCEPT ![t] = "test"] \/ pc' = [pc EXCEPT ![t] = "rwunlock"]
      BY <1>5, <2>2, ThreadMoves
    <3>2. CASE Lock(t)
      BY <2>2, <3>1, <3>2 DEF Lock
    <3>3. CASE Work(t)
      BY <2>2, <3>1, <3>3 DEF Work
    <3>4. QED
      BY <1>5, <3>2, <3>3
  <2>3. QED
    BY <2>1, <2>2
<1>6. ASSUME NEW t \in Threads, rwUnlock(t)
      PROVE  TypeOK'
  BY <1>6 DEF rwUnlock, Goto
<1>7. ASSUME NEW t \in Threads, WrLock(t) \/ Advance(t) \/ Unlock(t)
      PROVE  TypeOK'
  <2>1. t = Writer
    BY <1>7, ThreadMoves DEF writer_thread
  <2>2. Advance(t) => g_flow_step' \in {0, 1}
    BY <2>1 DEF Advance, StepInv
  <2>3. QED
    BY <1>7, <2>1, <2>2 DEF WrLock, Advance, Unlock, Goto
<1>8. ASSUME NEW t \in Threads, Broadcast(t)
      PROVE  TypeOK'
  <2>1. t = Writer
    BY <1>8, ThreadMoves DEF writer_thread
  <2>2. QED
    BY <1>8, <2>1 DEF Broadcast
<1>9. ASSUME NEW t \in Threads, TestStep(t) \/ RdLock(t) \/ SpuriousWake(t)
      PROVE  TypeOK'
  <2>1. t \in Readers
    BY <1>9, ThreadMoves DEF reader_thread
  <2>2. SpuriousWake(t) => spurious' \in 0 .. MaxSpurious
    BY RdwrAssumption DEF SpuriousWake
  <2>3. CASE TestStep(t)
    BY <2>1, <2>3 DEF TestStep, Goto
  <2>4. CASE RdLock(t)
    BY <2>1, <2>4 DEF RdLock, Goto
  <2>5. CASE SpuriousWake(t)
    BY <2>1, <2>2, <2>5 DEF SpuriousWake, Goto
  <2>6. QED
    BY <1>9, <2>3, <2>4, <2>5
<1>10. CASE UNCHANGED vars
  BY <1>10 DEF vars
<1>11. QED
  BY <1>1, <1>2, <1>3, <1>4, <1>5, <1>6, <1>7, <1>8, <1>9, <1>10
     DEF Next, Main, Thread, writer_thread, reader_thread, Terminated

(* A thread that moves has been created and has not returned. *)
LEMMA ThreadFrame ==
  ASSUME TypeOK, NEW t \in Threads, Thread(t) \/ SpuriousWake(t)
  PROVE  /\ UNCHANGED mainVars
         /\ \A u \in Threads :
              pc'[u] = pc[u] \/ (pc[u] \notin {"idle", "exited"} /\ pc'[u] # "idle")
  BY DEF TypeOK, Thread, writer_thread, reader_thread, Lock, Work, rwUnlock, WrLock, Advance,
         Broadcast, Unlock, TestStep, RdLock, SpuriousWake, Goto, mainVars

(* setRoutine reaches every thread before create() does. *)
LEMMA MainStep ==
  ASSUME TypeOK, MainInv, [Next]_vars
  PROVE  MainInv'
<1> DEFINE Ends(t) ==
      /\ pc[t] = "idle" <=> Fresh(t)
      /\ mpc = "join" /\ t < midx => pc[t] = "exited"
      /\ mpc \in {"destroy", "done"} => pc[t] = "exited"
    Routines ==
      mpc # "routines" =>
        \A t \in Threads : start_routines[t] = IF t = Writer THEN "writer" ELSE "reader"
<1>0. /\ mpc = "done" <=> ~alive
      /\ mpc = "routines" => midx = 0
      /\ Routines
      /\ \A t \in Threads : Ends(t)
  BY DEF MainInv
<1>1. CASE SetRoutines
  <2>1. mpc = "routines" /\ mpc' = "create" /\ midx = 0 /\ midx' = 0 /\ pc' = pc /\ alive' = alive
    BY <1>0, <1>1 DEF SetRoutines
  <2>2. \A t \in Threads : t > 0 <=> t # Writer
    BY ThreadSets
  <2>3. Routines'
    BY <1>1, <2>2, ThreadSets DEF SetRoutines, setRoutine
  <2>4. \A t \in Threads : Fresh(t) /\ Fresh(t)'
    BY <2>1 DEF Fresh, Threads
  <2>5. \A t \in Threads : Ends(t)'
    BY <1>0, <2>1, <2>4
  <2>6. QED
    BY <1>0, <2>1, <2>3, <2>5 DEF MainInv
<1>2. CASE CreateThread
  <2>1. /\ mpc = "create" /\ mpc' \in {"create", "join"}
        /\ alive' = alive /\ start_routines' = start_routines
    BY <1>2 DEF CreateThread, NextOr
  <2>2. ASSUME NEW u \in Threads
        PROVE  Ends(u)'
    <3>1. pc'[u] = IF u = midx THEN "lock" ELSE pc[u]
      BY <1>2, CreateEffect DEF TypeOK
    <3>2. Fresh(u)' <=> Fresh(u) /\ u # midx
      BY <1>2, RdwrAssumption DEF CreateThread, NextOr, Fresh, TypeOK, Threads
    <3>3. ~(mpc' = "join" /\ u < midx')
      BY <1>2 DEF CreateThread, NextOr, Threads
    <3>4. QED
      BY <1>0, <2>1, <3>1, <3>2, <3>3
  <2>3. QED
    BY <1>0, <2>1, <2>2 DEF MainInv
<1>3. CASE JoinThread
  <2>1. /\ mpc = "join" /\ mpc' \in {"join", "destroy"} /\ pc' = pc /\ pc[midx] = "exited"
        /\ alive' = alive /\ start_routines' = start_routines
    BY <1>3 DEF JoinThread, NextOr
  <2>2. ASSUME NEW u \in Threads
        PROVE  Ends(u)'
    <3>1. ~Fresh(u) /\ ~Fresh(u)'
      BY <2>1 DEF Fresh
    <3>2. mpc' = "join" /\ u < midx' => u < midx \/ u = midx
      BY <1>3 DEF JoinThread, NextOr, TypeOK, Threads
    <3>3. mpc' = "destroy" => u < midx \/ u = midx
      BY <1>3, RdwrAssumption DEF JoinThread, NextOr, TypeOK, Threads
    <3>4. QED
      BY <1>0, <2>1, <3>1, <3>2, <3>3
  <2>3. QED
    BY <1>0, <2>1, <2>2 DEF MainInv
<1>4. CASE DestroyLocks
  <2>1. /\ mpc = "destroy" /\ mpc' = "done" /\ ~alive' /\ pc' = pc
        /\ start_routines' = start_routines
    BY <1>4 DEF DestroyLocks
  <2>2. ASSUME NEW u \in Threads
        PROVE  Ends(u)'
    BY <1>0, <2>1 DEF Fresh
  <2>3. QED
    BY <1>0, <2>1, <2>2 DEF MainInv
<1>5. ASSUME NEW t \in Threads, Thread(t) \/ SpuriousWake(t)
      PROVE  MainInv'
  <2>1. /\ mpc' = mpc /\ midx' = midx /\ alive' = alive /\ start_routines' = start_routines
        /\ \A u \in Threads :
             pc'[u] = pc[u] \/ (pc[u] \notin {"idle", "exited"} /\ pc'[u] # "idle")
    BY <1>5, ThreadFrame DEF mainVars
  <2>2. \A u \in Threads : Fresh(u)' <=> Fresh(u)
    BY <2>1 DEF Fresh
  <2>3. \A u \in Threads : Ends(u)'
    BY <1>0, <2>1, <2>2
  <2>4. QED
    BY <1>0, <2>1, <2>3 DEF MainInv
<1>6. CASE UNCHANGED vars
  BY <1>6 DEF vars, MainInv, Fresh
<1>7. QED
  BY <1>1, <1>2, <1>3, <1>4, <1>5, <1>6 DEF Next, Main, Terminated

(* Every lock belongs to the threads between its acquisition and release,  *)
(* although the writer releases the two of them in the order of taking.    *)
LEMMA LockStep ==
  ASSUME TypeOK, MainInv, LockInv, [Next]_vars
  PROVE  LockInv'
<1> USE ThreadSets DEF LockInv, Holds, TypeOK
<1>1. CASE SetRoutines \/ JoinThread \/ DestroyLocks \/ UNCHANGED vars
  BY <1>1 DEF SetRoutines, JoinThread, DestroyLocks, vars
<1>2. CASE CreateThread
  BY <1>2, CreateEffect DEF CreateThread
<1>3. ASSUME NEW t \in Threads, Lock(t) \/ Work(t)
      PROVE  LockInv'
  BY <1>3, ThreadMoves DEF Lock, Work
<1>4. ASSUME NEW t \in Threads, rwUnlock(t)
      PROVE  LockInv'
  BY <1>4 DEF rwUnlock, Goto
<1>5. ASSUME NEW t \in Threads, WrLock(t) \/ Advance(t) \/ Unlock(t)
      PROVE  LockInv'
  <2>1. t = Writer
    BY <1>5, ThreadMoves DEF writer_thread
  <2>2. QED
    BY <1>5, <2>1 DEF WrLock, Advance, Unlock, Goto
<1>6. ASSUME NEW t \in Threads, Broadcast(t)
      PROVE  LockInv'
  <2>1. t = Writer
    BY <1>6, ThreadMoves DEF writer_thread
  <2>2. QED
    BY <1>6, <2>1 DEF Broadcast
<1>7. ASSUME NEW t \in Threads, TestStep(t) \/ RdLock(t) \/ SpuriousWake(t)
      PROVE  LockInv'
  <2>1. t \in Readers
    BY <1>7, ThreadMoves DEF reader_thread
  <2>2. QED
    BY <1>7, <2>1 DEF TestStep, RdLock, SpuriousWake, Goto
<1>8. QED
  BY <1>1, <1>2, <1>3, <1>4, <1>5, <1>6, <1>7
     DEF Next, Main, Thread, writer_thread, reader_thread, Terminated

(* The step is raised once, and readers pass their loop behind it; a       *)
(* reader that passes the read lock finds the writer gone.                 *)
LEMMA OrderStep ==
  ASSUME TypeOK, MainInv, LockInv, StepInv, NoLostWakeup, ReadersAfterWriter, [Next]_vars
  PROVE  StepInv' /\ NoLostWakeup' /\ ReadersAfterWriter'
<1> USE ThreadSets DEF StepInv, NoLostWakeup, ReadersAfterWriter, TypeOK
<1>1. CASE SetRoutines \/ JoinThread \/ DestroyLocks \/ UNCHANGED vars
  BY <1>1 DEF SetRoutines, JoinThread, DestroyLocks, vars
<1>2. CASE CreateThread
  BY <1>2, CreateEffect DEF CreateThread
<1>3. ASSUME NEW t \in Threads, Lock(t) \/ Work(t)
      PROVE  StepInv' /\ NoLostWakeup' /\ ReadersAfterWriter'
  BY <1>3, ThreadMoves DEF Lock, Work
<1>4. ASSUME NEW t \in Threads, rwUnlock(t)
      PROVE  StepInv' /\ NoLostWakeup' /\ ReadersAfterWriter'
  BY <1>4 DEF rwUnlock, Goto
<1>5. ASSUME NEW t \in Threads, WrLock(t) \/ Advance(t) \/ Unlock(t)
      PROVE  StepInv' /\ NoLostWakeup' /\ ReadersAfterWriter'
  <2>1. t = Writer
    BY <1>5, ThreadMoves DEF writer_thread
  <2>2. \A u \in Readers : pc'[u] = pc[u]
    BY <1>5, <2>1 DEF WrLock, Advance, Unlock, Goto
  <2>3. \A u \in Readers : Unlock(t) => pc[u] # "wait"
    BY <2>1 DEF Unlock
  <2>4. QED
    BY <1>5, <2>1, <2>2, <2>3 DEF WrLock, Advance, Unlock, Goto
<1>6. ASSUME NEW t \in Threads, Broadcast(t)
      PROVE  StepInv' /\ NoLostWakeup' /\ ReadersAfterWriter'
  <2>1. t = Writer
    BY <1>6, ThreadMoves DEF writer_thread
  <2>2. QED
    BY <1>6, <2>1 DEF Broadcast
<1>7. ASSUME NEW t \in Threads, TestStep(t) \/ SpuriousWake(t)
      PROVE  StepInv' /\ NoLostWakeup' /\ ReadersAfterWriter'
  <2>1. t \in Readers
    BY <1>7, ThreadMoves DEF reader_thread
  <2>2. QED
    BY <1>7, <2>1 DEF TestStep, SpuriousWake, Goto
<1>8. ASSUME NEW t \in Threads, RdLock(t)
      PROVE  StepInv' /\ NoLostWakeup' /\ ReadersAfterWriter'
  <2>1. t \in Readers
    BY <1>8, ThreadMoves DEF reader_thread
  <2>2. pc[Writer] = "exited"
    BY <1>8, <2>1 DEF RdLock, LockInv
  <2>3. QED
    BY <1>8, <2>1, <2>2 DEF RdLock, Goto
<1>9. QED
  BY <1>1, <1>2, <1>3, <1>4, <1>5, <1>6, <1>7, <1>8
     DEF Next, Main, Thread, writer_thread, reader_thread, Terminated

(* The inductive invariant holds in every reachable state. *)
LEMMA Inductive == Spec => []IInv
<1>1. IInv /\ [Next]_vars => IInv'
  BY TypeStep, MainStep, LockStep, OrderStep DEF IInv
<1>2. QED
  BY InitIInv, <1>1, PTL DEF Spec

-----------------------------------------------------------------------------

(* Variables stay in their types, writer and readers at the labels of      *)
(* their own routines, and no thread is started without a routine.         *)
THEOREM TypeCorrect == Spec => []TypeOK
  BY Inductive, PTL DEF IInv

(* Readers work only after the writer has left its last unlock, although   *)
(* it frees the mutex before the write lock.                               *)
THEOREM WriterFirst == Spec => []ReadersAfterWriter
  BY Inductive, PTL DEF IInv

(* No reader sleeps through the writer's only broadcast. *)
THEOREM WakeupSafe == Spec => []NoLostWakeup
  BY Inductive, PTL DEF IInv

(* The mutex and the read-write lock are free when main destroys them. *)
DestroyedFree == ~alive => g_flow_mutex = NoThread /\ rdLocks = {} /\ wrLock = NoThread

(* main destroys locks that nobody holds: every thread has been joined and *)
(* has released what it took on each of its paths.                         *)
THEOREM DestroyIsSafe == Spec => []DestroyedFree
<1>1. IInv => DestroyedFree
  <2> SUFFICES ASSUME IInv, ~alive
               PROVE  g_flow_mutex = NoThread /\ rdLocks = {} /\ wrLock = NoThread
    BY DEF DestroyedFree
  <2>1. \A t \in Threads : pc[t] = "exited"
    BY DEF IInv, MainInv
  <2>2. g_flow_mutex \notin Threads
    BY <2>1 DEF IInv, LockInv, Holds
  <2>3. wrLock # Writer /\ \A t \in Readers : t \notin rdLocks
    BY <2>1, ThreadSets DEF IInv, LockInv
  <2>4. QED
    BY <2>2, <2>3 DEF IInv, TypeOK
<1>2. QED
  BY Inductive, <1>1, PTL

=============================================================================
