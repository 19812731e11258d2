--------------------------- MODULE RdwrFlowProofs ---------------------------
(***************************************************************************)
(* Proofs about RdwrFlow for every number of threads, partitions,          *)
(* iterations and spurious wake-ups.  None of the properties is inductive  *)
(* by itself: IInv joins them with the facts about main's progress, the    *)
(* loop counters, mutex ownership and the turn.                            *)
(***************************************************************************)
EXTENDS RdwrFlow, TLAPS

(* The thread is between pthread_mutex_lock and pthread_mutex_unlock. *)
Holds(t) == pc[t] \in {"test", "read", "write", "advance", "broadcast", "unlock"}

(* Where main is determines which threads exist and which have returned. *)
MainInv ==
  /\ mpc \in {"create", "join"} => midx < NumThreads
  /\ mpc \in {"enable", "done"} => midx = 0
  /\ mpc = "enable" => phase = 1
  /\ \A t \in Threads :
       /\ Fresh(t) => pc[t] \in {"idle", "exited"}
       /\ ~Fresh(t) => pc[t] # "idle"
       /\ mpc = "join" /\ t < midx => pc[t] = "exited"
       /\ mpc \in {"enable", "done"} => pc[t] = "exited"

(* A thread has returned exactly when its iterations are used up. *)
LoopInv ==
  \A t \in Threads :
    pc[t] # "idle" =>
      /\ pc[t] = "exited" <=> i[t] = NumIterations
      /\ pc[t] = "exited" => part_idx[t] = 0

(* The mutex of a partition is owned by the thread inside, and only then. *)
MutexInv ==
  /\ \A t \in Threads : Holds(t) => flow_mutex[part_idx[t]] = t
  /\ \A p \in Partitions, t \in Threads :
       flow_mutex[p] = t => Holds(t) /\ part_idx[t] = p

(* A thread works only in its turn. *)
TurnInv ==
  \A t \in Threads :
    pc[t] \in {"read", "write", "advance"} => flow_step[part_idx[t]] = t

(* The value loaded by += is still current when it is stored back. *)
SeenInv ==
  \A t \in Threads : pc[t] = "write" => seen[t] = payload[part_idx[t]]

IInv ==
  /\ TypeOK
  /\ MainInv
  /\ LoopInv
  /\ MutexInv
  /\ TurnInv
  /\ NoLostWakeup
  /\ RoundRobin
  /\ SeenInv
  /\ NoLostUpdate

-----------------------------------------------------------------------------

(* What the modulo of incrFlowStep computes on a thread number. *)
LEMMA WrapStep ==
  ASSUME NEW n \in Nat \ {0}, NEW x \in 0 .. n - 1
  PROVE  (x + 1) % n = IF x + 1 = n THEN 0 ELSE x + 1
  OBVIOUS

(* incrFlowStep hands a partition to the next thread, or back to thread 0. *)
LEMMA NextTurn ==
  ASSUME NEW x \in Threads
  PROVE  /\ (x + 1) % NumThreads \in Threads
         /\ (x + 1) % NumThreads = IF x = NumThreads - 1 THEN 0 ELSE x + 1
  <1>1. (x + 1) % NumThreads = IF x + 1 = NumThreads THEN 0 ELSE x + 1
    BY FlowAssumption, WrapStep DEF Threads
  <1>2. QED
    BY <1>1, FlowAssumption DEF Threads

(* The inner loop of thread_rmw stays within the partitions. *)
LEMMA NextPartition ==
  ASSUME NEW p \in Partitions
  PROVE  /\ 0 \in Partitions
         /\ p + 1 < NumPartitions => p + 1 \in Partitions
  BY FlowAssumption DEF Partitions

(* A step of the benchmark keeps every variable in its type. *)
LEMMA TypeStep ==
  ASSUME TypeOK, MainInv, LoopInv, [Next]_vars
  PROVE  TypeOK'
<1> USE DEF TypeOK, PCs, mainVars
<1>1. CASE CreateThread
  <2>1. midx \in Threads /\ 0 \in Partitions /\ 0 \in 0 .. NumIterations
    BY <1>1, FlowAssumption DEF CreateThread, MainInv, Threads, Partitions
  <2>2. midx' \in 0 .. NumThreads /\ mpc' \in {"create", "join"}
    BY <1>1, FlowAssumption DEF CreateThread
  <2>3. LoopHead(0) \in PCs
    BY DEF LoopHead
  <2>4. QED
    BY <1>1, <2>1, <2>2, <2>3 DEF CreateThread
<1>2. CASE JoinThread
  <2>1. midx' \in 0 .. NumThreads
    BY <1>2, FlowAssumption DEF JoinThread
  <2>2. mpc' \in {"create", "join", "enable", "done"}
    BY <1>2 DEF JoinThread
  <2>3. QED
    BY <1>2, <2>1, <2>2 DEF JoinThread
<1>3. CASE EnableTimers
  BY <1>3 DEF EnableTimers
<1>4. ASSUME NEW t \in Threads, Lock(t)
      PROVE  TypeOK'
  BY <1>4 DEF Lock, Goto
<1>5. ASSUME NEW t \in Threads, TestTurn(t)
      PROVE  TypeOK'
  BY <1>5 DEF TestTurn, Goto
<1>6. ASSUME NEW t \in Threads, SpuriousWake(t)
      PROVE  TypeOK'
  <2>1. spurious' \in 0 .. MaxSpurious
    BY <1>6, FlowAssumption DEF SpuriousWake
  <2>2. QED
    BY <1>6, <2>1 DEF SpuriousWake, Goto
<1>7. ASSUME NEW t \in Threads, WorkRead(t)
      PROVE  TypeOK'
  BY <1>7 DEF WorkRead, Goto
<1>8. ASSUME NEW t \in Threads, WorkWrite(t)
      PROVE  TypeOK'
  <2>1. seen[t] + 1 \in Nat /\ laps[t] + 1 \in Nat
    OBVIOUS
  <2>2. QED
    BY <1>8, <2>1 DEF WorkWrite, EndTimer, Goto
<1>9. ASSUME NEW t \in Threads, Advance(t)
      PROVE  TypeOK'
  <2>1. flow_step[part_idx[t]] \in Threads
    OBVIOUS
  <2>2. (flow_step[part_idx[t]] + 1) % NumThreads \in Threads
    BY <2>1, NextTurn
  <2>3. QED
    BY <1>9, <2>2 DEF Advance, incrFlowStep, Goto
<1>10. ASSUME NEW t \in Threads, Broadcast(t)
       PROVE  TypeOK'
  BY <1>10 DEF Broadcast
<1>11. ASSUME NEW t \in Threads, Unlock(t)
       PROVE  TypeOK'
  <2>1. i[t] + 1 \in 0 .. NumIterations
    <3>1. i[t] \in 0 .. NumIterations /\ i[t] # NumIterations
      BY <1>11 DEF Unlock, LoopInv
    <3>2. QED
      BY <3>1, FlowAssumption
  <2>2. part_idx[t] \in Partitions
    OBVIOUS
  <2>3. 0 \in Partitions /\ (part_idx[t] + 1 < NumPartitions => part_idx[t] + 1 \in Partitions)
    BY <2>2, NextPartition
  <2>4. LoopHead(i[t] + 1) \in PCs
    BY DEF LoopHead
  <2>5. QED
    BY <1>11, <2>1, <2>2, <2>3, <2>4 DEF Unlock, Goto
<1>12. CASE UNCHANGED vars
  BY <1>12 DEF vars
<1>13. QED
  BY <1>1, <1>2, <1>3, <1>4, <1>5, <1>6, <1>7, <1>8, <1>9, <1>10, <1>11, <1>12
     DEF Next, Main, thread_rmw, Terminated

(* Only a thread that main has created and that has not returned moves. *)
LEMMA ActorNotFresh ==
  ASSUME TypeOK, MainInv, NEW t \in Threads, pc[t] # "idle", pc[t] # "exited"
  PROVE  ~Fresh(t) /\ mpc \in {"create", "join"}
  BY DEF TypeOK, MainInv

(* Fresh is main's business: only CreateThread and EnableTimers change it. *)
LEMMA FreshStep ==
  ASSUME TypeOK, MainInv, NEW u \in Threads
  PROVE  /\ CreateThread /\ u = midx => Fresh(u) /\ ~Fresh(u)'
         /\ CreateThread /\ u # midx => (Fresh(u)' <=> Fresh(u))
         /\ JoinThread => ~Fresh(u) /\ ~Fresh(u)'
         /\ EnableTimers => ~Fresh(u) /\ Fresh(u)'
  <1>1. u \in 0 .. NumThreads - 1 /\ midx \in 0 .. NumThreads
    BY DEF TypeOK, Threads
  <1>2. CreateThread /\ u = midx => Fresh(u) /\ ~Fresh(u)'
    BY <1>1, FlowAssumption DEF CreateThread, Fresh
  <1>3. CreateThread /\ u # midx => (Fresh(u)' <=> Fresh(u))
    BY <1>1, FlowAssumption DEF CreateThread, Fresh
  <1>4. JoinThread => ~Fresh(u) /\ ~Fresh(u)'
    BY DEF JoinThread, Fresh
  <1>5. EnableTimers => ~Fresh(u) /\ Fresh(u)'
    BY <1>1 DEF EnableTimers, Fresh, MainInv
  <1>6. QED
    BY <1>2, <1>3, <1>4, <1>5

(* ThreadHelper::create and ::join leave no thread behind. *)
LEMMA MainStep ==
  ASSUME TypeOK, MainInv, LoopInv, [Next]_vars
  PROVE  MainInv'
<1> DEFINE Exits ==
      \A t \in Threads :
        /\ Fresh(t) => pc[t] \in {"idle", "exited"}
        /\ ~Fresh(t) => pc[t] # "idle"
        /\ mpc = "join" /\ t < midx => pc[t] = "exited"
        /\ mpc \in {"enable", "done"} => pc[t] = "exited"
<1>0. Exits
  BY DEF MainInv
<1>1. CASE CreateThread
  <2>1. /\ mpc' \in {"create", "join"} => midx' < NumThreads
        /\ mpc' \in {"create", "join"}
    BY <1>1, FlowAssumption DEF CreateThread, TypeOK
  <2>2. ASSUME NEW u \in Threads
        PROVE  /\ Fresh(u)' => pc[u]' \in {"idle", "exited"}
               /\ ~Fresh(u)' => pc[u]' # "idle"
               /\ ~(mpc' = "join" /\ u < midx')
    <3>1. pc[u]' = IF u = midx THEN LoopHead(0) ELSE pc[u]
      BY <1>1, <2>2 DEF CreateThread, TypeOK
    <3>2. LoopHead(0) # "idle"
      BY DEF LoopHead
    <3>3. ~(mpc' = "join" /\ u < midx')
      BY <1>1, <2>2 DEF CreateThread, TypeOK, Threads
    <3>4. QED
      BY <1>0, <1>1, <3>1, <3>2, <3>3, FreshStep
  <2>3. QED
    BY <2>1, <2>2 DEF MainInv
<1>2. CASE JoinThread
  <2>1. /\ mpc' \in {"create", "join"} => midx' < NumThreads
        /\ mpc' \in {"enable", "done"} => midx' = 0
        /\ mpc' = "enable" => phase' = 1
    BY <1>2, FlowAssumption DEF JoinThread, TypeOK
  <2>2. ASSUME NEW u \in Threads
        PROVE  /\ mpc' = "join" /\ u < midx' => pc[u] = "exited"
               /\ mpc' \in {"enable", "done"} => pc[u] = "exited"
    <3>1. mpc = "join" /\ (u < midx => pc[u] = "exited") /\ pc[midx] = "exited"
      BY <1>0, <1>2 DEF JoinThread
    <3>2. mpc' = "join" /\ u < midx' => u <= midx
      BY <1>2 DEF JoinThread, TypeOK, Threads
    <3>3. mpc' \in {"enable", "done"} => u <= midx
      BY <1>2, FlowAssumption DEF JoinThread, TypeOK, Threads
    <3>4. u <= midx => u < midx \/ u = midx
      BY DEF TypeOK, Threads
    <3>5. QED
      BY <3>1, <3>2, <3>3, <3>4
  <2>3. pc' = pc
    BY <1>2 DEF JoinThread
  <2>4. QED
    BY <1>0, <1>2, <2>1, <2>2, <2>3, FreshStep DEF MainInv
<1>3. CASE EnableTimers
  <2>1. mpc' = "create" /\ midx' = 0 /\ 0 < NumThreads /\ pc' = pc
    BY <1>3, FlowAssumption DEF EnableTimers, MainInv
  <2>2. \A u \in Threads : pc[u] = "exited"
    BY <1>0, <1>3 DEF EnableTimers
  <2>3. \A u \in Threads : Fresh(u)'
    BY <1>3, FreshStep
  <2>4. QED
    BY <2>1, <2>2, <2>3 DEF MainInv
<1>4. ASSUME NEW t \in Threads, thread_rmw(t) \/ SpuriousWake(t)
      PROVE  MainInv'
  <2>1. UNCHANGED mainVars /\ pc[t] \notin {"idle", "exited"}
    BY <1>4 DEF thread_rmw, Lock, TestTurn, WorkRead, WorkWrite, Advance, Broadcast,
                Unlock, SpuriousWake
  <2>2. \A u \in Threads : pc[u]' = pc[u] \/ (pc[u]' # "idle" /\ pc[u] \notin {"idle", "exited"})
    BY <1>4 DEF thread_rmw, Lock, TestTurn, WorkRead, WorkWrite, Advance, Broadcast,
                Unlock, SpuriousWake, Goto, LoopHead, Waiting, TypeOK
  <2>3. \A u \in Threads : Fresh(u)' <=> Fresh(u)
    BY <2>1 DEF mainVars, Fresh
  <2>4. Exits'
    BY <1>0, <2>1, <2>2, <2>3 DEF mainVars
  <2>5. QED
    BY <2>1, <2>4 DEF MainInv, mainVars
<1>5. CASE UNCHANGED vars
  BY <1>5 DEF vars, MainInv, Fresh
<1>6. QED
  BY <1>1, <1>2, <1>3, <1>4, <1>5 DEF Next, Main, Terminated

(* The loop counters of thread_rmw: returning means no iteration is left. *)
LEMMA LoopStep ==
  ASSUME TypeOK, MainInv, LoopInv, [Next]_vars
  PROVE  LoopInv'
<1> DEFINE LoopOK(u) ==
      pc[u] # "idle" =>
        /\ pc[u] = "exited" <=> i[u] = NumIterations
        /\ pc[u] = "exited" => part_idx[u] = 0
<1>0. \A u \in Threads : LoopOK(u)
  BY DEF LoopInv
<1>1. CASE CreateThread
  <2>1. ASSUME NEW u \in Threads
        PROVE  LoopOK(u)'
    <3>1. /\ pc[u]' = IF u = midx THEN LoopHead(0) ELSE pc[u]
          /\ i[u]' = IF u = midx THEN 0 ELSE i[u]
          /\ part_idx[u]' = IF u = midx THEN 0 ELSE part_idx[u]
      BY <1>1 DEF CreateThread, TypeOK
    <3>2. LoopHead(0) = "exited" <=> 0 = NumIterations
      BY FlowAssumption DEF LoopHead
    <3>3. QED
      BY <1>0, <3>1, <3>2
  <2>2. QED
    BY <2>1 DEF LoopInv
<1>2. ASSUME NEW t \in Threads, Unlock(t)
      PROVE  LoopInv'
  <2>1. i[t] \in 0 .. NumIterations /\ i[t] # NumIterations
    BY <1>0, <1>2 DEF Unlock, TypeOK
  <2>2. LoopHead(i[t] + 1) = "exited" <=> i[t] + 1 = NumIterations
    BY <2>1, FlowAssumption DEF LoopHead
  <2>3. LoopOK(t)'
    BY <1>0, <1>2, <2>1, <2>2 DEF Unlock, Goto, TypeOK
  <2>4. ASSUME NEW u \in Threads, u # t
        PROVE  LoopOK(u)'
    <3>1. pc[u]' = pc[u] /\ i[u]' = i[u] /\ part_idx[u]' = part_idx[u]
      BY <1>2, <2>4 DEF Unlock, Goto, TypeOK
    <3>2. QED
      BY <1>0, <3>1
  <2>5. QED
    BY <2>3, <2>4 DEF LoopInv
<1>3. ASSUME NEW t \in Threads,
             \/ Lock(t) \/ TestTurn(t) \/ WorkRead(t) \/ WorkWrite(t)
             \/ Advance(t) \/ Broadcast(t) \/ SpuriousWake(t)
      PROVE  LoopInv'
  <2>1. /\ i' = i /\ part_idx' = part_idx
        /\ \A u \in Threads : pc[u]' = pc[u] \/ (pc[u] \notin {"idle", "exited"} /\ pc[u]' \notin {"idle", "exited"})
    BY <1>3 DEF Lock, TestTurn, WorkRead, WorkWrite, Advance, Broadcast,
                SpuriousWake, Goto, Waiting, TypeOK
  <2>2. QED
    BY <1>0, <2>1 DEF LoopInv
<1>4. CASE JoinThread \/ EnableTimers \/ UNCHANGED vars
  BY <1>4 DEF JoinThread, EnableTimers, vars, LoopInv
<1>5. QED
  BY <1>1, <1>2, <1>3, <1>4 DEF Next, Main, thread_rmw, Terminated

(* Mutual exclusion on a partition. *)
LEMMA MutexStep ==
  ASSUME TypeOK, MainInv, MutexInv, [Next]_vars
  PROVE  MutexInv'
<1>0. NoThread \notin Threads
  BY FlowAssumption DEF NoThread, Threads
<1> USE DEF MutexInv, Holds
<1>1. CASE CreateThread
  <2>1. LoopHead(0) \in {"lock", "exited"}
    BY DEF LoopHead
  <2>2. midx \in Threads
    BY <1>1, FlowAssumption DEF CreateThread, TypeOK, MainInv, Threads
  <2>3. pc[midx] \in {"idle", "exited"}
    BY <1>1, <2>2, FreshStep DEF MainInv
  <2>4. QED
    BY <1>1, <2>1, <2>2, <2>3 DEF CreateThread, TypeOK
<1>2. CASE JoinThread \/ EnableTimers \/ UNCHANGED vars
  BY <1>2 DEF JoinThread, EnableTimers, vars
<1>3. ASSUME NEW t \in Threads, Lock(t)
      PROVE  MutexInv'
  BY <1>0, <1>3 DEF Lock, Goto, TypeOK
<1>4. ASSUME NEW t \in Threads, TestTurn(t)
      PROVE  MutexInv'
  BY <1>0, <1>4 DEF TestTurn, Goto, TypeOK
<1>5. ASSUME NEW t \in Threads, WorkRead(t) \/ WorkWrite(t) \/ Advance(t) \/ SpuriousWake(t)
      PROVE  MutexInv'
  BY <1>5 DEF WorkRead, WorkWrite, Advance, SpuriousWake, Goto, TypeOK
<1>6. ASSUME NEW t \in Threads, Broadcast(t)
      PROVE  MutexInv'
  BY <1>6 DEF Broadcast, Waiting, TypeOK
<1>7. ASSUME NEW t \in Threads, Unlock(t)
      PROVE  MutexInv'
  <2>1. LoopHead(i[t] + 1) \in {"lock", "exited"}
    BY DEF LoopHead
  <2>2. \A u \in Threads : u # t => pc[u]' = pc[u] /\ part_idx[u]' = part_idx[u]
    BY <1>7 DEF Unlock, Goto, TypeOK
  <2>3. pc[t] = "unlock" /\ pc[t]' \in {"lock", "exited"}
    BY <1>7, <2>1 DEF Unlock, Goto, TypeOK
  <2>4. flow_mutex' = [flow_mutex EXCEPT ![part_idx[t]] = NoThread]
    BY <1>7 DEF Unlock
  <2>5. QED
    BY <1>0, <2>2, <2>3, <2>4 DEF TypeOK
<1>8. QED
  BY <1>1, <1>2, <1>3, <1>4, <1>5, <1>6, <1>7 DEF Next, Main, thread_rmw, Terminated

(* Two threads inside the same partition's mutex are the same thread. *)
LEMMA OneInside ==
  ASSUME MutexInv, NEW t \in Threads, NEW u \in Threads, Holds(t), Holds(u),
         part_idx[t] = part_idx[u]
  PROVE  t = u
  BY DEF MutexInv

(* A thread's turn lasts from the test to its own incrFlowStep. *)
LEMMA TurnStep ==
  ASSUME TypeOK, MainInv, MutexInv, TurnInv, [Next]_vars
  PROVE  TurnInv'
<1> USE DEF TurnInv
<1>1. CASE CreateThread
  BY <1>1 DEF CreateThread, LoopHead, TypeOK
<1>2. CASE JoinThread \/ EnableTimers \/ UNCHANGED vars
  BY <1>2 DEF JoinThread, EnableTimers, vars
<1>3. ASSUME NEW t \in Threads,
             \/ Lock(t) \/ TestTurn(t) \/ WorkRead(t) \/ WorkWrite(t)
             \/ Broadcast(t) \/ SpuriousWake(t)
      PROVE  TurnInv'
  BY <1>3 DEF Lock, TestTurn, WorkRead, WorkWrite, Broadcast, SpuriousWake,
              Goto, Waiting, TypeOK
<1>4. ASSUME NEW t \in Threads, Advance(t)
      PROVE  TurnInv'
  <2>1. /\ part_idx' = part_idx
        /\ \A u \in Threads : pc[u]' = IF u = t THEN "broadcast" ELSE pc[u]
        /\ \A p \in Partitions : p # part_idx[t] => flow_step[p]' = flow_step[p]
    BY <1>4 DEF Advance, incrFlowStep, Goto, TypeOK
  <2>2. ASSUME NEW u \in Threads, u # t, pc[u] \in {"read", "write", "advance"}
        PROVE  part_idx[u] # part_idx[t]
    BY <1>4, <2>2, OneInside DEF Holds, Advance
  <2>3. QED
    BY <2>1, <2>2 DEF TypeOK
<1>5. ASSUME NEW t \in Threads, Unlock(t)
      PROVE  TurnInv'
  BY <1>5 DEF Unlock, LoopHead, Goto, TypeOK
<1>6. QED
  BY <1>1, <1>2, <1>3, <1>4, <1>5 DEF Next, Main, thread_rmw, Terminated

(* Nobody else stores between the load and the store of a thread. *)
LEMMA SeenStep ==
  ASSUME TypeOK, MainInv, MutexInv, SeenInv, [Next]_vars
  PROVE  SeenInv'
<1> USE DEF SeenInv
<1>1. CASE CreateThread
  BY <1>1 DEF CreateThread, LoopHead, TypeOK
<1>2. CASE JoinThread \/ EnableTimers \/ UNCHANGED vars
  BY <1>2 DEF JoinThread, EnableTimers, vars
<1>3. ASSUME NEW t \in Threads,
             \/ Lock(t) \/ TestTurn(t) \/ WorkRead(t) \/ Advance(t)
             \/ Broadcast(t) \/ SpuriousWake(t)
      PROVE  SeenInv'
  BY <1>3 DEF Lock, TestTurn, WorkRead, Advance, Broadcast, SpuriousWake,
              Goto, Waiting, TypeOK
<1>4. ASSUME NEW t \in Threads, WorkWrite(t)
      PROVE  SeenInv'
  <2>1. /\ part_idx' = part_idx /\ seen' = seen
        /\ \A u \in Threads : pc[u]' = IF u = t THEN "advance" ELSE pc[u]
        /\ \A p \in Partitions : p # part_idx[t] => payload[p]' = payload[p]
    BY <1>4 DEF WorkWrite, Goto, TypeOK
  <2>2. ASSUME NEW u \in Threads, u # t, pc[u] = "write"
        PROVE  part_idx[u] # part_idx[t]
    BY <1>4, <2>2, OneInside DEF Holds, WorkWrite
  <2>3. QED
    BY <2>1, <2>2 DEF TypeOK
<1>5. ASSUME NEW t \in Threads, Unlock(t)
      PROVE  SeenInv'
  BY <1>5 DEF Unlock, LoopHead, Goto, TypeOK
<1>6. QED
  BY <1>1, <1>2, <1>3, <1>4, <1>5 DEF Next, Main, thread_rmw, Terminated

(* The broadcast reaches everyone whose turn has come. *)
LEMMA WakeupStep ==
  ASSUME TypeOK, MainInv, NoLostWakeup, [Next]_vars
  PROVE  NoLostWakeup'
<1> USE DEF NoLostWakeup
<1>1. CASE CreateThread
  <2>1. midx \in Threads
    BY <1>1, FlowAssumption DEF CreateThread, TypeOK, MainInv, Threads
  <2>2. pc[midx] \in {"idle", "exited"}
    BY <1>1, <2>1, FreshStep DEF MainInv
  <2>3. ASSUME NEW u \in Threads, pc[u]' = "wait", (flow_step[part_idx[u]] = u)'
        PROVE  \E v \in Threads : (pc[v] = "broadcast" /\ part_idx[v] = part_idx[u])'
    <3>1. u # midx /\ pc[u] = "wait" /\ flow_step[part_idx[u]] = u
      BY <1>1, <2>1, <2>3 DEF CreateThread, LoopHead, TypeOK
    <3>2. PICK v \in Threads : pc[v] = "broadcast" /\ part_idx[v] = part_idx[u]
      BY <3>1
    <3>3. QED
      BY <1>1, <2>2, <3>1, <3>2 DEF CreateThread, TypeOK
  <2>4. QED
    BY <2>3
<1>2. CASE JoinThread \/ EnableTimers \/ UNCHANGED vars
  BY <1>2 DEF JoinThread, EnableTimers, vars
<1>3. ASSUME NEW t \in Threads,
             \/ Lock(t) \/ TestTurn(t) \/ WorkRead(t) \/ WorkWrite(t)
             \/ SpuriousWake(t)
      PROVE  NoLostWakeup'
  BY <1>3 DEF Lock, TestTurn, WorkRead, WorkWrite, SpuriousWake, Goto, TypeOK
<1>4. ASSUME NEW t \in Threads, Advance(t)
      PROVE  NoLostWakeup'
  <2>1. /\ part_idx' = part_idx
        /\ \A u \in Threads : pc[u]' = IF u = t THEN "broadcast" ELSE pc[u]
        /\ \A p \in Partitions : p # part_idx[t] => flow_step[p]' = flow_step[p]
    BY <1>4 DEF Advance, incrFlowStep, Goto, TypeOK
  <2>2. QED
    BY <2>1 DEF TypeOK
<1>5. ASSUME NEW t \in Threads, Broadcast(t)
      PROVE  NoLostWakeup'
  <2>1. /\ part_idx' = part_idx /\ flow_step' = flow_step
        /\ \A u \in Threads : pc[u]' = "wait" => pc[u] = "wait" /\ part_idx[u] # part_idx[t]
        /\ \A u \in Threads : u # t /\ pc[u] = "broadcast" => pc[u]' = "broadcast"
    BY <1>5 DEF Broadcast, Waiting
  <2>2. QED
    BY <2>1
<1>6. ASSUME NEW t \in Threads, Unlock(t)
      PROVE  NoLostWakeup'
  <2>1. /\ flow_step' = flow_step
        /\ \A u \in Threads : u # t => pc[u]' = pc[u] /\ part_idx[u]' = part_idx[u]
        /\ pc[t] = "unlock" /\ pc[t]' # "wait"
    BY <1>6 DEF Unlock, LoopHead, Goto, TypeOK
  <2>2. ASSUME NEW u \in Threads, pc[u]' = "wait", (flow_step[part_idx[u]] = u)'
        PROVE  \E v \in Threads : (pc[v] = "broadcast" /\ part_idx[v] = part_idx[u])'
    <3>1. u # t /\ pc[u] = "wait" /\ flow_step[part_idx[u]] = u
      BY <2>1, <2>2
    <3>2. PICK v \in Threads : pc[v] = "broadcast" /\ part_idx[v] = part_idx[u]
      BY <3>1
    <3>3. v # t
      BY <2>1, <3>2
    <3>4. QED
      BY <2>1, <3>1, <3>2, <3>3
  <2>3. QED
    BY <2>2
<1>7. QED
  BY <1>1, <1>2, <1>3, <1>4, <1>5, <1>6 DEF Next, Main, thread_rmw, Terminated

(* incrFlowStep is the one step at which a visit counts; between the       *)
(* phases, every thread's count is complete and starts over.               *)
LEMMA DoneStep ==
  ASSUME TypeOK, MainInv, LoopInv, [Next]_vars, NEW u \in Threads, NEW p \in Partitions
  PROVE  /\ Done(u, p) \in Nat
         /\ EnableTimers => Done(u, p) = NumIterations /\ Done(u, p)' = 0
         /\ \A t \in Threads : Advance(t) =>
              Done(u, p)' = IF u = t /\ p = part_idx[t] THEN Done(u, p) + 1 ELSE Done(u, p)
         /\ ~EnableTimers /\ (\A t \in Threads : ~Advance(t)) => Done(u, p)' = Done(u, p)
<1>1. Done(u, p) \in Nat
  BY DEF Done, TypeOK
<1>2. ASSUME EnableTimers
      PROVE  Done(u, p) = NumIterations /\ Done(u, p)' = 0
  <2>1. pc[u] = "exited" /\ i[u] = NumIterations /\ part_idx[u] = 0
    BY <1>2 DEF EnableTimers, MainInv, LoopInv
  <2>2. ~Fresh(u) /\ Fresh(u)' /\ ~(p < 0)
    BY <1>2, FreshStep DEF Partitions
  <2>3. QED
    BY <2>1, <2>2 DEF Done
<1>3. ASSUME NEW t \in Threads, thread_rmw(t) \/ SpuriousWake(t)
      PROVE  ~Fresh(t) /\ ~Fresh(t)' /\ (Fresh(u)' <=> Fresh(u))
  <2>1. UNCHANGED mainVars /\ pc[t] \notin {"idle", "exited"}
    BY <1>3 DEF thread_rmw, Lock, TestTurn, WorkRead, WorkWrite, Advance, Broadcast,
                Unlock, SpuriousWake
  <2>2. QED
    BY <2>1, ActorNotFresh DEF mainVars, Fresh
<1>4. ASSUME NEW t \in Threads, Advance(t)
      PROVE  Done(u, p)' = IF u = t /\ p = part_idx[t] THEN Done(u, p) + 1 ELSE Done(u, p)
  <2>1. /\ i' = i /\ part_idx' = part_idx /\ pc[t] = "advance"
        /\ pc[u]' = IF u = t THEN "broadcast" ELSE pc[u]
    BY <1>4 DEF Advance, Goto, TypeOK
  <2>2. ~Fresh(t) /\ (Fresh(u)' <=> Fresh(u))
    BY <1>3, <1>4 DEF thread_rmw
  <2>3. p = part_idx[t] => ~(p < part_idx[t])
    BY DEF TypeOK, Partitions
  <2>4. QED
    BY <2>1, <2>2, <2>3 DEF Done
<1>5. ASSUME CreateThread
      PROVE  Done(u, p)' = Done(u, p)
  <2>1. ~(p < 0)
    BY DEF Partitions
  <2>2. CASE u = midx
    <3>1. pc[u]' \in {"lock", "exited"} /\ i[u]' = 0 /\ part_idx[u]' = 0
      BY <1>5, <2>2 DEF CreateThread, LoopHead, TypeOK
    <3>2. QED
      BY <1>5, <2>1, <2>2, <3>1, FreshStep DEF Done
  <2>3. CASE u # midx
    <3>1. pc[u]' = pc[u] /\ i[u]' = i[u] /\ part_idx[u]' = part_idx[u]
      BY <1>5, <2>3 DEF CreateThread, TypeOK
    <3>2. Fresh(u)' <=> Fresh(u)
      BY <1>5, <2>3, FreshStep
    <3>3. QED
      BY <3>1, <3>2 DEF Done
  <2>4. QED
    BY <2>2, <2>3
<1>6. ASSUME NEW t \in Threads,
             \/ Lock(t) \/ TestTurn(t) \/ WorkRead(t) \/ WorkWrite(t)
             \/ Broadcast(t) \/ SpuriousWake(t)
      PROVE  Done(u, p)' = Done(u, p)
  <2>1. /\ i' = i /\ part_idx' = part_idx
        /\ pc[u]' \in {"broadcast", "unlock"} <=> pc[u] \in {"broadcast", "unlock"}
    BY <1>6 DEF Lock, TestTurn, WorkRead, WorkWrite, Broadcast, SpuriousWake,
                Goto, Waiting, TypeOK
  <2>2. Fresh(u)' <=> Fresh(u)
    BY <1>3, <1>6 DEF thread_rmw
  <2>3. QED
    BY <2>1, <2>2 DEF Done
<1>7. ASSUME NEW t \in Threads, Unlock(t)
      PROVE  Done(u, p)' = Done(u, p)
  <2>1. ~Fresh(t) /\ ~Fresh(t)' /\ (Fresh(u)' <=> Fresh(u))
    BY <1>3, <1>7 DEF thread_rmw
  <2>2. CASE u # t
    <3>1. pc[u]' = pc[u] /\ i[u]' = i[u] /\ part_idx[u]' = part_idx[u]
      BY <1>7, <2>2 DEF Unlock, Goto, TypeOK
    <3>2. QED
      BY <2>1, <3>1 DEF Done
  <2>3. CASE u = t
    <3>1. pc[t] = "unlock" /\ pc[t]' \in {"lock", "exited"}
      BY <1>7 DEF Unlock, Goto, LoopHead, TypeOK
    <3>2. p \in 0 .. NumPartitions - 1 /\ part_idx[t] \in 0 .. NumPartitions - 1
      BY DEF TypeOK, Partitions
    <3>3. CASE part_idx[t] + 1 < NumPartitions
      <4>1. part_idx[t]' = part_idx[t] + 1 /\ i[t]' = i[t]
        BY <1>7, <3>3 DEF Unlock, TypeOK
      <4>2. QED
        BY <2>1, <2>3, <3>1, <3>2, <4>1 DEF Done
    <3>4. CASE ~(part_idx[t] + 1 < NumPartitions)
      <4>1. part_idx[t]' = 0 /\ i[t]' = i[t] + 1
        BY <1>7, <3>4 DEF Unlock, TypeOK
      <4>2. QED
        BY <2>1, <2>3, <3>1, <3>2, <3>4, <4>1, FlowAssumption DEF Done
    <3>5. QED
      BY <3>3, <3>4
  <2>4. QED
    BY <2>2, <2>3
<1>8. ASSUME JoinThread \/ UNCHANGED vars
      PROVE  Done(u, p)' = Done(u, p)
  <2>1. pc' = pc /\ i' = i /\ part_idx' = part_idx /\ (Fresh(u)' <=> Fresh(u))
    BY <1>8, FreshStep DEF JoinThread, vars, Fresh
  <2>2. QED
    BY <2>1 DEF Done
<1>9. QED
  BY <1>1, <1>2, <1>4, <1>5, <1>6, <1>7, <1>8 DEF Next, Main, thread_rmw, Terminated

(* Only incrFlowStep moves the step of a partition. *)
LEMMA FlowStepFrame ==
  ASSUME [Next]_vars, \A t \in Threads : ~Advance(t)
  PROVE  flow_step' = flow_step
  BY DEF Next, Main, CreateThread, JoinThread, EnableTimers, thread_rmw, Lock, TestTurn,
         WorkRead, WorkWrite, Broadcast, Unlock, SpuriousWake, Terminated, vars

(* What incrFlowStep does when a thread that is on turn executes it. *)
LEMMA AdvanceTurn ==
  ASSUME TypeOK, TurnInv, NEW t \in Threads, Advance(t), NEW p \in Partitions
  PROVE  /\ p # part_idx[t] => flow_step[p]' = flow_step[p]
         /\ p = part_idx[t] => /\ flow_step[p] = t
                               /\ flow_step[p]' = (t + 1) % NumThreads
                               /\ flow_step[p]' = IF t = NumThreads - 1 THEN 0 ELSE t + 1
<1>1. flow_step[part_idx[t]] = t
  BY DEF TurnInv, Advance
<1>2. flow_step' = [flow_step EXCEPT ![part_idx[t]] = (flow_step[part_idx[t]] + 1) % NumThreads]
  BY DEF Advance, incrFlowStep
<1>3. p = part_idx[t] => flow_step[p]' = (t + 1) % NumThreads
  BY <1>1, <1>2 DEF TypeOK
<1>4. p # part_idx[t] => flow_step[p]' = flow_step[p]
  BY <1>2 DEF TypeOK
<1>5. QED
  BY <1>1, <1>3, <1>4, NextTurn

(* The last thread of the ring. *)
LEMMA LastThread == NumThreads - 1 \in Threads
  BY FlowAssumption DEF Threads

(* Strict rotation is kept by every step. *)
LEMMA RoundRobinStep ==
  ASSUME TypeOK, MainInv, LoopInv, TurnInv, RoundRobin, [Next]_vars
  PROVE  RoundRobin'
<1> DEFINE Last == NumThreads - 1
<1> SUFFICES ASSUME NEW p \in Partitions, NEW u \in Threads
             PROVE  (Done(u, p) = Done(Last, p) + IF u < flow_step[p] THEN 1 ELSE 0)'
  BY DEF RoundRobin
<1>1. Done(u, p) = Done(Last, p) + IF u < flow_step[p] THEN 1 ELSE 0
  BY DEF RoundRobin
<1>2. Last \in Threads /\ Done(u, p) \in Nat /\ Done(Last, p) \in Nat
  BY LastThread, DoneStep
<1>3. ASSUME NEW t \in Threads, Advance(t)
      PROVE  (Done(u, p) = Done(Last, p) + IF u < flow_step[p] THEN 1 ELSE 0)'
  <2>1. /\ Done(u, p)' = IF u = t /\ p = part_idx[t] THEN Done(u, p) + 1 ELSE Done(u, p)
        /\ Done(Last, p)' = IF Last = t /\ p = part_idx[t] THEN Done(Last, p) + 1 ELSE Done(Last, p)
    BY <1>2, <1>3, DoneStep
  <2>2. CASE p # part_idx[t]
    BY <1>1, <1>3, <2>1, <2>2, AdvanceTurn
  <2>3. CASE p = part_idx[t]
    <3>1. flow_step[p] = t /\ flow_step[p]' = IF t = Last THEN 0 ELSE t + 1
      BY <1>3, <2>3, AdvanceTurn
    <3>2. t \in 0 .. Last /\ u \in 0 .. Last /\ Last \in Nat
      BY FlowAssumption DEF Threads
    <3>3. CASE t = Last
      BY <1>1, <1>2, <2>1, <2>3, <3>1, <3>2, <3>3
    <3>4. CASE t # Last
      BY <1>1, <1>2, <2>1, <2>3, <3>1, <3>2, <3>4
    <3>5. QED
      BY <3>3, <3>4
  <2>4. QED
    BY <2>2, <2>3
<1>4. CASE \A t \in Threads : ~Advance(t)
  <2>1. flow_step' = flow_step
    BY <1>4, FlowStepFrame
  <2>2. CASE EnableTimers
    <3>1. /\ Done(u, p) = NumIterations /\ Done(Last, p) = NumIterations
          /\ Done(u, p)' = 0 /\ Done(Last, p)' = 0
      BY <1>2, <2>2, DoneStep
    <3>2. ~(u < flow_step[p])
      BY <1>1, <3>1, FlowAssumption
    <3>3. QED
      BY <2>1, <3>1, <3>2
  <2>3. CASE ~EnableTimers
    <3>1. Done(u, p)' = Done(u, p) /\ Done(Last, p)' = Done(Last, p)
      BY <1>2, <1>4, <2>3, DoneStep
    <3>2. QED
      BY <1>1, <2>1, <3>1
  <2>4. QED
    BY <2>2, <2>3
<1>5. QED
  BY <1>3, <1>4

(* A finished round of NumThreads visits, and the first half of a run. *)
LEMMA RoundArith ==
  ASSUME NEW n \in Nat, NEW d \in Nat
  PROVE  n * (d + 1) = n * d + n
  OBVIOUS

(* The count over both phases moves with incrFlowStep alone: the reset of  *)
(* the loop counters between the phases is made up for by the phase.       *)
LEMMA TotalStep ==
  ASSUME TypeOK, MainInv, LoopInv, [Next]_vars, NEW u \in Threads, NEW p \in Partitions
  PROVE  /\ TotalDone(u, p) \in Nat
         /\ \A t \in Threads : Advance(t) =>
              TotalDone(u, p)' =
                IF u = t /\ p = part_idx[t] THEN TotalDone(u, p) + 1 ELSE TotalDone(u, p)
         /\ (\A t \in Threads : ~Advance(t)) => TotalDone(u, p)' = TotalDone(u, p)
<1>1. Done(u, p) \in Nat
  BY DoneStep
<1>2. phase = 1 \/ phase = 2
  BY DEF TypeOK
<1>3. phase = 1 => TotalDone(u, p) = Done(u, p)
  BY <1>1, FlowAssumption DEF TotalDone
<1>4. phase = 2 => TotalDone(u, p) = NumIterations + Done(u, p)
  BY <1>1, FlowAssumption DEF TotalDone
<1>5. ASSUME NEW t \in Threads, Advance(t)
      PROVE  TotalDone(u, p)' =
               IF u = t /\ p = part_idx[t] THEN TotalDone(u, p) + 1 ELSE TotalDone(u, p)
  <2>1. phase' = phase
    BY <1>5 DEF Advance, mainVars
  <2>2. Done(u, p)' = IF u = t /\ p = part_idx[t] THEN Done(u, p) + 1 ELSE Done(u, p)
    BY <1>5, DoneStep
  <2>3. TotalDone(u, p)' = (phase - 1) * NumIterations + Done(u, p)'
    BY <2>1 DEF TotalDone
  <2>4. CASE phase = 1
    BY <1>1, <1>3, <2>2, <2>3, <2>4, FlowAssumption
  <2>5. CASE phase = 2
    BY <1>1, <1>4, <2>2, <2>3, <2>5, FlowAssumption
  <2>6. QED
    BY <1>2, <2>4, <2>5
<1>6. ASSUME \A t \in Threads : ~Advance(t)
      PROVE  TotalDone(u, p)' = TotalDone(u, p)
  <2>1. CASE EnableTimers
    <3>1. phase = 1 /\ phase' = 2
      BY <2>1 DEF EnableTimers, MainInv
    <3>2. Done(u, p) = NumIterations /\ Done(u, p)' = 0
      BY <2>1, DoneStep
    <3>3. TotalDone(u, p)' = (phase' - 1) * NumIterations + Done(u, p)'
      BY DEF TotalDone
    <3>4. QED
      BY <1>3, <3>1, <3>2, <3>3, FlowAssumption
  <2>2. CASE ~EnableTimers
    <3>1. phase' = phase
      BY <2>2 DEF Next, Main, CreateThread, JoinThread, thread_rmw, Lock, TestTurn, WorkRead,
                  WorkWrite, Advance, Broadcast, Unlock, SpuriousWake, Terminated, vars, mainVars
    <3>2. Done(u, p)' = Done(u, p)
      BY <1>6, <2>2, DoneStep
    <3>3. QED
      BY <3>1, <3>2 DEF TotalDone
  <2>3. QED
    BY <2>1, <2>2
<1>7. TotalDone(u, p) \in Nat
  BY <1>1, <1>2, <1>3, <1>4, FlowAssumption
<1>8. QED
  BY <1>5, <1>6, <1>7

(* Storing and advancing: which steps change whether a partition has a     *)
(* store that its step counter does not know of yet, and its payload.      *)
LEMMA StoredStep ==
  ASSUME TypeOK, MainInv, MutexInv, SeenInv, [Next]_vars, NEW p \in Partitions
  PROVE  /\ \A t \in Threads : WorkWrite(t) /\ p = part_idx[t] =>
              ~Stored(p) /\ Stored(p)' /\ payload[p]' = payload[p] + 1
         /\ \A t \in Threads : Advance(t) /\ p = part_idx[t] =>
              Stored(p) /\ ~Stored(p)' /\ payload[p]' = payload[p]
         /\ (\A t \in Threads : ~((WorkWrite(t) \/ Advance(t)) /\ p = part_idx[t])) =>
              (Stored(p)' <=> Stored(p)) /\ payload[p]' = payload[p]
<1>1. ASSUME NEW t \in Threads, WorkWrite(t), p = part_idx[t]
      PROVE  ~Stored(p) /\ Stored(p)' /\ payload[p]' = payload[p] + 1
  <2>1. pc[t] = "write" /\ pc[t]' = "advance" /\ part_idx' = part_idx
    BY <1>1 DEF WorkWrite, Goto, TypeOK
  <2>2. payload[p]' = payload[p] + 1
    BY <1>1 DEF WorkWrite, SeenInv, TypeOK
  <2>3. ~Stored(p)
    <3>1. SUFFICES ASSUME NEW u \in Threads, pc[u] = "advance", part_idx[u] = p
                   PROVE  FALSE
      BY DEF Stored
    <3>2. u = t
      BY <1>1, <2>1, <3>1, OneInside DEF Holds
    <3>3. QED
      BY <2>1, <3>1, <3>2
  <2>4. Stored(p)'
    BY <1>1, <2>1 DEF Stored
  <2>5. QED
    BY <2>2, <2>3, <2>4
<1>2. ASSUME NEW t \in Threads, Advance(t), p = part_idx[t]
      PROVE  Stored(p) /\ ~Stored(p)' /\ payload[p]' = payload[p]
  <2>1. /\ pc[t] = "advance" /\ part_idx' = part_idx /\ payload' = payload
        /\ \A u \in Threads : pc[u]' = IF u = t THEN "broadcast" ELSE pc[u]
    BY <1>2 DEF Advance, Goto, TypeOK
  <2>2. ASSUME NEW u \in Threads, pc[u] = "advance", part_idx[u] = p
        PROVE  u = t
    BY <1>2, <2>1, <2>2, OneInside DEF Holds
  <2>3. Stored(p)
    BY <1>2, <2>1 DEF Stored
  <2>4. ~Stored(p)'
    BY <2>1, <2>2 DEF Stored
  <2>5. QED
    BY <2>1, <2>3, <2>4
<1>3. ASSUME \A t \in Threads : ~((WorkWrite(t) \/ Advance(t)) /\ p = part_idx[t])
      PROVE  (Stored(p)' <=> Stored(p)) /\ payload[p]' = payload[p]
  <2>1. CASE CreateThread
    <3>1. payload' = payload /\ midx \in Threads
      BY <2>1, FlowAssumption DEF CreateThread, TypeOK, MainInv, Threads
    <3>2. pc[midx] \in {"idle", "exited"}
      BY <2>1, <3>1, FreshStep DEF MainInv
    <3>3. \A u \in Threads : (pc[u] = "advance" /\ part_idx[u] = p)' <=> (pc[u] = "advance" /\ part_idx[u] = p)
      BY <2>1, <3>1, <3>2 DEF CreateThread, LoopHead, TypeOK
    <3>4. QED
      BY <3>1, <3>3 DEF Stored
  <2>2. CASE JoinThread \/ EnableTimers \/ UNCHANGED vars
    BY <2>2 DEF JoinThread, EnableTimers, vars, Stored
  <2>3. ASSUME NEW t \in Threads, thread_rmw(t) \/ SpuriousWake(t)
        PROVE  (Stored(p)' <=> Stored(p)) /\ payload[p]' = payload[p]
    <3>1. payload[p]' = payload[p]
      BY <1>3, <2>3 DEF thread_rmw, Lock, TestTurn, WorkRead, WorkWrite, Advance, Broadcast,
                  Unlock, SpuriousWake, TypeOK
    <3>2. \A u \in Threads : (pc[u] = "advance" /\ part_idx[u] = p)' <=> (pc[u] = "advance" /\ part_idx[u] = p)
      BY <1>3, <2>3 DEF thread_rmw, Lock, TestTurn, WorkRead, WorkWrite, Advance, Broadcast,
                  Unlock, SpuriousWake, Goto, LoopHead, Waiting, TypeOK
    <3>3. QED
      BY <3>1, <3>2 DEF Stored
  <2>4. QED
    BY <2>1, <2>2, <2>3 DEF Next, Main, Terminated
<1>4. QED
  BY <1>1, <1>2, <1>3

(* Every += of every visit is in the payload. *)
LEMMA UpdateStep ==
  ASSUME TypeOK, MainInv, LoopInv, MutexInv, TurnInv, SeenInv, NoLostUpdate, [Next]_vars
  PROVE  NoLostUpdate'
<1> DEFINE Last == NumThreads - 1
<1> SUFFICES ASSUME NEW p \in Partitions
             PROVE  (payload[p] = NumThreads * TotalDone(Last, p) + flow_step[p]
                                    + IF Stored(p) THEN 1 ELSE 0)'
  BY DEF NoLostUpdate
<1>1. payload[p] = NumThreads * TotalDone(Last, p) + flow_step[p] + IF Stored(p) THEN 1 ELSE 0
  BY DEF NoLostUpdate
<1>2. Last \in Threads /\ TotalDone(Last, p) \in Nat
  BY LastThread, TotalStep
<1>3. flow_step[p] \in 0 .. Last
  BY DEF TypeOK, Threads
<1>4. NumThreads \in Nat /\ NumThreads * TotalDone(Last, p) \in Nat
  BY <1>2, FlowAssumption
<1>5. ASSUME NEW t \in Threads, Advance(t)
      PROVE  (payload[p] = NumThreads * TotalDone(Last, p) + flow_step[p]
                             + IF Stored(p) THEN 1 ELSE 0)'
  <2>1. TotalDone(Last, p)' =
          IF Last = t /\ p = part_idx[t] THEN TotalDone(Last, p) + 1 ELSE TotalDone(Last, p)
    BY <1>2, <1>5, TotalStep
  <2>2. CASE p # part_idx[t]
    <3>1. \A u \in Threads : ~((WorkWrite(u) \/ Advance(u)) /\ p = part_idx[u])
      BY <1>5, <2>2 DEF WorkWrite, Advance, Goto, TypeOK
    <3>2. (Stored(p)' <=> Stored(p)) /\ payload[p]' = payload[p]
      BY <3>1, StoredStep
    <3>3. QED
      BY <1>1, <1>5, <2>1, <2>2, <3>2, AdvanceTurn
  <2>3. CASE p = part_idx[t]
    <3>1. Stored(p) /\ ~Stored(p)' /\ payload[p]' = payload[p]
      BY <1>5, <2>3, StoredStep
    <3>2. flow_step[p] = t /\ flow_step[p]' = IF t = Last THEN 0 ELSE t + 1
      BY <1>5, <2>3, AdvanceTurn
    <3>3. t \in Int
      BY DEF Threads
    <3>4. CASE t = Last
      <4>1. NumThreads * (TotalDone(Last, p) + 1) = NumThreads * TotalDone(Last, p) + NumThreads
        BY <1>2, <1>4, RoundArith
      <4>2. QED
        BY <1>1, <1>2, <1>4, <2>1, <2>3, <3>1, <3>2, <3>4, <4>1
    <3>5. CASE t # Last
      BY <1>1, <1>2, <1>4, <2>1, <3>1, <3>2, <3>3, <3>5
    <3>6. QED
      BY <3>4, <3>5
  <2>4. QED
    BY <2>2, <2>3
<1>6. CASE \A t \in Threads : ~Advance(t)
  <2>1. flow_step' = flow_step /\ TotalDone(Last, p)' = TotalDone(Last, p)
    BY <1>2, <1>6, FlowStepFrame, TotalStep
  <2>2. ASSUME NEW t \in Threads, WorkWrite(t), p = part_idx[t]
        PROVE  (payload[p] = NumThreads * TotalDone(Last, p) + flow_step[p]
                               + IF Stored(p) THEN 1 ELSE 0)'
    <3>1. ~Stored(p) /\ Stored(p)' /\ payload[p]' = payload[p] + 1
      BY <2>2, StoredStep
    <3>2. QED
      BY <1>1, <1>3, <1>4, <2>1, <3>1
  <2>3. CASE \A t \in Threads : ~(WorkWrite(t) /\ p = part_idx[t])
    <3>1. (Stored(p)' <=> Stored(p)) /\ payload[p]' = payload[p]
      BY <1>6, <2>3, StoredStep
    <3>2. QED
      BY <1>1, <2>1, <3>1
  <2>4. QED
    BY <2>2, <2>3
<1>7. QED
  BY <1>5, <1>6

-----------------------------------------------------------------------------

(* The inductive invariant holds when main starts. *)
LEMMA InitIInv == Init => IInv
<1> SUFFICES ASSUME Init
             PROVE  IInv
  OBVIOUS
<1>1. 0 \in Threads /\ 0 \in Partitions /\ NoThread \notin Threads /\ 0 \in 0 .. NumIterations
  BY FlowAssumption DEF Threads, Partitions, NoThread
<1>2. TypeOK
  <2>1. midx \in 0 .. NumThreads /\ spurious \in 0 .. MaxSpurious
    BY FlowAssumption DEF Init
  <2>2. timer_enabled \in BOOLEAN
    BY DEF Init
  <2>3. QED
    BY <1>1, <2>1, <2>2 DEF Init, TypeOK, PCs
<1>3. \A t \in Threads : Fresh(t)
  BY DEF Init, Fresh, Threads
<1>4. MainInv
  BY <1>3, FlowAssumption DEF Init, MainInv
<1>5. LoopInv /\ MutexInv /\ TurnInv /\ NoLostWakeup /\ SeenInv
  BY <1>1 DEF Init, LoopInv, MutexInv, TurnInv, NoLostWakeup, SeenInv, Holds
<1>6. \A t \in Threads, p \in Partitions : Done(t, p) = 0 /\ flow_step[p] = 0
  BY <1>3 DEF Init, Done
<1>7. RoundRobin
  <2>1. \A t \in Threads : ~(t < 0)
    BY DEF Threads
  <2>2. QED
    BY <1>6, <2>1, LastThread DEF RoundRobin
<1>8. NoLostUpdate
  <2>1. ASSUME NEW p \in Partitions
        PROVE  payload[p] = NumThreads * TotalDone(NumThreads - 1, p) + flow_step[p]
                              + IF Stored(p) THEN 1 ELSE 0
    <3>1. ~Stored(p) /\ payload[p] = 0
      BY DEF Init, Stored
    <3>2. TotalDone(NumThreads - 1, p) = 0
      BY <1>6, LastThread, FlowAssumption DEF Init, TotalDone
    <3>3. NumThreads * 0 = 0
      BY FlowAssumption
    <3>4. QED
      BY <1>1, <1>6, <3>1, <3>2, <3>3
  <2>2. QED
    BY <2>1 DEF NoLostUpdate
<1>9. QED
  BY <1>2, <1>4, <1>5, <1>7, <1>8 DEF IInv

(* Every step keeps the inductive invariant. *)
LEMMA NextIInv == IInv /\ [Next]_vars => IInv'
  BY TypeStep, MainStep, LoopStep, MutexStep, TurnStep, WakeupStep, RoundRobinStep,
     SeenStep, UpdateStep DEF IInv

(* The inductive invariant holds in every reachable state. *)
LEMMA Inductive == Spec => []IInv
  BY InitIInv, NextIInv, PTL DEF Spec

(* Threads that have all returned, or not started, have equal counts, so   *)
(* nobody is ahead in the rotation and nobody is inside a mutex.           *)
LEMMA HandoverFromIInv == IInv => CleanHandover
<1> SUFFICES ASSUME IInv, mpc \in {"enable", "done"} \/ (mpc = "create" /\ midx = 0),
                    NEW p \in Partitions
             PROVE  flow_step[p] = 0 /\ flow_mutex[p] = NoThread
  BY DEF CleanHandover
<1>1. \A t \in Threads : pc[t] \in {"idle", "exited"}
  <2>1. mpc = "create" /\ midx = 0 => \A t \in Threads : Fresh(t)
    BY DEF Fresh, Threads
  <2>2. QED
    BY <2>1 DEF IInv, MainInv
<1>2. flow_mutex[p] = NoThread
  BY <1>1 DEF IInv, MutexInv, Holds, TypeOK
<1>3. 0 \in Threads /\ NumThreads - 1 \in Threads
  BY FlowAssumption DEF Threads
<1>4. PICK d \in Nat : \A t \in Threads : Done(t, p) = d
  <2>1. CASE mpc = "create" /\ midx = 0
    <3>1. \A t \in Threads : Fresh(t)
      BY <2>1 DEF Fresh, Threads
    <3>2. \A t \in Threads : Done(t, p) = 0
      BY <3>1 DEF Done
    <3>3. QED
      BY <3>2
  <2>2. CASE mpc \in {"enable", "done"}
    <3>1. \A t \in Threads : pc[t] = "exited" /\ i[t] = NumIterations /\ part_idx[t] = 0
      BY <2>2 DEF IInv, MainInv, LoopInv
    <3>2. ~(p < 0) /\ \A t \in Threads : ~Fresh(t)
      BY <2>2 DEF Fresh, Partitions
    <3>3. \A t \in Threads : Done(t, p) = NumIterations
      BY <3>1, <3>2 DEF Done
    <3>4. QED
      BY <3>3, FlowAssumption
  <2>3. QED
    BY <2>1, <2>2
<1>5. d = d + IF 0 < flow_step[p] THEN 1 ELSE 0
  BY <1>3, <1>4 DEF IInv, RoundRobin
<1>6. flow_step[p] \in 0 .. NumThreads - 1
  BY DEF IInv, TypeOK, Threads
<1>7. flow_step[p] = 0
  BY <1>5, <1>6
<1>8. QED
  BY <1>2, <1>7

-----------------------------------------------------------------------------

(* Every variable of the benchmark stays in its type, for any number of    *)
(* threads, partitions and iterations: in particular the flow step remains *)
(* a thread number and the partition index a valid index.                  *)
THEOREM TypeCorrect == Spec => []TypeOK
  BY Inductive, PTL DEF IInv

(* Threads take each partition in strict rotation (incrFlowStep with the   *)
(* while loop on getFlowStep).                                             *)
THEOREM Rotation == Spec => []RoundRobin
  BY Inductive, PTL DEF IInv

(* No thread sleeps through its turn: pthread_cond_broadcast under the     *)
(* mutex reaches it, or is still to be executed.                           *)
THEOREM WakeupSafe == Spec => []NoLostWakeup
  BY Inductive, PTL DEF IInv

(* The unsynchronised-looking *(p + 4) += 1 never loses an update.         *)
THEOREM UpdatesKept == Spec => []NoLostUpdate
  BY Inductive, PTL DEF IInv

(* The measurement finds flow steps and mutexes as the warm-up found them, *)
(* without main resetting them.                                            *)
THEOREM HandoverClean == Spec => []CleanHandover
  BY Inductive, HandoverFromIInv, PTL

-----------------------------------------------------------------------------
(* What is timed *)

(* The thread has made its store and its visit to the partition is over. *)
Stopped(t) == pc[t] \in {"advance", "broadcast", "unlock"}

(* The visits of thread t that the measurement has timed so far: those of  *)
(* the iterations behind its first one.                                    *)
TimedVisits(t) ==
  IF phase = 1 \/ Fresh(t) \/ i[t] = 0 THEN 0
  ELSE (i[t] - 1) * NumPartitions + part_idx[t] + IF Stopped(t) THEN 1 ELSE 0

(* Timers are on in the measurement only, and have counted what they should. *)
LapsInv ==
  /\ timer_enabled <=> phase = 2
  /\ mpc = "done" => phase = 2
  /\ \A t \in Threads : laps[t] = TimedVisits(t)

(* The loop variables of a thread determine its timed visits. *)
LEMMA TimedFrame ==
  ASSUME TypeOK, NEW u \in Threads, phase' = phase, Fresh(u)' <=> Fresh(u),
         i[u]' = i[u], part_idx[u]' = part_idx[u], Stopped(u)' <=> Stopped(u)
  PROVE  TimedVisits(u)' = TimedVisits(u)
  BY DEF TimedVisits

(* A full iteration adds as many visits as there are partitions. *)
LEMMA IterationArith ==
  ASSUME NEW n \in Nat \ {0}, NEW d \in Nat \ {0}
  PROVE  (d - 1) * n + (n - 1) + 1 = d * n
  <1>1. (d - 1) * n = d * n - n
    OBVIOUS
  <1>2. d * n \in Nat
    OBVIOUS
  <1>3. QED
    BY <1>1, <1>2

(* The timer of a thread counts exactly its timed visits. *)
LEMMA LapsStep ==
  ASSUME IInv, LapsInv, [Next]_vars
  PROVE  LapsInv'
<1>0. TypeOK /\ MainInv /\ LoopInv
  BY DEF IInv
<1>1. CASE CreateThread
  <2>1. /\ phase' = phase /\ timer_enabled' = timer_enabled /\ laps' = laps
        /\ mpc' # "done"
    BY <1>1 DEF CreateThread
  <2>2. ASSUME NEW u \in Threads
        PROVE  TimedVisits(u)' = TimedVisits(u)
    <3>1. CASE u = midx
      <4>1. Fresh(u) /\ i[u]' = 0
        BY <1>0, <1>1, <3>1, FreshStep DEF CreateThread, TypeOK
      <4>2. QED
        BY <4>1 DEF TimedVisits
    <3>2. CASE u # midx
      <4>1. /\ Fresh(u)' <=> Fresh(u)
            /\ i[u]' = i[u] /\ part_idx[u]' = part_idx[u] /\ pc[u]' = pc[u]
        BY <1>0, <1>1, <3>2, FreshStep DEF CreateThread, TypeOK
      <4>2. Stopped(u)' <=> Stopped(u)
        BY <4>1 DEF Stopped
      <4>3. QED
        BY <1>0, <2>1, <4>1, <4>2, TimedFrame
    <3>3. QED
      BY <3>1, <3>2
  <2>3. QED
    BY <2>1, <2>2 DEF LapsInv
<1>2. CASE JoinThread \/ UNCHANGED vars
  <2>1. /\ phase' = phase /\ timer_enabled' = timer_enabled /\ laps' = laps
        /\ pc' = pc /\ i' = i /\ part_idx' = part_idx
    BY <1>2 DEF JoinThread, vars
  <2>2. mpc' = "done" => phase = 2
    BY <1>0, <1>2 DEF JoinThread, vars, LapsInv, TypeOK
  <2>3. ASSUME NEW u \in Threads
        PROVE  TimedVisits(u)' = TimedVisits(u)
    <3>1. Fresh(u)' <=> Fresh(u)
      BY <1>0, <1>2, FreshStep DEF vars, Fresh
    <3>2. Stopped(u)' <=> Stopped(u)
      BY <2>1 DEF Stopped
    <3>3. QED
      BY <1>0, <2>1, <3>1, <3>2, TimedFrame
  <2>4. QED
    BY <2>1, <2>2, <2>3 DEF LapsInv
<1>3. CASE EnableTimers
  <2>1. phase' = 2 /\ timer_enabled' = TRUE /\ laps' = laps /\ phase = 1
    BY <1>0, <1>3 DEF EnableTimers, MainInv
  <2>2. ASSUME NEW u \in Threads
        PROVE  TimedVisits(u)' = 0 /\ TimedVisits(u) = 0
    BY <1>0, <1>3, <2>1, FreshStep DEF TimedVisits
  <2>3. QED
    BY <2>1, <2>2 DEF LapsInv
<1>4. ASSUME NEW t \in Threads, WorkWrite(t)
      PROVE  LapsInv'
  <2>1. /\ UNCHANGED mainVars /\ i' = i /\ part_idx' = part_idx
        /\ pc[t] = "write" /\ pc' = [pc EXCEPT ![t] = "advance"]
        /\ laps' = [laps EXCEPT ![t] = IF i[t] > 0 /\ timer_enabled THEN @ + 1 ELSE @]
    BY <1>4 DEF WorkWrite, EndTimer, Goto
  <2>2. \A u \in Threads : Fresh(u)' <=> Fresh(u)
    BY <2>1 DEF mainVars, Fresh
  <2>3. ASSUME NEW u \in Threads, u # t
        PROVE  laps[u]' = laps[u] /\ TimedVisits(u)' = TimedVisits(u)
    <3>1. laps[u]' = laps[u] /\ pc[u]' = pc[u]
      BY <1>0, <2>1, <2>3 DEF TypeOK
    <3>2. Stopped(u)' <=> Stopped(u)
      BY <3>1 DEF Stopped
    <3>3. QED
      BY <1>0, <2>1, <2>2, <3>1, <3>2, TimedFrame DEF mainVars
  <2>4. laps[t]' = TimedVisits(t)'
    <3>1. ~Stopped(t) /\ Stopped(t)' /\ ~Fresh(t) /\ ~Fresh(t)'
      BY <1>0, <2>1, <2>2, ActorNotFresh DEF Stopped, TypeOK
    <3>2. i[t] \in Nat /\ part_idx[t] \in Nat /\ phase \in {1, 2} /\ laps[t] = TimedVisits(t)
      BY <1>0 DEF TypeOK, Partitions, LapsInv
    <3>3. CASE phase = 1 \/ i[t] = 0
      <4>1. TimedVisits(t) = 0 /\ TimedVisits(t)' = 0
        BY <2>1, <3>3 DEF TimedVisits, mainVars
      <4>2. ~(i[t] > 0 /\ timer_enabled)
        <5>1. i[t] = 0 => ~(i[t] > 0)
          BY <3>2
        <5>2. phase = 1 => ~timer_enabled
          BY DEF LapsInv
        <5>3. QED
          BY <3>3, <5>1, <5>2
      <4>3. laps[t]' = laps[t]
        BY <1>0, <2>1, <4>2 DEF TypeOK
      <4>4. QED
        BY <3>2, <4>1, <4>3
    <3>4. CASE phase = 2 /\ i[t] # 0
      <4>1. i[t] > 0 /\ timer_enabled
        <5>1. i[t] > 0
          BY <3>2, <3>4
        <5>2. timer_enabled
          BY <3>4 DEF LapsInv
        <5>3. QED
          BY <5>1, <5>2
      <4>2. laps[t]' = laps[t] + 1
        BY <1>0, <2>1, <4>1 DEF TypeOK
      <4>3. (i[t] - 1) * NumPartitions \in Int
        BY <3>2, FlowAssumption
      <4>4. TimedVisits(t) = (i[t] - 1) * NumPartitions + part_idx[t] + 0
        BY <3>1, <3>4 DEF TimedVisits
      <4>5. TimedVisits(t)' = (i[t] - 1) * NumPartitions + part_idx[t] + 1
        BY <2>1, <3>1, <3>4 DEF TimedVisits, mainVars
      <4>6. QED
        BY <3>2, <4>2, <4>3, <4>4, <4>5
    <3>5. QED
      BY <3>2, <3>3, <3>4
  <2>5. QED
    BY <2>1, <2>3, <2>4 DEF LapsInv, mainVars
<1>5. ASSUME NEW t \in Threads, Unlock(t)
      PROVE  LapsInv'
  <2> DEFINE p == part_idx[t]
  <2>1. UNCHANGED mainVars /\ laps' = laps /\ pc[t] = "unlock"
    BY <1>5 DEF Unlock
  <2>2. \A u \in Threads : Fresh(u)' <=> Fresh(u)
    BY <2>1 DEF mainVars, Fresh
  <2>3. ASSUME NEW u \in Threads, u # t
        PROVE  TimedVisits(u)' = TimedVisits(u)
    <3>1. pc[u]' = pc[u] /\ i[u]' = i[u] /\ part_idx[u]' = part_idx[u]
      BY <1>0, <1>5, <2>3 DEF TypeOK, Unlock, Goto
    <3>2. Stopped(u)' <=> Stopped(u)
      BY <3>1 DEF Stopped
    <3>3. QED
      BY <1>0, <2>1, <2>2, <3>1, <3>2, TimedFrame DEF mainVars
  <2>4. TimedVisits(t)' = TimedVisits(t)
    <3>1. Stopped(t) /\ ~Fresh(t) /\ ~Fresh(t)' /\ phase' = phase
      BY <1>0, <2>1, <2>2, ActorNotFresh DEF Stopped, mainVars
    <3>2. ~Stopped(t)'
      BY <1>0, <1>5 DEF Unlock, Goto, LoopHead, Stopped, TypeOK
    <3>3. i[t] \in Nat /\ p \in 0 .. NumPartitions - 1 /\ NumPartitions \in Nat \ {0}
      BY <1>0, FlowAssumption DEF TypeOK, Partitions
    <3>4. CASE phase = 1
      BY <3>1, <3>4 DEF TimedVisits
    <3>5. CASE phase # 1 /\ p + 1 < NumPartitions
      <4>1. i[t]' = i[t] /\ part_idx[t]' = p + 1
        BY <1>0, <1>5, <3>5 DEF Unlock, TypeOK
      <4>2. CASE i[t] = 0
        BY <4>1, <4>2 DEF TimedVisits
      <4>3. CASE i[t] # 0
        <5>1. (i[t] - 1) * NumPartitions \in Int
          BY <3>3
        <5>2. TimedVisits(t) = (i[t] - 1) * NumPartitions + p + 1
          BY <3>1, <3>5, <4>3 DEF TimedVisits
        <5>3. TimedVisits(t)' = (i[t] - 1) * NumPartitions + (p + 1) + 0
          BY <3>1, <3>2, <3>5, <4>1, <4>3 DEF TimedVisits
        <5>4. QED
          BY <3>3, <5>1, <5>2, <5>3
      <4>4. QED
        BY <4>2, <4>3
    <3>6. CASE phase # 1 /\ ~(p + 1 < NumPartitions)
      <4>1. i[t]' = i[t] + 1 /\ part_idx[t]' = 0 /\ p = NumPartitions - 1
        BY <1>0, <1>5, <3>3, <3>6 DEF Unlock, TypeOK
      <4>2. i[t]' # 0
        BY <3>3, <4>1
      <4>3. TimedVisits(t)' = i[t] * NumPartitions
        <5>1. ~(phase' = 1 \/ Fresh(t)' \/ i[t]' = 0)
          BY <3>1, <3>6, <4>2
        <5>2. TimedVisits(t)' = (i'[t] - 1) * NumPartitions + part_idx'[t] + 0
          BY <3>2, <5>1 DEF TimedVisits
        <5>3. i'[t] - 1 = i[t] /\ part_idx'[t] = 0
          BY <3>3, <4>1
        <5>4. i[t] * NumPartitions \in Int
          BY <3>3
        <5>5. QED
          BY <5>2, <5>3, <5>4
      <4>4. CASE i[t] = 0
        <5>1. TimedVisits(t) = 0
          BY <4>4 DEF TimedVisits
        <5>2. 0 * NumPartitions = 0
          BY <3>3
        <5>3. QED
          BY <4>3, <4>4, <5>1, <5>2
      <4>5. CASE i[t] # 0
        <5>1. TimedVisits(t) = (i[t] - 1) * NumPartitions + (NumPartitions - 1) + 1
          BY <3>1, <3>6, <4>1, <4>5 DEF TimedVisits
        <5>2. TimedVisits(t) = i[t] * NumPartitions
          BY <3>3, <4>5, <5>1, IterationArith
        <5>3. QED
          BY <4>3, <5>2
      <4>6. QED
        BY <4>4, <4>5
    <3>7. QED
      BY <3>4, <3>5, <3>6
  <2>5. QED
    BY <2>1, <2>3, <2>4 DEF LapsInv, mainVars
<1>6. ASSUME NEW t \in Threads,
             \/ Lock(t) \/ TestTurn(t) \/ WorkRead(t) \/ Advance(t)
             \/ Broadcast(t) \/ SpuriousWake(t)
      PROVE  LapsInv'
  <2>1. UNCHANGED mainVars /\ laps' = laps /\ i' = i /\ part_idx' = part_idx
    BY <1>6 DEF Lock, TestTurn, WorkRead, Advance, Broadcast, SpuriousWake
  <2>2. \A u \in Threads : Stopped(u)' <=> Stopped(u)
    BY <1>0, <1>6 DEF Lock, TestTurn, WorkRead, Advance, Broadcast, SpuriousWake, Goto,
                      Waiting, Stopped, TypeOK
  <2>3. \A u \in Threads : Fresh(u)' <=> Fresh(u)
    BY <2>1 DEF mainVars, Fresh
  <2>4. \A u \in Threads : TimedVisits(u)' = TimedVisits(u)
    BY <1>0, <2>1, <2>2, <2>3, TimedFrame DEF mainVars
  <2>5. QED
    BY <2>1, <2>4 DEF LapsInv, mainVars
<1>7. QED
  BY <1>1, <1>2, <1>3, <1>4, <1>5, <1>6 DEF Next, Main, thread_rmw, Terminated

(* The warm-up starts with timers off and nothing counted. *)
LEMMA InitLaps == Init => LapsInv
<1> SUFFICES ASSUME Init
             PROVE  LapsInv
  OBVIOUS
<1>1. phase = 1 /\ mpc = "create" /\ ~timer_enabled
  BY DEF Init
<1>2. \A t \in Threads : laps[t] = 0 /\ TimedVisits(t) = 0
  BY DEF Init, TimedVisits
<1>3. QED
  BY <1>1, <1>2 DEF LapsInv

(* Threads that have all returned from the measurement have been timed in  *)
(* every iteration but the first.                                          *)
LEMMA LapsFromInv == IInv /\ LapsInv => TimedLaps
<1> SUFFICES ASSUME IInv, LapsInv, mpc = "done", NEW t \in Threads
             PROVE  laps[t] = IF NumIterations = 0 THEN 0 ELSE (NumIterations - 1) * NumPartitions
  BY DEF TimedLaps
<1>1. pc[t] = "exited" /\ i[t] = NumIterations /\ part_idx[t] = 0 /\ phase = 2
  BY DEF IInv, MainInv, LoopInv, LapsInv
<1>2. ~Fresh(t) /\ ~Stopped(t)
  BY <1>1 DEF Fresh, Stopped
<1>3. laps[t] = IF NumIterations = 0 THEN 0
                ELSE (NumIterations - 1) * NumPartitions + 0 + 0
  BY <1>1, <1>2 DEF LapsInv, TimedVisits
<1>4. (NumIterations - 1) * NumPartitions \in Int
  BY FlowAssumption
<1>5. QED
  BY <1>3, <1>4

(* Each thread's timer has accumulated one interval per partition and      *)
(* iteration of the measurement, its first iteration and the whole warm-up *)
(* left out (the i > 0 && isTimerEnabled() conditions of thread_rmw).      *)
THEOREM TimedAsMeant == Spec => []TimedLaps
<1>1. IInv /\ LapsInv /\ [Next]_vars => LapsInv'
  BY LapsStep
<1>2. QED
  BY Inductive, InitLaps, LapsFromInv, <1>1, PTL DEF Spec

-----------------------------------------------------------------------------
(* The refinement of TurnRing *)

(* The warm-up starts in an initial state of the ring. *)
LEMMA RingInit == Init => Ring!Init
<1> SUFFICES ASSUME Init
             PROVE  Ring!Init
  OBVIOUS
<1>1. \A t \in Threads : Fresh(t)
  BY DEF Init, Fresh, Threads
<1>2. \A t \in Threads, p \in Partitions : TotalDone(t, p) = 0
  BY <1>1, FlowAssumption DEF Init, TotalDone, Done
<1>3. QED
  BY <1>2 DEF Init, Ring!Init, Ring!Threads, Ring!Partitions, Threads, Partitions

(* A thread at incrFlowStep has done the partitions before this one in the *)
(* current iteration and none behind it, and has iterations left.          *)
LEMMA AdvanceInOrder ==
  ASSUME IInv, NEW t \in Threads, Advance(t)
  PROVE  /\ TotalDone(t, part_idx[t]) < 2 * NumIterations
         /\ \A q \in Partitions :
              TotalDone(t, q) = IF q < part_idx[t] THEN TotalDone(t, part_idx[t]) + 1
                                ELSE TotalDone(t, part_idx[t])
<1> DEFINE p == part_idx[t]
<1>1. pc[t] = "advance" /\ i[t] # NumIterations /\ ~Fresh(t)
  BY ActorNotFresh DEF Advance, IInv, LoopInv
<1>2. p \in Partitions /\ i[t] \in 0 .. NumIterations /\ phase \in {1, 2}
  BY DEF IInv, TypeOK
<1>3. ~(p < p)
  BY <1>2 DEF Partitions
<1>4. \A q \in Partitions : Done(t, q) = IF q < p THEN i[t] + 1 ELSE i[t]
  BY <1>1 DEF Done
<1>5. \A q \in Partitions :
        TotalDone(t, q) = (phase - 1) * NumIterations + IF q < p THEN i[t] + 1 ELSE i[t]
  BY <1>4 DEF TotalDone
<1>6. TotalDone(t, p) = (phase - 1) * NumIterations + i[t]
  BY <1>2, <1>3, <1>5
<1>7. (phase - 1) * NumIterations = IF phase = 1 THEN 0 ELSE NumIterations
  <2>1. CASE phase = 1
    BY <2>1, FlowAssumption
  <2>2. CASE phase = 2
    BY <2>2, FlowAssumption
  <2>3. QED
    BY <1>2, <2>1, <2>2
<1>8. TotalDone(t, p) < 2 * NumIterations
  BY <1>1, <1>2, <1>6, <1>7, FlowAssumption
<1>9. ASSUME NEW q \in Partitions
      PROVE  TotalDone(t, q) = IF q < p THEN TotalDone(t, p) + 1 ELSE TotalDone(t, p)
  BY <1>2, <1>5, <1>6, <1>7, FlowAssumption
<1>10. QED
  BY <1>8, <1>9

(* Every step of the benchmark is a visit of the ring or invisible to it. *)
LEMMA RingStep == IInv /\ [Next]_vars => [Ring!Next]_(Ring!vars)
<1> DEFINE Visits == [t \in Threads |-> [p \in Partitions |-> TotalDone(t, p)]]
<1> SUFFICES ASSUME IInv, [Next]_vars
             PROVE  [Ring!Next]_(Ring!vars)
  OBVIOUS
<1>1. TypeOK /\ MainInv /\ LoopInv /\ TurnInv
  BY DEF IInv
<1>2. ASSUME NEW t \in Threads, Advance(t)
      PROVE  Ring!Next
  <2> DEFINE p == part_idx[t]
  <2>1. p \in Partitions
    BY <1>1 DEF TypeOK
  <2>2. flow_step[p] = t /\ flow_step' = [flow_step EXCEPT ![p] = (t + 1) % NumThreads]
    BY <1>1, <1>2, <2>1 DEF Advance, incrFlowStep, TurnInv
  <2>3. \A u \in Threads, q \in Partitions :
          TotalDone(u, q)' = IF u = t /\ q = p THEN TotalDone(u, q) + 1 ELSE TotalDone(u, q)
    BY <1>1, <1>2, TotalStep
  <2>4. Visits' = [Visits EXCEPT ![t][p] = @ + 1]
    BY <2>1, <2>3
  <2>5. Visits[t][p] < 2 * NumIterations
    BY <1>2, <2>1, AdvanceInOrder
  <2>6. \A q \in Partitions : Visits[t][q] = IF q < p THEN Visits[t][p] + 1 ELSE Visits[t][p]
    BY <1>2, <2>1, AdvanceInOrder
  <2>7. Ring!Visit(t, p)
    BY <2>2, <2>4, <2>5, <2>6 DEF Ring!Visit, Ring!InProgramOrder, Ring!Partitions, Partitions
  <2>8. QED
    BY <2>1, <2>7 DEF Ring!Next, Ring!Threads, Ring!Partitions, Threads, Partitions
<1>3. CASE \A t \in Threads : ~Advance(t)
  <2>1. flow_step' = flow_step
    BY <1>3, FlowStepFrame
  <2>2. \A u \in Threads, q \in Partitions : TotalDone(u, q)' = TotalDone(u, q)
    BY <1>1, <1>3, TotalStep
  <2>3. Visits' = Visits
    BY <2>2
  <2>4. QED
    BY <2>1, <2>3 DEF Ring!vars
<1>4. QED
  BY <1>2, <1>3

(* multiple_rdwr implements the abstract ring: mutexes, condition          *)
(* variables, spurious wake-ups and the two create/join phases show only   *)
(* as visits in thread order and program order.                            *)
THEOREM Refinement == Spec => ImplementsRing
  BY RingInit, RingStep, Inductive, PTL DEF Spec, ImplementsRing, Ring!Spec

(* Rotation on each partition and program order in each thread leave at    *)
(* most one visit of difference each.                                      *)
LEMMA TogetherFromIInv == IInv => ThreadsTogether
<1> SUFFICES ASSUME IInv, NEW t \in Threads, NEW u \in Threads,
                    NEW p \in Partitions, NEW q \in Partitions
             PROVE  TotalDone(t, p) - TotalDone(u, q) <= IF p = q THEN 1 ELSE 2
  BY DEF ThreadsTogether, Ring!SkewBound, Ring!Threads, Ring!Partitions, Threads, Partitions
<1>1. /\ i[u] \in Nat
      /\ Done(u, p) \in {0, i[u], i[u] + 1}
      /\ Done(u, q) \in {0, i[u], i[u] + 1}
      /\ Done(u, p) \in Nat /\ Done(u, q) \in Nat /\ Done(u, p) - Done(u, q) <= 1
  BY FlowAssumption DEF IInv, TypeOK, Done
<1>2. Done(t, p) \in Nat /\ Done(NumThreads - 1, p) \in Nat
  BY LastThread, FlowAssumption DEF IInv, TypeOK, Done
<1>3. Done(t, p) - Done(u, p) <= 1
  BY <1>1, <1>2 DEF IInv, RoundRobin
<1>4. Done(t, p) - Done(u, q) <= IF p = q THEN 1 ELSE 2
  BY <1>1, <1>2, <1>3
<1>5. phase \in Nat /\ (phase - 1) * NumIterations \in Int
  BY FlowAssumption DEF IInv, TypeOK
<1>6. QED
  BY <1>1, <1>2, <1>4, <1>5 DEF TotalDone

(* No thread drifts away from the others, for any number of threads and    *)
(* partitions: at most one visit on a partition, two across partitions.    *)
THEOREM StayTogether == Spec => []ThreadsTogether
  BY Inductive, TogetherFromIInv, PTL

=============================================================================
