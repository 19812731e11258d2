------------------------------ MODULE RdwrFlow ------------------------------
(***************************************************************************)
(* The multiple_rdwr benchmark: NumThreads threads run thread_rmw over     *)
(* NumPartitions memory regions and hand every region round robin from     *)
(* core to core with a mutex, a condition variable and a step counter per  *)
(* region (MemRegionExt).  main runs the threads twice, for warm-up and    *)
(* for the measurement, through ThreadHelper::create and ::join.           *)
(*                                                                         *)
(* A thread's program counter names the statement it executes next:        *)
(*   idle       not created yet                                            *)
(*   lock       pthread_mutex_lock, or re-acquiring inside a cond_wait     *)
(*   test       the while condition on the flow step                       *)
(*   wait       blocked in pthread_cond_wait                               *)
(*   read/write the read-modify-write of the partition's lines             *)
(*   advance    incrFlowStep                                               *)
(*   broadcast  pthread_cond_broadcast                                     *)
(*   unlock     pthread_mutex_unlock and the loop increments               *)
(*   exited     thread_rmw has returned                                    *)
(* The lines of a partition are all treated alike while the mutex is held, *)
(* so one payload word per partition stands for them.                      *)
(***************************************************************************)
EXTENDS Integers

CONSTANTS
  NumThreads,      \* num_threads
  NumPartitions,   \* region_size / partition_size
  NumIterations,   \* num_iterations
  MaxSpurious      \* bound on spurious returns of pthread_cond_wait

ASSUME FlowAssumption ==
  /\ NumThreads \in Nat \ {0}
  /\ NumPartitions \in Nat \ {0}
  /\ NumIterations \in Nat
  /\ MaxSpurious \in Nat

Threads == 0 .. NumThreads - 1
Partitions == 0 .. NumPartitions - 1
NoThread == -1

VARIABLES
  mpc,            \* main: "create", "join", "enable" or "done"
  phase,          \* 1: warm-up, 2: main measurement
  midx,           \* loop index of ThreadHelper::create and ::join
  timer_enabled,  \* timer_enabled_ of every packet
  pc,             \* pc[t]: next statement of thread t
  i,              \* i[t]: iteration of thread t
  part_idx,       \* part_idx[t]: partition thread t works on
  seen,           \* seen[t]: payload value loaded by the += of thread t
  laps,           \* laps[t]: intervals accumulated in t's timer_
  flow_mutex,     \* flow_mutex[p]: owner of the partition's mutex
  flow_step,      \* flow_step[p]: thread whose turn it is
  payload,        \* payload[p]: the word at (p + 4) of a line of partition p
  spurious        \* spurious wake-ups so far

mainVars == <<mpc, phase, midx, timer_enabled>>
vars == <<mpc, phase, midx, timer_enabled, pc, i, part_idx, seen, laps,
          flow_mutex, flow_step, payload, spurious>>

PCs == {"idle", "lock", "test", "wait", "read", "write", "advance",
        "broadcast", "unlock", "exited"}

TypeOK ==
  /\ mpc \in {"create", "join", "enable", "done"}
  /\ phase \in {1, 2}
  /\ midx \in 0 .. NumThreads
  /\ timer_enabled \in BOOLEAN
  /\ pc \in [Threads -> PCs]
  /\ i \in [Threads -> 0 .. NumIterations]
  /\ part_idx \in [Threads -> Partitions]
  /\ seen \in [Threads -> Nat]
  /\ laps \in [Threads -> Nat]
  /\ flow_mutex \in [Partitions -> Threads \cup {NoThread}]
  /\ flow_step \in [Partitions -> Threads]
  /\ payload \in [Partitions -> Nat]
  /\ spurious \in 0 .. MaxSpurious

Init ==
  /\ mpc = "create"
  /\ phase = 1
  /\ midx = 0
  /\ timer_enabled = FALSE
  /\ pc = [t \in Threads |-> "idle"]
  /\ i = [t \in Threads |-> 0]
  /\ part_idx = [t \in Threads |-> 0]
  /\ seen = [t \in Threads |-> 0]
  /\ laps = [t \in Threads |-> 0]
  /\ flow_mutex = [p \in Partitions |-> NoThread]
  /\ flow_step = [p \in Partitions |-> 0]
  /\ payload = [p \in Partitions |-> 0]
  /\ spurious = 0

Goto(t, label) == pc' = [pc EXCEPT ![t] = label]

-----------------------------------------------------------------------------
(* main *)

(* The head of the iteration loop, with no iteration left or one to do. *)
LoopHead(iter) == IF iter < NumIterations THEN "lock" ELSE "exited"

(* One round of ThreadHelper::create. *)
CreateThread ==
  /\ mpc = "create"
  /\ pc' = [pc EXCEPT ![midx] = LoopHead(0)]
  /\ i' = [i EXCEPT ![midx] = 0]
  /\ part_idx' = [part_idx EXCEPT ![midx] = 0]
  /\ IF midx + 1 < NumThreads
     THEN midx' = midx + 1 /\ mpc' = mpc
     ELSE midx' = 0 /\ mpc' = "join"
  /\ UNCHANGED <<phase, timer_enabled, seen, laps, flow_mutex, flow_step,
                 payload, spurious>>

(* Mutant: main does not wait for the thread. *)
JoinNothing ==
  /\ mpc = "join"
  /\ IF midx + 1 < NumThreads
     THEN midx' = midx + 1 /\ mpc' = mpc
     ELSE midx' = 0 /\ mpc' = IF phase = 1 THEN "enable" ELSE "done"
  /\ UNCHANGED <<phase, timer_enabled, pc, i, part_idx, seen, laps,
                 flow_mutex, flow_step, payload, spurious>>

(* One round of ThreadHelper::join: blocks until the thread has returned. *)
JoinThread ==
  /\ mpc = "join"
  /\ pc[midx] = "exited"
  /\ IF midx + 1 < NumThreads
     THEN midx' = midx + 1 /\ mpc' = mpc
     ELSE midx' = 0 /\ mpc' = IF phase = 1 THEN "enable" ELSE "done"
  /\ UNCHANGED <<phase, timer_enabled, pc, i, part_idx, seen, laps,
                 flow_mutex, flow_step, payload, spurious>>

(* Between the phases no thread runs: setTimerEnabled on every packet. *)
EnableTimers ==
  /\ mpc = "enable"
  /\ mpc' = "create"
  /\ phase' = 2
  /\ timer_enabled' = TRUE
  /\ UNCHANGED <<midx, pc, i, part_idx, seen, laps, flow_mutex, flow_step,
                 payload, spurious>>

Main == CreateThread \/ JoinThread \/ EnableTimers

-----------------------------------------------------------------------------
(* thread_rmw *)

Lock(t) ==
  LET p == part_idx[t] IN
  /\ pc[t] = "lock"
  /\ flow_mutex[p] = NoThread
  /\ flow_mutex' = [flow_mutex EXCEPT ![p] = t]
  /\ Goto(t, "test")
  /\ UNCHANGED <<mainVars, i, part_idx, seen, laps, flow_step, payload, spurious>>

(* Mutant: the turn is not tested, any thread that has the mutex works. *)
TestNothing(t) ==
  /\ pc[t] = "test"
  /\ Goto(t, "read")
  /\ UNCHANGED <<mainVars, i, part_idx, seen, laps, flow_mutex, flow_step,
                 payload, spurious>>

(* The while condition: out of turn, pthread_cond_wait gives the mutex up  *)
(* and blocks in one step; in turn, the work starts (and its timer, which  *)
(* only the end of the interval makes visible).                            *)
TestTurn(t) ==
  LET p == part_idx[t] IN
  /\ pc[t] = "test"
  /\ IF flow_step[p] # t
     THEN Goto(t, "wait") /\ flow_mutex' = [flow_mutex EXCEPT ![p] = NoThread]
     ELSE Goto(t, "read") /\ UNCHANGED flow_mutex
  /\ UNCHANGED <<mainVars, i, part_idx, seen, laps, flow_step, payload, spurious>>

(* POSIX lets pthread_cond_wait return with nobody having signalled. *)
SpuriousWake(t) ==
  /\ pc[t] = "wait"
  /\ spurious < MaxSpurious
  /\ spurious' = spurious + 1
  /\ Goto(t, "lock")
  /\ UNCHANGED <<mainVars, i, part_idx, seen, laps, flow_mutex, flow_step, payload>>

(* *(p + 4) += 1 is a load and a store. *)
WorkRead(t) ==
  /\ pc[t] = "read"
  /\ seen' = [seen EXCEPT ![t] = payload[part_idx[t]]]
  /\ Goto(t, "write")
  /\ UNCHANGED <<mainVars, i, part_idx, laps, flow_mutex, flow_step, payload, spurious>>

(* Mutant: the first iteration is measured too. *)
TimeEveryIteration(t) ==
  laps' = [laps EXCEPT ![t] = IF timer_enabled THEN @ + 1 ELSE @]

EndTimer(t) ==
  laps' = [laps EXCEPT ![t] = IF i[t] > 0 /\ timer_enabled THEN @ + 1 ELSE @]

WorkWrite(t) ==
  /\ pc[t] = "write"
  /\ payload' = [payload EXCEPT ![part_idx[t]] = seen[t] + 1]
  /\ EndTimer(t)
  /\ Goto(t, "advance")
  /\ UNCHANGED <<mainVars, i, part_idx, seen, flow_mutex, flow_step, spurious>>

(* Mutant: the step counter is not wrapped. *)
IncrNoWrap(p) == flow_step' = [flow_step EXCEPT ![p] = @ + 1]

(* Mutant: the last thread hands over to thread 1. *)
IncrSkipFirst(p) ==
  flow_step' = [flow_step EXCEPT ![p] = IF @ + 1 < NumThreads THEN @ + 1 ELSE 1 % NumThreads]

incrFlowStep(p) ==
  flow_step' = [flow_step EXCEPT ![p] = (@ + 1) % NumThreads]

Advance(t) ==
  /\ pc[t] = "advance"
  /\ incrFlowStep(part_idx[t])
  /\ Goto(t, "broadcast")
  /\ UNCHANGED <<mainVars, i, part_idx, seen, laps, flow_mutex, payload, spurious>>

Waiting(p) == {t \in Threads : pc[t] = "wait" /\ part_idx[t] = p}

(* Mutant: pthread_cond_signal, which wakes one arbitrary waiter. *)
SignalOne(t) ==
  LET w == Waiting(part_idx[t]) IN
  /\ pc[t] = "broadcast"
  /\ IF w = {} THEN Goto(t, "unlock")
     ELSE \E u \in w : pc' = [pc EXCEPT ![u] = "lock", ![t] = "unlock"]
  /\ UNCHANGED <<mainVars, i, part_idx, seen, laps, flow_mutex, flow_step,
                 payload, spurious>>

(* Every thread blocked on the partition's condition variable is woken and *)
(* has to re-acquire the mutex.                                            *)
Broadcast(t) ==
  /\ pc[t] = "broadcast"
  /\ pc' = [u \in Threads |->
              IF u = t THEN "unlock"
              ELSE IF u \in Waiting(part_idx[t]) THEN "lock" ELSE pc[u]]
  /\ UNCHANGED <<mainVars, i, part_idx, seen, laps, flow_mutex, flow_step,
                 payload, spurious>>

(* Release the mutex and go to the next partition or iteration. *)
Unlock(t) ==
  LET p == part_idx[t] IN
  /\ pc[t] = "unlock"
  /\ flow_mutex' = [flow_mutex EXCEPT ![p] = NoThread]
  /\ IF p + 1 < NumPartitions
     THEN /\ part_idx' = [part_idx EXCEPT ![t] = p + 1]
          /\ i' = i
          /\ Goto(t, "lock")
     ELSE /\ part_idx' = [part_idx EXCEPT ![t] = 0]
          /\ i' = [i EXCEPT ![t] = @ + 1]
          /\ Goto(t, LoopHead(i[t] + 1))
  /\ UNCHANGED <<mainVars, seen, laps, flow_step, payload, spurious>>

thread_rmw(t) ==
  \/ Lock(t) \/ TestTurn(t) \/ WorkRead(t) \/ WorkWrite(t)
  \/ Advance(t) \/ Broadcast(t) \/ Unlock(t)

(* main has returned: the process is gone and nothing moves any more. *)
Terminated == mpc = "done" /\ UNCHANGED vars

Next ==
  \/ Main
  \/ \E t \in Threads : thread_rmw(t) \/ SpuriousWake(t)
  \/ Terminated

Spec == Init /\ [][Next]_vars

(* The operating system runs every thread that can run; no fairness is     *)
(* asked of the mutex, nor of spurious wake-ups.                           *)
Fairness == WF_vars(Main) /\ \A t \in Threads : WF_vars(thread_rmw(t))

FairSpec == Spec /\ Fairness

-----------------------------------------------------------------------------
(* What must hold *)

(* Main has not started thread t in the current phase yet. *)
Fresh(t) == mpc = "create" /\ t >= midx

(* How often thread t has finished with partition p in the current phase. *)
Done(t, p) ==
  IF Fresh(t) THEN 0
  ELSE IF \/ p < part_idx[t]
          \/ p = part_idx[t] /\ pc[t] \in {"broadcast", "unlock"}
       THEN i[t] + 1
       ELSE i[t]

(* The same over both phases. *)
TotalDone(t, p) == (phase - 1) * NumIterations + Done(t, p)

(* Threads take a partition in strict rotation: the threads whose turn has *)
(* passed in the current round are exactly one visit ahead of the others,  *)
(* whatever the interleaving (incrFlowStep against the loop counters).     *)
RoundRobin ==
  \A p \in Partitions, t \in Threads :
    Done(t, p) = Done(NumThreads - 1, p) + IF t < flow_step[p] THEN 1 ELSE 0

(* The measurement starts from the same step as the warm-up: when no       *)
(* thread is running every flow step is back at 0 and every mutex free,    *)
(* although main never resets them between the two create() calls.         *)
CleanHandover ==
  (mpc \in {"enable", "done"} \/ (mpc = "create" /\ midx = 0)) =>
    \A p \in Partitions : flow_step[p] = 0 /\ flow_mutex[p] = NoThread

(* A thread blocked in pthread_cond_wait although its turn has come has    *)
(* its wake-up still ahead: another thread is about to broadcast on the    *)
(* same partition.  Otherwise the whole ring would stand still.            *)
NoLostWakeup ==
  \A t \in Threads :
    pc[t] = "wait" /\ flow_step[part_idx[t]] = t =>
      \E u \in Threads : pc[u] = "broadcast" /\ part_idx[u] = part_idx[t]

(* A thread has stored to the partition and not advanced its step yet. *)
Stored(p) == \E t \in Threads : pc[t] = "advance" /\ part_idx[t] = p

(* No read-modify-write is lost: the payload counts every visit, a full    *)
(* set of NumThreads per completed round plus the threads that have passed *)
(* in the current one.                                                     *)
NoLostUpdate ==
  \A p \in Partitions :
    payload[p] = NumThreads * TotalDone(NumThreads - 1, p) + flow_step[p]
                   + IF Stored(p) THEN 1 ELSE 0

(* The warm-up and the first iteration of the measurement are not timed    *)
(* and everything behind them is, once per partition (the i > 0 &&         *)
(* isTimerEnabled() conditions).                                           *)
TimedLaps ==
  mpc = "done" =>
    \A t \in Threads :
      laps[t] = IF NumIterations = 0 THEN 0 ELSE (NumIterations - 1) * NumPartitions

(* The benchmark finishes: every thread gets all its turns in both phases  *)
(* and main returns, with threads waiting for each other on every region.  *)
MainReturns == <>(mpc = "done")

(* dumpTimer divides a thread's elapsed time by getNumLines(), the lines   *)
(* of one partition, and by this number of passes over them.               *)
DividedPasses == NumIterations - 1

(* The quotient is labelled per-ref, time per reference: the references    *)
(* behind the time are those of the timed passes.                          *)
PerRefDivisor ==
  mpc = "done" => \A t \in Threads : laps[t] = DividedPasses

(* The protocol implements the abstract ring: every partition circulates   *)
(* in thread order, each thread 2 * NumIterations times.                   *)
Ring == INSTANCE TurnRing WITH
  Quota <- 2 * NumIterations,
  turn <- flow_step,
  visits <- [t \in Threads |-> [p \in Partitions |-> TotalDone(t, p)]]

ImplementsRing == Ring!Spec

(* The ring's bound on how far threads drift apart, for the protocol: no   *)
(* thread is more than one visit ahead on a partition, or two across       *)
(* partitions, while the iterations are being timed.                       *)
ThreadsTogether == Ring!SkewBound

=============================================================================
