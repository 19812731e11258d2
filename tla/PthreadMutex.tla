---------------------------- MODULE PthreadMutex ----------------------------
(***************************************************************************)
(* misc/pthread_mutex.cc: one thread per core, all created at once, each   *)
(* working once and in the order of their numbers.  The order comes from   *)
(* one global mutex, one condition variable and one step counter that is   *)
(* never wrapped.  The thread's timers are calls into module TimerPool,    *)
(* whose mutex is taken last and held across no other lock.                *)
(***************************************************************************)
EXTENDS Integers

CONSTANTS
  NumThreads,    \* get_nprocs()
  MaxSpurious    \* bound on spurious returns of pthread_cond_wait

ASSUME ChainAssumption ==
  /\ NumThreads \in Nat \ {0}
  /\ MaxSpurious \in Nat

Threads == 0 .. NumThreads - 1
NoThread == -1

VARIABLES
  mpc,            \* main: "create", "join", "destroy" or "done"
  midx,           \* index of main's loops
  pc,             \* pc[t]: next statement of thread t
  g_flow_mutex,   \* owner of the mutex
  g_flow_step,    \* the step counter
  alive,          \* the mutex and the condition variable are initialised
  spurious        \* spurious wake-ups so far

vars == <<mpc, midx, pc, g_flow_mutex, g_flow_step, alive, spurious>>

TypeOK ==
  /\ mpc \in {"create", "join", "destroy", "done"}
  /\ midx \in Threads
  /\ pc \in [Threads -> {"idle", "lock", "test", "wait", "work", "advance",
                         "broadcast", "unlock", "exited"}]
  /\ g_flow_mutex \in Threads \cup {NoThread}
  /\ g_flow_step \in 0 .. NumThreads
  /\ alive \in BOOLEAN
  /\ spurious \in 0 .. MaxSpurious

Init ==
  /\ mpc = "create"
  /\ midx = 0
  /\ pc = [t \in Threads |-> "idle"]
  /\ g_flow_mutex = NoThread
  /\ g_flow_step = 0
  /\ alive = TRUE
  /\ spurious = 0

Goto(t, label) == pc' = [pc EXCEPT ![t] = label]

-----------------------------------------------------------------------------
(* main *)

(* The end of a round of a loop over the threads. *)
NextOr(label) ==
  IF midx + 1 < NumThreads THEN midx' = midx + 1 /\ mpc' = mpc
  ELSE midx' = 0 /\ mpc' = label

CreateThread ==
  /\ mpc = "create"
  /\ Goto(midx, "lock")
  /\ NextOr("join")
  /\ UNCHANGED <<g_flow_mutex, g_flow_step, alive, spurious>>

(* Mutant: main does not wait for its threads. *)
JoinNothing ==
  /\ mpc = "join"
  /\ NextOr("destroy")
  /\ UNCHANGED <<pc, g_flow_mutex, g_flow_step, alive, spurious>>

JoinThread ==
  /\ mpc = "join"
  /\ pc[midx] = "exited"
  /\ NextOr("destroy")
  /\ UNCHANGED <<pc, g_flow_mutex, g_flow_step, alive, spurious>>

DestroyLocks ==
  /\ mpc = "destroy"
  /\ alive' = FALSE
  /\ mpc' = "done"
  /\ UNCHANGED <<midx, pc, g_flow_mutex, g_flow_step, spurious>>

Main == CreateThread \/ JoinThread \/ DestroyLocks

-----------------------------------------------------------------------------
(* thread_work *)

Lock(t) ==
  /\ pc[t] = "lock"
  /\ g_flow_mutex = NoThread
  /\ g_flow_mutex' = t
  /\ Goto(t, "test")
  /\ UNCHANGED <<mpc, midx, g_flow_step, alive, spurious>>

(* Mutant: the condition is that the turn has been reached, not that it is *)
(* the thread's own.                                                       *)
TestTurnLater(t) ==
  /\ pc[t] = "test"
  /\ IF g_flow_step > t \/ t > g_flow_step + 1
     THEN Goto(t, "wait") /\ g_flow_mutex' = NoThread
     ELSE Goto(t, "work") /\ UNCHANGED g_flow_mutex
  /\ UNCHANGED <<mpc, midx, g_flow_step, alive, spurious>>

TestTurn(t) ==
  /\ pc[t] = "test"
  /\ IF g_flow_step # t
     THEN Goto(t, "wait") /\ g_flow_mutex' = NoThread
     ELSE Goto(t, "work") /\ UNCHANGED g_flow_mutex
  /\ UNCHANGED <<mpc, midx, g_flow_step, alive, spurious>>

SpuriousWake(t) ==
  /\ pc[t] = "wait"
  /\ spurious < MaxSpurious
  /\ spurious' = spurious + 1
  /\ Goto(t, "lock")
  /\ UNCHANGED <<mpc, midx, g_flow_mutex, g_flow_step, alive>>

Work(t) ==
  /\ pc[t] = "work"
  /\ Goto(t, "advance")
  /\ UNCHANGED <<mpc, midx, g_flow_mutex, g_flow_step, alive, spurious>>

Advance(t) ==
  /\ pc[t] = "advance"
  /\ g_flow_step' = g_flow_step + 1
  /\ Goto(t, "broadcast")
  /\ UNCHANGED <<mpc, midx, g_flow_mutex, alive, spurious>>

(* Mutant: pthread_cond_signal wakes any one of the waiting threads. *)
SignalOne(t) ==
  LET w == {u \in Threads : pc[u] = "wait"} IN
  /\ pc[t] = "broadcast"
  /\ IF w = {} THEN Goto(t, "unlock")
     ELSE \E u \in w : pc' = [pc EXCEPT ![u] = "lock", ![t] = "unlock"]
  /\ UNCHANGED <<mpc, midx, g_flow_mutex, g_flow_step, alive, spurious>>

Broadcast(t) ==
  /\ pc[t] = "broadcast"
  /\ pc' = [u \in Threads |->
              IF u = t THEN "unlock" ELSE IF pc[u] = "wait" THEN "lock" ELSE pc[u]]
  /\ UNCHANGED <<mpc, midx, g_flow_mutex, g_flow_step, alive, spurious>>

Unlock(t) ==
  /\ pc[t] = "unlock"
  /\ g_flow_mutex' = NoThread
  /\ Goto(t, "exited")
  /\ UNCHANGED <<mpc, midx, g_flow_step, alive, spurious>>

thread_work(t) ==
  \/ Lock(t) \/ TestTurn(t) \/ Work(t) \/ Advance(t) \/ Broadcast(t) \/ Unlock(t)

Terminated == mpc = "done" /\ UNCHANGED vars

Next ==
  \/ Main
  \/ \E t \in Threads : thread_work(t) \/ SpuriousWake(t)
  \/ Terminated

Spec == Init /\ [][Next]_vars

FairSpec == Spec /\ WF_vars(Main) /\ \A t \in Threads : WF_vars(thread_work(t))

-----------------------------------------------------------------------------

(* The locks are destroyed when nobody uses them any more: no thread holds *)
(* the mutex or sleeps on the condition variable.                          *)
DestroyedIdle ==
  ~alive => g_flow_mutex = NoThread /\ \A t \in Threads : pc[t] = "exited"

(* The thread's work is done. *)
Worked(t) == pc[t] \in {"broadcast", "unlock", "exited"}

(* One round of the abstract ring with a single partition: each thread     *)
(* works once, in the order of the numbers.                                *)
Ring == INSTANCE TurnRing WITH
  NumPartitions <- 1,
  Quota <- 1,
  turn <- [p \in {0} |-> g_flow_step % NumThreads],
  visits <- [t \in Threads |-> [p \in {0} |-> IF Worked(t) THEN 1 ELSE 0]]

ImplementsRing == Ring!Spec

(* The program ends: the chain reaches every thread, in whichever order    *)
(* they get the mutex first.                                               *)
MainReturns == <>(mpc = "done")

=============================================================================
