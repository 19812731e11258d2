----------------------------- MODULE PthreadRdwr -----------------------------
(***************************************************************************)
(* misc/pthread_rdwr.cc: thread 0 writes, the others read.  A reader waits *)
(* on the condition variable until the writer has raised the step, gives   *)
(* the mutex up again and works under a read lock; the writer works under  *)
(* mutex and write lock and releases the mutex first.  The program calls   *)
(* the read-write lock "probably not necessary".  Timer calls are left to  *)
(* module TimerPool.                                                       *)
(***************************************************************************)
EXTENDS Integers

CONSTANTS
  NumThreads,    \* get_nprocs()
  MaxSpurious    \* bound on spurious returns of pthread_cond_wait

ASSUME RdwrAssumption ==
  /\ NumThreads \in Nat \ {0}
  /\ MaxSpurious \in Nat

Threads == 0 .. NumThreads - 1
Writer == 0
Readers == Threads \ {Writer}
NoThread == -1

VARIABLES
  mpc,             \* main: "routines", "create", "join", "destroy", "done"
  midx,            \* index of the loops of ThreadHelper
  start_routines,  \* start_routines[t]: routine of thread t, or "null"
  pc,              \* pc[t]: next statement of thread t
  g_flow_mutex,    \* owner of the mutex
  rdLocks,         \* threads that hold the read lock
  wrLock,          \* the thread that holds the write lock
  g_flow_step,     \* 0 until the writer is done
  alive,           \* the locks are initialised
  spurious         \* spurious wake-ups so far

vars == <<mpc, midx, start_routines, pc, g_flow_mutex, rdLocks, wrLock,
          g_flow_step, alive, spurious>>
mainVars == <<mpc, midx, start_routines, alive>>

Init ==
  /\ mpc = "routines"
  /\ midx = 0
  /\ start_routines = [t \in Threads |-> "null"]
  /\ pc = [t \in Threads |-> "idle"]
  /\ g_flow_mutex = NoThread
  /\ rdLocks = {}
  /\ wrLock = NoThread
  /\ g_flow_step = 0
  /\ alive = TRUE
  /\ spurious = 0

Goto(t, label) == pc' = [pc EXCEPT ![t] = label]

-----------------------------------------------------------------------------
(* main and ThreadHelper *)

(* setRoutine(routine, pred): the routine goes to the threads of a set. *)
setRoutine(routines, routine, set) ==
  [t \in Threads |-> IF t \in set THEN routine ELSE routines[t]]

(* Mutant: the readers' predicate is idx > 1. *)
SetRoutinesGap ==
  /\ mpc = "routines"
  /\ start_routines' = setRoutine(setRoutine(start_routines, "writer", {0}), "reader",
                                  {t \in Threads : t > 1})
  /\ mpc' = "create"
  /\ UNCHANGED <<midx, pc, g_flow_mutex, rdLocks, wrLock, g_flow_step, alive, spurious>>

SetRoutines ==
  /\ mpc = "routines"
  /\ start_routines' = setRoutine(setRoutine(start_routines, "writer", {0}), "reader",
                                  {t \in Threads : t > 0})
  /\ mpc' = "create"
  /\ UNCHANGED <<midx, pc, g_flow_mutex, rdLocks, wrLock, g_flow_step, alive, spurious>>

NextOr(label) ==
  IF midx + 1 < NumThreads THEN midx' = midx + 1 /\ mpc' = mpc
  ELSE midx' = 0 /\ mpc' = label

(* A thread without a routine jumps to address 0. *)
CreateThread ==
  /\ mpc = "create"
  /\ Goto(midx, IF start_routines[midx] = "null" THEN "segv" ELSE "lock")
  /\ NextOr("join")
  /\ UNCHANGED <<start_routines, g_flow_mutex, rdLocks, wrLock, g_flow_step, alive, spurious>>

JoinThread ==
  /\ mpc = "join"
  /\ pc[midx] = "exited"
  /\ NextOr("destroy")
  /\ UNCHANGED <<start_routines, pc, g_flow_mutex, rdLocks, wrLock, g_flow_step, alive, spurious>>

DestroyLocks ==
  /\ mpc = "destroy"
  /\ alive' = FALSE
  /\ mpc' = "done"
  /\ UNCHANGED <<midx, start_routines, pc, g_flow_mutex, rdLocks, wrLock, g_flow_step, spurious>>

Main == SetRoutines \/ CreateThread \/ JoinThread \/ DestroyLocks

-----------------------------------------------------------------------------
(* Both routines start with the mutex. *)

Lock(t) ==
  /\ pc[t] = "lock"
  /\ g_flow_mutex = NoThread
  /\ g_flow_mutex' = t
  /\ Goto(t, IF start_routines[t] = "writer" THEN "wrlock" ELSE "test")
  /\ UNCHANGED <<mainVars, rdLocks, wrLock, g_flow_step, spurious>>

Work(t) ==
  /\ pc[t] = "work"
  /\ Goto(t, IF start_routines[t] = "writer" THEN "advance" ELSE "rwunlock")
  /\ UNCHANGED <<mainVars, g_flow_mutex, rdLocks, wrLock, g_flow_step, spurious>>

rwUnlock(t) ==
  /\ pc[t] = "rwunlock"
  /\ rdLocks' = rdLocks \ {t}
  /\ wrLock' = IF wrLock = t THEN NoThread ELSE wrLock
  /\ Goto(t, "exited")
  /\ UNCHANGED <<mainVars, g_flow_mutex, g_flow_step, spurious>>

(* writer_thread *)

WrLock(t) ==
  /\ pc[t] = "wrlock"
  /\ rdLocks = {} /\ wrLock = NoThread
  /\ wrLock' = t
  /\ Goto(t, "work")
  /\ UNCHANGED <<mainVars, g_flow_mutex, rdLocks, g_flow_step, spurious>>

Advance(t) ==
  /\ pc[t] = "advance"
  /\ g_flow_step' = g_flow_step + 1
  /\ Goto(t, "broadcast")
  /\ UNCHANGED <<mainVars, g_flow_mutex, rdLocks, wrLock, spurious>>

Broadcast(t) ==
  /\ pc[t] = "broadcast"
  /\ pc' = [u \in Threads |->
              IF u = t THEN "unlock" ELSE IF pc[u] = "wait" THEN "lock" ELSE pc[u]]
  /\ UNCHANGED <<mainVars, g_flow_mutex, rdLocks, wrLock, g_flow_step, spurious>>

Unlock(t) ==
  /\ pc[t] = "unlock"
  /\ g_flow_mutex' = NoThread
  /\ Goto(t, "rwunlock")
  /\ UNCHANGED <<mainVars, rdLocks, wrLock, g_flow_step, spurious>>

writer_thread(t) == WrLock(t) \/ Advance(t) \/ Broadcast(t) \/ Unlock(t)

(* reader_thread *)

SpuriousWake(t) ==
  /\ pc[t] = "wait"
  /\ spurious < MaxSpurious
  /\ spurious' = spurious + 1
  /\ Goto(t, "lock")
  /\ UNCHANGED <<mainVars, g_flow_mutex, rdLocks, wrLock, g_flow_step>>

(* Either way the mutex is free afterwards: given up by pthread_cond_wait  *)
(* or unlocked behind the loop.                                            *)
TestStep(t) ==
  /\ pc[t] = "test"
  /\ Goto(t, IF g_flow_step = 0 THEN "wait" ELSE "rdlock")
  /\ g_flow_mutex' = NoThread
  /\ UNCHANGED <<mainVars, rdLocks, wrLock, g_flow_step, spurious>>

(* Mutant: the read lock is granted next to the write lock. *)
RdLockAlways(t) ==
  /\ pc[t] = "rdlock"
  /\ rdLocks' = rdLocks \cup {t}
  /\ Goto(t, "work")
  /\ UNCHANGED <<mainVars, g_flow_mutex, wrLock, g_flow_step, spurious>>

RdLock(t) ==
  /\ pc[t] = "rdlock"
  /\ wrLock = NoThread
  /\ rdLocks' = rdLocks \cup {t}
  /\ Goto(t, "work")
  /\ UNCHANGED <<mainVars, g_flow_mutex, wrLock, g_flow_step, spurious>>

reader_thread(t) == TestStep(t) \/ RdLock(t)

Thread(t) == Lock(t) \/ Work(t) \/ rwUnlock(t) \/ writer_thread(t) \/ reader_thread(t)

Terminated == mpc = "done" /\ UNCHANGED vars

Next ==
  \/ Main
  \/ \E t \in Threads : Thread(t) \/ SpuriousWake(t)
  \/ Terminated

Spec == Init /\ [][Next]_vars

FairSpec == Spec /\ WF_vars(Main) /\ \A t \in Threads : WF_vars(Thread(t))

-----------------------------------------------------------------------------

(* What the read-write lock adds: readers work only after the writer has   *)
(* left its last unlock, although it frees the mutex before.               *)
ReadersAfterWriter ==
  \A t \in Readers : pc[t] \in {"work", "rwunlock"} => pc[Writer] = "exited"

(* The program ends: the writer holds one lock while it waits for another, *)
(* readers wait for both one after the other, and all get through.         *)
MainReturns == <>(mpc = "done")

=============================================================================
