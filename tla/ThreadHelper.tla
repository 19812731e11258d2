---------------------------- MODULE ThreadHelper ----------------------------
(***************************************************************************)
(* The constructor of utils::ThreadHelper: it checks the mapping step and  *)
(* places thread i on a core, filling the cores group by group with a      *)
(* stride of thread_step.  Every combination of the four arguments within  *)
(* the bounds is a run of its own.  uint32_t arithmetic is modulo Word.    *)
(***************************************************************************)
EXTENDS Naturals, FiniteSets

CONSTANTS
  MaxThreads,   \* bound on num_threads
  MaxCores,     \* bound on num_cores
  MaxStep,      \* bound on thread_step
  MaxStart,     \* bound on core_id_start
  Word          \* number of values of a uint32_t

ASSUME HelperAssumption ==
  /\ {MaxThreads, MaxCores, MaxStep, MaxStart, Word} \subseteq Nat
  /\ MaxCores > 0
  /\ \A n \in {MaxThreads, MaxCores, MaxStep, MaxStart} : n < Word

VARIABLES
  arg,       \* the constructor's arguments
  status,    \* "check", "mapping", "ready", "exit" (exit(1)) or "sigfpe"
  i,         \* the mapping loop's index
  core       \* core[t]: core of thread t, from attrs_[t] and packets_[t]

helperVars == <<arg, status, i, core>>

Arguments ==
  [num_threads : 1 .. MaxThreads, num_cores : 1 .. MaxCores,
   thread_step : 0 .. MaxStep, core_id_start : 0 .. MaxStart]

HelperInit ==
  /\ arg \in Arguments
  /\ status = "check"
  /\ i = 0
  /\ core = << >>

(* num_cores % 0 traps; a remainder is reported and ends the program.  (The *)
(* message prints num_threads behind the words num_cores=.)                *)
Check ==
  /\ status = "check"
  /\ status' = IF arg.thread_step = 0 THEN "sigfpe"
               ELSE IF arg.num_cores % arg.thread_step > 0 THEN "exit"
               ELSE "mapping"
  /\ UNCHANGED <<arg, i, core>>

group_size == arg.num_cores \div arg.thread_step

(* Mutant: the offset within a group is not spread by the step. *)
CoreUnspread(t) ==
  (arg.core_id_start + (t \div group_size) + (t % group_size)) % arg.num_cores

core_id(t) ==
  LET group_id == t \div group_size
      group_offset == t % group_size
  IN ((arg.core_id_start + group_id + group_offset * arg.thread_step) % Word) % arg.num_cores

(* One round of the loop: affinity and packet of thread i. *)
MapThread ==
  /\ status = "mapping"
  /\ i < arg.num_threads
  /\ core' = [t \in 0 .. i |-> IF t = i THEN core_id(i) ELSE core[t]]
  /\ i' = i + 1
  /\ UNCHANGED <<arg, status>>

Ready ==
  /\ status = "mapping"
  /\ i = arg.num_threads
  /\ status' = "ready"
  /\ UNCHANGED <<arg, i, core>>

Finished == status \in {"ready", "exit", "sigfpe"} /\ UNCHANGED helperVars

HelperNext == Check \/ MapThread \/ Ready \/ Finished

HelperSpec == HelperInit /\ [][HelperNext]_helperVars

-----------------------------------------------------------------------------

(* The sums of the mapping stay below 2^32, or wrap around without harm    *)
(* because the number of cores divides 2^32.                               *)
NoSkip ==
  \/ arg.core_id_start + arg.num_threads + arg.num_cores < Word
  \/ Word % arg.num_cores = 0

(* How many of the placed threads sit on core c. *)
Load(c) == Cardinality({t \in DOMAIN core : core[t] = c})

(* The placement is as even as it can be: while the loop runs no core gets *)
(* its next thread before every core has one, so the threads of a          *)
(* benchmark share a core only when there are more threads than cores.     *)
Balanced ==
  NoSkip => \A c, d \in 0 .. arg.num_cores - 1 : Load(c) <= Load(d) + 1

=============================================================================
