------------------------------ MODULE RdwrMain ------------------------------
(***************************************************************************)
(* The mains of multiple_rdwr and smt_rdwr around ThreadHelper: the        *)
(* construction of their MemSetups, with sizes in uint32_t (modulo Word),  *)
(* the thread mapping, and then                                            *)
(*   multiple_rdwr  the ring of threads over one MemSetup, which module    *)
(*                  RdwrFlow takes up (stage "flow");                      *)
(*   smt_rdwr       two threads with a MemSetup each: warm_up, and timed   *)
(*                  passes under a mutex of their own, up to the report.   *)
(* pthread_create may fail, which nobody checks.  The chase itself is      *)
(* PointerList's, here one pass is one step.                               *)
(***************************************************************************)
EXTENDS ThreadHelper

CONSTANTS
  Commands,   \* records of prog, region_size, page_size, stride, pattern0,
              \* pattern1, partition_size, num_iterations0, num_iterations1
  Usual,      \* the one that is tried with every thread mapping
  Kilo        \* bytes of a KB (1024)

ASSUME MainAssumption ==
  /\ Kilo \in Nat \ {0} /\ Usual \in Commands
  /\ \A r \in Commands :
       /\ r.prog \in {"multiple_rdwr", "smt_rdwr"}
       /\ {r.region_size, r.page_size, r.stride, r.partition_size,
           r.num_iterations0, r.num_iterations1} \subseteq Nat
       /\ r.prog = "smt_rdwr" => r.partition_size = r.region_size

Thread == {0, 1}   \* the threads of smt_rdwr
MainThread == 2
All == <<"all", MainThread>>   \* key of main's timer

VARIABLES
  cmd,     \* command line
  stage,   \* "setup", "map", "create", "join", "report", or the end: "flow",
           \* "returned", "exit", "sigfpe", "abort", "segv"
  setup,   \* index of the MemSetup under construction
  part,    \* mem_regions_ it has built
  next,    \* loop index of create and join
  tpc,     \* tpc[t]: next step of thread t
  passes,  \* passes[t]: passes made by thread t after warm_up
  laps,    \* laps[t]: intervals added to its timer_
  pool,    \* owners of the keys in g_timer_map
  missed   \* some end_timer did not find the timer its caller had started

mainVars == <<cmd, stage, setup, part, next>>
threadVars == <<tpc, passes, laps, pool, missed>>
allVars == <<helperVars, mainVars, threadVars>>

(* smt_rdwr has two threads and counts cores from 0. *)
MainInit ==
  /\ \/ cmd = Usual
     \/ /\ cmd \in Commands
        /\ arg = [num_threads |-> 2, num_cores |-> 2, thread_step |-> 1, core_id_start |-> 0]
  /\ HelperInit
  /\ stage = "setup"
  /\ setup = 0 /\ part = 0 /\ next = 0
  /\ tpc = [t \in Thread |-> "none"]
  /\ passes = [t \in Thread |-> 0]
  /\ laps = [t \in Thread |-> 0]
  /\ pool = << >> /\ missed = FALSE

NumSetups == IF cmd.prog = "smt_rdwr" THEN 2 ELSE 1
num_iterations(t) == IF t = 0 THEN cmd.num_iterations0 ELSE cmd.num_iterations1

-----------------------------------------------------------------------------
(* MemSetup *)

num_partitions == cmd.region_size \div cmd.partition_size

Bytes(kb) == (Kilo * kb) % Word

region == Bytes(cmd.partition_size)
page == Bytes(cmd.page_size)
pattern == IF setup = 0 THEN cmd.pattern0 ELSE cmd.pattern1
numActiveLines == (region \div page) * (page \div cmd.stride)

(* Constructing a region and writing its list: division by the page and    *)
(* line size, a stride list without memory, a shuffle of no lines, or a    *)
(* list (an empty one for random lines of no page).                        *)
Outcome ==
  IF page = 0 \/ cmd.stride = 0 THEN "sigfpe"
  ELSE IF pattern = "stride" THEN (IF region = 0 THEN "abort" ELSE "built")
  ELSE IF pattern = "pageRand" THEN (IF page \div cmd.stride = 0 THEN "sigfpe" ELSE "built")
  ELSE IF pattern = "allRand" THEN (IF numActiveLines = 0 THEN "sigfpe" ELSE "built")
  ELSE "exit"

MemRegionExt ==
  /\ stage = "setup" /\ cmd.partition_size > 0 /\ part < num_partitions
  /\ IF Outcome = "built" THEN part' = part + 1 /\ UNCHANGED stage
     ELSE stage' = Outcome /\ UNCHANGED part
  /\ UNCHANGED <<helperVars, cmd, setup, next, threadVars>>

(* The member initialisers divide by the partition size; with no partition *)
(* not even the pattern is looked at.                                      *)
MemSetup ==
  /\ stage = "setup"
  /\ \/ cmd.partition_size = 0 /\ stage' = "sigfpe" /\ UNCHANGED <<setup, part>>
     \/ /\ cmd.partition_size > 0 /\ part = num_partitions
        /\ setup' = setup + 1
        /\ IF setup' < NumSetups THEN part' = 0 /\ UNCHANGED stage
           ELSE stage' = "map" /\ UNCHANGED part
  /\ UNCHANGED <<helperVars, cmd, next, threadVars>>

-----------------------------------------------------------------------------
(* main *)

(* ThreadHelper's constructor. *)
MapThreads ==
  /\ stage = "map"
  /\ Check \/ MapThread \/ Ready
  /\ stage' = IF status' \in {"exit", "sigfpe"} THEN status' ELSE stage
  /\ UNCHANGED <<cmd, setup, part, next, threadVars>>

(* In multiple_rdwr without partitions the threads have nothing to do, and *)
(* the report then looks for the first region.  main starts timer "all".   *)
StartThreads ==
  /\ stage = "map" /\ status = "ready"
  /\ stage' = IF cmd.prog = "smt_rdwr" THEN "create"
              ELSE IF num_partitions = 0 THEN "segv" ELSE "flow"
  /\ pool' = IF cmd.prog = "smt_rdwr" THEN [key \in {All} |-> MainThread] ELSE pool
  /\ UNCHANGED <<helperVars, cmd, setup, part, next, tpc, passes, laps, missed>>

create ==
  /\ stage = "create"
  /\ \E first \in {"warmup", "none"} : tpc' = [tpc EXCEPT ![next] = first]
  /\ IF next = 1 THEN stage' = "join" /\ next' = 0
     ELSE next' = next + 1 /\ UNCHANGED stage
  /\ UNCHANGED <<helperVars, cmd, setup, part, passes, laps, pool, missed>>

(* Mutant: main does not wait for its threads. *)
JoinNothing ==
  /\ stage = "join"
  /\ stage' = IF next = 1 THEN "report" ELSE stage
  /\ next' = (next + 1) % 2
  /\ UNCHANGED <<helperVars, cmd, setup, part, threadVars>>

(* Mutant: main waits for a thread that never ran. *)
JoinWaits ==
  /\ stage = "join" /\ tpc[next] = "exited"
  /\ stage' = IF next = 1 THEN "report" ELSE stage
  /\ next' = (next + 1) % 2
  /\ UNCHANGED <<helperVars, cmd, setup, part, threadVars>>

(* The identifier of a thread that could not be created is still 0, or     *)
(* that of a thread which is gone: join crashes, or comes back at once.    *)
join ==
  /\ stage = "join" /\ tpc[next] \in {"none", "exited"}
  /\ \/ tpc[next] = "none" /\ stage' = "segv"
     \/ stage' = IF next = 1 THEN "report" ELSE stage
  /\ next' = (next + 1) % 2
  /\ UNCHANGED <<helperVars, cmd, setup, part, threadVars>>

Keep(keys) == [key \in keys |-> pool[key]]

(* end_timer("all"), and dumpTimer of both packets. *)
Report ==
  /\ stage = "report"
  /\ missed' = (missed \/ All \notin DOMAIN pool)
  /\ pool' = Keep(DOMAIN pool \ {All})
  /\ stage' = "returned"
  /\ UNCHANGED <<helperVars, cmd, setup, part, next, tpc, passes, laps>>

-----------------------------------------------------------------------------
(* thread_rmw of smt_rdwr.  The two threads use different MemSetups, so    *)
(* that the mutex of a partition is always free.                           *)

ThreadsRun == stage \in {"create", "join"}
Continue(t, label) == tpc' = [tpc EXCEPT ![t] = label]

(* post_fix is the thread number. *)
Key(t) == <<"warmup", t>>

WarmStart(t) ==
  /\ ThreadsRun /\ tpc[t] = "warmup"
  /\ pool' = [key \in DOMAIN pool \cup {Key(t)} |-> IF key = Key(t) THEN t ELSE pool[key]]
  /\ Continue(t, "warm")
  /\ UNCHANGED <<helperVars, mainVars, passes, laps, missed>>

(* The pass of warm_up takes the start point, which asserts that there is  *)
(* memory; then the timer goes.                                            *)
WarmEnd(t) ==
  /\ ThreadsRun /\ tpc[t] = "warm"
  /\ IF region = 0 THEN stage' = "abort" /\ UNCHANGED <<tpc, pool, missed>>
     ELSE /\ missed' = (missed \/ Key(t) \notin DOMAIN pool \/ pool[Key(t)] # t)
          /\ pool' = Keep(DOMAIN pool \ {Key(t)})
          /\ Continue(t, "loop")
          /\ UNCHANGED stage
  /\ UNCHANGED <<helperVars, cmd, setup, part, next, passes, laps>>

(* Every pass is timed, the first one too. *)
Pass(t) ==
  /\ ThreadsRun /\ tpc[t] = "loop" /\ passes[t] < num_iterations(t)
  /\ passes' = [passes EXCEPT ![t] = @ + 1]
  /\ laps' = [laps EXCEPT ![t] = @ + 1]
  /\ UNCHANGED <<helperVars, mainVars, tpc, pool, missed>>

Exit(t) ==
  /\ ThreadsRun /\ tpc[t] = "loop" /\ passes[t] = num_iterations(t)
  /\ Continue(t, "exited")
  /\ UNCHANGED <<helperVars, mainVars, passes, laps, pool, missed>>

-----------------------------------------------------------------------------

Main == MemRegionExt \/ MemSetup \/ MapThreads \/ StartThreads \/ create \/ join \/ Report

thread_rmw(t) == WarmStart(t) \/ WarmEnd(t) \/ Pass(t) \/ Exit(t)

Ended == {"flow", "returned", "exit", "sigfpe", "abort", "segv"}
Stay == stage \in Ended /\ UNCHANGED allVars

MainNext == Main \/ (\E t \in Thread : thread_rmw(t)) \/ Stay

(* main and the threads are scheduled as long as they can run. *)
MainSpec ==
  /\ MainInit /\ [][MainNext]_allVars
  /\ WF_allVars(Main) /\ \A t \in Thread : WF_allVars(thread_rmw(t))

-----------------------------------------------------------------------------

(* smt_rdwr reports only what has been done: each thread that could be     *)
(* created has ended, every pass it was asked for was made and timed, over *)
(* memory that is not empty although its size has been cut to 32 bits; no  *)
(* time is reported for a thread that was not created; and each timer of   *)
(* the pool was ended by the thread that started it.                       *)
RunComplete ==
  /\ ~missed
  /\ stage = "returned" =>
       /\ pool = << >>
       /\ \A t \in Thread :
            \/ tpc[t] = "none" /\ laps[t] = 0
            \/ /\ tpc[t] = "exited" /\ region > 0
               /\ passes[t] = num_iterations(t) /\ laps[t] = passes[t]

(* Both programs come to an end or to the ring, also when a thread cannot  *)
(* be created: join does not wait for it.                                  *)
MainEnds == <>(stage \in Ended)

=============================================================================
