-------------------------------- MODULE LatBw --------------------------------
(***************************************************************************)
(* The programs lat_mem_rd and bw_mem over a MemRegion: construct the      *)
(* region, write the list (lat_mem_rd), check the sizes, run the benchmark *)
(* function for warm-up and under the timer, migrate and run again if      *)
(* asked to, and destroy the region on return.  A third program, "client", *)
(* makes one pass of any chase over a list, as the loops of multiple_rdwr  *)
(* and smt_rdwr do.  The region is RegionAlloc's, the lists PointerList's. *)
(***************************************************************************)
EXTENDS Integers, Sequences

CONSTANTS
  Runs,      \* records of prog, action, region (constructor arguments),
             \* warmup_iteration, main_iteration, migrate
  Pointer,   \* bytes of a pointer, and of a word a kernel accesses: 8
  OsPage,    \* os_page_size_, in bytes
  Unroll,    \* loop_unroll: loads per round of benchmark_loads
  LoopSize,  \* loop_size: bytes per round of a bandwidth kernel, 1 KB
  Step       \* bytes between two accesses of a kernel (half a line)

ASSUME LatBwAssumption ==
  /\ {Pointer, OsPage, Unroll, LoopSize, Step} \subseteq Nat \ {0}
  /\ LoopSize % Step = 0 /\ Pointer <= Step
  /\ \A r \in Runs :
       /\ r.prog \in {"client", "lat_mem_rd", "bw_mem"}
       /\ r.region \in [size : Nat, size2 : Nat, active_size : Nat,
                        page_size : Nat \ {0}, line_size : Nat \ {0},
                        mem_type : {"NATIVE", "REMOTE1", "REMOTE2", "DEVICE"},
                        use_hugepage : BOOLEAN]
       /\ {r.warmup_iteration, r.main_iteration} \subseteq Nat

VARIABLES
  run,       \* the command line
  stage,     \* "construct", "init", "check", "run", "return", "returned",
             \* "died" (exit, failed assert or signal)
  todo,      \* phases main still has to go through
  left,      \* num_iter of the benchmark function
  refs,      \* references made in the present phase
  reported,  \* references the timer divided the last phase by, or -1
  c, status, pattern, link, mode, p, p2, k, touched,      \* see PointerList
  astatus, addr, raw, rawSize, held, fdOpen, moved        \* see RegionAlloc

mainVars == <<run, stage, todo, left, refs, reported>>
listVars == <<c, status, pattern, link, mode, p, p2, k, touched>>
allocVars == <<astatus, addr, raw, rawSize, held, fdOpen, moved>>
vars == <<mainVars, listVars, allocVars>>

Copies == run.action = "pcp"

(* Mutant: the active size is not doubled, so half of it is too near. *)
RegionHalfActive(r) ==
  IF r.action = "pcp" THEN [r.region EXCEPT !.size = 2 * @] ELSE r.region

(* bw_mem doubles size and active size of the region for a copy. *)
RegionOf(r) ==
  IF r.action = "pcp" THEN [r.region EXCEPT !.size = 2 * @, !.active_size = 2 * @]
  ELSE r.region

Regions == {RegionOf(r) : r \in Runs}

List == INSTANCE PointerList
          WITH Configs <- Regions,
               Patterns <- {"stride", "pageRand", "allRand", "other"}

Alloc == INSTANCE RegionAlloc
           WITH Args <- Regions, arg <- c, status <- astatus

Init ==
  /\ run \in Runs
  /\ c = RegionOf(run)
  /\ List!Init
  /\ Alloc!Init
  /\ run.prog = "bw_mem" => pattern = "other"
  /\ run.prog = "client" => pattern # "other"
  /\ stage = "construct"
  /\ todo = IF run.migrate THEN <<"warmup", "timed", "migrate", "warmup", "timed">>
            ELSE <<"warmup", "timed">>
  /\ left = 0 /\ refs = 0 /\ reported = -1

-----------------------------------------------------------------------------
(* Up to the first phase *)

(* bw_mem knows four actions; for any other it prints its usage. *)
KnownAction == run.prog = "bw_mem" => run.action \in {"prd", "pwr", "prmw", "pcp"}

UnknownAction ==
  /\ stage = "construct" /\ ~KnownAction
  /\ stage' = "returned"
  /\ UNCHANGED <<run, todo, left, refs, reported, listVars, allocVars>>

Construct ==
  /\ stage = "construct" /\ KnownAction
  /\ Alloc!CheckSizes \/ Alloc!AllocRegion1 \/ Alloc!AllocRegion2
  /\ stage' = IF astatus' \in {"exit", "segv"} THEN "died"
              ELSE IF astatus' # "built" THEN "construct"
              ELSE IF run.prog = "bw_mem" THEN "check" ELSE "init"
  /\ UNCHANGED <<run, todo, left, refs, reported>>
  /\ UNCHANGED <<status, pattern, link, mode, p, p2, k, touched>>

InitList ==
  /\ stage = "init"
  /\ List!stride_init \/ List!page_random_init \/ List!all_random_init
  /\ stage' = IF status' # "linked" THEN "died"
              ELSE IF run.prog = "client" THEN "run" ELSE "check"
  /\ UNCHANGED <<run, todo, left, refs, reported, allocVars>>

(* The region is destroyed on the way out of main. *)
UnknownPattern ==
  /\ stage = "init" /\ pattern = "other"
  /\ stage' = "return"
  /\ UNCHANGED <<run, todo, left, refs, reported, listVars, allocVars>>

(* Rounds of the unrolled loop in one pass of the benchmark function. *)
loop_count ==
  IF run.prog = "bw_mem" THEN run.region.active_size \div LoopSize
  ELSE List!numActiveLines \div Unroll

(* Loads, or rounds of a kernel, in one pass. *)
PassLength == IF run.prog = "bw_mem" THEN loop_count ELSE loop_count * Unroll

(* Mutant: no check that the unrolled loop makes a whole pass. *)
Divides == TRUE

(* The asserts of the two mains on their input. *)
InputCheck ==
  IF run.prog = "bw_mem" THEN run.region.active_size % LoopSize = 0
  ELSE List!numActiveLines % Unroll = 0

Check ==
  /\ stage = "check"
  /\ stage' = IF InputCheck THEN "run" ELSE "died"
  /\ UNCHANGED <<run, todo, left, refs, reported, listVars, allocVars>>

-----------------------------------------------------------------------------
(* The phases *)

Benchmark == stage = "run" /\ run.prog # "client" /\ todo # << >>

(* benchmark_loads and the kernels first take the start point, a copy also *)
(* the half point, which assert that there is memory.  The loop counter is *)
(* set as after a pass.                                                    *)
Enter ==
  /\ Benchmark /\ status \notin {"chasing", "abort"} /\ Head(todo) # "migrate"
  /\ IF List!Asserts(0) \/ (Copies /\ List!Asserts(List!half))
     THEN status' = "abort" /\ stage' = "died"
     ELSE status' = "chasing" /\ UNCHANGED stage
  /\ left' = IF Head(todo) = "timed" THEN run.main_iteration ELSE run.warmup_iteration
  /\ k' = PassLength
  /\ refs' = 0 /\ reported' = -1
  /\ touched' = << >>
  /\ UNCHANGED <<run, todo, c, pattern, link, mode, p, p2, allocVars>>

(* Where a kernel accesses a word in a region of n bytes. *)
Accessed(n) == {o \in 0 .. n - 1 : o % Step = 0}

(* Every pass starts over. *)
NextPass ==
  /\ Benchmark /\ status = "chasing"
  /\ k = PassLength /\ left > 0
  /\ left' = left - 1
  /\ p' = List!getStartPoint
  /\ p2' = IF Copies THEN List!getHalfPoint ELSE p2
  /\ k' = 0
  /\ touched' = IF run.prog = "lat_mem_rd" THEN [a \in DOMAIN link |-> 0]
                ELSE [a \in {List!getOffsetAddr_(o) : o \in Accessed(c.size)} |-> 0]
  /\ UNCHANGED <<run, stage, todo, refs, reported, c, status, pattern, link, mode, allocVars>>

(* One load of LOOP256. *)
Load ==
  /\ Benchmark /\ run.prog = "lat_mem_rd" /\ k < PassLength
  /\ List!ChaseStep
  /\ refs' = refs + 1
  /\ stage' = IF status' = "chasing" THEN stage ELSE "died"
  /\ UNCHANGED <<run, todo, left, reported, allocVars>>

From(a) == {<<a[1], a[2] + o>> : o \in Accessed(LoopSize)}

Ahead(a) == <<a[1], a[2] + LoopSize>>

(* One round of benchmark_prd, benchmark_pwr, benchmark_prmw (on p) or     *)
(* benchmark_pcp (from p to p2): accesses at fixed distances from a plain  *)
(* pointer that is then moved on.  An access outside the regions is an     *)
(* overrun.                                                                *)
Kernel ==
  LET used == From(p) \cup (IF Copies THEN From(p2) ELSE {}) IN
  /\ Benchmark /\ run.prog = "bw_mem"
  /\ status = "chasing" /\ k < PassLength
  /\ IF \A a \in used : List!InRegion(a)
     THEN /\ touched' = [a \in DOMAIN touched |->
                           IF a \in used THEN touched[a] + 1 ELSE touched[a]]
          /\ p' = Ahead(p)
          /\ p2' = IF Copies THEN Ahead(p2) ELSE p2
          /\ k' = k + 1
          /\ refs' = refs + LoopSize \div Step
          /\ UNCHANGED <<status, stage>>
     ELSE /\ status' = "overrun" /\ stage' = "died"
          /\ UNCHANGED <<touched, p, p2, k, refs>>
  /\ UNCHANGED <<run, todo, left, reported, c, pattern, link, mode, allocVars>>

(* What end_timer divides by: all active lines, or the active half lines,  *)
(* of every iteration.                                                     *)
num_refs ==
  run.main_iteration *
    (IF run.prog = "bw_mem" THEN run.region.active_size \div Step ELSE List!numActiveLines)

EndPhase ==
  /\ Benchmark /\ status = "chasing"
  /\ k = PassLength /\ left = 0
  /\ reported' = IF Head(todo) = "timed" THEN num_refs ELSE -1
  /\ todo' = Tail(todo)
  /\ status' = "linked"
  /\ UNCHANGED <<run, stage, left, refs, c, pattern, link, mode, p, p2, k, touched, allocVars>>

(* Only lat_mem_rd migrates. *)
Migrate ==
  /\ Benchmark /\ Head(todo) = "migrate"
  /\ Alloc!migrate
  /\ todo' = Tail(todo)
  /\ UNCHANGED <<run, stage, left, refs, reported>>
  /\ UNCHANGED <<status, pattern, link, mode, p, p2, k, touched>>

-----------------------------------------------------------------------------

(* A client's single pass. *)
ClientChase ==
  /\ stage = "run" /\ run.prog = "client"
  /\ List!BeginChase \/ List!ChaseStep \/ List!EndChase
  /\ stage' = IF status' = "chasing" THEN "run" ELSE IF status' = "chased" THEN "return" ELSE "died"
  /\ UNCHANGED <<run, todo, left, refs, reported, allocVars>>

Leave ==
  /\ stage = "run" /\ todo = << >>
  /\ stage' = "return"
  /\ UNCHANGED <<run, todo, left, refs, reported, listVars, allocVars>>

(* The handle goes out of scope. *)
Return ==
  /\ stage = "return"
  /\ Alloc!Destroy
  /\ stage' = "returned"
  /\ UNCHANGED <<run, todo, left, refs, reported>>
  /\ UNCHANGED <<status, pattern, link, mode, p, p2, k, touched>>

Finished == stage \in {"returned", "died"} /\ UNCHANGED vars

Next ==
  \/ UnknownAction \/ Construct \/ InitList \/ UnknownPattern \/ Check
  \/ Enter \/ NextPass \/ Load \/ Kernel \/ EndPhase \/ Migrate
  \/ ClientChase \/ Leave \/ Return \/ Finished

Spec == Init /\ [][Next]_vars

-----------------------------------------------------------------------------

(* The chases over lists. *)
Chasing == run.prog # "bw_mem"

(* When the active size fits, no store of a list begins outside the two    *)
(* regions, whatever the page and line sizes; when these are whole         *)
(* pointers, none ends outside either (the stores through getOffsetAddr_). *)
(* With other strides the last store may end behind the region.            *)
StaysInside == Chasing => List!StaysInside

(* One pass of numActiveLines() chases uses every line exactly once and    *)
(* ends where it began, for each pattern and every outcome of rand(): the  *)
(* time per reference divides by that number.                              *)
OnePassCoversAll == List!OnePassCoversAll

(* Two streams of half the length share the work without meeting, when the *)
(* half point is half-way round the circle: for the stride, and for random *)
(* lines within an even number of pages.                                   *)
StreamsDisjoint == List!StreamsDisjoint

(* With regular sizes no chase follows a null pointer, and no increment of *)
(* a payload word hits a pointer of the list or memory behind the region,  *)
(* in any pass, before and after the pages have moved.                     *)
NeverLost == Chasing => List!NeverLost

(* A region that the constructor hands out starts on an OS page and lies   *)
(* within the memory obtained for it, wherever malloc put that, and no     *)
(* page is migrated that is not the region's alone.                        *)
RegionInsideBlock == Alloc!RegionInsideBlock

(* Every way of obtaining memory is undone by its own counterpart, and the *)
(* destructor leaves neither memory nor the device's descriptor behind,    *)
(* whichever way main returns.                                             *)
ReleasedAsObtained ==
  /\ Alloc!ReleasedAsObtained
  /\ stage = "returned" => \A r \in Alloc!Region : held[r] = "none"

(* The time of a phase is divided by the number of references the phase    *)
(* has made, after a migration as before it.                               *)
WorkAsReported == reported >= 0 => reported = refs

(* A pass of a bandwidth kernel that ends has accessed each half line of   *)
(* the active part once (for a copy: of source and of destination) and no  *)
(* other; with a single region that holds the active size it does end.     *)
KernelCovers ==
  run.prog = "bw_mem" =>
    /\ status = "chasing" /\ k = PassLength =>
         \A a \in DOMAIN touched :
           touched[a] = IF \E o \in Accessed(c.active_size) : a = List!getOffsetAddr_(o)
                        THEN 1 ELSE 0
    /\ c.size2 = 0 /\ c.active_size <= c.size => status # "overrun"

(* Of the usage of bw_mem, which offers a second region as a "subset of    *)
(* total size": sizes that fit keep the kernel inside the regions.         *)
BwInsideRegions ==
  run.prog = "bw_mem" /\ c.size2 <= c.size /\ c.active_size <= c.size
    => status # "overrun"

=============================================================================
