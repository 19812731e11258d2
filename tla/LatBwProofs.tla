----------------------------- MODULE LatBwProofs -----------------------------
(***************************************************************************)
(* Proofs about the regions of LatBw, the work its programs report, the    *)
(* words a kernel covers and the lists a chase follows, for all sizes,     *)
(* kinds of memory, patterns, outcomes of rand(), iterations and           *)
(* unrollings.  No induction over a list is needed: each pattern writes    *)
(* the lines in some order, and the invariant of the chase says which      *)
(* place of that order the pointer has come to.                            *)
(***************************************************************************)
EXTENDS LatBw, FiniteSetTheorems, TLAPS

(* The parameters in force. *)
ArgsInv == run \in Runs /\ c = RegionOf(run)

-----------------------------------------------------------------------------
(* The inductive invariant of the regions *)

AllocType ==
  /\ astatus \in {"check", "alloc1", "alloc2", "built", "migrated", "destroyed", "exit", "segv"}
  /\ addr \in [{1, 2} -> Nat] /\ raw \in [{1, 2} -> Nat]
  /\ rawSize \in [{1, 2} -> Int] /\ moved \in [{1, 2} -> Nat]
  /\ held \in [{1, 2} -> {"none", "malloc", "mmap", "numa"}]
  /\ fdOpen \in BOOLEAN

(* A region no memory has been obtained for. *)
Empty(r) == addr[r] = 0 /\ held[r] = "none"

(* A region with its memory: aligned, inside its block, and of a kind the  *)
(* destructor will give back as it was obtained.                           *)
Placed(r) ==
  /\ addr[r] # 0
  /\ addr[r] % OsPage = 0
  /\ raw[r] <= addr[r] /\ addr[r] + Alloc!Size(r) <= raw[r] + rawSize[r]
  /\ Alloc!Matches(held[r], Alloc!Release(r))

Ready(r) == IF Alloc!Size(r) > 0 THEN Placed(r) ELSE Empty(r)

AllocInv ==
  /\ astatus \in {"check", "alloc1"} => Empty(1) /\ Empty(2) /\ ~fdOpen
  /\ astatus \in {"alloc1", "alloc2", "built", "migrated"} =>
       Alloc!Size(1) \in Nat /\ Alloc!Size(2) \in Nat
  /\ astatus = "alloc2" => Ready(1) /\ Empty(2) /\ ~fdOpen
  /\ astatus \in {"built", "migrated"} =>
       /\ Ready(1) /\ Ready(2)
       /\ fdOpen => Alloc!Size(2) > 0 /\ c.mem_type = "DEVICE"
       /\ \A r \in {1, 2} : Alloc!Size(r) > 0 => moved[r] <= Alloc!Size(r)
  /\ astatus \in {"check", "alloc1", "alloc2", "built"} => moved[1] = 0 /\ moved[2] = 0
  /\ astatus = "destroyed" => held[1] = "none" /\ held[2] = "none" /\ ~fdOpen

(* main reaches its end with nothing held. *)
StageInv ==
  /\ stage = "construct" /\ ~KnownAction => held[1] = "none" /\ held[2] = "none"
  /\ stage = "returned" => held[1] = "none" /\ held[2] = "none"

-----------------------------------------------------------------------------
(* The inductive invariant of the work *)

(* How often the present phase runs the benchmark function, and the        *)
(* references made by one load or by one round of a kernel.                *)
Iterations == IF Head(todo) = "timed" THEN run.main_iteration ELSE run.warmup_iteration
Unit == IF run.prog = "bw_mem" THEN LoopSize \div Step ELSE 1

(* At the start of a phase, and between two passes, k stands at the end of *)
(* a pass; the pass now under way is not among those still left.           *)
WorkInv ==
  /\ todo \in Seq({"warmup", "timed", "migrate"})
  /\ refs \in Nat
  /\ stage \in {"construct", "init", "check"} => status \in {"built", "linked"}
  /\ status = "chasing" \/ run.prog = "client" => reported = -1
  /\ reported >= 0 => reported = refs
  /\ stage = "run" /\ run.prog # "client" => InputCheck
  /\ Benchmark /\ status = "chasing" =>
       /\ Head(todo) # "migrate"
       /\ left \in Nat /\ left <= Iterations
       /\ k \in Nat /\ k <= PassLength
       /\ refs + Unit * PassLength = Unit * ((Iterations - left) * PassLength + k)

-----------------------------------------------------------------------------
(* The inductive invariant of the kernels *)

(* How far the pass has come in words, and the kernel's pointer in the     *)
(* stream that begins at offset x.                                         *)
Distance == k * LoopSize
Linear(x, d) == <<List!getOffsetAddr_(x)[1], List!getOffsetAddr_(x)[2] + d>>

(* The pass, d words on, has come by offset x. *)
Behind(x, d) == x < d \/ (Copies /\ List!half <= x /\ x < List!half + d)

(* Inside a pass the pointers stand at the distance, and what is behind    *)
(* them has been accessed once.                                            *)
InPass ==
  /\ DOMAIN touched = {List!getOffsetAddr_(x) : x \in Accessed(c.size)}
  /\ \A x \in Accessed(c.size) :
       touched[List!getOffsetAddr_(x)] = IF Behind(x, Distance) THEN 1 ELSE 0
  /\ p = Linear(0, Distance)
  /\ Copies => p2 = Linear(List!half, Distance)

(* Before the first pass of a phase nothing has been touched. *)
KernelInv ==
  run.prog = "bw_mem" =>
    /\ stage # "init"
    /\ status = "chasing" => Benchmark
    /\ status = "chasing" => InPass \/ (DOMAIN touched = {} /\ k = PassLength)
    /\ c.size2 = 0 /\ c.active_size <= c.size => status # "overrun"

-----------------------------------------------------------------------------
(* The inductive invariant of the lists *)

(* The lists are read only, until a client's chase says otherwise. *)
ModeInv == run.prog # "client" \/ status \in {"built", "linked"} => mode = "read"

(* A list whose active part fits begins every store inside the regions,    *)
(* and reading it never leaves them.                                       *)
InsideInv == ModeInv /\ StaysInside

(* Only a client's pass ends as a chase. *)
ChasedInv == status = "chased" => run.prog = "client"

(* Sizes that fit into each other: the active part is a number of whole    *)
(* pages and of whole lines, each with room for a pointer.                 *)
Fits ==
  /\ 0 < c.active_size /\ c.active_size <= c.size
  /\ c.active_size % c.page_size = 0 /\ c.page_size % c.line_size = 0
  /\ List!Room(Pointer)

Lines == List!numActiveLines
Position == 0 .. Lines - 1

(* The pointer of a line, and a position on the circle of the lines. *)
At(x) == List!getOffsetAddr_(x * c.line_size)
Round(j) == IF j < Lines THEN j ELSE j - Lines

(* The patterns that have the half point half-way round the circle. *)
HalfWay == pattern = "stride" \/ (pattern = "pageRand" /\ List!num_active_pages % 2 = 0)

(* The list visits the lines in the order f, each of them once. *)
Circle(f) ==
  /\ f \in [Position -> Position] /\ f[0] = 0
  /\ \A i, j \in Position : f[i] = f[j] => i = j
  /\ HalfWay => f[Lines \div 2] = Lines \div 2
  /\ DOMAIN link = {At(f[j]) : j \in Position}
  /\ \A j \in Position : link[At(f[j])] = At(f[Round(j + 1)])

(* A client's chase stands at its k-th line, with those before it touched. *)
OneStream(f) ==
  /\ k <= Lines
  /\ p = At(f[Round(k)])
  /\ \A j \in Position : touched[At(f[j])] = IF j < k THEN 1 ELSE 0

(* The second of two streams begins at the place h of the half point. *)
TwoStreams(f) ==
  \E h \in Position :
    /\ f[h] = Lines \div 2
    /\ k <= Lines \div 2
    /\ p = At(f[Round(k)]) /\ p2 = At(f[Round(h + k)])
    /\ HalfWay => \A j \in Position :
                    touched[At(f[j])] = IF j < k \/ (h <= j /\ j < h + k) THEN 1 ELSE 0

(* Where the chase is: a client's, to the end of its single pass, and that *)
(* of lat_mem_rd, which is placed anew for every pass.                     *)
Stream(f) ==
  /\ run.prog = "client" /\ status \in {"chasing", "chased"} =>
       /\ k \in Nat
       /\ status = "chased" => k >= List!num_chases
       /\ mode # "dual" => OneStream(f)
       /\ mode = "dual" /\ Lines % 2 = 0 => TwoStreams(f)
  /\ run.prog # "client" /\ status = "chasing" /\ k < PassLength =>
       k \in Nat /\ p = At(f[k])

(* The list is in memory. *)
Written == status \in {"linked", "chasing", "chased"}

(* A list of fitting sizes is a circle with the chase on it, and so no     *)
(* chase of regular sizes is lost.                                         *)
ListInv ==
  Chasing =>
    /\ stage = "check" => status = "linked"
    /\ stage = "run" => status \in {"linked", "chasing"}
    /\ Fits /\ Written => \E f \in [Position -> Position] : Circle(f) /\ Stream(f)
    /\ List!NeverLost

IInv ==
  /\ ArgsInv /\ AllocType /\ AllocInv /\ StageInv /\ WorkInv
  /\ KernelInv /\ InsideInv /\ ChasedInv /\ ListInv

-----------------------------------------------------------------------------
(* Parameters *)

(* The constructor arguments, doubled for a copy, are sizes. *)
LEMMA RegionArgs ==
  ASSUME ArgsInv
  PROVE  /\ c.size \in Nat /\ c.size2 \in Nat /\ c.active_size \in Nat
         /\ c.page_size \in Nat \ {0} /\ c.line_size \in Nat \ {0}
         /\ c.mem_type \in {"NATIVE", "REMOTE1", "REMOTE2", "DEVICE"}
         /\ c.use_hugepage \in BOOLEAN
         /\ run.region.active_size \in Nat
         /\ run.warmup_iteration \in Nat /\ run.main_iteration \in Nat
<1> DEFINE R == [size : Nat, size2 : Nat, active_size : Nat,
                 page_size : Nat \ {0}, line_size : Nat \ {0},
                 mem_type : {"NATIVE", "REMOTE1", "REMOTE2", "DEVICE"},
                 use_hugepage : BOOLEAN]
<1>1. /\ run.region \in R
      /\ run.warmup_iteration \in Nat /\ run.main_iteration \in Nat
  BY LatBwAssumption DEF ArgsInv
<1>2. c \in R
  <2>1. CASE run.action = "pcp"
    <3>1. c = [run.region EXCEPT !.size = 2 * @, !.active_size = 2 * @]
      BY <2>1 DEF ArgsInv, RegionOf
    <3>2. 2 * run.region.size \in Nat /\ 2 * run.region.active_size \in Nat
      BY <1>1
    <3>3. QED
      BY <1>1, <3>1, <3>2
  <2>2. CASE run.action # "pcp"
    BY <1>1, <2>2 DEF ArgsInv, RegionOf
  <2>3. QED
    BY <2>1, <2>2
<1>3. QED
  BY <1>1, <1>2

(* The actions of main on its list, its loops and its phases. *)
Other == UnknownAction \/ InitList \/ UnknownPattern \/ Check \/ Enter \/ NextPass \/ Load
           \/ Kernel \/ EndPhase \/ ClientChase \/ Leave \/ Finished

LEMMA StepCases ==
  ASSUME [Next]_vars
  PROVE  Construct \/ Migrate \/ Return \/ Other \/ UNCHANGED vars
  BY DEF Next, Other

LEMMA ArgsFrame ==
  ASSUME [Next]_vars
  PROVE  run' = run /\ c' = c
<1>1. CASE Construct \/ Migrate \/ Return
  BY <1>1 DEF Construct, Migrate, Return, Alloc!CheckSizes, Alloc!AllocRegion1,
     Alloc!AllocRegion2, Alloc!migrate, Alloc!Destroy
<1>2. CASE InitList
  BY <1>2 DEF InitList, List!stride_init, List!page_random_init, List!all_random_init
<1>3. CASE Load \/ ClientChase
  BY <1>3 DEF Load, ClientChase, List!BeginChase, List!ChaseStep, List!EndChase
<1>4. CASE UnknownAction \/ UnknownPattern \/ Check \/ Enter \/ NextPass \/ Kernel \/ EndPhase
             \/ Leave
  BY <1>4 DEF UnknownAction, UnknownPattern, Check, Enter, NextPass, Kernel, EndPhase, Leave,
     listVars
<1>5. CASE Finished \/ UNCHANGED vars
  BY <1>5 DEF Finished, vars, mainVars, listVars
<1>6. QED
  BY <1>1, <1>2, <1>3, <1>4, <1>5, StepCases DEF Other

LEMMA OtherFrame ==
  ASSUME Other
  PROVE  UNCHANGED allocVars
  BY DEF Other, UnknownAction, InitList, UnknownPattern, Check, Enter, NextPass, Load, Kernel,
     EndPhase, ClientChase, Leave, Finished, vars

LEMMA ArgsStep ==
  ASSUME ArgsInv, [Next]_vars
  PROVE  ArgsInv'
  BY ArgsFrame DEF ArgsInv, RegionOf

-----------------------------------------------------------------------------
(* Obtaining memory *)

LEMMA Multiple ==
  ASSUME NEW d \in Nat \ {0}, NEW q \in Int, NEW x \in Int, x = q * d
  PROVE  x % d = 0
  OBVIOUS

(* Rounding up by hand: at most one page, and from an aligned address a    *)
(* whole one.                                                              *)
LEMMA Aligned ==
  ASSUME NEW a \in Nat
  PROVE  /\ Alloc!Align(a) \in Nat /\ Alloc!Align(a) % OsPage = 0
         /\ a < Alloc!Align(a) /\ Alloc!Align(a) <= a + OsPage
<1>1. OsPage \in Nat \ {0}
  BY LatBwAssumption
<1> DEFINE q == a \div OsPage
           r == a % OsPage
<1>2. q \in Int /\ r \in 0 .. OsPage - 1 /\ a = OsPage * q + r
  BY <1>1
<1>3. Alloc!Align(a) = (a + OsPage) - r
  BY <1>1 DEF Alloc!Align
<1> HIDE DEF q, r
<1>4. Alloc!Align(a) = (q + 1) * OsPage
  BY <1>1, <1>2, <1>3
<1>5. Alloc!Align(a) \in Nat /\ a < Alloc!Align(a) /\ Alloc!Align(a) <= a + OsPage
  BY <1>1, <1>2, <1>3
<1>6. Alloc!Align(a) % OsPage = 0
  BY <1>1, <1>2, <1>4, <1>5, Multiple
<1>7. QED
  BY <1>5, <1>6

(* What a call on behalf of region r comes to: the region is placed, or    *)
(* the program has ended; the other region is left alone.                  *)
Obtains(r) ==
  /\ addr' \in [{1, 2} -> Nat] /\ raw' \in [{1, 2} -> Nat] /\ rawSize' \in [{1, 2} -> Int]
  /\ held' \in [{1, 2} -> {"none", "malloc", "mmap", "numa"}]
  /\ astatus' \in {"exit", "segv"} \/ (astatus' = Alloc!After(r) /\ Placed(r)')
  /\ \A q \in {1, 2} : q # r =>
       /\ addr'[q] = addr[q] /\ raw'[q] = raw[q]
       /\ rawSize'[q] = rawSize[q] /\ held'[q] = held[q]

LEMMA Exits ==
  ASSUME AllocType, Alloc!Exit
  PROVE  Obtains(1) /\ Obtains(2)
  BY DEF Alloc!Exit, AllocType, Obtains

LEMMA Maps ==
  ASSUME AllocType, NEW r \in {1, 2}, Alloc!Size(r) \in Nat, c' = c, Alloc!MapRegion(r),
         Alloc!Release(r) = "munmap"
  PROVE  Obtains(r)
<1>1. CASE Alloc!Exit
  BY <1>1, Exits
<1>2. CASE ~Alloc!Exit
  <2> DEFINE a == 4 * r * OsPage
  <2>1. OsPage \in Nat \ {0}
    BY LatBwAssumption
  <2>2. a \in Nat /\ a # 0
    BY <2>1
  <2>3. a % OsPage = 0
    <3>1. 4 * r \in Int /\ a = (4 * r) * OsPage
      BY <2>1
    <3> HIDE DEF a
    <3>2. QED
      BY <2>1, <2>2, <3>1, Multiple
  <2>4. /\ addr' = [addr EXCEPT ![r] = a] /\ raw' = [raw EXCEPT ![r] = a]
        /\ rawSize' = [rawSize EXCEPT ![r] = Alloc!Size(r)]
        /\ held' = [held EXCEPT ![r] = "mmap"]
        /\ astatus' = Alloc!After(r)
    BY <1>2 DEF Alloc!MapRegion
  <2> HIDE DEF a
  <2>5. /\ addr'[r] = a /\ raw'[r] = a /\ rawSize'[r] = Alloc!Size(r) /\ held'[r] = "mmap"
    BY <2>4 DEF AllocType
  <2>6. /\ addr' \in [{1, 2} -> Nat] /\ raw' \in [{1, 2} -> Nat] /\ rawSize' \in [{1, 2} -> Int]
        /\ held' \in [{1, 2} -> {"none", "malloc", "mmap", "numa"}]
    BY <2>2, <2>4 DEF AllocType
  <2>7. Alloc!Size(r)' = Alloc!Size(r) /\ Alloc!Release(r)' = Alloc!Release(r)
    BY DEF Alloc!Size, Alloc!Release
  <2>8. Alloc!Matches("mmap", "munmap")
    BY DEF Alloc!Matches
  <2>9. Placed(r)'
    BY <2>2, <2>3, <2>5, <2>7, <2>8 DEF Placed
  <2>10. QED
    BY <2>4, <2>6, <2>9 DEF Obtains, AllocType
<1>3. QED
  BY <1>1, <1>2

LEMMA Aligns ==
  ASSUME AllocType, NEW r \in {1, 2}, Alloc!Size(r) \in Nat, c' = c,
         NEW call \in {"malloc", "numa"}, Alloc!AlignedRegion(r, call),
         Alloc!Matches(call, Alloc!Release(r))
  PROVE  Obtains(r)
<1>1. OsPage \in Nat \ {0} /\ Alloc!RawSize(r) \in Nat /\ Alloc!RawSize(r) = Alloc!Size(r) + OsPage
  BY LatBwAssumption DEF Alloc!RawSize
<1>2. CASE \E start \in 0 .. OsPage - 1 :
             LET a == 4 * r * OsPage + start IN
             /\ raw' = [raw EXCEPT ![r] = a]
             /\ rawSize' = [rawSize EXCEPT ![r] = Alloc!RawSize(r)]
             /\ addr' = [addr EXCEPT ![r] = Alloc!Align(a)]
             /\ held' = [held EXCEPT ![r] = call]
             /\ astatus' = Alloc!After(r)
  <2>1. PICK start \in 0 .. OsPage - 1 :
          /\ raw' = [raw EXCEPT ![r] = 4 * r * OsPage + start]
          /\ rawSize' = [rawSize EXCEPT ![r] = Alloc!RawSize(r)]
          /\ addr' = [addr EXCEPT ![r] = Alloc!Align(4 * r * OsPage + start)]
          /\ held' = [held EXCEPT ![r] = call]
          /\ astatus' = Alloc!After(r)
    BY <1>2
  <2> DEFINE a == 4 * r * OsPage + start
  <2>2. a \in Nat
    BY <1>1
  <2> HIDE DEF a
  <2>3. PICK b \in Nat : b = Alloc!Align(a) /\ b % OsPage = 0 /\ a < b /\ b <= a + OsPage
    BY <2>2, Aligned
  <2>4. /\ addr'[r] = b /\ raw'[r] = a /\ rawSize'[r] = Alloc!Size(r) + OsPage /\ held'[r] = call
    BY <1>1, <2>1, <2>3 DEF AllocType, a
  <2>5. /\ addr' \in [{1, 2} -> Nat] /\ raw' \in [{1, 2} -> Nat] /\ rawSize' \in [{1, 2} -> Int]
        /\ held' \in [{1, 2} -> {"none", "malloc", "mmap", "numa"}]
    BY <1>1, <2>1, <2>2, <2>3 DEF AllocType, a
  <2>6. Alloc!Size(r)' = Alloc!Size(r) /\ Alloc!Release(r)' = Alloc!Release(r)
    BY DEF Alloc!Size, Alloc!Release
  <2>7. b # 0 /\ a <= b /\ b + Alloc!Size(r) <= a + (Alloc!Size(r) + OsPage)
    BY <1>1, <2>2, <2>3
  <2>8. Placed(r)'
    <3>1. Alloc!Matches(held[r], Alloc!Release(r))'
      BY <2>4, <2>6 DEF Alloc!Matches
    <3>2. QED
      BY <2>3, <2>4, <2>6, <2>7, <3>1 DEF Placed
  <2>9. QED
    BY <2>1, <2>5, <2>8 DEF Obtains, AllocType
<1>3. CASE /\ raw' = raw
           /\ rawSize' = [rawSize EXCEPT ![r] = Alloc!RawSize(r)]
           /\ addr' = [addr EXCEPT ![r] = Alloc!Align(0)]
           /\ astatus' = "segv"
           /\ UNCHANGED held
  <2>1. Alloc!Align(0) \in Nat
    BY Aligned
  <2>2. QED
    BY <1>1, <1>3, <2>1 DEF Obtains, AllocType
<1>4. QED
  BY <1>2, <1>3 DEF Alloc!AlignedRegion

(* The three allocators. *)
LEMMA Natives ==
  ASSUME ArgsInv, AllocType, NEW r \in {1, 2}, Alloc!Size(r) \in Nat, c' = c,
         r = 1 \/ c.mem_type = "NATIVE", Alloc!allocNative_(r)
  PROVE  Obtains(r) /\ UNCHANGED fdOpen
<1>1. c.use_hugepage => Alloc!Release(r) = "munmap"
  BY DEF Alloc!Release
<1>2. ~c.use_hugepage => Alloc!Matches("malloc", Alloc!Release(r))
  BY DEF Alloc!Release, Alloc!Matches
<1>3. CASE c.use_hugepage
  <2>1. Alloc!MapRegion(r) /\ UNCHANGED fdOpen
    BY <1>3 DEF Alloc!allocNative_
  <2>2. QED
    BY <1>1, <1>3, <2>1, Maps
<1>4. CASE ~c.use_hugepage
  <2>1. Alloc!AlignedRegion(r, "malloc") /\ UNCHANGED fdOpen
    BY <1>4 DEF Alloc!allocNative_
  <2>2. QED
    BY <1>2, <1>4, <2>1, Aligns
<1>5. QED
  BY <1>3, <1>4

LEMMA Remotes ==
  ASSUME ArgsInv, AllocType, Alloc!Size(2) \in Nat, c' = c,
         c.mem_type \in {"REMOTE1", "REMOTE2"}, Alloc!allocRemote_(2)
  PROVE  Obtains(2) /\ UNCHANGED fdOpen
<1>1. Alloc!Matches("numa", Alloc!Release(2))
  BY DEF Alloc!Release, Alloc!Matches
<1>2. CASE c.use_hugepage
  BY <1>2, Exits DEF Alloc!allocRemote_
<1>3. CASE ~c.use_hugepage
  <2>1. Alloc!AlignedRegion(2, "numa") /\ UNCHANGED fdOpen
    BY <1>3 DEF Alloc!allocRemote_
  <2>2. QED
    BY <1>1, <2>1, Aligns
<1>4. QED
  BY <1>2, <1>3

LEMMA Devices ==
  ASSUME ArgsInv, AllocType, Alloc!Size(2) \in Nat, c' = c,
         c.mem_type = "DEVICE", Alloc!allocDevice_(2)
  PROVE  Obtains(2) /\ fdOpen' \in BOOLEAN
<1>1. Alloc!Release(2) = "munmap"
  BY DEF Alloc!Release
<1>2. CASE Alloc!Exit /\ UNCHANGED fdOpen
  BY <1>2, Exits DEF AllocType
<1>3. CASE fdOpen' = TRUE /\ Alloc!Exit
  BY <1>3, Exits
<1>4. CASE fdOpen' = TRUE /\ Alloc!MapRegion(2)
  BY <1>1, <1>4, Maps
<1>5. QED
  BY <1>2, <1>3, <1>4 DEF Alloc!allocDevice_

(* A region that is not touched stays as it is. *)
LEMMA RegionFrame ==
  ASSUME NEW r \in {1, 2}, c' = c, addr'[r] = addr[r], raw'[r] = raw[r],
         rawSize'[r] = rawSize[r], held'[r] = held[r]
  PROVE  /\ Alloc!Size(r)' = Alloc!Size(r)
         /\ Empty(r) => Empty(r)'
         /\ Ready(r) => Ready(r)'
<1>1. Alloc!Size(r)' = Alloc!Size(r) /\ Alloc!Release(r)' = Alloc!Release(r)
  BY DEF Alloc!Size, Alloc!Release
<1>2. Placed(r) => Placed(r)'
  BY <1>1 DEF Placed, Alloc!Matches
<1>3. Empty(r) => Empty(r)'
  BY DEF Empty
<1>4. QED
  BY <1>1, <1>2, <1>3 DEF Ready

LEMMA Sizes ==
  ASSUME ArgsInv, c' = c
  PROVE  /\ Alloc!Size(1)' = Alloc!Size(1) /\ Alloc!Size(2)' = Alloc!Size(2)
         /\ Alloc!Size(1) \in Int /\ Alloc!Size(2) \in Nat
         /\ ~(c.size2 > c.size) => Alloc!Size(1) \in Nat
  BY RegionArgs DEF Alloc!Size

-----------------------------------------------------------------------------
(* The life of the regions *)

LEMMA Region1Step ==
  ASSUME ArgsInv, AllocType, AllocInv, c' = c, Alloc!AllocRegion1
  PROVE  AllocType' /\ AllocInv'
<1>1. astatus = "alloc1" /\ UNCHANGED moved
  BY DEF Alloc!AllocRegion1
<1>2. /\ Empty(1) /\ Empty(2) /\ ~fdOpen /\ Alloc!Size(1) \in Nat /\ Alloc!Size(2) \in Nat
      /\ moved[1] = 0 /\ moved[2] = 0
  BY <1>1 DEF AllocInv
<1>3. Alloc!Size(1)' = Alloc!Size(1) /\ Alloc!Size(2)' = Alloc!Size(2)
  BY Sizes
<1>4. CASE Alloc!Size(1) > 0
  <2>1. Obtains(1) /\ UNCHANGED fdOpen
    BY <1>2, <1>4, Natives DEF Alloc!AllocRegion1
  <2>2. AllocType'
    BY <1>1, <2>1 DEF Obtains, AllocType, Alloc!After
  <2>3. CASE astatus' = "alloc2" /\ Placed(1)'
    <3>1. Ready(1)'
      BY <1>3, <1>4, <2>3 DEF Ready
    <3>2. Empty(2)'
      BY <1>2, <2>1, RegionFrame DEF Obtains
    <3>3. QED
      BY <1>1, <1>2, <1>3, <2>1, <2>2, <2>3, <3>1, <3>2 DEF AllocInv
  <2>4. CASE astatus' \in {"exit", "segv"}
    BY <2>2, <2>4 DEF AllocInv
  <2>5. QED
    BY <2>1, <2>3, <2>4 DEF Obtains, Alloc!After
<1>5. CASE ~(Alloc!Size(1) > 0)
  <2>1. astatus' = "alloc2" /\ UNCHANGED <<addr, raw, rawSize, held, fdOpen>>
    BY <1>5 DEF Alloc!AllocRegion1
  <2>2. Empty(1)' /\ Empty(2)'
    BY <1>2, <2>1 DEF Empty
  <2>3. Ready(1)'
    BY <1>3, <1>5, <2>2 DEF Ready
  <2>4. AllocType'
    BY <1>1, <2>1 DEF AllocType
  <2>5. QED
    BY <1>1, <1>2, <1>3, <2>1, <2>2, <2>3, <2>4 DEF AllocInv
<1>6. QED
  BY <1>4, <1>5

LEMMA Region2Step ==
  ASSUME ArgsInv, AllocType, AllocInv, c' = c, Alloc!AllocRegion2
  PROVE  AllocType' /\ AllocInv'
<1>1. astatus = "alloc2" /\ UNCHANGED moved
  BY DEF Alloc!AllocRegion2
<1>2. /\ Ready(1) /\ Empty(2) /\ ~fdOpen /\ Alloc!Size(1) \in Nat /\ Alloc!Size(2) \in Nat
      /\ moved[1] = 0 /\ moved[2] = 0
  BY <1>1 DEF AllocInv
<1>3. Alloc!Size(1)' = Alloc!Size(1) /\ Alloc!Size(2)' = Alloc!Size(2)
  BY Sizes
<1>4. \A r \in {1, 2} : Alloc!Size(r)' > 0 => moved'[r] <= Alloc!Size(r)'
  BY <1>1, <1>2, <1>3
<1>5. CASE Alloc!Size(2) = 0
  <2>1. astatus' = "built" /\ UNCHANGED <<addr, raw, rawSize, held, fdOpen>>
    BY <1>5 DEF Alloc!AllocRegion2
  <2>2. Ready(1)' /\ Empty(2)'
    BY <1>2, <2>1, RegionFrame
  <2>3. Ready(2)'
    BY <1>3, <1>5, <2>2 DEF Ready
  <2>4. AllocType'
    BY <1>1, <2>1 DEF AllocType
  <2>5. QED
    BY <1>1, <1>2, <1>3, <1>4, <2>1, <2>2, <2>3, <2>4 DEF AllocInv
<1>6. CASE Alloc!Size(2) > 0
  <2>1. /\ Obtains(2) /\ fdOpen' \in BOOLEAN
        /\ fdOpen' => c.mem_type = "DEVICE"
    <3>1. CASE c.mem_type = "NATIVE" /\ Alloc!allocNative_(2)
      BY <1>2, <3>1, Natives DEF AllocType
    <3>2. CASE c.mem_type \in {"REMOTE1", "REMOTE2"} /\ Alloc!allocRemote_(2)
      BY <1>2, <3>2, Remotes DEF AllocType
    <3>3. CASE c.mem_type = "DEVICE" /\ Alloc!allocDevice_(2)
      BY <1>2, <3>3, Devices
    <3>4. QED
      BY <1>6, <3>1, <3>2, <3>3 DEF Alloc!AllocRegion2
  <2>2. AllocType'
    BY <1>1, <2>1 DEF Obtains, AllocType, Alloc!After
  <2>3. CASE astatus' = "built" /\ Placed(2)'
    <3>1. Ready(2)'
      BY <1>3, <1>6, <2>3 DEF Ready
    <3>2. Ready(1)'
      BY <1>2, <2>1, RegionFrame DEF Obtains
    <3>3. QED
      BY <1>1, <1>2, <1>3, <1>4, <1>6, <2>1, <2>2, <2>3, <3>1, <3>2 DEF AllocInv
  <2>4. CASE astatus' \in {"exit", "segv"}
    BY <2>2, <2>4 DEF AllocInv
  <2>5. QED
    BY <2>1, <2>3, <2>4 DEF Obtains, Alloc!After
<1>7. QED
  BY <1>2, <1>5, <1>6

(* Only whole pages of the region are moved. *)
LEMMA MigrateStep ==
  ASSUME ArgsInv, AllocType, AllocInv, c' = c, Alloc!migrate
  PROVE  AllocType' /\ AllocInv'
<1>1. /\ astatus = "built" /\ astatus' = "migrated"
      /\ UNCHANGED <<addr, raw, rawSize, held, fdOpen>>
  BY DEF Alloc!migrate
<1>2. /\ Ready(1) /\ Ready(2) /\ Alloc!Size(1) \in Nat /\ Alloc!Size(2) \in Nat
      /\ fdOpen => Alloc!Size(2) > 0 /\ c.mem_type = "DEVICE"
  BY <1>1 DEF AllocInv
<1>3. Alloc!Size(1)' = Alloc!Size(1) /\ Alloc!Size(2)' = Alloc!Size(2)
  BY Sizes
<1>4. ASSUME NEW r \in {1, 2}
      PROVE  moved'[r] \in Nat /\ moved'[r] <= Alloc!Size(r)
  <2>1. moved'[r] = IF Alloc!Size(r) > 0 THEN Alloc!num_os_pages(r) * OsPage ELSE 0
    BY DEF Alloc!migrate, Alloc!Region
  <2>2. PICK s \in Nat : s = Alloc!Size(r)
    BY <1>2
  <2>3. OsPage \in Nat \ {0}
    BY LatBwAssumption
  <2>4. (s \div OsPage) * OsPage \in Nat /\ (s \div OsPage) * OsPage <= s
    BY <2>3
  <2>5. QED
    BY <2>1, <2>2, <2>4 DEF Alloc!num_os_pages
<1>5. AllocType'
  <2>1. moved' \in [{1, 2} -> Nat]
    BY <1>4 DEF Alloc!migrate, Alloc!Region
  <2>2. QED
    BY <1>1, <2>1 DEF AllocType
<1>6. Ready(1)' /\ Ready(2)'
  BY <1>1, <1>2, RegionFrame
<1>7. \A r \in {1, 2} : Alloc!Size(r)' > 0 => moved'[r] <= Alloc!Size(r)'
  BY <1>3, <1>4
<1>8. QED
  BY <1>1, <1>2, <1>3, <1>5, <1>6, <1>7 DEF AllocInv

LEMMA DestroyStep ==
  ASSUME ArgsInv, AllocType, AllocInv, c' = c, Alloc!Destroy
  PROVE  AllocType' /\ AllocInv' /\ astatus' = "destroyed"
<1> DEFINE present == {r \in {1, 2} : addr[r] # 0}
<1>1. astatus \in {"built", "migrated"}
  BY DEF Alloc!Destroy
<1>2. /\ Ready(1) /\ Ready(2)
      /\ fdOpen => Alloc!Size(2) > 0 /\ c.mem_type = "DEVICE"
  BY <1>1 DEF AllocInv
<1>3. \A r \in {1, 2} : \/ addr[r] # 0 /\ Alloc!Matches(held[r], Alloc!Release(r))
                        \/ addr[r] = 0 /\ held[r] = "none"
  BY <1>2 DEF Ready, Placed, Empty
<1>4. \A r \in present : Alloc!Matches(held[r], Alloc!Release(r))
  BY <1>3
<1>5. /\ astatus' = "destroyed"
      /\ held' = [r \in {1, 2} |-> IF r \in present THEN "none" ELSE held[r]]
      /\ fdOpen' = (fdOpen /\ ~(2 \in present /\ c.mem_type = "DEVICE"))
      /\ addr' = [r \in {1, 2} |-> 0] /\ raw' = [r \in {1, 2} |-> 0]
      /\ UNCHANGED <<rawSize, moved>>
  BY <1>4 DEF Alloc!Destroy, Alloc!Region
<1>6. held'[1] = "none" /\ held'[2] = "none"
  BY <1>3, <1>5
<1>7. ~fdOpen'
  <2>1. fdOpen => addr[2] # 0 /\ c.mem_type = "DEVICE"
    BY <1>2 DEF Ready, Placed
  <2>2. fdOpen => 2 \in present
    BY <2>1
  <2>3. QED
    BY <1>5, <2>1, <2>2
<1>8. AllocType'
  <2>1. held' \in [{1, 2} -> {"none", "malloc", "mmap", "numa"}]
    BY <1>5 DEF AllocType
  <2>2. addr' \in [{1, 2} -> Nat] /\ raw' \in [{1, 2} -> Nat]
    BY <1>5
  <2>3. fdOpen' \in BOOLEAN
    BY <1>5
  <2>4. QED
    BY <1>5, <2>1, <2>2, <2>3 DEF AllocType
<1>9. QED
  BY <1>5, <1>6, <1>7, <1>8 DEF AllocInv

LEMMA AllocStep ==
  ASSUME ArgsInv, AllocType, AllocInv, [Next]_vars
  PROVE  AllocType' /\ AllocInv'
<1>1. c' = c /\ run' = run
  BY ArgsFrame
<1>2. CASE Construct
  <2>1. CASE Alloc!CheckSizes
    <3>1. /\ astatus = "check" /\ UNCHANGED <<addr, raw, rawSize, held, fdOpen, moved>>
          /\ astatus' = IF c.size2 > c.size THEN "exit" ELSE "alloc1"
      BY <2>1 DEF Alloc!CheckSizes
    <3>2. AllocType'
      BY <3>1 DEF AllocType
    <3>3. Empty(1)' /\ Empty(2)' /\ ~fdOpen' /\ moved'[1] = 0 /\ moved'[2] = 0
      BY <3>1 DEF AllocInv, Empty
    <3>4. astatus' = "alloc1" => Alloc!Size(1)' \in Nat /\ Alloc!Size(2)' \in Nat
      BY <1>1, <3>1, Sizes
    <3>5. QED
      BY <3>1, <3>2, <3>3, <3>4 DEF AllocInv
  <2>2. QED
    BY <1>1, <1>2, <2>1, Region1Step, Region2Step DEF Construct
<1>3. CASE Migrate
  BY <1>1, <1>3, MigrateStep DEF Migrate
<1>4. CASE Return
  BY <1>1, <1>4, DestroyStep DEF Return
<1>5. CASE UNCHANGED allocVars
  <2>1. UNCHANGED <<astatus, addr, raw, rawSize, held, fdOpen, moved>>
    BY <1>5 DEF allocVars
  <2>2. Alloc!Size(1)' = Alloc!Size(1) /\ Alloc!Size(2)' = Alloc!Size(2)
    BY <1>1, Sizes
  <2>3. /\ Empty(1) => Empty(1)'
        /\ Empty(2) => Empty(2)'
        /\ Ready(1) => Ready(1)'
        /\ Ready(2) => Ready(2)'
    BY <1>1, <2>1, RegionFrame
  <2>4. AllocType'
    BY <2>1 DEF AllocType
  <2>5. \A r \in {1, 2} : Alloc!Size(r)' = Alloc!Size(r)
    BY <2>2
  <2>6. AllocInv'
    BY <1>1, <2>1, <2>2, <2>3, <2>5 DEF AllocInv
  <2>7. QED
    BY <2>4, <2>6
<1>6. QED
  BY <1>2, <1>3, <1>4, <1>5, StepCases, OtherFrame DEF vars

LEMMA StageStep ==
  ASSUME ArgsInv, AllocType, AllocInv, StageInv, [Next]_vars
  PROVE  StageInv'
<1>1. c' = c /\ run' = run /\ (KnownAction' <=> KnownAction)
  BY ArgsFrame DEF KnownAction
<1>2. CASE Construct
  <2>1. KnownAction /\ stage' \in {"died", "construct", "check", "init"}
    BY <1>2 DEF Construct
  <2>2. QED
    BY <1>1, <2>1 DEF StageInv
<1>3. CASE Migrate
  BY <1>1, <1>3 DEF Migrate, Benchmark, StageInv
<1>4. CASE Return
  <2>1. held'[1] = "none" /\ held'[2] = "none"
    <3>1. AllocInv' /\ astatus' = "destroyed"
      BY <1>1, <1>4, DestroyStep DEF Return
    <3>2. QED
      BY <3>1 DEF AllocInv
  <2>2. QED
    BY <2>1 DEF StageInv
<1>5. CASE UNCHANGED vars
  BY <1>1, <1>5 DEF vars, mainVars, allocVars, StageInv
<1>6. CASE Other
  <2>1. UNCHANGED held
    BY <1>6, OtherFrame DEF allocVars
  <2>2. CASE UnknownAction
    BY <2>1, <2>2 DEF UnknownAction, StageInv
  <2>3. CASE ~UnknownAction
    <3>1. stage' = stage \/ stage' \in {"died", "run", "check", "return"}
      BY <1>6, <2>3 DEF Other, InitList, UnknownPattern, Check, Enter, NextPass, Load, Kernel,
         EndPhase, ClientChase, Leave, Finished, vars, mainVars
    <3>2. QED
      BY <1>1, <2>1, <3>1 DEF StageInv
  <2>4. QED
    BY <2>2, <2>3
<1>7. QED
  BY <1>2, <1>3, <1>4, <1>5, <1>6, StepCases

-----------------------------------------------------------------------------
(* The work of a phase *)

(* An exact quotient of an exact quotient. *)
LEMMA ExactQuotients ==
  ASSUME NEW a \in Nat, NEW l \in Nat \ {0}, NEW s \in Nat \ {0}, a % l = 0, l % s = 0
  PROVE  (l \div s) * (a \div l) = a \div s
<1> DEFINE u == l \div s
           q == a \div l
<1>1. u \in Nat /\ q \in Nat /\ l = s * u /\ a = l * q
  OBVIOUS
<1> HIDE DEF u, q
<1>2. a = s * (u * q) /\ u * q \in Nat
  BY <1>1
<1> DEFINE x == u * q
<1> HIDE DEF x
<1>3. (s * x) \div s = x
  BY <1>2 DEF x
<1>4. QED
  BY <1>2, <1>3 DEF x, u, q

LEMMA WorkTypes ==
  ASSUME ArgsInv
  PROVE  /\ List!numActiveLines \in Nat /\ PassLength \in Nat /\ Unit \in Nat /\ Iterations \in Nat
         /\ run.main_iteration \in Nat
<1>1. /\ c.active_size \in Nat /\ c.page_size \in Nat \ {0} /\ c.line_size \in Nat \ {0}
      /\ run.region.active_size \in Nat
      /\ run.warmup_iteration \in Nat /\ run.main_iteration \in Nat
  BY RegionArgs
<1>2. Unroll \in Nat \ {0} /\ LoopSize \in Nat \ {0} /\ Step \in Nat \ {0}
  BY LatBwAssumption
<1>3. List!numActiveLines \in Nat
  <2>1. List!num_active_pages \in Nat /\ List!num_lines_in_page \in Nat
    BY <1>1 DEF List!num_active_pages, List!num_lines_in_page
  <2>2. QED
    BY <2>1 DEF List!numActiveLines
<1>4. loop_count \in Nat
  BY <1>1, <1>2, <1>3 DEF loop_count
<1>5. QED
  BY <1>1, <1>2, <1>3, <1>4 DEF PassLength, Unit, Iterations

(* What one pass contributes is what the report counts for it. *)
LEMMA PassWork ==
  ASSUME ArgsInv, InputCheck
  PROVE  run.main_iteration * (Unit * PassLength) = num_refs
<1>1. /\ List!numActiveLines \in Nat /\ run.region.active_size \in Nat
      /\ Unroll \in Nat \ {0} /\ LoopSize \in Nat \ {0} /\ Step \in Nat \ {0}
      /\ LoopSize % Step = 0
  BY WorkTypes, RegionArgs, LatBwAssumption
<1>2. CASE run.prog = "bw_mem"
  <2>1. run.region.active_size % LoopSize = 0
    BY <1>2 DEF InputCheck
  <2>2. Unit * PassLength = run.region.active_size \div Step
    BY <1>1, <1>2, <2>1, ExactQuotients DEF Unit, PassLength, loop_count
  <2>3. QED
    BY <1>2, <2>2 DEF num_refs
<1>3. CASE run.prog # "bw_mem"
  <2>1. List!numActiveLines % Unroll = 0
    BY <1>3 DEF InputCheck
  <2>2. (List!numActiveLines \div Unroll) * Unroll = List!numActiveLines
    BY <1>1, <2>1
  <2>3. Unit * PassLength = List!numActiveLines
    BY <1>1, <1>3, <2>2 DEF Unit, PassLength, loop_count
  <2>4. QED
    BY <1>3, <2>3 DEF num_refs
<1>4. QED
  BY <1>2, <1>3

(* The sum over the passes of a phase: a new pass, a round of one, and the *)
(* end of the last.                                                        *)
LEMMA SumPass ==
  ASSUME NEW R \in Nat, NEW U \in Nat, NEW P \in Nat, NEW I \in Nat, NEW l \in Nat,
         R + U * P = U * ((I - l) * P + P)
  PROVE  R + U * P = U * ((I - (l - 1)) * P + 0)
<1> DEFINE x == I - l
<1>1. x \in Int /\ I - (l - 1) = x + 1
  OBVIOUS
<1> HIDE DEF x
<1>2. x * P + P = (x + 1) * P + 0
  BY <1>1
<1>3. QED
  BY <1>1, <1>2 DEF x

LEMMA SumRound ==
  ASSUME NEW R \in Nat, NEW U \in Nat, NEW P \in Nat, NEW y \in Int, NEW n \in Nat,
         R + U * P = U * (y + n)
  PROVE  (R + U) + U * P = U * (y + (n + 1))
<1>1. U * (y + (n + 1)) = U * (y + n) + U
  OBVIOUS
<1>2. U * P \in Nat
  OBVIOUS
<1>3. QED
  BY <1>1, <1>2

LEMMA SumEnd ==
  ASSUME NEW R \in Nat, NEW U \in Nat, NEW P \in Nat, NEW I \in Nat,
         R + U * P = U * ((I - 0) * P + P)
  PROVE  R = I * (U * P)
<1>1. U * ((I - 0) * P + P) = I * (U * P) + U * P
  OBVIOUS
<1>2. U * P \in Nat /\ I * (U * P) \in Nat
  OBVIOUS
<1>3. QED
  BY <1>1, <1>2


(* What the parameters fix for the whole run. *)
LEMMA WorkFrame ==
  ASSUME [Next]_vars
  PROVE  /\ run' = run /\ c' = c
         /\ PassLength' = PassLength /\ Unit' = Unit /\ (InputCheck' <=> InputCheck)
         /\ todo' = todo => Iterations' = Iterations
<1>1. run' = run /\ c' = c
  BY ArgsFrame
<1>2. List!numActiveLines' = List!numActiveLines
  BY <1>1 DEF List!numActiveLines, List!num_active_pages, List!num_lines_in_page
<1>3. PassLength' = PassLength
  BY <1>1, <1>2 DEF PassLength, loop_count
<1>4. InputCheck' <=> InputCheck
  BY <1>1, <1>2 DEF InputCheck
<1>5. QED
  BY <1>1, <1>3, <1>4 DEF Unit, Iterations

(* The fifteen actions, one by one: those outside the loops first. *)
LEMMA QuietStep ==
  ASSUME WorkInv, [Next]_vars,
         UnknownAction \/ Construct \/ InitList \/ UnknownPattern \/ Check \/ Migrate
           \/ ClientChase \/ Leave \/ Return \/ Finished \/ UNCHANGED vars
  PROVE  WorkInv'
<1>1. /\ run' = run /\ c' = c /\ PassLength' = PassLength /\ Unit' = Unit
      /\ InputCheck' <=> InputCheck
      /\ todo' = todo => Iterations' = Iterations
  BY WorkFrame
<1>2. CASE UnknownAction \/ UnknownPattern \/ Leave
  <2>1. /\ stage' \in {"returned", "return"}
        /\ UNCHANGED <<todo, left, refs, reported, status, k>>
    BY <1>2 DEF UnknownAction, UnknownPattern, Leave, listVars
  <2>2. QED
    BY <1>1, <2>1 DEF WorkInv, Benchmark
<1>3. CASE Construct
  <2>1. /\ stage \in {"construct", "init", "check"} /\ stage' # "run"
        /\ UNCHANGED <<todo, left, refs, reported, status, k>>
    BY <1>3 DEF Construct
  <2>2. QED
    BY <1>1, <2>1 DEF WorkInv, Benchmark
<1>4. CASE InitList
  <2>1. /\ stage = "init" /\ UNCHANGED <<todo, left, refs, reported>>
        /\ stage' = IF status' # "linked" THEN "died"
                    ELSE IF run.prog = "client" THEN "run" ELSE "check"
    BY <1>4 DEF InitList
  <2>2. status' \in {"linked", "abort", "overrun", "sigfpe"}
    BY <1>4 DEF InitList, List!stride_init, List!page_random_init, List!all_random_init,
       List!WriteList
  <2>3. QED
    BY <1>1, <2>1, <2>2 DEF WorkInv, Benchmark
<1>5. CASE Check
  <2>1. /\ stage = "check" /\ UNCHANGED <<todo, left, refs, reported, status, k>>
        /\ stage' = IF InputCheck THEN "run" ELSE "died"
    BY <1>5 DEF Check, listVars
  <2>2. QED
    BY <1>1, <2>1 DEF WorkInv, Benchmark
<1>6. CASE Migrate
  <2>1. /\ stage = "run" /\ run.prog # "client" /\ todo # << >> /\ Head(todo) = "migrate"
        /\ todo' = Tail(todo) /\ UNCHANGED <<stage, left, refs, reported, status, k>>
    BY <1>6 DEF Migrate, Benchmark
  <2>2. status # "chasing"
    BY <2>1 DEF WorkInv, Benchmark
  <2>3. todo' \in Seq({"warmup", "timed", "migrate"})
    BY <2>1 DEF WorkInv
  <2>4. QED
    BY <1>1, <2>1, <2>2, <2>3 DEF WorkInv, Benchmark
<1>7. CASE ClientChase
  <2>1. /\ run.prog = "client" /\ stage' \in {"run", "return", "died"}
        /\ UNCHANGED <<todo, left, refs, reported>>
    BY <1>7 DEF ClientChase
  <2>2. QED
    BY <1>1, <2>1 DEF WorkInv, Benchmark
<1>8. CASE Return
  <2>1. stage' = "returned" /\ UNCHANGED <<todo, left, refs, reported, status, k>>
    BY <1>8 DEF Return
  <2>2. QED
    BY <1>1, <2>1 DEF WorkInv, Benchmark
<1>9. CASE Finished \/ UNCHANGED vars
  <2>1. UNCHANGED <<stage, todo, left, refs, reported, status, k>>
    BY <1>9 DEF Finished, vars, mainVars, listVars
  <2>2. QED
    BY <1>1, <2>1 DEF WorkInv, Benchmark
<1>10. QED
  BY <1>2, <1>3, <1>4, <1>5, <1>6, <1>7, <1>8, <1>9

LEMMA LoopStep ==
  ASSUME ArgsInv, WorkInv, [Next]_vars, Enter \/ NextPass \/ Load \/ Kernel \/ EndPhase
  PROVE  WorkInv'
<1>1. /\ run' = run /\ c' = c /\ PassLength' = PassLength /\ Unit' = Unit
      /\ InputCheck' <=> InputCheck
      /\ todo' = todo => Iterations' = Iterations
  BY WorkFrame
<1>2. PassLength \in Nat /\ Unit \in Nat /\ Iterations \in Nat /\ run.main_iteration \in Nat
  BY WorkTypes
<1>3. Benchmark /\ stage = "run" /\ run.prog # "client" /\ todo # << >> /\ InputCheck
  BY DEF Enter, NextPass, Load, Kernel, EndPhase, Benchmark, WorkInv
<1>4. PICK P \in Nat, U \in Nat, I \in Nat : P = PassLength /\ U = Unit /\ I = Iterations
  BY <1>2
<1>5. CASE Enter
  <2>1. /\ Head(todo) # "migrate" /\ left' = I /\ k' = P /\ refs' = 0 /\ reported' = -1
        /\ stage' \in {"run", "died"} /\ UNCHANGED todo
    BY <1>3, <1>4, <1>5 DEF Enter, Iterations
  <2>2. 0 + U * P = U * ((I - I) * P + P)
    OBVIOUS
  <2>3. QED
    BY <1>1, <1>3, <1>4, <2>1, <2>2 DEF WorkInv, Benchmark
<1>6. CASE NextPass \/ Load \/ Kernel \/ EndPhase
  <2>1. /\ status = "chasing" /\ Head(todo) # "migrate" /\ reported = -1
        /\ left \in Nat /\ left <= I /\ k \in Nat /\ k <= P /\ refs \in Nat
        /\ refs + U * P = U * ((I - left) * P + k)
    <3>1. status = "chasing"
      BY <1>6 DEF NextPass, Load, Kernel, EndPhase, List!ChaseStep
    <3>2. QED
      BY <1>3, <1>4, <3>1 DEF WorkInv
  <2>2. CASE NextPass
    <3>1. /\ k = P /\ left > 0 /\ left' = left - 1 /\ k' = 0
          /\ UNCHANGED <<stage, todo, refs, reported, status>>
      BY <1>4, <2>2 DEF NextPass
    <3>2. refs + U * P = U * ((I - (left - 1)) * P + 0)
      BY <2>1, <3>1, SumPass
    <3>3. left - 1 \in Nat /\ left - 1 <= I
      BY <2>1, <3>1
    <3>4. QED
      BY <1>1, <1>3, <1>4, <2>1, <3>1, <3>2, <3>3 DEF WorkInv, Benchmark
  <2>3. ASSUME refs' = refs + U, k' = k + 1, k < P, UNCHANGED <<left, todo, reported, status, stage>>
        PROVE  WorkInv'
    <3>1. (I - left) * P \in Int
      BY <2>1
    <3>2. (refs + U) + U * P = U * ((I - left) * P + (k + 1))
      BY <2>1, <3>1, SumRound
    <3>3. refs' \in Nat /\ k' \in Nat /\ k' <= P
      BY <2>1, <2>3
    <3>4. refs' + U * P = U * ((I - left') * P + k')
      BY <2>3, <3>2
    <3>5. QED
      BY <1>1, <1>3, <1>4, <2>1, <2>3, <3>3, <3>4 DEF WorkInv, Benchmark
  <2>4. ASSUME refs' \in Nat, stage' = "died", UNCHANGED <<todo, reported>>
        PROVE  WorkInv'
    BY <1>1, <2>1, <2>4 DEF WorkInv, Benchmark
  <2>5. CASE Load
    <3>1. /\ refs' = refs + 1 /\ UNCHANGED <<todo, left, reported>> /\ k < P /\ U = 1
          /\ stage' = IF status' = "chasing" THEN stage ELSE "died"
      BY <1>4, <2>5 DEF Load, Unit
    <3>2. CASE status' = "chasing"
      <4>1. k' = k + 1
        BY <2>5, <3>2 DEF Load, List!ChaseStep, List!Fault
      <4>2. QED
        BY <2>1, <2>3, <3>1, <3>2, <4>1
    <3>3. CASE status' # "chasing"
      BY <2>1, <2>4, <3>1, <3>3
    <3>4. QED
      BY <3>2, <3>3
  <2>6. CASE Kernel
    <3>1. /\ UNCHANGED <<todo, left, reported>> /\ k < P /\ U = LoopSize \div Step
          /\ \/ k' = k + 1 /\ refs' = refs + LoopSize \div Step /\ UNCHANGED <<status, stage>>
             \/ stage' = "died" /\ UNCHANGED refs
      BY <1>4, <2>6 DEF Kernel, Unit
    <3>2. QED
      BY <2>1, <2>3, <2>4, <3>1
  <2>7. CASE EndPhase
    <3>1. /\ k = P /\ left = 0 /\ UNCHANGED <<stage, refs>> /\ status' = "linked"
          /\ reported' = IF Head(todo) = "timed" THEN num_refs ELSE -1
          /\ todo' = Tail(todo)
      BY <1>4, <2>7 DEF EndPhase
    <3>2. refs = I * (U * P)
      BY <2>1, <3>1, SumEnd
    <3>3. Head(todo) = "timed" => refs = num_refs
      BY <1>3, <1>4, <3>2, PassWork DEF Iterations
    <3>4. todo' \in Seq({"warmup", "timed", "migrate"})
      BY <1>3, <3>1 DEF WorkInv
    <3>5. reported' >= 0 => reported' = refs
      BY <3>1, <3>3
    <3>6. QED
      BY <1>1, <1>3, <2>1, <3>1, <3>4, <3>5 DEF WorkInv, Benchmark
  <2>8. QED
    BY <1>6, <2>2, <2>5, <2>6, <2>7
<1>7. QED
  BY <1>5, <1>6

-----------------------------------------------------------------------------
(* Addresses *)

(* Different offsets have different addresses. *)
LEMMA AddrInjective ==
  ASSUME ArgsInv, NEW x \in Nat, NEW y \in Nat, List!getOffsetAddr_(x) = List!getOffsetAddr_(y)
  PROVE  x = y
<1>1. List!size_region1 \in Int
  BY RegionArgs DEF List!size_region1
<1>2. PICK s \in Int : s = List!size_region1
  BY <1>1
<1>3. CASE s > 0 /\ x < s /\ s > 0 /\ y < s
  BY <1>2, <1>3 DEF List!getOffsetAddr_
<1>4. CASE ~(s > 0 /\ x < s) /\ ~(s > 0 /\ y < s)
  <2>1. <<2, x - s>> = <<2, y - s>>
    BY <1>2, <1>4 DEF List!getOffsetAddr_
  <2>2. QED
    BY <2>1
<1>5. CASE ~((s > 0 /\ x < s) <=> (s > 0 /\ y < s))
  <2>1. \/ <<1, x>> = <<2, y - s>>
        \/ <<2, x - s>> = <<1, y>>
    BY <1>2, <1>5 DEF List!getOffsetAddr_
  <2>2. QED
    BY <2>1
<1>6. QED
  BY <1>3, <1>4, <1>5

(* As long as a plain pointer stays in its region it agrees with           *)
(* getOffsetAddr_.                                                         *)
LEMMA LinearAddr ==
  ASSUME ArgsInv, NEW x \in Nat, NEW d \in Nat, List!InRegion(Linear(x, d))
  PROVE  Linear(x, d) = List!getOffsetAddr_(x + d)
<1>1. List!size_region1 \in Int
  BY RegionArgs DEF List!size_region1
<1>2. PICK s \in Int : s = List!size_region1
  BY <1>1
<1>3. CASE s > 0 /\ x < s
  <2>1. Linear(x, d) = <<1, x + d>>
    BY <1>2, <1>3 DEF Linear, List!getOffsetAddr_
  <2>2. x + d < s
    BY <1>2, <2>1, LatBwAssumption DEF List!InRegion
  <2>3. QED
    BY <1>2, <1>3, <2>1, <2>2 DEF List!getOffsetAddr_
<1>4. CASE ~(s > 0 /\ x < s)
  <2>1. Linear(x, d) = <<2, (x - s) + d>>
    BY <1>2, <1>4 DEF Linear, List!getOffsetAddr_
  <2>2. ~(s > 0 /\ x + d < s) /\ (x - s) + d = (x + d) - s
    BY <1>4
  <2>3. QED
    BY <1>2, <2>1, <2>2 DEF List!getOffsetAddr_
<1>5. QED
  BY <1>3, <1>4

(* A word that ends below the size of a single region is inside it. *)
LEMMA OneRegion ==
  ASSUME ArgsInv, c.size2 = 0, NEW x \in Nat, NEW d \in Nat, x + d + Pointer <= c.size
  PROVE  List!InRegion(Linear(x, d))
<1>1. c.size \in Nat /\ List!size_region1 = c.size
  BY RegionArgs DEF List!size_region1
<1>2. x < c.size /\ c.size > 0
  BY <1>1, LatBwAssumption
<1>3. Linear(x, d) = <<1, x + d>>
  BY <1>1, <1>2 DEF Linear, List!getOffsetAddr_
<1>4. QED
  BY <1>1, <1>3 DEF List!InRegion

(* An offset inside the two regions has memory behind it. *)
LEMMA InsideAddr ==
  ASSUME ArgsInv, NEW x \in Nat, x < c.size
  PROVE  ~List!Asserts(x)
  BY RegionArgs DEF List!size_region1, List!Asserts

(* A word that ends inside the two regions, and in region 1 if it begins   *)
(* there, is in its region.                                                *)
LEMMA InsideWord ==
  ASSUME ArgsInv, NEW x \in Nat, x + Pointer <= c.size,
         x < List!size_region1 => x + Pointer <= List!size_region1
  PROVE  List!InRegion(List!getOffsetAddr_(x))
<1>1. c.size \in Nat /\ c.size2 \in Nat /\ Pointer \in Nat
  BY RegionArgs, LatBwAssumption
<1>2. PICK s \in Int : s = List!size_region1 /\ s = c.size - c.size2
  BY <1>1 DEF List!size_region1
<1>3. CASE s > 0 /\ x < s
  BY <1>2, <1>3 DEF List!getOffsetAddr_, List!InRegion
<1>4. CASE ~(s > 0 /\ x < s)
  <2>1. (x - s) + Pointer <= c.size2
    BY <1>1, <1>2
  <2>2. List!getOffsetAddr_(x) = <<2, x - s>>
    BY <1>2, <1>4 DEF List!getOffsetAddr_
  <2>3. QED
    BY <2>1, <2>2 DEF List!InRegion
<1>5. QED
  BY <1>3, <1>4

(* Offsets whose words overlap are less than a word apart. *)
LEMMA OverlapOffsets ==
  ASSUME ArgsInv, NEW x \in Nat, NEW y \in Nat,
         List!Overlap(List!getOffsetAddr_(x), List!getOffsetAddr_(y))
  PROVE  x < y + Pointer /\ y < x + Pointer
<1>1. PICK s \in Int, w \in Nat : s = List!size_region1 /\ w = Pointer
  BY RegionArgs, LatBwAssumption DEF List!size_region1
<1>2. CASE (s > 0 /\ x < s) /\ (s > 0 /\ y < s)
  <2>1. List!getOffsetAddr_(x) = <<1, x>> /\ List!getOffsetAddr_(y) = <<1, y>>
    BY <1>1, <1>2 DEF List!getOffsetAddr_
  <2>2. QED
    BY <2>1 DEF List!Overlap
<1>3. CASE ~(s > 0 /\ x < s) /\ ~(s > 0 /\ y < s)
  <2>1. List!getOffsetAddr_(x) = <<2, x - s>> /\ List!getOffsetAddr_(y) = <<2, y - s>>
    BY <1>1, <1>3 DEF List!getOffsetAddr_
  <2>2. x - s < (y - s) + w /\ y - s < (x - s) + w
    BY <1>1, <2>1 DEF List!Overlap
  <2>3. QED
    BY <1>1, <2>2
<1>4. CASE ~((s > 0 /\ x < s) <=> (s > 0 /\ y < s))
  BY <1>1, <1>4 DEF List!getOffsetAddr_, List!Overlap
<1>5. QED
  BY <1>2, <1>3, <1>4

-----------------------------------------------------------------------------
(* A round of a kernel *)

(* Adding a multiple leaves the remainder. *)
LEMMA ShiftedMultiple ==
  ASSUME NEW s \in Nat \ {0}, NEW x \in Int, NEW b \in Int, b % s = 0
  PROVE  (x + b) % s = x % s
<1>1. PICK q \in Int : b = s * q
  <2> DEFINE q == b \div s
  <2>1. b = s * q /\ q \in Int
    OBVIOUS
  <2> HIDE DEF q
  <2>2. QED
    BY <2>1
<1>2. PICK v \in Int, r \in 0 .. s - 1 : x = s * v + r /\ x % s = r
  <2>1. x = s * (x \div s) + (x % s) /\ x \div s \in Int /\ x % s \in 0 .. s - 1
    OBVIOUS
  <2>2. QED
    BY <2>1
<1>3. x + b = s * (v + q) + r
  BY <1>1, <1>2
<1> DEFINE y == x + b
           w == v + q
<1>4. y \in Int /\ w \in Int /\ y = s * w + r
  BY <1>3
<1> HIDE DEF y, w
<1>5. y % s = r
  BY <1>4
<1>6. QED
  BY <1>2, <1>5 DEF y

(* A whole pass walks over the active words, a copy over half of them.     *)
LEMMA KernelSizes ==
  ASSUME ArgsInv, InputCheck, run.prog = "bw_mem"
  PROVE  /\ PassLength \in Nat /\ List!half \in Nat
         /\ PassLength * LoopSize = run.region.active_size
         /\ run.region.active_size % Step = 0
         /\ Copies => c.active_size = 2 * run.region.active_size
                        /\ List!half = run.region.active_size
         /\ ~Copies => c.active_size = run.region.active_size
<1>1. PICK a \in Nat : a = run.region.active_size
  BY RegionArgs
<1>2. LoopSize \in Nat \ {0} /\ Step \in Nat \ {0} /\ LoopSize % Step = 0
  BY LatBwAssumption
<1>3. a % LoopSize = 0
  BY <1>1 DEF InputCheck
<1>4. PICK q \in Nat : q = a \div LoopSize /\ a = LoopSize * q
  <2>1. a \div LoopSize \in Nat /\ a = LoopSize * (a \div LoopSize) + (a % LoopSize)
    BY <1>2
  <2>2. QED
    BY <1>2, <1>3, <2>1
<1>5. PassLength = q
  BY <1>1, <1>4 DEF PassLength, loop_count
<1>6. a % Step = 0
  <2>1. PICK u \in Nat : LoopSize = Step * u
    <3>1. LoopSize \div Step \in Nat /\ LoopSize = Step * (LoopSize \div Step) + (LoopSize % Step)
      BY <1>2
    <3>2. QED
      BY <1>2, <3>1
  <2>2. u * q \in Int /\ a = (u * q) * Step
    BY <1>2, <1>4, <2>1
  <2>3. QED
    BY <1>2, <2>2, Multiple
<1>7. c.active_size = IF Copies THEN 2 * a ELSE a
  <2>1. run.region \in [size : Nat, size2 : Nat, active_size : Nat, page_size : Nat \ {0},
                        line_size : Nat \ {0},
                        mem_type : {"NATIVE", "REMOTE1", "REMOTE2", "DEVICE"},
                        use_hugepage : BOOLEAN]
    BY LatBwAssumption DEF ArgsInv
  <2>2. QED
    BY <1>1, <2>1 DEF ArgsInv, RegionOf, Copies
<1>8. List!half \in Nat /\ (Copies => List!half = a)
  <2>1. (2 * a) \div 2 = a /\ a \div 2 \in Nat
    OBVIOUS
  <2>2. QED
    BY <1>7, <2>1 DEF List!half
<1>9. q * LoopSize = a
  BY <1>2, <1>4
<1>10. QED
  BY <1>1, <1>5, <1>6, <1>7, <1>8, <1>9

(* The words one round accesses from a pointer d words into a stream. *)
LEMMA FromLinear ==
  ASSUME ArgsInv, NEW b \in Nat, NEW d \in Nat
  PROVE  From(Linear(b, d)) = {Linear(b, d + o) : o \in Accessed(LoopSize)}
<1>1. List!getOffsetAddr_(b)[2] \in Int
  <2>1. List!size_region1 \in Int
    BY RegionArgs DEF List!size_region1
  <2>2. QED
    BY <2>1 DEF List!getOffsetAddr_
<1>2. Accessed(LoopSize) \subseteq Nat
  BY LatBwAssumption DEF Accessed
<1>3. \A o \in Accessed(LoopSize) :
        <<Linear(b, d)[1], Linear(b, d)[2] + o>> = Linear(b, d + o)
  BY <1>1, <1>2 DEF Linear
<1>4. QED
  BY <1>3 DEF From

(* Which offsets these are, as long as they are inside. *)
LEMMA RoundAddrs ==
  ASSUME ArgsInv, NEW b \in Nat, NEW d \in Nat, (b + d) % Step = 0,
         \A a \in From(Linear(b, d)) : List!InRegion(a),
         NEW x \in Nat, x % Step = 0
  PROVE  List!getOffsetAddr_(x) \in From(Linear(b, d)) <=> b + d <= x /\ x < b + d + LoopSize
<1>1. LoopSize \in Nat \ {0} /\ Step \in Nat \ {0}
  BY LatBwAssumption
<1>2. \A o \in Accessed(LoopSize) : Linear(b, d + o) = List!getOffsetAddr_(b + (d + o))
  <2> TAKE o \in Accessed(LoopSize)
  <2>1. o \in Nat /\ d + o \in Nat
    BY <1>1 DEF Accessed
  <2>2. List!InRegion(Linear(b, d + o))
    BY FromLinear
  <2>3. QED
    BY <2>1, <2>2, LinearAddr
<1>3. From(Linear(b, d)) = {List!getOffsetAddr_(b + (d + o)) : o \in Accessed(LoopSize)}
  BY <1>2, FromLinear
<1>4. ASSUME List!getOffsetAddr_(x) \in From(Linear(b, d))
      PROVE  b + d <= x /\ x < b + d + LoopSize
  <2>1. PICK o \in Accessed(LoopSize) : List!getOffsetAddr_(x) = List!getOffsetAddr_(b + (d + o))
    BY <1>3, <1>4
  <2>2. o \in Nat /\ o < LoopSize
    BY <1>1 DEF Accessed
  <2>3. x = b + (d + o)
    <3>1. b + (d + o) \in Nat
      BY <2>2
    <3>2. QED
      BY <2>1, <3>1, AddrInjective
  <2>4. QED
    BY <1>1, <2>2, <2>3
<1>5. ASSUME b + d <= x, x < b + d + LoopSize
      PROVE  List!getOffsetAddr_(x) \in From(Linear(b, d))
  <2>1. PICK o \in Nat : o = x - (b + d)
    BY <1>5
  <2>2. o < LoopSize /\ x = b + (d + o)
    BY <1>1, <1>5, <2>1
  <2>3. o % Step = 0
    <3>1. PICK y \in Int : y = b + d
      OBVIOUS
    <3>2. y % Step = 0 /\ x = o + y /\ o \in Int
      BY <2>1, <3>1
    <3>3. (o + y) % Step = o % Step
      BY <1>1, <3>1, <3>2, ShiftedMultiple, Zenon
    <3>4. QED
      BY <3>2, <3>3
  <2>4. o \in Accessed(LoopSize)
    BY <1>1, <2>1, <2>2, <2>3 DEF Accessed
  <2>5. QED
    BY <1>3, <2>2, <2>4
<1>6. QED
  BY <1>4, <1>5

(* Addresses depend on the parameters alone. *)
LEMMA AddrFrame ==
  ASSUME run' = run, c' = c
  PROVE  /\ \A x : List!getOffsetAddr_(x)' = List!getOffsetAddr_(x)
         /\ \A x, d : Linear(x, d)' = Linear(x, d) /\ (Behind(x, d)' <=> Behind(x, d))
         /\ List!half' = List!half /\ (Copies' <=> Copies)
         /\ \A a : List!InRegion(a)' <=> List!InRegion(a)
<1>1. List!size_region1' = List!size_region1
  BY DEF List!size_region1
<1>2. \A x : List!getOffsetAddr_(x)' = List!getOffsetAddr_(x)
  BY <1>1 DEF List!getOffsetAddr_
<1>3. List!half' = List!half /\ (Copies' <=> Copies)
  BY DEF List!half, Copies
<1>4. \A x, d : Linear(x, d)' = Linear(x, d)
  BY <1>2 DEF Linear
<1>5. \A x, d : Behind(x, d)' <=> Behind(x, d)
  BY <1>3 DEF Behind
<1>6. \A a : List!InRegion(a)' <=> List!InRegion(a)
  BY <1>1 DEF List!InRegion
<1>7. QED
  BY <1>2, <1>3, <1>4, <1>5, <1>6

(* A pass begins with nothing touched and the pointers at its streams. *)
LEMMA PassBegins ==
  ASSUME ArgsInv, [Next]_vars, NextPass, run.prog = "bw_mem", InputCheck
  PROVE  InPass'
<1>1. run' = run /\ c' = c
  BY ArgsFrame
<1>2. LoopSize \in Nat \ {0} /\ c.size \in Nat /\ List!half \in Nat
  BY LatBwAssumption, RegionArgs, KernelSizes
<1>3. k' = 0 /\ Distance' = 0
  BY <1>2 DEF NextPass, Distance
<1>4. \A x \in Nat : Linear(x, 0) = List!getOffsetAddr_(x)
  <2>1. List!size_region1 \in Int
    BY RegionArgs DEF List!size_region1
  <2>2. QED
    BY <2>1 DEF Linear, List!getOffsetAddr_
<1>5. \A x \in Accessed(c.size) : ~Behind(x, 0)
  BY <1>2 DEF Accessed, Behind
<1>6. touched' = [a \in {List!getOffsetAddr_(x) : x \in Accessed(c.size)} |-> 0]
  BY DEF NextPass
<1>7. p' = List!getOffsetAddr_(0) /\ (Copies => p2' = List!getOffsetAddr_(List!half))
  BY DEF NextPass, List!getStartPoint, List!getHalfPoint
<1>8. /\ p' = Linear(0, 0)
      /\ Copies => p2' = Linear(List!half, 0)
  BY <1>2, <1>4, <1>7
<1>9. /\ DOMAIN touched' = {List!getOffsetAddr_(x) : x \in Accessed(c.size)}
      /\ \A x \in Accessed(c.size) :
           touched'[List!getOffsetAddr_(x)] = IF Behind(x, 0) THEN 1 ELSE 0
  BY <1>5, <1>6
<1>10. QED
  BY <1>1, <1>3, <1>8, <1>9, AddrFrame DEF InPass

(* What a round that is not the last of its pass adds. *)
LEMMA RoundAdds ==
  ASSUME NEW d \in Nat, NEW h \in Nat, NEW x \in Nat, NEW l \in Nat \ {0},
         NEW copies \in BOOLEAN, copies => d + l <= h
  PROVE  LET before == x < d \/ (copies /\ h <= x /\ x < h + d)
             after == x < d + l \/ (copies /\ h <= x /\ x < h + (d + l))
             now == (d <= x /\ x < d + l) \/ (copies /\ h + d <= x /\ x < h + d + l)
         IN (after <=> before \/ now) /\ ~(before /\ now)
  OBVIOUS

(* A round that stays inside goes on with the pass. *)
LEMMA KernelRound ==
  ASSUME ArgsInv, [Next]_vars, Kernel, InputCheck, InPass, k \in Nat, status' = "chasing"
  PROVE  InPass'
<1>1. run' = run /\ c' = c /\ run.prog = "bw_mem" /\ k < PassLength /\ k' = k + 1
  BY ArgsFrame DEF Kernel
<1>2. /\ LoopSize \in Nat \ {0} /\ Step \in Nat \ {0} /\ LoopSize % Step = 0
      /\ c.size \in Nat /\ List!half \in Nat /\ PassLength \in Nat
      /\ Copies => List!half = PassLength * LoopSize
      /\ Copies => List!half % Step = 0
  BY <1>1, LatBwAssumption, RegionArgs, KernelSizes
<1>3. PICK d \in Nat : d = Distance
  BY <1>2 DEF Distance
<1>4. Distance' = d + LoopSize
  BY <1>1, <1>2, <1>3 DEF Distance
<1>5. Copies => d + LoopSize <= List!half
  <2>1. k + 1 <= PassLength
    BY <1>1, <1>2
  <2>2. (k + 1) * LoopSize <= PassLength * LoopSize
    BY <1>2, <2>1
  <2>3. d + LoopSize = (k + 1) * LoopSize
    BY <1>2, <1>3 DEF Distance
  <2>4. QED
    BY <1>2, <2>2, <2>3
<1>6. d % Step = 0 /\ (Copies => (List!half + d) % Step = 0)
  <2>1. d % Step = 0
    <3>1. PICK u \in Int : LoopSize = u * Step
      <4> DEFINE u == LoopSize \div Step
      <4>1. u \in Int /\ LoopSize = u * Step
        BY <1>2
      <4> HIDE DEF u
      <4>2. QED
        BY <4>1
    <3>2. k * u \in Int /\ d = (k * u) * Step
      BY <1>2, <1>3, <3>1 DEF Distance
    <3>3. QED
      BY <1>2, <3>2, Multiple
  <2>2. PICK h \in Int : h = List!half
    BY <1>2
  <2>3. (h + d) % Step = h % Step
    <3>1. Step \in Nat \ {0} /\ h \in Int /\ d \in Int
      BY <1>2
    <3>2. QED
      BY <2>1, <3>1, ShiftedMultiple, Zenon
  <2>4. QED
    BY <1>2, <2>1, <2>2, <2>3
<1> DEFINE used == From(p) \cup (IF Copies THEN From(p2) ELSE {})
<1>7. /\ \A a \in used : List!InRegion(a)
      /\ touched' = [a \in DOMAIN touched |-> IF a \in used THEN touched[a] + 1 ELSE touched[a]]
      /\ p' = Ahead(p)
      /\ p2' = IF Copies THEN Ahead(p2) ELSE p2
  BY DEF Kernel
<1>8. /\ p' = Linear(0, d + LoopSize)
      /\ Copies => p2' = Linear(List!half, d + LoopSize)
  <2>1. \A x \in Nat : Ahead(Linear(x, d)) = Linear(x, d + LoopSize)
    <3>1. List!size_region1 \in Int
      BY RegionArgs DEF List!size_region1
    <3>2. \A x \in Nat : List!getOffsetAddr_(x)[2] \in Int
      BY <3>1 DEF List!getOffsetAddr_
    <3>3. QED
      BY <1>2, <3>2 DEF Ahead, Linear
  <2>2. QED
    BY <1>2, <1>3, <1>7, <2>1 DEF InPass
<1>9. ASSUME NEW x \in Accessed(c.size)
      PROVE  touched'[List!getOffsetAddr_(x)] = IF Behind(x, d + LoopSize) THEN 1 ELSE 0
  <2>1. x \in Nat /\ x % Step = 0
    BY <1>2 DEF Accessed
  <2>2. List!getOffsetAddr_(x) \in From(p) <=> d <= x /\ x < d + LoopSize
    <3>1. 0 \in Nat /\ 0 + d = d /\ p = Linear(0, d) /\ \A a \in From(p) : List!InRegion(a)
      BY <1>3, <1>7 DEF InPass
    <3>2. QED
      BY <1>6, <2>1, <3>1, RoundAddrs
  <2>3. ASSUME Copies
        PROVE  List!getOffsetAddr_(x) \in From(p2) <=>
                 List!half + d <= x /\ x < List!half + d + LoopSize
    <3>1. p2 = Linear(List!half, d) /\ \A a \in From(p2) : List!InRegion(a)
      BY <1>3, <1>7, <2>3 DEF InPass
    <3>2. QED
      BY <1>2, <1>6, <2>1, <2>3, <3>1, RoundAddrs
  <2> DEFINE now == (d <= x /\ x < d + LoopSize)
                      \/ (Copies /\ List!half + d <= x /\ x < List!half + d + LoopSize)
  <2>4. List!getOffsetAddr_(x) \in used <=> now
    BY <2>2, <2>3
  <2>5. (Behind(x, d + LoopSize) <=> Behind(x, d) \/ now) /\ ~(Behind(x, d) /\ now)
    BY <1>2, <1>5, <2>1, RoundAdds DEF Behind, Copies
  <2>6. touched[List!getOffsetAddr_(x)] = IF Behind(x, d) THEN 1 ELSE 0
    BY <1>3 DEF InPass
  <2>7. List!getOffsetAddr_(x) \in DOMAIN touched
    BY DEF InPass
  <2> HIDE DEF now, used
  <2>8. QED
    BY <1>7, <2>4, <2>5, <2>6, <2>7
<1>10. DOMAIN touched' = {List!getOffsetAddr_(x) : x \in Accessed(c.size)}
  BY <1>7 DEF InPass
<1>11. QED
  BY <1>1, <1>4, <1>8, <1>9, <1>10, AddrFrame DEF InPass

(* The words that a round accesses end inside the round. *)
LEMMA RoundWords ==
  ASSUME NEW o \in Accessed(LoopSize)
  PROVE  o \in Nat /\ o + Pointer <= LoopSize
<1>1. /\ LoopSize \in Nat \ {0} /\ Step \in Nat \ {0} /\ Pointer \in Nat
      /\ LoopSize % Step = 0 /\ Pointer <= Step
  BY LatBwAssumption
<1>2. o \in Nat /\ o < LoopSize /\ o % Step = 0
  BY <1>1 DEF Accessed
<1>3. PICK u \in Nat, v \in Nat : LoopSize = u * Step /\ o = v * Step
  <2>1. \A a \in Nat : a % Step = 0 => a \div Step \in Nat /\ a = (a \div Step) * Step
    BY <1>1
  <2>2. QED
    BY <1>1, <1>2, <2>1
<1>4. v < u
  <2>1. u <= v => u * Step <= v * Step
    BY <1>1
  <2>2. QED
    BY <1>2, <1>3, <2>1
<1>5. v * Step + Step <= u * Step
  <2>1. (v + 1) * Step <= u * Step /\ (v + 1) * Step = v * Step + Step
    BY <1>1, <1>4
  <2>2. QED
    BY <2>1
<1>6. QED
  BY <1>1, <1>2, <1>3, <1>5

(* With a single region that holds the active words no round leaves it. *)
LEMMA KernelInside ==
  ASSUME ArgsInv, [Next]_vars, Kernel, InputCheck, InPass, k \in Nat,
         c.size2 = 0, c.active_size <= c.size
  PROVE  UNCHANGED <<status, stage>>
<1>1. run.prog = "bw_mem" /\ k < PassLength
  BY DEF Kernel
<1>2. PICK a \in Nat, h \in Nat, n \in Nat :
        /\ a = run.region.active_size /\ h = List!half /\ n = PassLength
        /\ n * LoopSize = a
        /\ Copies => h = a /\ 2 * a <= c.size
        /\ ~Copies => a <= c.size
  BY <1>1, KernelSizes, RegionArgs
<1>3. LoopSize \in Nat \ {0} /\ Step \in Nat \ {0} /\ c.size \in Nat
  BY LatBwAssumption, RegionArgs
<1>4. PICK d \in Nat : d = Distance
  BY <1>3 DEF Distance
<1>5. d + LoopSize <= a
  <2>1. k + 1 <= n
    BY <1>1, <1>2
  <2>2. (k + 1) * LoopSize <= n * LoopSize
    BY <1>2, <1>3, <2>1
  <2>3. d + LoopSize = (k + 1) * LoopSize
    BY <1>3, <1>4 DEF Distance
  <2>4. QED
    BY <1>2, <2>2, <2>3
<1>6. ASSUME NEW b \in Nat, b + a <= c.size, NEW w \in From(Linear(b, d))
      PROVE  List!InRegion(w)
  <2>1. PICK o \in Accessed(LoopSize) : w = Linear(b, d + o)
    BY <1>6, FromLinear
  <2>2. o \in Nat /\ o + Pointer <= LoopSize
    BY <1>3, <2>1, RoundWords
  <2>3. d + o \in Nat /\ b + (d + o) + Pointer <= c.size
    BY <1>2, <1>3, <1>5, <1>6, <2>2, LatBwAssumption
  <2>4. QED
    BY <2>1, <2>3, OneRegion
<1>7. /\ p = Linear(0, d) /\ (Copies => p2 = Linear(h, d))
      /\ 0 + a <= c.size /\ (Copies => h + a <= c.size)
  BY <1>2, <1>3, <1>4 DEF InPass
<1>8. \A w \in From(p) \cup (IF Copies THEN From(p2) ELSE {}) : List!InRegion(w)
  BY <1>6, <1>7
<1>9. QED
  BY <1>8 DEF Kernel

(* Steps that leave the list and the pass alone. *)
LEMMA KernelQuiet ==
  ASSUME WorkInv, KernelInv, [Next]_vars, run.prog = "bw_mem",
         UnknownAction \/ Construct \/ UnknownPattern \/ Check \/ Migrate \/ Leave \/ Return
           \/ Finished \/ UNCHANGED vars
  PROVE  KernelInv'
<1>1. run' = run /\ c' = c /\ PassLength' = PassLength
  BY WorkFrame
<1>2. UNCHANGED <<status, p, p2, k, touched>>
  BY DEF UnknownAction, Construct, UnknownPattern, Check, Migrate, Leave, Return, Finished, vars,
     listVars
<1>3. stage' # "init" /\ (Benchmark /\ status = "chasing" => Benchmark')
  <2>1. CASE UnknownAction \/ Construct \/ UnknownPattern \/ Check \/ Leave \/ Return
    BY <2>1 DEF UnknownAction, Construct, UnknownPattern, Check, Leave, Return, Benchmark
  <2>2. CASE Migrate
    BY <2>2 DEF Migrate, Benchmark, WorkInv, KernelInv
  <2>3. CASE Finished \/ UNCHANGED vars
    BY <2>3 DEF Finished, vars, mainVars, KernelInv, Benchmark
  <2>4. QED
    BY <2>1, <2>2, <2>3
<1>4. Distance' = Distance
  BY <1>2 DEF Distance
<1>5. \A x : Behind(x, Distance)' <=> Behind(x, Distance)
  BY <1>1, <1>4, AddrFrame DEF Behind
<1>6. InPass => InPass'
  <2>1. \A x : List!getOffsetAddr_(x)' = List!getOffsetAddr_(x)
    BY <1>1, AddrFrame
  <2>2. /\ Linear(0, Distance)' = Linear(0, Distance)
        /\ Linear(List!half, Distance)' = Linear(List!half, Distance)
        /\ Copies' <=> Copies
    BY <1>1, <1>4, AddrFrame DEF Linear
  <2>3. QED
    BY <1>1, <1>2, <1>5, <2>1, <2>2 DEF InPass
<1>7. QED
  BY <1>1, <1>2, <1>3, <1>6 DEF KernelInv

(* Every step keeps the invariant of the kernels. *)
LEMMA KernelStep ==
  ASSUME ArgsInv, WorkInv, KernelInv, [Next]_vars
  PROVE  KernelInv'
<1>1. run' = run /\ c' = c /\ PassLength' = PassLength
  BY WorkFrame
<1>2. CASE run.prog # "bw_mem"
  BY <1>1, <1>2 DEF KernelInv
<1>3. CASE run.prog = "bw_mem"
  <2>1. ASSUME Benchmark, status = "chasing"
        PROVE  InputCheck /\ k \in Nat
    BY <2>1 DEF WorkInv, Benchmark
  <2>2. CASE UnknownAction \/ Construct \/ UnknownPattern \/ Check \/ Migrate \/ Leave \/ Return
               \/ Finished \/ UNCHANGED vars
    BY <1>3, <2>2, KernelQuiet
  <2>3. CASE Enter
    <3>1. /\ Benchmark /\ touched' = << >> /\ k' = PassLength /\ UNCHANGED todo
          /\ \/ status' = "abort"
             \/ status' = "chasing" /\ UNCHANGED stage
          /\ stage' # "init"
      BY <2>3 DEF Enter, Benchmark
    <3>2. DOMAIN touched' = {}
      BY <3>1
    <3>3. status' = "chasing" => Benchmark'
      BY <1>1, <3>1 DEF Benchmark
    <3>4. QED
      BY <1>1, <3>1, <3>2, <3>3 DEF KernelInv
  <2>4. CASE NextPass
    <3>1. Benchmark /\ status = "chasing" /\ UNCHANGED <<stage, todo, status>>
      BY <2>4 DEF NextPass
    <3>2. InPass'
      BY <1>3, <2>1, <2>4, <3>1, PassBegins
    <3>3. Benchmark' /\ stage' # "init"
      BY <1>1, <3>1 DEF Benchmark
    <3>4. QED
      BY <3>1, <3>2, <3>3 DEF KernelInv
  <2>5. CASE Kernel
    <3>1. Benchmark /\ status = "chasing" /\ UNCHANGED todo /\ k < PassLength
          /\ \/ UNCHANGED <<status, stage>>
             \/ status' = "overrun" /\ stage' = "died"
      BY <2>5 DEF Kernel
    <3>2. InputCheck /\ k \in Nat /\ InPass
      <4>1. k # PassLength
        BY <2>1, <3>1, WorkTypes
      <4>2. QED
        BY <1>3, <2>1, <3>1, <4>1 DEF KernelInv
    <3>3. status' = "chasing" => InPass'
      BY <2>5, <3>2, KernelRound
    <3>4. stage' # "init" /\ (status' = "chasing" => Benchmark')
      BY <1>1, <3>1 DEF Benchmark
    <3>5. c.size2 = 0 /\ c.active_size <= c.size => status' # "overrun"
      BY <2>5, <3>1, <3>2, KernelInside
    <3>6. QED
      BY <1>1, <3>3, <3>4, <3>5 DEF KernelInv
  <2>6. CASE EndPhase
    BY <1>1, <1>3, <2>6 DEF EndPhase, KernelInv, Benchmark
  <2>7. CASE InitList \/ Load \/ ClientChase
    BY <1>3, <2>7 DEF InitList, Load, ClientChase, KernelInv
  <2>8. QED
    BY <2>2, <2>3, <2>4, <2>5, <2>6, <2>7 DEF Next
<1>4. QED
  BY <1>2, <1>3

LEMMA KernelInit ==
  ASSUME Init
  PROVE  KernelInv
  BY DEF Init, List!Init, KernelInv

(* At the end of a pass what is behind the pointers is the active part. *)
LEMMA KernelCoversAll ==
  ASSUME ArgsInv, WorkInv, KernelInv
  PROVE  KernelCovers
<1> SUFFICES ASSUME run.prog = "bw_mem"
             PROVE  /\ status = "chasing" /\ k = PassLength =>
                         \A a \in DOMAIN touched :
                           touched[a] = IF \E o \in Accessed(c.active_size) :
                                             a = List!getOffsetAddr_(o)
                                        THEN 1 ELSE 0
                    /\ c.size2 = 0 /\ c.active_size <= c.size => status # "overrun"
  BY DEF KernelCovers
<1>1. c.size2 = 0 /\ c.active_size <= c.size => status # "overrun"
  BY DEF KernelInv
<1>2. ASSUME status = "chasing", k = PassLength, NEW a \in DOMAIN touched
      PROVE  touched[a] = IF \E o \in Accessed(c.active_size) : a = List!getOffsetAddr_(o)
                          THEN 1 ELSE 0
  <2>1. InputCheck /\ InPass
    BY <1>2 DEF KernelInv, WorkInv, Benchmark
  <2>2. PICK x \in Accessed(c.size) : a = List!getOffsetAddr_(x)
    BY <1>2, <2>1 DEF InPass
  <2>3. touched[a] = IF Behind(x, Distance) THEN 1 ELSE 0
    BY <2>1, <2>2 DEF InPass
  <2>4. PICK b \in Nat, h \in Nat :
          /\ b = Distance /\ h = List!half
          /\ Copies => c.active_size = 2 * b /\ h = b
          /\ ~Copies => c.active_size = b
    <3>1. PassLength * LoopSize = run.region.active_size
      BY <2>1, KernelSizes
    <3>2. Distance = run.region.active_size
      BY <1>2, <3>1 DEF Distance
    <3>3. QED
      BY <2>1, <3>2, KernelSizes, RegionArgs
  <2>5. x \in Nat /\ x % Step = 0
    BY <2>2, RegionArgs DEF Accessed
  <2>6. Behind(x, Distance) <=> x < c.active_size
    <3>1. CASE Copies
      BY <2>4, <2>5, <3>1 DEF Behind
    <3>2. CASE ~Copies
      BY <2>4, <2>5, <3>2 DEF Behind
    <3>3. QED
      BY <3>1, <3>2
  <2>7. (\E o \in Accessed(c.active_size) : a = List!getOffsetAddr_(o)) <=> x < c.active_size
    <3>1. ASSUME NEW o \in Accessed(c.active_size), a = List!getOffsetAddr_(o)
          PROVE  x < c.active_size
      <4>1. o \in Nat /\ o < c.active_size
        BY RegionArgs DEF Accessed
      <4>2. o = x
        BY <2>2, <2>5, <3>1, <4>1, AddrInjective
      <4>3. QED
        BY <4>1, <4>2
    <3>2. x < c.active_size => x \in Accessed(c.active_size)
      BY <2>5, RegionArgs DEF Accessed
    <3>3. QED
      BY <2>2, <3>1, <3>2
  <2>8. QED
    BY <2>3, <2>6, <2>7
<1>3. QED
  BY <1>1, <1>2

-----------------------------------------------------------------------------
(* Lines and their places *)

(* A quotient without remainder. *)
LEMMA Exact ==
  ASSUME NEW a \in Nat, NEW d \in Nat \ {0}, a % d = 0
  PROVE  a \div d \in Nat /\ a = (a \div d) * d /\ (a > 0 => a \div d > 0)
<1> DEFINE q == a \div d
<1>1. q \in Nat /\ a = q * d
  OBVIOUS
<1> HIDE DEF q
<1>2. a > 0 => q > 0
  BY <1>1
<1>3. QED
  BY <1>1, <1>2 DEF q

(* The active part is made of whole lines. *)
LEMMA FitSizes ==
  ASSUME ArgsInv, Fits
  PROVE  /\ List!num_active_pages \in Nat \ {0} /\ List!num_lines_in_page \in Nat \ {0}
         /\ Lines \in Nat \ {0} /\ Lines = List!num_active_pages * List!num_lines_in_page
         /\ c.page_size = List!num_lines_in_page * c.line_size
         /\ c.active_size = Lines * c.line_size
         /\ c.line_size \in Nat \ {0} /\ c.size \in Nat /\ Lines * c.line_size <= c.size
<1>1. /\ c.size \in Nat /\ c.active_size \in Nat /\ c.page_size \in Nat \ {0}
      /\ c.line_size \in Nat \ {0} /\ c.active_size > 0 /\ c.page_size > 0
      /\ c.active_size % c.page_size = 0 /\ c.page_size % c.line_size = 0
      /\ c.active_size <= c.size
  BY RegionArgs DEF Fits
<1>2. PICK P \in Nat, L \in Nat :
        /\ P = List!num_active_pages /\ L = List!num_lines_in_page
        /\ c.active_size = P * c.page_size /\ c.page_size = L * c.line_size
        /\ P > 0 /\ L > 0
  BY <1>1, Exact DEF List!num_active_pages, List!num_lines_in_page
<1>3. Lines = P * L
  BY <1>2 DEF Lines, List!numActiveLines
<1>4. P * L \in Nat /\ P * L > 0
  BY <1>2
<1>5. P * (L * c.line_size) = (P * L) * c.line_size
  BY <1>1, <1>2
<1>6. QED
  BY <1>1, <1>2, <1>3, <1>4, <1>5

(* The lines of a fitting list lie in memory, at different places. *)
LEMMA AtInside ==
  ASSUME ArgsInv, Fits, NEW x \in Position
  PROVE  /\ x * c.line_size \in Nat /\ x * c.line_size < c.active_size
         /\ x * c.line_size + c.line_size <= c.size
         /\ List!InRegion(At(x)) /\ ~List!Asserts(x * c.line_size)
<1>1. PICK l \in Nat \ {0}, n \in Nat \ {0} :
        l = c.line_size /\ n = Lines /\ c.active_size = n * l /\ n * l <= c.size /\ c.size \in Nat
  BY FitSizes
<1>2. x \in Nat /\ x + 1 <= n
  BY <1>1 DEF Position
<1>3. (x + 1) * l <= n * l /\ x * l \in Nat /\ (x + 1) * l = x * l + l
  BY <1>1, <1>2
<1>4. x * l < n * l /\ x * l + l <= c.size /\ x * l < c.size
  BY <1>1, <1>2, <1>3
<1>5. List!InRegion(At(x))
  <2>1. PICK o \in Nat : o = x * l /\ o < c.active_size /\ o + l <= c.size
    BY <1>1, <1>3, <1>4
  <2>2. o \in 0 .. c.active_size - 1 /\ o % c.line_size = 0
    BY <1>1, <1>2, <2>1, Multiple, RegionArgs
  <2>3. Pointer <= l /\ (o < List!size_region1 => o + Pointer <= List!size_region1)
    BY <1>1, <2>2 DEF Fits, List!Room
  <2>4. o + Pointer <= c.size
    BY <1>1, <2>1, <2>3, LatBwAssumption
  <2>5. QED
    BY <1>1, <2>1, <2>3, <2>4, InsideWord DEF At
<1>6. QED
  BY <1>1, <1>3, <1>4, <1>5, InsideAddr

LEMMA SameProduct ==
  ASSUME NEW x \in Nat, NEW y \in Nat, NEW l \in Nat \ {0}, x * l = y * l
  PROVE  x = y
<1>1. CASE x < y
  <2>1. (x + 1) * l <= y * l /\ (x + 1) * l = x * l + l
    BY <1>1
  <2>2. QED
    BY <2>1
<1>2. CASE y < x
  <2>1. (y + 1) * l <= x * l /\ (y + 1) * l = y * l + l
    BY <1>2
  <2>2. QED
    BY <2>1
<1>3. QED
  BY <1>1, <1>2

LEMMA AtInjective ==
  ASSUME ArgsInv, NEW x \in Nat, NEW y \in Nat, At(x) = At(y)
  PROVE  x = y
<1>1. PICK l \in Nat \ {0} : l = c.line_size
  BY RegionArgs
<1>2. x * l \in Nat /\ y * l \in Nat
  OBVIOUS
<1>3. x * l = y * l
  BY <1>1, <1>2, AddrInjective DEF At
<1>4. QED
  BY <1>3, SameProduct

(* Offsets of lines that lie apart. *)
LEMMA LinesApart ==
  ASSUME NEW x \in Nat, NEW y \in Nat, NEW l \in Nat, x < y
  PROVE  x * l + l <= y * l
<1>1. (x + 1) * l <= y * l /\ (x + 1) * l = x * l + l
  OBVIOUS
<1>2. QED
  BY <1>1

(* The pointers of two lines share no byte. *)
LEMMA PointersApart ==
  ASSUME ArgsInv, Fits, NEW x \in Nat, NEW y \in Nat, List!Overlap(At(x), At(y))
  PROVE  x = y
<1>1. PICK l \in Nat \ {0}, w \in Nat : l = c.line_size /\ w = Pointer /\ w <= l
  BY RegionArgs, LatBwAssumption DEF Fits, List!Room
<1>2. PICK u \in Nat, v \in Nat : u = x * l /\ v = y * l
  OBVIOUS
<1>3. u < v + w /\ v < u + w
  BY <1>1, <1>2, OverlapOffsets DEF At
<1>4. (x < y => u + l <= v) /\ (y < x => v + l <= u)
  BY <1>1, <1>2, LinesApart
<1>5. QED
  BY <1>1, <1>2, <1>3, <1>4

(* The payload word lies in its line: inside the region, on no pointer. *)
LEMMA PayloadFree ==
  ASSUME ArgsInv, Fits, List!Room(5 * Pointer), NEW x \in Position
  PROVE  /\ List!InRegion(List!Payload(At(x)))
         /\ \A y \in Nat : ~List!Overlap(List!Payload(At(x)), At(y))
<1>1. PICK l \in Nat \ {0}, w \in Nat \ {0}, s \in Int :
        /\ l = c.line_size /\ s = List!size_region1 /\ s = c.size - c.size2
        /\ w = Pointer /\ 5 * w <= l
  BY RegionArgs, LatBwAssumption DEF List!size_region1, List!Room
<1>2. x \in Nat /\ c.size \in Nat /\ c.size2 \in Nat /\ c.active_size \in Nat
  BY RegionArgs, FitSizes DEF Position
<1>3. PICK o \in Nat : o = x * l /\ o + l <= c.size /\ o < c.active_size
  BY <1>1, AtInside
<1>4. o < s => o + 5 * w <= s
  <2>1. o \in 0 .. c.active_size - 1 /\ o % c.line_size = 0
    BY <1>1, <1>2, <1>3, Multiple
  <2>2. QED
    BY <1>1, <2>1 DEF List!Room
<1>5. PICK e \in Nat : e = o + 4 * w /\ e + w <= c.size /\ (e < s => e + w <= s)
  BY <1>1, <1>2, <1>3, <1>4
<1>6. List!Payload(At(x)) = List!getOffsetAddr_(e)
  <2>1. CASE s > 0 /\ o < s
    <3>1. At(x) = <<1, o>>
      BY <1>1, <1>3, <2>1 DEF At, List!getOffsetAddr_
    <3>2. s > 0 /\ e < s
      BY <1>1, <1>4, <1>5, <2>1
    <3>3. QED
      BY <1>1, <1>5, <3>1, <3>2 DEF List!Payload, List!getOffsetAddr_
  <2>2. CASE ~(s > 0 /\ o < s)
    <3>1. At(x) = <<2, o - s>>
      BY <1>1, <1>3, <2>2 DEF At, List!getOffsetAddr_
    <3>2. ~(s > 0 /\ e < s) /\ (o - s) + 4 * w = e - s
      BY <1>1, <1>5, <2>2
    <3>3. QED
      BY <1>1, <3>1, <3>2 DEF List!Payload, List!getOffsetAddr_
  <2>3. QED
    BY <2>1, <2>2
<1>7. List!InRegion(List!Payload(At(x)))
  BY <1>1, <1>5, <1>6, InsideWord
<1>8. ASSUME NEW y \in Nat, List!Overlap(List!getOffsetAddr_(e), At(y))
      PROVE  FALSE
  <2>1. PICK v \in Nat : v = y * l
    OBVIOUS
  <2>2. e < v + w /\ v < e + w
    BY <1>1, <1>8, <2>1, OverlapOffsets DEF At
  <2>3. (x < y => o + l <= v) /\ (y < x => v + l <= o)
    BY <1>2, <1>3, <2>1, LinesApart
  <2>4. x = y => v = o
    BY <1>3, <2>1
  <2>5. QED
    BY <1>1, <1>2, <1>5, <2>2, <2>3, <2>4
<1>9. QED
  BY <1>6, <1>7, <1>8

(* An injection of the places into the lines reaches every line. *)
LEMMA Onto ==
  ASSUME NEW S, IsFiniteSet(S), NEW f \in [S -> S], \A i, j \in S : f[i] = f[j] => i = j,
         NEW v \in S
  PROVE  \E j \in S : f[j] = v
<1> SUFFICES ASSUME \A j \in S : f[j] # v PROVE FALSE
  OBVIOUS
<1>1. PICK T : T = S \ {v}
  OBVIOUS
<1>2. f \in [S -> T]
  BY <1>1
<1>3. IsFiniteSet(T) /\ Cardinality(T) = Cardinality(S) - 1 /\ Cardinality(S) \in Nat
  BY <1>1, FS_RemoveElement, FS_CardinalityType
<1>4. Cardinality(T) < Cardinality(S)
  BY <1>3
<1>5. \E x, y \in S : x # y /\ f[x] = f[y]
  BY <1>2, <1>3, <1>4, FS_PigeonHole
<1>6. QED
  BY <1>5

(* Every line has its place on the circle. *)
LEMMA EveryLine ==
  ASSUME ArgsInv, Fits, NEW f \in [Position -> Position],
         \A i, j \in Position : f[i] = f[j] => i = j,
         NEW v \in Position
  PROVE  \E j \in Position : f[j] = v
<1>1. IsFiniteSet(Position)
  <2>1. 0 \in Int /\ Lines - 1 \in Int
    BY FitSizes
  <2>2. QED
    BY <2>1, FS_Interval DEF Position
<1>2. QED
  BY <1>1, Onto

(* The sizes do not change. *)
LEMMA ListFrame ==
  ASSUME c' = c
  PROVE  /\ Lines' = Lines /\ Position' = Position
         /\ \A x : At(x)' = At(x) /\ Round(x)' = Round(x)
         /\ List!num_active_pages' = List!num_active_pages
         /\ pattern' = pattern => (HalfWay' <=> HalfWay)
         /\ Fits' <=> Fits
<1>1. Lines' = Lines /\ List!num_active_pages' = List!num_active_pages
  BY DEF Lines, List!numActiveLines, List!num_active_pages, List!num_lines_in_page
<1>2. \A x : At(x)' = At(x)
  BY DEF At, List!getOffsetAddr_, List!size_region1
<1>3. List!Room(Pointer)' <=> List!Room(Pointer)
  BY DEF List!Room, List!size_region1
<1>4. QED
  BY <1>1, <1>2, <1>3 DEF Position, Round, HalfWay, Fits

(* What a list needs room for: fewer bytes need no more. *)
LEMMA RoomLess ==
  ASSUME ArgsInv, NEW u \in Nat, NEW v \in Nat, v <= u, List!Room(u)
  PROVE  List!Room(v)
<1>1. c.line_size \in Nat /\ c.active_size \in Nat /\ List!size_region1 \in Int
  BY RegionArgs DEF List!size_region1
<1>2. QED
  BY <1>1 DEF List!Room

(* Regular sizes fit. *)
LEMMA RegularFits ==
  ASSUME ArgsInv, List!Regular
  PROVE  Fits /\ (mode # "read" => List!Room(5 * Pointer))
<1>1. Pointer \in Nat /\ 5 * Pointer \in Nat /\ Pointer <= 5 * Pointer
  BY LatBwAssumption
<1>2. List!Room(Pointer)
  BY <1>1, RoomLess DEF List!Regular, List!Used
<1>3. QED
  BY <1>2 DEF List!Regular, List!Used, Fits

LEMMA RegularFitsNext ==
  ASSUME ArgsInv, c' = c, List!Regular'
  PROVE  Fits
<1>1. Pointer \in Nat /\ 5 * Pointer \in Nat /\ Pointer <= 5 * Pointer
  BY LatBwAssumption
<1>2. \A u : List!Room(u)' <=> List!Room(u)
  BY DEF List!Room, List!size_region1
<1>3. List!Room(Pointer) \/ List!Room(5 * Pointer)
  BY <1>2 DEF List!Regular, List!Used
<1>4. List!Room(Pointer)
  BY <1>1, <1>3, RoomLess
<1>5. QED
  BY <1>4 DEF List!Regular, Fits

(* A list whose offsets begin inside the regions is written there, but for *)
(* a pointer that ends behind its region.                                  *)
LEMMA WriteBegins ==
  ASSUME ArgsInv, c.active_size <= c.size, NEW n \in Nat, NEW order,
         \A j \in 0 .. n - 1 : order[j] \in Nat /\ order[j] < c.active_size,
         List!WriteList(order, n)
  PROVE  /\ status' \in {"linked", "overrun"}
         /\ (\A j \in 0 .. n - 1 : List!InRegion(List!getOffsetAddr_(order[j])))
              => status' = "linked"
<1>1. \A j \in 0 .. n - 1 : order[j] < c.size
  BY RegionArgs
<1>2. \A j \in 0 .. n - 1 : ~List!Asserts(order[j])
  BY <1>1, InsideAddr
<1>3. QED
  BY <1>2 DEF List!WriteList

(* Among regions of whole pointers, an offset of whole pointers has room.  *)
LEMMA WholeInside ==
  ASSUME ArgsInv, List!WholePointers, NEW x \in Nat, x < c.size, x % Pointer = 0
  PROVE  List!InRegion(List!getOffsetAddr_(x))
<1>1. PICK w \in Nat \ {0} : w = Pointer
  BY LatBwAssumption
<1>2. PICK a \in Nat, b \in Nat : a = c.size /\ b = c.size2 /\ a % w = 0 /\ b % w = 0
  BY <1>1, RegionArgs DEF List!WholePointers
<1>3. PICK q \in Nat, r \in Nat, t \in Nat : a = q * w /\ b = r * w /\ x = t * w
  <2>1. x % w = 0
    BY <1>1
  <2>2. \A y \in Nat : y % w = 0 => \E m \in Nat : y = m * w
    BY Exact
  <2>3. (\E m \in Nat : a = m * w) /\ (\E m \in Nat : b = m * w) /\ (\E m \in Nat : x = m * w)
    BY <1>2, <2>1, <2>2
  <2>4. QED
    BY <2>3
<1>4. \A m \in Int : t * w < m * w => t * w + w <= m * w
  <2> TAKE m \in Int
  <2>1. m <= t => m * w <= t * w
    BY <1>1
  <2>2. t + 1 <= m => (t + 1) * w <= m * w /\ (t + 1) * w = t * w + w
    BY <1>1
  <2>3. m <= t \/ t + 1 <= m
    BY <1>3
  <2>4. t * w \in Int /\ m * w \in Int
    BY <1>1
  <2>5. QED
    BY <2>1, <2>2, <2>3, <2>4
<1>5. a - b = (q - r) * w /\ q - r \in Int
  BY <1>1, <1>3
<1>6. x + w <= a /\ (x < a - b => x + w <= a - b)
  <2>1. x < a => x + w <= a
    BY <1>3, <1>4
  <2>2. x < a - b => x + w <= a - b
    BY <1>3, <1>4, <1>5
  <2>3. QED
    BY <1>2, <2>1, <2>2
<1>7. QED
  BY <1>1, <1>2, <1>6, InsideWord DEF List!size_region1

(* An offset that a list stores at. *)
Stored(x) ==
  /\ x \in Nat /\ x < c.active_size
  /\ List!WholePointers => x % Pointer = 0

LEMMA WriteInside ==
  ASSUME ArgsInv, c.active_size <= c.size, NEW n \in Nat, NEW order,
         \A j \in 0 .. n - 1 : Stored(order[j]), List!WriteList(order, n)
  PROVE  status' \in {"linked", "overrun"} /\ (List!WholePointers => status' = "linked")
<1>1. \A j \in 0 .. n - 1 : order[j] \in Nat /\ order[j] < c.active_size /\ order[j] < c.size
  BY RegionArgs DEF Stored
<1>2. List!WholePointers =>
        \A j \in 0 .. n - 1 : List!InRegion(List!getOffsetAddr_(order[j]))
  BY <1>1, WholeInside DEF Stored
<1>3. QED
  BY <1>1, <1>2, WriteBegins

(* Writing the lines in the order f makes the circle of f. *)
LEMMA WriteCircle ==
  ASSUME ArgsInv, Fits, c' = c, pattern' = pattern,
         NEW f \in [Position -> Position], f[0] = 0,
         \A i, j \in Position : f[i] = f[j] => i = j,
         HalfWay => f[Lines \div 2] = Lines \div 2,
         NEW order, \A j \in Position : order[j] = f[j] * c.line_size,
         List!WriteList(order, Lines)
  PROVE  status' = "linked" /\ Circle(f)'
<1>1. PICK n \in Nat \ {0} : n = Lines /\ Position = 0 .. n - 1
  BY FitSizes DEF Position
<1>2. ASSUME NEW j \in Position
      PROVE  /\ f[j] \in Position /\ f[j] \in Nat
             /\ order[j] \in Nat /\ order[j] < c.active_size
             /\ List!getOffsetAddr_(order[j]) = At(f[j])
  BY <1>1, AtInside DEF At
<1>3. status' = "linked"
  <2>1. \A j \in 0 .. n - 1 : List!InRegion(List!getOffsetAddr_(order[j]))
    BY <1>1, <1>2, AtInside
  <2>2. List!WriteList(order, n) /\ n \in Nat /\ c.active_size <= c.size
    BY <1>1 DEF Fits
  <2>3. \A j \in 0 .. n - 1 : order[j] \in Nat /\ order[j] < c.active_size
    BY <1>1, <1>2
  <2>4. QED
    BY <2>1, <2>2, <2>3, WriteBegins
<1> DEFINE addrs == {List!getOffsetAddr_(o) : o \in {order[j] : j \in 0 .. n - 1}}
           at(a) == CHOOSE j \in 0 .. n - 1 : List!getOffsetAddr_(order[j]) = a
           whole == {a \in addrs : \A b \in addrs : List!Overlap(a, b) => at(b) <= at(a)}
<1>4. link' = [a \in whole |-> List!getOffsetAddr_(order[(at(a) + 1) % n])]
  <2>1. List!WriteList(order, n)
    BY <1>1
  <2>2. QED
    BY <1>3, <2>1 DEF List!WriteList
<1>5. addrs = {At(f[j]) : j \in Position}
  <2>1. \A a : a \in addrs <=> \E j \in Position : a = List!getOffsetAddr_(order[j])
    BY <1>1
  <2>2. \A a : a \in {At(f[j]) : j \in Position} <=> \E j \in Position : a = At(f[j])
    OBVIOUS
  <2> HIDE DEF addrs
  <2>3. \A a : a \in addrs <=> a \in {At(f[j]) : j \in Position}
    BY <1>2, <2>1, <2>2
  <2>4. QED
    BY <2>3
<1>6. ASSUME NEW j \in Position
      PROVE  at(At(f[j])) = j
  <2>1. \A i \in Position : List!getOffsetAddr_(order[i]) = At(f[j]) <=> i = j
    <3> TAKE i \in Position
    <3>1. At(f[i]) = At(f[j]) => f[i] = f[j]
      BY <1>2, AtInjective
    <3>2. QED
      BY <1>2, <3>1
  <2>2. QED
    BY <1>1, <2>1
<1>7. whole = addrs
  <2>1. \A j \in Position : at(At(f[j])) = j
    BY <1>6
  <2> HIDE DEF at, addrs
  <2>2. ASSUME NEW a \in addrs, NEW b \in addrs, List!Overlap(a, b)
        PROVE  at(b) <= at(a)
    <3>1. PICK i \in Position, j \in Position : a = At(f[i]) /\ b = At(f[j])
      BY <1>5
    <3>2. f[i] \in Nat /\ f[j] \in Nat /\ List!Overlap(At(f[i]), At(f[j]))
      BY <1>2, <2>2, <3>1
    <3>3. f[i] = f[j]
      BY <3>2, PointersApart
    <3>4. at(a) = i /\ at(b) = i /\ i \in Nat
      BY <1>1, <2>1, <3>1, <3>3
    <3>5. QED
      BY <3>4
  <2>3. QED
    BY <2>2
<1>8. ASSUME NEW j \in Position
      PROVE  (j + 1) % n = Round(j + 1) /\ Round(j + 1) \in Position
  <2>1. CASE j + 1 < n
    <3>1. PICK m \in Nat : m = j + 1 /\ m < n /\ m \in Position
      BY <1>1, <2>1
    <3>2. m % n = m
      BY <3>1
    <3>3. QED
      BY <1>1, <3>1, <3>2 DEF Round
  <2>2. CASE ~(j + 1 < n)
    <3>1. j + 1 = n
      BY <1>1, <2>2
    <3>2. n % n = 0
      BY Multiple
    <3>3. QED
      BY <1>1, <2>2, <3>1, <3>2 DEF Round
  <2>3. QED
    BY <2>1, <2>2
<1>9. ASSUME NEW j \in Position
      PROVE  link'[At(f[j])] = At(f[Round(j + 1)])
  <2>1. At(f[j]) \in addrs
    BY <1>5
  <2>2. link'[At(f[j])] = List!getOffsetAddr_(order[(j + 1) % n])
    BY <1>4, <1>6, <1>7, <2>1
  <2>3. QED
    BY <1>2, <1>8, <2>2
<1>10. DOMAIN link' = {At(f[j]) : j \in Position}
  BY <1>4, <1>5, <1>7
<1> HIDE DEF addrs, at, whole
<1>11. /\ Lines' = Lines /\ Position' = Position /\ (HalfWay' <=> HalfWay)
       /\ \A x : At(x)' = At(x) /\ Round(x)' = Round(x)
  BY ListFrame
<1>12. Circle(f)'
  BY <1>9, <1>10, <1>11 DEF Circle
<1>13. QED
  BY <1>3, <1>12

-----------------------------------------------------------------------------
(* The orders of the three patterns *)

LEMMA DivMod ==
  ASSUME NEW l \in Nat \ {0}, NEW q \in Nat, NEW r \in 0 .. l - 1, NEW x \in Nat, x = q * l + r
  PROVE  x \div l = q /\ x % l = r
  OBVIOUS

LEMMA Split ==
  ASSUME NEW l \in Nat \ {0}, NEW x \in Nat
  PROVE  x \div l \in Nat /\ x % l \in 0 .. l - 1 /\ x = (x \div l) * l + (x % l)
<1> DEFINE q == x \div l
           r == x % l
<1>1. q \in Nat /\ r \in 0 .. l - 1 /\ x = l * q + r
  OBVIOUS
<1> HIDE DEF q, r
<1>2. x = q * l + r
  BY <1>1
<1>3. QED
  BY <1>1, <1>2 DEF q, r

LEMMA OneMore ==
  ASSUME NEW x \in Nat, NEW n \in Nat, NEW l \in Nat, x < n
  PROVE  x * l \in Nat /\ n * l \in Nat /\ x * l + l <= n * l
<1>1. (x + 1) * l <= n * l /\ (x + 1) * l = x * l + l
  OBVIOUS
<1>2. QED
  BY <1>1

(* Page q and line r of the page as one number. *)
LEMMA PageLine ==
  ASSUME NEW P \in Nat, NEW L \in Nat \ {0}, NEW j \in 0 .. P * L - 1
  PROVE  j \div L \in 0 .. P - 1 /\ j % L \in 0 .. L - 1 /\ j = (j \div L) * L + (j % L)
<1>1. P * L \in Nat /\ j \in Nat
  OBVIOUS
<1> DEFINE q == j \div L
           r == j % L
<1>2. q \in Nat /\ r \in 0 .. L - 1 /\ j = q * L + r
  BY <1>1, Split
<1> HIDE DEF q, r
<1>3. q < P
  <2>1. P <= q => P * L <= q * L
    BY <1>2
  <2>2. QED
    BY <1>1, <1>2, <2>1
<1>4. q \in 0 .. P - 1
  BY <1>2, <1>3
<1>5. QED
  BY <1>2, <1>4 DEF q, r

LEMMA StrideInside ==
  ASSUME ArgsInv, 0 < c.active_size,
         NEW j \in 0 .. List!Max1((c.active_size + c.line_size - 1) \div c.line_size) - 1
  PROVE  j * c.line_size \in Nat /\ j * c.line_size < c.active_size
<1>1. PICK a \in Nat, l \in Nat \ {0} : a = c.active_size /\ l = c.line_size /\ 0 < a
  BY RegionArgs
<1>2. PICK x \in Nat : x = a + l - 1
  BY <1>1
<1>3. PICK q \in Nat, r \in 0 .. l - 1 : q = x \div l /\ x = q * l + r
  BY <1>2, Split
<1>4. j \in Nat /\ (j = 0 \/ j + 1 <= q)
  BY <1>1, <1>2, <1>3 DEF List!Max1
<1>5. CASE j = 0
  BY <1>1, <1>5
<1>6. CASE j + 1 <= q
  <2>1. (j + 1) * l <= q * l /\ (j + 1) * l = j * l + l /\ j * l \in Nat /\ q * l \in Nat
    BY <1>4, <1>6
  <2>2. j * l < a
    BY <1>2, <1>3, <2>1
  <2>3. QED
    BY <1>1, <2>1, <2>2
<1>7. QED
  BY <1>4, <1>5, <1>6

(* Whole lines of a page, whole pages of the active part. *)
LEMMA Pages ==
  ASSUME ArgsInv
  PROVE  /\ List!num_active_pages \in Nat /\ List!num_lines_in_page \in Nat
         /\ List!num_active_pages * c.page_size <= c.active_size
         /\ List!num_lines_in_page * c.line_size <= c.page_size
<1>1. c.active_size \in Nat /\ c.page_size \in Nat \ {0} /\ c.line_size \in Nat \ {0}
  BY RegionArgs
<1>2. \A x \in Nat, l \in Nat \ {0} : x \div l \in Nat /\ (x \div l) * l <= x
  <2> TAKE x \in Nat, l \in Nat \ {0}
  <2>1. PICK q \in Nat, r \in 0 .. l - 1 : q = x \div l /\ x = q * l + r
    BY Split
  <2>2. QED
    BY <2>1
<1>3. QED
  BY <1>1, <1>2 DEF List!num_active_pages, List!num_lines_in_page

LEMMA PageInside ==
  ASSUME ArgsInv, NEW L \in Nat \ {0}, L = List!num_lines_in_page,
         NEW lines \in [0 .. L - 1 -> 0 .. L - 1], NEW j \in 0 .. List!numActiveLines - 1
  PROVE  /\ (j \div L) * c.page_size + lines[j % L] * c.line_size \in Nat
         /\ (j \div L) * c.page_size + lines[j % L] * c.line_size < c.active_size
<1>1. PICK P \in Nat : P = List!num_active_pages /\ P * c.page_size <= c.active_size
  BY Pages
<1>2. PICK g \in Nat \ {0}, l \in Nat \ {0}, a \in Nat :
        g = c.page_size /\ l = c.line_size /\ a = c.active_size
  BY RegionArgs
<1>3. PICK q \in 0 .. P - 1, r \in 0 .. L - 1 : q = j \div L /\ r = j % L
  BY <1>1, PageLine DEF List!numActiveLines
<1>4. PICK y \in 0 .. L - 1 : y = lines[r]
  OBVIOUS
<1>5. L * l <= g
  BY <1>2, Pages
<1>6. y * l \in Nat /\ L * l \in Nat /\ y * l + l <= L * l
  <2>1. y \in Nat /\ L \in Nat /\ l \in Nat /\ y < L
    OBVIOUS
  <2>2. QED
    BY <2>1, OneMore
<1>7. q * g \in Nat /\ P * g \in Nat /\ q * g + g <= P * g
  <2>1. q \in Nat /\ g \in Nat /\ q < P
    OBVIOUS
  <2>2. QED
    BY <2>1, OneMore
<1>8. q * g + y * l \in Nat /\ q * g + y * l < a
  <2>1. PICK u \in Nat, v \in Nat, w \in Nat, t \in Nat :
          u = q * g /\ v = y * l /\ w = P * g /\ t = L * l
    BY <1>6, <1>7
  <2>2. v + l <= t /\ t <= g /\ u + g <= w
    BY <1>5, <1>6, <1>7, <2>1
  <2>3. w <= a
    BY <1>1, <1>2, <2>1
  <2>4. u + v \in Nat /\ u + v < a
    BY <2>2, <2>3
  <2>5. QED
    BY <2>1, <2>4
<1>9. QED
  BY <1>2, <1>3, <1>4, <1>8

LEMMA AllInside ==
  ASSUME ArgsInv, NEW x \in 0 .. List!numActiveLines - 1
  PROVE  x * c.line_size \in Nat /\ x * c.line_size < c.active_size
<1>1. PICK P \in Nat, L \in Nat, g \in Nat, l \in Nat \ {0}, a \in Nat :
        /\ P = List!num_active_pages /\ L = List!num_lines_in_page
        /\ g = c.page_size /\ l = c.line_size /\ a = c.active_size
        /\ P * g <= a /\ L * l <= g
  BY RegionArgs, Pages
<1>2. x \in Nat /\ x + 1 <= P * L /\ P * L \in Nat
  BY <1>1 DEF List!numActiveLines
<1>3. (x + 1) * l <= (P * L) * l /\ (x + 1) * l = x * l + l /\ x * l \in Nat
  BY <1>2
<1>4. (P * L) * l <= P * g
  <2>1. L * l \in Nat
    OBVIOUS
  <2>2. P * (L * l) <= P * g
    BY <1>1, <2>1
  <2>3. QED
    BY <2>2
<1>5. QED
  BY <1>1, <1>3, <1>4

(* Multiples of the page and of the line are whole pointers if these are.  *)
LEMMA WholeOffset ==
  ASSUME ArgsInv, List!WholePointers, NEW x \in Nat, NEW y \in Nat
  PROVE  (x * c.page_size + y * c.line_size) % Pointer = 0 /\ (y * c.line_size) % Pointer = 0
<1>1. PICK w \in Nat \ {0}, g \in Nat, l \in Nat :
        w = Pointer /\ g = c.page_size /\ l = c.line_size /\ g % w = 0 /\ l % w = 0
  BY LatBwAssumption, RegionArgs DEF List!WholePointers
<1>2. PICK q \in Nat, r \in Nat : g = q * w /\ l = r * w
  <2>1. \A a \in Nat : a % w = 0 => a \div w \in Nat /\ a = (a \div w) * w
    BY <1>1
  <2>2. QED
    BY <1>1, <2>1
<1>3. /\ x * g + y * l = (x * q + y * r) * w /\ y * l = (y * r) * w
      /\ x * q + y * r \in Int /\ y * r \in Int /\ x * g + y * l \in Int /\ y * l \in Int
  BY <1>1, <1>2
<1>4. (x * g + y * l) % w = 0
  <2>1. PICK a \in Int, m \in Int : a = x * g + y * l /\ m = x * q + y * r /\ a = m * w
    BY <1>3
  <2>2. QED
    BY <1>1, <2>1, Multiple
<1>5. (y * l) % w = 0
  <2>1. PICK a \in Int, m \in Int : a = y * l /\ m = y * r /\ a = m * w
    BY <1>3
  <2>2. QED
    BY <1>1, <2>1, Multiple
<1>6. QED
  BY <1>1, <1>4, <1>5

(* Whatever the sizes, a list that fits begins every store inside the      *)
(* regions, and ends it there if the sizes are whole pointers.             *)
LEMMA InitInside ==
  ASSUME ArgsInv, 0 < c.active_size, c.active_size <= c.size, InitList
  PROVE  /\ status' \in {"linked", "sigfpe", "overrun"}
         /\ List!WholePointers => status' # "overrun"
<1>1. CASE List!stride_init
  <2> DEFINE n == List!Max1((c.active_size + c.line_size - 1) \div c.line_size)
             order == [j \in 0 .. n - 1 |-> j * c.line_size]
  <2>1. n \in Nat
    <3>1. (c.active_size + c.line_size - 1) \div c.line_size \in Int
      BY RegionArgs
    <3>2. QED
      BY <3>1 DEF List!Max1
  <2>2. \A j \in 0 .. n - 1 : Stored(order[j])
    <3> TAKE j \in 0 .. n - 1
    <3>1. order[j] \in Nat /\ order[j] < c.active_size
      BY StrideInside
    <3>2. List!WholePointers => (j * c.line_size) % Pointer = 0
      <4>1. j \in Nat
        BY <2>1
      <4>2. QED
        BY <4>1, WholeOffset
    <3>3. QED
      BY <3>1, <3>2 DEF Stored
  <2>3. List!WriteList(order, n)
    BY <1>1 DEF List!stride_init
  <2> HIDE DEF order, n
  <2>4. QED
    BY <2>1, <2>2, <2>3, WriteInside
<1>2. CASE List!page_random_init
  <2>1. CASE List!num_lines_in_page = 0
    BY <1>2, <2>1 DEF List!page_random_init
  <2>2. CASE List!num_lines_in_page # 0
    <3>1. PICK L \in Nat \ {0} : L = List!num_lines_in_page
      BY <2>2, Pages
    <3>2. PICK lines \in List!Shuffles(L) :
            List!WriteList([j \in 0 .. List!numActiveLines - 1 |->
                              (j \div L) * c.page_size + lines[j % L] * c.line_size],
                           List!numActiveLines)
      BY <1>2, <2>2, <3>1 DEF List!page_random_init
    <3>3. lines \in [0 .. L - 1 -> 0 .. L - 1]
      BY DEF List!Shuffles
    <3> DEFINE order == [j \in 0 .. List!numActiveLines - 1 |->
                           (j \div L) * c.page_size + lines[j % L] * c.line_size]
    <3>4. \A j \in 0 .. List!numActiveLines - 1 : Stored(order[j])
      <4> TAKE j \in 0 .. List!numActiveLines - 1
      <4>1. order[j] \in Nat /\ order[j] < c.active_size
        BY <3>1, <3>3, PageInside
      <4>2. PICK q \in Nat, y \in Nat : q = j \div L /\ y = lines[j % L]
        <5>1. PICK P \in Nat : j \in 0 .. P * L - 1
          BY <3>1, Pages DEF List!numActiveLines
        <5>2. j \div L \in 0 .. P - 1 /\ j % L \in 0 .. L - 1
          BY <5>1, PageLine
        <5>3. QED
          BY <3>3, <5>2
      <4>3. List!WholePointers => order[j] % Pointer = 0
        <5>1. order[j] = q * c.page_size + y * c.line_size
          BY <4>2
        <5>2. QED
          BY <5>1, WholeOffset
      <4>4. QED
        BY <4>1, <4>3 DEF Stored
    <3>5. List!WriteList(order, List!numActiveLines)
      BY <3>2
    <3> HIDE DEF order
    <3>6. QED
      BY <3>4, <3>5, WriteInside, WorkTypes
  <2>3. QED
    BY <2>1, <2>2
<1>3. CASE List!all_random_init
  <2>1. CASE List!numActiveLines = 0
    BY <1>3, <2>1 DEF List!all_random_init
  <2>2. CASE List!numActiveLines # 0
    <3>1. PICK n \in Nat \ {0} : n = List!numActiveLines
      BY <2>2, WorkTypes
    <3>2. PICK lines \in List!Shuffles(n) :
            List!WriteList([j \in 0 .. n - 1 |-> lines[j] * c.line_size], n)
      BY <1>3, <2>2, <3>1 DEF List!all_random_init
    <3>3. lines \in [0 .. n - 1 -> 0 .. n - 1]
      BY DEF List!Shuffles
    <3> DEFINE order == [j \in 0 .. n - 1 |-> lines[j] * c.line_size]
    <3>4. \A j \in 0 .. n - 1 : Stored(order[j])
      <4> TAKE j \in 0 .. n - 1
      <4>1. lines[j] \in Nat /\ lines[j] \in 0 .. n - 1
        BY <3>3
      <4>2. order[j] \in Nat /\ order[j] < c.active_size
        BY <3>1, <4>1, AllInside
      <4>3. List!WholePointers => (lines[j] * c.line_size) % Pointer = 0
        BY <4>1, WholeOffset
      <4>4. QED
        BY <4>2, <4>3 DEF Stored
    <3>5. List!WriteList(order, n)
      BY <3>2
    <3> HIDE DEF order
    <3>6. QED
      BY <3>4, <3>5, WriteInside
  <2>3. QED
    BY <2>1, <2>2
<1>4. QED
  BY <1>1, <1>2, <1>3 DEF InitList

(* Start point and half point of a fitting list have memory behind them. *)
LEMMA PointsInside ==
  ASSUME ArgsInv, 0 < c.active_size, c.active_size <= c.size
  PROVE  ~List!Asserts(0) /\ ~List!Asserts(List!half)
<1>1. PICK a \in Nat, h \in Nat : a = c.active_size /\ h = List!half /\ h = a \div 2
  BY RegionArgs DEF List!half
<1>2. h < a
  BY <1>1
<1>3. c.size \in Nat /\ 0 < c.size /\ h < c.size
  BY <1>1, <1>2, RegionArgs
<1>4. QED
  BY <1>1, <1>3, InsideAddr

(* Every step keeps a fitting list inside. *)
LEMMA InsideStep ==
  ASSUME ArgsInv, InsideInv, [Next]_vars
  PROVE  InsideInv'
<1>1. run' = run /\ c' = c
  BY ArgsFrame
<1>2. CASE UnknownAction \/ Construct \/ UnknownPattern \/ Check \/ NextPass \/ Migrate \/ Leave
             \/ Return \/ Finished \/ UNCHANGED vars
  <2>1. UNCHANGED <<status, mode>>
    BY <1>2 DEF UnknownAction, Construct, UnknownPattern, Check, NextPass, Migrate, Leave, Return,
       Finished, vars, listVars
  <2>2. QED
    BY <1>1, <2>1 DEF InsideInv, ModeInv, StaysInside, Chasing, List!StaysInside,
       List!WholePointers
<1>3. CASE InitList
  <2>1. status = "built" /\ UNCHANGED mode
    BY <1>3 DEF InitList, List!stride_init, List!page_random_init, List!all_random_init,
       List!chaseVars
  <2>2. mode = "read"
    BY <2>1 DEF InsideInv, ModeInv
  <2>3. 0 < c.active_size /\ c.active_size <= c.size =>
          /\ status' \in {"linked", "sigfpe", "overrun"}
          /\ List!WholePointers => status' # "overrun"
    BY <1>3, InitInside
  <2>4. QED
    BY <1>1, <2>1, <2>2, <2>3 DEF InsideInv, ModeInv, StaysInside, Chasing, List!StaysInside,
       List!WholePointers
<1>4. CASE Enter
  <2>1. run.prog # "client" /\ UNCHANGED mode
    BY <1>4 DEF Enter, Benchmark
  <2>2. 0 < c.active_size /\ c.active_size <= c.size => status' = "chasing"
    BY <1>4, PointsInside DEF Enter
  <2>3. QED
    BY <1>1, <2>1, <2>2 DEF InsideInv, ModeInv, StaysInside, Chasing, List!StaysInside,
       List!WholePointers
<1>5. CASE Kernel \/ EndPhase
  <2>1. /\ run.prog # "client" /\ UNCHANGED mode
        /\ run.prog = "bw_mem" \/ status' = "linked"
    BY <1>5 DEF Kernel, EndPhase, Benchmark
  <2>2. QED
    BY <1>1, <2>1 DEF InsideInv, ModeInv, StaysInside, Chasing, List!StaysInside,
       List!WholePointers
<1>6. ASSUME List!ChaseStep
      PROVE  InsideInv'
  <2>1. /\ UNCHANGED mode
        /\ mode = "read" => status' \in {"chasing", "segv"}
        /\ status' \in {"chasing", "segv", "overrun", "clobbered"}
    BY <1>6 DEF List!ChaseStep, List!Fault, List!chaseVars
  <2>2. QED
    BY <1>1, <2>1 DEF InsideInv, ModeInv, StaysInside, Chasing, List!StaysInside,
       List!WholePointers
<1>7. CASE Load
  BY <1>6, <1>7 DEF Load
<1>8. CASE ClientChase
  <2>1. run.prog = "client"
    BY <1>8 DEF ClientChase
  <2>2. CASE List!BeginChase
    <3>1. /\ status' \in {"abort", "chasing"}
          /\ mode' = "read" /\ ~List!Asserts(0) => status' = "chasing"
      BY <2>2 DEF List!BeginChase
    <3>2. QED
      BY <1>1, <2>1, <3>1, PointsInside DEF InsideInv, ModeInv, StaysInside, Chasing,
         List!StaysInside, List!WholePointers
  <2>3. CASE List!EndChase
    <3>1. status' = "chased"
      BY <2>3 DEF List!EndChase
    <3>2. QED
      BY <1>1, <2>1, <3>1 DEF InsideInv, ModeInv, StaysInside, Chasing, List!StaysInside,
       List!WholePointers
  <2>4. QED
    BY <1>6, <1>8, <2>2, <2>3 DEF ClientChase
<1>9. QED
  BY <1>2, <1>3, <1>4, <1>5, <1>7, <1>8 DEF Next

LEMMA InsideInit ==
  ASSUME Init
  PROVE  InsideInv
  BY DEF Init, List!Init, InsideInv, ModeInv, StaysInside, List!StaysInside

-----------------------------------------------------------------------------
(* The circle each pattern writes *)

LEMMA StrideCircle ==
  ASSUME ArgsInv, Fits, c' = c, pattern' = pattern, List!stride_init
  PROVE  status' = "linked" /\ \E f \in [Position -> Position] : Circle(f)'
<1>1. PICK n \in Nat \ {0}, l \in Nat \ {0} :
        /\ n = Lines /\ l = c.line_size /\ Position = 0 .. n - 1 /\ c.active_size = n * l
  BY FitSizes DEF Position
<1>2. List!Max1((c.active_size + c.line_size - 1) \div c.line_size) = n
  <2>1. PICK x \in Nat : x = n * l + (l - 1)
    BY <1>1
  <2>2. l - 1 \in 0 .. l - 1 /\ n \in Nat
    OBVIOUS
  <2>3. x \div l = n
    BY <2>1, <2>2, DivMod
  <2>4. c.active_size + c.line_size - 1 = x
    <3>1. n * l \in Nat
      OBVIOUS
    <3>2. QED
      BY <1>1, <2>1, <3>1
  <2>5. QED
    BY <1>1, <2>3, <2>4 DEF List!Max1
<1>3. PICK f : f = [j \in Position |-> j]
  OBVIOUS
<1> DEFINE order == [j \in 0 .. n - 1 |-> j * c.line_size]
<1>4. List!WriteList(order, n)
  BY <1>2 DEF List!stride_init
<1>5. /\ f \in [Position -> Position] /\ f[0] = 0
      /\ \A i, j \in Position : f[i] = f[j] => i = j
      /\ \A j \in Position : order[j] = f[j] * c.line_size
  BY <1>1, <1>3
<1>6. f[Lines \div 2] = Lines \div 2
  <2>1. n \div 2 \in 0 .. n - 1
    OBVIOUS
  <2>2. QED
    BY <1>1, <1>3, <2>1
<1> HIDE DEF order
<1>7. status' = "linked" /\ Circle(f)'
  BY <1>1, <1>4, <1>5, <1>6, WriteCircle
<1>8. QED
  BY <1>5, <1>7

LEMMA AllRandomCircle ==
  ASSUME ArgsInv, Fits, c' = c, pattern' = pattern, List!all_random_init
  PROVE  status' = "linked" /\ \E f \in [Position -> Position] : Circle(f)'
<1>1. PICK n \in Nat \ {0} : n = Lines /\ Position = 0 .. n - 1 /\ n = List!numActiveLines
  BY FitSizes DEF Position, Lines
<1>2. PICK f \in List!Shuffles(n) :
        List!WriteList([j \in 0 .. n - 1 |-> f[j] * c.line_size], n)
  BY <1>1 DEF List!all_random_init
<1> DEFINE order == [j \in 0 .. n - 1 |-> f[j] * c.line_size]
<1>3. /\ f \in [Position -> Position] /\ f[0] = 0
      /\ \A i, j \in Position : f[i] = f[j] => i = j
  BY <1>1, <1>2 DEF List!Shuffles
<1>4. \A j \in Position : order[j] = f[j] * c.line_size
  BY <1>1
<1>5. List!WriteList(order, Lines)
  BY <1>1, <1>2
<1>6. ~HalfWay
  BY DEF List!all_random_init, HalfWay
<1> HIDE DEF order
<1>7. status' = "linked" /\ Circle(f)'
  BY <1>3, <1>4, <1>5, <1>6, WriteCircle
<1>8. QED
  BY <1>3, <1>7

LEMMA PlaceOf ==
  ASSUME NEW L \in Nat \ {0}, NEW q \in Nat, NEW y \in 0 .. L - 1
  PROVE  (q * L + y) \div L = q /\ (q * L + y) % L = y
<1>1. PICK x \in Nat : x = q * L + y
  OBVIOUS
<1>2. x \div L = q /\ x % L = y
  BY <1>1, DivMod
<1>3. QED
  BY <1>1, <1>2

(* Line y of page q. *)
LEMMA PagePlace ==
  ASSUME NEW P \in Nat \ {0}, NEW L \in Nat \ {0}, NEW q \in 0 .. P - 1, NEW y \in 0 .. L - 1
  PROVE  q * L + y \in 0 .. P * L - 1 /\ (q * L + y) \div L = q /\ (q * L + y) % L = y
<1>1. q * L \in Nat /\ P * L \in Nat /\ q * L + L <= P * L
  <2>1. q \in Nat /\ q < P /\ P \in Nat /\ L \in Nat
    OBVIOUS
  <2>2. QED
    BY <2>1, OneMore
<1>2. q * L + y \in 0 .. P * L - 1
  <2>1. PICK u \in Nat, n \in Nat : u = q * L /\ n = P * L /\ u + L <= n
    BY <1>1
  <2>2. u + y \in 0 .. n - 1
    BY <2>1
  <2>3. QED
    BY <2>1, <2>2
<1>3. q \in Nat
  OBVIOUS
<1>4. (q * L + y) \div L = q /\ (q * L + y) % L = y
  BY <1>3, PlaceOf
<1>5. QED
  BY <1>2, <1>4

(* An even number of pages has its half at the beginning of a page. *)
LEMMA HalfPages ==
  ASSUME NEW P \in Nat \ {0}, NEW L \in Nat \ {0}, P % 2 = 0
  PROVE  LET m == (P * L) \div 2
         IN m \in 0 .. P * L - 1 /\ m = (m \div L) * L /\ m % L = 0
<1>1. PICK h \in Nat : P = 2 * h /\ h \in 0 .. P - 1
  <2>1. P \div 2 \in Nat /\ P = 2 * (P \div 2)
    OBVIOUS
  <2>2. QED
    BY <2>1
<1>2. PICK m \in Nat : m = h * L
  OBVIOUS
<1>3. P * L = 2 * m
  <2>1. (2 * h) * L = 2 * (h * L)
    OBVIOUS
  <2>2. QED
    BY <1>1, <1>2, <2>1
<1>4. (P * L) \div 2 = m
  BY <1>3
<1>5. m \in 0 .. P * L - 1 /\ m \div L = h /\ m % L = 0
  <2>1. 0 \in 0 .. L - 1 /\ m = h * L + 0
    BY <1>2
  <2>2. QED
    BY <1>1, <2>1, PagePlace
<1>6. QED
  BY <1>2, <1>4, <1>5

(* The order of page_random_init: page by page. *)
PageByPage(P, L, lines) == [j \in 0 .. P * L - 1 |-> (j \div L) * L + lines[j % L]]

LEMMA PageOrder ==
  ASSUME NEW P \in Nat \ {0}, NEW L \in Nat \ {0},
         NEW lines \in [0 .. L - 1 -> 0 .. L - 1], lines[0] = 0,
         \A a, b \in 0 .. L - 1 : a # b => lines[a] # lines[b]
  PROVE  LET f == PageByPage(P, L, lines)
             n == P * L
         IN /\ f \in [0 .. n - 1 -> 0 .. n - 1] /\ f[0] = 0
            /\ \A i, j \in 0 .. n - 1 : f[i] = f[j] => i = j
            /\ P % 2 = 0 => f[n \div 2] = n \div 2
<1>1. PICK n \in Nat : n = P * L
  OBVIOUS
<1>2. PICK f : f = PageByPage(P, L, lines)
  OBVIOUS
<1>3. \A j \in 0 .. n - 1 : f[j] = (j \div L) * L + lines[j % L]
  BY <1>1, <1>2 DEF PageByPage
<1>4. ASSUME NEW j \in 0 .. n - 1
      PROVE  /\ j % L \in 0 .. L - 1 /\ j = (j \div L) * L + (j % L)
             /\ f[j] \in 0 .. n - 1
             /\ f[j] \div L = j \div L /\ f[j] % L = lines[j % L]
  <2>1. P \in Nat /\ j \in 0 .. P * L - 1
    BY <1>1
  <2>2. j \div L \in 0 .. P - 1 /\ j % L \in 0 .. L - 1 /\ j = (j \div L) * L + (j % L)
    BY <2>1, PageLine, Zenon
  <2>3. PICK q \in 0 .. P - 1, y \in 0 .. L - 1 : q = j \div L /\ y = lines[j % L]
    BY <2>2, Zenon
  <2>4. f[j] = q * L + y
    BY <1>3, <2>3, Zenon
  <2>5. q * L + y \in 0 .. P * L - 1 /\ (q * L + y) \div L = q /\ (q * L + y) % L = y
    <3>1. q * L + y \in 0 .. P * L - 1
      BY PagePlace, Zenon
    <3>2. q \in Nat
      OBVIOUS
    <3>3. (q * L + y) \div L = q
      BY <3>2, PlaceOf, Zenon
    <3>4. (q * L + y) % L = y
      BY <3>2, PlaceOf, Zenon
    <3>5. QED
      BY <3>1, <3>3, <3>4
  <2>6. f[j] \in 0 .. n - 1 /\ f[j] \div L = q /\ f[j] % L = y
    BY <1>1, <2>4, <2>5, Zenon
  <2>7. QED
    BY <2>2, <2>3, <2>6, Zenon
<1>5. 0 \in 0 .. n - 1
  <2>1. P * L > 0
    OBVIOUS
  <2>2. QED
    BY <1>1, <2>1
<1>6. f[0] = 0
  <2>1. 0 \div L = 0 /\ 0 % L = 0
    OBVIOUS
  <2>2. f[0] = 0 * L + 0
    BY <1>5, <1>3, <2>1
  <2>3. QED
    BY <2>2
<1>7. ASSUME NEW i \in 0 .. n - 1, NEW j \in 0 .. n - 1, f[i] = f[j]
      PROVE  i = j
  <2>1. i \div L = j \div L /\ lines[i % L] = lines[j % L]
    BY <1>4, <1>7, Zenon
  <2>2. i % L = j % L
    BY <1>4, <2>1, Zenon
  <2>3. i = (i \div L) * L + (i % L) /\ j = (j \div L) * L + (j % L)
    BY <1>4, Zenon
  <2>4. QED
    BY <2>1, <2>2, <2>3, Zenon
<1>8. ASSUME P % 2 = 0
      PROVE  f[n \div 2] = n \div 2
  <2>1. PICK m : m = n \div 2
    OBVIOUS
  <2>2. m \in 0 .. n - 1 /\ m = (m \div L) * L /\ m % L = 0
    BY <1>8, <1>1, <2>1, HalfPages, Zenon
  <2>3. f[m] = (m \div L) * L + 0
    BY <1>3, <2>2
  <2>4. m \in Nat
    BY <2>2
  <2>5. QED
    BY <2>1, <2>2, <2>3, <2>4
<1>9. f \in [0 .. n - 1 -> 0 .. n - 1]
  BY <1>4, <1>1, <1>2 DEF PageByPage
<1>10. QED
  BY <1>6, <1>7, <1>8, <1>9, <1>1, <1>2, Zenon

LEMMA PageRandomCircle ==
  ASSUME ArgsInv, Fits, c' = c, pattern' = pattern, List!page_random_init
  PROVE  status' = "linked" /\ \E f \in [Position -> Position] : Circle(f)'
<1>1. PICK n \in Nat \ {0}, P \in Nat \ {0}, L \in Nat \ {0}, l \in Nat \ {0} :
        /\ n = Lines /\ Position = 0 .. n - 1 /\ n = List!numActiveLines /\ n = P * L
        /\ P = List!num_active_pages /\ L = List!num_lines_in_page
        /\ c.page_size = L * l /\ l = c.line_size
  BY FitSizes DEF Position, Lines
<1>2. PICK lines \in List!Shuffles(L) :
        List!WriteList([j \in 0 .. n - 1 |->
                          (j \div L) * c.page_size + lines[j % L] * c.line_size], n)
  BY <1>1 DEF List!page_random_init
<1>3. /\ lines \in [0 .. L - 1 -> 0 .. L - 1] /\ lines[0] = 0
      /\ \A a, b \in 0 .. L - 1 : a # b => lines[a] # lines[b]
  BY DEF List!Shuffles
<1> DEFINE order == [j \in 0 .. n - 1 |->
                       (j \div L) * c.page_size + lines[j % L] * c.line_size]
<1>4. PICK f : f = PageByPage(P, L, lines)
  OBVIOUS
<1>5. /\ f \in [0 .. n - 1 -> 0 .. n - 1] /\ f[0] = 0
      /\ \A i, j \in 0 .. n - 1 : f[i] = f[j] => i = j
      /\ P % 2 = 0 => f[n \div 2] = n \div 2
  <2> DEFINE g == PageByPage(P, L, lines)
  <2>1. /\ g \in [0 .. P * L - 1 -> 0 .. P * L - 1] /\ g[0] = 0
        /\ \A i, j \in 0 .. P * L - 1 : g[i] = g[j] => i = j
        /\ P % 2 = 0 => g[(P * L) \div 2] = (P * L) \div 2
    BY <1>3, PageOrder, Zenon
  <2>2. f = g /\ n = P * L
    BY <1>1, <1>4
  <2> HIDE DEF g
  <2>3. QED
    BY <2>1, <2>2, Zenon
<1>6. ASSUME NEW j \in Position
      PROVE  order[j] = f[j] * c.line_size
  <2>1. PICK q \in Nat, y \in Nat : q = j \div L /\ y = lines[j % L]
    <3>1. j \in 0 .. P * L - 1 /\ P \in Nat
      BY <1>1
    <3>2. j \div L \in 0 .. P - 1 /\ j % L \in 0 .. L - 1
      BY <3>1, PageLine
    <3>3. QED
      BY <1>3, <3>2
  <2>2. q * (L * l) + y * l = (q * L + y) * l
    BY <1>1
  <2>3. order[j] = q * (L * l) + y * l /\ f[j] = q * L + y
    BY <1>1, <1>4, <2>1 DEF PageByPage
  <2>4. QED
    BY <1>1, <2>2, <2>3
<1>7. List!WriteList(order, Lines)
  BY <1>1, <1>2
<1>8. HalfWay => f[Lines \div 2] = Lines \div 2
  BY <1>1, <1>5 DEF HalfWay, List!page_random_init
<1> HIDE DEF order
<1>9. status' = "linked" /\ Circle(f)'
  BY <1>1, <1>5, <1>6, <1>7, <1>8, WriteCircle
<1>10. QED
  BY <1>1, <1>5, <1>9

(* Whichever pattern main has chosen, it writes a circle. *)
LEMMA InitCircle ==
  ASSUME ArgsInv, Fits, [Next]_vars, InitList
  PROVE  status' = "linked" /\ \E f \in [Position -> Position] : Circle(f)'
<1>1. c' = c
  BY ArgsFrame
<1>2. pattern' = pattern
  BY DEF InitList, List!stride_init, List!page_random_init, List!all_random_init
<1>3. QED
  BY <1>1, <1>2, StrideCircle, PageRandomCircle, AllRandomCircle DEF InitList

-----------------------------------------------------------------------------
(* Along the circle *)

LEMMA CircleFrame ==
  ASSUME UNCHANGED <<c, pattern, link>>, NEW f
  PROVE  Circle(f)' <=> Circle(f)
<1>1. /\ Lines' = Lines /\ Position' = Position /\ (HalfWay' <=> HalfWay)
      /\ \A x : At(x)' = At(x) /\ Round(x)' = Round(x)
  BY ListFrame
<1>2. {At(f[j]) : j \in Position}' = {At(f[j]) : j \in Position}
  BY <1>1
<1>3. (HalfWay => f[Lines \div 2] = Lines \div 2)'
        <=> (HalfWay => f[Lines \div 2] = Lines \div 2)
  BY <1>1
<1>4. (\A j \in Position : link[At(f[j])] = At(f[Round(j + 1)]))'
        <=> (\A j \in Position : link[At(f[j])] = At(f[Round(j + 1)]))
  BY <1>1
<1>5. QED
  BY <1>1, <1>2, <1>3, <1>4 DEF Circle

LEMMA StreamFrame ==
  ASSUME UNCHANGED <<run, c, pattern, status, mode, p, p2, k, touched>>, PassLength' = PassLength,
         NEW f
  PROVE  Stream(f)' <=> Stream(f)
<1>1. /\ Lines' = Lines /\ Position' = Position /\ (HalfWay' <=> HalfWay)
      /\ \A x : At(x)' = At(x) /\ Round(x)' = Round(x)
  BY ListFrame
<1>2. List!num_chases' = List!num_chases
  BY <1>1 DEF List!num_chases, Lines
<1>3. (OneStream(f)' <=> OneStream(f)) /\ (TwoStreams(f)' <=> TwoStreams(f))
  BY <1>1 DEF OneStream, TwoStreams
<1>4. QED
  BY <1>1, <1>2, <1>3 DEF Stream

(* A load on the circle finds the pointer to the next line. *)
LEMMA CircleLoad ==
  ASSUME ArgsInv, Fits, NEW f, Circle(f), NEW j \in Position
  PROVE  /\ List!Load(At(f[j])) = At(f[Round(j + 1)])
         /\ f[j] \in Position /\ List!InRegion(At(f[j])) /\ At(f[j]) \in DOMAIN link
         /\ \A i \in Position : At(f[i]) = At(f[j]) <=> i = j
<1>1. Position \subseteq Nat
  BY FitSizes DEF Position
<1>2. f[j] \in Position /\ At(f[j]) \in DOMAIN link
  BY DEF Circle
<1>3. List!InRegion(At(f[j]))
  BY <1>2, AtInside
<1>4. List!Load(At(f[j])) = At(f[Round(j + 1)])
  BY <1>2 DEF List!Load, Circle
<1>5. ASSUME NEW i \in Position, At(f[i]) = At(f[j])
      PROVE  i = j
  <2>1. f[i] \in Nat /\ f[j] \in Nat
    BY <1>1 DEF Circle
  <2>2. f[i] = f[j]
    BY <1>5, <2>1, AtInjective
  <2>3. QED
    BY <2>2 DEF Circle
<1>6. QED
  BY <1>2, <1>3, <1>4, <1>5

(* A chase whose pointers are on lines of the circle does nothing wrong. *)
LEMMA NoFault ==
  ASSUME ArgsInv, List!Regular, NEW f, Circle(f),
         \A a \in List!Streams : \E j \in Position : a = At(f[j])
  PROVE  List!Fault = "none"
<1>1. Fits
  BY RegularFits
<1>2. ASSUME NEW a \in List!Streams
      PROVE  List!InRegion(a)
  BY <1>1, CircleLoad
<1>3. ASSUME mode # "read", NEW a \in List!Streams
      PROVE  /\ List!InRegion(List!Payload(a))
             /\ \A b \in DOMAIN link : ~List!Overlap(List!Payload(a), b)
  <2>1. PICK j \in Position : a = At(f[j])
    OBVIOUS
  <2>2. f[j] \in Position /\ Position \subseteq Nat
    BY <1>1, CircleLoad, FitSizes DEF Position
  <2>3. List!Room(5 * Pointer)
    BY <1>3, RegularFits
  <2>4. /\ List!InRegion(List!Payload(At(f[j])))
        /\ \A y \in Nat : ~List!Overlap(List!Payload(At(f[j])), At(y))
    BY <1>1, <2>2, <2>3, PayloadFree
  <2>5. \A b \in DOMAIN link : \E y \in Nat : b = At(y)
    BY <2>2 DEF Circle
  <2>6. QED
    BY <2>1, <2>4, <2>5
<1>4. QED
  BY <1>2, <1>3 DEF List!Fault

(* A round of a single stream. *)
LEMMA OneStreamStep ==
  ASSUME ArgsInv, Fits, UNCHANGED <<c, pattern, link, mode>>, NEW f, Circle(f), OneStream(f),
         mode # "dual", k \in Nat, k < Lines,
         p' = List!Load(p), k' = k + 1,
         touched' = [a \in DOMAIN link |-> touched[a] + List!Hits(a)]
  PROVE  OneStream(f)'
<1>1. PICK n \in Nat \ {0} : n = Lines /\ Position = 0 .. n - 1
  BY FitSizes DEF Position
<1>2. k \in Position /\ Round(k) = k
  BY <1>1 DEF Round
<1>3. p = At(f[k])
  BY <1>2 DEF OneStream
<1>4. p' = At(f[Round(k + 1)])
  BY <1>2, <1>3, CircleLoad
<1>5. ASSUME NEW j \in Position
      PROVE  touched'[At(f[j])] = IF j < k + 1 THEN 1 ELSE 0
  <2>1. List!Hits(At(f[j])) = IF j = k THEN 1 ELSE 0
    <3>1. At(f[j]) = p <=> j = k
      BY <1>2, <1>3, CircleLoad
    <3>2. QED
      BY <3>1 DEF List!Hits
  <2>2. touched'[At(f[j])] = touched[At(f[j])] + List!Hits(At(f[j]))
    BY CircleLoad
  <2>3. touched[At(f[j])] = IF j < k THEN 1 ELSE 0
    BY DEF OneStream
  <2>4. j \in Nat
    BY <1>1
  <2>5. QED
    BY <2>1, <2>2, <2>3, <2>4
<1>6. k + 1 <= Lines
  BY <1>1
<1>7. /\ Lines' = Lines /\ Position' = Position
      /\ \A x : At(x)' = At(x) /\ Round(x)' = Round(x)
  BY ListFrame
<1>8. QED
  BY <1>4, <1>5, <1>6, <1>7 DEF OneStream

(* A round of two streams. *)
LEMMA TwoStreamsStep ==
  ASSUME ArgsInv, Fits, UNCHANGED <<c, pattern, link, mode>>, NEW f, Circle(f), TwoStreams(f),
         mode = "dual", Lines % 2 = 0, k \in Nat, k < Lines \div 2,
         p' = List!Load(p), p2' = List!Load(p2), k' = k + 1,
         touched' = [a \in DOMAIN link |-> touched[a] + List!Hits(a)]
  PROVE  TwoStreams(f)'
<1>1. PICK n \in Nat \ {0}, m \in Nat :
        n = Lines /\ Position = 0 .. n - 1 /\ m = Lines \div 2 /\ n = 2 * m
  <2>1. PICK n \in Nat \ {0} : n = Lines
    BY FitSizes
  <2>2. n \div 2 \in Nat /\ n = 2 * (n \div 2)
    BY <2>1
  <2>3. QED
    BY <2>1, <2>2 DEF Position
<1>2. PICK h \in Position :
        /\ f[h] = m /\ p = At(f[Round(k)]) /\ p2 = At(f[Round(h + k)])
        /\ HalfWay => \A j \in Position :
                        touched[At(f[j])] = IF j < k \/ (h <= j /\ j < h + k) THEN 1 ELSE 0
  BY <1>1 DEF TwoStreams
<1>3. k \in Position /\ Round(k) = k /\ k + 1 <= m
  BY <1>1 DEF Round
<1>4. PICK i \in Position : i = Round(h + k) /\ Round(i + 1) = Round(h + (k + 1))
  <2>1. h \in Nat /\ h < n /\ k < n
    BY <1>1
  <2>2. CASE h + k < n
    BY <1>1, <2>1, <2>2 DEF Round
  <2>3. CASE ~(h + k < n)
    BY <1>1, <1>3, <2>1, <2>3 DEF Round
  <2>4. QED
    BY <2>2, <2>3
<1>5. p = At(f[k]) /\ p2 = At(f[i])
  BY <1>2, <1>3, <1>4
<1>6. p' = At(f[Round(k + 1)]) /\ p2' = At(f[Round(h + (k + 1))])
  <2>1. List!Load(At(f[k])) = At(f[Round(k + 1)])
    BY <1>3, CircleLoad
  <2>2. List!Load(At(f[i])) = At(f[Round(i + 1)])
    BY CircleLoad
  <2>3. QED
    BY <1>4, <1>5, <2>1, <2>2
<1>7. ASSUME HalfWay, NEW j \in Position
      PROVE  touched'[At(f[j])] = IF j < k + 1 \/ (h <= j /\ j < h + (k + 1)) THEN 1 ELSE 0
  <2>1. h = m
    <3>1. m \in Position /\ f[m] = m
      BY <1>1, <1>7 DEF Circle
    <3>2. QED
      BY <1>2, <3>1 DEF Circle
  <2>2. i = h + k
    BY <1>1, <1>4, <2>1 DEF Round
  <2>3. j \in Nat /\ h \in Nat /\ k < h
    BY <1>1, <1>3, <2>1
  <2>4. List!Hits(At(f[j])) = IF j = k \/ j = i THEN 1 ELSE 0
    <3>1. (At(f[j]) = p <=> j = k) /\ (At(f[j]) = p2 <=> j = i)
      BY <1>3, <1>5, CircleLoad
    <3>2. k # i
      BY <2>2, <2>3
    <3>3. QED
      BY <3>1, <3>2 DEF List!Hits
  <2>5. touched'[At(f[j])] = touched[At(f[j])] + List!Hits(At(f[j]))
    BY CircleLoad
  <2>6. touched[At(f[j])] = IF j < k \/ (h <= j /\ j < h + k) THEN 1 ELSE 0
    BY <1>2, <1>7
  <2>7. QED
    BY <2>2, <2>4, <2>5, <2>6, <2>3
<1>8. /\ Lines' = Lines /\ Position' = Position /\ (HalfWay' <=> HalfWay)
      /\ \A x : At(x)' = At(x) /\ Round(x)' = Round(x)
  BY ListFrame
<1>9. QED
  <2>1. k' <= Lines' \div 2 /\ f[h] = Lines' \div 2 /\ h \in Position'
    BY <1>1, <1>2, <1>3, <1>8
  <2>2. p' = At(f[Round(k)])' /\ p2' = At(f[Round(h + k)])'
    BY <1>6, <1>8
  <2>3. (HalfWay => \A j \in Position :
                      touched[At(f[j])] = IF j < k \/ (h <= j /\ j < h + k) THEN 1 ELSE 0)'
    BY <1>7, <1>8
  <2>4. QED
    BY <2>1, <2>2, <2>3 DEF TwoStreams

-----------------------------------------------------------------------------
(* The chases of the programs *)

(* Start point and half point are lines. *)
LEMMA Points ==
  ASSUME ArgsInv, Fits
  PROVE  /\ 0 \in Position /\ Lines \div 2 \in Position /\ Round(0) = 0
         /\ List!getStartPoint = At(0)
         /\ Lines % 2 = 0 => List!getHalfPoint = At(Lines \div 2)
<1>1. PICK n \in Nat \ {0}, l \in Nat \ {0} :
        n = Lines /\ l = c.line_size /\ Position = 0 .. n - 1 /\ c.active_size = n * l
  BY FitSizes DEF Position
<1>2. 0 \in Position /\ n \div 2 \in Position /\ Round(0) = 0
  BY <1>1 DEF Round
<1>3. 0 * l = 0
  OBVIOUS
<1>4. n % 2 = 0 => List!half = (n \div 2) * l
  <2> SUFFICES ASSUME n % 2 = 0 PROVE List!half = (n \div 2) * l
    OBVIOUS
  <2>1. PICK m \in Nat : m = n \div 2 /\ n = 2 * m
    <3>1. n \div 2 \in Nat /\ n = 2 * (n \div 2)
      OBVIOUS
    <3>2. QED
      BY <3>1
  <2>2. PICK x \in Nat : x = m * l /\ n * l = 2 * x
    BY <2>1
  <2>3. (2 * x) \div 2 = x
    OBVIOUS
  <2>4. QED
    BY <1>1, <2>1, <2>2, <2>3 DEF List!half
<1>5. QED
  BY <1>1, <1>2, <1>3, <1>4 DEF List!getStartPoint, List!getHalfPoint, At

(* Steps that leave the list and the chase alone. *)
LEMMA ListQuiet ==
  ASSUME ListInv, [Next]_vars, Chasing,
         UnknownAction \/ Construct \/ UnknownPattern \/ Check \/ Migrate \/ Leave \/ Return
           \/ Finished \/ UNCHANGED vars
  PROVE  ListInv'
<1>1. run' = run /\ c' = c /\ PassLength' = PassLength
  BY WorkFrame
<1>2. UNCHANGED <<status, pattern, link, mode, p, p2, k, touched>>
  BY DEF UnknownAction, Construct, UnknownPattern, Check, Migrate, Leave, Return, Finished, vars,
     listVars
<1>3. /\ stage' = "check" => stage = "check"
      /\ stage' = "run" => stage \in {"run", "check"}
  <2>1. CASE UnknownAction \/ Construct \/ UnknownPattern \/ Check \/ Leave \/ Return
    BY <2>1 DEF UnknownAction, Construct, UnknownPattern, Check, Leave, Return, Chasing
  <2>2. CASE Migrate
    BY <2>2 DEF Migrate
  <2>3. CASE Finished \/ UNCHANGED vars
    BY <2>3 DEF Finished, vars, mainVars
  <2>4. QED
    BY <2>1, <2>2, <2>3
<1>4. (Fits' <=> Fits) /\ (Written' <=> Written) /\ Position' = Position
  BY <1>1, <1>2, ListFrame DEF Written
<1>5. \A f : (Circle(f)' <=> Circle(f)) /\ (Stream(f)' <=> Stream(f))
  BY <1>1, <1>2, CircleFrame, StreamFrame
<1>6. List!NeverLost' <=> List!NeverLost
  BY <1>1, <1>2 DEF List!NeverLost, List!Regular, List!Room, List!Used, List!size_region1,
     List!numActiveLines, List!num_active_pages, List!num_lines_in_page
<1>7. (stage' = "check" => status' = "linked") /\ (stage' = "run" => status' \in {"linked", "chasing"})
  BY <1>2, <1>3 DEF ListInv
<1>8. (Fits /\ Written => \E f \in [Position -> Position] : Circle(f) /\ Stream(f))'
  BY <1>4, <1>5 DEF ListInv
<1>9. QED
  BY <1>6, <1>7, <1>8 DEF ListInv

(* A list that is well while it fits is never lost. *)
LEMMA NotLost ==
  ASSUME ArgsInv, c' = c, Fits => status' \in {"linked", "chasing", "chased"}
  PROVE  List!NeverLost'
<1>1. List!Regular' => Fits
  BY RegularFitsNext
<1>2. QED
  BY <1>1 DEF List!NeverLost

(* The list is written. *)
LEMMA ListInit ==
  ASSUME ArgsInv, InsideInv, ListInv, [Next]_vars, InitList
  PROVE  ListInv'
<1>1. run' = run /\ c' = c
  BY ArgsFrame
<1>2. /\ stage' = IF status' # "linked" THEN "died"
                  ELSE IF run.prog = "client" THEN "run" ELSE "check"
      /\ status' \in {"linked", "abort", "overrun", "sigfpe"}
  BY DEF InitList, List!stride_init, List!page_random_init, List!all_random_init, List!WriteList
<1>3. Fits => status' = "linked"
  BY InitCircle
<1>4. List!NeverLost'
  BY <1>1, <1>3, NotLost
<1>5. ASSUME Fits'
      PROVE  (\E f \in [Position -> Position] : Circle(f) /\ Stream(f))'
  <2>1. Fits /\ Position' = Position
    BY <1>1, <1>5, ListFrame
  <2>2. PICK f \in [Position -> Position] : Circle(f)'
    BY <2>1, InitCircle
  <2>3. Stream(f)'
    BY <1>3, <2>1 DEF Stream
  <2>4. QED
    BY <2>1, <2>2, <2>3
<1>6. QED
  BY <1>2, <1>4, <1>5 DEF ListInv

(* The phases of lat_mem_rd. *)
LEMMA ListPhase ==
  ASSUME ArgsInv, InsideInv, ListInv, [Next]_vars, Chasing, Enter \/ NextPass \/ EndPhase
  PROVE  ListInv'
<1>1. run' = run /\ c' = c /\ PassLength' = PassLength
  BY WorkFrame
<1>2. /\ stage = "run" /\ run.prog # "client" /\ status \in {"linked", "chasing"}
      /\ UNCHANGED <<pattern, link>>
  BY DEF Enter, NextPass, EndPhase, Benchmark, ListInv
<1>3. Fits' => Fits /\ Position' = Position
  BY <1>1, ListFrame
<1>4. /\ stage' = "run" => status' \in {"linked", "chasing"}
      /\ Fits => status' \in {"linked", "chasing"}
      /\ stage' # "check"
  <2>1. CASE Enter
    BY <1>2, <2>1, PointsInside DEF Enter, Fits
  <2>2. CASE NextPass \/ EndPhase
    BY <1>2, <2>2 DEF NextPass, EndPhase
  <2>3. QED
    BY <2>1, <2>2
<1>5. List!NeverLost'
  BY <1>1, <1>4, NotLost
<1>6. ASSUME Fits'
      PROVE  (\E f \in [Position -> Position] : Circle(f) /\ Stream(f))'
  <2>1. Fits /\ Position' = Position
    BY <1>3, <1>6
  <2>2. PICK f \in [Position -> Position] : Circle(f) /\ Stream(f)
    BY <1>2, <2>1 DEF ListInv, Written
  <2>3. Circle(f)'
    BY <1>1, <1>2, <2>2, CircleFrame
  <2>4. status' = "chasing" /\ k' < PassLength => k' \in Nat /\ p' = At(f[k'])
    <3>1. CASE Enter
      <4>1. k' = PassLength /\ PassLength \in Nat
        BY <3>1, WorkTypes DEF Enter
      <4>2. QED
        BY <4>1
    <3>2. CASE NextPass
      <4>1. k' = 0 /\ p' = At(0)
        BY <2>1, <3>2, Points DEF NextPass
      <4>2. f[0] = 0
        BY <2>2 DEF Circle
      <4>3. QED
        BY <4>1, <4>2
    <3>3. CASE EndPhase
      BY <3>3 DEF EndPhase
    <3>4. QED
      BY <3>1, <3>2, <3>3
  <2>5. \A x : At(x)' = At(x)
    BY <1>1, ListFrame
  <2>6. Stream(f)'
    BY <1>1, <1>2, <2>4, <2>5 DEF Stream
  <2>7. QED
    BY <2>1, <2>3, <2>6
<1>7. QED
  BY <1>4, <1>5, <1>6 DEF ListInv

(* One load of lat_mem_rd. *)
LEMMA ListLoad ==
  ASSUME ArgsInv, InsideInv, ListInv, [Next]_vars, Load
  PROVE  ListInv'
<1>1. run' = run /\ c' = c /\ PassLength' = PassLength /\ PassLength \in Nat
  BY WorkFrame, WorkTypes
<1>2. /\ stage = "run" /\ run.prog = "lat_mem_rd" /\ status = "chasing" /\ k < PassLength
      /\ stage' = IF status' = "chasing" THEN stage ELSE "died"
      /\ UNCHANGED <<pattern, link>> /\ List!ChaseStep
  BY DEF Load, Benchmark, List!ChaseStep
<1>3. Chasing /\ mode = "read"
  BY <1>2 DEF Chasing, InsideInv, ModeInv
<1>4. ASSUME Fits
      PROVE  status' = "chasing" /\ \E f \in [Position -> Position] : Circle(f)' /\ Stream(f)'
  <2>1. PICK f \in [Position -> Position] : Circle(f) /\ Stream(f)
    BY <1>2, <1>3, <1>4 DEF ListInv, Written
  <2>2. k \in Nat /\ p = At(f[k])
    BY <1>2, <2>1 DEF Stream
  <2>3. PICK n \in Nat \ {0} : n = Lines /\ Position = 0 .. n - 1 /\ PassLength <= n
    <3>1. PICK n \in Nat \ {0}, u \in Nat \ {0} : n = Lines /\ u = Unroll
      BY <1>4, FitSizes, LatBwAssumption
    <3>2. PassLength = (n \div u) * u
      BY <1>2, <3>1 DEF PassLength, loop_count, Lines
    <3>3. PICK q \in Nat, r \in 0 .. u - 1 : q = n \div u /\ n = q * u + r
      <4>1. n \in Nat
        OBVIOUS
      <4>2. QED
        BY <4>1, Split
    <3>4. q * u <= n
      BY <3>3
    <3>5. QED
      BY <3>1, <3>2, <3>3, <3>4 DEF Position
  <2>4. k \in Position
    BY <1>1, <1>2, <2>2, <2>3
  <2>5. List!Fault = "none"
    <3>1. List!Regular
      BY <1>3, <1>4 DEF List!Regular, List!Used, Fits
    <3>2. \A a \in List!Streams : \E j \in Position : a = At(f[j])
      BY <1>3, <2>2, <2>4 DEF List!Streams
    <3>3. QED
      BY <2>1, <3>1, <3>2, NoFault
  <2>6. status' = "chasing" /\ k' = k + 1 /\ p' = List!Load(p)
    BY <1>2, <2>5 DEF List!ChaseStep
  <2>7. p' = At(f[Round(k + 1)])
    BY <1>4, <2>1, <2>2, <2>4, <2>6, CircleLoad
  <2>8. k' < PassLength => k' \in Nat /\ p' = At(f[k'])
    BY <1>1, <2>2, <2>3, <2>6, <2>7 DEF Round
  <2>9. \A x : At(x)' = At(x)
    BY <1>1, ListFrame
  <2>10. Stream(f)'
    BY <1>1, <1>2, <2>6, <2>8, <2>9 DEF Stream
  <2>11. Circle(f)'
    BY <1>1, <1>2, <2>1, CircleFrame
  <2>12. QED
    BY <2>6, <2>10, <2>11
<1>5. List!NeverLost'
  BY <1>1, <1>4, NotLost
<1>6. (Fits' <=> Fits) /\ Position' = Position
  BY <1>1, ListFrame
<1>7. (Fits /\ Written => \E f \in [Position -> Position] : Circle(f) /\ Stream(f))'
  BY <1>4, <1>6
<1>8. QED
  BY <1>2, <1>5, <1>7 DEF ListInv

(* A client begins, ... *)
LEMMA ClientBegins ==
  ASSUME ArgsInv, Fits, UNCHANGED <<run, c>>, run.prog = "client", List!BeginChase,
         NEW f, Circle(f)
  PROVE  status' = "chasing" /\ Circle(f)' /\ Stream(f)'
<1>1. /\ status' = "chasing" /\ p' = List!getStartPoint /\ k' = 0 /\ UNCHANGED <<pattern, link>>
      /\ mode' = "dual" => p2' = List!getHalfPoint
      /\ touched' = [a \in DOMAIN link |-> 0]
  BY PointsInside DEF List!BeginChase, Fits
<1>2. Circle(f)'
  BY <1>1, CircleFrame
<1>3. /\ Lines' = Lines /\ Position' = Position
      /\ \A x : At(x)' = At(x) /\ Round(x)' = Round(x)
  BY ListFrame
<1>4. Lines \in Nat \ {0} /\ Position \subseteq Nat
  BY FitSizes DEF Position
<1>5. f[0] = 0 /\ p' = At(f[Round(0)])
  BY <1>1, Points DEF Circle
<1>6. \A j \in Position : touched'[At(f[j])] = 0
  BY <1>1 DEF Circle
<1>7. OneStream(f)'
  <2>1. \A j \in Position : ~(j < 0)
    BY <1>4
  <2>2. QED
    BY <1>1, <1>3, <1>4, <1>5, <1>6, <2>1 DEF OneStream
<1>8. ASSUME mode' = "dual", Lines % 2 = 0
      PROVE  TwoStreams(f)'
  <2>1. PICK h \in Position : f[h] = Lines \div 2
    BY Points, EveryLine DEF Circle
  <2>2. h + 0 = h /\ Round(h) = h
    BY <1>4 DEF Round, Position
  <2>3. p2' = At(f[Round(h + 0)])
    BY <1>1, <1>8, <2>1, <2>2, Points
  <2>4. \A j \in Position : ~(j < 0) /\ ~(h <= j /\ j < h + 0)
    BY <1>4
  <2>5. 0 <= Lines \div 2
    BY <1>4
  <2>6. k' <= Lines' \div 2 /\ f[h] = Lines' \div 2 /\ h \in Position'
    BY <1>1, <1>3, <2>1, <2>5
  <2>7. p' = At(f[Round(k)])' /\ p2' = At(f[Round(h + k)])'
    BY <1>1, <1>3, <1>5, <2>3
  <2>8. (\A j \in Position :
           touched[At(f[j])] = IF j < k \/ (h <= j /\ j < h + k) THEN 1 ELSE 0)'
    BY <1>1, <1>3, <1>6, <2>4
  <2>9. QED
    BY <2>6, <2>7, <2>8 DEF TwoStreams
<1>9. QED
  BY <1>1, <1>2, <1>3, <1>7, <1>8 DEF Stream

(* ... goes from line to line, ... *)
LEMMA ClientGoesOn ==
  ASSUME ArgsInv, Fits, UNCHANGED <<run, c>>, run.prog = "client", List!ChaseStep,
         NEW f \in [Position -> Position], Circle(f), Stream(f)
  PROVE  /\ status' = "chasing" => Circle(f)' /\ Stream(f)'
         /\ List!Regular => status' = "chasing"
         /\ UNCHANGED mode
<1>1. status = "chasing" /\ k < List!num_chases /\ UNCHANGED <<pattern, link, mode>>
  BY DEF List!ChaseStep, List!chaseVars
<1>2. /\ k \in Nat
      /\ mode # "dual" => OneStream(f)
      /\ mode = "dual" /\ Lines % 2 = 0 => TwoStreams(f)
  BY <1>1 DEF Stream
<1>3. /\ mode # "dual" => k < Lines
      /\ mode = "dual" => k < Lines \div 2
  BY <1>1 DEF List!num_chases, Lines
<1>4. Circle(f)'
  BY <1>1, CircleFrame
<1>5. List!Fault \in {"none", "segv", "overrun", "clobbered"}
  BY DEF List!Fault
<1>6. CASE List!Fault # "none"
  <2>1. status' = List!Fault /\ status' # "chasing"
    BY <1>5, <1>6 DEF List!ChaseStep
  <2>2. PICK n \in Nat \ {0} : n = Lines /\ Position = 0 .. n - 1
    BY FitSizes DEF Position
  <2>3. ASSUME List!Regular
        PROVE  FALSE
    <3>1. CASE mode # "dual"
      <4>1. k \in Position /\ p = At(f[k])
        BY <1>2, <1>3, <2>2, <3>1 DEF OneStream, Round
      <4>2. \A a \in List!Streams : \E j \in Position : a = At(f[j])
        BY <3>1, <4>1 DEF List!Streams
      <4>3. QED
        BY <1>6, <2>3, <4>2, NoFault
    <3>2. CASE mode = "dual"
      <4>1. Lines % 2 = 0
        BY <2>3, <3>2 DEF List!Regular, Lines
      <4>2. PICK h \in Position : p = At(f[Round(k)]) /\ p2 = At(f[Round(h + k)])
        BY <1>2, <3>2, <4>1 DEF TwoStreams
      <4>3. n \div 2 \in Nat /\ n \div 2 <= n
        OBVIOUS
      <4>4. k < n /\ h \in Nat /\ h < n
        BY <1>2, <1>3, <2>2, <3>2, <4>3
      <4>5. Round(k) \in Position /\ Round(h + k) \in Position
        BY <1>2, <2>2, <4>4 DEF Round
      <4>6. \A a \in List!Streams : \E j \in Position : a = At(f[j])
        BY <3>2, <4>2, <4>5 DEF List!Streams
      <4>7. QED
        BY <1>6, <2>3, <4>6, NoFault
    <3>3. QED
      BY <3>1, <3>2
  <2>4. QED
    BY <1>1, <2>1, <2>3
<1>7. CASE List!Fault = "none"
  <2>1. /\ status' = "chasing" /\ k' = k + 1 /\ p' = List!Load(p)
        /\ mode = "dual" => p2' = List!Load(p2)
        /\ touched' = [a \in DOMAIN link |-> touched[a] + List!Hits(a)]
    BY <1>1, <1>7 DEF List!ChaseStep
  <2>2. mode # "dual" => OneStream(f)'
    BY <1>1, <1>2, <1>3, <2>1, OneStreamStep
  <2>3. mode = "dual" /\ Lines % 2 = 0 => TwoStreams(f)'
    BY <1>1, <1>2, <1>3, <2>1, TwoStreamsStep
  <2>4. Lines' = Lines /\ k' \in Nat
    BY <1>2, <2>1, ListFrame
  <2>5. Stream(f)'
    BY <1>1, <2>1, <2>2, <2>3, <2>4 DEF Stream
  <2>6. QED
    BY <1>1, <1>4, <2>1, <2>5
<1>8. QED
  BY <1>6, <1>7

(* ... and comes to the end. *)
LEMMA ClientEnds ==
  ASSUME UNCHANGED <<run, c>>, run.prog = "client", List!EndChase, NEW f, Circle(f), Stream(f)
  PROVE  status' = "chased" /\ Circle(f)' /\ Stream(f)'
<1>1. /\ status = "chasing" /\ k >= List!num_chases /\ status' = "chased"
      /\ UNCHANGED <<pattern, link, mode, p, p2, k, touched>>
  BY DEF List!EndChase, List!chaseVars
<1>2. Circle(f)'
  BY <1>1, CircleFrame
<1>3. /\ Lines' = Lines /\ Position' = Position /\ (HalfWay' <=> HalfWay)
      /\ \A x : At(x)' = At(x) /\ Round(x)' = Round(x)
  BY <1>1, ListFrame
<1>4. List!num_chases' = List!num_chases
  BY <1>1, <1>3 DEF List!num_chases, Lines
<1>5. (OneStream(f)' <=> OneStream(f)) /\ (TwoStreams(f)' <=> TwoStreams(f))
  BY <1>1, <1>3 DEF OneStream, TwoStreams
<1>6. QED
  BY <1>1, <1>2, <1>3, <1>4, <1>5 DEF Stream

(* A client's whole chase. *)
LEMMA ListClient ==
  ASSUME ArgsInv, InsideInv, ListInv, [Next]_vars, ClientChase
  PROVE  ListInv'
<1>1. run' = run /\ c' = c
  BY ArgsFrame
<1>2. /\ run.prog = "client" /\ stage = "run"
      /\ stage' = IF status' = "chasing" THEN "run"
                  ELSE IF status' = "chased" THEN "return" ELSE "died"
  BY DEF ClientChase
<1>3. Chasing /\ status \in {"linked", "chasing"}
  BY <1>2 DEF Chasing, ListInv
<1>4. ASSUME Fits
      PROVE  /\ Written' => \E f \in [Position -> Position] : Circle(f)' /\ Stream(f)'
             /\ List!Regular' => status' \in {"chasing", "chased"}
  <2>1. PICK f \in [Position -> Position] : Circle(f) /\ Stream(f)
    BY <1>3, <1>4 DEF ListInv, Written
  <2>2. CASE List!BeginChase
    BY <1>1, <1>2, <1>4, <2>1, <2>2, ClientBegins
  <2>3. CASE List!ChaseStep
    <3>1. /\ status' = "chasing" => Circle(f)' /\ Stream(f)'
          /\ List!Regular => status' = "chasing"
          /\ UNCHANGED mode
      BY <1>1, <1>2, <1>4, <2>1, <2>3, ClientGoesOn
    <3>2. status' \in {"chasing", "segv", "overrun", "clobbered"}
      BY <2>3 DEF List!ChaseStep, List!Fault
    <3>3. List!Regular' <=> List!Regular
      BY <1>1, <3>1 DEF List!Regular, List!Room, List!Used, List!size_region1, List!numActiveLines,
         List!num_active_pages, List!num_lines_in_page
    <3>4. QED
      BY <3>1, <3>2, <3>3 DEF Written
  <2>4. CASE List!EndChase
    BY <1>1, <1>2, <2>1, <2>4, ClientEnds
  <2>5. QED
    BY <2>2, <2>3, <2>4 DEF ClientChase
<1>5. (Fits' <=> Fits) /\ Position' = Position
  BY <1>1, ListFrame
<1>6. List!NeverLost'
  <2>1. List!Regular' => Fits
    BY <1>1, RegularFitsNext
  <2>2. QED
    BY <1>4, <2>1 DEF List!NeverLost
<1>7. (Fits /\ Written => \E f \in [Position -> Position] : Circle(f) /\ Stream(f))'
  BY <1>4, <1>5
<1>8. QED
  BY <1>2, <1>6, <1>7 DEF ListInv

(* Every step keeps the invariant of the lists. *)
LEMMA ListStep ==
  ASSUME ArgsInv, InsideInv, ListInv, [Next]_vars
  PROVE  ListInv'
<1>1. run' = run
  BY ArgsFrame
<1>2. CASE ~Chasing
  BY <1>1, <1>2 DEF Chasing, ListInv
<1>3. CASE Chasing
  BY <1>3, ListQuiet, ListInit, ListPhase, ListLoad, ListClient DEF Next, Kernel, Chasing
<1>4. QED
  BY <1>2, <1>3

LEMMA ListBegins ==
  ASSUME Init
  PROVE  ListInv
  BY DEF Init, List!Init, ListInv, Written, List!NeverLost

LEMMA ChasedStep ==
  ASSUME ChasedInv, [Next]_vars
  PROVE  ChasedInv'
<1>1. run' = run
  BY ArgsFrame
<1>2. CASE UnknownAction \/ Construct \/ UnknownPattern \/ Check \/ NextPass \/ Migrate \/ Leave
             \/ Return \/ Finished \/ UNCHANGED vars
  <2>1. UNCHANGED status
    BY <1>2 DEF UnknownAction, Construct, UnknownPattern, Check, NextPass, Migrate, Leave, Return,
       Finished, vars, listVars
  <2>2. QED
    BY <1>1, <2>1 DEF ChasedInv
<1>3. CASE InitList
  <2>1. status' \in {"linked", "abort", "overrun", "sigfpe"}
    BY <1>3 DEF InitList, List!stride_init, List!page_random_init, List!all_random_init,
       List!WriteList
  <2>2. QED
    BY <2>1 DEF ChasedInv
<1>4. CASE Enter \/ Kernel \/ EndPhase
  BY <1>1, <1>4 DEF Enter, Kernel, EndPhase, ChasedInv
<1>5. CASE Load
  <2>1. status' \in {"chasing", "segv", "overrun", "clobbered"}
    BY <1>5 DEF Load, List!ChaseStep, List!Fault
  <2>2. QED
    BY <2>1 DEF ChasedInv
<1>6. CASE ClientChase
  BY <1>1, <1>6 DEF ClientChase, ChasedInv
<1>7. QED
  BY <1>2, <1>3, <1>4, <1>5, <1>6 DEF Next

(* At the end of a client's chase the stream has been round. *)
LEMMA RoundTrip ==
  ASSUME ArgsInv, ChasedInv, ListInv, List!Regular, status = "chased"
  PROVE  /\ Fits
         /\ \E f \in [Position -> Position] :
              /\ Circle(f)
              /\ mode # "dual" => k = Lines /\ OneStream(f)
              /\ mode = "dual" => k = Lines \div 2 /\ TwoStreams(f)
<1>1. Fits /\ Chasing /\ Written /\ run.prog = "client"
  BY RegularFits DEF ChasedInv, Chasing, Written
<1>2. PICK f \in [Position -> Position] : Circle(f) /\ Stream(f)
  BY <1>1 DEF ListInv
<1>3. Lines \in Nat /\ Lines \div 2 \in Nat
  <2>1. PICK n \in Nat : n = Lines
    BY <1>1, FitSizes
  <2>2. QED
    BY <2>1
<1>4. k \in Nat /\ k >= List!num_chases
  BY <1>1, <1>2 DEF Stream
<1>5. ASSUME mode # "dual"
      PROVE  k = Lines /\ OneStream(f)
  <2>1. OneStream(f) /\ k <= Lines /\ k >= Lines
    BY <1>1, <1>2, <1>4, <1>5 DEF Stream, OneStream, List!num_chases, Lines
  <2>2. QED
    BY <1>3, <1>4, <2>1
<1>6. ASSUME mode = "dual"
      PROVE  k = Lines \div 2 /\ TwoStreams(f)
  <2>1. Lines % 2 = 0
    BY <1>6 DEF List!Regular, Lines
  <2>2. TwoStreams(f) /\ k <= Lines \div 2 /\ k >= Lines \div 2
    BY <1>1, <1>2, <1>4, <1>6, <2>1 DEF Stream, TwoStreams, List!num_chases, Lines
  <2>3. QED
    BY <1>3, <1>4, <2>2
<1>7. QED
  BY <1>1, <1>2, <1>5, <1>6

(* Round once, the chase has used every line once. *)
LEMMA CoversAll ==
  ASSUME ArgsInv, ChasedInv, ListInv
  PROVE  OnePassCoversAll
<1> SUFFICES ASSUME List!Regular, status = "chased", mode # "dual"
             PROVE  /\ p = List!getStartPoint
                    /\ \A o \in 0 .. c.active_size - 1 :
                         o % c.line_size = 0 =>
                           /\ List!getOffsetAddr_(o) \in DOMAIN link
                           /\ touched[List!getOffsetAddr_(o)] = 1
  BY DEF OnePassCoversAll, List!OnePassCoversAll
<1>1. PICK f \in [Position -> Position] : Fits /\ Circle(f) /\ k = Lines /\ OneStream(f)
  BY RoundTrip
<1>2. PICK n \in Nat \ {0}, l \in Nat \ {0} :
        n = Lines /\ l = c.line_size /\ Position = 0 .. n - 1 /\ c.active_size = n * l
  BY <1>1, FitSizes DEF Position
<1>3. p = List!getStartPoint
  <2>1. Round(k) = 0
    BY <1>1, <1>2 DEF Round
  <2>2. QED
    BY <1>1, <2>1, Points DEF OneStream, Circle
<1>4. ASSUME NEW o \in 0 .. c.active_size - 1, o % c.line_size = 0
      PROVE  List!getOffsetAddr_(o) \in DOMAIN link /\ touched[List!getOffsetAddr_(o)] = 1
  <2>1. n * l \in Nat /\ o \in Nat /\ o < n * l
    <3>1. PICK w \in Nat : w = n * l
      OBVIOUS
    <3>2. o \in 0 .. w - 1
      BY <1>2, <3>1
    <3>3. QED
      BY <3>1, <3>2
  <2>2. PICK x \in Nat : o = x * l
    <3>1. o % l = 0
      BY <1>2, <1>4
    <3>2. o \div l \in Nat /\ o = (o \div l) * l
      BY <2>1, <3>1, Exact
    <3>3. QED
      BY <3>2
  <2>3. x \in Position
    <3>1. x < n
      <4>1. n <= x => n * l <= x * l
        OBVIOUS
      <4>2. QED
        BY <2>1, <2>2, <4>1
    <3>2. QED
      BY <1>2, <3>1
  <2>4. PICK j \in Position : f[j] = x
    BY <1>1, <2>3, EveryLine DEF Circle
  <2>5. List!getOffsetAddr_(o) = At(f[j])
    BY <1>2, <2>2, <2>4 DEF At
  <2>6. j < k
    BY <1>1, <1>2
  <2>7. touched[At(f[j])] = 1
    BY <1>1, <2>6 DEF OneStream
  <2>8. QED
    BY <1>1, <2>5, <2>7, CircleLoad
<1>5. QED
  BY <1>3, <1>4

(* Half-way round, two streams have shared the lines. *)
LEMMA DisjointStreams ==
  ASSUME ArgsInv, ChasedInv, ListInv
  PROVE  StreamsDisjoint
<1> SUFFICES ASSUME List!Regular, status = "chased", mode = "dual", HalfWay, NEW a \in DOMAIN link
             PROVE  touched[a] = 1
  BY DEF StreamsDisjoint, List!StreamsDisjoint, HalfWay
<1>1. PICK f \in [Position -> Position] :
        Fits /\ Circle(f) /\ k = Lines \div 2 /\ TwoStreams(f)
  BY RoundTrip
<1>2. PICK n \in Nat \ {0}, m \in Nat :
        n = Lines /\ Position = 0 .. n - 1 /\ m = Lines \div 2 /\ n = 2 * m
  <2>1. PICK n \in Nat \ {0} : n = Lines
    BY <1>1, FitSizes
  <2>2. n % 2 = 0
    BY <2>1 DEF List!Regular, Lines
  <2>3. n \div 2 \in Nat /\ n = 2 * (n \div 2)
    BY <2>2
  <2>4. QED
    BY <2>1, <2>3 DEF Position
<1>3. PICK h \in Position :
        /\ f[h] = m
        /\ \A j \in Position :
             touched[At(f[j])] = IF j < k \/ (h <= j /\ j < h + k) THEN 1 ELSE 0
  BY <1>1, <1>2 DEF TwoStreams
<1>4. h = m
  <2>1. m \in Position /\ f[m] = m
    BY <1>1, <1>2 DEF Circle
  <2>2. QED
    BY <1>1, <1>3, <2>1 DEF Circle
<1>5. PICK j \in Position : a = At(f[j])
  BY <1>1 DEF Circle
<1>6. j < k \/ (h <= j /\ j < h + k)
  BY <1>1, <1>2, <1>4
<1>7. QED
  BY <1>3, <1>5, <1>6

-----------------------------------------------------------------------------
(* The results *)

LEMMA InitIInv == Init => IInv
<1> SUFFICES ASSUME Init PROVE IInv
  OBVIOUS
<1>1. ArgsInv
  BY DEF Init, ArgsInv
<1>2. AllocType /\ AllocInv
  <2>1. /\ astatus = "check" /\ fdOpen = FALSE
        /\ addr = [r \in {1, 2} |-> 0] /\ raw = [r \in {1, 2} |-> 0]
        /\ rawSize = [r \in {1, 2} |-> 0] /\ moved = [r \in {1, 2} |-> 0]
        /\ held = [r \in {1, 2} |-> "none"]
    BY DEF Init, Alloc!Init, Alloc!Region
  <2>2. AllocType
    <3>1. /\ addr \in [{1, 2} -> Nat] /\ raw \in [{1, 2} -> Nat]
          /\ rawSize \in [{1, 2} -> Int] /\ moved \in [{1, 2} -> Nat]
      BY <2>1
    <3>2. held \in [{1, 2} -> {"none", "malloc", "mmap", "numa"}]
      BY <2>1
    <3>3. fdOpen \in BOOLEAN
      BY <2>1
    <3>4. QED
      BY <2>1, <3>1, <3>2, <3>3 DEF AllocType
  <2>3. Empty(1) /\ Empty(2) /\ moved[1] = 0 /\ moved[2] = 0
    BY <2>1 DEF Empty
  <2>4. AllocInv
    BY <2>1, <2>3 DEF AllocInv
  <2>5. QED
    BY <2>2, <2>4
<1>3. StageInv
  BY DEF Init, Alloc!Init, Alloc!Region, StageInv
<1>4. WorkInv
  <2>1. stage = "construct" /\ status = "built" /\ refs = 0 /\ reported = -1
    BY DEF Init, List!Init
  <2>2. todo \in Seq({"warmup", "timed", "migrate"})
    <3> DEFINE short == <<"warmup", "timed">>
               long == <<"warmup", "timed", "migrate", "warmup", "timed">>
    <3>1. short \in Seq({"warmup", "timed", "migrate"})
      OBVIOUS
    <3>2. long \in Seq({"warmup", "timed", "migrate"})
      OBVIOUS
    <3>3. todo = short \/ todo = long
      BY DEF Init
    <3>4. QED
      BY <3>1, <3>2, <3>3
  <2>3. QED
    BY <2>1, <2>2 DEF WorkInv, Benchmark
<1>5. KernelInv /\ InsideInv /\ ListInv
  BY KernelInit, InsideInit, ListBegins
<1>6. ChasedInv
  BY DEF Init, List!Init, ChasedInv
<1>7. QED
  BY <1>1, <1>2, <1>3, <1>4, <1>5, <1>6 DEF IInv

(* The invariant of regions and work holds throughout: a region is empty   *)
(* until its block has been obtained and lies aligned within that block    *)
(* until the destructor, and a phase has made the references of the passes *)
(* it has begun, up to the rounds the present pass still lacks; a kernel   *)
(* has touched the words behind its pointers, and a chase stands on the    *)
(* circle that its pattern has written.                                    *)
THEOREM Invariance == Spec => []IInv
<1>1. IInv /\ [Next]_vars => IInv'
  <2> SUFFICES ASSUME IInv, [Next]_vars PROVE IInv'
    OBVIOUS
  <2>1. /\ ArgsInv /\ AllocType /\ AllocInv /\ StageInv /\ WorkInv
        /\ KernelInv /\ InsideInv /\ ChasedInv /\ ListInv
    BY DEF IInv
  <2>2. ArgsInv' /\ AllocType' /\ AllocInv' /\ StageInv'
    BY <2>1, ArgsStep, AllocStep, StageStep
  <2>3. WorkInv'
    BY <2>1, QuietStep, LoopStep DEF Next
  <2>4. KernelInv'
    BY <2>1, KernelStep
  <2>5. InsideInv' /\ ChasedInv' /\ ListInv'
    BY <2>1, InsideStep, ChasedStep, ListStep
  <2>6. QED
    BY <2>2, <2>3, <2>4, <2>5 DEF IInv
<1>2. QED
  BY InitIInv, <1>1, PTL DEF Spec

(* RegionInsideBlock, for regions of any sizes and every place malloc may  *)
(* return: what the constructor hands out starts on an OS page and lies    *)
(* within the memory obtained for it, and migrate() moves only pages that  *)
(* are the region's alone.                                                 *)
THEOREM RegionsPlaced == Spec => []RegionInsideBlock
<1>1. IInv => RegionInsideBlock
  BY DEF IInv, AllocInv, AllocType, Ready, Placed, RegionInsideBlock, Alloc!RegionInsideBlock,
     Alloc!Region
<1>2. QED
  BY <1>1, Invariance, PTL

(* ReleasedAsObtained, for every kind of memory: the destructor undoes     *)
(* each allocation by its own counterpart and leaves nothing behind.       *)
THEOREM Released == Spec => []ReleasedAsObtained
<1>1. IInv => ReleasedAsObtained
  BY DEF IInv, AllocInv, AllocType, StageInv, ReleasedAsObtained, Alloc!ReleasedAsObtained,
     Alloc!Region
<1>2. QED
  BY <1>1, Invariance, PTL

(* WorkAsReported, for every size, unrolling and number of iterations that *)
(* the two mains accept: the timer divides a phase by the references made. *)
THEOREM WorkReported == Spec => []WorkAsReported
<1>1. IInv => WorkAsReported
  BY DEF IInv, WorkInv, WorkAsReported
<1>2. QED
  BY <1>1, Invariance, PTL

(* KernelCovers, for every action, size, unrolling and number of passes: a *)
(* pass of benchmark_prd, pwr, prmw or pcp that ends has accessed each     *)
(* half line of the active part once and no other, and in a single region  *)
(* that holds the active part every pass ends.                             *)
THEOREM KernelsCover == Spec => []KernelCovers
<1>1. IInv => KernelCovers
  BY KernelCoversAll DEF IInv
<1>2. QED
  BY <1>1, Invariance, PTL

(* StaysInside, for sizes in bytes that need not divide each other: when   *)
(* the active size is no larger than the two regions, stride_init,         *)
(* page_random_init and all_random_init begin every store inside them, and *)
(* also end it there if regions, pages and lines are whole pointers; the   *)
(* start point of the chase has memory behind it.                          *)
THEOREM ListsInside == Spec => []StaysInside
<1>1. IInv => StaysInside
  BY DEF IInv, InsideInv
<1>2. QED
  BY <1>1, Invariance, PTL

(* OnePassCoversAll, for lists of any length and every outcome of rand():  *)
(* numActiveLines() chases use every line once and end where they began.   *)
THEOREM PassCoversAll == Spec => []OnePassCoversAll
<1>1. IInv => OnePassCoversAll
  BY CoversAll DEF IInv
<1>2. QED
  BY <1>1, Invariance, PTL

(* StreamsDisjoint, for lists of any length: the two streams of thread_rmw *)
(* and warm_up share the lines without meeting, over a stride and over     *)
(* random lines in an even number of pages.                                *)
THEOREM StreamsShareLines == Spec => []StreamsDisjoint
<1>1. IInv => StreamsDisjoint
  BY DisjointStreams DEF IInv
<1>2. QED
  BY <1>1, Invariance, PTL

(* NeverLost, for lists of any length: with regular sizes no chase follows *)
(* a null pointer, and no payload word is a pointer of the list or lies    *)
(* behind the region, in any pass, before and after migrate().             *)
THEOREM ChasesNeverLost == Spec => []NeverLost
<1>1. IInv => NeverLost
  BY DEF IInv, ListInv, NeverLost
<1>2. QED
  BY <1>1, Invariance, PTL

=============================================================================
