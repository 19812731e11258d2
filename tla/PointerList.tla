----------------------------- MODULE PointerList -----------------------------
(***************************************************************************)
(* The circular pointer lists MemRegion writes into its memory, and the    *)
(* chase over them by the benchmark loops.  Sizes and offsets are bytes,   *)
(* and a pointer takes Pointer of them from its address on.  An address is *)
(* a pair <<region, offset>>: region 1 is native memory, region 2 the      *)
(* optional remote or device memory behind it.  Neither the constructor    *)
(* nor the callers relate active size, page size and line size to each     *)
(* other or to the size of a pointer: a stride may be shorter than one or  *)
(* not a multiple of it.  Page and line size are positive (the constructor *)
(* divides by them).                                                       *)
(***************************************************************************)
EXTENDS Integers, FiniteSets

CONSTANTS
  Pointer,   \* bytes of a pointer, and of a payload word: 8
  Configs,   \* records of size, size2, active_size, page_size, line_size
  Patterns   \* which of stride_init, page_random_init, all_random_init

VARIABLES
  c,         \* constructor arguments of the region
  status,    \* "built", "linked", "chasing", "chased", or how it ended:
             \* "sigfpe", "abort" (the assert), "overrun" (an access that ends
             \* behind its region), "clobbered" (a store over a pointer of the
             \* list), "segv" (followed what is not a pointer of the list)
  pattern,   \* pattern of the list
  link,      \* address -> address: the pointers in memory, each of them whole
  mode,      \* chase: "read" (read only), "rmw" (one stream) or "dual"
  p, p2,     \* the pointers of the chase
  k,         \* its loop counter
  touched    \* touched[a]: how often the chase has used the line at a

vars == <<c, status, pattern, link, mode, p, p2, k, touched>>
chaseVars == <<mode, p, p2, k, touched>>

size_region1 == c.size - c.size2
num_active_pages == c.active_size \div c.page_size
num_lines_in_page == c.page_size \div c.line_size
numActiveLines == num_active_pages * num_lines_in_page

Null == <<0, 0>>

(* Mutant: the first byte of region 2 is taken to be in region 1. *)
OffsetTooFar(offset) ==
  IF size_region1 > 0 /\ offset <= size_region1 THEN <<1, offset>>
  ELSE <<2, offset - size_region1>>

getOffsetAddr_(offset) ==
  IF size_region1 > 0 /\ offset < size_region1 THEN <<1, offset>>
  ELSE <<2, offset - size_region1>>

(* The assert of getOffsetAddr_ fails: there is no region 2 to go to. *)
Asserts(offset) == ~(size_region1 > 0 /\ offset < size_region1) /\ c.size2 = 0

(* A pointer or payload word at a is within its region to the last byte. *)
InRegion(a) ==
  \/ a[1] = 1 /\ a[2] + Pointer <= size_region1
  \/ a[1] = 2 /\ a[2] + Pointer <= c.size2

(* Two words at a and b share a byte. *)
Overlap(a, b) ==
  a[1] = b[1] /\ a[2] < b[2] + Pointer /\ b[2] < a[2] + Pointer

getStartPoint == getOffsetAddr_(0)

(* Mutant: half of the whole region in place of its active part. *)
HalfOfSize == c.size \div 2

half == c.active_size \div 2
getHalfPoint == getOffsetAddr_(half)

Init ==
  /\ c \in Configs
  /\ status = "built"
  /\ pattern \in Patterns
  /\ link = << >>
  /\ mode = "read"
  /\ p = Null /\ p2 = Null
  /\ k = 0
  /\ touched = << >>

-----------------------------------------------------------------------------
(* The three patterns *)

(* Write the list that visits the n offsets order[0], order[1], ... and    *)
(* closes the circle, storing at them in this order.  A store that ends    *)
(* behind its region ends the program; one that overlaps an earlier store  *)
(* leaves no whole pointer there.                                          *)
WriteList(order, n) ==
  LET used == {order[j] : j \in 0 .. n - 1}
      addrs == {getOffsetAddr_(o) : o \in used}
      at(a) == CHOOSE j \in 0 .. n - 1 : getOffsetAddr_(order[j]) = a
      whole == {a \in addrs : \A b \in addrs : Overlap(a, b) => at(b) <= at(a)}
  IN IF \E o \in used : Asserts(o)
     THEN status' = "abort" /\ UNCHANGED link
     ELSE IF \E a \in addrs : ~InRegion(a)
     THEN status' = "overrun" /\ UNCHANGED link
     ELSE /\ status' = "linked"
          /\ link' = [a \in whole |-> getOffsetAddr_(order[(at(a) + 1) % n])]

(* What randomizeSequence_ returns for n elements: module RandomizeSequence *)
(* shows that these are permutations with the start in front.              *)
Shuffles(n) ==
  {f \in [0 .. n - 1 -> 0 .. n - 1] :
     f[0] = 0 /\ \A a, b \in 0 .. n - 1 : a # b => f[a] # f[b]}

Max1(n) == IF n > 0 THEN n ELSE 1

(* Mutant: the last line is left out of the circle. *)
StrideShort ==
  LET n == Max1((c.active_size - 1) \div c.line_size) IN
  /\ status = "built" /\ pattern = "stride"
  /\ WriteList([j \in 0 .. n - 1 |-> j * c.line_size], n)
  /\ UNCHANGED <<c, pattern, chaseVars>>

(* The loop stores at 0, line, 2*line, ... below active_size, and closes   *)
(* the circle even when it has not run.                                    *)
stride_init ==
  LET n == Max1((c.active_size + c.line_size - 1) \div c.line_size) IN
  /\ status = "built" /\ pattern = "stride"
  /\ WriteList([j \in 0 .. n - 1 |-> j * c.line_size], n)
  /\ UNCHANGED <<c, pattern, chaseVars>>

(* Pages in order, the lines of each page in the same random order; with   *)
(* no line in a page the shuffle divides by zero, with no page nothing is  *)
(* stored.                                                                 *)
page_random_init ==
  LET n == numActiveLines
      L == num_lines_in_page IN
  /\ status = "built" /\ pattern = "pageRand"
  /\ \/ /\ L = 0
        /\ status' = "sigfpe"
        /\ UNCHANGED link
     \/ /\ L > 0
        /\ \E lines \in Shuffles(L) :
             WriteList([j \in 0 .. n - 1 |->
                          (j \div L) * c.page_size + lines[j % L] * c.line_size], n)
  /\ UNCHANGED <<c, pattern, chaseVars>>

all_random_init ==
  LET n == numActiveLines IN
  /\ status = "built" /\ pattern = "allRand"
  /\ \/ /\ n = 0
        /\ status' = "sigfpe"
        /\ UNCHANGED link
     \/ /\ n > 0
        /\ \E lines \in Shuffles(n) :
             WriteList([j \in 0 .. n - 1 |-> lines[j] * c.line_size], n)
  /\ UNCHANGED <<c, pattern, chaseVars>>

-----------------------------------------------------------------------------
(* The chases of thread_rmw, warm_up and the latency benchmark *)

(* Read only or read-modify-write from the start, or two read-modify-write *)
(* streams from the start and from the half point.                         *)
BeginChase ==
  /\ status = "linked"
  /\ mode' \in {"read", "rmw", "dual"}
  /\ status' = IF Asserts(0) \/ (mode' = "dual" /\ Asserts(half)) THEN "abort" ELSE "chasing"
  /\ p' = getStartPoint
  /\ p2' = IF mode' = "dual" THEN getHalfPoint ELSE Null
  /\ k' = 0
  /\ touched' = [a \in DOMAIN link |-> 0]
  /\ UNCHANGED <<c, pattern, link>>

num_chases == IF mode = "dual" THEN numActiveLines \div 2 ELSE numActiveLines

(* The lines used in this round of the loop. *)
Streams == IF mode = "dual" THEN {p, p2} ELSE {p}

(* Mutant: the payload is one word further on. *)
PayloadNext(a) == <<a[1], a[2] + 5 * Pointer>>

(* The word that *(p + 4) += 1 increments. *)
Payload(a) == <<a[1], a[2] + 4 * Pointer>>

(* Other memory holds zeros, or the parts of two pointers that are no      *)
(* address of the regions: following them leads nowhere.                   *)
Load(a) == IF a \in DOMAIN link THEN link[a] ELSE Null

Hits(a) == (IF a = p THEN 1 ELSE 0) + (IF mode = "dual" /\ a = p2 THEN 1 ELSE 0)

(* One round of the loop goes wrong at what is not a pointer or at a       *)
(* payload word that shares bytes with somebody else's.                    *)
Fault ==
  IF \E a \in Streams : ~InRegion(a) THEN "segv"
  ELSE IF mode # "read" /\ \E a \in Streams : ~InRegion(Payload(a)) THEN "overrun"
  ELSE IF mode # "read" /\ \E a \in Streams, b \in DOMAIN link : Overlap(Payload(a), b)
  THEN "clobbered"
  ELSE "none"

ChaseStep ==
  /\ status = "chasing"
  /\ k < num_chases
  /\ \/ /\ Fault = "none"
        /\ p' = Load(p)
        /\ p2' = IF mode = "dual" THEN Load(p2) ELSE p2
        /\ touched' = [a \in DOMAIN link |-> touched[a] + Hits(a)]
        /\ k' = k + 1
        /\ UNCHANGED <<status, mode>>
     \/ /\ Fault # "none"
        /\ status' = Fault
        /\ UNCHANGED chaseVars
  /\ UNCHANGED <<c, pattern, link>>

EndChase ==
  /\ status = "chasing"
  /\ k >= num_chases
  /\ status' = "chased"
  /\ UNCHANGED <<c, pattern, link, chaseVars>>

Finished ==
  /\ status \in {"chased", "sigfpe", "abort", "overrun", "clobbered", "segv"}
  /\ UNCHANGED vars

Next ==
  \/ stride_init \/ page_random_init \/ all_random_init
  \/ BeginChase \/ ChaseStep \/ EndChase \/ Finished

Spec == Init /\ [][Next]_vars

-----------------------------------------------------------------------------

(* The bytes of a line that the chase uses: its pointer, and up to the end *)
(* of the payload word if it writes.                                       *)
Used == IF mode = "read" THEN Pointer ELSE 5 * Pointer

(* Every active line has room for u bytes, in it and in its region. *)
Room(u) ==
  /\ u <= c.line_size
  /\ \A o \in 0 .. c.active_size - 1 :
       o % c.line_size = 0 /\ o < size_region1 => o + u <= size_region1

(* Sizes that fit into each other: whole pages of whole lines, with room   *)
(* for what the chase uses of a line; and for two streams an even number   *)
(* of lines, as the half point is a line only then.                        *)
Regular ==
  /\ 0 < c.active_size /\ c.active_size <= c.size
  /\ c.active_size % c.page_size = 0
  /\ c.page_size % c.line_size = 0
  /\ Room(Used)
  /\ mode = "dual" => numActiveLines % 2 = 0

(* Regions, pages and lines are made of whole pointers. *)
WholePointers ==
  \A s \in {c.size, c.size2, c.page_size, c.line_size} : s % Pointer = 0

(* When the active size fits, no store of a list begins outside the two    *)
(* regions, whatever the page and line sizes; when these are whole         *)
(* pointers, none ends outside either (the stores through getOffsetAddr_). *)
(* With other strides the last store may end behind the region.            *)
StaysInside ==
  0 < c.active_size /\ c.active_size <= c.size /\ mode = "read" =>
    /\ status # "abort"
    /\ WholePointers => status # "overrun"

(* One pass of numActiveLines() chases uses every line exactly once and    *)
(* ends where it began, for each pattern and every outcome of rand(): the  *)
(* time per reference divides by that number.                              *)
OnePassCoversAll ==
  Regular /\ status = "chased" /\ mode # "dual" =>
    /\ p = getStartPoint
    /\ \A o \in 0 .. c.active_size - 1 :
         o % c.line_size = 0 =>
           getOffsetAddr_(o) \in DOMAIN link /\ touched[getOffsetAddr_(o)] = 1

(* Two streams of half the length share the work without meeting, when the *)
(* half point is half-way round the circle: for the stride, and for random *)
(* lines within an even number of pages.                                   *)
StreamsDisjoint ==
  (/\ Regular /\ status = "chased" /\ mode = "dual"
   /\ pattern = "stride" \/ (pattern = "pageRand" /\ num_active_pages % 2 = 0))
    => \A a \in DOMAIN link : touched[a] = 1

(* With regular sizes no chase follows a null pointer, and no increment of *)
(* a payload word hits a pointer of the list or memory behind the region.  *)
NeverLost == Regular => status \notin {"segv", "clobbered", "overrun", "abort"}

=============================================================================
