----------------------------- MODULE ContigAlloc -----------------------------
(***************************************************************************)
(* Programs that read a page map while the kernel may move the pages, and  *)
(* users of the shuffle of RandomizeSequence.  program is one of           *)
(*   contiguous_mem_alloc  looks up the frames of a pool of pages, sorts   *)
(*       the pages by frame, picks groups that are contiguous in physical  *)
(*       memory, and chases pointers through a shuffled list of a region   *)
(*       (the picked pages are not remapped into it: num_remaps is 0);     *)
(*   virt_to_phys_user  looks up pages of such a pool one by one, with     *)
(*       reads of a map entry that may come back short;                    *)
(*   MemRegion  only shuffles.                                             *)
(* The kernel and its page map are external.  Addresses count pages, an    *)
(* entry of the map is a number of two halves.                             *)
(***************************************************************************)
EXTENDS RandomizeSequence, Sequences, FiniteSets, Functions

CONSTANTS
  Layouts,     \* maps from the pages 0, 1, ... of a pool to their frames
  Frames,      \* all page frames, numbers above 0
  Slots,       \* swap slots
  Garbage,     \* what memory from malloc may hold
  GroupSize,   \* group_size
  NumPages,    \* num_pages, size of page_picks
  NumLines,    \* lines of the region
  Unroll,      \* loop_unroll
  MaxMoves     \* bound on the pages moved

ASSUME ContigAssumption ==
  /\ {GroupSize, NumPages, Unroll} \subseteq Nat \ {0}
  /\ NumPages % GroupSize = 0
  /\ NumLines \in 0 .. MaxSize /\ MaxMoves \in Nat
  /\ Frames \cup Slots \cup Garbage \subseteq Nat
  /\ \A layout \in Layouts :
       /\ IsFiniteSet(DOMAIN layout)
       /\ layout \in [0 .. Cardinality(DOMAIN layout) - 1 -> Frames]
       /\ \A v, w \in DOMAIN layout : v # w => layout[v] # layout[w]

VARIABLES
  program,
  stage,       \* next step of main, or its end: "returned", "failed", "assert"
  privileged,  \* the map shows frames to this process, else zeros
  where,       \* where[v]: <<"ram", frame>> or <<"swap", slot>> of page v
  moves,       \* pages moved so far
  exact,       \* ghost: since the lookup began it was complete, privileged
               \* and no page has moved
  fds,         \* open descriptors of the page map
  buf,         \* entries read: pagemap_buf, or the halves of data
  idx,         \* loop index of main
  pool,        \* page_pool, sorted: records [vaddr, paddr]
  picks,       \* page_picks up to num_picks
  shown        \* lines printed by virt_to_phys_user

contigVars == <<program, stage, privileged, where, moves, exact, fds, buf, idx, pool, picks, shown>>
allVars == <<vars, contigVars>>

Page == DOMAIN where

(* What the map says of page v: frame or swap slot, or 0. *)
Entry(v) == IF privileged THEN where[v][2] ELSE 0

ContigInit ==
  /\ Init
  /\ program \in {"contiguous_mem_alloc", "virt_to_phys_user", "MemRegion"}
  /\ stage = IF program = "MemRegion" THEN "list" ELSE "open"
  /\ \/ program = "MemRegion" /\ privileged = FALSE /\ where = << >>
     \/ /\ program # "MemRegion" /\ size = NumLines /\ ~in_order
        /\ privileged \in BOOLEAN
        /\ \E layout \in Layouts : where = [v \in DOMAIN layout |-> <<"ram", layout[v]>>]
  /\ moves = 0 /\ exact = FALSE
  /\ fds = 0 /\ buf = << >> /\ idx = 0
  /\ pool = << >> /\ picks = << >> /\ shown = << >>

(* The kernel migrates a page to a free frame, or swaps it out. *)
MovePage ==
  /\ stage \in {"read", "sort", "pick", "lookup", "pread"}
  /\ moves < MaxMoves
  /\ \E v \in Page, to \in ({"ram"} \X Frames) \cup ({"swap"} \X Slots) :
       /\ \A w \in Page : where[w] # to
       /\ where' = [where EXCEPT ![v] = to]
  /\ moves' = moves + 1
  /\ exact' = FALSE
  /\ UNCHANGED <<vars, program, stage, privileged, fds, buf, idx, pool, picks, shown>>

-----------------------------------------------------------------------------
(* contiguous_mem_alloc: the page map *)

(* Opening and seeking may fail; the failed seek leaves the file open. *)
OpenMap ==
  /\ program = "contiguous_mem_alloc" /\ stage = "open"
  /\ \/ stage' = "failed" /\ fds' \in {0, 1} /\ UNCHANGED exact
     \/ stage' = "read" /\ fds' = 1 /\ exact' = privileged
  /\ UNCHANGED <<vars, program, privileged, where, moves, buf, idx, pool, picks, shown>>

(* The kernel copies entry after entry. *)
ReadEntry ==
  /\ program = "contiguous_mem_alloc" /\ stage = "read" /\ Len(buf) \in Page
  /\ buf' = Append(buf, Entry(Len(buf)))
  /\ UNCHANGED <<vars, program, stage, privileged, where, moves, exact, fds, idx, pool, picks, shown>>

(* read returns: with an error, with less than was asked for, which nobody *)
(* checks, or with everything.                                             *)
EndRead ==
  /\ program = "contiguous_mem_alloc" /\ stage = "read"
  /\ \/ stage' = "failed" /\ Len(buf) = 0 /\ UNCHANGED <<buf, exact, fds>>
     \/ /\ stage' = "sort" /\ Len(buf) \in Page
        /\ \E g \in Garbage :
             buf' = [j \in 1 .. Cardinality(Page) |-> IF j <= Len(buf) THEN buf[j] ELSE g]
        /\ exact' = FALSE /\ fds' = 0
     \/ stage' = "sort" /\ Len(buf) \notin Page /\ fds' = 0 /\ UNCHANGED <<buf, exact>>
  /\ UNCHANGED <<vars, program, privileged, where, moves, idx, pool, picks, shown>>

-----------------------------------------------------------------------------
(* contiguous_mem_alloc: the groups *)

(* The orders the pages of a pool can be put in.  (The outer set has TLC   *)
(* list them once, not for every state.)                                   *)
Orders == {s : s \in UNION {Bijection(DOMAIN layout, DOMAIN layout) : layout \in Layouts}}

(* std::sort by frame number: pages with equal numbers in any order. *)
Sort ==
  /\ stage = "sort"
  /\ \E s \in Orders :
       /\ DOMAIN s = Page
       /\ \A j, k \in Page : j < k => buf[s[j] + 1] <= buf[s[k] + 1]
       /\ pool' = [j \in 1 .. Len(buf) |-> [vaddr |-> s[j - 1], paddr |-> buf[s[j - 1] + 1]]]
  /\ stage' = "pick" /\ buf' = << >>
  /\ UNCHANGED <<vars, program, privileged, where, moves, exact, fds, idx, picks, shown>>

first == pool[idx + 1].paddr
last == pool[idx + GroupSize].paddr

(* Mutant: a group may begin at any frame. *)
IsGroupAnywhere == last = first + GroupSize - 1

(* The chunk is aligned, and its last page as far behind as in a chunk. *)
IsGroup == first % GroupSize = 0 /\ last = first + GroupSize - 1

PickGroup ==
  /\ stage = "pick"
  /\ idx + GroupSize - 1 < Len(pool)
  /\ picks' = IF IsGroup THEN picks \o SubSeq(pool, idx + 1, idx + GroupSize) ELSE picks
  /\ idx' = idx + 1
  /\ stage' = IF IsGroup /\ Len(picks') >= NumPages THEN "picked" ELSE "pick"
  /\ UNCHANGED <<vars, program, privileged, where, moves, exact, fds, buf, pool, shown>>

(* The new region is mapped and no picked page moved into it; the pool is  *)
(* not used any more.                                                      *)
EndPick ==
  /\ stage = "picked" \/ (stage = "pick" /\ idx + GroupSize - 1 >= Len(pool))
  /\ stage' = "list"
  /\ pool' = << >> /\ idx' = 0
  /\ where' = [v \in Page |-> <<"ram", 0>>] /\ exact' = FALSE /\ picks' = << >>
  /\ UNCHANGED <<vars, program, privileged, moves, fds, buf, shown>>

-----------------------------------------------------------------------------
(* The list, and the benchmark behind it *)

Randomize == stage = "list" /\ Step /\ UNCHANGED contigVars

(* contiguous_mem_alloc checks its lines against the unrolled loop before  *)
(* it runs; a trap in the shuffle ends the program.                        *)
Benchmark ==
  /\ stage = "list" /\ pc \in {"done", "sigfpe"}
  /\ stage' = IF program = "contiguous_mem_alloc" /\ pc = "done" /\ NumLines % Unroll # 0
              THEN "assert" ELSE "returned"
  /\ UNCHANGED <<vars, program, privileged, where, moves, exact, fds, buf, idx, pool, picks, shown>>

-----------------------------------------------------------------------------
(* virt_to_phys_user *)

(* One round of main's loop opens the map, or there is no page left.  Any  *)
(* failure ends main, with what is open.                                   *)
LookupPage ==
  /\ program = "virt_to_phys_user" /\ stage \in {"open", "lookup"}
  /\ \/ stage' = "returned" /\ idx \notin Page /\ UNCHANGED <<fds, exact>>
     \/ stage' = "failed" /\ idx \in Page /\ UNCHANGED <<fds, exact>>
     \/ stage' = "pread" /\ idx \in Page /\ fds' = fds + 1 /\ exact' = privileged
  /\ UNCHANGED <<vars, program, privileged, where, moves, buf, idx, pool, picks, shown>>

Half(n, h) == IF h = 1 THEN n \div 4 ELSE n % 4

(* Mutant: the position in the file does not follow a short read. *)
PreadAgain ==
  /\ stage = "pread" /\ Len(buf) < 2
  /\ \/ \E ret \in 1 .. 2 - Len(buf) :
          /\ buf' = buf \o [h \in 1 .. ret |-> Half(Entry(idx), h)]
          /\ UNCHANGED stage
     \/ stage' = "failed" /\ UNCHANGED buf
  /\ UNCHANGED <<vars, program, privileged, where, moves, exact, fds, idx, pool, picks, shown>>

(* pread gives as many halves as it likes, from where the last one ended,  *)
(* or fails, which leaves the file open.                                   *)
Pread ==
  /\ stage = "pread" /\ Len(buf) < 2
  /\ \/ \E ret \in 1 .. 2 - Len(buf) :
          /\ buf' = buf \o [h \in 1 .. ret |-> Half(Entry(idx), Len(buf) + h)]
          /\ UNCHANGED stage
     \/ stage' = "failed" /\ UNCHANGED buf
  /\ UNCHANGED <<vars, program, privileged, where, moves, exact, fds, idx, pool, picks, shown>>

(* The present bit is parsed but not looked at. *)
Show ==
  /\ stage = "pread" /\ Len(buf) = 2
  /\ shown' = Append(shown, [vaddr |-> idx, paddr |-> 4 * buf[1] + buf[2],
                             exact |-> exact, was |-> where[idx]])
  /\ fds' = fds - 1
  /\ buf' = << >> /\ idx' = idx + 1 /\ stage' = "lookup"
  /\ UNCHANGED <<vars, program, privileged, where, moves, exact, pool, picks>>

-----------------------------------------------------------------------------

Finished == stage \in {"returned", "failed", "assert"} /\ UNCHANGED allVars

Work ==
  \/ OpenMap \/ ReadEntry \/ EndRead \/ Sort \/ PickGroup \/ EndPick
  \/ Randomize \/ Benchmark \/ LookupPage \/ Pread \/ Show

ContigNext == Work \/ MovePage \/ Finished

(* The programs are single threads that never block. *)
ContigSpec == ContigInit /\ [][ContigNext]_allVars /\ WF_allVars(Work)

-----------------------------------------------------------------------------

(* The picked pages fit into page_picks and, if the map could be read and  *)
(* no page has moved since, form groups of pages whose frames follow each  *)
(* other from an aligned one, no page in two of them, although only the    *)
(* first and the last page of a group are compared.                        *)
GroupsContiguous ==
  stage \in {"pick", "picked"} =>
    /\ Len(picks) <= NumPages /\ Len(picks) % GroupSize = 0
    /\ exact =>
         /\ \A j, k \in 1 .. Len(picks) : j # k => picks[j].vaddr # picks[k].vaddr
         /\ \A j \in 1 .. Len(picks) :
              LET g == j - ((j - 1) % GroupSize)
              IN /\ picks[g].paddr % GroupSize = 0
                 /\ where[picks[j].vaddr] = <<"ram", picks[g].paddr + (j - g)>>

(* However the reads of an entry are cut, the address printed is that of   *)
(* the page's frame unless the page moved during the lookup or was swapped *)
(* out; and a lookup that fails leaves one descriptor behind, never more.  *)
LookupExact ==
  /\ fds <= 1
  /\ \A j \in 1 .. Len(shown) :
       shown[j].exact /\ shown[j].was[1] = "ram" => shown[j].paddr = shown[j].was[2]

(* Every program ends: the shuffle finds the start again, and reads that   *)
(* come back short get on.                                                 *)
Finishes == <>(stage \in {"returned", "failed", "assert"})

=============================================================================
