----------------------------- MODULE RegionAlloc -----------------------------
(***************************************************************************)
(* Construction and destruction of a MemRegion: the constructor's checks,  *)
(* the allocation of region 1 (native) and region 2 (native, remote node   *)
(* or device) with every allocation free to fail, the page migration and   *)
(* the destructor.  malloc, mmap, numa_alloc_onnode, open and move_pages   *)
(* are external; an address is a number of bytes of a small address space. *)
(***************************************************************************)
EXTENDS Integers

CONSTANTS
  Args,         \* constructor arguments: size, size2, mem_type, use_hugepage
  OsPage        \* os_page_size_

Region == {1, 2}

VARIABLES
  arg,      \* constructor arguments
  status,   \* "check", "alloc1", "alloc2", "built", "migrated", "destroyed",
            \* or how the process ended: "exit", "segv", "badfree"
  addr,     \* addr[r]: addr1_, addr2_; 0 is NULL
  raw,      \* raw[r]: raw_addr1_, raw_addr2_
  rawSize,  \* rawSize[r]: raw_size1_, raw_size2_
  held,     \* held[r]: the call that provided the memory of region r
  fdOpen,   \* fd_ # -1
  moved     \* moved[r]: bytes of region r passed to move_pages

vars == <<arg, status, addr, raw, rawSize, held, fdOpen, moved>>

Size(r) == IF r = 1 THEN arg.size - arg.size2 ELSE arg.size2

Init ==
  /\ arg \in Args
  /\ status = "check"
  /\ addr = [r \in Region |-> 0]
  /\ raw = [r \in Region |-> 0]
  /\ rawSize = [r \in Region |-> 0]
  /\ held = [r \in Region |-> "none"]
  /\ fdOpen = FALSE
  /\ moved = [r \in Region |-> 0]

(* The sanity check; size_region1_ has been computed before it (modulo     *)
(* 2^64) but is only used after.                                           *)
CheckSizes ==
  /\ status = "check"
  /\ status' = IF arg.size2 > arg.size THEN "exit" ELSE "alloc1"
  /\ UNCHANGED <<arg, addr, raw, rawSize, held, fdOpen, moved>>

-----------------------------------------------------------------------------
(* allocNative_, allocRemote_, allocDevice_, and the memset behind them *)

After(r) == IF r = 1 THEN "alloc2" ELSE "built"

Exit == status' = "exit" /\ UNCHANGED <<addr, raw, rawSize, held>>

(* mmap gives page-aligned memory of just the size, or fails and error_    *)
(* exits.                                                                  *)
MapRegion(r) ==
  \/ /\ addr' = [addr EXCEPT ![r] = 4 * r * OsPage]
     /\ raw' = [raw EXCEPT ![r] = 4 * r * OsPage]
     /\ rawSize' = [rawSize EXCEPT ![r] = Size(r)]
     /\ held' = [held EXCEPT ![r] = "mmap"]
     /\ status' = After(r)
  \/ Exit

(* Mutant: no room for the alignment is asked for. *)
RawSizeShort(r) == Size(r)

RawSize(r) == Size(r) + OsPage

Align(a) == a + OsPage - (a % OsPage)

(* malloc or numa_alloc_onnode of one OS page more, aligned by hand.  A    *)
(* failed call is not noticed: the NULL is aligned too and the memset hits *)
(* an unmapped page.                                                       *)
AlignedRegion(r, call) ==
  \/ \E start \in 0 .. OsPage - 1 :
       LET a == 4 * r * OsPage + start IN
       /\ raw' = [raw EXCEPT ![r] = a]
       /\ rawSize' = [rawSize EXCEPT ![r] = RawSize(r)]
       /\ addr' = [addr EXCEPT ![r] = Align(a)]
       /\ held' = [held EXCEPT ![r] = call]
       /\ status' = After(r)
  \/ /\ raw' = raw
     /\ rawSize' = [rawSize EXCEPT ![r] = RawSize(r)]
     /\ addr' = [addr EXCEPT ![r] = Align(0)]
     /\ status' = "segv"
     /\ UNCHANGED held

allocNative_(r) ==
  /\ IF arg.use_hugepage THEN MapRegion(r) ELSE AlignedRegion(r, "malloc")
  /\ UNCHANGED fdOpen

allocRemote_(r) ==
  /\ IF arg.use_hugepage THEN Exit ELSE AlignedRegion(r, "numa")
  /\ UNCHANGED fdOpen

(* /dev/dax0.0 may not open; huge pages are refused after it has been. *)
allocDevice_(r) ==
  \/ Exit /\ UNCHANGED fdOpen
  \/ /\ fdOpen' = TRUE
     /\ IF arg.use_hugepage THEN Exit ELSE MapRegion(r)

AllocRegion1 ==
  /\ status = "alloc1"
  /\ IF Size(1) > 0 THEN allocNative_(1)
     ELSE status' = "alloc2" /\ UNCHANGED <<addr, raw, rawSize, held, fdOpen>>
  /\ UNCHANGED <<arg, moved>>

AllocRegion2 ==
  /\ status = "alloc2"
  /\ \/ /\ Size(2) = 0
        /\ status' = "built"
        /\ UNCHANGED <<addr, raw, rawSize, held, fdOpen>>
     \/ Size(2) > 0 /\ arg.mem_type = "NATIVE" /\ allocNative_(2)
     \/ Size(2) > 0 /\ arg.mem_type \in {"REMOTE1", "REMOTE2"} /\ allocRemote_(2)
     \/ Size(2) > 0 /\ arg.mem_type = "DEVICE" /\ allocDevice_(2)
  /\ UNCHANGED <<arg, moved>>

-----------------------------------------------------------------------------
(* migrate *)

num_os_pages(r) == Size(r) \div OsPage

(* move_pages gets the whole OS pages of each region from its start; its   *)
(* result is only printed.                                                 *)
migrate ==
  /\ status = "built"
  /\ moved' = [r \in Region |-> IF Size(r) > 0 THEN num_os_pages(r) * OsPage ELSE 0]
  /\ status' = "migrated"
  /\ UNCHANGED <<arg, addr, raw, rawSize, held, fdOpen>>

-----------------------------------------------------------------------------
(* The destructor *)

(* Mutant: region 2 is always given back with free. *)
ReleaseByFree(r) ==
  IF r = 1 /\ arg.use_hugepage THEN "munmap" ELSE "free"

(* The call that gives region r back. *)
Release(r) ==
  IF r = 1 \/ arg.mem_type = "NATIVE" THEN (IF arg.use_hugepage THEN "munmap" ELSE "free")
  ELSE IF arg.mem_type \in {"REMOTE1", "REMOTE2"} THEN "numa_free"
  ELSE "munmap"

(* Which release belongs to which allocation. *)
Matches(alloc, release) ==
  <<alloc, release>> \in {<<"malloc", "free">>, <<"mmap", "munmap">>, <<"numa", "numa_free">>}

Destroy ==
  LET present == {r \in Region : addr[r] # 0} IN
  /\ status \in {"built", "migrated"}
  /\ IF \A r \in present : Matches(held[r], Release(r))
     THEN /\ status' = "destroyed"
          /\ held' = [r \in Region |-> IF r \in present THEN "none" ELSE held[r]]
     ELSE status' = "badfree" /\ UNCHANGED held
  /\ fdOpen' = (fdOpen /\ ~(2 \in present /\ arg.mem_type = "DEVICE"))
  /\ addr' = [r \in Region |-> 0]
  /\ raw' = [r \in Region |-> 0]
  /\ UNCHANGED <<arg, rawSize, moved>>

Finished == status \in {"destroyed", "exit", "segv", "badfree"} /\ UNCHANGED vars

Next == CheckSizes \/ AllocRegion1 \/ AllocRegion2 \/ migrate \/ Destroy \/ Finished

Spec == Init /\ [][Next]_vars

-----------------------------------------------------------------------------

(* A region that the constructor hands out starts on an OS page and lies   *)
(* within the memory obtained for it, wherever malloc put that; only pages *)
(* that are the region's alone are migrated, as the block around it may    *)
(* share its last page with other data.                                    *)
RegionInsideBlock ==
  status \in {"built", "migrated"} =>
    \A r \in Region :
      Size(r) > 0 =>
        /\ addr[r] % OsPage = 0
        /\ raw[r] <= addr[r] /\ addr[r] + Size(r) <= raw[r] + rawSize[r]
        /\ moved[r] <= Size(r)

(* Every way of obtaining memory is undone by its own counterpart, and the *)
(* destructor leaves neither memory nor the device's descriptor behind.    *)
ReleasedAsObtained ==
  /\ status # "badfree"
  /\ status = "destroyed" => (\A r \in Region : held[r] = "none") /\ ~fdOpen

=============================================================================
