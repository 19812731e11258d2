------------------------------- MODULE MCLatBw -------------------------------
(* Command lines for LatBw, with a pointer of two bytes, a KB of two words *)
(* and an OS page of two KB.  Clients chase lists of up to seven lines,    *)
(* with a second region behind, in front of or in the middle of a page,    *)
(* with sizes that do not divide each other, strides below and between     *)
(* whole pointers, and lines that hold only a pointer (two to six bytes),  *)
(* or have room for a payload or just not (eight to twelve).               *)
EXTENDS LatBw

RegionArgs(sizes, sizes2, actives, pages, lines, types, huge) ==
  [size : sizes, size2 : sizes2, active_size : actives, page_size : pages,
   line_size : lines, mem_type : types, use_hugepage : huge]

MemTypes == {"NATIVE", "REMOTE1", "REMOTE2", "DEVICE"}

(* Whole pointers, and strides of any number of bytes. *)
ChaseRegions ==
  RegionArgs({8, 12}, {0, 2, 6, 12}, {0, 2, 6, 8, 12, 14}, {2, 4, 6, 8}, {2, 4, 6}, {"NATIVE"}, {TRUE})
  \cup RegionArgs({8, 9}, {0, 3, 4}, {5, 8, 9}, {3, 4, 8}, {1, 2, 3, 5}, {"NATIVE"}, {TRUE})

(* Lines around the five words that a chase with a payload uses. *)
PayloadRegions ==
  RegionArgs({50}, {0, 20}, {50}, {10, 50}, {10}, {"NATIVE"}, {TRUE})
  \cup RegionArgs({40}, {0, 14, 18, 20, 40}, {10, 20, 24, 36, 40, 50}, {10, 12, 20, 24, 40}, {8, 10, 11, 12},
               {"NATIVE"}, {TRUE})

ClientRegions ==
  {r \in ChaseRegions \cup PayloadRegions :
     r.size2 <= r.size /\ r.active_size \div r.line_size <= 7 /\ r.page_size \div r.line_size <= 7}

(* Lists of lat_mem_rd in native memory, and one list in any memory. *)
LatRegions ==
  RegionArgs({8, 12}, {0, 4, 8}, {0, 8, 12}, {4, 8}, {2, 4, 6}, {"NATIVE"}, {TRUE})
  \cup RegionArgs({0, 4, 8, 12}, {0, 4, 8, 12, 16}, {8}, {8}, {4}, MemTypes, BOOLEAN)

BwRegions ==
  RegionArgs({0, 4, 8, 16}, {0, 4, 8}, {0, 4, 8, 16}, {8}, {4}, {"REMOTE1", "DEVICE"}, {FALSE})

Commands(prog, actions, regions, migrations) ==
  [prog : {prog}, action : actions, region : regions,
   warmup_iteration : {0, 1}, main_iteration : {0, 2}, migrate : migrations]

AllRuns ==
  {r \in Commands("client", {"none"}, ClientRegions, {FALSE}) :
     r.warmup_iteration = 0 /\ r.main_iteration = 0}
  \cup Commands("lat_mem_rd", {"none"}, LatRegions, BOOLEAN)
  \cup Commands("bw_mem", {"prd", "pwr", "prmw", "pcp", "fcp"}, BwRegions, {FALSE})

=============================================================================
