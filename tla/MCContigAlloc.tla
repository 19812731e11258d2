---------------------------- MODULE MCContigAlloc ----------------------------
(* Pools of four pages in any order over four of five frames, with an      *)
(* aligned group of three, with an unaligned one and with none, and a pool *)
(* of six pages with two groups.                                           *)
EXTENDS ContigAlloc

AllFrames == 3 .. 8

AllLayouts ==
  {f \in [0 .. 3 -> 3 .. 7] :
     /\ \A v, w \in 0 .. 3 : v # w => f[v] # f[w]
     /\ {f[v] : v \in 0 .. 3} \in {{3, 4, 5, 7}, {4, 5, 6, 7}, {3, 4, 6, 7}}}
  \cup {[v \in 0 .. 5 |-> 8 - v]}

=============================================================================
