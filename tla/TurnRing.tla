------------------------------ MODULE TurnRing ------------------------------
(***************************************************************************)
(* What the coherence benchmark promises of its threads, without mutexes,  *)
(* condition variables or a main program: every partition of the memory    *)
(* circulates from thread to thread in the order 0, 1, ..., NumThreads-1,  *)
(* 0, ..., every thread goes through the partitions in ascending order,    *)
(* and each thread gets each partition exactly Quota times.                *)
(* multiple_rdwr is shown to implement this in module RdwrFlow.            *)
(***************************************************************************)
EXTENDS Integers

CONSTANTS NumThreads, NumPartitions, Quota

Threads == 0 .. NumThreads - 1
Partitions == 0 .. NumPartitions - 1

VARIABLES
  turn,     \* turn[p]: the thread that owns partition p next
  visits    \* visits[t][p]: how often thread t has had partition p

vars == <<turn, visits>>

Init ==
  /\ turn = [p \in Partitions |-> 0]
  /\ visits = [t \in Threads |-> [p \in Partitions |-> 0]]

(* Thread t is done with the partitions before p in its current round and  *)
(* has not reached the ones behind p.                                      *)
InProgramOrder(t, p) ==
  \A q \in Partitions :
    visits[t][q] = IF q < p THEN visits[t][p] + 1 ELSE visits[t][p]

Visit(t, p) ==
  /\ turn[p] = t
  /\ visits[t][p] < Quota
  /\ InProgramOrder(t, p)
  /\ visits' = [visits EXCEPT ![t][p] = @ + 1]
  /\ turn' = [turn EXCEPT ![p] = (t + 1) % NumThreads]

Next == \E t \in Threads, p \in Partitions : Visit(t, p)

Spec == Init /\ [][Next]_vars

-----------------------------------------------------------------------------
(* What the rotation guarantees *)

(* No thread runs away: two threads are at most one visit apart on the     *)
(* same partition, and at most two on different ones, however the visits   *)
(* to the partitions interleave.  The bound on how far the iterations of   *)
(* multiple_rdwr's threads overlap while they are being timed.             *)
SkewBound ==
  \A t, u \in Threads, p, q \in Partitions :
    visits[t][p] - visits[u][q] <= IF p = q THEN 1 ELSE 2

=============================================================================
