-------------------------- MODULE RandomizeSequence --------------------------
(***************************************************************************)
(* MemRegion::randomizeSequence_: fill the sequence with the multiples of  *)
(* unit, shuffle it from the back by swapping, and swap 0 back to the      *)
(* front.  The links of a pointer-chasing list are taken from the result,  *)
(* so it decides which lines a benchmark touches.  r is any 64-bit value,  *)
(* so r % (i+1) is any index up to i.  The last loop counts in uint32_t:   *)
(* its index lives modulo Word (2^32 in the program).                      *)
(***************************************************************************)
EXTENDS Integers

CONSTANTS
  MaxSize,   \* bound on size
  Unit,      \* unit, a page or line size
  Word       \* number of values of a uint32_t

ASSUME SequenceAssumption ==
  /\ MaxSize \in Nat
  /\ Unit \in Nat \ {0}
  /\ Word \in Nat \ {0, 1}

VARIABLES
  size,       \* argument size
  in_order,   \* argument in_order
  pc,         \* "fill", "shuffle", "front", "done" or "sigfpe"
  i,          \* index of the current loop
  sequence    \* the vector, all 0 when it is passed in

vars == <<size, in_order, pc, i, sequence>>

Index == 0 .. size - 1

TypeOK ==
  /\ size \in 0 .. MaxSize
  /\ in_order \in BOOLEAN
  /\ pc \in {"fill", "shuffle", "front", "done", "sigfpe"}
  /\ i \in 0 .. size
  /\ sequence \in [Index -> Nat]

Init ==
  /\ size \in 0 .. MaxSize
  /\ in_order \in BOOLEAN
  /\ pc = "fill"
  /\ i = 0
  /\ sequence = [k \in Index |-> 0]

Fill ==
  /\ pc = "fill"
  /\ i < size
  /\ sequence' = [sequence EXCEPT ![i] = i * Unit]
  /\ i' = i + 1
  /\ UNCHANGED <<size, in_order, pc>>

(* The sequence is filled; in_order returns here.  For size 0 the shuffle  *)
(* starts at i = 2^64 - 1 and divides by i + 1 = 0.                        *)
Filled ==
  /\ pc = "fill"
  /\ i = size
  /\ IF in_order THEN pc' = "done" /\ i' = i
     ELSE IF size = 0 THEN pc' = "sigfpe" /\ i' = i
     ELSE pc' = "shuffle" /\ i' = size - 1
  /\ UNCHANGED <<size, in_order, sequence>>

Swap(j, k) == [sequence EXCEPT ![j] = sequence[k], ![k] = sequence[j]]

(* Mutant: the temporary is read after it has been overwritten. *)
ShuffleCopy ==
  /\ pc = "shuffle"
  /\ i > 0
  /\ \E j \in 0 .. i : sequence' = [sequence EXCEPT ![j] = sequence[i]]
  /\ i' = i - 1
  /\ UNCHANGED <<size, in_order, pc>>

Shuffle ==
  /\ pc = "shuffle"
  /\ i > 0
  /\ \E j \in 0 .. i : sequence' = Swap(j, i)
  /\ i' = i - 1
  /\ UNCHANGED <<size, in_order, pc>>

Shuffled ==
  /\ pc = "shuffle"
  /\ i = 0
  /\ pc' = "front"
  /\ i' = 1
  /\ UNCHANGED <<size, in_order, sequence>>

(* Start should still be start. *)
FrontFound ==
  /\ pc = "front"
  /\ i < size
  /\ sequence[i] = 0
  /\ sequence' = [sequence EXCEPT ![i] = sequence[0], ![0] = 0]
  /\ pc' = "done"
  /\ UNCHANGED <<size, in_order, i>>

(* Mutant: the search stops one element early. *)
FrontSearchShort ==
  /\ pc = "front"
  /\ i < size
  /\ sequence[i] # 0
  /\ IF i + 2 < size THEN i' = (i + 1) % Word /\ pc' = pc ELSE i' = i /\ pc' = "done"
  /\ UNCHANGED <<size, in_order, sequence>>

(* Mutant: the index is of a narrower type. *)
FrontSearchNarrow ==
  /\ pc = "front"
  /\ i < size
  /\ sequence[i] # 0
  /\ i' = (i + 1) % (Word - 1)
  /\ UNCHANGED <<size, in_order, pc, sequence>>

FrontSearch ==
  /\ pc = "front"
  /\ i < size
  /\ sequence[i] # 0
  /\ i' = (i + 1) % Word
  /\ UNCHANGED <<size, in_order, pc, sequence>>

FrontEnd ==
  /\ pc = "front"
  /\ i >= size
  /\ pc' = "done"
  /\ UNCHANGED <<size, in_order, i, sequence>>

Returned == pc \in {"done", "sigfpe"} /\ UNCHANGED vars

Step == Fill \/ Filled \/ Shuffle \/ Shuffled \/ FrontFound \/ FrontSearch \/ FrontEnd

Next == Step \/ Returned

Spec == Init /\ [][Next]_vars

-----------------------------------------------------------------------------

(* The result names every line once: a permutation of the multiples of     *)
(* Unit.  A list built from it skips no line and enters none twice.        *)
Permutation ==
  pc \in {"shuffle", "front", "done"} =>
    /\ \A j, k \in Index : j # k => sequence[j] # sequence[k]
    /\ \A j \in Index : \E k \in Index : sequence[j] = k * Unit
    /\ \A k \in Index : \E j \in Index : sequence[j] = k * Unit

(* "Start should still be start": the chase begins at getStartPoint(),     *)
(* offset 0, which has to be the first element.                            *)
StartFirst == pc = "done" /\ size > 0 => sequence[0] = 0

=============================================================================
