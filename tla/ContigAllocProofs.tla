-------------------------- MODULE ContigAllocProofs --------------------------
(***************************************************************************)
(* Proofs about RandomizeSequence, for every size, unit, word width and    *)
(* every outcome of rand(), and about the programs of ContigAlloc around   *)
(* it, for every pool of pages, group size and number of moves.  A swap    *)
(* keeps a permutation a permutation; the search keeps 0 out of the        *)
(* elements it has passed.  A lookup that nothing disturbed names frames   *)
(* that rise strictly along the sorted pool, so that the first and the     *)
(* last page of a chunk leave no choice for those between them.            *)
(***************************************************************************)
EXTENDS ContigAlloc, FiniteSetTheorems, TLAPS

(* The elements already filled. *)
FillInv == pc = "fill" => \A k \in 0 .. i - 1 : sequence[k] = k * Unit

(* The elements behind the front that have been searched. *)
FrontInv == pc = "front" => size > 0 /\ \A k \in 1 .. i - 1 : sequence[k] # 0

(* The shuffle runs on a sequence that is not empty, below its end. *)
ShuffleInv == pc = "shuffle" => i < size

IInv == TypeOK /\ FillInv /\ ShuffleInv /\ FrontInv /\ Permutation /\ StartFirst

(* The statement of Permutation for any function. *)
IsPermutation(f, n) ==
  /\ \A j, k \in 0 .. n - 1 : j # k => f[j] # f[k]
  /\ \A j \in 0 .. n - 1 : \E k \in 0 .. n - 1 : f[j] = k * Unit
  /\ \A k \in 0 .. n - 1 : \E j \in 0 .. n - 1 : f[j] = k * Unit

-----------------------------------------------------------------------------

(* Multiples of the unit differ when their factors do. *)
LEMMA UnitInjective ==
  ASSUME NEW a \in Nat, NEW b \in Nat, a # b
  PROVE  a * Unit # b * Unit
  BY SequenceAssumption

(* 0 * Unit is the start. *)
LEMMA UnitZero == 0 * Unit = 0
  BY SequenceAssumption

(* Exchanging two elements of a permutation gives a permutation. *)
LEMMA SwapPermutation ==
  ASSUME NEW n \in Nat, NEW f \in [0 .. n - 1 -> Nat], IsPermutation(f, n),
         NEW a \in 0 .. n - 1, NEW b \in 0 .. n - 1
  PROVE  IsPermutation([f EXCEPT ![a] = f[b], ![b] = f[a]], n)
<1> DEFINE D == 0 .. n - 1
           g == [f EXCEPT ![a] = f[b], ![b] = f[a]]
           m(x) == IF x = a THEN b ELSE IF x = b THEN a ELSE x
<1>1. \A x \in D : m(x) \in D /\ g[x] = f[m(x)] /\ m(m(x)) = x
  OBVIOUS
<1>2. /\ \A j, k \in D : j # k => f[j] # f[k]
      /\ \A j \in D : \E k \in D : f[j] = k * Unit
      /\ \A k \in D : \E j \in D : f[j] = k * Unit
  BY DEF IsPermutation
<1> HIDE DEF m, g, D
<1>3. \A j, k \in D : j # k => g[j] # g[k]
  <2> SUFFICES ASSUME NEW j \in D, NEW k \in D, j # k
               PROVE  g[j] # g[k]
    OBVIOUS
  <2>1. m(j) # m(k)
    BY <1>1
  <2>2. f[m(j)] # f[m(k)]
    BY <1>2, <1>1, <2>1
  <2>3. QED
    BY <1>1, <2>2
<1>4. \A j \in D : \E k \in D : g[j] = k * Unit
  <2> SUFFICES ASSUME NEW j \in D
               PROVE  \E k \in D : g[j] = k * Unit
    OBVIOUS
  <2>1. \E k \in D : f[m(j)] = k * Unit
    BY <1>2, <1>1
  <2>2. QED
    BY <1>1, <2>1
<1>5. \A k \in D : \E j \in D : g[j] = k * Unit
  <2> SUFFICES ASSUME NEW k \in D
               PROVE  \E j \in D : g[j] = k * Unit
    OBVIOUS
  <2>1. PICK x \in D : f[x] = k * Unit
    BY <1>2
  <2>2. g[m(x)] = k * Unit
    BY <1>1, <2>1
  <2>3. QED
    BY <1>1, <2>2
<1>6. IsPermutation(g, n)
  BY <1>3, <1>4, <1>5 DEF IsPermutation, D
<1>7. QED
  BY <1>6 DEF g

(* A filled sequence is the identity permutation. *)
LEMMA FilledPermutation ==
  ASSUME NEW n \in Nat, NEW f, \A k \in 0 .. n - 1 : f[k] = k * Unit
  PROVE  IsPermutation(f, n)
<1>1. \A j, k \in 0 .. n - 1 : j # k => f[j] # f[k]
  <2> SUFFICES ASSUME NEW j \in 0 .. n - 1, NEW k \in 0 .. n - 1, j # k
               PROVE  f[j] # f[k]
    OBVIOUS
  <2>1. j * Unit # k * Unit
    BY UnitInjective
  <2>2. QED
    BY <2>1
<1>2. QED
  BY <1>1 DEF IsPermutation

-----------------------------------------------------------------------------

(* The sequence is empty or full of zeros when the function is entered. *)
LEMMA InitIInv == Init => IInv
<1> SUFFICES ASSUME Init
             PROVE  IInv
  OBVIOUS
<1>1. TypeOK
  BY SequenceAssumption DEF Init, TypeOK, Index
<1>2. QED
  BY <1>1 DEF Init, IInv, FillInv, FrontInv, ShuffleInv, Permutation, StartFirst

(* Each loop step keeps the invariant. *)
LEMMA NextIInv == IInv /\ [Next]_vars => IInv'
<1> SUFFICES ASSUME IInv, [Next]_vars
             PROVE  IInv'
  OBVIOUS
<1>1. /\ size \in Nat /\ i \in 0 .. size /\ sequence \in [0 .. size - 1 -> Nat]
      /\ Permutation <=> (pc \in {"shuffle", "front", "done"} => IsPermutation(sequence, size))
  BY DEF IInv, TypeOK, Index, Permutation, IsPermutation
<1>2. CASE Fill
  <2>1. i * Unit \in Nat /\ i \in 0 .. size - 1
    BY <1>1, <1>2, SequenceAssumption DEF Fill
  <2>2. TypeOK'
    BY <1>2, <2>1 DEF Fill, IInv, TypeOK, Index
  <2>3. FillInv'
    <3>1. ASSUME NEW k \in 0 .. i
          PROVE  sequence'[k] = k * Unit
      <4>1. CASE k = i
        BY <1>1, <1>2, <2>1, <4>1 DEF Fill
      <4>2. CASE k # i
        <5>1. k \in 0 .. i - 1
          BY <1>1, <4>2
        <5>2. sequence[k] = k * Unit
          BY <1>2, <5>1 DEF IInv, FillInv, Fill
        <5>3. sequence'[k] = sequence[k]
          BY <1>1, <1>2, <2>1, <4>2, <5>1 DEF Fill
        <5>4. QED
          BY <5>2, <5>3
      <4>3. QED
        BY <4>1, <4>2
    <3>2. i' - 1 = i
      BY <1>1, <1>2 DEF Fill
    <3>3. QED
      BY <3>1, <3>2 DEF FillInv
  <2>4. QED
    BY <1>2, <2>2, <2>3 DEF Fill, IInv, ShuffleInv, FrontInv, Permutation, StartFirst
<1>3. CASE Filled
  <2>1. \A k \in 0 .. size - 1 : sequence[k] = k * Unit
    BY <1>3 DEF Filled, IInv, FillInv
  <2>2. IsPermutation(sequence, size)
    BY <1>1, <2>1, FilledPermutation
  <2>3. Permutation'
    BY <1>3, <2>2 DEF Filled, Permutation, IsPermutation, Index
  <2>4. StartFirst'
    BY <1>1, <1>3, <2>1, UnitZero DEF Filled, StartFirst
  <2>5. TypeOK' /\ ShuffleInv'
    BY <1>1, <1>3 DEF Filled, IInv, TypeOK, Index, ShuffleInv
  <2>6. QED
    BY <1>3, <2>3, <2>4, <2>5 DEF Filled, IInv, FillInv, FrontInv
<1>4. CASE Shuffle
  <2>1. PICK j \in 0 .. i : sequence' = Swap(j, i)
    BY <1>4 DEF Shuffle
  <2>2. j \in 0 .. size - 1 /\ i \in 0 .. size - 1
    BY <1>1, <1>4 DEF Shuffle, IInv, ShuffleInv
  <2>3. IsPermutation(sequence', size)
    BY <1>1, <1>4, <2>1, <2>2, SwapPermutation DEF Swap, Shuffle, IInv
  <2>4. Permutation'
    BY <1>4, <2>3 DEF Shuffle, Permutation, IsPermutation, Index
  <2>5. sequence' \in [0 .. size - 1 -> Nat]
    BY <1>1, <2>1, <2>2 DEF Swap
  <2>6. TypeOK' /\ ShuffleInv'
    BY <1>1, <1>4, <2>2, <2>5 DEF Shuffle, IInv, TypeOK, Index, ShuffleInv
  <2>7. QED
    BY <1>4, <2>4, <2>6 DEF Shuffle, IInv, FillInv, FrontInv, StartFirst
<1>5. CASE Shuffled
  <2>1. size > 0 /\ i' = 1
    BY <1>1, <1>5 DEF Shuffled, IInv, ShuffleInv
  <2>2. TypeOK'
    BY <1>1, <1>5, <2>1 DEF Shuffled, IInv, TypeOK, Index
  <2>3. FrontInv'
    BY <1>5, <2>1 DEF Shuffled, FrontInv
  <2>4. QED
    BY <1>5, <2>2, <2>3 DEF Shuffled, IInv, FillInv, ShuffleInv, Permutation, StartFirst, Index
<1>6. CASE FrontFound
  <2>1. i \in 0 .. size - 1 /\ 0 \in 0 .. size - 1
    BY <1>1, <1>6 DEF FrontFound
  <2>2. sequence' = [sequence EXCEPT ![i] = sequence[0], ![0] = sequence[i]]
    BY <1>6 DEF FrontFound
  <2>3. IsPermutation(sequence', size)
    <3>1. IsPermutation(sequence, size)
      BY <1>1, <1>6 DEF FrontFound, IInv
    <3>2. IsPermutation([sequence EXCEPT ![i] = sequence[0], ![0] = sequence[i]], size)
      BY <1>1, <2>1, <3>1, SwapPermutation
    <3>3. QED
      BY <2>2, <3>2
  <2>4. Permutation'
    <3>1. size' = size
      BY <1>6 DEF FrontFound
    <3>2. QED
      BY <2>3, <3>1 DEF Permutation, IsPermutation, Index
  <2>5. sequence' \in [0 .. size - 1 -> Nat] /\ sequence'[0] = 0
    BY <1>1, <1>6, <2>1 DEF FrontFound
  <2>6. TypeOK' /\ StartFirst'
    BY <1>6, <2>5 DEF FrontFound, IInv, TypeOK, Index, StartFirst
  <2>7. QED
    BY <1>6, <2>4, <2>6 DEF FrontFound, IInv, FillInv, ShuffleInv, FrontInv
<1>7. CASE FrontSearch
  <2>1. i + 1 \in Nat /\ (i + 1) % Word \in 0 .. i + 1
    BY <1>1, SequenceAssumption
  <2>2. TypeOK'
    BY <1>1, <1>7, <2>1 DEF FrontSearch, IInv, TypeOK, Index
  <2>3. \A k \in 1 .. i : sequence[k] # 0
    <3>1. \A k \in 1 .. i : k = i \/ k \in 1 .. i - 1
      BY <1>1
    <3>2. QED
      BY <1>7, <3>1 DEF FrontSearch, IInv, FrontInv
  <2>4. \A k \in 1 .. i' - 1 : k \in 1 .. i
    BY <1>1, <1>7, <2>1 DEF FrontSearch
  <2>5. FrontInv'
    BY <1>7, <2>3, <2>4 DEF FrontSearch, IInv, FrontInv
  <2>6. QED
    BY <1>7, <2>2, <2>5 DEF FrontSearch, IInv, FillInv, ShuffleInv, Permutation, StartFirst, Index
<1>8. CASE FrontEnd
  <2>1. i = size /\ size > 0
    BY <1>1, <1>8 DEF FrontEnd, IInv, FrontInv
  <2>2. IsPermutation(sequence, size)
    BY <1>1, <1>8 DEF FrontEnd, IInv
  <2>3. PICK j \in 0 .. size - 1 : sequence[j] = 0
    <3>1. 0 \in 0 .. size - 1
      BY <1>1, <2>1
    <3>2. QED
      BY <2>2, <3>1, UnitZero DEF IsPermutation
  <2>4. j = 0
    <3>1. j # 0 => j \in 1 .. i - 1
      BY <1>1, <2>1
    <3>2. QED
      BY <1>8, <2>3, <3>1 DEF FrontEnd, IInv, FrontInv
  <2>5. StartFirst'
    BY <1>8, <2>3, <2>4 DEF FrontEnd, StartFirst
  <2>6. QED
    BY <1>8, <2>5 DEF FrontEnd, IInv, TypeOK, FillInv, ShuffleInv, FrontInv, Permutation, Index
<1>9. CASE UNCHANGED vars
  BY <1>9 DEF vars, IInv, TypeOK, FillInv, ShuffleInv, FrontInv, Permutation, StartFirst, Index
<1>10. QED
  BY <1>2, <1>3, <1>4, <1>5, <1>6, <1>7, <1>8, <1>9 DEF Next, Step, Returned

(* The inductive invariant holds in every reachable state. *)
LEMMA Inductive == Spec => []IInv
  BY InitIInv, NextIInv, PTL DEF Spec

-----------------------------------------------------------------------------

(* The indices of all three loops stay within the vector. *)
THEOREM TypeCorrect == Spec => []TypeOK
  BY Inductive, PTL DEF IInv

(* Whatever rand() returns, randomizeSequence_ yields every multiple of    *)
(* the unit exactly once.                                                  *)
THEOREM AlwaysPermutation == Spec => []Permutation
  BY Inductive, PTL DEF IInv

(* Whenever randomizeSequence_ returns, the start is in front, even when   *)
(* the 32-bit search index has wrapped around on the way.                  *)
THEOREM StartInFront == Spec => []StartFirst
  BY Inductive, PTL DEF IInv


-----------------------------------------------------------------------------
(* The programs around the shuffle *)

(* The pages of the pool are numbered from 0. *)
PageInv ==
  /\ Cardinality(Page) \in Nat /\ Page = 0 .. Cardinality(Page) - 1
  /\ where \in [Page -> {"ram", "swap"} \X Nat]

(* Which program is at which stage, and the descriptors it has open. *)
StageInv ==
  /\ stage \in {"read", "sort", "pick", "picked"} => program = "contiguous_mem_alloc"
  /\ stage \in {"lookup", "pread"} => program = "virt_to_phys_user"
  /\ fds \in {0, 1} /\ idx \in Nat
  /\ stage \in {"open", "lookup"} => fds = 0
  /\ stage = "pread" => fds = 1 /\ idx \in Page
  /\ stage \in {"open", "read", "sort"} => idx = 0 \/ program # "contiguous_mem_alloc"

(* An undisturbed lookup of contiguous_mem_alloc finds every page in a     *)
(* frame of its own.                                                       *)
MapInv ==
  /\ exact \in BOOLEAN /\ privileged \in BOOLEAN
  /\ exact => privileged
  /\ program = "contiguous_mem_alloc" /\ (stage = "open" \/ exact) =>
       /\ \A v \in Page : where[v][1] = "ram"
       /\ \A v, w \in Page : v # w => where[v][2] # where[w][2]

(* What has been read so far agrees with the page map. *)
BufInv ==
  /\ buf \in Seq(Nat)
  /\ stage \in {"open", "lookup"} => buf = << >>
  /\ stage = "read" => Len(buf) <= Cardinality(Page)
  /\ stage = "sort" => Len(buf) = Cardinality(Page)
  /\ stage \in {"read", "sort"} /\ exact => \A j \in 1 .. Len(buf) : buf[j] = where[j - 1][2]
  /\ stage = "pread" =>
       /\ Len(buf) <= 2
       /\ exact => \A h \in 1 .. Len(buf) : buf[h] = Half(where[idx][2], h)

PageInfo == [vaddr : Page, paddr : Nat]

(* The frames rise strictly along the sorted pool. *)
PoolInv ==
  stage \in {"pick", "picked"} =>
    /\ pool \in Seq(PageInfo)
    /\ exact =>
         /\ \A j \in 1 .. Len(pool) : where[pool[j].vaddr] = <<"ram", pool[j].paddr>>
         /\ \A j, k \in 1 .. Len(pool) : j < k => pool[j].paddr < pool[k].paddr

(* The place in page_picks of the first page of the group of place j. *)
FirstOf(j) == j - ((j - 1) % GroupSize)

(* The groups picked lie below the rest of the pool. *)
PickInv ==
  /\ stage \in {"open", "read", "sort"} => picks = << >>
  /\ stage \in {"pick", "picked"} =>
       /\ picks \in Seq(PageInfo)
       /\ Len(picks) % GroupSize = 0
       /\ Len(picks) <= NumPages
       /\ stage = "pick" => Len(picks) < NumPages
       /\ exact => \A j \in 1 .. Len(picks) :
            /\ picks[FirstOf(j)].paddr % GroupSize = 0
            /\ where[picks[j].vaddr] = <<"ram", picks[FirstOf(j)].paddr + (j - FirstOf(j))>>
            /\ \A k \in idx + 1 .. Len(pool) : picks[FirstOf(j)].paddr < pool[k].paddr
       /\ exact => \A j, k \in 1 .. Len(picks) : j # k => picks[j].vaddr # picks[k].vaddr

(* Every line printed after an undisturbed lookup shows what was there. *)
ShownInv ==
  /\ shown \in Seq([vaddr : Nat, paddr : Nat, exact : BOOLEAN, was : {"ram", "swap"} \X Nat])
  /\ \A j \in 1 .. Len(shown) : shown[j].exact => shown[j].paddr = shown[j].was[2]

ContigInv ==
  /\ PageInv /\ StageInv /\ MapInv /\ BufInv /\ PoolInv /\ PickInv /\ ShownInv

-----------------------------------------------------------------------------

(* Where frames rise strictly, so many steps rise by at least so much. *)
LEMMA GapAtLeast ==
  ASSUME NEW a \in Nat, NEW b \in Nat, a <= b, NEW f \in [a .. b -> Nat],
         \A j, k \in a .. b : j < k => f[j] < f[k]
  PROVE  f[b] >= f[a] + (b - a)
<1> DEFINE S == a .. b
           T == f[a] .. f[b]
<1>1. f[a] \in Nat /\ f[b] \in Nat /\ f[a] <= f[b]
  OBVIOUS
<1>2. \A j \in S : f[j] \in T
  <2> SUFFICES ASSUME NEW j \in S
               PROVE  f[j] \in T
    OBVIOUS
  <2>1. a \in a .. b /\ b \in a .. b /\ f[j] \in Nat
    OBVIOUS
  <2>2. a <= j /\ j <= b
    OBVIOUS
  <2>3. f[a] <= f[j]
    BY <1>1, <2>1, <2>2
  <2>4. f[j] <= f[b]
    BY <1>1, <2>1, <2>2
  <2>5. QED
    BY <1>1, <2>1, <2>3, <2>4
<1>3. /\ IsFiniteSet(S) /\ Cardinality(S) = b - a + 1
      /\ IsFiniteSet(T) /\ Cardinality(T) = f[b] - f[a] + 1
  <2>1. IsFiniteSet(a .. b) /\ Cardinality(a .. b) = IF a > b THEN 0 ELSE b - a + 1
    <3>1. a \in Int /\ b \in Int
      OBVIOUS
    <3>2. QED
      BY <3>1, FS_Interval, Zenon
  <2>2. /\ IsFiniteSet(f[a] .. f[b])
        /\ Cardinality(f[a] .. f[b]) = IF f[a] > f[b] THEN 0 ELSE f[b] - f[a] + 1
    <3>1. f[a] \in Int /\ f[b] \in Int
      BY <1>1
    <3>2. QED
      BY <3>1, FS_Interval, Zenon
  <2>3. QED
    BY <1>1, <2>1, <2>2
<1>4. f \in [S -> T]
  BY <1>2
<1>5. ASSUME NEW x \in S, NEW y \in S, x # y
      PROVE  f[x] # f[y]
  <2>1. x < y \/ y < x
    BY <1>5
  <2>2. f[x] \in Nat /\ f[y] \in Nat
    OBVIOUS
  <2>3. QED
    BY <2>1, <2>2
<1> HIDE DEF S, T
<1>6. ASSUME Cardinality(T) < Cardinality(S)
      PROVE  FALSE
  <2>1. \E x, y \in S : x # y /\ f[x] = f[y]
    BY <1>3, <1>4, <1>6, FS_PigeonHole, Zenon
  <2>2. QED
    BY <1>5, <2>1
<1>7. QED
  BY <1>1, <1>3, <1>6

(* A chunk whose ends are as far apart as they can be is complete. *)
LEMMA ChunkFilled ==
  ASSUME NEW a \in Nat, NEW g \in Nat \ {0}, NEW f \in [a + 1 .. a + g -> Nat],
         \A j, k \in a + 1 .. a + g : j < k => f[j] < f[k],
         f[a + g] = f[a + 1] + g - 1
  PROVE  \A m \in 0 .. g - 1 : f[a + 1 + m] = f[a + 1] + m
<1> SUFFICES ASSUME NEW m \in 0 .. g - 1
             PROVE  f[a + 1 + m] = f[a + 1] + m
  OBVIOUS
<1>1. ASSUME NEW c \in a + 1 .. a + g, NEW d \in a + 1 .. a + g, c <= d
      PROVE  f[d] >= f[c] + (d - c)
  <2> DEFINE h == [j \in c .. d |-> f[j]]
  <2>1. \A j \in c .. d : j \in a + 1 .. a + g
    BY <1>1
  <2>2. h \in [c .. d -> Nat]
    BY <2>1
  <2>3. \A j, k \in c .. d : j < k => h[j] < h[k]
    BY <2>1
  <2>4. c \in Nat /\ d \in Nat
    OBVIOUS
  <2>5. h[c] = f[c] /\ h[d] = f[d]
    BY <1>1
  <2> HIDE DEF h
  <2>6. h[d] >= h[c] + (d - c)
    BY <1>1, <2>2, <2>3, <2>4, GapAtLeast, Zenon
  <2>7. QED
    BY <2>5, <2>6
<1>2. a + 1 \in a + 1 .. a + g /\ a + g \in a + 1 .. a + g /\ a + 1 + m \in a + 1 .. a + g
  OBVIOUS
<1>3. f[a + 1 + m] >= f[a + 1] + m
  BY <1>1, <1>2
<1>4. f[a + g] >= f[a + 1 + m] + (g - 1 - m)
  BY <1>1, <1>2
<1>5. f[a + 1 + m] \in Nat /\ f[a + 1] \in Nat
  BY <1>2
<1>6. m \in Nat /\ f[a + g] = f[a + 1] + g - 1
  OBVIOUS
<1>7. QED
  BY <1>3, <1>4, <1>5, <1>6

(* A group taken out of the pool. *)
LEMMA GroupTaken ==
  ASSUME NEW S, NEW s \in Seq(S), NEW a \in Nat, NEW g \in Nat, a + g <= Len(s)
  PROVE  /\ SubSeq(s, a + 1, a + g) \in Seq(S)
         /\ Len(SubSeq(s, a + 1, a + g)) = g
         /\ \A j \in 1 .. g : SubSeq(s, a + 1, a + g)[j] = s[a + j]
<1>1. \A j \in a + 1 .. a + g : j \in 1 .. Len(s)
  OBVIOUS
<1>2. SubSeq(s, a + 1, a + g) \in Seq(S)
  BY <1>1
<1>3. Len(SubSeq(s, a + 1, a + g)) = g
  OBVIOUS
<1>4. ASSUME NEW j \in 1 .. g
      PROVE  SubSeq(s, a + 1, a + g)[j] = s[a + j]
  <2>1. SubSeq(s, a + 1, a + g)[j] = s[a + 1 + j - 1]
    OBVIOUS
  <2>2. a + 1 + j - 1 = a + j
    OBVIOUS
  <2>3. QED
    BY <2>1, <2>2
<1>5. QED
  BY <1>2, <1>3, <1>4

(* An element of the pool is a page with its frame. *)
LEMMA ElementOf ==
  ASSUME NEW s \in Seq(PageInfo), NEW j \in 1 .. Len(s)
  PROVE  s[j] \in PageInfo /\ s[j].paddr \in Nat
<1>1. s[j] \in PageInfo
  OBVIOUS
<1>2. QED
  BY <1>1 DEF PageInfo

(* A reordering of the pages repeats none. *)
LEMMA ReorderingInjective ==
  ASSUME NEW S, NEW s \in Bijection(S, S)
  PROVE  /\ s \in [S -> S]
         /\ \A v, w \in S : v # w => s[v] # s[w]
<1>1. s \in Injection(S, S)
  BY DEF Bijection
<1>2. QED
  BY <1>1 DEF Injection, IsInjective

(* Two halves make a whole. *)
LEMMA HalvesMakeWhole ==
  ASSUME NEW n \in Nat
  PROVE  /\ Half(n, 1) \in Nat /\ Half(n, 2) \in Nat
         /\ 4 * Half(n, 1) + Half(n, 2) = n
  BY DEF Half


-----------------------------------------------------------------------------

(* The initial state of each program satisfies the invariant. *)
LEMMA InitContigInv == ContigInit => ContigInv
<1> SUFFICES ASSUME ContigInit
             PROVE  ContigInv
  OBVIOUS
<1>1. PageInv
  <2>1. CASE where = << >>
    <3>1. Page = {}
      BY <2>1 DEF Page
    <3>2. Cardinality(Page) = 0
      BY <3>1, FS_EmptySet
    <3>3. 0 .. 0 - 1 = {}
      OBVIOUS
    <3>4. where \in [Page -> {"ram", "swap"} \X Nat]
      BY <2>1, <3>1
    <3>5. QED
      BY <3>1, <3>2, <3>3, <3>4 DEF PageInv
  <2>2. ASSUME NEW layout \in Layouts, where = [v \in DOMAIN layout |-> <<"ram", layout[v]>>]
        PROVE  PageInv
    <3>1. Page = DOMAIN layout
      BY <2>2 DEF Page
    <3>2. IsFiniteSet(DOMAIN layout) /\ layout \in [0 .. Cardinality(DOMAIN layout) - 1 -> Frames]
      BY ContigAssumption
    <3>3. Cardinality(DOMAIN layout) \in Nat
      BY <3>2, FS_CardinalityType
    <3>4. DOMAIN layout = 0 .. Cardinality(DOMAIN layout) - 1
      BY <3>2
    <3>5. ASSUME NEW v \in DOMAIN layout
          PROVE  where[v] \in {"ram", "swap"} \X Nat
      <4>1. layout[v] \in Frames
        BY <3>2, <3>4
      <4>2. layout[v] \in Nat
        BY <4>1, ContigAssumption
      <4>3. QED
        BY <2>2, <4>2
    <3>6. where \in [Page -> {"ram", "swap"} \X Nat]
      BY <2>2, <3>1, <3>5
    <3>7. QED
      BY <3>1, <3>3, <3>4, <3>6 DEF PageInv
  <2>3. QED
    BY <2>1, <2>2 DEF ContigInit
<1>2. MapInv
  <2>1. exact = FALSE /\ privileged \in BOOLEAN
    BY DEF ContigInit
  <2>2. ASSUME program = "contiguous_mem_alloc"
        PROVE  /\ \A v \in Page : where[v][1] = "ram"
               /\ \A v, w \in Page : v # w => where[v][2] # where[w][2]
    <3>1. PICK layout \in Layouts : where = [v \in DOMAIN layout |-> <<"ram", layout[v]>>]
      BY <2>2 DEF ContigInit
    <3>2. \A v, w \in DOMAIN layout : v # w => layout[v] # layout[w]
      BY ContigAssumption
    <3>3. Page = DOMAIN layout
      BY <3>1 DEF Page
    <3>4. QED
      BY <3>1, <3>2, <3>3
  <2>3. QED
    BY <2>1, <2>2 DEF MapInv
<1>3. stage \in {"list", "open"}
  BY DEF ContigInit
<1>4. StageInv
  BY <1>3 DEF ContigInit, StageInv
<1>5. BufInv
  BY <1>3 DEF ContigInit, BufInv
<1>6. PoolInv /\ PickInv
  BY <1>3 DEF ContigInit, PoolInv, PickInv
<1>7. ShownInv
  BY DEF ContigInit, ShownInv
<1>8. QED
  BY <1>1, <1>2, <1>4, <1>5, <1>6, <1>7 DEF ContigInv

(* The shuffle and the end of a program change nothing of it. *)
LEMMA UnchangedInv == ContigInv /\ UNCHANGED contigVars => ContigInv'
<1> SUFFICES ASSUME ContigInv, UNCHANGED contigVars
             PROVE  ContigInv'
  OBVIOUS
<1>1. PageInv' /\ StageInv' /\ MapInv'
  BY DEF ContigInv, contigVars, PageInv, StageInv, MapInv, Page
<1>2. BufInv'
  BY DEF ContigInv, contigVars, BufInv, Page
<1>3. PoolInv'
  BY DEF ContigInv, contigVars, PoolInv, PageInfo, Page
<1>4. PickInv'
  BY DEF ContigInv, contigVars, PickInv, PageInfo, Page
<1>5. ShownInv'
  BY DEF ContigInv, contigVars, ShownInv
<1>6. QED
  BY <1>1, <1>2, <1>3, <1>4, <1>5 DEF ContigInv

(* A page that moves ends every promise about the lookup under way. *)
LEMMA MovePageInv == ContigInv /\ MovePage => ContigInv'
<1> SUFFICES ASSUME ContigInv, MovePage
             PROVE  ContigInv'
  OBVIOUS
<1>1. PICK v \in Page, to \in ({"ram"} \X Frames) \cup ({"swap"} \X Slots) :
         where' = [where EXCEPT ![v] = to]
  BY DEF MovePage
<1>2. to \in {"ram", "swap"} \X Nat
  BY ContigAssumption
<1>3. /\ exact' = FALSE
      /\ stage \in {"read", "sort", "pick", "lookup", "pread"}
      /\ UNCHANGED <<program, stage, privileged, fds, buf, idx, pool, picks, shown>>
  BY DEF MovePage
<1>4. PageInv /\ StageInv /\ MapInv /\ BufInv /\ PoolInv /\ PickInv /\ ShownInv
  BY DEF ContigInv
<1>5. Page' = Page
  BY <1>1 DEF Page
<1>6. PageInv'
  <2>1. where' \in [Page -> {"ram", "swap"} \X Nat]
    BY <1>1, <1>2, <1>4 DEF PageInv
  <2>2. QED
    BY <1>4, <1>5, <2>1 DEF PageInv
<1>7. StageInv'
  BY <1>3, <1>4, <1>5 DEF StageInv
<1>8. MapInv'
  BY <1>3, <1>4 DEF MapInv
<1>9. BufInv'
  BY <1>3, <1>4, <1>5 DEF BufInv
<1>10. PoolInv' /\ PickInv'
  BY <1>3, <1>4, <1>5 DEF PoolInv, PickInv, PageInfo
<1>11. ShownInv'
  BY <1>3, <1>4 DEF ShownInv
<1>12. QED
  BY <1>6, <1>7, <1>8, <1>9, <1>10, <1>11 DEF ContigInv

(* A lookup begins with an empty buffer. *)
LEMMA OpenMapInv == ContigInv /\ OpenMap => ContigInv'
<1> SUFFICES ASSUME ContigInv, OpenMap
             PROVE  ContigInv'
  OBVIOUS
<1>1. PageInv /\ StageInv /\ MapInv /\ BufInv /\ PoolInv /\ PickInv /\ ShownInv
  BY DEF ContigInv
<1>2. /\ program = "contiguous_mem_alloc" /\ stage = "open"
      /\ UNCHANGED <<program, privileged, where, buf, idx, pool, picks, shown>>
      /\ \/ stage' = "failed" /\ fds' \in {0, 1} /\ exact' = exact
         \/ stage' = "read" /\ fds' = 1 /\ exact' = privileged
  BY DEF OpenMap
<1>3. Page' = Page
  BY <1>2 DEF Page
<1>4. PageInv'
  BY <1>1, <1>2, <1>3 DEF PageInv
<1>5. StageInv'
  BY <1>1, <1>2, <1>3 DEF StageInv
<1>6. MapInv'
  BY <1>1, <1>2, <1>3 DEF MapInv
<1>7. BufInv'
  BY <1>1, <1>2, <1>3 DEF BufInv, PageInv
<1>8. PoolInv' /\ PickInv'
  BY <1>1, <1>2, <1>3 DEF PoolInv, PickInv
<1>9. ShownInv'
  BY <1>1, <1>2 DEF ShownInv
<1>10. QED
  BY <1>4, <1>5, <1>6, <1>7, <1>8, <1>9 DEF ContigInv

(* The next entry is read. *)
LEMMA ReadEntryInv == ContigInv /\ ReadEntry => ContigInv'
<1> SUFFICES ASSUME ContigInv, ReadEntry
             PROVE  ContigInv'
  OBVIOUS
<1>1. PageInv /\ StageInv /\ MapInv /\ BufInv /\ PoolInv /\ PickInv /\ ShownInv
  BY DEF ContigInv
<1>2. /\ program = "contiguous_mem_alloc" /\ stage = "read" /\ Len(buf) \in Page
      /\ buf' = Append(buf, Entry(Len(buf)))
      /\ UNCHANGED <<program, stage, privileged, where, exact, fds, idx, pool, picks, shown>>
  BY DEF ReadEntry
<1>3. Page' = Page
  BY <1>2 DEF Page
<1>4. where[Len(buf)][2] \in Nat
  BY <1>1, <1>2 DEF PageInv
<1>5. Entry(Len(buf)) \in Nat
  BY <1>4 DEF Entry
<1>6. buf \in Seq(Nat) /\ Len(buf) \in Nat
  BY <1>1 DEF BufInv
<1>7. BufInv'
  <2>1. /\ buf' \in Seq(Nat) /\ Len(buf') = Len(buf) + 1
        /\ buf'[Len(buf) + 1] = Entry(Len(buf))
        /\ \A j \in 1 .. Len(buf) : buf'[j] = buf[j]
    BY <1>2, <1>5, <1>6
  <2>2. Len(buf) + 1 <= Cardinality(Page)
    BY <1>1, <1>2, <1>6 DEF PageInv
  <2>3. ASSUME exact, NEW j \in 1 .. Len(buf')
        PROVE  buf'[j] = where[j - 1][2]
    <3>1. CASE j \in 1 .. Len(buf)
      BY <1>1, <1>2, <2>1, <2>3, <3>1 DEF BufInv
    <3>2. CASE j = Len(buf) + 1
      <4>1. privileged
        BY <1>1, <2>3 DEF MapInv
      <4>2. j - 1 = Len(buf)
        BY <1>6, <3>2
      <4>3. QED
        BY <2>1, <3>2, <4>1, <4>2 DEF Entry
    <3>3. QED
      BY <1>6, <2>1, <3>1, <3>2
  <2>4. QED
    BY <1>2, <1>3, <2>1, <2>2, <2>3 DEF BufInv
<1>8. PageInv' /\ StageInv' /\ MapInv'
  BY <1>1, <1>2, <1>3 DEF PageInv, StageInv, MapInv
<1>9. PoolInv' /\ PickInv'
  BY <1>1, <1>2 DEF PoolInv, PickInv
<1>10. ShownInv'
  BY <1>1, <1>2 DEF ShownInv
<1>11. QED
  BY <1>7, <1>8, <1>9, <1>10 DEF ContigInv

(* After the read the buffer has an entry for every page. *)
LEMMA EndReadInv == ContigInv /\ EndRead => ContigInv'
<1> SUFFICES ASSUME ContigInv, EndRead
             PROVE  ContigInv'
  OBVIOUS
<1>1. PageInv /\ StageInv /\ MapInv /\ BufInv /\ PoolInv /\ PickInv /\ ShownInv
  BY DEF ContigInv
<1>2. /\ program = "contiguous_mem_alloc" /\ stage = "read"
      /\ UNCHANGED <<program, privileged, where, idx, pool, picks, shown>>
  BY DEF EndRead
<1>3. Page' = Page
  BY <1>2 DEF Page
<1>4. buf \in Seq(Nat) /\ Len(buf) \in Nat /\ Cardinality(Page) \in Nat
  BY <1>1 DEF BufInv, PageInv
<1>5. /\ stage' \in {"failed", "sort"} /\ fds' \in {0, 1}
      /\ exact' \in BOOLEAN /\ (exact' => exact)
  <2>1. fds \in {0, 1} /\ exact \in BOOLEAN
    BY <1>1 DEF StageInv, MapInv
  <2>2. stage' \in {"failed", "sort"} /\ fds' \in {0, 1}
    BY <2>1 DEF EndRead
  <2>3. exact' = exact \/ exact' = FALSE
    BY DEF EndRead
  <2>4. exact' \in BOOLEAN /\ (exact' => exact)
    <3>1. CASE exact' = exact
      BY <2>1, <3>1, Zenon
    <3>2. CASE exact' = FALSE
      BY <3>2, Zenon
    <3>3. QED
      BY <2>3, <3>1, <3>2
  <2>5. QED
    BY <2>2, <2>4
<1>6. BufInv'
  <2>1. CASE stage' = "failed" /\ UNCHANGED buf
    BY <1>1, <2>1 DEF BufInv
  <2>2. ASSUME NEW g \in Garbage, stage' = "sort", exact' = FALSE,
               buf' = [j \in 1 .. Cardinality(Page) |-> IF j <= Len(buf) THEN buf[j] ELSE g]
        PROVE  BufInv'
    <3>1. \A j \in 1 .. Cardinality(Page) : buf'[j] \in Nat
      BY <1>4, <2>2, ContigAssumption
    <3>2. buf' \in Seq(Nat) /\ Len(buf') = Cardinality(Page)
      BY <1>4, <2>2, <3>1
    <3>3. QED
      BY <1>3, <2>2, <3>2 DEF BufInv
  <2>3. CASE stage' = "sort" /\ Len(buf) \notin Page /\ UNCHANGED <<buf, exact>>
    <3>1. Len(buf) = Cardinality(Page)
      BY <1>1, <1>2, <1>4, <2>3 DEF BufInv, PageInv
    <3>2. QED
      BY <1>1, <1>2, <1>3, <2>3, <3>1 DEF BufInv
  <2>4. QED
    BY <2>1, <2>2, <2>3 DEF EndRead
<1>7. PageInv' /\ StageInv'
  BY <1>1, <1>2, <1>3, <1>5 DEF PageInv, StageInv
<1>8. MapInv'
  BY <1>1, <1>2, <1>3, <1>5 DEF MapInv
<1>9. PoolInv' /\ PickInv'
  BY <1>1, <1>2, <1>5 DEF PoolInv, PickInv
<1>10. ShownInv'
  BY <1>1, <1>2 DEF ShownInv
<1>11. QED
  BY <1>6, <1>7, <1>8, <1>9, <1>10 DEF ContigInv


-----------------------------------------------------------------------------

(* Multiples of the group size are a group size apart. *)
LEMMA MultiplesApart ==
  ASSUME NEW g \in Nat \ {0}, NEW x \in Nat, NEW y \in Nat, x % g = 0, y % g = 0, x < y
  PROVE  x + g <= y
<1> DEFINE p == x \div g
           q == y \div g
<1>1. p \in Nat /\ q \in Nat /\ x = g * p /\ y = g * q
  OBVIOUS
<1> HIDE DEF p, q
<1>2. p + 1 <= q
  <2>1. SUFFICES ASSUME q <= p
                 PROVE  g * q <= g * p
    BY <1>1
  <2>2. QED
    BY <1>1, <2>1
<1>3. g * (p + 1) <= g * q
  BY <1>1, <1>2
<1>4. g * (p + 1) = g * p + g
  BY <1>1
<1>5. QED
  BY <1>1, <1>3, <1>4

(* Behind whole groups a place counts from their end. *)
LEMMA BehindGroups ==
  ASSUME NEW g \in Nat \ {0}, NEW x \in Nat, x % g = 0, NEW m \in 0 .. g - 1
  PROVE  (x + m) % g = m /\ (x + g) % g = 0
<1> DEFINE p == x \div g
<1>1. p \in Nat /\ x = g * p
  OBVIOUS
<1> HIDE DEF p
<1>2. (g * p + m) % g = m
  BY <1>1
<1>3. g * p + g = g * (p + 1)
  BY <1>1
<1>4. (g * (p + 1)) % g = 0
  BY <1>1
<1>5. QED
  BY <1>1, <1>2, <1>3, <1>4

(* A group begins at or before each of its places, less than a group away. *)
LEMMA FirstOfRange ==
  ASSUME NEW j \in Nat \ {0}
  PROVE  FirstOf(j) \in 1 .. j /\ j - FirstOf(j) \in 0 .. GroupSize - 1
<1>1. GroupSize \in Nat \ {0}
  BY ContigAssumption
<1>2. (j - 1) % GroupSize \in 0 .. GroupSize - 1 /\ (j - 1) % GroupSize <= j - 1
  BY <1>1
<1>3. QED
  BY <1>1, <1>2 DEF FirstOf

(* The group that is appended begins behind the others. *)
LEMMA FirstOfNew ==
  ASSUME NEW n \in Nat, n % GroupSize = 0, NEW m \in 0 .. GroupSize - 1
  PROVE  FirstOf(n + 1 + m) = n + 1
<1>1. GroupSize \in Nat \ {0}
  BY ContigAssumption
<1>2. (n + m) % GroupSize = m /\ (n + GroupSize) % GroupSize = 0
  BY <1>1, BehindGroups, Zenon
<1>3. n + 1 + m - 1 = n + m /\ m \in Nat
  BY <1>1
<1>4. QED
  BY <1>2, <1>3 DEF FirstOf

-----------------------------------------------------------------------------

(* The sorted pool of an undisturbed lookup rises strictly. *)
LEMMA SortInv == ContigInv /\ Sort => ContigInv'
<1> SUFFICES ASSUME ContigInv, Sort
             PROVE  ContigInv'
  OBVIOUS
<1>1. PageInv /\ StageInv /\ MapInv /\ BufInv /\ PoolInv /\ PickInv /\ ShownInv
  BY DEF ContigInv
<1>2. /\ stage = "sort" /\ stage' = "pick" /\ buf' = << >>
      /\ UNCHANGED <<program, privileged, where, exact, fds, idx, picks, shown>>
  BY DEF Sort
<1>3. Page' = Page
  BY <1>2 DEF Page
<1>4. program = "contiguous_mem_alloc" /\ idx = 0 /\ picks = << >>
  BY <1>1, <1>2 DEF StageInv, PickInv
<1>5. PICK n \in Nat : n = Len(buf)
  BY <1>1 DEF BufInv
<1>6. Page = 0 .. n - 1 /\ buf \in Seq(Nat)
  BY <1>1, <1>2, <1>5 DEF PageInv, BufInv
<1>7. PICK s \in Orders :
         /\ DOMAIN s = Page
         /\ \A j, k \in Page : j < k => buf[s[j] + 1] <= buf[s[k] + 1]
         /\ pool' = [j \in 1 .. n |-> [vaddr |-> s[j - 1], paddr |-> buf[s[j - 1] + 1]]]
  BY <1>5 DEF Sort
<1>8. s \in [Page -> Page] /\ \A v, w \in Page : v # w => s[v] # s[w]
  <2>1. PICK layout \in Layouts : s \in Bijection(DOMAIN layout, DOMAIN layout)
    BY DEF Orders
  <2>2. /\ s \in [DOMAIN layout -> DOMAIN layout]
        /\ \A v, w \in DOMAIN layout : v # w => s[v] # s[w]
    BY <2>1, ReorderingInjective, Zenon
  <2>3. DOMAIN layout = Page
    BY <1>7, <2>2
  <2>4. QED
    BY <2>2, <2>3
<1>9. ASSUME NEW j \in 1 .. n
      PROVE  /\ j - 1 \in Page /\ s[j - 1] \in Page
             /\ s[j - 1] + 1 \in 1 .. n /\ buf[s[j - 1] + 1] \in Nat
             /\ pool'[j].vaddr = s[j - 1] /\ pool'[j].paddr = buf[s[j - 1] + 1]
             /\ pool'[j] \in PageInfo
  <2>1. j - 1 \in Page
    BY <1>6
  <2>2. s[j - 1] \in Page
    BY <1>8, <2>1
  <2>3. s[j - 1] + 1 \in 1 .. n
    BY <1>6, <2>2
  <2>4. buf[s[j - 1] + 1] \in Nat
    BY <1>5, <1>6, <2>3
  <2>5. pool'[j] = [vaddr |-> s[j - 1], paddr |-> buf[s[j - 1] + 1]]
    BY <1>7
  <2>6. QED
    BY <2>1, <2>2, <2>3, <2>4, <2>5 DEF PageInfo
<1>10. pool' \in Seq(PageInfo) /\ Len(pool') = n
  <2>1. pool' \in [1 .. n -> PageInfo]
    BY <1>7, <1>9
  <2>2. QED
    BY <1>7, <2>1
<1>11. ASSUME exact
       PROVE  /\ \A j \in 1 .. n : where[pool'[j].vaddr] = <<"ram", pool'[j].paddr>>
              /\ \A j, k \in 1 .. n : j < k => pool'[j].paddr < pool'[k].paddr
  <2>1. ASSUME NEW v \in Page
        PROVE  where[v] = <<"ram", buf[v + 1]>>
    <3>1. where[v] \in {"ram", "swap"} \X Nat
      BY <1>1 DEF PageInv
    <3>2. where[v][1] = "ram"
      BY <1>1, <1>4, <1>11 DEF MapInv
    <3>3. v + 1 \in 1 .. n /\ (v + 1) - 1 = v
      BY <1>6
    <3>4. buf[v + 1] = where[(v + 1) - 1][2]
      BY <1>1, <1>2, <1>5, <1>11, <3>3 DEF BufInv
    <3>5. QED
      BY <3>1, <3>2, <3>3, <3>4
  <2>2. ASSUME NEW v \in Page, NEW w \in Page, v # w
        PROVE  buf[v + 1] # buf[w + 1]
    <3>1. where[v][2] # where[w][2]
      BY <1>1, <1>4, <1>11, <2>2 DEF MapInv
    <3>2. QED
      BY <2>1, <3>1
  <2>3. \A j \in 1 .. n : where[pool'[j].vaddr] = <<"ram", pool'[j].paddr>>
    BY <1>9, <2>1
  <2>4. ASSUME NEW j \in 1 .. n, NEW k \in 1 .. n, j < k
        PROVE  pool'[j].paddr < pool'[k].paddr
    <3>1. j - 1 \in Page /\ k - 1 \in Page /\ j - 1 < k - 1
      <4>1. j - 1 \in Page /\ k - 1 \in Page
        BY <1>9
      <4>2. j - 1 < k - 1
        BY <2>4
      <4>3. QED
        BY <4>1, <4>2
    <3>2. buf[s[j - 1] + 1] <= buf[s[k - 1] + 1]
      BY <1>7, <3>1
    <3>3. s[j - 1] # s[k - 1]
      <4>1. j - 1 # k - 1
        BY <2>4
      <4>2. QED
        BY <1>8, <3>1, <4>1, Zenon
    <3>4. buf[s[j - 1] + 1] # buf[s[k - 1] + 1]
      BY <1>9, <2>2, <3>3
    <3>5. buf[s[j - 1] + 1] \in Nat /\ buf[s[k - 1] + 1] \in Nat
      BY <1>9
    <3>6. pool'[j].paddr = buf[s[j - 1] + 1] /\ pool'[k].paddr = buf[s[k - 1] + 1]
      BY <1>9
    <3>7. QED
      BY <3>2, <3>4, <3>5, <3>6
  <2>5. QED
    BY <2>3, <2>4
<1>12. PoolInv'
  <2>1. PageInfo' = PageInfo
    BY <1>3 DEF PageInfo
  <2>2. QED
    BY <1>2, <1>10, <1>11, <2>1 DEF PoolInv
<1>13. PickInv'
  <2>1. 0 % GroupSize = 0 /\ 0 < NumPages /\ 0 <= NumPages
    BY ContigAssumption
  <2>2. picks' = << >>
    BY <1>2, <1>4
  <2>3. Len(picks') = 0 /\ picks' \in Seq(PageInfo') /\ 1 .. 0 = {}
    BY <2>2
  <2>4. \A j \in 1 .. Len(picks') : FALSE
    BY <2>3
  <2>5. Len(picks') % GroupSize = 0 /\ Len(picks') < NumPages /\ Len(picks') <= NumPages
    BY <2>1, <2>3
  <2>6. QED
    BY <2>2, <2>3, <2>4, <2>5, Zenon DEF PickInv
<1>14. PageInv' /\ StageInv' /\ MapInv'
  BY <1>1, <1>2, <1>3, <1>4 DEF PageInv, StageInv, MapInv
<1>15. BufInv'
  BY <1>2 DEF BufInv
<1>16. ShownInv'
  BY <1>1, <1>2 DEF ShownInv
<1>17. QED
  BY <1>12, <1>13, <1>14, <1>15, <1>16 DEF ContigInv


(* A group found is complete, and lies above the groups picked before. *)
LEMMA PickGroupInv == ContigInv /\ PickGroup => ContigInv'
<1> SUFFICES ASSUME ContigInv, PickGroup
             PROVE  ContigInv'
  OBVIOUS
<1>1. PageInv /\ StageInv /\ MapInv /\ BufInv /\ PoolInv /\ PickInv /\ ShownInv
  BY DEF ContigInv
<1>2. /\ stage = "pick" /\ idx + GroupSize - 1 < Len(pool) /\ idx' = idx + 1
      /\ stage' \in {"pick", "picked"}
      /\ UNCHANGED <<program, privileged, where, exact, fds, buf, pool, shown>>
  BY DEF PickGroup
<1>3. Page' = Page
  BY <1>2 DEF Page
<1>4. PageInfo' = PageInfo
  BY <1>3 DEF PageInfo
<1>5. GroupSize \in Nat \ {0} /\ NumPages \in Nat /\ NumPages % GroupSize = 0
  BY ContigAssumption
<1>6. /\ pool \in Seq(PageInfo) /\ picks \in Seq(PageInfo) /\ idx \in Nat
      /\ Len(picks) % GroupSize = 0 /\ Len(picks) < NumPages
  BY <1>1, <1>2 DEF PoolInv, PickInv, StageInv
<1>7. PICK n \in Nat : n = Len(pool)
  BY <1>6
<1>8. PICK m \in Nat : m = Len(picks)
  BY <1>6
<1>9. \A j \in 1 .. n : pool[j] \in PageInfo /\ pool[j].paddr \in Nat
  BY <1>6, <1>7, ElementOf
<1>10. \A j \in 1 .. m : picks[j] \in PageInfo /\ picks[j].paddr \in Nat
  BY <1>6, <1>8, ElementOf
<1>11. PickInv'
  <2>1. CASE ~IsGroup
    <3>1. picks' = picks /\ stage' = "pick"
      BY <2>1 DEF PickGroup
    <3>2. \A k \in idx' + 1 .. Len(pool') : k \in idx + 1 .. Len(pool)
      BY <1>2, <1>6, <1>7
    <3>3. ASSUME exact, NEW j \in 1 .. Len(picks)
          PROVE  /\ picks[FirstOf(j)].paddr % GroupSize = 0
                 /\ where[picks[j].vaddr] = <<"ram", picks[FirstOf(j)].paddr + (j - FirstOf(j))>>
                 /\ \A k \in idx' + 1 .. Len(pool') : picks[FirstOf(j)].paddr < pool[k].paddr
      BY <1>1, <1>2, <3>2, <3>3 DEF PickInv
    <3>4. exact => \A j, k \in 1 .. Len(picks) : j # k => picks[j].vaddr # picks[k].vaddr
      BY <1>1, <1>2 DEF PickInv
    <3>5. m % GroupSize = 0 /\ m < NumPages /\ m <= NumPages
      BY <1>5, <1>6, <1>8
    <3>6. QED
      BY <1>2, <1>4, <1>6, <1>8, <3>1, <3>3, <3>4, <3>5, Zenon DEF PickInv, FirstOf
  <2>2. CASE IsGroup
    <3>1. picks' = picks \o SubSeq(pool, idx + 1, idx + GroupSize)
      BY <2>2 DEF PickGroup
    <3>2. PICK f \in Nat : f = pool[idx + 1].paddr
      BY <1>2, <1>5, <1>6, <1>7, <1>9
    <3>3. f % GroupSize = 0 /\ pool[idx + GroupSize].paddr = f + GroupSize - 1
      BY <2>2, <3>2 DEF IsGroup, first, last
    <3>4. idx + GroupSize <= n /\ \A d \in 0 .. GroupSize - 1 : idx + 1 + d \in 1 .. n
      BY <1>2, <1>5, <1>6, <1>7
    <3>5. /\ picks' \in Seq(PageInfo) /\ Len(picks') = m + GroupSize
          /\ \A j \in 1 .. m : picks'[j] = picks[j]
          /\ \A d \in 0 .. GroupSize - 1 : picks'[m + 1 + d] = pool[idx + 1 + d]
      <4> DEFINE t == SubSeq(pool, idx + 1, idx + GroupSize)
      <4>1. /\ t \in Seq(PageInfo) /\ Len(t) = GroupSize
            /\ \A j \in 1 .. GroupSize : t[j] = pool[idx + j]
        <5>1. GroupSize \in Nat /\ idx + GroupSize <= Len(pool)
          BY <1>5, <1>7, <3>4
        <5>2. /\ SubSeq(pool, idx + 1, idx + GroupSize) \in Seq(PageInfo)
              /\ Len(SubSeq(pool, idx + 1, idx + GroupSize)) = GroupSize
              /\ \A j \in 1 .. GroupSize : SubSeq(pool, idx + 1, idx + GroupSize)[j] = pool[idx + j]
          BY <1>6, <5>1, GroupTaken
        <5>3. QED
          BY <5>2
      <4> HIDE DEF t
      <4>2. picks' = picks \o t
        BY <3>1 DEF t
      <4>3. /\ picks' \in Seq(PageInfo) /\ Len(picks') = Len(picks) + Len(t)
            /\ \A j \in 1 .. Len(picks) : picks'[j] = picks[j]
            /\ \A j \in 1 .. Len(t) : picks'[Len(picks) + j] = t[j]
        <5>1. picks \in Seq(PageInfo) /\ t \in Seq(PageInfo)
          BY <1>6, <4>1
        <5>2. picks \o t \in Seq(PageInfo) /\ Len(picks \o t) = Len(picks) + Len(t)
          BY <5>1
        <5>3. \A j \in 1 .. Len(picks) : (picks \o t)[j] = picks[j]
          BY <5>1
        <5>4. \A j \in 1 .. Len(t) : (picks \o t)[Len(picks) + j] = t[j]
          BY <5>1
        <5>5. QED
          BY <4>2, <5>2, <5>3, <5>4
      <4>4. picks' \in Seq(PageInfo) /\ Len(picks') = m + GroupSize
        BY <1>8, <4>3, <4>1
      <4>5. \A j \in 1 .. m : picks'[j] = picks[j]
        BY <1>8, <4>3
      <4>6. ASSUME NEW d \in 0 .. GroupSize - 1
            PROVE  picks'[m + 1 + d] = pool[idx + 1 + d]
        <5>1. 1 + d \in 1 .. GroupSize
          BY <1>5
        <5>2. picks'[m + (1 + d)] = t[1 + d]
          BY <1>8, <4>3, <4>1, <5>1
        <5>3. t[1 + d] = pool[idx + (1 + d)]
          BY <4>1, <5>1
        <5>4. m + (1 + d) = m + 1 + d /\ idx + (1 + d) = idx + 1 + d
          BY <1>5, <1>6
        <5>5. QED
          BY <5>2, <5>3, <5>4
      <4>7. QED
        BY <4>4, <4>5, <4>6
    <3>6. \A j \in 1 .. m + GroupSize : j \in 1 .. m \/ \E d \in 0 .. GroupSize - 1 : j = m + 1 + d
      <4> SUFFICES ASSUME NEW j \in 1 .. m + GroupSize, j \notin 1 .. m
                   PROVE  \E d \in 0 .. GroupSize - 1 : j = m + 1 + d
        OBVIOUS
      <4>1. j - m - 1 \in 0 .. GroupSize - 1 /\ j = m + 1 + (j - m - 1)
        BY <1>5
      <4>2. QED
        BY <4>1
    <3>7. m % GroupSize = 0 /\ m + GroupSize <= NumPages /\ (m + GroupSize) % GroupSize = 0
      <4>1. m % GroupSize = 0 /\ m < NumPages
        BY <1>6, <1>8
      <4>2. m + GroupSize <= NumPages
        BY <1>5, <4>1, MultiplesApart, Zenon
      <4>3. 0 \in 0 .. GroupSize - 1
        BY <1>5
      <4>4. (m + 0) % GroupSize = 0 /\ (m + GroupSize) % GroupSize = 0
        BY <1>5, <4>1, <4>3, BehindGroups, Zenon
      <4>5. QED
        BY <4>1, <4>2, <4>4
    <3>8. stage' = "pick" => m + GroupSize < NumPages
      <4>1. stage' = "pick" => ~(m + GroupSize >= NumPages)
        BY <2>2, <3>5 DEF PickGroup
      <4>2. QED
        BY <1>5, <4>1
    <3>9. ASSUME NEW j \in 1 .. m
          PROVE  FirstOf(j) \in 1 .. m /\ j - FirstOf(j) \in 0 .. GroupSize - 1
      <4>1. j \in Nat \ {0}
        OBVIOUS
      <4>2. FirstOf(j) \in 1 .. j /\ j - FirstOf(j) \in 0 .. GroupSize - 1
        BY <4>1, FirstOfRange, Zenon
      <4>3. QED
        BY <4>2
    <3>10. \A d \in 0 .. GroupSize - 1 : FirstOf(m + 1 + d) = m + 1
      BY <3>7, FirstOfNew, Zenon
    <3>11. picks'[m + 1] = pool[idx + 1]
      <4>1. 0 \in 0 .. GroupSize - 1 /\ m + 1 + 0 = m + 1 /\ idx + 1 + 0 = idx + 1
        BY <1>5, <1>6
      <4>2. QED
        BY <3>5, <4>1
    <3>12. ASSUME exact
           PROVE  /\ \A j \in 1 .. m + GroupSize :
                       /\ picks'[FirstOf(j)].paddr % GroupSize = 0
                       /\ where[picks'[j].vaddr] = <<"ram", picks'[FirstOf(j)].paddr + (j - FirstOf(j))>>
                       /\ \A k \in idx + 2 .. n : picks'[FirstOf(j)].paddr < pool[k].paddr
                  /\ \A j, k \in 1 .. m + GroupSize : j # k => picks'[j].vaddr # picks'[k].vaddr
      <4>1. /\ \A j \in 1 .. n : where[pool[j].vaddr] = <<"ram", pool[j].paddr>>
            /\ \A j, k \in 1 .. n : j < k => pool[j].paddr < pool[k].paddr
        BY <1>1, <1>2, <1>7, <3>12 DEF PoolInv
      <4>2. /\ \A j \in 1 .. m :
                 /\ picks[FirstOf(j)].paddr % GroupSize = 0
                 /\ where[picks[j].vaddr] = <<"ram", picks[FirstOf(j)].paddr + (j - FirstOf(j))>>
                 /\ \A k \in idx + 1 .. n : picks[FirstOf(j)].paddr < pool[k].paddr
            /\ \A j, k \in 1 .. m : j # k => picks[j].vaddr # picks[k].vaddr
        BY <1>1, <1>2, <1>7, <1>8, <3>12 DEF PickInv
      <4>3. ASSUME NEW d \in 0 .. GroupSize - 1
            PROVE  pool[idx + 1 + d].paddr = f + d
        <5> DEFINE D == idx + 1 .. idx + GroupSize
                   h == [j \in D |-> pool[j].paddr]
        <5>1. \A j \in D : j \in 1 .. n
          BY <1>5, <1>6, <3>4
        <5>2. h \in [D -> Nat]
          BY <1>9, <5>1
        <5>3. \A j, k \in D : j < k => h[j] < h[k]
          BY <4>1, <5>1
        <5>4. idx + 1 \in D /\ idx + GroupSize \in D /\ idx + 1 + d \in D
          BY <1>5, <1>6
        <5>5. h[idx + 1] = f /\ h[idx + GroupSize] = f + GroupSize - 1
          BY <3>2, <3>3, <5>4
        <5>6. h[idx + 1 + d] = pool[idx + 1 + d].paddr
          BY <5>4
        <5> HIDE DEF h
        <5>7. h[idx + GroupSize] = h[idx + 1] + GroupSize - 1
          BY <5>5
        <5>8. \A e \in 0 .. GroupSize - 1 : h[idx + 1 + e] = h[idx + 1] + e
          BY <1>5, <1>6, <5>2, <5>3, <5>7, ChunkFilled, Zenon
        <5>9. QED
          BY <5>5, <5>6, <5>8
      <4>4. ASSUME NEW j \in 1 .. m
            PROVE  /\ picks'[j] = picks[j] /\ picks'[FirstOf(j)] = picks[FirstOf(j)]
                   /\ picks[FirstOf(j)].paddr \in Nat
                   /\ picks[FirstOf(j)].paddr + (j - FirstOf(j)) < f
        <5>1. picks'[j] = picks[j] /\ picks'[FirstOf(j)] = picks[FirstOf(j)]
          BY <3>5, <3>9
        <5>2. PICK a \in Nat : a = picks[FirstOf(j)].paddr
          BY <1>10, <3>9
        <5>3. idx + 1 \in idx + 1 .. n
          BY <1>5, <1>6, <3>4
        <5>4. a % GroupSize = 0 /\ a < f
          BY <3>2, <4>2, <5>2, <5>3
        <5>5. a + GroupSize <= f
          BY <1>5, <3>3, <5>4, MultiplesApart, Zenon
        <5>6. j - FirstOf(j) \in 0 .. GroupSize - 1
          BY <3>9
        <5>7. a + (j - FirstOf(j)) < f
          BY <1>5, <5>5, <5>6
        <5>8. QED
          BY <5>1, <5>2, <5>7
      <4>5. ASSUME NEW j \in 1 .. m
            PROVE  /\ picks'[FirstOf(j)].paddr % GroupSize = 0
                   /\ where[picks'[j].vaddr] = <<"ram", picks'[FirstOf(j)].paddr + (j - FirstOf(j))>>
                   /\ \A k \in idx + 2 .. n : picks'[FirstOf(j)].paddr < pool[k].paddr
        <5>1. \A k \in idx + 2 .. n : k \in idx + 1 .. n
          BY <1>6
        <5>2. QED
          BY <4>2, <4>4, <5>1
      <4>6. ASSUME NEW d \in 0 .. GroupSize - 1
            PROVE  /\ picks'[FirstOf(m + 1 + d)].paddr = f
                   /\ where[picks'[m + 1 + d].vaddr] = <<"ram", f + d>>
                   /\ (m + 1 + d) - FirstOf(m + 1 + d) = d
        <5>1. picks'[FirstOf(m + 1 + d)].paddr = f
          BY <3>2, <3>10, <3>11
        <5>2. where[pool[idx + 1 + d].vaddr] = <<"ram", pool[idx + 1 + d].paddr>>
          BY <3>4, <4>1
        <5>3. where[picks'[m + 1 + d].vaddr] = <<"ram", f + d>>
          BY <3>5, <4>3, <5>2
        <5>4. (m + 1 + d) - FirstOf(m + 1 + d) = d
          BY <3>10
        <5>5. QED
          BY <5>1, <5>3, <5>4
      <4>7. \A k \in idx + 2 .. n : f < pool[k].paddr
        <5>1. \A k \in idx + 2 .. n : k \in 1 .. n /\ idx + 1 \in 1 .. n /\ idx + 1 < k
          BY <1>6
        <5>2. QED
          BY <3>2, <4>1, <5>1
      <4>8. ASSUME NEW j \in 1 .. m + GroupSize
            PROVE  /\ picks'[FirstOf(j)].paddr % GroupSize = 0
                   /\ where[picks'[j].vaddr] = <<"ram", picks'[FirstOf(j)].paddr + (j - FirstOf(j))>>
                   /\ \A k \in idx + 2 .. n : picks'[FirstOf(j)].paddr < pool[k].paddr
        <5>1. CASE j \in 1 .. m
          BY <4>5, <5>1
        <5>2. ASSUME NEW d \in 0 .. GroupSize - 1, j = m + 1 + d
              PROVE  /\ picks'[FirstOf(j)].paddr % GroupSize = 0
                     /\ where[picks'[j].vaddr] = <<"ram", picks'[FirstOf(j)].paddr + (j - FirstOf(j))>>
                     /\ \A k \in idx + 2 .. n : picks'[FirstOf(j)].paddr < pool[k].paddr
          BY <3>3, <4>6, <4>7, <5>2
        <5>3. QED
          BY <3>6, <5>1, <5>2
      <4>9. ASSUME NEW j \in 1 .. m + GroupSize, NEW k \in 1 .. m + GroupSize, j < k
            PROVE  picks'[j].vaddr # picks'[k].vaddr
        <5>1. CASE k \in 1 .. m
          <6>1. j \in 1 .. m /\ j # k
            BY <4>9, <5>1
          <6>2. QED
            BY <3>5, <4>2, <5>1, <6>1
        <5>2. ASSUME NEW e \in 0 .. GroupSize - 1, k = m + 1 + e
              PROVE  picks'[j].vaddr # picks'[k].vaddr
          <6>1. where[picks'[k].vaddr] = <<"ram", f + e>>
            BY <4>6, <5>2
          <6>2. CASE j \in 1 .. m
            <7>1. PICK b \in Int : b = picks[FirstOf(j)].paddr + (j - FirstOf(j))
              BY <3>9, <4>4, <6>2
            <7>2. where[picks'[j].vaddr] = <<"ram", b>> /\ b < f
              BY <4>2, <4>4, <6>2, <7>1
            <7>3. b # f + e
              BY <1>5, <7>2
            <7>4. QED
              BY <6>1, <7>2, <7>3
          <6>3. ASSUME NEW d \in 0 .. GroupSize - 1, j = m + 1 + d
                PROVE  picks'[j].vaddr # picks'[k].vaddr
            <7>1. where[picks'[j].vaddr] = <<"ram", f + d>>
              BY <4>6, <6>3
            <7>2. f + d # f + e
              BY <1>5, <4>9, <5>2, <6>3
            <7>3. QED
              BY <6>1, <7>1, <7>2
          <6>4. QED
            BY <3>6, <6>2, <6>3
        <5>3. QED
          BY <3>6, <5>1, <5>2
      <4>10. ASSUME NEW j \in 1 .. m + GroupSize, NEW k \in 1 .. m + GroupSize, j # k
             PROVE  picks'[j].vaddr # picks'[k].vaddr
        <5>1. j < k \/ k < j
          BY <1>5, <4>10
        <5>2. QED
          BY <4>9, <5>1
      <4>11. QED
        BY <4>8, <4>10
    <3>13. idx' + 1 = idx + 2 /\ Len(pool') = n /\ pool' = pool /\ where' = where
      BY <1>2, <1>6, <1>7
    <3>14. QED
      BY <1>2, <1>4, <3>5, <3>7, <3>8, <3>12, <3>13, Zenon DEF PickInv, FirstOf
  <2>3. QED
    BY <2>1, <2>2
<1>12. PageInv' /\ StageInv' /\ MapInv'
  BY <1>1, <1>2, <1>3, <1>6 DEF PageInv, StageInv, MapInv
<1>13. BufInv' /\ PoolInv'
  BY <1>1, <1>2, <1>4 DEF BufInv, PoolInv
<1>14. ShownInv'
  BY <1>1, <1>2 DEF ShownInv
<1>15. QED
  BY <1>11, <1>12, <1>13, <1>14 DEF ContigInv


(* Nothing of the pool is used behind the groups. *)
LEMMA EndPickInv == ContigInv /\ EndPick => ContigInv'
<1> SUFFICES ASSUME ContigInv, EndPick
             PROVE  ContigInv'
  OBVIOUS
<1>1. PageInv /\ StageInv /\ MapInv /\ BufInv /\ ShownInv
  BY DEF ContigInv
<1>2. /\ stage' = "list" /\ idx' = 0 /\ exact' = FALSE
      /\ where' = [v \in Page |-> <<"ram", 0>>]
      /\ UNCHANGED <<program, privileged, fds, buf, shown>>
  BY DEF EndPick
<1>3. Page' = Page
  BY <1>2 DEF Page
<1>4. PageInv'
  <2>1. <<"ram", 0>> \in {"ram", "swap"} \X Nat
    OBVIOUS
  <2>2. where' \in [Page -> {"ram", "swap"} \X Nat]
    BY <1>2, <2>1
  <2>3. QED
    BY <1>1, <1>3, <2>2 DEF PageInv
<1>5. StageInv'
  BY <1>1, <1>2 DEF StageInv
<1>6. MapInv'
  BY <1>1, <1>2 DEF MapInv
<1>7. BufInv'
  BY <1>1, <1>2 DEF BufInv
<1>8. PoolInv' /\ PickInv'
  BY <1>2 DEF PoolInv, PickInv
<1>9. ShownInv'
  BY <1>1, <1>2 DEF ShownInv
<1>10. QED
  BY <1>4, <1>5, <1>6, <1>7, <1>8, <1>9 DEF ContigInv

(* The benchmark ends the program. *)
LEMMA BenchmarkInv == ContigInv /\ Benchmark => ContigInv'
<1> SUFFICES ASSUME ContigInv, Benchmark
             PROVE  ContigInv'
  OBVIOUS
<1>1. PageInv /\ StageInv /\ MapInv /\ BufInv /\ ShownInv
  BY DEF ContigInv
<1>2. /\ stage = "list" /\ stage' \in {"assert", "returned"}
      /\ UNCHANGED <<program, privileged, where, exact, fds, buf, idx, shown>>
  BY DEF Benchmark
<1>3. Page' = Page
  BY <1>2 DEF Page
<1>4. PageInv' /\ StageInv'
  BY <1>1, <1>2, <1>3 DEF PageInv, StageInv
<1>5. MapInv'
  BY <1>1, <1>2, <1>3 DEF MapInv
<1>6. BufInv'
  BY <1>1, <1>2 DEF BufInv
<1>7. PoolInv' /\ PickInv'
  BY <1>2 DEF PoolInv, PickInv
<1>8. ShownInv'
  BY <1>1, <1>2 DEF ShownInv
<1>9. QED
  BY <1>4, <1>5, <1>6, <1>7, <1>8 DEF ContigInv

(* A lookup of a page begins with an empty buffer. *)
LEMMA LookupPageInv == ContigInv /\ LookupPage => ContigInv'
<1> SUFFICES ASSUME ContigInv, LookupPage
             PROVE  ContigInv'
  OBVIOUS
<1>1. PageInv /\ StageInv /\ MapInv /\ BufInv /\ ShownInv
  BY DEF ContigInv
<1>2. /\ program = "virt_to_phys_user" /\ stage \in {"open", "lookup"}
      /\ UNCHANGED <<program, privileged, where, buf, idx, shown>>
  BY DEF LookupPage
<1>3. \/ stage' \in {"returned", "failed"} /\ fds' = fds /\ exact' = exact
      \/ stage' = "pread" /\ idx \in Page /\ fds' = fds + 1 /\ exact' = privileged
  BY DEF LookupPage
<1>4. Page' = Page /\ fds = 0 /\ buf = << >>
  BY <1>1, <1>2 DEF Page, StageInv, BufInv
<1>5. PageInv' /\ StageInv'
  BY <1>1, <1>2, <1>3, <1>4 DEF PageInv, StageInv
<1>6. MapInv'
  BY <1>1, <1>2, <1>3 DEF MapInv
<1>7. BufInv'
  BY <1>2, <1>3, <1>4 DEF BufInv
<1>8. PoolInv' /\ PickInv'
  BY <1>3 DEF PoolInv, PickInv
<1>9. ShownInv'
  BY <1>1, <1>2 DEF ShownInv
<1>10. QED
  BY <1>5, <1>6, <1>7, <1>8, <1>9 DEF ContigInv

(* Each read goes on where the last one ended. *)
LEMMA PreadInv == ContigInv /\ Pread => ContigInv'
<1> SUFFICES ASSUME ContigInv, Pread
             PROVE  ContigInv'
  OBVIOUS
<1>1. PageInv /\ StageInv /\ MapInv /\ BufInv /\ ShownInv
  BY DEF ContigInv
<1>2. /\ stage = "pread" /\ Len(buf) < 2
      /\ UNCHANGED <<program, privileged, where, exact, fds, idx, shown>>
  BY DEF Pread
<1>3. Page' = Page /\ stage' \in {"pread", "failed"}
  BY <1>2 DEF Page, Pread
<1>4. buf \in Seq(Nat) /\ Len(buf) \in Nat /\ idx \in Page
  BY <1>1, <1>2 DEF BufInv, StageInv
<1>5. PICK n \in Nat : n = Entry(idx)
  <2>1. where[idx][2] \in Nat
    BY <1>1, <1>4 DEF PageInv
  <2>2. Entry(idx) \in Nat
    BY <2>1 DEF Entry
  <2>3. QED
    BY <2>2
<1>6. exact => n = where[idx][2]
  BY <1>1, <1>5 DEF MapInv, Entry
<1>7. BufInv'
  <2>1. CASE stage' = "failed" /\ UNCHANGED buf
    BY <1>1, <2>1 DEF BufInv
  <2>2. ASSUME NEW ret \in 1 .. 2 - Len(buf), stage' = "pread",
               buf' = buf \o [h \in 1 .. ret |-> Half(n, Len(buf) + h)]
        PROVE  BufInv'
    <3> DEFINE t == [h \in 1 .. ret |-> Half(n, Len(buf) + h)]
    <3>1. \A h \in 1 .. ret : Half(n, Len(buf) + h) \in Nat
      BY DEF Half
    <3>2. t \in Seq(Nat) /\ Len(t) = ret /\ \A h \in 1 .. ret : t[h] = Half(n, Len(buf) + h)
      BY <1>4, <3>1
    <3> HIDE DEF t
    <3>3. buf' = buf \o t
      BY <2>2 DEF t
    <3>4. buf' \in Seq(Nat) /\ Len(buf') = Len(buf) + ret
      BY <1>4, <3>2, <3>3
    <3>5. \A h \in 1 .. Len(buf) : buf'[h] = buf[h]
      BY <1>4, <3>2, <3>3
    <3>6. \A h \in 1 .. ret : buf'[Len(buf) + h] = t[h]
      BY <1>4, <3>2, <3>3
    <3>7. Len(buf') <= 2
      BY <1>4, <3>4
    <3>8. ASSUME exact, NEW h \in 1 .. Len(buf')
          PROVE  buf'[h] = Half(where[idx][2], h)
      <4>1. CASE h \in 1 .. Len(buf)
        BY <1>1, <1>2, <3>5, <3>8, <4>1 DEF BufInv
      <4>2. CASE h \notin 1 .. Len(buf)
        <5>1. h - Len(buf) \in 1 .. ret /\ Len(buf) + (h - Len(buf)) = h
          BY <1>4, <3>4, <4>2
        <5>2. buf'[Len(buf) + (h - Len(buf))] = Half(n, Len(buf) + (h - Len(buf)))
          BY <3>2, <3>6, <5>1
        <5>3. buf'[h] = Half(n, h)
          BY <5>1, <5>2
        <5>4. QED
          BY <1>6, <3>8, <5>3
      <4>3. QED
        BY <4>1, <4>2
    <3>9. QED
      BY <1>2, <2>2, <3>4, <3>7, <3>8 DEF BufInv
  <2>3. QED
    BY <1>2, <1>5, <2>1, <2>2 DEF Pread
<1>8. PageInv' /\ StageInv'
  BY <1>1, <1>2, <1>3 DEF PageInv, StageInv
<1>9. MapInv'
  BY <1>1, <1>2, <1>3 DEF MapInv
<1>10. PoolInv' /\ PickInv'
  BY <1>3 DEF PoolInv, PickInv
<1>11. ShownInv'
  BY <1>1, <1>2 DEF ShownInv
<1>12. QED
  BY <1>7, <1>8, <1>9, <1>10, <1>11 DEF ContigInv

(* The line printed is what the halves add up to. *)
LEMMA ShowInv == ContigInv /\ Show => ContigInv'
<1> SUFFICES ASSUME ContigInv, Show
             PROVE  ContigInv'
  OBVIOUS
<1>1. PageInv /\ StageInv /\ MapInv /\ BufInv /\ ShownInv
  BY DEF ContigInv
<1>2. /\ stage = "pread" /\ Len(buf) = 2 /\ stage' = "lookup" /\ buf' = << >>
      /\ fds' = fds - 1 /\ idx' = idx + 1
      /\ UNCHANGED <<program, privileged, where, exact>>
  BY DEF Show
<1>3. Page' = Page
  BY <1>2 DEF Page
<1>4. /\ buf[1] \in Nat /\ buf[2] \in Nat /\ idx \in Page /\ idx \in Nat /\ fds = 1
      /\ where[idx] \in {"ram", "swap"} \X Nat
  <2>1. buf \in Seq(Nat) /\ Len(buf) = 2
    BY <1>1, <1>2 DEF BufInv
  <2>2. buf[1] \in Nat /\ buf[2] \in Nat
    BY <2>1
  <2>3. idx \in Page /\ idx \in Nat /\ fds = 1
    BY <1>1, <1>2 DEF StageInv
  <2>4. where[idx] \in {"ram", "swap"} \X Nat
    BY <1>1, <2>3 DEF PageInv
  <2>5. QED
    BY <2>2, <2>3, <2>4
<1>5. ASSUME exact
      PROVE  4 * buf[1] + buf[2] = where[idx][2]
  <2>1. PICK n \in Nat : n = where[idx][2]
    BY <1>4
  <2>2. \A h \in 1 .. 2 : buf[h] = Half(where[idx][2], h)
    BY <1>1, <1>2, <1>5 DEF BufInv
  <2>3. buf[1] = Half(n, 1) /\ buf[2] = Half(n, 2)
    BY <2>1, <2>2
  <2>4. 4 * Half(n, 1) + Half(n, 2) = n
    BY HalvesMakeWhole
  <2>5. QED
    BY <2>1, <2>3, <2>4
<1>6. ShownInv'
  <2> DEFINE line == [vaddr |-> idx, paddr |-> 4 * buf[1] + buf[2], exact |-> exact, was |-> where[idx]]
             Line == [vaddr : Nat, paddr : Nat, exact : BOOLEAN, was : {"ram", "swap"} \X Nat]
  <2>1. shown' = Append(shown, line)
    BY DEF Show
  <2>2. line \in Line
    <3>1. exact \in BOOLEAN
      BY <1>1 DEF MapInv
    <3>2. 4 * buf[1] + buf[2] \in Nat
      BY <1>4
    <3>3. QED
      BY <1>4, <3>1, <3>2, Zenon
  <2>3. line.exact => line.paddr = line.was[2]
    BY <1>5
  <2>4. shown \in Seq(Line) /\ \A j \in 1 .. Len(shown) : shown[j].exact => shown[j].paddr = shown[j].was[2]
    BY <1>1 DEF ShownInv
  <2> HIDE DEF line, Line
  <2>5. shown' \in Seq(Line) /\ Len(shown') = Len(shown) + 1 /\ Len(shown) \in Nat
    BY <2>1, <2>2, <2>4
  <2>6. shown'[Len(shown) + 1] = line /\ \A j \in 1 .. Len(shown) : shown'[j] = shown[j]
    BY <2>1, <2>2, <2>4
  <2>7. \A j \in 1 .. Len(shown') : j \in 1 .. Len(shown) \/ j = Len(shown) + 1
    BY <2>5
  <2>8. ASSUME NEW j \in 1 .. Len(shown'), shown'[j].exact
        PROVE  shown'[j].paddr = shown'[j].was[2]
    BY <2>3, <2>4, <2>6, <2>7, <2>8, Zenon
  <2>9. QED
    BY <2>5, <2>8 DEF ShownInv, Line
<1>7. PageInv'
  BY <1>1, <1>2, <1>3 DEF PageInv
<1>8. StageInv'
  BY <1>1, <1>2, <1>4 DEF StageInv
<1>9. MapInv'
  BY <1>1, <1>2, <1>3 DEF StageInv, MapInv
<1>10. BufInv'
  BY <1>2 DEF BufInv
<1>11. PoolInv' /\ PickInv'
  BY <1>2 DEF PoolInv, PickInv
<1>12. QED
  BY <1>6, <1>7, <1>8, <1>9, <1>10, <1>11 DEF ContigInv

-----------------------------------------------------------------------------

(* The inductive invariants hold whenever one of the programs runs. *)
LEMMA ContigInductive == ContigSpec => [](IInv /\ ContigInv)
<1>1. ContigInit => IInv /\ ContigInv
  BY InitIInv, InitContigInv DEF ContigInit
<1>2. ASSUME IInv, [ContigNext]_allVars
      PROVE  IInv'
  <2>1. CASE Randomize
    <3>1. [Next]_vars
      BY <2>1 DEF Randomize, Next
    <3>2. QED
      BY <1>2, <3>1, NextIInv
  <2>2. CASE ~Randomize
    <3>1. UNCHANGED vars
      <4>1. CASE Work
        BY <2>2, <4>1 DEF Work, OpenMap, ReadEntry, EndRead, Sort, PickGroup, EndPick,
                          Benchmark, LookupPage, Pread, Show
      <4>2. CASE MovePage
        BY <4>2 DEF MovePage
      <4>3. CASE Finished \/ UNCHANGED allVars
        BY <4>3 DEF Finished, allVars
      <4>4. QED
        BY <1>2, <4>1, <4>2, <4>3 DEF ContigNext
    <3>2. QED
      BY <1>2, <3>1, NextIInv
  <2>3. QED
    BY <2>1, <2>2
<1>3. ASSUME ContigInv, [ContigNext]_allVars
      PROVE  ContigInv'
  <2>1. CASE Work
    <3>1. CASE OpenMap \/ ReadEntry \/ EndRead
      BY <1>3, <3>1, OpenMapInv, ReadEntryInv, EndReadInv
    <3>2. CASE Sort \/ PickGroup \/ EndPick
      BY <1>3, <3>2, SortInv, PickGroupInv, EndPickInv
    <3>3. CASE Randomize
      BY <1>3, <3>3, UnchangedInv DEF Randomize
    <3>4. CASE Benchmark
      BY <1>3, <3>4, BenchmarkInv
    <3>5. CASE LookupPage \/ Pread \/ Show
      BY <1>3, <3>5, LookupPageInv, PreadInv, ShowInv
    <3>6. QED
      BY <2>1, <3>1, <3>2, <3>3, <3>4, <3>5 DEF Work
  <2>2. CASE MovePage
    BY <1>3, <2>2, MovePageInv
  <2>3. CASE Finished \/ UNCHANGED allVars
    BY <1>3, <2>3, UnchangedInv DEF Finished, allVars
  <2>4. QED
    BY <1>3, <2>1, <2>2, <2>3 DEF ContigNext
<1>4. QED
  BY <1>1, <1>2, <1>3, PTL DEF ContigSpec

(* In each of the programs too the list names every line once, from the    *)
(* first one on.                                                           *)
THEOREM ListsInPrograms == ContigSpec => [](Permutation /\ StartFirst)
  BY ContigInductive, PTL DEF IInv

(* page_picks is never overrun, and the pages contiguous_mem_alloc has     *)
(* picked after an undisturbed lookup form aligned groups of frames that   *)
(* follow each other, no page in two of them.                              *)
THEOREM GroupsAreContiguous == ContigSpec => []GroupsContiguous
<1>1. ContigInv => GroupsContiguous
  <2> SUFFICES ASSUME ContigInv, stage \in {"pick", "picked"}
               PROVE  /\ Len(picks) <= NumPages /\ Len(picks) % GroupSize = 0
                      /\ exact =>
                           /\ \A j, k \in 1 .. Len(picks) : j # k => picks[j].vaddr # picks[k].vaddr
                           /\ \A j \in 1 .. Len(picks) :
                                /\ picks[FirstOf(j)].paddr % GroupSize = 0
                                /\ where[picks[j].vaddr] =
                                     <<"ram", picks[FirstOf(j)].paddr + (j - FirstOf(j))>>
    BY DEF GroupsContiguous, FirstOf
  <2>1. QED
    BY DEF ContigInv, PickInv
<1>2. QED
  BY <1>1, ContigInductive, PTL

(* virt_to_phys_user prints the frame of a page that stayed where it was   *)
(* during the lookup, however its reads are cut, and leaves at most one    *)
(* descriptor open.                                                        *)
THEOREM LookupsExact == ContigSpec => []LookupExact
<1>1. ContigInv => LookupExact
  BY DEF ContigInv, StageInv, ShownInv, LookupExact
<1>2. QED
  BY <1>1, ContigInductive, PTL

=============================================================================
