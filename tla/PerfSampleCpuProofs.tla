------------------------- MODULE PerfSampleCpuProofs -------------------------
(***************************************************************************)
(* Proofs about PerfSampleCpu for every number of cores, group size, size  *)
(* of the ring buffers, margin and number of records.  The reader finds    *)
(* the next record by the offset it has added up from the sizes of the     *)
(* earlier ones; IInv says that this offset is where the record starts,    *)
(* and that no later record has come around the ring to lie on top of it.  *)
(***************************************************************************)
EXTENDS PerfSampleCpu, TLAPS

Sampling == {"enable", "sleep", "bounds", "loop", "disable"}
Record == [kind : {"sample", "throttle"}, start : Nat]

TypeOK ==
  /\ pc \in {"bind", "main", "unbind", "returned", "assert", "tailassert", "sigfpe", "segv"}
              \cup Sampling
  /\ num_cores \in Nat
  /\ fd_ \in [Core -> BOOLEAN]
  /\ buffer_ \in [Core -> {"null", "mapped", "failed"}]
  /\ event \in [Core -> {"none", "off", "on"}]
  /\ written \in [Core -> Seq(Record)]
  /\ data_tail \in [Core -> Nat]
  /\ visit \in 0 .. Visits
  /\ core \in Nat
  /\ tail \in Nat /\ head \in Nat /\ max_size \in Nat
  /\ sleep \in 0 .. MaxSleep
  /\ seen \in [Core -> Seq(Nat)]

(* Inside main's loop the group lies within the cores, and the loops over  *)
(* cores within the group.                                                 *)
LoopInv ==
  /\ pc = "bind" => core <= num_cores /\ visit = 0
  /\ pc = "unbind" => visit = Visits
  /\ pc \in Sampling => num_cores # 0 /\ num_cores % GroupSize = 0 /\ visit < Visits
  /\ pc \in {"enable", "bounds", "loop", "disable"} => c0 <= core /\ core <= c1
  /\ pc = "loop" => core < c1

(* Which cores have their descriptor and their buffer. *)
BindInv ==
  /\ \A i \in Core : ~fd_[i] => buffer_[i] = "null" /\ event[i] = "none"
  /\ pc # "returned" =>
       \A i \in Core : i < visit * GroupSize => fd_[i] /\ buffer_[i] = "mapped"
  /\ pc = "enable" => \A i \in c0 .. core - 1 : fd_[i]
  /\ pc \in Sampling \ {"enable"} => \A i \in c0 .. c1 - 1 : fd_[i]
  /\ pc \in {"bounds", "loop"} => \A i \in c0 .. core - 1 : buffer_[i] = "mapped"
  /\ pc = "loop" => buffer_[core] = "mapped"
  /\ pc = "disable" => \A i \in c0 .. c1 - 1 : buffer_[i] = "mapped"
  /\ pc = "returned" => \A i \in Core : event[i] = "none" /\ buffer_[i] = "null"

(* Where record n of core i starts and ends. *)
StartOf(i, n) == written[i][n].start
EndOf(i, n) == written[i][n].start + header_size(written[i][n].kind)

(* The records of a core lie one behind the other, up to data_head, and    *)
(* fill the ring at most once from data_tail on.                           *)
RecordsOK(i) ==
  /\ \A n \in 1 .. Len(written[i]) : EndOf(i, n) <= data_head(i)
  /\ \A n \in 1 .. Len(written[i]) - 1 : StartOf(i, n + 1) = EndOf(i, n)
  /\ \A m, n \in 1 .. Len(written[i]) : m < n => EndOf(i, m) <= StartOf(i, n)
  /\ data_head(i) - data_tail[i] <= RingWords

(* The offset of the first record that has not been processed. *)
Unread(i) == IF Len(seen[i]) < Len(written[i]) THEN StartOf(i, Len(seen[i]) + 1) ELSE data_head(i)

Reading(i) == pc = "loop" /\ core = i

(* The reader has processed a prefix of the records and its offset, or the *)
(* published one, is that of the next.  head separates records.  A fault   *)
(* leaves the published offset behind.                                     *)
ReaderOK(i) ==
  /\ Len(seen[i]) <= Len(written[i])
  /\ \A j \in 1 .. Len(seen[i]) : seen[i][j] = j
  /\ ~(pc \in {"loop", "segv"} /\ core = i) => data_tail[i] = Unread(i)
  /\ Reading(i) =>
       /\ tail = Unread(i)
       /\ data_tail[i] <= tail /\ tail <= head /\ head <= data_head(i)
       /\ \A n \in 1 .. Len(written[i]) : StartOf(i, n) < head => EndOf(i, n) <= head

IInv ==
  /\ TypeOK /\ LoopInv /\ BindInv
  /\ pc # "tailassert"
  /\ \A i \in Core : RecordsOK(i) /\ ReaderOK(i)

-----------------------------------------------------------------------------
(* Arithmetic of quotients and remainders *)

(* The remainder is the only number below the divisor that differs by a    *)
(* multiple of it.                                                         *)
LEMMA Remainder ==
  ASSUME NEW d \in Nat \ {0}, NEW x \in Int, NEW q \in Int, NEW r \in 0 .. d - 1,
         x = q * d + r
  PROVE  x % d = r
  OBVIOUS

(* A position in the ring against an offset up to one round ahead of it. *)
LEMMA RingDistance ==
  ASSUME NEW d \in Nat \ {0}, NEW a \in Nat, NEW s \in Nat, a <= s, s < a + d
  PROVE  ((a % d) - s) % d = IF s = a THEN 0 ELSE d - (s - a)
<1> DEFINE q == a \div d
<1>1. q \in Int /\ a = d * q + (a % d) /\ a % d \in 0 .. d - 1
  OBVIOUS
<1> HIDE DEF q
<1>2. CASE s = a
  <2>1. (a % d) - s = (0 - q) * d + 0
    BY <1>1, <1>2
  <2>2. 0 \in 0 .. d - 1 /\ 0 - q \in Int /\ (a % d) - s \in Int
    BY <1>1
  <2>3. QED
    BY <1>2, <2>1, <2>2, Remainder
<1>3. CASE s # a
  <2>1. (a % d) - s = (0 - q - 1) * d + (d - (s - a))
    BY <1>1
  <2>2. d - (s - a) \in 0 .. d - 1 /\ 0 - q - 1 \in Int /\ (a % d) - s \in Int
    BY <1>1, <1>3
  <2>3. QED
    BY <1>3, <2>1, <2>2, Remainder
<1>4. QED
  BY <1>2, <1>3

(* A group of cores that starts at a multiple of its size ends within the  *)
(* cores if the size divides their number.                                 *)
LEMMA GroupFits ==
  ASSUME NEW g \in Nat \ {0}, NEW n \in Nat \ {0}, NEW v \in Nat, n % g = 0
  PROVE  (v * g) % n \in Nat /\ ((v * g) % n) + g <= n
<1> DEFINE k == n \div g
           q == (v * g) \div n
           r == (v * g) % n
<1>1. k \in Int /\ n = g * k
  OBVIOUS
<1>2. q \in Int /\ v * g = n * q + r /\ r \in 0 .. n - 1
  OBVIOUS
<1> HIDE DEF k, q, r
<1>3. r = g * (v - k * q)
  <2>1. n * q = g * (k * q)
    BY <1>1, <1>2
  <2>2. QED
    BY <1>1, <1>2, <2>1
<1> DEFINE m == v - k * q
<1>4. m \in Int
  BY <1>1, <1>2
<1> HIDE DEF m
<1>5. g * m < g * k
  BY <1>1, <1>2, <1>3 DEF m
<1>6. m < k
  BY <1>1, <1>4, <1>5
<1>7. g * (m + 1) <= g * k
  BY <1>1, <1>4, <1>6
<1>8. QED
  BY <1>1, <1>2, <1>3, <1>4, <1>7 DEF m, r

(* Scaling by a fraction of at least, or at most, one. *)
LEMMA ScaleUp ==
  ASSUME NEW c \in Nat \ {0}, NEW a \in Nat, NEW b \in Nat, b >= c
  PROVE  (a * b) \div c \in Nat /\ (a * b) \div c >= a
  OBVIOUS

LEMMA ScaleDown ==
  ASSUME NEW c \in Nat \ {0}, NEW a \in Nat, NEW b \in Nat, b <= c
  PROVE  (a * b) \div c \in Nat /\ (a * b) \div c <= a
  OBVIOUS

LEMMA ScaleBelow ==
  ASSUME NEW c \in Nat \ {0}, NEW a \in Nat, NEW d \in Nat, a \div c <= d
  PROVE  a < (d + 1) * c
<1>1. PICK q \in Nat, r \in 0 .. c - 1 : q = a \div c /\ a = q * c + r
  <2> DEFINE q == a \div c
             r == a % c
  <2>1. q \in Nat /\ r \in 0 .. c - 1 /\ a = q * c + r
    OBVIOUS
  <2> HIDE DEF q, r
  <2>2. QED
    BY <2>1 DEF q
<1>2. q * c <= d * c /\ (d + 1) * c = d * c + c
  BY <1>1
<1>3. q * c \in Nat /\ d * c \in Nat
  BY <1>1
<1>4. QED
  BY <1>1, <1>2, <1>3

LEMMA ScaleNat ==
  ASSUME NEW c \in Nat \ {0}, NEW a \in Nat, NEW b \in Nat
  PROVE  (a * b) \div c \in Nat
  OBVIOUS

-----------------------------------------------------------------------------
(* Sleep durations *)

(* What the end of a round makes of the sleep duration. *)
LEMMA NewSleep ==
  ASSUME TypeOK, NEW d \in Durations
  PROVE  /\ new_sleep(d) \in 0 .. MaxSleep
         /\ max_size <= target_size => new_sleep(d) >= sleep
         /\ max_size >= target_size =>
              \/ new_sleep(d) <= sleep
              \/ new_sleep(d) <= d /\ (sleep + d) * target_size < (d + 1) * max_size
<1>1. /\ d \in Nat /\ MaxSleep \in Nat /\ sleep \in 0 .. MaxSleep /\ max_size \in Nat
      /\ RingWords \in Nat
  BY CpuAssumption DEF TypeOK
<1>2. target_size \in Nat
  BY <1>1 DEF target_size
<1> DEFINE total == sleep + d
           new == IF max_size > 0 THEN (total * target_size) \div max_size ELSE total
           net == IF new > d THEN new - d ELSE new
<1>3. new_sleep(d) = IF net > MaxSleep THEN MaxSleep ELSE net
  BY DEF new_sleep
<1>4. total \in Nat
  BY <1>1
<1>5. new \in Nat
  BY <1>1, <1>2, <1>4, ScaleNat
<1>6. max_size <= target_size => new >= total
  BY <1>1, <1>2, <1>4, ScaleUp
<1>7. max_size >= target_size => new <= total
  BY <1>1, <1>2, <1>4, ScaleDown
<1> HIDE DEF new
<1>8. net \in Nat
  BY <1>1, <1>5
<1>9. max_size <= target_size => net >= sleep
  BY <1>1, <1>5, <1>6
<1>10. max_size >= target_size =>
         net <= sleep \/ (net <= d /\ (sleep + d) * target_size < (d + 1) * max_size)
  <2> SUFFICES ASSUME max_size >= target_size, new <= d
               PROVE  net <= d /\ (sleep + d) * target_size < (d + 1) * max_size
    BY <1>1, <1>5, <1>7
  <2>1. net <= d
    BY <1>1, <1>5
  <2>2. target_size > 0 /\ max_size \in Nat \ {0}
    BY <1>1, <1>2, CpuAssumption DEF target_size
  <2>3. new = (total * target_size) \div max_size
    BY <2>2 DEF new
  <2>4. PICK a \in Nat : a = total * target_size
    BY <1>2, <1>4
  <2>5. a \div max_size <= d
    BY <2>3, <2>4
  <2>6. a < (d + 1) * max_size
    BY <1>1, <2>2, <2>5, ScaleBelow
  <2>7. QED
    BY <2>1, <2>4, <2>6
<1> HIDE DEF net
<1>11. QED
  BY <1>1, <1>3, <1>8, <1>9, <1>10

-----------------------------------------------------------------------------
(* Cores and records *)

(* The channel keeps its size. *)
LEMMA CoreFrame ==
  ASSUME [Next]_vars
  PROVE  num_cores' = num_cores /\ Core' = Core
<1>1. num_cores' = num_cores
  BY DEF Next, KernelWrite, bind, EndBind, unbind, NextGroup, enable, disable, EndVisit,
         readPebsData, BeginRead, Wake, ReadBounds, ReadEntry, ReadFault, Publish, EndRound,
         Ended, vars, channelVars
<1>2. QED
  BY <1>1 DEF Core

(* The cores of the current group exist. *)
LEMMA GroupInCores ==
  ASSUME TypeOK, num_cores # 0, num_cores % GroupSize = 0
  PROVE  /\ c0 \in Nat /\ c1 \in Nat /\ c0 <= c1 /\ c1 <= num_cores
         /\ c0 .. c1 - 1 \subseteq Core
<1>1. GroupSize \in Nat \ {0} /\ visit \in Nat /\ num_cores \in Nat \ {0}
  BY CpuAssumption DEF TypeOK
<1>2. c0 \in Nat /\ c0 + GroupSize <= num_cores
  BY <1>1, GroupFits DEF c0
<1>3. QED
  BY <1>1, <1>2 DEF c1, Core

LEMMA CurrentCore ==
  ASSUME TypeOK, LoopInv, pc \in {"enable", "bounds", "loop", "disable"}, core < c1
  PROVE  core \in Core
<1>1. num_cores # 0 /\ num_cores % GroupSize = 0 /\ c0 <= core
  BY DEF LoopInv, Sampling
<1>2. core \in Nat /\ c1 \in Nat /\ c1 <= num_cores /\ num_cores \in Nat
  BY <1>1, GroupInCores DEF TypeOK
<1>3. QED
  BY <1>2 DEF Core

(* The group stays the same as long as main's index does. *)
LEMMA GroupFrame ==
  ASSUME num_cores' = num_cores, visit' = visit
  PROVE  c0' = c0 /\ c1' = c1
  BY DEF c0, c1

(* Sizes, starts and the head are numbers. *)
LEMMA SizeOf ==
  ASSUME NEW kind
  PROVE  header_size(kind) \in {3, 4}
  BY DEF header_size, SampleWords

LEMMA RecordTypes ==
  ASSUME TypeOK, NEW i \in Core
  PROVE  /\ Len(written[i]) \in Nat
         /\ \A n \in 1 .. Len(written[i]) :
              /\ written[i][n] \in Record
              /\ StartOf(i, n) \in Nat /\ EndOf(i, n) \in Nat /\ StartOf(i, n) < EndOf(i, n)
         /\ Len(written[i]) = 0 => data_head(i) = 0
         /\ Len(written[i]) # 0 => data_head(i) = EndOf(i, Len(written[i]))
         /\ data_head(i) \in Nat
<1>1. written[i] \in Seq(Record)
  BY DEF TypeOK
<1>2. Len(written[i]) \in Nat /\ \A n \in 1 .. Len(written[i]) : written[i][n] \in Record
  BY <1>1
<1>3. ASSUME NEW n \in 1 .. Len(written[i])
      PROVE  StartOf(i, n) \in Nat /\ EndOf(i, n) \in Nat /\ StartOf(i, n) < EndOf(i, n)
  <2>1. written[i][n].start \in Nat /\ header_size(written[i][n].kind) \in {3, 4}
    BY <1>2, SizeOf DEF Record
  <2>2. QED
    BY <2>1 DEF StartOf, EndOf
<1>4. Len(written[i]) = 0 => data_head(i) = 0
  BY <1>1 DEF data_head
<1>5. Len(written[i]) # 0 => data_head(i) = EndOf(i, Len(written[i]))
  BY <1>1 DEF data_head, EndOf
<1>6. Len(written[i]) # 0 => Len(written[i]) \in 1 .. Len(written[i])
  BY <1>2
<1>7. data_head(i) \in Nat
  BY <1>2, <1>3, <1>4, <1>5, <1>6
<1>8. QED
  BY <1>2, <1>3, <1>4, <1>5, <1>7

(* The effect of a record appended by the kernel to the buffer of core i. *)
Appends(i, kind) ==
  /\ written' = [written EXCEPT ![i] = Append(@, [kind |-> kind, start |-> data_head(i)])]
  /\ data_head(i) + header_size(kind) - data_tail[i] <= RingWords
  /\ UNCHANGED <<pc, num_cores, data_tail, core, tail, head, seen>>

LEMMA AppendEffect ==
  ASSUME TypeOK, NEW i \in Core, NEW kind \in {"sample", "throttle"}, Appends(i, kind)
  PROVE  /\ written' \in [Core -> Seq(Record)]
         /\ Len(written'[i]) = Len(written[i]) + 1
         /\ \A n \in 1 .. Len(written[i]) : written'[i][n] = written[i][n]
         /\ written'[i][Len(written[i]) + 1] = [kind |-> kind, start |-> data_head(i)]
         /\ \A j \in Core : j # i => written'[j] = written[j]
<1>1. written[i] \in Seq(Record) /\ data_head(i) \in Nat
  BY RecordTypes DEF TypeOK
<1>2. [kind |-> kind, start |-> data_head(i)] \in Record
  BY <1>1 DEF Record
<1>3. written'[i] = Append(written[i], [kind |-> kind, start |-> data_head(i)])
  BY DEF Appends, TypeOK
<1>4. QED
  BY <1>1, <1>2, <1>3 DEF Appends, TypeOK

LEMMA AppendHead ==
  ASSUME TypeOK, NEW i \in Core, NEW kind \in {"sample", "throttle"}, Appends(i, kind),
         NEW last, last = Len(written[i]) + 1
  PROVE  /\ data_head(i)' = data_head(i) + header_size(kind)
         /\ \A n \in 1 .. Len(written[i]) :
              StartOf(i, n)' = StartOf(i, n) /\ EndOf(i, n)' = EndOf(i, n)
         /\ StartOf(i, last)' = data_head(i)
         /\ EndOf(i, last)' = data_head(i) + header_size(kind)
<1>1. Len(written[i]) \in Nat /\ Len(written'[i]) = last /\ written'[i] \in Seq(Record)
  BY AppendEffect, RecordTypes
<1>2. written'[i][last] = [kind |-> kind, start |-> data_head(i)]
  BY AppendEffect
<1>3. StartOf(i, last)' = data_head(i) /\ EndOf(i, last)' = data_head(i) + header_size(kind)
  BY <1>2 DEF StartOf, EndOf
<1>4. \A n \in 1 .. Len(written[i]) :
        StartOf(i, n)' = StartOf(i, n) /\ EndOf(i, n)' = EndOf(i, n)
  BY AppendEffect DEF StartOf, EndOf
<1>5. data_head(i)' = EndOf(i, last)'
  <2>1. written'[i] # << >>
    BY <1>1
  <2>2. QED
    BY <1>1, <2>1 DEF data_head, EndOf
<1>6. QED
  BY <1>3, <1>4, <1>5

(* Nothing about a core changes with its records, tail and processed list. *)
LEMMA QuietCore ==
  ASSUME NEW i, written'[i] = written[i], data_tail'[i] = data_tail[i], seen'[i] = seen[i]
  PROVE  /\ data_head(i)' = data_head(i) /\ Unread(i)' = Unread(i)
         /\ \A n : StartOf(i, n)' = StartOf(i, n) /\ EndOf(i, n)' = EndOf(i, n)
         /\ RecordsOK(i) => RecordsOK(i)'
<1>1. data_head(i)' = data_head(i)
  BY DEF data_head
<1>2. \A n : StartOf(i, n)' = StartOf(i, n) /\ EndOf(i, n)' = EndOf(i, n)
  BY DEF StartOf, EndOf
<1>3. Unread(i)' = Unread(i)
  BY <1>1, <1>2 DEF Unread
<1>4. RecordsOK(i) => RecordsOK(i)'
  BY <1>1, <1>2 DEF RecordsOK
<1>5. QED
  BY <1>1, <1>2, <1>3, <1>4

(* The record found at the reader's position is the next one: it starts    *)
(* there, and the records behind it have not come around to that place.    *)
LEMMA NextRecord ==
  ASSUME TypeOK, core \in Core, RecordsOK(core), ReaderOK(core), pc = "loop", tail < head
  PROVE  /\ Len(seen[core]) < Len(written[core])
         /\ number = Len(seen[core]) + 1
         /\ tail = StartOf(core, number)
         /\ entry_size = EndOf(core, number) - StartOf(core, number)
<1> DEFINE L == Len(written[core])
           m == Len(seen[core]) + 1
<1>1. Reading(core) /\ tail = Unread(core) /\ head <= data_head(core) /\ data_tail[core] <= tail
  BY DEF ReaderOK, Reading
<1>2. /\ L \in Nat /\ Len(seen[core]) \in Nat /\ data_head(core) \in Nat
      /\ tail \in Nat /\ head \in Nat /\ data_tail[core] \in Nat /\ RingWords \in Nat \ {0}
  BY RecordTypes, CpuAssumption DEF TypeOK
<1>3. Len(seen[core]) < L
  BY <1>1, <1>2 DEF Unread
<1>4. m \in 1 .. L /\ tail = StartOf(core, m)
  BY <1>1, <1>2, <1>3 DEF Unread
<1> HIDE DEF m
<1> DEFINE On(n) == (position - StartOf(core, n)) % RingWords < header_size(written[core][n].kind)
           S == {0} \cup {n \in 1 .. L : On(n)}
<1>5. On(m)
  <2>1. (position - StartOf(core, m)) % RingWords = 0
    <3>1. tail <= tail /\ tail < tail + RingWords
      BY <1>2
    <3>2. ((tail % RingWords) - tail) % RingWords = 0
      BY <1>2, <3>1, RingDistance
    <3>3. QED
      BY <1>4, <3>2 DEF position
  <2>2. header_size(written[core][m].kind) \in {3, 4}
    BY SizeOf
  <2>3. QED
    BY <2>1, <2>2
<1>6. ASSUME NEW n \in 1 .. L, m < n
      PROVE  ~On(n)
  <2> DEFINE s == StartOf(core, n)
             z == header_size(written[core][n].kind)
  <2>1. z \in {3, 4}
    BY SizeOf
  <2>2. s \in Nat /\ EndOf(core, m) \in Nat /\ tail < EndOf(core, m) /\ EndOf(core, n) = s + z
    BY <1>4, RecordTypes DEF StartOf, EndOf
  <2>3. EndOf(core, m) <= s /\ EndOf(core, n) <= data_head(core)
    BY <1>4, <1>6 DEF RecordsOK
  <2>4. data_head(core) - data_tail[core] <= RingWords
    BY DEF RecordsOK
  <2> HIDE DEF s, z
  <2>5. tail < s /\ s + z <= tail + RingWords
    <3>1. tail < s
      BY <1>2, <2>2, <2>3
    <3>2. s + z <= data_head(core) /\ s + z \in Nat
      BY <2>1, <2>2, <2>3
    <3>3. data_head(core) <= data_tail[core] + RingWords
      BY <1>2, <2>4
    <3>4. QED
      BY <1>1, <1>2, <3>1, <3>2, <3>3
  <2>6. ((tail % RingWords) - s) % RingWords = RingWords - (s - tail)
    <3>1. tail <= s /\ s < tail + RingWords /\ s # tail
      BY <1>2, <2>1, <2>2, <2>5
    <3>2. s \in Nat /\ tail \in Nat /\ RingWords \in Nat \ {0}
      BY <1>2, <2>2
    <3>3. QED
      BY <3>1, <3>2, RingDistance
  <2>7. ~(((tail % RingWords) - s) % RingWords < z)
    BY <1>2, <2>1, <2>2, <2>5, <2>6
  <2>8. QED
    BY <2>7 DEF s, z, position
<1>7. m \in S /\ \A y \in S : y \in Nat /\ m >= y
  <2>1. m \in Nat
    BY <1>2 DEF m
  <2>2. \A n \in 1 .. L : On(n) => m >= n
    BY <1>2, <1>6, <2>1
  <2>3. QED
    BY <1>2, <1>4, <1>5, <2>1, <2>2
<1>8. number = Max(S)
  BY DEF number, RecordAt, StartOf
<1> HIDE DEF S
<1>9. number = m
  <2>1. \A x \in S : (\A y \in S : x >= y) => x = m
    BY <1>7
  <2>2. QED
    BY <1>7, <1>8, <2>1 DEF Max
<1>10. entry_size = EndOf(core, m) - StartOf(core, m)
  <2>1. entry_size = header_size(written[core][m].kind)
    BY <1>2, <1>9 DEF entry_size, m
  <2>2. written[core][m].start \in Nat /\ header_size(written[core][m].kind) \in {3, 4}
    BY <1>4, RecordTypes, SizeOf DEF StartOf
  <2>3. QED
    BY <2>1, <2>2 DEF EndOf, StartOf
<1>11. QED
  BY <1>3, <1>4, <1>9, <1>10 DEF m

-----------------------------------------------------------------------------
(* The program: types, loops, and what bind has made *)

LEMMA InitIInv == Init => IInv
<1> SUFFICES ASSUME Init PROVE IInv
  OBVIOUS
<1> USE DEF Init
<1>1. TypeOK
  BY CpuAssumption DEF TypeOK, Core
<1>2. LoopInv
  BY <1>1 DEF LoopInv, Sampling, TypeOK
<1>3. BindInv
  <2>1. \A i \in Core : ~(i < visit * GroupSize)
    BY CpuAssumption DEF Core
  <2>2. QED
    BY <2>1 DEF BindInv, Sampling
<1>4. ASSUME NEW i \in Core
      PROVE  RecordsOK(i) /\ ReaderOK(i)
  <2>1. written[i] = << >> /\ seen[i] = << >> /\ data_tail[i] = 0 /\ ~Reading(i)
    BY DEF Reading
  <2>2. data_head(i) = 0 /\ Len(written[i]) = 0 /\ Len(seen[i]) = 0 /\ Unread(i) = 0
    BY <2>1 DEF data_head, Unread
  <2>3. RecordsOK(i)
    BY <2>1, <2>2, CpuAssumption DEF RecordsOK
  <2>4. QED
    BY <2>1, <2>2, <2>3 DEF ReaderOK
<1>5. QED
  BY <1>1, <1>2, <1>3, <1>4 DEF IInv

(* The actions of the program that leave the buffers and the reader alone. *)
Quiet ==
  bind \/ EndBind \/ unbind \/ NextGroup \/ enable \/ BeginRead \/ disable \/ EndVisit
    \/ Wake \/ ReadFault \/ EndRound \/ Ended \/ UNCHANGED vars

LEMMA StepCases ==
  ASSUME [Next]_vars
  PROVE  \/ KernelWrite \/ ReadBounds \/ ReadEntry \/ Publish \/ Quiet
  BY DEF Next, readPebsData, Quiet

LEMMA KernelAppends ==
  ASSUME KernelWrite
  PROVE  \E i \in Core, kind \in {"sample", "throttle"} : Appends(i, kind)
  BY DEF KernelWrite, Appends, channelVars, readVars

LEMMA EntryTypes ==
  ASSUME IInv, ReadEntry
  PROVE  /\ core \in Core /\ tail < head
         /\ number \in Nat /\ entry_size \in Nat /\ entry_size # 0
         /\ Len(seen[core]) < Len(written[core])
         /\ number = Len(seen[core]) + 1 /\ number \in 1 .. Len(written[core])
         /\ tail = StartOf(core, number)
         /\ tail' = EndOf(core, number)
<1>1. TypeOK /\ LoopInv /\ pc = "loop" /\ core < c1
  BY DEF IInv, LoopInv, ReadEntry
<1>2. core \in Core
  BY <1>1, CurrentCore
<1>3. tail < head
  <2>1. tail \in Nat /\ head \in Nat /\ Margin \in Nat
    BY <1>1, CpuAssumption DEF TypeOK
  <2>2. tail + Margin < head
    BY DEF ReadEntry
  <2>3. QED
    BY <2>1, <2>2
<1>4. RecordsOK(core) /\ ReaderOK(core)
  BY <1>2 DEF IInv
<1>5. /\ Len(seen[core]) < Len(written[core])
      /\ number = Len(seen[core]) + 1
      /\ tail = StartOf(core, number)
      /\ entry_size = EndOf(core, number) - StartOf(core, number)
  BY <1>1, <1>2, <1>3, <1>4, NextRecord
<1>6. number \in 1 .. Len(written[core]) /\ number \in Nat
  <2>1. Len(seen[core]) \in Nat /\ Len(written[core]) \in Nat
    BY <1>1, <1>2, RecordTypes DEF TypeOK
  <2>2. QED
    BY <1>5, <2>1
<1>7. /\ StartOf(core, number) \in Nat /\ EndOf(core, number) \in Nat
      /\ StartOf(core, number) < EndOf(core, number)
  BY <1>1, <1>2, <1>6, RecordTypes
<1>8. tail' = tail + entry_size
  BY DEF ReadEntry
<1>9. QED
  BY <1>2, <1>3, <1>5, <1>6, <1>7, <1>8

LEMMA TypeStep ==
  ASSUME IInv, [Next]_vars
  PROVE  TypeOK'
<1>1. TypeOK /\ LoopInv
  BY DEF IInv
<1>2. num_cores' = num_cores /\ Core' = Core
  BY CoreFrame
<1>3. CASE KernelWrite
  <2>1. PICK i \in Core, kind \in {"sample", "throttle"} : Appends(i, kind)
    BY <1>3, KernelAppends
  <2>2. written' \in [Core -> Seq(Record)]
    BY <1>1, <2>1, AppendEffect
  <2>3. QED
    BY <1>1, <1>2, <1>3, <2>2 DEF TypeOK, KernelWrite, channelVars, readVars
<1>4. CASE ReadBounds
  <2>1. core \in Core
    BY <1>1, <1>4, CurrentCore DEF ReadBounds
  <2>2. data_tail[core] \in Nat /\ data_head(core) \in Nat
    BY <1>1, <2>1, RecordTypes DEF TypeOK
  <2>3. tail' \in Nat /\ head' \in Nat
    BY <1>1, <1>4, <2>2 DEF ReadBounds, TypeOK
  <2>4. max_size' \in Nat
    <3>1. max_size \in Nat
      BY <1>1 DEF TypeOK
    <3>2. CASE buffer_[core] = "mapped"
      <4> DEFINE d == head' - tail'
      <4>1. d \in Int /\ max_size' = MaxOf(max_size, d)
        BY <1>4, <2>3, <3>2 DEF ReadBounds
      <4> HIDE DEF d
      <4>2. QED
        BY <3>1, <4>1 DEF MaxOf
    <3>3. CASE buffer_[core] # "mapped"
      BY <1>4, <3>1, <3>3 DEF ReadBounds
    <3>4. QED
      BY <3>2, <3>3
  <2>5. pc' \in {"loop", "tailassert", "segv"}
    BY <1>4 DEF ReadBounds
  <2>6. QED
    BY <1>1, <1>2, <1>4, <2>3, <2>4, <2>5 DEF TypeOK, Sampling, ReadBounds, channelVars
<1>5. CASE ReadEntry
  <2>1. tail \in Nat /\ entry_size \in Nat /\ number \in Nat /\ core \in Core
    BY <1>1, <1>5, EntryTypes DEF TypeOK
  <2>2. tail' \in Nat
    BY <1>5, <2>1 DEF ReadEntry
  <2>3. seen' \in [Core -> Seq(Nat)]
    <3>1. seen[core] \in Seq(Nat)
      BY <1>1, <2>1 DEF TypeOK
    <3>2. Append(seen[core], number) \in Seq(Nat)
      BY <2>1, <3>1
    <3>3. QED
      BY <1>1, <1>5, <3>2 DEF ReadEntry, TypeOK
  <2>4. QED
    BY <1>1, <1>2, <1>5, <2>2, <2>3 DEF TypeOK, ReadEntry, channelVars
<1>6. CASE Publish
  <2>1. core \in Core
    BY <1>1, <1>6, CurrentCore DEF Publish, LoopInv
  <2>2. data_tail' \in [Core -> Nat] /\ core' \in Nat
    BY <1>1, <1>6, <2>1 DEF Publish, TypeOK
  <2>3. pc' \in {"bounds", "tailassert"} /\ tail' \in Nat /\ head' \in Nat
    BY <1>6 DEF Publish
  <2>4. QED
    BY <1>1, <1>2, <1>6, <2>2, <2>3 DEF TypeOK, Sampling, Publish, channelVars
<1>7. CASE Quiet
  <2>1. CASE bind
    <3>1. pc' \in {"bind", "main"} /\ core' \in Nat
      BY <1>1, <2>1 DEF bind, TypeOK
    <3>2. fd_' \in [Core -> BOOLEAN]
      BY <1>1, <2>1 DEF bind, TypeOK
    <3>3. buffer_' \in [Core -> {"null", "mapped", "failed"}]
      BY <1>1, <2>1 DEF bind, TypeOK
    <3>4. event' \in [Core -> {"none", "off", "on"}]
      BY <1>1, <2>1 DEF bind, TypeOK
    <3>5. QED
      BY <1>1, <1>2, <2>1, <3>1, <3>2, <3>3, <3>4 DEF bind, TypeOK, readVars
  <2>2. CASE EndBind
    BY <1>1, <1>2, <2>2 DEF EndBind, TypeOK, readVars, channelVars
  <2>3. CASE unbind
    BY <1>1, <1>2, <2>3 DEF unbind, TypeOK, readVars
  <2>4. CASE NextGroup
    <3>1. pc' = "enable" => num_cores # 0 /\ num_cores % GroupSize = 0
      BY <2>4 DEF NextGroup
    <3>2. core' \in Nat
      BY <1>1, <2>4, <3>1, GroupInCores DEF NextGroup, TypeOK
    <3>3. pc' \in {"assert", "unbind", "sigfpe", "enable"}
      BY <2>4 DEF NextGroup
    <3>4. QED
      BY <1>1, <1>2, <2>4, <3>2, <3>3 DEF NextGroup, TypeOK, Sampling, readVars, channelVars
  <2>5. CASE enable
    <3>1. core \in Core
      BY <1>1, <2>5, CurrentCore DEF enable
    <3>2. event' \in [Core -> {"none", "off", "on"}]
      BY <1>1, <2>5, <3>1 DEF enable, TypeOK
    <3>3. core' \in Nat /\ pc' \in {"enable", "assert"}
      BY <1>1, <2>5 DEF enable, TypeOK
    <3>4. UNCHANGED <<num_cores, fd_, buffer_, written, data_tail, visit, tail, head, max_size, sleep,
                      seen>>
      BY <2>5 DEF enable, readVars, channelVars
    <3>5. QED
      BY <1>1, <1>2, <3>2, <3>3, <3>4 DEF TypeOK, Sampling
  <2>6. CASE BeginRead
    BY <1>1, <1>2, <2>6, CpuAssumption DEF BeginRead, TypeOK, Sampling, channelVars
  <2>7. CASE disable
    <3>1. event' \in [Core -> {"none", "off", "on"}]
      BY <1>1, <2>7 DEF disable, TypeOK
    <3>2. core' \in Nat
      BY <1>1, <2>7 DEF disable, TypeOK
    <3>3. QED
      BY <1>1, <1>2, <2>7, <3>1, <3>2 DEF disable, TypeOK, readVars, channelVars
  <2>8. CASE EndVisit
    <3>1. visit < Visits
      BY <1>1, <2>8 DEF EndVisit, LoopInv, Sampling
    <3>2. visit' \in 0 .. Visits /\ sleep' \in 0 .. MaxSleep
      BY <1>1, <2>8, <3>1, CpuAssumption DEF EndVisit, TypeOK
    <3>3. QED
      BY <1>1, <1>2, <2>8, <3>2 DEF EndVisit, TypeOK, channelVars
  <2>9. CASE Wake
    <3>1. c0 \in Nat
      BY <1>1, <2>9, GroupInCores DEF Wake, LoopInv, Sampling
    <3>2. QED
      BY <1>1, <1>2, <2>9, <3>1 DEF Wake, TypeOK, Sampling, channelVars
  <2>10. CASE ReadFault
    BY <1>1, <1>2, <2>10 DEF ReadFault, TypeOK, readVars, channelVars
  <2>11. CASE EndRound
    <3>1. c0 \in Nat
      BY <1>1, <2>11, GroupInCores DEF EndRound, LoopInv, Sampling
    <3>2. sleep' \in 0 .. MaxSleep
      BY <1>1, <2>11, NewSleep DEF EndRound
    <3>3. QED
      BY <1>1, <1>2, <2>11, <3>1, <3>2 DEF EndRound, TypeOK, Sampling, channelVars
  <2>12. CASE Ended \/ UNCHANGED vars
    BY <1>1, <2>12 DEF Ended, vars, readVars, channelVars, TypeOK, Core
  <2>13. QED
    BY <1>7, <2>1, <2>2, <2>3, <2>4, <2>5, <2>6, <2>7, <2>8, <2>9, <2>10, <2>11, <2>12
       DEF Quiet
<1>8. QED
  BY <1>3, <1>4, <1>5, <1>6, <1>7, StepCases

LEMMA LoopStep ==
  ASSUME IInv, [Next]_vars
  PROVE  LoopInv'
<1>1. TypeOK /\ LoopInv
  BY DEF IInv
<1>2. num_cores' = num_cores /\ num_cores \in Nat /\ core \in Nat
  BY <1>1, CoreFrame DEF TypeOK
<1>3. pc \in Sampling => c0 \in Nat /\ c1 \in Nat /\ c0 <= c1
  BY <1>1, GroupInCores DEF LoopInv
<1>4. CASE EndVisit
  BY <1>4 DEF EndVisit, LoopInv, Sampling
<1>5. CASE NextGroup
  <2>1. pc' \in {"assert", "unbind", "sigfpe", "enable"}
    BY <1>5 DEF NextGroup
  <2>2. pc' = "unbind" => visit = Visits
    BY <1>5 DEF NextGroup
  <2>3. pc' = "enable" => num_cores # 0 /\ num_cores % GroupSize = 0 /\ visit # Visits /\ core' = c0
    BY <1>5 DEF NextGroup
  <2>4. pc' = "enable" => c0 \in Nat /\ c1 \in Nat /\ c0 <= c1
    BY <1>1, <2>3, GroupInCores
  <2>5. visit' = visit /\ visit \in 0 .. Visits /\ Visits \in Nat
    BY <1>1, <1>5, CpuAssumption DEF NextGroup, TypeOK
  <2>6. c0' = c0 /\ c1' = c1
    BY <1>2, <2>5, GroupFrame
  <2>7. pc' = "enable" => visit < Visits
    BY <2>3, <2>5
  <2>8. pc' = "enable" => c0' <= core' /\ core' <= c1'
    BY <2>3, <2>4, <2>6
  <2>9. QED
    BY <1>2, <2>1, <2>2, <2>3, <2>5, <2>7, <2>8 DEF LoopInv, Sampling
<1>6. CASE visit' = visit /\ ~NextGroup
  <2>1. c0' = c0 /\ c1' = c1
    BY <1>2, <1>6, GroupFrame
  <2>2. CASE KernelWrite \/ ReadEntry \/ Ended \/ UNCHANGED vars
    <3>1. pc' = pc /\ core' = core
      BY <2>2 DEF KernelWrite, ReadEntry, Ended, vars
    <3>2. QED
      BY <1>1, <1>2, <1>6, <2>1, <3>1 DEF LoopInv
  <2>3. CASE bind \/ EndBind
    <3>1. pc' \in {"bind", "main"} /\ pc = "bind" /\ core' \in {core, core + 1}
      BY <2>3 DEF bind, EndBind
    <3>2. pc' = "bind" => core < num_cores
      BY <2>3 DEF bind, EndBind
    <3>3. pc' = "bind" => core' <= num_cores
      BY <1>2, <3>1, <3>2
    <3>4. QED
      BY <1>1, <1>2, <1>6, <3>1, <3>3 DEF LoopInv, Sampling
  <2>4. CASE unbind \/ ReadFault
    <3>1. pc' \in {"assert", "returned", "segv"}
      BY <2>4 DEF unbind, ReadFault
    <3>2. QED
      BY <3>1 DEF LoopInv, Sampling
  <2>5. CASE enable \/ disable
    <3>1. /\ pc \in {"enable", "disable"} /\ core < c1
          /\ \/ pc' = pc /\ core' = core + 1
             \/ pc' = "assert"
      BY <2>5 DEF enable, disable
    <3>2. pc \in Sampling /\ c0 <= core
      BY <1>1, <3>1 DEF LoopInv, Sampling
    <3>3. c0 <= core + 1 /\ core + 1 <= c1
      BY <1>2, <1>3, <3>1, <3>2
    <3>4. QED
      BY <1>1, <1>2, <1>6, <2>1, <3>1, <3>3 DEF LoopInv, Sampling
  <2>6. CASE BeginRead
    BY <1>1, <1>2, <1>6, <2>1, <2>6 DEF BeginRead, LoopInv, Sampling
  <2>7. CASE Wake
    BY <1>1, <1>2, <1>3, <1>6, <2>1, <2>7 DEF Wake, LoopInv, Sampling
  <2>8. CASE ReadBounds
    BY <1>1, <1>2, <1>6, <2>1, <2>8 DEF ReadBounds, LoopInv, Sampling
  <2>9. CASE Publish
    <3>1. /\ pc = "loop"
          /\ \/ pc' = "bounds" /\ core' = core + 1
             \/ pc' = "tailassert"
      BY <2>9 DEF Publish
    <3>2. pc \in Sampling /\ c0 <= core /\ core < c1
      BY <1>1, <3>1 DEF LoopInv, Sampling
    <3>3. c0 <= core + 1 /\ core + 1 <= c1
      BY <1>2, <1>3, <3>2
    <3>4. QED
      BY <1>1, <1>2, <1>6, <2>1, <3>1, <3>3 DEF LoopInv, Sampling
  <2>10. CASE EndRound
    <3>1. /\ pc = "bounds"
          /\ \/ pc' = "sleep"
             \/ pc' = "disable" /\ core' = c0
      BY <2>10 DEF EndRound
    <3>2. QED
      BY <1>1, <1>2, <1>3, <1>6, <2>1, <3>1 DEF LoopInv, Sampling
  <2>11. QED
    BY <1>4, <1>6, <2>2, <2>3, <2>4, <2>5, <2>6, <2>7, <2>8, <2>9, <2>10, StepCases DEF Quiet
<1>7. visit' = visit \/ EndVisit
  BY StepCases DEF Quiet, KernelWrite, bind, EndBind, unbind, NextGroup, enable, disable,
     BeginRead, Wake, ReadBounds, ReadEntry, ReadFault, Publish, EndRound, Ended, vars
<1>8. QED
  BY <1>4, <1>5, <1>6, <1>7

(* While main goes on inside one visit, and nothing is bound or unbound,   *)
(* only the loops can disturb BindInv.                                     *)
LEMMA BindStep ==
  ASSUME IInv, [Next]_vars
  PROVE  BindInv'
<1>1. TypeOK /\ LoopInv /\ BindInv
  BY DEF IInv
<1>2. num_cores' = num_cores /\ Core' = Core /\ num_cores \in Nat /\ core \in Nat
  BY <1>1, CoreFrame DEF TypeOK
<1>3. pc \in Sampling =>
        c0 \in Nat /\ c1 \in Nat /\ c0 <= c1 /\ c1 <= num_cores /\ c0 .. c1 - 1 \subseteq Core
  BY <1>1, GroupInCores DEF LoopInv
<1>4. visit \in Nat /\ GroupSize \in Nat \ {0}
  BY <1>1, CpuAssumption DEF TypeOK
<1>5. CASE bind
  <2>1. pc = "bind" /\ core \in Core /\ visit' = visit /\ visit = 0 /\ pc' \in {"bind", "main"}
    BY <1>1, <1>2, <1>5 DEF bind, LoopInv, Core
  <2>2. \A i \in Core : ~(i < visit * GroupSize)
    BY <1>4, <2>1, <1>2 DEF Core
  <2>3. ASSUME NEW i \in Core, ~fd_'[i]
        PROVE  buffer_'[i] = "null" /\ event'[i] = "none"
    <3>1. ~fd_[i] /\ (i = core => UNCHANGED <<fd_, buffer_, event>>)
      BY <1>1, <1>5, <2>1, <2>3 DEF bind, TypeOK
    <3>2. buffer_'[i] = buffer_[i] /\ event'[i] = event[i]
      BY <1>1, <1>5, <3>1 DEF bind, TypeOK
    <3>3. QED
      BY <1>1, <3>1, <3>2 DEF BindInv
  <2>4. QED
    BY <1>2, <2>1, <2>2, <2>3 DEF BindInv, Sampling
<1>6. CASE unbind
  <2>1. pc = "unbind"
    BY <1>6 DEF unbind
  <2>2. CASE pc' = "assert"
    <3>1. UNCHANGED <<fd_, buffer_, event, visit>>
      BY <1>6, <2>2 DEF unbind
    <3>2. QED
      BY <1>1, <1>2, <2>1, <2>2, <3>1 DEF BindInv, Sampling
  <2>3. CASE pc' = "returned"
    <3>1. ASSUME NEW i \in Core
          PROVE  buffer_'[i] = "null" /\ event'[i] = "none"
      <4>1. /\ buffer_'[i] = IF fd_[i] THEN "null" ELSE buffer_[i]
            /\ event'[i] = IF fd_[i] THEN "none" ELSE event[i]
        BY <1>6, <2>3 DEF unbind
      <4>2. QED
        BY <1>1, <4>1 DEF BindInv
    <3>2. QED
      BY <1>2, <2>3, <3>1 DEF BindInv, Sampling
  <2>4. QED
    BY <1>6, <2>2, <2>3 DEF unbind
<1>7. CASE EndVisit
  <2>1. pc = "disable" /\ pc' = "main" /\ visit' = visit + 1 /\ UNCHANGED <<fd_, buffer_, event>>
    BY <1>7 DEF EndVisit, channelVars
  <2>2. \A i \in c0 .. c1 - 1 : fd_[i] /\ buffer_[i] = "mapped"
    BY <1>1, <2>1 DEF BindInv, Sampling
  <2>3. ASSUME NEW i \in Core, i < (visit + 1) * GroupSize
        PROVE  fd_[i] /\ buffer_[i] = "mapped"
    <3> DEFINE v == visit * GroupSize
    <3>1. v \in Nat /\ i < v + GroupSize /\ i \in 0 .. num_cores - 1
      BY <1>4, <2>3 DEF Core
    <3>2. CASE i < v
      BY <1>1, <2>1, <3>2 DEF BindInv
    <3>3. CASE v <= i
      <4>1. v \in 0 .. num_cores - 1 /\ num_cores \in Nat \ {0}
        BY <1>2, <3>1, <3>3
      <4>2. v = 0 * num_cores + v
        BY <3>1, <4>1
      <4>3. v % num_cores = v
        BY <3>1, <4>1, <4>2, Remainder
      <4>4. c0 = v
        BY <4>3 DEF c0
      <4>5. i \in c0 .. c1 - 1
        BY <1>4, <3>1, <3>3, <4>4 DEF c1
      <4>6. QED
        BY <2>2, <4>5
    <3>4. QED
      BY <3>1, <3>2, <3>3
  <2>4. QED
    BY <1>1, <1>2, <2>1, <2>3 DEF BindInv, Sampling
<1>8. CASE UNCHANGED <<visit, fd_, buffer_>>
  <2>1. c0' = c0 /\ c1' = c1
    BY <1>2, <1>8, GroupFrame
  <2>2. CASE UNCHANGED <<pc, core, event>>
    BY <1>1, <1>2, <1>8, <2>1, <2>2 DEF BindInv
  <2>3. CASE EndBind
    BY <1>1, <1>2, <1>8, <2>3 DEF BindInv, EndBind, Sampling
  <2>4. CASE NextGroup
    <3>1. pc = "main" /\ pc' \in {"assert", "unbind", "sigfpe", "enable"} /\ UNCHANGED event
      BY <2>4 DEF NextGroup
    <3>2. pc' = "enable" => \A i \in c0 .. core' - 1 : FALSE
      <4>1. pc' = "enable" => core' = c0 /\ num_cores # 0 /\ num_cores % GroupSize = 0
        BY <2>4 DEF NextGroup
      <4>2. pc' = "enable" => c0 \in Nat
        BY <1>1, <4>1, GroupInCores
      <4>3. QED
        BY <4>1, <4>2
    <3>3. QED
      BY <1>1, <1>2, <1>8, <2>1, <3>1, <3>2 DEF BindInv, Sampling
  <2>5. CASE enable
    <3>1. pc = "enable" /\ core \in Core /\ c0 <= core
      BY <1>1, <2>5, CurrentCore DEF enable, LoopInv
    <3>2. CASE ~fd_[core]
      <4>1. pc' = "assert" /\ UNCHANGED event
        BY <2>5, <3>2 DEF enable
      <4>2. QED
        BY <1>1, <1>2, <1>8, <3>1, <4>1 DEF BindInv, Sampling
    <3>3. CASE fd_[core]
      <4>1. pc' = "enable" /\ core' = core + 1
        BY <2>5, <3>1, <3>3 DEF enable
      <4>2. \A i \in Core : i # core => event'[i] = event[i]
        BY <1>1, <2>5 DEF enable, TypeOK
      <4>3. \A i \in Core : ~fd_[i] => buffer_[i] = "null" /\ event'[i] = "none"
        BY <1>1, <3>3, <4>2 DEF BindInv
      <4>4. \A i \in c0 .. core : fd_[i]
        <5>1. \A i \in c0 .. core : i \in c0 .. core - 1 \/ i = core
          BY <1>2, <1>3, <3>1 DEF Sampling
        <5>2. QED
          BY <1>1, <3>1, <3>3, <5>1 DEF BindInv
      <4>5. core' - 1 = core
        BY <1>2, <4>1
      <4>6. QED
        BY <1>1, <1>2, <1>8, <2>1, <3>1, <4>1, <4>3, <4>4, <4>5 DEF BindInv, Sampling
    <3>4. QED
      BY <3>2, <3>3
  <2>6. CASE BeginRead
    <3>1. pc = "enable" /\ core = c1 /\ pc' = "sleep" /\ UNCHANGED event
      BY <2>6 DEF BeginRead
    <3>2. QED
      BY <1>1, <1>2, <1>8, <2>1, <3>1 DEF BindInv, Sampling
  <2>7. CASE disable
    <3>1. pc = "disable" /\ pc' = pc /\ core \in c0 .. c1 - 1
      BY <1>1, <1>2, <1>3, <2>7 DEF disable, LoopInv, Sampling
    <3>2. fd_[core] /\ core \in Core
      BY <1>1, <1>3, <3>1 DEF BindInv, Sampling
    <3>3. \A i \in Core : i # core => event'[i] = event[i]
      BY <1>1, <2>7 DEF disable, TypeOK
    <3>4. \A i \in Core : ~fd_[i] => buffer_[i] = "null" /\ event'[i] = "none"
      BY <1>1, <3>2, <3>3 DEF BindInv
    <3>5. QED
      BY <1>1, <1>2, <1>8, <2>1, <3>1, <3>4 DEF BindInv, Sampling
  <2>8. CASE Wake
    <3>1. pc = "sleep" /\ pc' = "bounds" /\ core' = c0 /\ UNCHANGED event
      BY <2>8 DEF Wake
    <3>2. \A i \in c0 .. core' - 1 : FALSE
      BY <1>3, <3>1 DEF Sampling
    <3>3. QED
      BY <1>1, <1>2, <1>8, <2>1, <3>1, <3>2 DEF BindInv, Sampling
  <2>9. CASE ReadBounds
    <3>1. /\ pc = "bounds" /\ pc' \in {"loop", "tailassert", "segv"} /\ UNCHANGED <<event, core>>
          /\ pc' = "loop" => buffer_[core] = "mapped"
      BY <2>9 DEF ReadBounds
    <3>2. QED
      BY <1>1, <1>2, <1>8, <2>1, <3>1 DEF BindInv, Sampling
  <2>10. CASE ReadFault
    BY <1>1, <1>2, <1>8, <2>10 DEF BindInv, ReadFault, Sampling
  <2>11. CASE Publish
    <3>1. /\ pc = "loop" /\ UNCHANGED event
          /\ \/ pc' = "tailassert"
             \/ pc' = "bounds" /\ core' = core + 1
      BY <2>11 DEF Publish
    <3>2. \A i \in c0 .. core : buffer_[i] = "mapped"
      <4>1. \A i \in c0 .. core : i \in c0 .. core - 1 \/ i = core
        BY <1>2, <1>3, <3>1 DEF Sampling
      <4>2. QED
        BY <1>1, <3>1, <4>1 DEF BindInv
    <3>3. pc' = "bounds" => core' - 1 = core
      BY <1>2, <3>1
    <3>4. QED
      BY <1>1, <1>2, <1>8, <2>1, <3>1, <3>2, <3>3 DEF BindInv, Sampling
  <2>12. CASE EndRound
    <3>1. /\ pc = "bounds" /\ core = c1 /\ UNCHANGED event
          /\ pc' \in {"sleep", "disable"}
      BY <2>12 DEF EndRound
    <3>2. QED
      BY <1>1, <1>2, <1>8, <2>1, <3>1 DEF BindInv, Sampling
  <2>13. KernelWrite \/ ReadEntry \/ Ended \/ UNCHANGED vars => UNCHANGED <<pc, core, event>>
    BY DEF KernelWrite, ReadEntry, Ended, vars
  <2>14. QED
    BY <1>5, <1>6, <1>7, <2>2, <2>3, <2>4, <2>5, <2>6, <2>7, <2>8, <2>9, <2>10, <2>11, <2>12,
       <2>13, StepCases DEF Quiet
<1>9. UNCHANGED <<visit, fd_, buffer_>> \/ bind \/ unbind \/ EndVisit
  BY StepCases DEF Quiet, KernelWrite, EndBind, NextGroup, enable, disable,
     BeginRead, Wake, ReadBounds, ReadEntry, ReadFault, Publish, EndRound, Ended, vars, channelVars
<1>10. QED
  BY <1>5, <1>6, <1>7, <1>8, <1>9

-----------------------------------------------------------------------------
(* The buffers and their reader *)

(* A reader that does not move keeps its place among records that do not   *)
(* change.                                                                 *)
LEMMA QuietReader ==
  ASSUME NEW i, written'[i] = written[i], data_tail'[i] = data_tail[i], seen'[i] = seen[i],
         ReaderOK(i),
         \/ UNCHANGED <<pc, core, tail, head>>
         \/ /\ ~(pc' = "loop" /\ core' = i)
            /\ pc \in {"loop", "segv"} /\ core = i => pc' = "segv" /\ core' = i
  PROVE  ReaderOK(i)'
<1>1. /\ data_head(i)' = data_head(i) /\ Unread(i)' = Unread(i)
      /\ \A n : StartOf(i, n)' = StartOf(i, n) /\ EndOf(i, n)' = EndOf(i, n)
  BY QuietCore
<1>2. CASE UNCHANGED <<pc, core, tail, head>>
  BY <1>1, <1>2 DEF ReaderOK, Reading
<1>3. CASE /\ ~(pc' = "loop" /\ core' = i)
           /\ pc \in {"loop", "segv"} /\ core = i => pc' = "segv" /\ core' = i
  BY <1>1, <1>3 DEF ReaderOK, Reading
<1>4. QED
  BY <1>2, <1>3

(* A record appended by the kernel. *)
LEMMA RecordsAppend ==
  ASSUME TypeOK, NEW i \in Core, NEW kind \in {"sample", "throttle"}, Appends(i, kind),
         RecordsOK(i)
  PROVE  RecordsOK(i)'
<1> DEFINE L == Len(written[i])
<1>1. PICK last : last = L + 1
  OBVIOUS
<1> DEFINE h == data_head(i)
           z == header_size(kind)
<1>2. /\ h' = h + z
      /\ \A n \in 1 .. L : StartOf(i, n)' = StartOf(i, n) /\ EndOf(i, n)' = EndOf(i, n)
      /\ StartOf(i, last)' = h /\ EndOf(i, last)' = h + z
  BY <1>1, AppendHead
<1>3. L \in Nat /\ h \in Nat /\ z \in {3, 4} /\ Len(written'[i]) = last
  BY <1>1, AppendEffect, RecordTypes, SizeOf
<1>4. \A n \in 1 .. L : EndOf(i, n) \in Nat /\ EndOf(i, n) <= h
  BY RecordTypes DEF RecordsOK
<1>5. L # 0 => EndOf(i, L) = h
  BY RecordTypes
<1>6. h' - data_tail'[i] <= RingWords
  <2>1. (h + z) - data_tail[i] <= RingWords /\ data_tail' = data_tail
    <3>1. data_tail[i] \in Nat
      BY DEF TypeOK
    <3>2. QED
      BY <1>3, <3>1 DEF Appends
  <2>2. data_tail'[i] = data_tail[i] /\ h' = h + z
    BY <1>2, <2>1
  <2> HIDE DEF h, z
  <2>3. QED
    BY <2>1, <2>2
<1> HIDE DEF h, z
<1>7. \A n \in 1 .. last : n \in 1 .. L \/ n = last
  BY <1>1, <1>3
<1>8. ASSUME NEW n \in 1 .. last
      PROVE  EndOf(i, n)' <= h'
  <2>1. CASE n \in 1 .. L
    BY <1>2, <1>3, <1>4, <2>1
  <2>2. CASE n = last
    BY <1>2, <1>3, <2>2
  <2>3. QED
    BY <1>7, <2>1, <2>2
<1>9. ASSUME NEW n \in 1 .. last - 1
      PROVE  StartOf(i, n + 1)' = EndOf(i, n)'
  <2>1. n \in 1 .. L
    BY <1>1, <1>3
  <2>2. CASE n = L
    <3>1. n + 1 = last /\ L # 0
      BY <1>1, <1>3, <2>1, <2>2
    <3>2. QED
      BY <1>2, <1>5, <2>1, <2>2, <3>1
  <2>3. CASE n # L
    <3>1. n \in 1 .. L - 1 /\ n + 1 \in 1 .. L
      BY <1>3, <2>1, <2>3
    <3>2. QED
      BY <1>2, <2>1, <3>1 DEF RecordsOK
  <2>4. QED
    BY <2>2, <2>3
<1>10. ASSUME NEW m \in 1 .. last, NEW n \in 1 .. last, m < n
       PROVE  EndOf(i, m)' <= StartOf(i, n)'
  <2>1. m \in 1 .. L
    BY <1>1, <1>3, <1>10
  <2>2. CASE n = last
    BY <1>2, <1>4, <2>1, <2>2
  <2>3. CASE n \in 1 .. L
    BY <1>2, <1>10, <2>1, <2>3 DEF RecordsOK
  <2>4. QED
    BY <1>7, <2>2, <2>3
<1>11. QED
  BY <1>3, <1>6, <1>8, <1>9, <1>10 DEF RecordsOK, h

LEMMA ReaderAppend ==
  ASSUME TypeOK, NEW i \in Core, NEW kind \in {"sample", "throttle"}, Appends(i, kind),
         RecordsOK(i), ReaderOK(i)
  PROVE  ReaderOK(i)'
<1> DEFINE L == Len(written[i])
           k == Len(seen[i])
<1>1. PICK last : last = L + 1
  OBVIOUS
<1>2. /\ data_head(i)' = data_head(i) + header_size(kind)
      /\ \A n \in 1 .. L : StartOf(i, n)' = StartOf(i, n) /\ EndOf(i, n)' = EndOf(i, n)
      /\ StartOf(i, last)' = data_head(i)
  BY <1>1, AppendHead
<1>3. /\ L \in Nat /\ k \in Nat /\ data_head(i) \in Nat /\ Len(written'[i]) = last
      /\ header_size(kind) \in {3, 4} /\ head \in Nat
  <2>1. k \in Nat /\ head \in Nat
    BY DEF TypeOK
  <2>2. Len(written'[i]) = last
    BY <1>1, AppendEffect
  <2>3. QED
    BY <2>1, <2>2, RecordTypes, SizeOf
<1>4. UNCHANGED <<pc, core, tail, head, seen, data_tail>>
  BY DEF Appends
<1>5. k <= L
  BY DEF ReaderOK
<1>6. Unread(i)' = Unread(i)
  <2>1. Unread(i)' = IF k < last THEN StartOf(i, k + 1)' ELSE data_head(i)'
    BY <1>3, <1>4 DEF Unread, StartOf
  <2>2. k < last
    BY <1>1, <1>3, <1>5
  <2>3. CASE k = L
    BY <1>1, <1>2, <1>4, <2>1, <2>2, <2>3, <1>3 DEF Unread, StartOf
  <2>4. CASE k < L
    <3>1. k + 1 \in 1 .. L
      BY <1>3, <2>4
    <3>2. QED
      BY <1>2, <1>4, <2>1, <2>2, <2>4, <3>1 DEF Unread, StartOf
  <2>5. QED
    BY <1>3, <1>5, <2>3, <2>4
<1>7. ASSUME Reading(i), NEW n \in 1 .. last, StartOf(i, n)' < head
      PROVE  EndOf(i, n)' <= head
  <2>1. head <= data_head(i)
    BY <1>7 DEF ReaderOK
  <2>2. n # last
    BY <1>2, <1>3, <1>7, <2>1
  <2>3. n \in 1 .. L
    BY <1>1, <1>3, <2>2
  <2>4. QED
    BY <1>2, <1>7, <2>3 DEF ReaderOK
<1>8. k <= last /\ (Reading(i) => head <= data_head(i)')
  BY <1>1, <1>2, <1>3, <1>5 DEF ReaderOK
<1>9. Reading(i)' <=> Reading(i)
  BY <1>4 DEF Reading
<1>10. QED
  BY <1>3, <1>4, <1>6, <1>7, <1>8, <1>9 DEF ReaderOK

(* The offset of the next record is within what has been written. *)
LEMMA UnreadWritten ==
  ASSUME TypeOK, NEW i \in Core, RecordsOK(i)
  PROVE  Unread(i) \in Nat /\ Unread(i) <= data_head(i)
<1>1. Len(written[i]) \in Nat /\ Len(seen[i]) \in Nat /\ data_head(i) \in Nat
  BY RecordTypes DEF TypeOK
<1>2. CASE Len(seen[i]) < Len(written[i])
  <2> DEFINE n == Len(seen[i]) + 1
  <2>1. n \in 1 .. Len(written[i])
    BY <1>1, <1>2
  <2>2. StartOf(i, n) \in Nat /\ EndOf(i, n) \in Nat /\ StartOf(i, n) < EndOf(i, n)
    BY <2>1, RecordTypes
  <2>3. EndOf(i, n) <= data_head(i)
    BY <2>1 DEF RecordsOK
  <2>4. Unread(i) = StartOf(i, n)
    BY <1>2 DEF Unread
  <2> HIDE DEF n
  <2>5. QED
    BY <1>1, <2>2, <2>3, <2>4
<1>3. CASE ~(Len(seen[i]) < Len(written[i]))
  BY <1>1, <1>3 DEF Unread
<1>4. QED
  BY <1>2, <1>3

(* A record taken by the reader. *)
LEMMA EntryRead ==
  ASSUME IInv, ReadEntry, NEW i, i = core
  PROVE  RecordsOK(i)' /\ ReaderOK(i)'
<1> DEFINE L == Len(written[i])
           k == Len(seen[i])
<1>1. /\ i \in Core /\ tail < head /\ k < L
      /\ number = k + 1 /\ number \in 1 .. L
      /\ tail = StartOf(i, number) /\ tail' = EndOf(i, number)
  BY EntryTypes
<1>2. PICK n \in 1 .. L : n = number
  BY <1>1
<1>3. TypeOK /\ RecordsOK(i) /\ ReaderOK(i) /\ pc = "loop"
  BY <1>1 DEF IInv, ReadEntry
<1>4. UNCHANGED <<pc, core, written, data_tail, head>>
  BY DEF ReadEntry
<1>5. seen[i] \in Seq(Nat) /\ k \in Nat /\ L \in Nat /\ n \in Nat
  BY <1>1, <1>3, RecordTypes DEF TypeOK
<1>6. seen'[i] = Append(seen[i], n)
  BY <1>1, <1>2, <1>3 DEF ReadEntry, TypeOK
<1>7. Len(seen'[i]) = n /\ \A j \in 1 .. n : seen'[i][j] = IF j = n THEN n ELSE seen[i][j]
  BY <1>1, <1>2, <1>5, <1>6
<1>8. /\ data_head(i)' = data_head(i)
      /\ \A x : StartOf(i, x)' = StartOf(i, x) /\ EndOf(i, x)' = EndOf(i, x)
  BY <1>4 DEF data_head, StartOf, EndOf
<1>9. RecordsOK(i)'
  BY <1>3, <1>4, <1>8 DEF RecordsOK, data_head, StartOf, EndOf
<1>10. \A j \in 1 .. n : seen'[i][j] = j
  <2>1. ASSUME NEW j \in 1 .. n
        PROVE  seen'[i][j] = j
    <3>1. CASE j = n
      BY <1>7, <3>1
    <3>2. CASE j # n
      <4>1. j \in 1 .. k
        BY <1>1, <1>2, <1>5, <3>2
      <4>2. QED
        BY <1>3, <1>7, <3>2, <4>1 DEF ReaderOK
    <3>3. QED
      BY <3>1, <3>2
  <2>2. QED
    BY <2>1
<1>11. tail' = Unread(i)'
  <2>1. Unread(i)' = IF n < L THEN written[i][n + 1].start ELSE data_head(i)
    BY <1>4, <1>7, <1>8 DEF Unread, StartOf
  <2>2. CASE n < L
    <3>1. n \in 1 .. L - 1
      BY <1>5, <2>2
    <3>2. StartOf(i, n + 1) = EndOf(i, n)
      BY <1>3, <3>1 DEF RecordsOK
    <3>3. QED
      BY <1>1, <1>2, <2>1, <2>2, <3>2 DEF StartOf
  <2>3. CASE n = L
    <3>1. L # 0
      BY <1>1, <1>5
    <3>2. data_head(i) = EndOf(i, n)
      BY <1>1, <1>3, <2>3, <3>1, RecordTypes
    <3>3. QED
      BY <1>1, <1>2, <1>5, <2>1, <2>3, <3>2
  <2>4. QED
    BY <1>5, <2>2, <2>3
<1>12. data_tail[i] <= tail' /\ tail' <= head /\ head <= data_head(i)
  <2>1. data_tail[i] <= tail /\ head <= data_head(i) /\ EndOf(i, n) <= head
    BY <1>1, <1>2, <1>3 DEF ReaderOK, Reading
  <2>2. data_tail[i] \in Nat /\ tail \in Nat /\ tail' \in Nat /\ tail < tail'
    <3>1. StartOf(i, n) < EndOf(i, n) /\ EndOf(i, n) \in Nat
      BY <1>1, <1>3, RecordTypes
    <3>2. QED
      BY <1>1, <1>2, <1>3, <3>1 DEF TypeOK
  <2>3. QED
    BY <1>1, <1>2, <2>1, <2>2
<1>13. \A x \in 1 .. L : StartOf(i, x) < head => EndOf(i, x) <= head
  BY <1>3 DEF ReaderOK, Reading
<1>14. Len(seen'[i]) <= Len(written'[i])
  BY <1>4, <1>5, <1>7
<1>15. pc' = "loop" /\ core' = i
  BY <1>3, <1>4
<1>16. ReaderOK(i)'
  BY <1>4, <1>7, <1>8, <1>10, <1>11, <1>12, <1>13, <1>14, <1>15
     DEF ReaderOK, Reading, StartOf, EndOf
<1>17. QED
  BY <1>9, <1>16

LEMMA BufferStep ==
  ASSUME IInv, [Next]_vars
  PROVE  pc' # "tailassert" /\ \A i \in Core : RecordsOK(i)' /\ ReaderOK(i)'
<1>1. TypeOK /\ LoopInv /\ pc # "tailassert" /\ \A i \in Core : RecordsOK(i) /\ ReaderOK(i)
  BY DEF IInv
<1>2. CASE KernelWrite
  <2>1. PICK j \in Core, kind \in {"sample", "throttle"} : Appends(j, kind)
    BY <1>2, KernelAppends
  <2>2. UNCHANGED <<pc, core, tail, head, seen, data_tail>>
    BY <2>1 DEF Appends
  <2>3. ASSUME NEW i \in Core
        PROVE  RecordsOK(i)' /\ ReaderOK(i)'
    <3>1. CASE i = j
      BY <1>1, <2>1, <3>1, RecordsAppend, ReaderAppend
    <3>2. CASE i # j
      <4>1. written'[i] = written[i]
        BY <1>1, <2>1, <3>2, AppendEffect
      <4>2. QED
        BY <1>1, <2>2, <4>1, QuietCore, QuietReader
    <3>3. QED
      BY <3>1, <3>2
  <2>4. QED
    BY <1>1, <2>2, <2>3
<1>3. CASE ReadBounds
  <2>1. core \in Core /\ pc = "bounds"
    BY <1>1, <1>3, CurrentCore DEF ReadBounds
  <2>2. UNCHANGED <<core, written, data_tail, seen>> /\ pc' \in {"loop", "tailassert", "segv"}
    BY <1>3 DEF ReadBounds
  <2>3. data_tail[core] = Unread(core) /\ Unread(core) \in Nat /\ Unread(core) <= data_head(core)
    BY <1>1, <2>1, UnreadWritten DEF ReaderOK
  <2>4. pc' # "tailassert"
    BY <1>3, <2>3 DEF ReadBounds
  <2>5. ASSUME NEW i \in Core
        PROVE  RecordsOK(i)' /\ ReaderOK(i)'
    <3>1. RecordsOK(i)'
      BY <1>1, <2>2, QuietCore
    <3>2. CASE i = core /\ pc' = "loop"
      <4>1. tail' = data_tail[i] /\ head' = data_head(i)
        BY <1>3, <3>2 DEF ReadBounds
      <4>2. /\ data_head(i)' = data_head(i) /\ Unread(i)' = Unread(i)
            /\ \A n : StartOf(i, n)' = StartOf(i, n) /\ EndOf(i, n)' = EndOf(i, n)
        BY <2>2, QuietCore
      <4>3. \A n \in 1 .. Len(written[i]) : EndOf(i, n) <= data_head(i)
        BY <1>1 DEF RecordsOK
      <4>4. data_tail'[i] = tail' /\ tail' = Unread(i)' /\ tail' \in Nat /\ tail' <= head'
        BY <2>2, <2>3, <3>2, <4>1, <4>2
      <4>5. data_head(i) \in Nat
        BY <1>1, RecordTypes
      <4>6. QED
        BY <1>1, <2>2, <3>1, <3>2, <4>1, <4>2, <4>3, <4>4, <4>5 DEF ReaderOK, Reading
    <3>3. CASE ~(i = core /\ pc' = "loop")
      BY <1>1, <2>1, <2>2, <3>1, <3>3, QuietReader
    <3>4. QED
      BY <3>2, <3>3
  <2>6. QED
    BY <2>4, <2>5
<1>4. CASE ReadEntry
  <2>1. core \in Core
    BY <1>4, EntryTypes
  <2>2. pc = "loop" /\ UNCHANGED <<pc, core, written, data_tail>>
    BY <1>4 DEF ReadEntry
  <2>3. ASSUME NEW i \in Core
        PROVE  RecordsOK(i)' /\ ReaderOK(i)'
    <3>1. CASE i = core
      BY <1>4, <3>1, EntryRead
    <3>2. CASE i # core
      <4>1. seen'[i] = seen[i]
        BY <1>1, <1>4, <3>2 DEF ReadEntry, TypeOK
      <4>2. QED
        BY <1>1, <2>2, <3>2, <4>1, QuietCore, QuietReader
    <3>3. QED
      BY <3>1, <3>2
  <2>4. QED
    BY <2>2, <2>3
<1>5. CASE Publish
  <2>1. pc = "loop" /\ core \in Core /\ UNCHANGED <<written, seen>>
    BY <1>1, <1>5, CurrentCore DEF Publish, LoopInv
  <2>2. tail = Unread(core) /\ data_tail[core] <= tail /\ tail <= head
    BY <1>1, <2>1 DEF ReaderOK, Reading
  <2>3. pc' = "bounds" /\ data_tail' = [data_tail EXCEPT ![core] = tail]
    BY <1>5, <2>2 DEF Publish
  <2>4. ASSUME NEW i \in Core
        PROVE  RecordsOK(i)' /\ ReaderOK(i)'
    <3>1. CASE i = core
      <4>1. data_tail'[i] = tail
        BY <1>1, <2>3, <3>1 DEF TypeOK
      <4>2. data_head(i)' = data_head(i) /\ Unread(i)' = Unread(i)
        BY <2>1 DEF data_head, Unread, StartOf
      <4>3. data_head(i) \in Nat /\ data_tail[i] \in Nat /\ tail \in Nat /\ RingWords \in Nat
        BY <1>1, RecordTypes, CpuAssumption DEF TypeOK
      <4>4. data_head(i) - data_tail[i] <= RingWords
        BY <1>1 DEF RecordsOK
      <4>5. data_head(i) - tail <= RingWords
        BY <2>2, <3>1, <4>3, <4>4
      <4>6. RecordsOK(i)'
        <5>1. data_head(i)' - data_tail'[i] <= RingWords
          BY <4>1, <4>2, <4>5
        <5>2. \A n : StartOf(i, n)' = StartOf(i, n) /\ EndOf(i, n)' = EndOf(i, n)
          BY <2>1 DEF StartOf, EndOf
        <5>3. RecordsOK(i) /\ written' = written
          BY <1>1, <2>1
        <5>4. QED
          BY <4>2, <5>1, <5>2, <5>3 DEF RecordsOK
      <4>7. data_tail'[i] = Unread(i)'
        BY <2>2, <3>1, <4>1, <4>2
      <4>8. QED
        BY <1>1, <2>1, <2>3, <4>6, <4>7 DEF ReaderOK, Reading
    <3>2. CASE i # core
      <4>1. data_tail'[i] = data_tail[i]
        BY <1>1, <2>3, <3>2 DEF TypeOK
      <4>2. QED
        BY <1>1, <2>1, <2>3, <3>2, <4>1, QuietCore, QuietReader
    <3>3. QED
      BY <3>1, <3>2
  <2>5. QED
    BY <2>3, <2>4
<1>6. CASE Quiet
  <2>1. UNCHANGED <<written, data_tail, seen>>
    BY <1>6 DEF Quiet, bind, EndBind, unbind, NextGroup, enable, BeginRead, disable, EndVisit,
       Wake, ReadFault, EndRound, Ended, vars, readVars
  <2>2. \/ UNCHANGED <<pc, core, tail, head>>
        \/ pc \notin {"loop", "segv"} /\ pc' \notin {"loop", "tailassert"}
        \/ pc = "loop" /\ pc' = "segv" /\ core' = core
    BY <1>6 DEF Quiet, bind, EndBind, unbind, NextGroup, enable, BeginRead, disable, EndVisit,
       Wake, ReadFault, EndRound, Ended, vars, readVars
  <2>3. pc' # "tailassert"
    BY <1>1, <2>2
  <2>4. ASSUME NEW i \in Core
        PROVE  RecordsOK(i)' /\ ReaderOK(i)'
    <3>1. \/ UNCHANGED <<pc, core, tail, head>>
          \/ /\ ~(pc' = "loop" /\ core' = i)
             /\ pc \in {"loop", "segv"} /\ core = i => pc' = "segv" /\ core' = i
      BY <2>2
    <3>2. ReaderOK(i) /\ RecordsOK(i)
      BY <1>1
    <3>3. written'[i] = written[i] /\ data_tail'[i] = data_tail[i] /\ seen'[i] = seen[i]
      BY <2>1
    <3>4. QED
      BY <3>1, <3>2, <3>3, QuietCore, QuietReader
  <2>5. QED
    BY <2>3, <2>4
<1>7. QED
  BY <1>2, <1>3, <1>4, <1>5, <1>6, StepCases

LEMMA Inductive ==
  ASSUME IInv, [Next]_vars
  PROVE  IInv'
<1>1. Core' = Core
  BY CoreFrame
<1>2. QED
  BY <1>1, TypeStep, LoopStep, BindStep, BufferStep DEF IInv

(* IInv holds throughout every run of the program. *)
THEOREM Invariance == Spec => []IInv
  BY InitIInv, Inductive, PTL DEF Spec

-----------------------------------------------------------------------------
(* The results *)

(* The channel, the loops of main and readPebsData keep their variables    *)
(* within their types, whatever system call fails.                         *)
THEOREM TypeCorrect == Spec => []TypeOK
<1>1. IInv => TypeOK
  BY DEF IInv
<1>2. QED
  BY <1>1, Invariance, PTL

(* The records of each core are processed in the order the kernel wrote    *)
(* them, each once, over all rounds and visits, and the asserts of         *)
(* readPebsData on the tail never fail.                                    *)
THEOREM RecordsOnce == Spec => []EachRecordOnce
<1>1. IInv => EachRecordOnce
  BY DEF IInv, ReaderOK, Unread, StartOf, EachRecordOnce
<1>2. QED
  BY <1>1, Invariance, PTL

(* When main comes to its end, every core it has sampled had descriptor    *)
(* and buffer, and when it returns none is left, although the constructor  *)
(* ignores what bind returns.                                              *)
THEOREM CompleteReturn == Spec => []ReturnsComplete
<1>1. IInv => ReturnsComplete
  <2> SUFFICES ASSUME IInv PROVE ReturnsComplete
    OBVIOUS
  <2>1. pc = "unbind" => visit = Visits
    BY DEF IInv, LoopInv
  <2>2. QED
    BY <2>1 DEF IInv, BindInv, ReturnsComplete
<1>2. QED
  BY <1>1, Invariance, PTL

(* SleepFollowsLoad, for all durations of processing, those longer than    *)
(* the sleep included: after each round the sleep keeps its limit, and it  *)
(* follows the load of the fullest buffer up to the edge where processing  *)
(* alone uses up the time, behind which that duration bounds it.           *)
THEOREM SleepControlled == Spec => SleepFollowsLoad
<1> DEFINE Controlled ==
      pc = "bounds" /\ pc' \in {"sleep", "disable"} =>
        /\ sleep' <= MaxSleep
        /\ max_size <= target_size => sleep' >= sleep
        /\ max_size >= target_size =>
             \/ sleep' <= sleep
             \/ \E d \in Durations :
                  sleep' <= d /\ (sleep + d) * target_size < (d + 1) * max_size
<1>1. ASSUME IInv, [Next]_vars
      PROVE  [Controlled]_vars
  <2> SUFFICES ASSUME pc = "bounds", pc' \in {"sleep", "disable"}
               PROVE  Controlled
    OBVIOUS
  <2>1. TypeOK
    BY <1>1 DEF IInv
  <2>2. EndRound
    BY <1>1, StepCases DEF Quiet, KernelWrite, bind, EndBind, unbind, NextGroup, enable, disable,
       BeginRead, EndVisit, Wake, ReadBounds, ReadEntry, ReadFault, Publish, Ended, vars
  <2>3. PICK d \in Durations : sleep' = new_sleep(d)
    BY <2>2 DEF EndRound
  <2>4. /\ sleep' \in 0 .. MaxSleep
        /\ max_size <= target_size => sleep' >= sleep
        /\ max_size >= target_size =>
             \/ sleep' <= sleep
             \/ sleep' <= d /\ (sleep + d) * target_size < (d + 1) * max_size
    BY <2>1, <2>3, NewSleep
  <2>5. MaxSleep \in Nat
    BY CpuAssumption
  <2>6. QED
    BY <2>4, <2>5
<1>2. Spec => [][Controlled]_vars
  BY <1>1, Invariance, PTL DEF Spec
<1>3. QED
  BY <1>2 DEF SleepFollowsLoad

=============================================================================
