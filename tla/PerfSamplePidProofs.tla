------------------------- MODULE PerfSamplePidProofs -------------------------
(***************************************************************************)
(* Proofs about PerfSamplePid for every size of the ring buffer, every set *)
(* of periods and any number of records.  The channel and the buffer are   *)
(* independent of each other but for one thing: while the event is open    *)
(* but not bound, the kernel may not write.  IInv therefore has one part   *)
(* for each, and says of the buffer that the records from data_tail on lie *)
(* in it undisturbed and that the reader stops only between two records.   *)
(***************************************************************************)
EXTENDS PerfSamplePid, TLAPS

Record == [kind : Kinds, start : Nat]

TypeOK ==
  /\ pc \in {"idle", "mmap", "id", "disable", "period", "enable", "loop", "publish", "segv",
             "abort"}
  /\ m_fd \in BOOLEAN /\ mapped \in BOOLEAN
  /\ event \in {"none", "disabled", "enabled"}
  /\ m_period \in Nat /\ kperiod \in Nat /\ arg \in Nat
  /\ data_head \in Nat /\ data_tail \in Nat /\ tail \in Nat /\ head \in Nat
  /\ ring \in [0 .. RingWords - 1 -> Nat \X Nat]
  /\ written \in Seq(Record)
  /\ got \in Seq([record : Nat, intact : BOOLEAN])

(* What the channel knows of its event, inside the calls too. *)
ChannelInv ==
  /\ pc # "abort"
  /\ pc = "mmap" => ~m_fd /\ ~mapped /\ event = "disabled"
  /\ pc = "id" => ~m_fd /\ mapped /\ event = "disabled"
  /\ pc \notin {"mmap", "id"} /\ ~m_fd => event = "none" /\ ~mapped
  /\ pc \in {"disable", "period", "enable", "loop", "publish"} => m_fd
  /\ m_fd => /\ mapped /\ event # "none"
             /\ event = "enabled" <=> m_period # 0
             /\ event = "enabled" => kperiod = m_period
  /\ pc \in {"period", "enable"} => arg # 0
  /\ pc = "enable" => m_period = 0 /\ kperiod = arg

StartOf(n) == written[n].start
SizeOf(n) == header_size(written[n].kind)
EndOf(n) == StartOf(n) + SizeOf(n)

(* The records lie one behind the other, up to data_head, and fill the     *)
(* ring at most once from data_tail on.                                    *)
RecordsInv ==
  /\ written = << >> => data_head = 0
  /\ written # << >> => data_head = EndOf(Len(written))
  /\ \A n \in 1 .. Len(written) : EndOf(n) <= data_head
  /\ \A n \in 1 .. Len(written) - 1 : StartOf(n + 1) = EndOf(n)
  /\ \A m, n \in 1 .. Len(written) : m < n => EndOf(m) <= StartOf(n)
  /\ data_tail <= data_head /\ data_head - data_tail <= RingWords

(* The words of the records from data_tail on are in place. *)
RingInv ==
  \A n \in 1 .. Len(written) : data_tail <= StartOf(n) =>
    \A k \in 0 .. SizeOf(n) - 1 : ring[(StartOf(n) + k) % RingWords] = <<n, k>>

(* An offset that does not lie inside a record. *)
Boundary(x) == x = data_head \/ \E n \in 1 .. Len(written) : StartOf(n) = x

ReaderInv ==
  /\ Boundary(data_tail)
  /\ pc \in {"loop", "publish"} =>
       /\ Boundary(tail)
       /\ data_tail <= tail /\ tail <= head /\ head <= data_head
       /\ \A n \in 1 .. Len(written) : StartOf(n) < head => EndOf(n) <= head

(* Up to where records have been returned, and up to where they have been  *)
(* looked at.                                                              *)
Returned == IF pc = "publish" THEN tail ELSE data_tail
Passed == IF pc \in {"loop", "publish"} THEN tail ELSE data_tail

GotInv ==
  /\ \A j \in 1 .. Len(got) :
       got[j].record \in 1 .. Len(written) /\ EndOf(got[j].record) <= Returned
  /\ \A j, k \in 1 .. Len(got) : j < k => got[j].record < got[k].record
  /\ \A n \in 1 .. Len(written) :
       written[n].kind = "own" /\ StartOf(n) < Passed /\ InOnePiece(n) =>
         \E j \in 1 .. Len(got) : got[j].record = n

BufferInv == RecordsInv /\ RingInv /\ ReaderInv /\ GotInv

IInv == TypeOK /\ ChannelInv /\ BufferInv

-----------------------------------------------------------------------------
(* Positions in the ring *)

LEMMA Remainder ==
  ASSUME NEW d \in Nat \ {0}, NEW x \in Int, NEW q \in Int, NEW r \in 0 .. d - 1,
         x = q * d + r
  PROVE  x % d = r
  OBVIOUS

(* The position of an offset, seen from an offset behind it. *)
LEMMA WordAhead ==
  ASSUME NEW d \in Nat \ {0}, NEW s \in Nat, NEW k \in 0 .. d - 1
  PROVE  (((s + k) % d) - s) % d = k
<1> DEFINE a == s + k
           q == a \div d
           r == a % d
<1>1. q \in Int /\ s + k = d * q + r
  OBVIOUS
<1>2. r \in Int
  OBVIOUS
<1> HIDE DEF q, r
<1>3. r - s = (0 - q) * d + k
  BY <1>1, <1>2
<1>4. r - s \in Int /\ 0 - q \in Int
  BY <1>1, <1>2
<1>5. (r - s) % d = k
  BY <1>3, <1>4, Remainder
<1>6. QED
  BY <1>5 DEF r

(* The position of an offset, seen from one that is ahead of it by less    *)
(* than a revolution.                                                      *)
LEMMA WordBehind ==
  ASSUME NEW d \in Nat \ {0}, NEW a \in Nat, NEW s \in Nat, a < s, s < a + d
  PROVE  ((a % d) - s) % d = d - (s - a)
<1> DEFINE q == a \div d
<1>1. q \in Int /\ a = d * q + (a % d) /\ a % d \in 0 .. d - 1
  OBVIOUS
<1> HIDE DEF q
<1>2. (a % d) - s = (0 - q - 1) * d + (d - (s - a))
  BY <1>1
<1>3. d - (s - a) \in 0 .. d - 1 /\ 0 - q - 1 \in Int /\ (a % d) - s \in Int
  BY <1>1
<1>4. QED
  BY <1>2, <1>3, Remainder

-----------------------------------------------------------------------------
(* Records *)

LEMMA HeaderSize ==
  ASSUME NEW kind
  PROVE  header_size(kind) \in {3, 5}
  BY DEF header_size, OtherWords, SampleWords

LEMMA RecordTypes ==
  ASSUME TypeOK
  PROVE  /\ Len(written) \in Nat
         /\ \A n \in 1 .. Len(written) :
              /\ written[n] \in Record
              /\ StartOf(n) \in Nat /\ SizeOf(n) \in {3, 5} /\ EndOf(n) \in Nat
              /\ StartOf(n) < EndOf(n)
<1>1. written \in Seq(Record)
  BY DEF TypeOK
<1>2. Len(written) \in Nat /\ \A n \in 1 .. Len(written) : written[n] \in Record
  BY <1>1
<1>3. ASSUME NEW n \in 1 .. Len(written)
      PROVE  /\ StartOf(n) \in Nat /\ SizeOf(n) \in {3, 5} /\ EndOf(n) \in Nat
             /\ StartOf(n) < EndOf(n)
  <2>1. StartOf(n) \in Nat /\ SizeOf(n) \in {3, 5}
    BY <1>2, HeaderSize DEF Record, StartOf, SizeOf
  <2>2. QED
    BY <2>1 DEF EndOf
<1>4. QED
  BY <1>2, <1>3

(* The reader finds the header of the record that starts at its offset. *)
LEMMA HeaderFound ==
  ASSUME TypeOK, RecordsInv, RingInv, ReaderInv, pc = "loop", tail < head
  PROVE  /\ number \in 1 .. Len(written)
         /\ StartOf(number) = tail
         /\ kind_of(number) = written[number].kind
         /\ entry_size = SizeOf(number)
         /\ EndOf(number) <= head
<1>1. /\ tail \in Nat /\ head \in Nat /\ data_head \in Nat /\ RingWords \in Nat \ {0}
      /\ head <= data_head /\ Boundary(tail) /\ data_tail <= tail
  BY PerfAssumption DEF TypeOK, ReaderInv
<1>2. PICK n \in 1 .. Len(written) : StartOf(n) = tail
  BY <1>1 DEF Boundary
<1>3. n \in Nat /\ n # 0 /\ 0 \in 0 .. SizeOf(n) - 1
  BY <1>2, RecordTypes
<1>4. ring[(StartOf(n) + 0) % RingWords] = <<n, 0>>
  BY <1>1, <1>2, <1>3 DEF RingInv
<1>5. StartOf(n) + 0 = tail
  BY <1>1, <1>2
<1>6. ring[position] = <<n, 0>>
  BY <1>4, <1>5 DEF position
<1>7. number = n
  BY <1>6 DEF number
<1>8. kind_of(number) = written[number].kind
  BY <1>3, <1>7 DEF kind_of
<1>9. entry_size = SizeOf(number)
  BY <1>8 DEF entry_size, SizeOf
<1>10. EndOf(n) <= head
  BY <1>2 DEF ReaderInv
<1>11. QED
  BY <1>2, <1>7, <1>8, <1>9, <1>10

-----------------------------------------------------------------------------
(* Initial states, types and the channel *)

LEMMA InitIInv == Init => IInv
<1> SUFFICES ASSUME Init PROVE IInv
  OBVIOUS
<1> USE DEF Init
<1>1. TypeOK
  <2>1. ring \in [0 .. RingWords - 1 -> Nat \X Nat]
    BY DEF Blank
  <2>2. written \in Seq(Record) /\ got \in Seq([record : Nat, intact : BOOLEAN])
    OBVIOUS
  <2>3. QED
    BY <2>1, <2>2 DEF TypeOK
<1>2. ChannelInv
  BY DEF ChannelInv
<1>3. Len(written) = 0 /\ Len(got) = 0
  OBVIOUS
<1>4. RecordsInv /\ RingInv
  BY <1>3, PerfAssumption DEF RecordsInv, RingInv
<1>5. ReaderInv /\ GotInv
  BY <1>3 DEF ReaderInv, GotInv, Boundary
<1>6. QED
  BY <1>1, <1>2, <1>4, <1>5 DEF IInv, BufferInv

(* The sets of actions that can disturb one part or the other. *)
Control == BindOpen \/ BindId \/ unbind \/ CallSetPeriod \/ Disable \/ SetNewPeriod \/ Enable

LEMMA StepCases ==
  ASSUME [Next]_vars
  PROVE  \/ KernelWrite \/ Control \/ BindMap \/ ReadBounds \/ ReadEntry \/ ReadFault \/ Publish
         \/ UNCHANGED vars
  BY DEF Next, bind, setPeriod, readSample, Control, Ended

LEMMA TypeStep ==
  ASSUME IInv, [Next]_vars
  PROVE  TypeOK'
<1>1. TypeOK
  BY DEF IInv
<1>2. CASE KernelWrite
  <2>1. PICK kind \in Kinds :
          /\ ring' = [w \in DOMAIN ring |->
                        LET k == (w - data_head) % RingWords
                        IN IF k < header_size(kind) THEN <<Len(written) + 1, k>> ELSE ring[w]]
          /\ data_head' = data_head + header_size(kind)
          /\ written' = Append(written, [kind |-> kind, start |-> data_head])
    BY <1>2 DEF KernelWrite
  <2>2. data_head' \in Nat
    <3>1. header_size(kind) \in Nat
      BY HeaderSize
    <3>2. QED
      BY <1>1, <2>1, <3>1 DEF TypeOK
  <2>3. written' \in Seq(Record)
    <3>1. [kind |-> kind, start |-> data_head] \in Record
      BY <1>1 DEF TypeOK, Record
    <3>2. QED
      BY <1>1, <2>1, <3>1 DEF TypeOK
  <2>4. ring' \in [0 .. RingWords - 1 -> Nat \X Nat]
    <3>1. DOMAIN ring = 0 .. RingWords - 1 /\ \A w \in 0 .. RingWords - 1 : ring[w] \in Nat \X Nat
      BY <1>1 DEF TypeOK
    <3>2. \A w \in 0 .. RingWords - 1 : (w - data_head) % RingWords \in Nat
      BY <1>1, PerfAssumption DEF TypeOK
    <3>3. Len(written) + 1 \in Nat
      BY <1>1 DEF TypeOK
    <3>4. QED
      BY <2>1, <3>1, <3>2, <3>3
  <2>5. QED
    BY <1>1, <1>2, <2>2, <2>3, <2>4 DEF TypeOK, KernelWrite, channelVars
<1>3. CASE Control
  <2>1. UNCHANGED <<bufferVars, tail, head, got>>
    BY <1>3 DEF Control, BindOpen, BindId, unbind, CallSetPeriod, Disable, SetNewPeriod, Enable
  <2>2. m_fd' \in BOOLEAN /\ mapped' \in BOOLEAN
    BY <1>1, <1>3 DEF TypeOK, Control, BindOpen, BindId, unbind, CallSetPeriod, Disable,
       SetNewPeriod, Enable
  <2>3. /\ event' \in {"none", "disabled", "enabled"}
        /\ pc' \in {"idle", "mmap", "id", "disable", "period", "enable", "abort"}
    BY <1>1, <1>3 DEF TypeOK, Control, BindOpen, BindId, unbind, CallSetPeriod, Disable,
       SetNewPeriod, Enable
  <2>4. m_period' \in Nat /\ kperiod' \in Nat /\ arg' \in Nat
    <3>1. m_period' \in {m_period, arg, 0}
      BY <1>3 DEF Control, BindOpen, BindId, unbind, CallSetPeriod, Disable, SetNewPeriod, Enable
    <3>2. kperiod' \in {kperiod, arg, InitPeriod}
      BY <1>3 DEF Control, BindOpen, BindId, unbind, CallSetPeriod, Disable, SetNewPeriod, Enable
    <3>3. arg' = arg \/ arg' \in Periods
      BY <1>3 DEF Control, BindOpen, BindId, unbind, CallSetPeriod, Disable, SetNewPeriod, Enable
    <3>4. m_period \in Nat /\ kperiod \in Nat /\ arg \in Nat /\ InitPeriod \in Nat
      BY <1>1 DEF TypeOK, InitPeriod
    <3>5. arg' \in Nat
      BY <3>3, <3>4, PerfAssumption
    <3>6. QED
      BY <3>1, <3>2, <3>4, <3>5
  <2>5. QED
    BY <1>1, <2>1, <2>2, <2>3, <2>4 DEF TypeOK, bufferVars
<1>4. CASE BindMap
  <2>1. CASE EmptyRing
    <3>1. /\ ring' \in [0 .. RingWords - 1 -> Nat \X Nat] /\ written' = << >> /\ got' = << >>
          /\ data_head' = 0 /\ data_tail' = 0
      BY <2>1 DEF EmptyRing, Blank
    <3>2. QED
      <4>1. written' \in Seq(Record) /\ got' \in Seq([record : Nat, intact : BOOLEAN])
        BY <3>1
      <4>2. pc' \in {"id", "idle"} /\ mapped' \in BOOLEAN /\ event' \in {"none", event}
        BY <1>1, <1>4 DEF BindMap, TypeOK
      <4>3. UNCHANGED <<m_fd, m_period, kperiod, arg, tail, head>>
        BY <1>4 DEF BindMap
      <4>4. QED
        BY <1>1, <3>1, <4>1, <4>2, <4>3 DEF TypeOK
  <2>2. CASE ~EmptyRing
    BY <1>1, <1>4, <2>2 DEF TypeOK, BindMap, bufferVars
  <2>3. QED
    BY <2>1, <2>2
<1>5. CASE ReadBounds
  BY <1>1, <1>5 DEF TypeOK, ReadBounds, channelVars, bufferVars
<1>6. CASE ReadEntry
  <2>1. number \in Nat /\ tail' \in Nat
    <3>1. number \in 1 .. Len(written) /\ entry_size \in {3, 5}
      BY <1>1, <1>6, HeaderFound, RecordTypes DEF IInv, BufferInv, ReadEntry
    <3>2. QED
      BY <1>1, <1>6, <3>1 DEF ReadEntry, TypeOK
  <2>2. got' \in Seq([record : Nat, intact : BOOLEAN])
    <3> DEFINE Got == [record : Nat, intact : BOOLEAN]
               entry == [record |-> number, intact |-> Within(SampleWords)]
    <3>1. entry \in Got
      BY <2>1 DEF Within
    <3>2. got' = got \/ got' = Append(got, entry)
      BY <1>6 DEF ReadEntry
    <3>3. got \in Seq(Got)
      BY <1>1 DEF TypeOK
    <3> HIDE DEF Got, entry
    <3>4. got' \in Seq(Got)
      BY <3>1, <3>2, <3>3
    <3>5. QED
      BY <3>4 DEF Got
  <2>3. pc' \in {"loop", "publish"}
    BY <1>6 DEF ReadEntry
  <2>4. QED
    BY <1>1, <1>6, <2>1, <2>2, <2>3 DEF TypeOK, ReadEntry, channelVars, bufferVars
<1>7. CASE ReadFault
  BY <1>1, <1>7 DEF TypeOK, ReadFault, channelVars, bufferVars
<1>8. CASE Publish
  BY <1>1, <1>8 DEF TypeOK, Publish, channelVars
<1>9. CASE UNCHANGED vars
  BY <1>1, <1>9 DEF TypeOK, vars, channelVars, bufferVars
<1>10. QED
  BY <1>2, <1>3, <1>4, <1>5, <1>6, <1>7, <1>8, <1>9, StepCases

LEMMA ChannelStep ==
  ASSUME IInv, [Next]_vars
  PROVE  ChannelInv'
<1>1. TypeOK /\ ChannelInv /\ RecordsInv /\ ReaderInv
  BY DEF IInv, BufferInv
<1>2. CASE Control
  <2>1. CASE BindOpen
    BY <1>1, <2>1 DEF ChannelInv, BindOpen
  <2>2. CASE BindId
    <3>1. pc' = "idle" /\ ~m_fd /\ mapped /\ event = "disabled"
      BY <1>1, <2>2 DEF ChannelInv, BindId
    <3>2. \/ m_fd' /\ m_period' = 0 /\ mapped' /\ event' = "disabled"
          \/ ~m_fd' /\ ~mapped' /\ event' = "none"
      BY <2>2, <3>1 DEF BindId
    <3>3. QED
      BY <3>1, <3>2 DEF ChannelInv
  <2>3. CASE unbind
    BY <1>1, <2>3 DEF ChannelInv, unbind
  <2>4. CASE CallSetPeriod
    BY <1>1, <2>4 DEF ChannelInv, CallSetPeriod
  <2>5. CASE Disable
    BY <1>1, <2>5 DEF ChannelInv, Disable
  <2>6. CASE SetNewPeriod
    BY <1>1, <2>6 DEF ChannelInv, SetNewPeriod
  <2>7. CASE Enable
    BY <1>1, <2>7 DEF ChannelInv, Enable
  <2>8. QED
    BY <1>2, <2>1, <2>2, <2>3, <2>4, <2>5, <2>6, <2>7 DEF Control
<1>3. CASE BindMap
  BY <1>1, <1>3 DEF ChannelInv, BindMap
<1>4. CASE UNCHANGED <<pc, channelVars>>
  BY <1>1, <1>4 DEF ChannelInv, channelVars
<1>5. CASE ReadBounds
  <2>1. pc = "idle" /\ m_fd /\ pc' \in {"idle", "loop"}
    BY <1>1, <1>5 DEF ReadBounds, RecordsInv, TypeOK
  <2>2. QED
    BY <1>1, <1>5, <2>1 DEF ChannelInv, ReadBounds, channelVars
<1>6. CASE ReadEntry
  <2>1. pc = "loop" /\ pc' \in {"loop", "publish"}
    BY <1>6 DEF ReadEntry
  <2>2. QED
    BY <1>1, <1>6, <2>1 DEF ChannelInv, ReadEntry, channelVars
<1>7. CASE ReadFault
  BY <1>1, <1>7 DEF ChannelInv, ReadFault, channelVars
<1>8. CASE Publish
  <2>1. pc \in {"loop", "publish"} /\ pc' = "idle"
    BY <1>1, <1>8 DEF Publish, ReaderInv
  <2>2. QED
    BY <1>1, <1>8, <2>1 DEF ChannelInv, Publish, channelVars
<1>9. QED
  BY <1>2, <1>3, <1>4, <1>5, <1>6, <1>7, <1>8, StepCases DEF KernelWrite, vars

-----------------------------------------------------------------------------
(* The buffer *)

(* Operators on the records depend on the records alone. *)
LEMMA SameRecords ==
  ASSUME written' = written
  PROVE  \A n : /\ StartOf(n)' = StartOf(n) /\ SizeOf(n)' = SizeOf(n) /\ EndOf(n)' = EndOf(n)
                /\ InOnePiece(n)' <=> InOnePiece(n)
  BY DEF StartOf, SizeOf, EndOf, InOnePiece

(* Calls that do not touch the buffer, and a fault in the middle of one. *)
LEMMA BufferQuiet ==
  ASSUME IInv, UNCHANGED <<bufferVars, got>>,
         \/ UNCHANGED <<pc, tail, head>>
         \/ pc # "publish" /\ pc' \notin {"loop", "publish"}
  PROVE  BufferInv'
<1>1. TypeOK /\ RecordsInv /\ RingInv /\ ReaderInv /\ GotInv
  BY DEF IInv, BufferInv
<1>2. UNCHANGED <<data_head, data_tail, ring, written, got>>
  BY DEF bufferVars
<1>3. \A n : /\ StartOf(n)' = StartOf(n) /\ SizeOf(n)' = SizeOf(n) /\ EndOf(n)' = EndOf(n)
             /\ InOnePiece(n)' <=> InOnePiece(n)
  BY <1>2, SameRecords
<1>4. RecordsInv' /\ RingInv'
  BY <1>1, <1>2, <1>3 DEF RecordsInv, RingInv
<1>5. \A x \in Nat : Boundary(x)' <=> Boundary(x)
  BY <1>2, <1>3 DEF Boundary
<1>6. CASE UNCHANGED <<pc, tail, head>>
  <2>1. Passed' = Passed /\ Returned' = Returned
    BY <1>2, <1>6 DEF Passed, Returned
  <2>2. ReaderInv'
    BY <1>1, <1>2, <1>3, <1>6 DEF ReaderInv, Boundary
  <2>3. GotInv'
    BY <1>1, <1>2, <1>3, <2>1 DEF GotInv
  <2>4. QED
    BY <1>4, <2>2, <2>3 DEF BufferInv
<1>7. CASE pc # "publish" /\ pc' \notin {"loop", "publish"}
  <2>1. ReaderInv'
    BY <1>1, <1>2, <1>3, <1>7 DEF ReaderInv, Boundary
  <2>2. Returned' = Returned /\ Passed' = data_tail
    BY <1>2, <1>7 DEF Returned, Passed
  <2>3. Passed \in Nat /\ data_tail \in Nat /\ data_tail <= Passed
    BY <1>1 DEF Passed, ReaderInv, TypeOK
  <2>4. \A n \in 1 .. Len(written) : StartOf(n) < Passed' => StartOf(n) < Passed
    BY <1>1, <2>2, <2>3, RecordTypes
  <2>5. GotInv'
    BY <1>1, <1>2, <1>3, <2>2, <2>4 DEF GotInv
  <2>6. QED
    BY <1>4, <2>1, <2>5 DEF BufferInv
<1>8. QED
  BY <1>6, <1>7

LEMMA BufferFresh ==
  ASSUME EmptyRing, pc' = "id"
  PROVE  BufferInv'
<1>1. Len(written') = 0 /\ Len(got') = 0 /\ written' = << >> /\ data_head' = 0 /\ data_tail' = 0
  BY DEF EmptyRing
<1>2. RecordsInv' /\ RingInv'
  BY <1>1, PerfAssumption DEF RecordsInv, RingInv
<1>3. ReaderInv' /\ GotInv'
  BY <1>1 DEF ReaderInv, GotInv, Boundary
<1>4. QED
  BY <1>2, <1>3 DEF BufferInv

LEMMA BufferBounds ==
  ASSUME IInv, ReadBounds
  PROVE  BufferInv'
<1>1. TypeOK /\ RecordsInv /\ RingInv /\ ReaderInv /\ GotInv
  BY DEF IInv, BufferInv
<1>2. UNCHANGED <<data_head, data_tail, ring, written, got>> /\ pc = "idle"
  BY DEF ReadBounds, bufferVars
<1>3. tail' = data_tail /\ head' = data_head /\ pc' \in {"idle", "loop"}
  BY <1>1 DEF ReadBounds, RecordsInv, TypeOK
<1>4. \A n : /\ StartOf(n)' = StartOf(n) /\ SizeOf(n)' = SizeOf(n) /\ EndOf(n)' = EndOf(n)
             /\ InOnePiece(n)' <=> InOnePiece(n)
  BY <1>2, SameRecords
<1>5. RecordsInv' /\ RingInv'
  BY <1>1, <1>2, <1>4 DEF RecordsInv, RingInv
<1>6. ReaderInv'
  <2>1. data_tail \in Nat /\ data_head \in Nat /\ data_tail <= data_head
    BY <1>1 DEF TypeOK, RecordsInv
  <2>2. \A n \in 1 .. Len(written) : EndOf(n) <= data_head
    BY <1>1 DEF RecordsInv
  <2>3. Boundary(data_tail)' /\ Boundary(tail)'
    BY <1>1, <1>2, <1>3, <1>4 DEF ReaderInv, Boundary
  <2>4. QED
    BY <1>2, <1>3, <1>4, <2>1, <2>2, <2>3 DEF ReaderInv
<1>7. Returned' = Returned /\ Passed' = Passed
  BY <1>2, <1>3 DEF Returned, Passed
<1>8. GotInv'
  BY <1>1, <1>2, <1>4, <1>7 DEF GotInv
<1>9. QED
  BY <1>5, <1>6, <1>8 DEF BufferInv

LEMMA BufferPublish ==
  ASSUME IInv, Publish
  PROVE  BufferInv'
<1>1. TypeOK /\ RecordsInv /\ RingInv /\ ReaderInv /\ GotInv
  BY DEF IInv, BufferInv
<1>2. UNCHANGED <<data_head, ring, written, tail, head, got>> /\ pc \in {"loop", "publish"}
  BY DEF Publish
<1>3. /\ Boundary(tail) /\ data_tail <= tail /\ tail <= head /\ head <= data_head
      /\ data_tail \in Nat /\ tail \in Nat /\ head \in Nat /\ data_head \in Nat /\ RingWords \in Nat
  BY <1>1, <1>2, PerfAssumption DEF ReaderInv, TypeOK
<1>4. pc' = "idle" /\ data_tail' = tail
  BY <1>3 DEF Publish
<1>5. \A n : /\ StartOf(n)' = StartOf(n) /\ SizeOf(n)' = SizeOf(n) /\ EndOf(n)' = EndOf(n)
             /\ InOnePiece(n)' <=> InOnePiece(n)
  BY <1>2, SameRecords
<1>6. RecordsInv'
  <2>1. data_tail' <= data_head /\ data_head - data_tail' <= RingWords
    BY <1>1, <1>3, <1>4 DEF RecordsInv
  <2>2. QED
    BY <1>1, <1>2, <1>5, <2>1 DEF RecordsInv
<1>7. RingInv'
  <2>1. \A n \in 1 .. Len(written) : data_tail' <= StartOf(n) => data_tail <= StartOf(n)
    BY <1>1, <1>3, <1>4, RecordTypes
  <2>2. QED
    BY <1>1, <1>2, <1>5, <2>1 DEF RingInv
<1>8. ReaderInv'
  BY <1>2, <1>3, <1>4, <1>5 DEF ReaderInv, Boundary
<1>9. Returned' = tail /\ Passed' = Passed /\ Returned \in Nat /\ Returned <= tail
  BY <1>2, <1>3, <1>4 DEF Returned, Passed
<1>10. \A j \in 1 .. Len(got) : got[j].record \in 1 .. Len(written) /\ EndOf(got[j].record) <= tail
  <2>1. \A j \in 1 .. Len(got) : got[j].record \in 1 .. Len(written) /\ EndOf(got[j].record) <= Returned
    BY <1>1 DEF GotInv
  <2>2. \A j \in 1 .. Len(got) : EndOf(got[j].record) \in Nat
    BY <1>1, <2>1, RecordTypes
  <2>3. QED
    BY <1>3, <1>9, <2>1, <2>2
<1>11. GotInv'
  BY <1>1, <1>2, <1>5, <1>9, <1>10 DEF GotInv
<1>12. QED
  BY <1>6, <1>7, <1>8, <1>11 DEF BufferInv

(* A record looked at by the reader, and perhaps returned. *)
LEMMA BufferEntry ==
  ASSUME IInv, ReadEntry
  PROVE  BufferInv'
<1> DEFINE L == Len(written)
<1>1. TypeOK /\ RecordsInv /\ RingInv /\ ReaderInv /\ GotInv
  BY DEF IInv, BufferInv
<1>2. UNCHANGED <<data_head, data_tail, ring, written, head>> /\ pc = "loop" /\ tail < head
  BY DEF ReadEntry, bufferVars
<1>3. /\ number \in 1 .. L /\ StartOf(number) = tail /\ kind_of(number) = written[number].kind
      /\ entry_size = SizeOf(number) /\ EndOf(number) <= head
  BY <1>1, <1>2, HeaderFound
<1>4. PICK r \in 1 .. L : r = number
  BY <1>3
<1>5. \A n : /\ StartOf(n)' = StartOf(n) /\ SizeOf(n)' = SizeOf(n) /\ EndOf(n)' = EndOf(n)
             /\ InOnePiece(n)' <=> InOnePiece(n)
  BY <1>2, SameRecords
<1>6. /\ L \in Nat /\ r \in Nat /\ tail \in Nat /\ data_tail \in Nat /\ head \in Nat
      /\ \A n \in 1 .. L : /\ StartOf(n) \in Nat /\ SizeOf(n) \in {3, 5} /\ EndOf(n) \in Nat
                           /\ StartOf(n) < EndOf(n)
  BY <1>1, RecordTypes DEF TypeOK
<1>7. /\ Boundary(data_tail) /\ data_tail <= tail /\ head <= data_head
      /\ \A n \in 1 .. L : StartOf(n) < head => EndOf(n) <= head
  BY <1>1, <1>2 DEF ReaderInv
<1>8. tail' = EndOf(r) /\ tail < tail'
  <2>1. tail' = tail + SizeOf(r)
    BY <1>3, <1>4 DEF ReadEntry
  <2>2. QED
    BY <1>3, <1>4, <1>6, <2>1 DEF EndOf
<1>9. RecordsInv' /\ RingInv'
  BY <1>1, <1>2, <1>5 DEF RecordsInv, RingInv
<1>10. Boundary(tail)'
  <2>1. CASE r = L
    <3>1. written # << >>
      BY <1>6, <2>1
    <3>2. data_head = EndOf(r)
      BY <1>1, <2>1, <3>1 DEF RecordsInv
    <3>3. QED
      BY <1>2, <1>8, <3>2 DEF Boundary
  <2>2. CASE r # L
    <3>1. r \in 1 .. L - 1 /\ r + 1 \in 1 .. L
      BY <1>6, <2>2
    <3>2. StartOf(r + 1) = EndOf(r)
      BY <1>1, <3>1 DEF RecordsInv
    <3>3. \E n \in 1 .. L : StartOf(n) = tail'
      BY <1>8, <3>1, <3>2
    <3>4. QED
      BY <1>2, <1>5, <3>3 DEF Boundary
  <2>3. QED
    BY <2>1, <2>2
<1>11. ReaderInv'
  <2>1. Boundary(data_tail)'
    BY <1>2, <1>5, <1>7 DEF Boundary
  <2>2. data_tail <= tail' /\ tail' <= head
    BY <1>3, <1>4, <1>6, <1>7, <1>8
  <2>3. QED
    BY <1>2, <1>5, <1>7, <1>10, <2>1, <2>2 DEF ReaderInv
<1>12. PICK accepted \in Accepts :
         /\ got' = IF accepted
                   THEN Append(got, [record |-> number, intact |-> Within(SampleWords)]) ELSE got
         /\ pc' = IF accepted THEN "publish" ELSE "loop"
  BY DEF ReadEntry
<1>13. Returned = data_tail /\ Passed = tail /\ Passed' = tail'
  BY <1>2, <1>12 DEF Returned, Passed
<1>14. ASSUME NEW n \in 1 .. L, StartOf(n) < tail'
       PROVE  n = r \/ StartOf(n) < tail
  <2>1. ~(r < n)
    <3>1. r < n => EndOf(r) <= StartOf(n)
      BY <1>1 DEF RecordsInv
    <3>2. QED
      BY <1>6, <1>8, <1>14, <3>1
  <2>2. n < r => EndOf(n) <= StartOf(r)
    BY <1>1 DEF RecordsInv
  <2>3. StartOf(r) = tail /\ StartOf(n) < EndOf(n)
    BY <1>3, <1>4, <1>6
  <2>4. QED
    BY <1>6, <2>1, <2>2, <2>3
<1>15. written[r].kind = "own" /\ InOnePiece(r) => accepted
  <2>1. written[r].start = tail
    BY <1>3, <1>4 DEF StartOf
  <2>2. position \in Nat /\ RingWords \in Nat
    BY <1>6, PerfAssumption DEF position
  <2>3. InOnePiece(r) => Within(3)
    BY <2>1, <2>2 DEF InOnePiece, Within, position, SampleWords
  <2>4. written[r].kind = "own" /\ Within(3) => Accepts = {TRUE}
    BY <1>3, <1>4 DEF Accepts
  <2>5. QED
    <3>1. SUFFICES ASSUME written[r].kind = "own", InOnePiece(r) PROVE accepted
      OBVIOUS
    <3>2. accepted \in {TRUE}
      BY <1>12, <2>3, <2>4, <3>1
    <3>3. QED
      BY <3>2, Zenon
<1>16. /\ \A j \in 1 .. Len(got) : got[j].record \in 1 .. L /\ EndOf(got[j].record) <= data_tail
       /\ \A j, k \in 1 .. Len(got) : j < k => got[j].record < got[k].record
       /\ \A n \in 1 .. L : written[n].kind = "own" /\ StartOf(n) < tail /\ InOnePiece(n) =>
            \E j \in 1 .. Len(got) : got[j].record = n
  BY <1>1, <1>13 DEF GotInv
<1>17. CASE ~accepted
  <2>1. got' = got /\ pc' = "loop"
    BY <1>12, <1>17
  <2>2. Returned' = data_tail
    BY <1>2, <2>1 DEF Returned
  <2>3. \A n \in 1 .. L : written[n].kind = "own" /\ StartOf(n) < tail' /\ InOnePiece(n) =>
          \E j \in 1 .. Len(got) : got[j].record = n
    BY <1>14, <1>15, <1>16, <1>17
  <2>4. GotInv'
    BY <1>2, <1>5, <1>13, <1>16, <2>1, <2>2, <2>3 DEF GotInv
  <2>5. QED
    BY <1>9, <1>11, <2>4 DEF BufferInv
<1>18. CASE accepted
  <2> DEFINE entry == [record |-> number, intact |-> Within(SampleWords)]
             G == Len(got)
             Got == [record : Nat, intact : BOOLEAN]
  <2>1. got' = Append(got, entry) /\ pc' = "publish" /\ entry.record = r
    BY <1>4, <1>12, <1>18
  <2>2. Returned' = tail'
    BY <2>1 DEF Returned
  <2>3. got \in Seq(Got)
    BY <1>1 DEF TypeOK
  <2> HIDE DEF entry, Got
  <2>4. /\ G \in Nat /\ Len(got') = G + 1 /\ got'[G + 1] = entry
        /\ \A j \in 1 .. G : got'[j] = got[j]
    BY <2>1, <2>3
  <2>5. \A j \in 1 .. Len(got') : j \in 1 .. G \/ j = G + 1
    BY <2>4
  <2>6. ASSUME NEW j \in 1 .. G
        PROVE  EndOf(got[j].record) <= tail' /\ got[j].record < r
    <3> DEFINE x == got[j].record
    <3>1. x \in 1 .. L /\ EndOf(x) <= data_tail
      BY <1>16
    <3> HIDE DEF x
    <3>2. StartOf(x) < EndOf(x) /\ EndOf(x) \in Nat /\ StartOf(x) \in Nat /\ tail' \in Nat
      BY <1>6, <1>8, <3>1
    <3>3. EndOf(x) <= tail' /\ StartOf(x) < tail /\ StartOf(r) = tail
      BY <1>3, <1>4, <1>6, <1>7, <1>8, <3>1, <3>2
    <3>4. x # r
      BY <1>6, <3>3
    <3>5. ~(r < x)
      <4>1. r < x => EndOf(r) <= StartOf(x)
        BY <1>1, <3>1 DEF RecordsInv
      <4>2. QED
        BY <1>6, <1>8, <3>2, <3>3, <4>1
    <3>6. x < r
      BY <1>6, <3>1, <3>4, <3>5
    <3>7. QED
      BY <3>3, <3>6 DEF x
  <2>7. ASSUME NEW j \in 1 .. Len(got')
        PROVE  got'[j].record \in 1 .. L /\ EndOf(got'[j].record) <= tail'
    <3>1. CASE j \in 1 .. G
      BY <1>16, <2>4, <2>6, <3>1
    <3>2. CASE j = G + 1
      <4>1. EndOf(r) <= EndOf(r)
        BY <1>6
      <4>2. QED
        BY <1>8, <2>1, <2>4, <3>2, <4>1
    <3>3. QED
      BY <2>5, <3>1, <3>2
  <2>8. ASSUME NEW j \in 1 .. Len(got'), NEW k \in 1 .. Len(got'), j < k
        PROVE  got'[j].record < got'[k].record
    <3>1. j \in 1 .. G
      BY <2>4, <2>8
    <3>2. CASE k \in 1 .. G
      BY <1>16, <2>4, <2>8, <3>1, <3>2
    <3>3. CASE k = G + 1
      BY <2>1, <2>4, <2>6, <3>1, <3>3
    <3>4. QED
      BY <2>5, <3>2, <3>3
  <2>9. ASSUME NEW n \in 1 .. L, written[n].kind = "own", StartOf(n) < tail', InOnePiece(n)
        PROVE  \E j \in 1 .. Len(got') : got'[j].record = n
    <3>1. CASE n = r
      <4>1. G + 1 \in 1 .. Len(got') /\ got'[G + 1].record = n
        BY <2>1, <2>4, <3>1
      <4>2. QED
        BY <4>1
    <3>2. CASE n # r
      <4>1. StartOf(n) < tail
        BY <1>14, <2>9, <3>2
      <4>2. PICK j \in 1 .. G : got[j].record = n
        BY <1>16, <2>9, <4>1
      <4>3. j \in 1 .. Len(got') /\ got'[j].record = n
        BY <2>4, <4>2
      <4>4. QED
        BY <4>3
    <3>3. QED
      BY <3>1, <3>2
  <2>10. GotInv'
    <3>1. \A j \in 1 .. Len(got') :
            got'[j].record \in 1 .. Len(written') /\ EndOf(got[j].record)' <= Returned'
      BY <1>2, <2>2, <2>7 DEF EndOf, StartOf, SizeOf
    <3>2. QED
      BY <1>2, <1>5, <1>13, <2>8, <2>9, <3>1 DEF GotInv
  <2>11. QED
    BY <1>9, <1>11, <2>10 DEF BufferInv
<1>19. QED
  BY <1>17, <1>18

(* A record written by the kernel: it takes none of the words from         *)
(* data_tail on, and lies behind all that the reader has seen.             *)
LEMMA BufferWrite ==
  ASSUME IInv, KernelWrite
  PROVE  BufferInv'
<1> DEFINE L == Len(written)
<1>1. TypeOK /\ RecordsInv /\ RingInv /\ ReaderInv /\ GotInv
  BY DEF IInv, BufferInv
<1>2. PICK kind \in Kinds :
        /\ data_head + header_size(kind) - data_tail <= RingWords
        /\ ring' = [w \in DOMAIN ring |->
                      LET k == (w - data_head) % RingWords
                      IN IF k < header_size(kind) THEN <<L + 1, k>> ELSE ring[w]]
        /\ data_head' = data_head + header_size(kind)
        /\ written' = Append(written, [kind |-> kind, start |-> data_head])
  BY DEF KernelWrite
<1>3. UNCHANGED <<pc, data_tail, tail, head, got>>
  BY DEF KernelWrite
<1>4. PICK size \in {3, 5} : size = header_size(kind)
  BY HeaderSize
<1>5. PICK last \in Nat : last = L + 1
  BY <1>1, RecordTypes
<1>6. /\ L \in Nat /\ data_head \in Nat /\ data_tail \in Nat /\ RingWords \in Nat \ {0}
      /\ tail \in Nat /\ head \in Nat /\ written \in Seq(Record)
      /\ \A n \in 1 .. L : /\ StartOf(n) \in Nat /\ SizeOf(n) \in {3, 5} /\ EndOf(n) \in Nat
                           /\ StartOf(n) < EndOf(n)
  BY <1>1, RecordTypes, PerfAssumption DEF TypeOK
<1>7. data_head' = data_head + size /\ (data_head + size) - data_tail <= RingWords
  BY <1>2, <1>4, <1>6
<1>8. /\ Len(written') = last /\ written' # << >>
      /\ written'[last] = [kind |-> kind, start |-> data_head]
      /\ \A n \in 1 .. L : written'[n] = written[n]
  <2> DEFINE rec == [kind |-> kind, start |-> data_head]
  <2>1. rec \in Record /\ written' = Append(written, rec)
    BY <1>2, <1>6 DEF Record
  <2> HIDE DEF rec
  <2>2. /\ Len(written') = L + 1 /\ written'[L + 1] = rec
        /\ \A n \in 1 .. L : written'[n] = written[n]
    BY <1>6, <2>1
  <2>3. written' # << >>
    BY <1>6, <2>2
  <2>4. QED
    BY <1>5, <2>2, <2>3 DEF rec
<1>9. \A n \in 1 .. L : /\ StartOf(n)' = StartOf(n) /\ SizeOf(n)' = SizeOf(n) /\ EndOf(n)' = EndOf(n)
                        /\ InOnePiece(n)' <=> InOnePiece(n)
  BY <1>8 DEF StartOf, SizeOf, EndOf, InOnePiece
<1>10. StartOf(last)' = data_head /\ SizeOf(last)' = size /\ EndOf(last)' = data_head + size
  BY <1>4, <1>8 DEF StartOf, SizeOf, EndOf
<1>11. \A n \in 1 .. last : n \in 1 .. L \/ n = last
  BY <1>5, <1>6
<1>12. 1 .. L \subseteq 1 .. last /\ last \in 1 .. last /\ last \notin 1 .. L
  BY <1>5, <1>6
<1>13. data_tail <= data_head /\ \A n \in 1 .. L : EndOf(n) <= data_head
  BY <1>1 DEF RecordsInv
<1>14. RecordsInv'
  <2>1. data_head' = EndOf(last)'
    BY <1>7, <1>10
  <2>2. ASSUME NEW n \in 1 .. last
        PROVE  EndOf(n)' <= data_head'
    <3>1. CASE n \in 1 .. L
      BY <1>6, <1>7, <1>9, <1>13, <3>1
    <3>2. CASE n = last
      BY <1>6, <1>7, <1>10, <3>2
    <3>3. QED
      BY <1>11, <3>1, <3>2
  <2>3. ASSUME NEW n \in 1 .. last - 1
        PROVE  StartOf(n + 1)' = EndOf(n)'
    <3>1. n \in 1 .. L
      BY <1>5, <1>6
    <3>2. CASE n = L
      <4>1. written # << >> /\ n + 1 = last
        BY <1>5, <1>6, <3>1, <3>2
      <4>2. data_head = EndOf(n)
        BY <1>1, <3>2, <4>1 DEF RecordsInv
      <4>3. QED
        BY <1>9, <1>10, <3>1, <4>1, <4>2
    <3>3. CASE n # L
      <4>1. n \in 1 .. L - 1 /\ n + 1 \in 1 .. L
        BY <1>6, <3>1, <3>3
      <4>2. QED
        BY <1>1, <1>9, <3>1, <4>1 DEF RecordsInv
    <3>4. QED
      BY <3>2, <3>3
  <2>4. ASSUME NEW m \in 1 .. last, NEW n \in 1 .. last, m < n
        PROVE  EndOf(m)' <= StartOf(n)'
    <3>1. m \in 1 .. L
      BY <1>5, <1>6, <2>4
    <3>2. CASE n = last
      BY <1>9, <1>10, <1>13, <3>1, <3>2
    <3>3. CASE n \in 1 .. L
      BY <1>1, <1>9, <2>4, <3>1, <3>3 DEF RecordsInv
    <3>4. QED
      BY <1>11, <3>2, <3>3
  <2>5. data_tail' <= data_head' /\ data_head' - data_tail' <= RingWords
    BY <1>3, <1>6, <1>7, <1>13
  <2>6. QED
    BY <1>8, <2>1, <2>2, <2>3, <2>4, <2>5 DEF RecordsInv
<1>15. \A w \in 0 .. RingWords - 1 :
         ring'[w] = IF (w - data_head) % RingWords < size
                    THEN <<last, (w - data_head) % RingWords>> ELSE ring[w]
  BY <1>1, <1>2, <1>4, <1>5 DEF TypeOK
<1>16. \A a \in Nat : a % RingWords \in 0 .. RingWords - 1
  BY <1>6
<1>17. RingInv'
  <2>1. ASSUME NEW n \in 1 .. L, data_tail <= StartOf(n), NEW k \in 0 .. SizeOf(n) - 1
        PROVE  ring'[(StartOf(n) + k) % RingWords] = <<n, k>>
    <3> DEFINE a == StartOf(n) + k
               w == a % RingWords
    <3>1. a \in Nat /\ data_tail <= a /\ a < EndOf(n)
      <4>1. PICK s \in Nat : s = StartOf(n)
        BY <1>6
      <4>2. PICK z \in {3, 5} : z = SizeOf(n)
        BY <1>6
      <4>3. a = s + k /\ EndOf(n) = s + z /\ k \in 0 .. z - 1 /\ data_tail <= s
        BY <2>1, <4>1, <4>2 DEF EndOf
      <4> HIDE DEF a
      <4>4. QED
        BY <1>6, <4>3
    <3>2. a < data_head /\ data_head < a + RingWords
      BY <1>6, <1>7, <1>13, <3>1
    <3>3. ring[w] = <<n, k>> /\ w \in 0 .. RingWords - 1
      BY <1>1, <1>16, <2>1, <3>1 DEF RingInv
    <3> HIDE DEF a
    <3>4. (w - data_head) % RingWords = RingWords - (data_head - a)
      BY <1>6, <3>1, <3>2, WordBehind
    <3>5. ~((w - data_head) % RingWords < size)
      <4>1. RingWords - (data_head - a) >= size
        BY <1>6, <1>7, <3>1, <3>2
      <4>2. RingWords - (data_head - a) \in Int
        BY <1>6, <3>1
      <4> HIDE DEF w
      <4>3. QED
        BY <3>4, <4>1, <4>2
    <3> HIDE DEF w
    <3>6. ring'[w] = <<n, k>>
      BY <1>15, <3>3, <3>5
    <3>7. QED
      BY <3>6 DEF w, a
  <2>2. ASSUME NEW k \in 0 .. size - 1
        PROVE  ring'[(data_head + k) % RingWords] = <<last, k>>
    <3> DEFINE w == (data_head + k) % RingWords
    <3>1. k \in 0 .. RingWords - 1 /\ data_head + k \in Nat
      BY <1>6, <1>7, <1>13
    <3>2. w \in 0 .. RingWords - 1
      BY <1>16, <3>1
    <3>3. (w - data_head) % RingWords = k
      BY <1>6, <3>1, WordAhead
    <3> HIDE DEF w
    <3>4. k < size
      OBVIOUS
    <3>5. ring'[w] = <<last, k>>
      BY <1>15, <3>2, <3>3, <3>4
    <3>6. QED
      BY <3>5 DEF w
  <2>3. ASSUME NEW n \in 1 .. last, data_tail' <= StartOf(n)', NEW k \in 0 .. SizeOf(n)' - 1
        PROVE  ring'[(StartOf(n)' + k) % RingWords] = <<n, k>>
    <3>1. CASE n \in 1 .. L
      BY <1>3, <1>9, <2>1, <2>3, <3>1
    <3>2. CASE n = last
      BY <1>10, <2>2, <2>3, <3>2
    <3>3. QED
      BY <1>11, <3>1, <3>2
  <2>4. QED
    BY <1>8, <2>3 DEF RingInv
<1>18. ASSUME NEW x, Boundary(x)
       PROVE  x = data_head' \/ \E n \in 1 .. last : StartOf(n)' = x
  <2>1. CASE x = data_head
    BY <1>10, <1>12, <2>1
  <2>2. CASE \E n \in 1 .. L : StartOf(n) = x
    BY <1>9, <1>12, <2>2
  <2>3. QED
    BY <1>18, <2>1, <2>2 DEF Boundary
<1>19. ReaderInv'
  <2>1. Boundary(data_tail)'
    BY <1>1, <1>3, <1>8, <1>18 DEF ReaderInv, Boundary
  <2>2. CASE pc' \in {"loop", "publish"}
    <3>1. /\ Boundary(tail) /\ data_tail <= tail /\ tail <= head /\ head <= data_head
          /\ \A n \in 1 .. L : StartOf(n) < head => EndOf(n) <= head
      BY <1>1, <1>3, <2>2 DEF ReaderInv
    <3>2. Boundary(tail)'
      BY <1>3, <1>8, <1>18, <3>1 DEF Boundary
    <3>3. head <= data_head'
      BY <1>6, <1>7, <3>1
    <3>4. ASSUME NEW n \in 1 .. last, StartOf(n)' < head
          PROVE  EndOf(n)' <= head
      <4>1. n # last
        BY <1>6, <1>10, <3>1, <3>4
      <4>2. n \in 1 .. L
        BY <1>11, <4>1
      <4>3. QED
        BY <1>9, <3>1, <3>4, <4>2
    <3>5. QED
      BY <1>3, <1>8, <2>1, <3>1, <3>2, <3>3, <3>4 DEF ReaderInv
  <2>3. CASE pc' \notin {"loop", "publish"}
    BY <2>1, <2>3 DEF ReaderInv
  <2>4. QED
    BY <2>2, <2>3
<1>20. GotInv'
  <2>1. Returned' = Returned /\ Passed' = Passed
    BY <1>3 DEF Returned, Passed
  <2>2. Passed \in Nat /\ Passed <= data_head
    BY <1>1, <1>6, <1>13 DEF Passed, ReaderInv
  <2>3. ASSUME NEW j \in 1 .. Len(got)
        PROVE  got[j].record \in 1 .. last /\ EndOf(got[j].record)' <= Returned
    <3>1. PICK x \in 1 .. L : x = got[j].record /\ EndOf(x) <= Returned
      BY <1>1 DEF GotInv
    <3>2. EndOf(x)' <= Returned
      BY <1>9, <3>1
    <3>3. x = got'[j].record
      BY <1>3, <3>1
    <3>4. QED
      BY <1>12, <3>1, <3>2, <3>3
  <2>4. ASSUME NEW n \in 1 .. last, written'[n].kind = "own", StartOf(n)' < Passed, InOnePiece(n)'
        PROVE  \E j \in 1 .. Len(got) : got[j].record = n
    <3>1. n # last
      BY <1>6, <1>10, <2>2, <2>4
    <3>2. n \in 1 .. L
      BY <1>11, <3>1
    <3>3. written[n].kind = "own" /\ StartOf(n) < Passed /\ InOnePiece(n)
      BY <1>8, <1>9, <2>4, <3>2
    <3>4. QED
      BY <1>1, <3>2, <3>3 DEF GotInv
  <2>5. QED
    BY <1>1, <1>3, <1>8, <2>1, <2>3, <2>4 DEF GotInv
<1>21. QED
  BY <1>14, <1>17, <1>19, <1>20 DEF BufferInv

LEMMA BufferStep ==
  ASSUME IInv, [Next]_vars
  PROVE  BufferInv'
<1>1. CASE KernelWrite \/ ReadBounds \/ ReadEntry \/ Publish
  BY <1>1, BufferWrite, BufferBounds, BufferEntry, BufferPublish
<1>2. CASE Control
  <2>1. UNCHANGED <<bufferVars, got>> /\ pc # "publish" /\ pc' \notin {"loop", "publish"}
    BY <1>2 DEF Control, BindOpen, BindId, unbind, CallSetPeriod, Disable, SetNewPeriod, Enable
  <2>2. QED
    BY <2>1, BufferQuiet
<1>3. CASE BindMap
  <2>1. CASE pc' = "id"
    BY <1>3, <2>1, BufferFresh DEF BindMap
  <2>2. CASE pc' # "id"
    <3>1. UNCHANGED <<bufferVars, got>> /\ pc # "publish" /\ pc' = "idle"
      BY <1>3, <2>2 DEF BindMap
    <3>2. QED
      BY <3>1, BufferQuiet
  <2>3. QED
    BY <2>1, <2>2
<1>4. CASE ReadFault
  <2>1. UNCHANGED <<bufferVars, got>> /\ pc # "publish" /\ pc' = "segv"
    BY <1>4 DEF ReadFault
  <2>2. QED
    BY <2>1, BufferQuiet
<1>5. CASE UNCHANGED vars
  <2>1. UNCHANGED <<bufferVars, got>> /\ UNCHANGED <<pc, tail, head>>
    BY <1>5 DEF vars
  <2>2. QED
    BY <2>1, BufferQuiet
<1>6. QED
  BY <1>1, <1>2, <1>3, <1>4, <1>5, StepCases

(* IInv holds whatever the client calls and whichever system call fails. *)
THEOREM Invariance == Spec => []IInv
<1>1. ASSUME IInv, [Next]_vars
      PROVE  IInv'
  BY <1>1, TypeStep, ChannelStep, BufferStep DEF IInv
<1>2. QED
  BY <1>1, InitIInv, PTL DEF Spec

-----------------------------------------------------------------------------
(* The results *)

(* Every variable of the channel, its buffer and readSample keeps its type. *)
THEOREM TypeCorrect == Spec => []TypeOK
<1>1. IInv => TypeOK
  BY DEF IInv
<1>2. QED
  BY <1>1, Invariance, PTL

(* Between calls m_period says whether and how often the kernel samples,   *)
(* and without a descriptor there is neither event nor mapping, whichever  *)
(* of the system calls of bind and setPeriod failed.                       *)
THEOREM PeriodKept == Spec => []PeriodInForce
<1>1. IInv => PeriodInForce
  BY DEF IInv, ChannelInv, PeriodInForce
<1>2. QED
  BY <1>1, Invariance, PTL

(* The asserts of readSample on data_tail and data_head and those of       *)
(* unbind hold for every client.                                           *)
THEOREM AssertsHold == Spec => []NeverAborts
<1>1. IInv => NeverAborts
  BY DEF IInv, ChannelInv, NeverAborts
<1>2. QED
  BY <1>1, Invariance, PTL

(* The kernel never overwrites a record readSample has still to look at.   *)
THEOREM UnreadKept == Spec => []UnreadIntact
<1>1. IInv => UnreadIntact
  <2> SUFFICES ASSUME IInv, pc = "loop", NEW n \in 1 .. Len(written), tail <= StartOf(n),
                      NEW k \in 0 .. SizeOf(n) - 1
               PROVE  ring[(StartOf(n) + k) % RingWords] = <<n, k>>
    BY DEF UnreadIntact, StartOf, SizeOf
  <2>1. TypeOK /\ RingInv /\ data_tail <= tail
    BY DEF IInv, BufferInv, ReaderInv
  <2>2. data_tail <= StartOf(n)
    BY <2>1, RecordTypes DEF TypeOK
  <2>3. QED
    BY <2>1, <2>2 DEF RingInv
<1>2. QED
  BY <1>1, Invariance, PTL

(* readSample returns the samples of the process in order, none twice, and *)
(* passes over none that lies in the buffer in one piece.                  *)
THEOREM SamplesOnce == Spec => []EachSampleOnce
<1>1. IInv => EachSampleOnce
  <2> SUFFICES ASSUME IInv PROVE EachSampleOnce
    OBVIOUS
  <2>1. TypeOK /\ GotInv /\ Passed \in Nat /\ data_tail \in Nat /\ data_tail <= Passed
    BY DEF IInv, BufferInv, ReaderInv, Passed, TypeOK
  <2>2. \A n \in 1 .. Len(written) : written[n].start < data_tail => StartOf(n) < Passed
    BY <2>1, RecordTypes DEF StartOf
  <2>3. QED
    BY <2>1, <2>2 DEF GotInv, EachSampleOnce
<1>2. QED
  BY <1>1, Invariance, PTL

=============================================================================
