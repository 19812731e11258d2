---------------------------- MODULE PerfSamplePid ----------------------------
(***************************************************************************)
(* Channel of misc/perf_sample_pid.cc: a perf event, the ring buffer the   *)
(* kernel fills with records, and a client that calls bind, setPeriod,     *)
(* readSample and unbind in any order (main is one such client).  Every    *)
(* system call may fail.  The kernel runs beside the client: it appends a  *)
(* record whenever the event is enabled and the room up to data_tail       *)
(* suffices, and otherwise drops it.  Offsets count words of 8 bytes, the  *)
(* size of a record header.                                                *)
(***************************************************************************)
EXTENDS Integers, Sequences

CONSTANTS
  RingWords,     \* PAGE_SIZE * RING_BUFFER_PAGES, in words
  Periods,       \* the sample periods asked for, 0 among them
  MaxRecords     \* bound on the records written between bind and unbind

ASSUME PerfAssumption ==
  /\ RingWords \in Nat \ {0}
  /\ Periods \subseteq Nat
  /\ MaxRecords \in Nat

(* own: a sample of the bound event and process; foreign: one with another *)
(* pid ("kernel bug"); other: a record that is no sample.                  *)
Kinds == {"own", "foreign", "other"}

SampleWords == 5   \* struct perf_sample: header, id, pid and tid, address, cpu
OtherWords == 3    \* for instance PERF_RECORD_LOST
InitPeriod == 100000   \* INIT_SAMPLE_PERIOD

header_size(kind) == IF kind = "other" THEN OtherWords ELSE SampleWords

VARIABLES
  pc,          \* "idle" between calls, or the next step of the call
  m_fd,        \* m_fd >= 0
  m_period,    \* m_period
  event,       \* the kernel's event: "none", "disabled" or "enabled"
  kperiod,     \* the kernel's sample period
  mapped,      \* the ring buffer is mapped
  arg,         \* argument of setPeriod
  data_head,   \* written by the kernel
  data_tail,   \* written by readSample
  ring,        \* ring[w]: <<record number, word of that record>> at word w
  written,     \* the records written, [kind, start], in order
  tail, head,  \* local variables of readSample
  got          \* what readSample has returned: [record, intact], in order

channelVars == <<m_fd, m_period, event, kperiod, mapped, arg>>
bufferVars == <<data_head, data_tail, ring, written>>
vars == <<pc, channelVars, bufferVars, tail, head, got>>

Blank == <<0, 0>>

EmptyRing ==
  /\ data_head' = 0 /\ data_tail' = 0
  /\ ring' = [w \in 0 .. RingWords - 1 |-> Blank]
  /\ written' = << >>
  /\ got' = << >>

Init ==
  /\ pc = "idle"
  /\ m_fd = FALSE /\ m_period = 0
  /\ event = "none" /\ kperiod = 0 /\ mapped = FALSE
  /\ arg = 0
  /\ data_head = 0 /\ data_tail = 0
  /\ ring = [w \in 0 .. RingWords - 1 |-> Blank]
  /\ written = << >>
  /\ tail = 0 /\ head = 0
  /\ got = << >>

-----------------------------------------------------------------------------
(* The kernel *)

KernelWrite ==
  \E kind \in Kinds :
    LET n == Len(written) + 1
        size == header_size(kind) IN
    /\ event = "enabled" /\ mapped
    /\ n <= MaxRecords
    /\ data_head + size - data_tail <= RingWords
    /\ ring' = [w \in DOMAIN ring |->
                  LET k == (w - data_head) % RingWords
                  IN IF k < size THEN <<n, k>> ELSE ring[w]]
    /\ data_head' = data_head + size
    /\ written' = Append(written, [kind |-> kind, start |-> data_head])
    /\ UNCHANGED <<pc, channelVars, data_tail, tail, head, got>>

-----------------------------------------------------------------------------
(* bind: open the event, map its buffer, ask for its id. *)

BindOpen ==
  /\ pc = "idle"
  /\ ~m_fd
  /\ \/ pc' = "mmap" /\ event' = "disabled" /\ kperiod' = InitPeriod
     \/ pc' = "idle" /\ UNCHANGED <<event, kperiod>>
  /\ UNCHANGED <<m_fd, m_period, mapped, arg, bufferVars, tail, head, got>>

BindMap ==
  /\ pc = "mmap"
  /\ \/ pc' = "id" /\ mapped' = TRUE /\ EmptyRing /\ UNCHANGED event
     \/ pc' = "idle" /\ event' = "none" /\ UNCHANGED <<mapped, bufferVars, got>>
  /\ UNCHANGED <<m_fd, m_period, kperiod, arg, tail, head>>

BindId ==
  /\ pc = "id"
  /\ pc' = "idle"
  /\ \/ m_fd' = TRUE /\ m_period' = 0 /\ UNCHANGED <<event, mapped>>
     \/ mapped' = FALSE /\ event' = "none" /\ UNCHANGED <<m_fd, m_period>>
  /\ UNCHANGED <<kperiod, arg, bufferVars, tail, head, got>>

(* unbind, also called by the destructor; munmap and close may not fail. *)
unbind ==
  /\ pc = "idle"
  /\ m_fd
  /\ IF mapped /\ event # "none"
     THEN pc' = "idle" /\ mapped' = FALSE /\ event' = "none" /\ m_fd' = FALSE
     ELSE pc' = "abort" /\ UNCHANGED <<mapped, event, m_fd>>
  /\ UNCHANGED <<m_period, kperiod, arg, bufferVars, tail, head, got>>

-----------------------------------------------------------------------------
(* setPeriod: nothing to do for the period in force, disable for 0, else   *)
(* set the period and enable the event if it was not.                      *)

CallSetPeriod ==
  /\ pc = "idle"
  /\ m_fd
  /\ \E period \in Periods \ {m_period} :
       arg' = period /\ pc' = IF period = 0 THEN "disable" ELSE "period"
  /\ UNCHANGED <<m_fd, m_period, event, kperiod, mapped, bufferVars, tail, head, got>>

Disable ==
  /\ pc = "disable"
  /\ pc' = "idle"
  /\ \/ event' = "disabled" /\ m_period' = 0
     \/ UNCHANGED <<event, m_period>>
  /\ UNCHANGED <<m_fd, kperiod, mapped, arg, bufferVars, tail, head, got>>

(* Mutant: m_period is set along with the kernel's period. *)
SetPeriodEarly ==
  /\ pc = "period"
  /\ \/ /\ kperiod' = arg
        /\ m_period' = arg
        /\ pc' = IF m_period = 0 THEN "enable" ELSE "idle"
     \/ pc' = "idle" /\ UNCHANGED <<kperiod, m_period>>
  /\ UNCHANGED <<m_fd, event, mapped, arg, bufferVars, tail, head, got>>

SetNewPeriod ==
  /\ pc = "period"
  /\ \/ /\ kperiod' = arg
        /\ IF m_period = 0 THEN pc' = "enable" /\ UNCHANGED m_period
           ELSE pc' = "idle" /\ m_period' = arg
     \/ pc' = "idle" /\ UNCHANGED <<kperiod, m_period>>
  /\ UNCHANGED <<m_fd, event, mapped, arg, bufferVars, tail, head, got>>

Enable ==
  /\ pc = "enable"
  /\ pc' = "idle"
  /\ \/ event' = "enabled" /\ m_period' = arg
     \/ UNCHANGED <<event, m_period>>
  /\ UNCHANGED <<m_fd, kperiod, mapped, arg, bufferVars, tail, head, got>>

-----------------------------------------------------------------------------
(* readSample *)

(* Mutant: the room is handed back before the records are read. *)
ReadBoundsEarly ==
  /\ pc = "idle"
  /\ m_fd
  /\ tail' = data_tail /\ head' = data_head
  /\ data_tail' = data_head
  /\ pc' = IF data_tail = data_head THEN "idle" ELSE "loop"
  /\ UNCHANGED <<channelVars, data_head, ring, written, got>>

ReadBounds ==
  /\ pc = "idle"
  /\ m_fd
  /\ tail' = data_tail /\ head' = data_head
  /\ pc' = IF data_tail > data_head THEN "abort"
           ELSE IF data_tail = data_head THEN "idle" ELSE "loop"
  /\ UNCHANGED <<channelVars, bufferVars, got>>

position == tail % RingWords

(* Number and kind of the record whose header is at position. *)
number == ring[position][1]
kind_of(n) == IF n = 0 THEN "other" ELSE written[n].kind

(* Mutant: every record is taken to have the size of a sample. *)
EntrySizeFixed == SampleWords

entry_size == header_size(kind_of(number))

(* The entry is read as one struct, from position on and past the end of   *)
(* the buffer where the record goes on at its start.                       *)
Within(words) == position + words <= RingWords

(* The conditions on type, id and pid.  What lies behind the buffer may    *)
(* look like anything.                                                     *)
Accepts ==
  IF kind_of(number) = "other" THEN {FALSE}
  ELSE IF Within(3) THEN {kind_of(number) = "own"}
  ELSE BOOLEAN

(* Mutant: no break, the search goes on behind a sample it has found. *)
ReadEntryOn ==
  /\ pc = "loop"
  /\ tail < head
  /\ tail' = tail + entry_size
  /\ \E accepted \in Accepts :
       /\ got' = IF accepted /\ tail + entry_size >= head
                 THEN Append(got, [record |-> number, intact |-> Within(SampleWords)])
                 ELSE got
       /\ pc' = "loop"
  /\ UNCHANGED <<channelVars, bufferVars, head>>

ReadEntry ==
  /\ pc = "loop"
  /\ tail < head
  /\ tail' = tail + entry_size
  /\ \E accepted \in Accepts :
       /\ got' = IF accepted
                 THEN Append(got, [record |-> number, intact |-> Within(SampleWords)])
                 ELSE got
       /\ pc' = IF accepted THEN "publish" ELSE "loop"
  /\ UNCHANGED <<channelVars, bufferVars, head>>

(* Reading behind the buffer may also hit a page that is not mapped: with  *)
(* the id or the pid, or with the address of a sample that is accepted.    *)
ReadFault ==
  /\ pc = "loop"
  /\ tail < head
  /\ kind_of(number) # "other"
  /\ ~Within(IF kind_of(number) = "own" THEN SampleWords ELSE 3)
  /\ pc' = "segv"
  /\ UNCHANGED <<channelVars, bufferVars, tail, head, got>>

(* The loop ends, with a sample or without; data_tail tells the kernel. *)
Publish ==
  /\ pc = "publish" \/ (pc = "loop" /\ tail >= head)
  /\ IF tail <= head THEN pc' = "idle" /\ data_tail' = tail
     ELSE pc' = "abort" /\ UNCHANGED data_tail
  /\ UNCHANGED <<channelVars, data_head, ring, written, tail, head, got>>

bind == BindOpen \/ BindMap \/ BindId

setPeriod == CallSetPeriod \/ Disable \/ SetNewPeriod \/ Enable

readSample == ReadBounds \/ ReadEntry \/ ReadFault \/ Publish

Ended == pc \in {"abort", "segv"} /\ UNCHANGED vars

Next == KernelWrite \/ bind \/ unbind \/ setPeriod \/ readSample \/ Ended

Spec == Init /\ [][Next]_vars

-----------------------------------------------------------------------------

(* None of the asserts fails: data_tail never overtakes data_head, neither *)
(* when the reader starts nor after it has added up the sizes in the       *)
(* records, and unbind finds what bind has set up.                         *)
NeverAborts == pc # "abort"

(* What the reader is about to read has not been overwritten: the kernel   *)
(* gets the room back only after the loop is done with it.                 *)
UnreadIntact ==
  pc = "loop" =>
    \A n \in 1 .. Len(written) :
      tail <= written[n].start /\ written[n].start < head =>
        \A k \in 0 .. header_size(written[n].kind) - 1 :
          ring[(written[n].start + k) % RingWords] = <<n, k>>

(* The record lies in the buffer in one piece. *)
InOnePiece(n) == (written[n].start % RingWords) + SampleWords <= RingWords

(* Samples are returned in the order they were taken, none twice, and up   *)
(* to data_tail none is missing that lies in one piece.                    *)
EachSampleOnce ==
  /\ \A j, k \in 1 .. Len(got) : j < k => got[j].record < got[k].record
  /\ \A n \in 1 .. Len(written) :
       written[n].kind = "own" /\ written[n].start < data_tail /\ InOnePiece(n) =>
         \E j \in 1 .. Len(got) : got[j].record = n

(* Between calls the channel knows whether it is sampling and how often,   *)
(* whichever ioctl has failed before ("a zero period disables"); a bind    *)
(* that failed half-way, and unbind, leave no descriptor or mapping.       *)
PeriodInForce ==
  pc = "idle" =>
    IF m_fd THEN /\ event = "enabled" <=> m_period # 0
                 /\ event = "enabled" => kperiod = m_period
    ELSE event = "none" /\ ~mapped

(* A sample carries "the virtual address in this process to be accessed":  *)
(* every returned sample is one the kernel wrote, in full.                 *)
SampleIntact ==
  \A j \in 1 .. Len(got) : got[j].intact /\ written[got[j].record].kind = "own"

=============================================================================
