---------------------------- MODULE PerfSampleCpu ----------------------------
(***************************************************************************)
(* misc/perf_sample_cpu.cc: a channel with one perf event and one ring     *)
(* buffer per core, and main, which samples the cores group by group.      *)
(* Every system call of bind may fail, and so may the ioctls that switch   *)
(* an event.  The kernel runs beside the reader: it appends records to the *)
(* buffer of any enabled core, and drops them when the room up to          *)
(* data_tail does not suffice.  Offsets count words of 8 bytes.  Time is   *)
(* external: how long processing takes, and when ten seconds are over.     *)
(***************************************************************************)
EXTENDS Integers, Sequences, FiniteSetsExt

CONSTANTS
  NumCores,    \* the values of the argument num_cores
  GroupSize,   \* num_cores_in_group
  Visits,      \* rounds of main's loop over groups
  RingWords,   \* BUFFER_SIZE
  Margin,      \* words left unread in front of the head
  InitSleep, MaxSleep,   \* sleep_duration_us: first value and upper limit
  Durations,   \* process_duration_us
  MaxRecords   \* bound on the records of all cores together

ASSUME CpuAssumption ==
  /\ {GroupSize, Visits} \subseteq Nat \ {0} /\ RingWords \in Nat \ {0, 1}
  /\ NumCores \cup {Margin, InitSleep, MaxSleep, MaxRecords} \cup Durations \subseteq Nat
  /\ InitSleep <= MaxSleep

VARIABLES
  pc,         \* next step of the program, or how it ended: "returned",
              \* "assert", "tailassert", "sigfpe", "segv"
  num_cores,
  fd_,        \* fd_[i] >= 0
  buffer_,    \* buffer_[i]: "null", "mapped" or "failed" (MAP_FAILED)
  event,      \* the kernel's event of core i: "none", "off" or "on"
  written,    \* records the kernel put into buffer i: [kind, start], in order
  data_tail,  \* data_tail of buffer i
  visit,      \* i of main's loop
  core,       \* index of the loop over cores
  tail, head, max_size, sleep,   \* local variables of readPebsData, 0 where
              \* they are out of scope
  seen        \* seen[i]: numbers of the records processed, in order

channelVars == <<num_cores, fd_, buffer_>>
readVars == <<tail, head, max_size, sleep, seen>>
vars == <<pc, channelVars, event, written, data_tail, visit, core, readVars>>

Core == 0 .. num_cores - 1

(* A sample has header, pid and tid, address; a throttle record one more   *)
(* word.                                                                   *)
SampleWords == 3
header_size(kind) == IF kind = "sample" THEN SampleWords ELSE 4

data_head(i) ==
  IF written[i] = << >> THEN 0
  ELSE LET last == written[i][Len(written[i])] IN last.start + header_size(last.kind)

Init ==
  /\ pc = "bind"
  /\ num_cores \in NumCores
  /\ fd_ = [i \in Core |-> FALSE]
  /\ buffer_ = [i \in Core |-> "null"]
  /\ event = [i \in Core |-> "none"]
  /\ written = [i \in Core |-> << >>]
  /\ data_tail = [i \in Core |-> 0]
  /\ visit = 0 /\ core = 0
  /\ tail = 0 /\ head = 0 /\ max_size = 0 /\ sleep = 0
  /\ seen = [i \in Core |-> << >>]

-----------------------------------------------------------------------------
(* The kernel *)

TotalRecords == MapThenSumSet(LAMBDA i : Len(written[i]), Core)

KernelWrite ==
  \E i \in Core, kind \in {"sample", "throttle"} :
    /\ event[i] = "on" /\ buffer_[i] = "mapped"
    /\ TotalRecords < MaxRecords
    /\ data_head(i) + header_size(kind) - data_tail[i] <= RingWords
    /\ written' = [written EXCEPT ![i] = Append(@, [kind |-> kind, start |-> data_head(i)])]
    /\ UNCHANGED <<pc, channelVars, event, data_tail, visit, core, readVars>>

(* The record last written over a word of the buffer of core i. *)
RecordAt(i, word) ==
  Max({0} \cup {n \in 1 .. Len(written[i]) :
                  (word - written[i][n].start) % RingWords < header_size(written[i][n].kind)})

-----------------------------------------------------------------------------
(* The channel *)

(* Mutant: a failed mmap takes the descriptor back without closing it. *)
BindForgets ==
  /\ pc = "bind" /\ core < num_cores
  /\ \/ pc' = "main" /\ UNCHANGED <<fd_, buffer_, event, core>>
     \/ /\ event' = [event EXCEPT ![core] = "off"]
        /\ \/ /\ pc' = "main" /\ UNCHANGED <<core, fd_, buffer_>>
           \/ /\ fd_' = [fd_ EXCEPT ![core] = TRUE]
              /\ buffer_' = [buffer_ EXCEPT ![core] = "mapped"]
              /\ core' = core + 1 /\ pc' = "bind"
  /\ UNCHANGED <<num_cores, written, data_tail, visit, readVars>>

(* bind, one core at a time: open the event, map its buffer, ask for its   *)
(* id.  The first failure ends it where it is; the constructor ignores     *)
(* that.                                                                   *)
bind ==
  /\ pc = "bind" /\ core < num_cores
  /\ \/ pc' = "main" /\ UNCHANGED <<fd_, buffer_, event, core>>
     \/ /\ fd_' = [fd_ EXCEPT ![core] = TRUE]
        /\ event' = [event EXCEPT ![core] = "off"]
        /\ \/ /\ buffer_' = [buffer_ EXCEPT ![core] = "failed"]
              /\ pc' = "main" /\ UNCHANGED core
           \/ /\ buffer_' = [buffer_ EXCEPT ![core] = "mapped"]
              /\ \/ pc' = "main" /\ UNCHANGED core
                 \/ pc' = "bind" /\ core' = core + 1
  /\ UNCHANGED <<num_cores, written, data_tail, visit, readVars>>

EndBind ==
  /\ pc = "bind" /\ core = num_cores
  /\ pc' = "main"
  /\ UNCHANGED <<channelVars, event, written, data_tail, visit, core, readVars>>

(* unbind, called by the destructor: munmap of MAP_FAILED fails its assert. *)
unbind ==
  /\ pc = "unbind"
  /\ IF \E i \in Core : fd_[i] /\ buffer_[i] # "mapped"
     THEN pc' = "assert" /\ UNCHANGED <<fd_, buffer_, event>>
     ELSE /\ pc' = "returned"
          /\ fd_' = [i \in Core |-> FALSE]
          /\ buffer_' = [i \in Core |-> IF fd_[i] THEN "null" ELSE buffer_[i]]
          /\ event' = [i \in Core |-> IF fd_[i] THEN "none" ELSE event[i]]
  /\ UNCHANGED <<num_cores, written, data_tail, visit, core, readVars>>

-----------------------------------------------------------------------------
(* main *)

c0 == (visit * GroupSize) % num_cores
c1 == c0 + GroupSize

(* The assert on num_cores lets 0 through, which then divides. *)
NextGroup ==
  /\ pc = "main"
  /\ pc' = IF num_cores % GroupSize # 0 THEN "assert"
           ELSE IF visit = Visits THEN "unbind"
           ELSE IF num_cores = 0 THEN "sigfpe" ELSE "enable"
  /\ core' = IF pc' = "enable" THEN c0 ELSE core
  /\ UNCHANGED <<channelVars, event, written, data_tail, visit, readVars>>

(* enable, whose result main ignores. *)
enable ==
  /\ pc = "enable" /\ core < c1
  /\ \/ /\ fd_[core]
        /\ \/ event' = [event EXCEPT ![core] = "on"]
           \/ UNCHANGED event
        /\ core' = core + 1 /\ UNCHANGED pc
     \/ /\ ~fd_[core]
        /\ pc' = "assert" /\ UNCHANGED <<event, core>>
  /\ UNCHANGED <<channelVars, written, data_tail, visit, readVars>>

(* readPebsData starts over with the sleep duration; counters are local. *)
BeginRead ==
  /\ pc = "enable" /\ core = c1
  /\ pc' = "sleep" /\ sleep' = InitSleep
  /\ UNCHANGED <<channelVars, event, written, data_tail, visit, core, tail, head, max_size, seen>>

(* disable: every core of the group has a descriptor by now. *)
disable ==
  /\ pc = "disable" /\ core < c1
  /\ \/ event' = [event EXCEPT ![core] = "off"]
     \/ UNCHANGED event
  /\ core' = core + 1
  /\ UNCHANGED <<pc, channelVars, written, data_tail, visit, readVars>>

EndVisit ==
  /\ pc = "disable" /\ core = c1
  /\ pc' = "main" /\ visit' = visit + 1 /\ sleep' = 0
  /\ UNCHANGED <<channelVars, event, written, data_tail, core, tail, head, max_size, seen>>

-----------------------------------------------------------------------------
(* readPebsData *)

Wake ==
  /\ pc = "sleep"
  /\ pc' = "bounds" /\ core' = c0 /\ max_size' = 0
  /\ UNCHANGED <<channelVars, event, written, data_tail, visit, tail, head, sleep, seen>>

MaxOf(a, b) == IF a > b THEN a ELSE b

ReadBounds ==
  /\ pc = "bounds" /\ core < c1
  /\ IF buffer_[core] = "mapped"
     THEN /\ tail' = data_tail[core] /\ head' = data_head(core)
          /\ max_size' = MaxOf(max_size, head' - tail')
          /\ pc' = IF tail' <= head' THEN "loop" ELSE "tailassert"
     ELSE pc' = "segv" /\ UNCHANGED <<tail, head, max_size>>
  /\ UNCHANGED <<channelVars, event, written, data_tail, visit, core, sleep, seen>>

position == tail % RingWords
number == RecordAt(core, position)

(* Mutant: every record is taken to be a sample. *)
EntrySizeFixed == SampleWords

(* The size in the header; a blank buffer holds zeros. *)
entry_size == IF number = 0 THEN 0 ELSE header_size(written[core][number].kind)

(* The sample is read as one struct, past the end of the buffer if the     *)
(* record goes on at its start; then pid and address may be anything.      *)
ReadEntry ==
  /\ pc = "loop" /\ tail + Margin < head
  /\ tail' = tail + entry_size
  /\ seen' = [seen EXCEPT ![core] = Append(@, number)]
  /\ UNCHANGED <<pc, channelVars, event, written, data_tail, visit, core, head, max_size, sleep>>

(* Or the page behind the buffer is not mapped. *)
ReadFault ==
  /\ pc = "loop" /\ tail + Margin < head
  /\ number # 0 /\ written[core][number].kind = "sample"
  /\ position + SampleWords > RingWords
  /\ pc' = "segv"
  /\ UNCHANGED <<channelVars, event, written, data_tail, visit, core, readVars>>

Publish ==
  /\ pc = "loop" /\ tail + Margin >= head
  /\ IF tail <= head
     THEN /\ data_tail' = [data_tail EXCEPT ![core] = tail]
          /\ core' = core + 1 /\ pc' = "bounds"
     ELSE pc' = "tailassert" /\ UNCHANGED <<data_tail, core>>
  /\ tail' = 0 /\ head' = 0
  /\ UNCHANGED <<channelVars, event, written, visit, max_size, sleep, seen>>

target_size == RingWords \div 2

(* Mutant: the time for processing is always taken off; below 0 it wraps,  *)
(* and what is left is the limit.                                          *)
NewSleepWraps(process) ==
  LET total == sleep + process
      new == IF max_size > 0 THEN (total * target_size) \div max_size ELSE total
  IN IF new < process \/ new - process > MaxSleep THEN MaxSleep ELSE new - process

(* The time between two rounds is scaled so that the fullest buffer would  *)
(* be half full, less the time for processing if there is that much.       *)
new_sleep(process) ==
  LET total == sleep + process
      new == IF max_size > 0 THEN (total * target_size) \div max_size ELSE total
      net == IF new > process THEN new - process ELSE new
  IN IF net > MaxSleep THEN MaxSleep ELSE net

(* After each round the time may be over. *)
EndRound ==
  /\ pc = "bounds" /\ core = c1
  /\ \E process \in Durations : sleep' = new_sleep(process)
  /\ \/ pc' = "sleep" /\ UNCHANGED core
     \/ pc' = "disable" /\ core' = c0
  /\ max_size' = 0
  /\ UNCHANGED <<channelVars, event, written, data_tail, visit, tail, head, seen>>

Ended == pc \in {"returned", "assert", "tailassert", "sigfpe", "segv"} /\ UNCHANGED vars

readPebsData == BeginRead \/ Wake \/ ReadBounds \/ ReadEntry \/ ReadFault \/ Publish \/ EndRound

Next ==
  \/ KernelWrite \/ bind \/ EndBind \/ unbind
  \/ NextGroup \/ enable \/ disable \/ EndVisit \/ readPebsData \/ Ended

Spec == Init /\ [][Next]_vars

-----------------------------------------------------------------------------

(* Over all rounds and visits of a core, its records are processed in the  *)
(* order they were written, none twice and none left out, although the     *)
(* last ones wait for the next round and the kernel keeps writing.  What   *)
(* is published is where the next record starts, except while the round    *)
(* has not reached it or if it faults there; the asserts on the tail hold. *)
EachRecordOnce ==
  /\ pc # "tailassert"
  /\ \A i \in Core :
       /\ \A j \in 1 .. Len(seen[i]) : seen[i][j] = j
       /\ ~(pc \in {"loop", "segv"} /\ core = i) =>
            data_tail[i] = IF Len(seen[i]) < Len(written[i])
                           THEN written[i][Len(seen[i]) + 1].start ELSE data_head(i)

(* main does not return from sampling a core without a buffer, although it *)
(* ignores how far bind got: if it returns, every core it visited had      *)
(* descriptor and buffer, and none of those bind has made is left.  (A     *)
(* failure at a core never visited, or of the last ioctl for a visited     *)
(* one, goes unnoticed: main then returns as after a complete bind.)       *)
ReturnsComplete ==
  /\ pc = "unbind" =>
       \A i \in Core : i < Visits * GroupSize => fd_[i] /\ buffer_[i] = "mapped"
  /\ pc = "returned" =>
       \A i \in Core : event[i] = "none" /\ buffer_[i] = "null"

(* For every duration d of processing, the sleep keeps its limit, a buffer *)
(* at most half full never shortens it, and one at least half full         *)
(* lengthens it only where processing takes so long that the time scaled   *)
(* down to half a buffer leaves none to sleep, and then not beyond d.      *)
SleepFollowsLoad ==
  [][ pc = "bounds" /\ pc' \in {"sleep", "disable"} =>
        /\ sleep' <= MaxSleep
        /\ max_size <= target_size => sleep' >= sleep
        /\ max_size >= target_size =>
             \/ sleep' <= sleep
             \/ \E d \in Durations :
                  sleep' <= d /\ (sleep + d) * target_size < (d + 1) * max_size
    ]_vars

=============================================================================
