# Verification of coherence_benchmark

TLA+ models, TLC runs and TLAPS proofs for `coherence_benchmark`, a set of C++
programs that measure cache-coherence latency, memory latency and bandwidth.
The measured numbers are only as good as the protocols around them: threads
must take turns in the order the measurement assumes, pointer chains must visit
every line once, timers must time what the printed divisor says. Those are the
things modelled here. Source paths below are relative to the repository root;
`PROJECT.json` maps each definition to the lines it stands for.

## 1. Inventory of the system

| Part | State | Operations | Modelled in |
|---|---|---|---|
| `src/coherence/multiple_rdwr` | per partition: `flow_mutex_`, `flow_cond_`, `flow_step_`, memory; per thread: packet with timer and loop counters; main's phase | `thread_rmw`, `incrFlowStep`, create/join twice, `setTimerEnabled`, `dumpTimer` | `RdwrFlow`, `TurnRing` |
| `src/utils/lib_threading.hh` (`ThreadHelper`) | threads, attributes, packets, routines | constructor (thread-to-core map), `setRoutine`, `create`, `join` | `ThreadHelper`; create/join in `RdwrFlow`, `PthreadRdwr`, `RdwrMain` |
| `src/utils/lib_timing` | global map of named timers and its mutex | `start_timer`, `end_timer` (plain, per reference, per iteration) | `TimerPool` |
| `src/utils/lib_mem_region`: memory | two regions (native; native, remote node or device), raw addresses, device descriptor | constructor, three allocators, `migrate`, destructor | `RegionAlloc` |
| `src/utils/lib_mem_region`: lists | the pointers stored in the memory | `randomizeSequence_`, `stride_init`, `page_random_init`, `all_random_init`, `getStartPoint`, `getHalfPoint` | `RandomizeSequence`, `PointerList` |
| chases of `thread_rmw` and `warm_up` | one or two pointers, a counter | read-only, read-modify-write, two streams | `PointerList`, run by `LatBw` |
| `src/misc/pthread_mutex` | one mutex, condition variable, step | chain of threads, destroy | `PthreadMutex` |
| `src/misc/pthread_rdwr` | mutex, condition variable, read-write lock, step | one writer, many readers, destroy | `PthreadRdwr` |
| `src/misc/perf_sample_pid` | perf event, ring buffer shared with the kernel, period | `bind`, `setPeriod`, `readSample`, `unbind` | `PerfSamplePid` |
| `MemSetup` (`multiple_rdwr.hh`), main of `multiple_rdwr`, `src/coherence/smt_rdwr` | sizes in 32 bits, partitions, two threads with a region and a timer each | construct, map threads, create, warm-up, timed passes, join, report | `RdwrMain` |
| `src/misc/perf_sample_cpu` | per core: descriptor, ring buffer, event; sleep time | `bind`, `enable`, `readPebsData`, `disable`, `unbind`, loop over groups | `PerfSampleCpu` |
| `src/lat_bw/lat_mem_rd`, `bw_mem` | a region, iteration counters, references made | construct, list, check, warm-up, timed phase, migrate, destroy; four kernels | `LatBw` |
| `src/misc/contiguous_mem_alloc`, `virt_to_phys_user` | entries of the page map, pool of pages, picked groups | read the map, sort, pick groups, shuffle; look up pages with short reads | `ContigAlloc` |
| `src/misc/move_pages`, tests, build files | none of their own | | not modelled |

**Interactions.** A program's main builds a `MemRegion` (allocation, then a list
pattern that uses the shuffle), a `ThreadHelper` (core map), creates the threads
and joins them. The threads meet only in the flow state of the partitions and in
the timer pool. The sampling programs share a ring buffer with the kernel, the
page-map programs read what the kernel may change at any time.

**Hard behaviours.** Interleavings of threads around condition variables,
spurious wake-ups, one phase starting from the state another has left, wake-ups
lost between test and wait, timers under a common key, sizes that do not divide
each other, allocation failures half-way through a constructor, failures of
system calls half-way through `bind` and `setPeriod`, a producer (the kernel)
overtaking the reader, a page map that is stale when it is used, threads that
could not be created, 32-bit counters against 64-bit sizes. `PROJECT.json`
lists them under `hazards`, each at its line.

**What makes each part correct.**

- multiple_rdwr: strict rotation on every partition; nobody sleeps through its
  turn; no read-modify-write is lost; the second phase starts from a clean
  state; exactly the announced passes are timed; threads stay together; main
  returns.
- ThreadHelper: threads are spread evenly over cores.
- Timer pool: a thread's reading is the time since its own start; the pool does
  not grow.
- Memory: the region lies in what was allocated, is given back the way it was
  obtained, and only its own pages are migrated.
- Lists: the shuffle is a permutation that starts at 0; a pass of the announced
  length touches each line once; payload stores do not damage the list; two
  streams do not meet.
- lat_mem_rd, bw_mem: the printed time is divided by the references made; a
  kernel accesses each half line of the active part once and nothing else.
- smt_rdwr: what is reported has been done, by threads that exist, over memory
  that is not empty; main ends.
- Page maps: picked groups are contiguous unless the kernel moved a page; an
  address put together from short reads is the right one.
- pthread examples: order, locks idle when destroyed, end.
- Sampling: asserts hold, unread records stay intact, each sample is returned
  once and in order, the period known is the period in force, no core is sampled
  without a buffer although the result of bind is ignored, what bind has made is
  given back, and the sleeping time follows the load.

## 2. Modules

**TurnRing** is the abstract specification: partitions circulate through the
threads in order, and a thread passes the partitions in ascending order, a fixed
number of times. No locks, no main program.

**RdwrFlow** is `multiple_rdwr`. `pc[t]` names the statement thread `t` executes
next; `flow_mutex`, `flow_step` and `payload` are per partition; `i` and
`part_idx` are the loop counters. Waiting gives up the mutex and blocks in one
step, as POSIX promises; `SpuriousWake` returns from the wait unasked.
`*(p + 4) += 1` is a load and a store, so a lost update is possible in
principle. One payload word stands for all lines of a partition, as they are
treated alike under the mutex. `CreateThread`, `JoinThread` and `EnableTimers`
are main, which runs the threads twice without resetting the steps. The module
shows `ImplementsRing` with `turn <- flow_step` and
`visits <- ` the number of finished visits computed from the loop counters.

**PthreadMutex** and **PthreadRdwr** are the two example programs, statement by
statement. PthreadMutex implements the same ring with one partition and one
visit. In PthreadRdwr `start_routines` is filled by `setRoutine` and a thread
without a routine faults.

**ThreadHelper** is the constructor: `thread_step` is checked, then one thread
per step is placed by `core_id`, whose 32-bit sum wraps modulo `Word`.

**TimerPool** is `lib_timing`: a call takes the mutex, works on the map in two
steps and returns. `began` and `open` are history for the properties. A Timer
is in the map before it is started (`Unset`), so a missing mutex would be seen.

**RandomizeSequence** is `randomizeSequence_`, one action per round of each of
its loops, with every outcome of `rand()` and the last index modulo `Word`.

**PointerList** writes the lists and chases them. Sizes and offsets are bytes,
as in the code, and a pointer or payload word takes `Pointer` of them (8 in the
source). Addresses are pairs of region and byte offset through `getOffsetAddr_`.
That function checks the first byte of a store only, and nobody relates strides
to the size of a pointer; so an access is inside (`InRegion`) when its last byte
is, stores less than a pointer apart share bytes (`Overlap`), and only a pointer
that no later store has torn is part of the list. An access that ends behind its
region, a failed assert, a followed word that is no pointer of the list and an
overwritten list pointer are states of their own. It uses the shuffles that
RandomizeSequence is shown to produce.

**RegionAlloc** is the life of a `MemRegion` with every allocation free to fail
and malloc free to return any alignment.

**PerfSamplePid** is the sampling channel. The client may call its operations in
any order, every system call may fail, and the kernel appends own, foreign and
other records whenever there is room up to `data_tail`. Words are 8 bytes. A
record that would be read past the end of the ring may give anything or fault.

**LatBw** composes both with the programs `lat_mem_rd` and `bw_mem`: one step per
allocation, list, load (`lat_mem_rd`) or round of a kernel (`bw_mem`), and the
phases warm-up, timed, migrate, warm-up, timed. A third program, `client`, makes
one pass of any chase, as `multiple_rdwr` and `smt_rdwr` do on regions of sizes
that need not divide each other. `Construct`, `Migrate` and `Return` are
RegionAlloc's actions, `InitList`, `Load` and `ClientChase` PointerList's; `todo`
lists the phases still to come. All four kernels access the same words, so
`Kernel` is one action, with a second pointer for the copy.

**RdwrMain** extends ThreadHelper with the mains of `multiple_rdwr` and
`smt_rdwr`. `Outcome` is what the construction of a partition comes to once the
sizes have been cut to 32 bits (`Bytes`). `multiple_rdwr` stops at `flow`, where
RdwrFlow begins; `smt_rdwr` goes on to its report. `create` may fail; `join` of a
thread that does not exist crashes or comes back at once, as POSIX leaves it
undefined. `pool` and `missed` follow the keys of the named timers.

**ContigAlloc** extends RandomizeSequence with the programs that use a shuffle
or a page map. `MovePage` is the kernel, which migrates or swaps out a page at
any time; the read of the whole map copies entry by entry, may be short, and
shows zeros to a process without privilege. An entry has two halves so that
`pread` can come back in between. `exact` remembers whether the map that was
read still holds.

**PerfSampleCpu** is the sampler of whole cores. Each core has its own buffer;
the kernel writes to every enabled one while the reader walks through another,
and stops short of the head by `Margin` (128 bytes). `bind` may stop at any of
its three system calls, which the constructor ignores. How long processing
takes is chosen from `Durations`; the scaling in floating point is modelled as
the exact quotient rounded down.

**MCLatBw**, **MCRdwrMain**, **MCContigAlloc**, **MCTimerPool** hold only values
for constants.
The theorems about a module are in the module of its name with `Proofs` behind it:
**RdwrFlowProofs**, **PthreadMutexProofs**, **PthreadRdwrProofs**,
**PerfSamplePidProofs**, **PerfSampleCpuProofs**, **LatBwProofs** (with RegionAlloc
and PointerList), **ContigAllocProofs** (with RandomizeSequence). **UtilsProofs**
has those about TimerPool, ThreadHelper and RdwrMain.

## 3. Runs

| Run | Bounds | Shows |
|---|---|---|
| `rdwr_flow` | 3 threads, 3 partitions, 3 iterations, 2 spurious wake-ups | all properties of RdwrFlow. Three threads are needed for a broadcast to matter (a signal could wake the wrong waiter), three partitions for threads to be on three different ones, three iterations for a first, a middle and a last. |
| `rdwr_per_ref` | 2/2/2, none | finding 1 |
| `rdwr_main` | up to 9 threads, 6 cores, steps to 7, starts to 15 for the usual command; a KB of 4 bytes in words of 16 values, regions to 8 KB, partitions to 5 KB, 0 to 3 iterations | `Balanced` for all mappings, more threads than cores, steps that do not divide, and wrapping sums. A partition of 4 KB wraps to nothing and one of 5 KB to 1 KB, so both consequences of the 32-bit product occur with every pattern: what is reported has been done and main ends. |
| `timer_pool` | 2 threads, a key each and a common one, clock to 2 | readings never too long (so no half-made timer is seen), exact for private keys, pool does not grow |
| `contig_alloc` | up to 5 elements, index just wide enough; pools of 4 pages in any order over frames with and without an aligned group of 3, one pool of 6 pages with two groups, 1 page moved | permutation, start in front, contiguous groups, right addresses, termination. A pool of four pages has one page more than a group, so that a group may begin at the wrong page. |
| `lat_bw` | a pointer of 2 bytes; regions of 0 to 16, of 40 and of 50 bytes, lines of 1 to 6 bytes (shorter than a pointer, whole pointers, and neither) and of 8 to 12 (a payload fits, just fits, or does not), second region at and off line and pointer boundaries, OS page of 8, loops of 4 bytes and 2 loads, up to 2 iterations | construction to destruction with each kind of memory; a pass covers every line once, streams are disjoint, lists stay inside the regions, own pages migrated, work as reported. Two bytes are the smallest pointer that can be cut, by a region's end or by another pointer. |
| `bw_two_regions` | same | finding 2 |
| `pthread_mutex` | 4 threads, 2 spurious wake-ups | ring, idle when destroyed, ends |
| `pthread_rdwr` | 1 writer, 3 readers, 2 spurious wake-ups | the read-write lock keeps readers behind the writer's last unlock, which comes after it has freed the mutex; ends |
| `perf_sample_pid` | ring of 12 words, records of 5 and 3, 4 records, periods 0, 1, 2 | asserts, intact records, each sample once, period in force and nothing leaked. The ring holds two samples and not three, so it is full, wraps and is refilled within four records. |
| `perf_sample_wrap` | same, periods 0, 1 | finding 3 |
| `perf_sample_cpu` | 0, 2, 3, 4 or 6 cores in groups of 2, 2 visits, rings of 10 words, records of 3 and 4, 4 records in all, sleep 2 of at most 5 | each record once and in order over several rounds and visits, no core sampled without a buffer, regulation of the sleep. With 2 cores the same group is visited twice, with 6 one is never visited, 3 fails the assert and 0 divides by zero. A ring of 10 words lets a round process two records, so a fault may come between them. |

Deadlock is checked in every run but `timer_pool`, where the bounded clock and
idle threads are free to stop; in the others a terminated program stutters by an
action of its own, so a real deadlock would be reported.

Every property has a mutant in `PROJECT.json`: a definition changed the way a
bug would change it, under which the run finds the property violated.

**Fairness.** Liveness is claimed for RdwrFlow, RdwrMain, ContigAlloc,
PthreadMutex and PthreadRdwr. Each assumes only weak fairness of main and of
each thread (ContigAlloc: of its single thread, and none of the kernel):
the operating system runs whoever can run. No fairness is asked of the mutex
(which thread gets it is open, and a thread that keeps losing it is never needed
by the others until its turn, when the others block) and none of spurious
wake-ups, which are bounded by `MaxSpurious`: without a bound a thread could be
woken forever, which says nothing about the program.

**Findings.**

1. `dumpTimer` (`multiple_rdwr.hh:130`) prints a `per-ref(ns)` that divides by the
   lines of one partition and `iterations - 1`, while each timed iteration adds a
   pass per partition. With several partitions the number is too large by their
   count. Run `rdwr_per_ref`.
2. The kernels of `bw_mem` (`bw_mem.cc:115`) walk linearly over `active_size` bytes
   from the start of region 1, although the usage offers a second region "subset
   of total size" and MemRegion puts that into a block of its own. Run
   `bw_two_regions`. `KernelCovers` therefore speaks of a single region.
3. `readSample` (`perf_sample_pid.cc:233`) reads a record as one struct at
   `tail % size`, although a record may continue at the start of the ring. Run
   `perf_sample_wrap`. `EachSampleOnce` therefore speaks of records in one piece.

Also seen: the message at `lib_threading.hh:46` prints `num_threads` behind
`num_cores=`. The loop that restores the start (`lib_mem_region.cc:195`) counts in
32 bits up to a 64-bit size: with more than 2^32 elements it may not end (with
`Word = 4` in `ContigAlloc.cfg` TLC shows it); `contiguous_mem_alloc.cc:39` has a
64-bit index. `smt_rdwr` times its first pass too and still divides by
`iterations - 1`. `virt_to_phys_user` prints the swap slot of a page that is
swapped out as if it were its frame, and `perf_sample_cpu` shares finding 3.
Two streams over an odd number of lines (`multiple_rdwr.cc:38`, with
`getHalfPoint` of `lib_mem_region.hh:42`) begin the second one in the middle of a
line, where the list has no pointer; `Regular` asks for an even number.
Strides are taken from the command line in bytes and never checked
(`lat_mem_rd.cc:38`, `multiple_rdwr.cc:86`): with region and active size 4096 and
a stride of 12, the last store of `stride_init` (`lib_mem_region.cc:220`) is at
4092 and its last four bytes are behind the region. `StaysInside` claims for such
strides only that every store begins inside. With strides below a pointer the
pointers overwrite each other, so `Regular` asks for room for one in each line.
The regulation of the sleep turns round where the scaled time is no longer than
the time for processing (`perf_sample_cpu.cc:225`): nothing is taken off then,
and an over-full buffer can lengthen the sleep. `SleepFollowsLoad` says when and
how far. In `perf_sample_cpu` a failure of `bind` on a core that is never
visited, or of the last `ioctl` (the event's ID) on any core, goes unnoticed:
main samples and returns 0 as after a complete `bind`. `ReturnsComplete` speaks of
descriptors and buffers of the visited cores, and of what is left behind.

## 4. Proofs

Checked by TLAPS, for every value of the constants.

**RdwrFlowProofs**, from `FlowAssumption` (at least one thread and partition;
any number of iterations and spurious wake-ups): `TypeCorrect`, `Rotation`,
`WakeupSafe`, `UpdatesKept`, `HandoverClean`, `TimedAsMeant`, `StayTogether`,
`Refinement`. The inductive invariant is `IInv`, the conjunction of

- `TypeOK`;
- `MainInv`: which threads exist and which have returned, from main's position
  (needed because main starts the second phase without resetting anything);
- `LoopInv`: loop counters against `pc`;
- `MutexInv`: the owner of a partition's mutex is exactly the thread whose `pc`
  is in the critical section with that `part_idx`;
- `TurnInv`: from the passed test to the step, the thread's turn cannot change;
- `SeenInv`: the value loaded is still in memory when it is stored;
- `NoLostWakeup`, `RoundRobin`, `NoLostUpdate` themselves.

RoundRobin alone is not inductive: a thread that advances the step must be known
to be the one whose turn it is (`TurnInv`), which another thread could spoil if
two were inside (`MutexInv`). At the end of a phase all threads have finished all
iterations, so by RoundRobin the step is 0: that is CleanHandover. The bound of
`StayTogether` combines RoundRobin on two partitions with the order of the
partitions within a thread. `TimedAsMeant` has an invariant of its own, `LapsInv`,
that ties the laps to the loop counters of the timed phase. `Refinement` maps
`Advance` to the ring's `Visit` and every other step, main's included, to a
stutter.

**ContigAllocProofs** has two layers. From `SequenceAssumption`: `TypeCorrect`,
`AlwaysPermutation`, `StartInFront` about the shuffle by itself. The invariant
`IInv` describes the prefix filled so far, the permutation in the swap loops, and
for the search that no element already passed is 0 (after a wrap of the index
nothing is claimed passed). From `ContigAssumption` (any pools of pages in frames
of their own, any moves; the room for picks is a number of whole groups, in the
source 48 * 4 and 4): `ListsInPrograms`, `GroupsAreContiguous`, `LookupsExact`.
`ContigInv` follows what was read: as long as no page has moved, the buffer
agrees with the page map (`BufInv`), and the frames rise strictly along the
sorted pool (`PoolInv`), since no two pages share one. `GroupsContiguous` is not
inductive without that: the code looks only at the first and the last page of a
chunk, and it is the strict rise that leaves no choice for those between them
(`GapAtLeast`, `ChunkFilled`, a pigeonhole argument stated on frames). That no
page is in two groups follows from `PickInv`: what is picked lies below the rest
of the pool, and two aligned groups are equal or apart (`MultiplesApart`).
`LookupsExact` carries the two halves of an entry through any cut of the reads.

**PthreadMutexProofs**, from `ChainAssumption` (at least one thread):
`TypeCorrect`, `DestroyIsSafe`, `WakeupSafe`, `Refinement`. `IInv` is RdwrFlow's
argument for one partition and one visit: `MainInv`, `MutexInv`, and `ChainInv`,
which says that the threads that have worked are those with a number below the
step. `NoLostWakeup` has to be part of it, as the ring does not see who waits.

**PthreadRdwrProofs**, from `RdwrAssumption`: `TypeCorrect`, `WriterFirst`,
`WakeupSafe`, `DestroyIsSafe`. `ReadersAfterWriter` needs three facts together:
readers leave their loop only when the step has been raised (`StepInv`), the step
is raised only under the write lock, and the holders of both locks are those
their program counters say (`LockInv`). The mutex alone does not give it: the
writer frees it before its last unlock.

**UtilsProofs**, first the timers, from `PoolAssumption` (no thread is `None`; any
threads, keys and length of time): `TypeCorrect`, `ReadingBounded`, `PoolExact`,
`ReadingExact`.
`MutexInv` and `CallInv` say who is inside and with which key; `BeginInv` that a
timer without a begin belongs to the thread inside that is about to start it;
`NotOlder` that the timer found under a started key is no older than the own
start, which holds for shared keys too and gives `NeverTooLong`; `PrivateInv` what
the map holds under a private key.

Then the mapping, from `HelperAssumption` (arguments that fit into a word):
`PlacementBalanced` for the constructor and `ProgramsBalanced` for the mains.
`Balanced` alone does not say which core may be next. `LoadInv` does: with `n`
cores, a core has one thread for each full round of `n`, and one more if the
round under way has reached it. `RoundFillsCores` is the arithmetic: within a
round `core_id` is a rotation of `Offset`, which takes every core once
(`OffsetInjective`, `OffsetOnto`, `RotateInjective`, `RotateOnto`), and the cut to
32 bits does no harm when the sum stays below 2^32 or the cores divide 2^32
(`WrapHarmless`).

Last the report of `smt_rdwr`, from `MainAssumption` (sizes are numbers):
`RunsComplete`. `RunInv` says which threads exist at each of main's stages
(`CreateInv`), how many passes each has made and that those past warm-up have
memory (`PassInv`), and that the pool holds main's timer and those of the threads
in warm-up, each under its own key (`TimersInv`): the two threads end timers of
the same name, and only the thread number in the key keeps them apart.

**PerfSamplePidProofs**, from `PerfAssumption` (any ring size and set of periods):
`Invariance`, `TypeCorrect`, `PeriodKept`, `AssertsHold`, `UnreadKept`,
`SamplesOnce`. `ChannelInv` is about descriptor, mapping, event and period inside
the calls; `RecordsInv` says that records lie back to back and fill the ring at
most once from `data_tail` on; `RingInv` that their words are in place, for which
the lemmas on positions modulo the ring are needed; `ReaderInv` that the reader
stands between two records; `GotInv` what has been returned up to there. None of
the properties of the buffer is inductive without the first three.

**PerfSampleCpuProofs**, from `CpuAssumption` (with `InitSleep <= MaxSleep`,
which are 200000 and 1000000 in the source): `Invariance`, `TypeCorrect`,
`RecordsOnce`, `CompleteReturn`, and the action property `SleepControlled`. Per
core the invariant is the one above (`RecordsOK`, `ReaderOK`); `LoopInv` and
`BindInv` follow the group under way and the cores whose `bind` was complete,
and say that a visited group had all its buffers, as the program would have
failed in it otherwise. `SleepControlled` holds for every duration of
processing, also one longer than the sleep; it rests on the lemma on the rounded
quotient, and on `ScaleBelow`: when the scaled time does not exceed the
duration, nothing is taken off and the new sleep is at most that duration. It
needs rings of more than one word, so that half a ring is not 0. The attempt to
prove `EachRecordOnce` showed that an earlier form was false when the program
faults in the middle of a round, after it has processed a record and before it
publishes the tail; rings of 8 words had been too small for TLC to meet that.
The property now leaves out the core being read, and the run has rings of 10
words.

**LatBwProofs**, from `LatBwAssumption` (positive sizes, accesses that divide a
round and hold a pointer, and the types of the command line): `Invariance`, `RegionsPlaced`,
`Released`, `WorkReported`, `KernelsCover`, `ListsInside`, `PassCoversAll`,
`StreamsShareLines`, `ChasesNeverLost`. `AllocInv` says for each state of the constructor
which region is `Empty` and which `Placed` (aligned, inside its block, obtained
in the way the destructor will undo); `Obtains` is what every allocator comes to.
`StageInv` carries that to main's ways out. `WorkInv` counts: at any point of a
phase the references made are those of the passes begun, less what the present
pass still lacks. At the end of the phase that is the divisor, because
`InputCheck` made the quotients exact (`PassWork`, `ExactQuotients`).
`KernelInv` places the pointers of a kernel at a distance from their start, with
exactly the words behind them touched. `ListInv` describes a list without an
induction along it: each pattern is shown to write a `Circle`, that is, there is an
order `f` of the lines, injective and starting at 0, in which each line points to
the next one. For the stride the order is the identity, for random lines the
shuffle, for random pages the lines of each page through one shuffle
(`StrideCircle`, `AllRandomCircle`, `PageRandomCircle`). That the pointers written
are whole follows from `Room`: lines of `Regular` sizes are at least a pointer
apart (`PointersApart`), and so is a payload from the pointers of other lines.
`ListsInside` does without `Regular`: a store begins below the active size
(`WriteBegins`), and if all sizes are whole pointers, so are all offsets
(`WholeOffset`), and what begins inside ends inside (`WholeInside`). `Stream` then says that the
chase stands at the `k`-th line of that order with the lines before it touched,
which one step of the chase preserves; after as many steps as there are lines it
is round, and as an injective order over finitely many lines is onto (`Onto`),
every line has been used. With two streams the second begins where `f` takes the
value half-way. That is where the proof failed first: over an odd number of lines
the half point is no line at all, and `NeverLost` was false for such a pass of two
streams. The run had no region that showed it; it now has one of 50 bytes in
lines of 10, and `Regular` says what the program needs.

**Model-checked only.** Liveness (`MainReturns` of the three threaded programs,
`MainEnds`, `Finishes`) is out of the prover's reach. The three runs that expect
a violation are counterexamples and have nothing to prove. Every other property
of the runs is a theorem. `ContigInv`, `HelperInv` and `RunInv` were checked by TLC
on the instances of the runs before they were proved.

## 5. Not modelled

Output and formatting; the time a step takes; memory ordering below the level of
locks (all shared words of the threaded programs are accessed under a lock, or
by the main thread before creation and after joining). Failing thread creation
is modelled for `smt_rdwr` only: in the ring the other threads would simply wait
for the missing turn. RdwrFlow assumes at least one partition, and RdwrMain shows
where the program goes without one. Parsing of command lines is the choice of
the arguments in `Init`. In `contiguous_mem_alloc` the remapping loop runs zero
times and the final chase repeats `lat_mem_rd`'s. `move_pages.cc` wraps one system
call, modelled in `RegionAlloc!migrate`; the core mapping of `pthread_mutex` is
ThreadHelper's written out again; the tests and SCons files keep no state.

## 6. Plan

Modelled: every program of the repository but `move_pages`, and all utilities.
Proved: the hand-over protocol, both pthread examples, the timer pool, both
samplers, the shuffle, the page-map programs, the thread mapping, the report of
`smt_rdwr`, and of the memory programs allocation, release, the lists, the chases,
the kernels and the reported work: every safety and action property that a run
checks. The modules were written and proved in the order of that list. What
could come next:

1. A proof that RdwrFlow over several partitions, each a list of PointerList,
   keeps the payload of every line, joining the two modules that now meet only in
   their assumptions.
2. Failing thread creation in RdwrFlow, with the liveness that then no longer
   holds.
