---------------------------- MODULE UtilsProofs ----------------------------
(***************************************************************************)
(* Proofs about what the benchmarks share, and the mains that use it.      *)
(*   TimerPool     for any threads, any use of keys (shared or not) and    *)
(*                 any length of time.  IInv says who is inside            *)
(*                 g_timer_map_mu, that a timer without a begin is seen by *)
(*                 the thread that put it there and by nobody else, and    *)
(*                 how the map relates to what each thread has started.    *)
(*   ThreadHelper  for any arguments.  HelperInv counts the threads of a   *)
(*                 core: one for every full round, and one if the round    *)
(*                 under way has reached it.                               *)
(*   RdwrMain      for any command lines.  RunInv ties main's stage, the   *)
(*                 steps of the threads and the pool of timers together.   *)
(***************************************************************************)
EXTENDS TimerPool, RdwrMain, FiniteSetTheorems, TLAPS

(* The functions of TypeOK are functions on the threads. *)
Shape ==
  /\ key \in [Threads -> AllKeys \cup {None}]
  /\ open \in [Threads -> SUBSET AllKeys]
  /\ DOMAIN began = Threads

(* The lock_guard: the mutex belongs to the thread inside. *)
MutexInv == \A t \in Threads : pc[t] \in Inside <=> mu = t

(* A call has a key, started in end_timer and not in start_timer. *)
CallInv ==
  \A t \in Threads :
    /\ pc[t] # "out" => key[t] \in Keys(t)
    /\ pc[t] \in {"s_lock", "insert", "begin"} => key[t] \notin open[t]
    /\ pc[t] \in {"e_lock", "end", "erase"} => key[t] \in open[t]

(* A timer without a begin belongs to the thread about to start it, and no *)
(* begin lies in the future.                                               *)
BeginInv ==
  /\ \A k \in DOMAIN g_timer_map :
       /\ g_timer_map[k] <= clock
       /\ g_timer_map[k] = Unset => \E t \in Threads : pc[t] = "begin" /\ key[t] = k
  /\ \A t \in Threads : \A k \in Keys(t) : began[t][k] <= clock

(* The timer found under a key a thread has started is no older than its   *)
(* own start.                                                              *)
NotOlder ==
  \A t \in Threads : \A k \in open[t] \cap DOMAIN g_timer_map :
    g_timer_map[k] # Unset => began[t][k] <= g_timer_map[k]

(* A key that only t uses is in the map when t has started it or given it  *)
(* up, or is between the two halves of start_timer; and then, if it is     *)
(* running, with the begin t has seen.                                     *)
PrivateInv ==
  \A t \in Threads : \A k \in Private(t) :
    /\ k \in DOMAIN g_timer_map <=>
         k \in open[t] \cup abandoned \/ (pc[t] = "begin" /\ key[t] = k)
    /\ k \in open[t] => g_timer_map[k] = began[t][k]

IInv ==
  /\ TypeOK /\ Shape /\ MutexInv /\ CallInv /\ BeginInv /\ NotOlder
  /\ NeverTooLong /\ PrivateInv

-----------------------------------------------------------------------------

(* The map after the steps that change it. *)
LEMMA MapEffect ==
  ASSUME NEW t \in Threads
  PROVE  /\ StartInsert(t) \/ StartBegin(t) =>
              /\ DOMAIN g_timer_map' = DOMAIN g_timer_map \cup {key[t]}
              /\ \A k \in DOMAIN g_timer_map : k # key[t] => g_timer_map'[k] = g_timer_map[k]
         /\ StartInsert(t) => g_timer_map'[key[t]] = Unset
         /\ StartBegin(t) => g_timer_map'[key[t]] = clock
         /\ EndErase(t) =>
              /\ DOMAIN g_timer_map' = DOMAIN g_timer_map \ {key[t]}
              /\ \A k \in DOMAIN g_timer_map : k # key[t] => g_timer_map'[k] = g_timer_map[k]
<1>1. ASSUME NEW begin, g_timer_map' = Put(g_timer_map, key[t], begin)
      PROVE  /\ DOMAIN g_timer_map' = DOMAIN g_timer_map \cup {key[t]}
             /\ \A k \in DOMAIN g_timer_map : k # key[t] => g_timer_map'[k] = g_timer_map[k]
             /\ g_timer_map'[key[t]] = begin
  BY <1>1 DEF Put
<1>2. ASSUME EndErase(t)
      PROVE  /\ DOMAIN g_timer_map' = DOMAIN g_timer_map \ {key[t]}
             /\ \A k \in DOMAIN g_timer_map : k # key[t] => g_timer_map'[k] = g_timer_map[k]
  BY <1>2 DEF EndErase, Restrict
<1>3. StartInsert(t) => g_timer_map' = Put(g_timer_map, key[t], Unset)
  BY DEF StartInsert
<1>4. StartBegin(t) => g_timer_map' = Put(g_timer_map, key[t], clock)
  BY DEF StartBegin
<1>5. QED
  BY <1>1, <1>2, <1>3, <1>4

(* Every key belongs to a thread, and a private one to one thread only. *)
LEMMA KeySets ==
  ASSUME NEW t \in Threads
  PROVE  /\ Keys(t) \subseteq AllKeys
         /\ Private(t) \subseteq Keys(t)
         /\ \A u \in Threads : u # t => Private(t) \cap Keys(u) = {}
  BY DEF AllKeys, Private

(* The initial state satisfies the invariant. *)
LEMMA InitIInv == Init => IInv
<1> SUFFICES ASSUME Init
             PROVE  IInv
  OBVIOUS
<1>1. DOMAIN g_timer_map = {}
  BY DEF Init
<1>2. TypeOK
  <2>1. 0 \in 0 .. MaxTime
    BY PoolAssumption
  <2>2. \A t \in Threads : began[t] \in [Keys(t) -> 0 .. MaxTime]
    BY <2>1 DEF Init
  <2>3. QED
    BY <1>1, <2>1, <2>2 DEF Init, TypeOK
<1>3. Shape
  BY DEF Init, Shape
<1>4. MutexInv /\ CallInv /\ NeverTooLong
  BY PoolAssumption DEF Init, MutexInv, CallInv, NeverTooLong, Inside
<1>5. BeginInv
  <2>1. \A t \in Threads : \A k \in Keys(t) : began[t][k] = 0
    BY DEF Init
  <2>2. QED
    BY <1>1, <2>1 DEF Init, BeginInv
<1>6. NotOlder
  BY <1>1 DEF NotOlder
<1>7. PrivateInv
  BY <1>1 DEF Init, PrivateInv
<1>8. QED
  BY <1>2, <1>3, <1>4, <1>5, <1>6, <1>7 DEF IInv

(* Two threads are never inside together. *)
LEMMA OneInside ==
  ASSUME MutexInv, NEW t \in Threads, NEW u \in Threads, pc[t] \in Inside, pc[u] \in Inside
  PROVE  t = u
  BY DEF MutexInv

(* What end_timer finds under its key has been started. *)
LEMMA FoundStarted ==
  ASSUME TypeOK, MutexInv, BeginInv, NEW t \in Threads, EndFound(t)
  PROVE  /\ g_timer_map[key[t]] \in 0 .. MaxTime
         /\ g_timer_map[key[t]] <= clock
         /\ clock - g_timer_map[key[t]] \in 0 .. MaxTime
<1> DEFINE b == g_timer_map[key[t]]
<1>1. b \in Unset .. MaxTime /\ b <= clock /\ clock \in 0 .. MaxTime
  BY DEF EndFound, TypeOK, BeginInv
<1>2. b # Unset
  <2> SUFFICES ASSUME b = Unset
               PROVE  FALSE
    OBVIOUS
  <2>1. PICK u \in Threads : pc[u] = "begin"
    BY DEF EndFound, BeginInv
  <2>2. u = t
    BY <2>1, OneInside DEF EndFound, Inside
  <2>3. QED
    BY <2>1, <2>2 DEF EndFound
<1>3. QED
  BY <1>1, <1>2, PoolAssumption DEF Unset

(* Every step keeps the variables in their types. *)
LEMMA TypeStep ==
  ASSUME TypeOK, Shape, MutexInv, CallInv, BeginInv, [Next]_vars
  PROVE  TypeOK' /\ Shape'
<1> USE DEF TypeOK, Shape, Inside
<1>1. CASE Tick
  <2>1. clock' \in 0 .. MaxTime
    BY <1>1, PoolAssumption DEF Tick
  <2>2. QED
    BY <1>1, <2>1 DEF Tick
<1>2. ASSUME NEW t \in Threads, CallStart(t) \/ CallEnd(t)
      PROVE  TypeOK' /\ Shape'
  <2>1. PICK k \in Keys(t) : key' = [key EXCEPT ![t] = k]
    BY <1>2 DEF CallStart, CallEnd
  <2>2. k \in AllKeys
    BY KeySets
  <2>3. QED
    BY <1>2, <2>1, <2>2 DEF CallStart, CallEnd, Goto
<1>3. ASSUME NEW t \in Threads, StartLock(t) \/ EndLock(t)
      PROVE  TypeOK' /\ Shape'
  BY <1>3 DEF StartLock, EndLock, Goto
<1>4. ASSUME NEW t \in Threads, StartInsert(t)
      PROVE  TypeOK' /\ Shape'
  <2>1. key[t] \in AllKeys
    BY <1>4, KeySets DEF StartInsert, CallInv
  <2>2. Unset \in Unset .. MaxTime
    BY PoolAssumption DEF Unset
  <2>3. /\ DOMAIN g_timer_map' \subseteq AllKeys
        /\ \A k \in DOMAIN g_timer_map' : g_timer_map'[k] \in Unset .. MaxTime
    <3>1. /\ DOMAIN g_timer_map' = DOMAIN g_timer_map \cup {key[t]}
          /\ g_timer_map'[key[t]] = Unset
          /\ \A k \in DOMAIN g_timer_map : k # key[t] => g_timer_map'[k] = g_timer_map[k]
      BY <1>4, MapEffect
    <3>2. QED
      BY <2>1, <2>2, <3>1
  <2>4. QED
    BY <1>4, <2>3 DEF StartInsert, Goto
<1>5. ASSUME NEW t \in Threads, StartBegin(t)
      PROVE  TypeOK' /\ Shape'
  <2>1. key[t] \in Keys(t) /\ key[t] \in AllKeys
    BY <1>5, KeySets DEF StartBegin, CallInv
  <2>2. clock \in Unset .. MaxTime
    BY PoolAssumption DEF Unset
  <2>3. /\ DOMAIN g_timer_map' \subseteq AllKeys
        /\ \A k \in DOMAIN g_timer_map' : g_timer_map'[k] \in Unset .. MaxTime
    <3>1. /\ DOMAIN g_timer_map' = DOMAIN g_timer_map \cup {key[t]}
          /\ g_timer_map'[key[t]] = clock
          /\ \A k \in DOMAIN g_timer_map : k # key[t] => g_timer_map'[k] = g_timer_map[k]
      BY <1>5, MapEffect
    <3>2. QED
      BY <2>1, <2>2, <3>1
  <2>4. DOMAIN began' = Threads /\ \A u \in Threads : began'[u] \in [Keys(u) -> 0 .. MaxTime]
    BY <1>5, <2>1 DEF StartBegin
  <2>5. open' \in [Threads -> SUBSET AllKeys] /\ \A u \in Threads : open'[u] \subseteq Keys(u)
    BY <1>5, <2>1 DEF StartBegin
  <2>6. QED
    BY <1>5, <2>3, <2>4, <2>5 DEF StartBegin, Return, Goto
<1>6. ASSUME NEW t \in Threads, EndCountZero(t)
      PROVE  TypeOK' /\ Shape'
  BY <1>6 DEF EndCountZero
<1>7. ASSUME NEW t \in Threads, EndFound(t)
      PROVE  TypeOK' /\ Shape'
  BY <1>7, FoundStarted DEF EndFound, Goto
<1>8. ASSUME NEW t \in Threads, EndMissing(t)
      PROVE  TypeOK' /\ Shape'
  <2>1. 0 \in 0 .. MaxTime
    BY PoolAssumption
  <2>2. QED
    BY <1>8, <2>1 DEF EndMissing, Return, Goto
<1>9. ASSUME NEW t \in Threads, EndErase(t)
      PROVE  TypeOK' /\ Shape'
  <2>1. /\ DOMAIN g_timer_map' \subseteq AllKeys
        /\ \A k \in DOMAIN g_timer_map' : g_timer_map'[k] \in Unset .. MaxTime
    <3>1. /\ DOMAIN g_timer_map' = DOMAIN g_timer_map \ {key[t]}
          /\ \A k \in DOMAIN g_timer_map : k # key[t] => g_timer_map'[k] = g_timer_map[k]
      BY <1>9, MapEffect
    <3>2. QED
      BY <3>1
  <2>2. QED
    BY <1>9, <2>1 DEF EndErase, Return, Goto
<1>10. CASE UNCHANGED vars
  BY <1>10 DEF vars
<1>11. QED
  BY <1>1, <1>2, <1>3, <1>4, <1>5, <1>6, <1>7, <1>8, <1>9, <1>10
     DEF Next, start_timer, end_timer

(* The mutex and the key of each call. *)
LEMMA CallStep ==
  ASSUME TypeOK, Shape, MutexInv, CallInv, [Next]_vars
  PROVE  MutexInv' /\ CallInv'
<1> USE PoolAssumption DEF TypeOK, Shape, MutexInv, CallInv, Inside
<1>1. CASE Tick \/ UNCHANGED vars
  BY <1>1 DEF Tick, vars
<1>2. ASSUME NEW t \in Threads, CallStart(t) \/ CallEnd(t)
      PROVE  MutexInv' /\ CallInv'
  BY <1>2 DEF CallStart, CallEnd, Goto
<1>3. ASSUME NEW t \in Threads, StartLock(t) \/ EndLock(t) \/ StartInsert(t) \/ EndFound(t)
      PROVE  MutexInv' /\ CallInv'
  BY <1>3 DEF StartLock, EndLock, StartInsert, EndFound, Goto
<1>4. ASSUME NEW t \in Threads, EndCountZero(t)
      PROVE  MutexInv' /\ CallInv'
  BY <1>4 DEF EndCountZero
<1>5. ASSUME NEW t \in Threads, StartBegin(t) \/ EndMissing(t) \/ EndErase(t)
      PROVE  MutexInv' /\ CallInv'
  <2>1. /\ mu = t /\ mu' = None
        /\ \A u \in Threads : pc'[u] = IF u = t THEN "out" ELSE pc[u]
        /\ \A u \in Threads : u # t => key'[u] = key[u] /\ open'[u] = open[u]
    BY <1>5 DEF StartBegin, EndMissing, EndErase, Return, Goto
  <2>2. QED
    BY <2>1
<1>6. QED
  BY <1>1, <1>2, <1>3, <1>4, <1>5 DEF Next, start_timer, end_timer

(* Which steps leave the map, the begins and the open keys alone. *)
LEMMA QuietStep ==
  ASSUME TypeOK, Shape, NEW t \in Threads,
         CallStart(t) \/ CallEnd(t) \/ StartLock(t) \/ EndLock(t) \/ EndFound(t)
  PROVE  /\ clock' = clock /\ g_timer_map' = g_timer_map /\ began' = began
         /\ open' = open /\ abandoned' = abandoned
         /\ pc[t] # "begin" /\ pc'[t] # "begin"
         /\ \A u \in Threads : u # t => pc'[u] = pc[u] /\ key'[u] = key[u]
  BY DEF CallStart, CallEnd, StartLock, EndLock, EndFound, Goto, TypeOK, Shape

(* Begins: what is in the map without one is about to get it. *)
LEMMA BeginStep ==
  ASSUME TypeOK, Shape, MutexInv, CallInv, BeginInv, [Next]_vars
  PROVE  BeginInv'
<1>0. /\ clock \in Nat
      /\ \A k \in DOMAIN g_timer_map : g_timer_map[k] \in Int
      /\ \A t \in Threads : \A k \in Keys(t) : began[t][k] \in Nat
  BY PoolAssumption DEF TypeOK, Unset
<1>1. CASE Tick \/ UNCHANGED vars
  <2>1. /\ clock' \in Nat /\ clock <= clock'
        /\ g_timer_map' = g_timer_map /\ began' = began /\ pc' = pc /\ key' = key
    BY <1>0, <1>1 DEF Tick, vars
  <2>2. QED
    BY <1>0, <2>1 DEF BeginInv
<1>2. ASSUME NEW t \in Threads,
             CallStart(t) \/ CallEnd(t) \/ StartLock(t) \/ EndLock(t) \/ EndFound(t)
      PROVE  BeginInv'
  BY <1>2, QuietStep DEF BeginInv
<1>3. ASSUME NEW t \in Threads, StartInsert(t)
      PROVE  BeginInv'
  <2>1. /\ clock' = clock /\ began' = began /\ key' = key
        /\ pc[t] = "insert" /\ \A u \in Threads : pc'[u] = IF u = t THEN "begin" ELSE pc[u]
    BY <1>3 DEF StartInsert, Goto, TypeOK
  <2>2. /\ DOMAIN g_timer_map' = DOMAIN g_timer_map \cup {key[t]}
        /\ g_timer_map'[key[t]] = Unset
        /\ \A k \in DOMAIN g_timer_map : k # key[t] => g_timer_map'[k] = g_timer_map[k]
    BY <1>3, MapEffect
  <2>3. Unset <= clock
    BY <1>0 DEF Unset
  <2>4. QED
    BY <2>1, <2>2, <2>3 DEF BeginInv
<1>4. ASSUME NEW t \in Threads, StartBegin(t)
      PROVE  BeginInv'
  <2>1. /\ clock' = clock /\ pc[t] = "begin" /\ key[t] \in Keys(t)
        /\ \A u \in Threads : u # t => pc'[u] = pc[u] /\ key'[u] = key[u]
    BY <1>4 DEF StartBegin, Return, Goto, TypeOK, Shape, CallInv
  <2>2. /\ DOMAIN g_timer_map' = DOMAIN g_timer_map \cup {key[t]}
        /\ g_timer_map'[key[t]] = clock
        /\ \A k \in DOMAIN g_timer_map : k # key[t] => g_timer_map'[k] = g_timer_map[k]
    BY <1>4, MapEffect
  <2>3. \A u \in Threads : \A k \in Keys(u) : began'[u][k] \in {began[u][k], clock}
    BY <1>4, <2>1 DEF StartBegin, TypeOK, Shape
  <2>4. clock # Unset /\ clock <= clock
    BY <1>0 DEF Unset
  <2>5. QED
    BY <2>1, <2>2, <2>3, <2>4 DEF BeginInv
<1>5. ASSUME NEW t \in Threads, EndCountZero(t)
      PROVE  BeginInv'
  BY <1>5 DEF EndCountZero, BeginInv
<1>6. ASSUME NEW t \in Threads, EndMissing(t)
      PROVE  BeginInv'
  <2>1. /\ clock' = clock /\ began' = began /\ g_timer_map' = g_timer_map /\ pc[t] = "end"
        /\ \A u \in Threads : u # t => pc'[u] = pc[u] /\ key'[u] = key[u]
    BY <1>6 DEF EndMissing, Return, Goto, TypeOK, Shape
  <2>2. QED
    BY <2>1 DEF BeginInv
<1>7. ASSUME NEW t \in Threads, EndErase(t)
      PROVE  BeginInv'
  <2>1. /\ clock' = clock /\ began' = began /\ pc[t] = "erase"
        /\ \A u \in Threads : u # t => pc'[u] = pc[u] /\ key'[u] = key[u]
    BY <1>7 DEF EndErase, Return, Goto, TypeOK, Shape
  <2>2. /\ DOMAIN g_timer_map' = DOMAIN g_timer_map \ {key[t]}
        /\ \A k \in DOMAIN g_timer_map : k # key[t] => g_timer_map'[k] = g_timer_map[k]
    BY <1>7, MapEffect
  <2>3. QED
    BY <2>1, <2>2 DEF BeginInv
<1>8. QED
  BY <1>1, <1>2, <1>3, <1>4, <1>5, <1>6, <1>7 DEF Next, start_timer, end_timer

(* began after start_timer: the calling thread's entry for its key. *)
LEMMA BeganEffect ==
  ASSUME TypeOK, Shape, CallInv, NEW t \in Threads, StartBegin(t),
         NEW u \in Threads, NEW k \in Keys(u)
  PROVE  /\ u = t /\ k = key[t] => began'[u][k] = clock
         /\ u # t \/ k # key[t] => began'[u][k] = began[u][k]
  BY DEF StartBegin, TypeOK, Shape, CallInv

(* The timer under a key a thread has started is no older than its start. *)
LEMMA NotOlderStep ==
  ASSUME TypeOK, Shape, MutexInv, CallInv, BeginInv, NotOlder, [Next]_vars
  PROVE  NotOlder'
<1>0. \A u \in Threads : open[u] \subseteq Keys(u)
  BY DEF TypeOK
<1>1. CASE Tick \/ UNCHANGED vars
  BY <1>1 DEF Tick, vars, NotOlder
<1>2. ASSUME NEW t \in Threads,
             CallStart(t) \/ CallEnd(t) \/ StartLock(t) \/ EndLock(t) \/ EndFound(t)
      PROVE  NotOlder'
  BY <1>2, QuietStep DEF NotOlder
<1>3. ASSUME NEW t \in Threads, StartInsert(t)
      PROVE  NotOlder'
  <2>1. began' = began /\ open' = open
    BY <1>3 DEF StartInsert
  <2>2. QED
    BY <1>3, <2>1, MapEffect DEF NotOlder
<1>4. ASSUME NEW t \in Threads, StartBegin(t)
      PROVE  NotOlder'
  <2> SUFFICES ASSUME NEW u \in Threads, NEW k \in open'[u] \cap DOMAIN g_timer_map',
                      g_timer_map'[k] # Unset
               PROVE  began'[u][k] <= g_timer_map'[k]
    BY DEF NotOlder
  <2>1. key[t] \in Keys(t)
    BY <1>4 DEF StartBegin, CallInv
  <2>2. k \in Keys(u) /\ (u # t \/ k # key[t] => k \in open[u])
    BY <1>0, <1>4, <2>1 DEF StartBegin, Shape
  <2>3. clock \in Int /\ began[u][k] \in Int /\ began[u][k] <= clock
    BY <2>2, PoolAssumption DEF TypeOK, BeginInv
  <2>4. CASE k = key[t]
    <3>1. g_timer_map'[k] = clock
      BY <1>4, <2>4, MapEffect
    <3>2. began'[u][k] \in {clock, began[u][k]}
      BY <1>4, <2>2, BeganEffect
    <3>3. QED
      BY <2>3, <3>1, <3>2
  <2>5. CASE k # key[t]
    <3>1. k \in DOMAIN g_timer_map /\ g_timer_map'[k] = g_timer_map[k]
      BY <1>4, <2>5, MapEffect
    <3>2. began'[u][k] = began[u][k]
      BY <1>4, <2>2, <2>5, BeganEffect
    <3>3. QED
      BY <2>2, <2>5, <3>1, <3>2 DEF NotOlder
  <2>6. QED
    BY <2>4, <2>5
<1>5. ASSUME NEW t \in Threads, EndCountZero(t) \/ EndMissing(t)
      PROVE  NotOlder'
  <2>1. /\ began' = began /\ g_timer_map' = g_timer_map
        /\ \A u \in Threads : open'[u] \subseteq open[u]
    BY <1>5 DEF EndCountZero, EndMissing, Shape
  <2>2. QED
    BY <2>1 DEF NotOlder
<1>6. ASSUME NEW t \in Threads, EndErase(t)
      PROVE  NotOlder'
  <2>1. began' = began /\ \A u \in Threads : open'[u] \subseteq open[u]
    BY <1>6 DEF EndErase, Shape
  <2>2. /\ DOMAIN g_timer_map' \subseteq DOMAIN g_timer_map
        /\ \A k \in DOMAIN g_timer_map' : g_timer_map'[k] = g_timer_map[k]
    BY <1>6, MapEffect
  <2>3. QED
    BY <2>1, <2>2 DEF NotOlder
<1>7. QED
  BY <1>1, <1>2, <1>3, <1>4, <1>5, <1>6 DEF Next, start_timer, end_timer

(* What end_timer has computed stays a lower bound of the time passed. *)
LEMMA ReadingStep ==
  ASSUME TypeOK, Shape, MutexInv, CallInv, BeginInv, NotOlder, NeverTooLong, [Next]_vars
  PROVE  NeverTooLong'
<1>0. /\ clock \in Int
      /\ \A u \in Threads : reading[u] \in Int /\ \A k \in Keys(u) : began[u][k] \in Int
      /\ \A u \in Threads : pc[u] = "erase" => key[u] \in Keys(u)
  BY PoolAssumption DEF TypeOK, CallInv
<1>1. CASE Tick \/ UNCHANGED vars
  <2>1. /\ clock' \in {clock, clock + 1}
        /\ pc' = pc /\ key' = key /\ began' = began /\ reading' = reading
    BY <1>1 DEF Tick, vars
  <2>2. ASSUME NEW u \in Threads, pc[u] = "erase"
        PROVE  reading[u] <= clock' - began[u][key[u]]
    <3>1. reading[u] <= clock - began[u][key[u]]
      BY <2>2 DEF NeverTooLong
    <3>2. QED
      BY <1>0, <2>1, <2>2, <3>1
  <2>3. QED
    BY <2>1, <2>2 DEF NeverTooLong
<1>2. ASSUME NEW t \in Threads, EndFound(t)
      PROVE  NeverTooLong'
  <2>1. /\ clock' = clock /\ key' = key /\ began' = began
        /\ \A u \in Threads : u # t => pc'[u] = pc[u] /\ reading'[u] = reading[u]
        /\ reading'[t] = clock - g_timer_map[key[t]]
    BY <1>2 DEF EndFound, Goto, TypeOK
  <2>2. key[t] \in open[t] \cap DOMAIN g_timer_map /\ key[t] \in Keys(t)
    BY <1>2 DEF EndFound, CallInv
  <2>3. g_timer_map[key[t]] \in 0 .. MaxTime
    BY <1>2, FoundStarted
  <2>4. began[t][key[t]] <= g_timer_map[key[t]]
    BY <2>2, <2>3 DEF NotOlder, Unset
  <2>5. reading'[t] <= clock - began[t][key[t]]
    BY <1>0, <2>1, <2>2, <2>3, <2>4, PoolAssumption
  <2>6. QED
    BY <2>1, <2>5 DEF NeverTooLong
<1>3. ASSUME NEW t \in Threads, StartBegin(t)
      PROVE  NeverTooLong'
  <2>1. /\ clock' = clock /\ reading' = reading /\ pc'[t] = "out"
        /\ \A u \in Threads : u # t => pc'[u] = pc[u] /\ key'[u] = key[u]
    BY <1>3 DEF StartBegin, Return, Goto, TypeOK, Shape
  <2>2. ASSUME NEW u \in Threads, u # t
        PROVE  began'[u] = began[u]
    BY <1>3, <2>2 DEF StartBegin, Shape
  <2>3. QED
    BY <2>1, <2>2 DEF NeverTooLong
<1>4. ASSUME NEW t \in Threads,
             \/ CallStart(t) \/ CallEnd(t) \/ StartLock(t) \/ EndLock(t) \/ StartInsert(t)
             \/ EndCountZero(t) \/ EndMissing(t) \/ EndErase(t)
      PROVE  NeverTooLong'
  <2>1. /\ clock' = clock /\ began' = began
        /\ \A u \in Threads : u # t => pc'[u] = pc[u] /\ key'[u] = key[u] /\ reading'[u] = reading[u]
        /\ pc'[t] # "erase"
    BY <1>4 DEF CallStart, CallEnd, StartLock, EndLock, StartInsert, EndCountZero, EndMissing,
                EndErase, Return, Goto, TypeOK, Shape
  <2>2. QED
    BY <2>1 DEF NeverTooLong
<1>5. QED
  BY <1>1, <1>2, <1>3, <1>4 DEF Next, start_timer, end_timer

(* Threads that do not use a key leave everything about it alone. *)
LEMMA PrivateStep ==
  ASSUME TypeOK, Shape, MutexInv, CallInv, BeginInv, PrivateInv, [Next]_vars
  PROVE  PrivateInv'
<1> SUFFICES ASSUME NEW u \in Threads, NEW k \in Private(u)
             PROVE  /\ (k \in DOMAIN g_timer_map <=>
                         k \in open[u] \cup abandoned \/ (pc[u] = "begin" /\ key[u] = k))'
                    /\ (k \in open[u] => g_timer_map[k] = began[u][k])'
  BY DEF PrivateInv
<1>0. /\ k \in DOMAIN g_timer_map <=>
           k \in open[u] \cup abandoned \/ (pc[u] = "begin" /\ key[u] = k)
      /\ k \in open[u] => g_timer_map[k] = began[u][k]
      /\ k \in Keys(u) /\ \A t \in Threads : t # u => k \notin Keys(t)
  BY KeySets DEF PrivateInv
<1>1. CASE Tick \/ UNCHANGED vars
  BY <1>0, <1>1 DEF Tick, vars
<1>2. ASSUME NEW t \in Threads,
             CallStart(t) \/ CallEnd(t) \/ StartLock(t) \/ EndLock(t) \/ EndFound(t)
      PROVE  /\ (k \in DOMAIN g_timer_map <=>
                  k \in open[u] \cup abandoned \/ (pc[u] = "begin" /\ key[u] = k))'
             /\ (k \in open[u] => g_timer_map[k] = began[u][k])'
  BY <1>0, <1>2, QuietStep
<1>3. ASSUME NEW t \in Threads, StartInsert(t)
      PROVE  /\ (k \in DOMAIN g_timer_map <=>
                  k \in open[u] \cup abandoned \/ (pc[u] = "begin" /\ key[u] = k))'
             /\ (k \in open[u] => g_timer_map[k] = began[u][k])'
  <2>1. /\ began' = began /\ key' = key /\ open' = open /\ abandoned' = abandoned
        /\ key[t] \in Keys(t) /\ key[t] \notin open[t] /\ pc[t] = "insert"
        /\ \A v \in Threads : pc'[v] = IF v = t THEN "begin" ELSE pc[v]
    BY <1>3 DEF StartInsert, Goto, TypeOK, CallInv
  <2>2. /\ DOMAIN g_timer_map' = DOMAIN g_timer_map \cup {key[t]}
        /\ \A x \in DOMAIN g_timer_map : x # key[t] => g_timer_map'[x] = g_timer_map[x]
    BY <1>3, MapEffect
  <2>3. CASE u = t
    BY <1>0, <2>1, <2>2, <2>3
  <2>4. CASE u # t
    BY <1>0, <2>1, <2>2, <2>4
  <2>5. QED
    BY <2>3, <2>4
<1>4. ASSUME NEW t \in Threads, StartBegin(t)
      PROVE  /\ (k \in DOMAIN g_timer_map <=>
                  k \in open[u] \cup abandoned \/ (pc[u] = "begin" /\ key[u] = k))'
             /\ (k \in open[u] => g_timer_map[k] = began[u][k])'
  <2>1. /\ key[t] \in Keys(t) /\ pc[t] = "begin" /\ pc'[t] = "out"
        /\ \A v \in Threads : v # t => pc'[v] = pc[v] /\ key'[v] = key[v] /\ open'[v] = open[v]
        /\ open'[t] = open[t] \cup {key[t]} /\ abandoned' = abandoned \ {key[t]}
    BY <1>4 DEF StartBegin, Return, Goto, TypeOK, Shape, CallInv
  <2>2. /\ DOMAIN g_timer_map' = DOMAIN g_timer_map \cup {key[t]}
        /\ g_timer_map'[key[t]] = clock
        /\ \A x \in DOMAIN g_timer_map : x # key[t] => g_timer_map'[x] = g_timer_map[x]
    BY <1>4, MapEffect
  <2>3. /\ u = t /\ k = key[t] => began'[u][k] = clock
        /\ u # t \/ k # key[t] => began'[u][k] = began[u][k]
    BY <1>0, <1>4, BeganEffect
  <2>4. CASE u = t
    BY <1>0, <2>1, <2>2, <2>3, <2>4
  <2>5. CASE u # t
    BY <1>0, <2>1, <2>2, <2>3, <2>5
  <2>6. QED
    BY <2>4, <2>5
<1>5. ASSUME NEW t \in Threads, EndCountZero(t)
      PROVE  /\ (k \in DOMAIN g_timer_map <=>
                  k \in open[u] \cup abandoned \/ (pc[u] = "begin" /\ key[u] = k))'
             /\ (k \in open[u] => g_timer_map[k] = began[u][k])'
  <2>1. PICK x \in open[t] : /\ open' = [open EXCEPT ![t] = @ \ {x}]
                             /\ abandoned' = abandoned \cup {x}
    BY <1>5 DEF EndCountZero
  <2>2. x \in Keys(t)
    BY DEF TypeOK
  <2>3. g_timer_map' = g_timer_map /\ began' = began /\ pc' = pc /\ key' = key
    BY <1>5 DEF EndCountZero
  <2>4. CASE u = t
    BY <1>0, <2>1, <2>3, <2>4 DEF Shape
  <2>5. CASE u # t
    BY <1>0, <2>1, <2>2, <2>3, <2>5 DEF Shape
  <2>6. QED
    BY <2>4, <2>5
<1>6. ASSUME NEW t \in Threads, EndMissing(t)
      PROVE  /\ (k \in DOMAIN g_timer_map <=>
                  k \in open[u] \cup abandoned \/ (pc[u] = "begin" /\ key[u] = k))'
             /\ (k \in open[u] => g_timer_map[k] = began[u][k])'
  <2>1. /\ key[t] \in open[t] /\ key[t] \notin DOMAIN g_timer_map
        /\ pc[t] = "end" /\ pc'[t] = "out" /\ abandoned' = abandoned
        /\ \A v \in Threads : v # t => pc'[v] = pc[v] /\ key'[v] = key[v] /\ open'[v] = open[v]
        /\ open'[t] = open[t] \ {key[t]} /\ g_timer_map' = g_timer_map /\ began' = began
    BY <1>6 DEF EndMissing, Return, Goto, TypeOK, Shape, CallInv
  <2>2. CASE u = t
    BY <1>0, <2>1, <2>2
  <2>3. CASE u # t
    BY <1>0, <2>1, <2>3
  <2>4. QED
    BY <2>2, <2>3
<1>7. ASSUME NEW t \in Threads, EndErase(t)
      PROVE  /\ (k \in DOMAIN g_timer_map <=>
                  k \in open[u] \cup abandoned \/ (pc[u] = "begin" /\ key[u] = k))'
             /\ (k \in open[u] => g_timer_map[k] = began[u][k])'
  <2>1. /\ key[t] \in Keys(t) /\ pc[t] = "erase" /\ pc'[t] = "out"
        /\ \A v \in Threads : v # t => pc'[v] = pc[v] /\ key'[v] = key[v] /\ open'[v] = open[v]
        /\ open'[t] = open[t] \ {key[t]} /\ abandoned' = abandoned \ {key[t]} /\ began' = began
    BY <1>7 DEF EndErase, Return, Goto, TypeOK, Shape, CallInv
  <2>2. /\ DOMAIN g_timer_map' = DOMAIN g_timer_map \ {key[t]}
        /\ \A x \in DOMAIN g_timer_map : x # key[t] => g_timer_map'[x] = g_timer_map[x]
    BY <1>7, MapEffect
  <2>3. CASE u = t
    BY <1>0, <2>1, <2>2, <2>3
  <2>4. CASE u # t
    BY <1>0, <2>1, <2>2, <2>4
  <2>5. QED
    BY <2>3, <2>4
<1>8. QED
  BY <1>1, <1>2, <1>3, <1>4, <1>5, <1>6, <1>7 DEF Next, start_timer, end_timer

(* The inductive invariant holds in every reachable state. *)
LEMMA Inductive == Spec => []IInv
<1>1. IInv /\ [Next]_vars => IInv'
  BY TypeStep, CallStep, BeginStep, NotOlderStep, ReadingStep, PrivateStep DEF IInv
<1>2. QED
  BY InitIInv, <1>1, PTL DEF Spec

-----------------------------------------------------------------------------

(* The variables of the pool stay in their types, for any threads and any  *)
(* assignment of keys: in particular no reading is negative.               *)
THEOREM TypeCorrect == Spec => []TypeOK
  BY Inductive, PTL DEF IInv

(* What end_timer returns is at most the time since the calling thread's   *)
(* own start_timer, even for a key that other threads start and end too.   *)
THEOREM ReadingBounded == Spec => []NeverTooLong
  BY Inductive, PTL DEF IInv

(* Whenever the mutex is free, the pool holds of the private keys exactly  *)
(* the running timers and those given up with a count of 0.                *)
THEOREM PoolExact == Spec => []PoolContents
<1>1. IInv => PoolContents
  <2> SUFFICES ASSUME IInv, mu = None, NEW t \in Threads, NEW k \in Private(t)
               PROVE  k \in DOMAIN g_timer_map <=> k \in open[t] \cup abandoned
    BY DEF PoolContents
  <2>1. pc[t] # "begin"
    BY PoolAssumption DEF IInv, MutexInv, Inside
  <2>2. QED
    BY <2>1 DEF IInv, PrivateInv
<1>2. QED
  BY Inductive, <1>1, PTL

(* A thread's end_timer on a key of its own finds its timer and returns    *)
(* exactly the time since its start_timer, however the calls of other      *)
(* threads interleave.                                                     *)
THEOREM ReadingExact == Spec => ExactReading
<1>1. IInv /\ [Next]_vars =>
        [\A t \in Threads :
           pc[t] = "end" /\ pc'[t] # "end" /\ key[t] \in Private(t) =>
             reading'[t] = clock - began[t][key[t]]]_vars
  <2> SUFFICES ASSUME IInv, Next, NEW t \in Threads,
                      pc[t] = "end", pc'[t] # "end", key[t] \in Private(t)
               PROVE  reading'[t] = clock - began[t][key[t]]
    OBVIOUS
  <2>1. EndFound(t) \/ EndMissing(t)
    <3>1. DOMAIN pc = Threads
      BY DEF IInv, TypeOK
    <3>2. PICK u \in Threads : start_timer(u) \/ end_timer(u)
      BY DEF Next, Tick
    <3>3. \E label : pc' = [pc EXCEPT ![u] = label]
      <4>1. CASE start_timer(u)
        BY <4>1 DEF start_timer, CallStart, StartLock, StartInsert, StartBegin, Return, Goto
      <4>2. CASE end_timer(u)
        BY <4>2 DEF end_timer, EndCountZero, CallEnd, EndLock, EndFound, EndMissing, EndErase,
           Return, Goto
      <4>3. QED
        BY <3>2, <4>1, <4>2
    <3>4. u = t
      BY <3>1, <3>3
    <3>5. QED
      BY <3>2, <3>4 DEF start_timer, end_timer, CallStart, StartLock, StartInsert, StartBegin,
         EndCountZero, CallEnd, EndLock, EndErase
  <2>2. key[t] \in open[t]
    BY DEF IInv, CallInv
  <2>3. key[t] \in DOMAIN g_timer_map /\ g_timer_map[key[t]] = began[t][key[t]]
    BY <2>2 DEF IInv, PrivateInv
  <2>4. reading'[t] = clock - g_timer_map[key[t]]
    BY <2>1, <2>3 DEF EndFound, EndMissing, IInv, TypeOK
  <2>5. QED
    BY <2>3, <2>4
<1>2. QED
  BY Inductive, <1>1, PTL DEF Spec, ExactReading


-----------------------------------------------------------------------------
(* ThreadHelper *)

(* The constructor has come as far as its status says. *)
HelperTypeInv ==
  /\ arg \in Arguments
  /\ status \in {"check", "mapping", "ready", "exit", "sigfpe"}
  /\ i \in 0 .. arg.num_threads
  /\ DOMAIN core = 0 .. i - 1
  /\ status \notin {"mapping", "ready"} => i = 0
  /\ status \in {"mapping", "ready"} =>
       arg.thread_step > 0 /\ arg.num_cores % arg.thread_step = 0

(* Every thread placed so far sits where core_id puts it. *)
CoreInv == \A t \in 0 .. i - 1 : core[t] = core_id(t)

(* The first of the threads placed since the cores last were all equal. *)
RoundStart == (i \div arg.num_cores) * arg.num_cores

(* Every full round has given each core one thread, and the round under    *)
(* way has given one to the cores its threads sit on.                      *)
LoadInv ==
  NoSkip => \A c \in 0 .. arg.num_cores - 1 :
    Load(c) = (i \div arg.num_cores)
              + (IF \E t \in RoundStart .. i - 1 : core[t] = c THEN 1 ELSE 0)

HelperInv == HelperTypeInv /\ CoreInv /\ LoadInv

-----------------------------------------------------------------------------
(* The mains *)

MainTypeInv ==
  /\ cmd \in Commands
  /\ stage \in {"setup", "map", "create", "join", "report"} \cup Ended
  /\ next \in {0, 1}
  /\ tpc \in [Thread -> {"none", "warmup", "warm", "loop", "exited"}]
  /\ passes \in [Thread -> Nat]
  /\ laps = passes

(* How far a thread is says which passes it has made, over which memory. *)
PassInv ==
  \A t \in Thread :
    /\ passes[t] <= num_iterations(t)
    /\ tpc[t] \in {"loop", "exited"} => region > 0
    /\ tpc[t] \notin {"loop", "exited"} => passes[t] = 0
    /\ tpc[t] = "exited" => passes[t] = num_iterations(t)

(* Which threads there are, as main goes on. *)
CreateInv ==
  /\ stage \in {"setup", "map"} => next = 0 /\ \A t \in Thread : tpc[t] = "none"
  /\ stage = "create" => \A t \in Thread : t >= next => tpc[t] = "none"
  /\ stage = "join" => \A t \in Thread : t < next => tpc[t] \in {"none", "exited"}
  /\ stage \in {"report", "returned"} => \A t \in Thread : tpc[t] \in {"none", "exited"}

(* The pool holds the timer of main and those of the threads in warm_up,   *)
(* each under a key of its own.                                            *)
TimersInv ==
  /\ missed = FALSE
  /\ stage \in {"setup", "map", "returned"} => pool = << >>
  /\ stage \in {"create", "join", "report"} =>
       /\ DOMAIN pool = {All} \cup {Key(t) : t \in {u \in Thread : tpc[u] = "warm"}}
       /\ \A t \in Thread : tpc[t] = "warm" => pool[Key(t)] = t

RunInv == MainTypeInv /\ PassInv /\ CreateInv /\ TimersInv


-----------------------------------------------------------------------------

(* Quotient and remainder take a number apart. *)
LEMMA Apart ==
  ASSUME NEW d \in Nat \ {0}, NEW x \in Nat
  PROVE  x \div d \in Nat /\ x % d \in 0 .. d - 1 /\ x = (x \div d) * d + (x % d)
<1> DEFINE q == x \div d
           r == x % d
<1>1. q \in Nat /\ r \in 0 .. d - 1 /\ x = d * q + r
  OBVIOUS
<1> HIDE DEF q, r
<1>2. x = q * d + r
  BY <1>1
<1>3. QED
  BY <1>1, <1>2 DEF q, r

(* Any way of taking it apart is that one. *)
LEMMA ApartUnique ==
  ASSUME NEW d \in Nat \ {0}, NEW x \in Nat, NEW q \in Nat, NEW r \in 0 .. d - 1, x = q * d + r
  PROVE  x \div d = q /\ x % d = r
  OBVIOUS

(* One more factor. *)
LEMMA NextMultiple ==
  ASSUME NEW a \in Nat, NEW b \in Nat, NEW d \in Nat, a < b
  PROVE  a * d \in Nat /\ b * d \in Nat /\ a * d + d <= b * d
<1>1. (a + 1) * d <= b * d /\ (a + 1) * d = a * d + d
  OBVIOUS
<1>2. QED
  BY <1>1

(* A number below a product has a quotient below the other factor. *)
LEMMA QuotientBelow ==
  ASSUME NEW d \in Nat \ {0}, NEW n \in Nat, NEW x \in 0 .. n * d - 1
  PROVE  x \div d \in 0 .. n - 1
<1>1. n * d \in Nat /\ x \in Nat /\ x < n * d
  OBVIOUS
<1>2. PICK q \in Nat : q = x \div d
  BY <1>1
<1>3. x % d \in 0 .. d - 1 /\ x = q * d + (x % d)
  BY <1>1, <1>2, Apart
<1>4. q * d \in Nat /\ q * d <= x
  BY <1>1, <1>2, <1>3
<1>5. q < n
  <2> SUFFICES ASSUME n <= q
               PROVE  n * d <= q * d
    BY <1>1, <1>2, <1>4
  <2>1. QED
    BY <1>2
<1>6. QED
  BY <1>2, <1>5

(* A wrap at 2^w does no harm below it, nor if the modulus divides it. *)
LEMMA WrapHarmless ==
  ASSUME NEW w \in Nat \ {0}, NEW n \in Nat \ {0}, NEW x \in Nat, x < w \/ w % n = 0
  PROVE  (x % w) % n = x % n
<1>1. CASE x < w
  BY <1>1
<1>2. CASE w % n = 0
  <2>1. PICK k \in Nat : w = k * n
    <3>1. w \div n \in Nat /\ w = (w \div n) * n + (w % n)
      BY Apart
    <3>2. (w \div n) * n + 0 = (w \div n) * n
      BY <3>1
    <3>3. QED
      BY <1>2, <3>1, <3>2
  <2>2. PICK q \in Nat, y \in Nat : x = q * w + y /\ y = x % w
    <3>1. x \div w \in Nat /\ x % w \in Nat /\ x = (x \div w) * w + (x % w)
      BY Apart
    <3>2. QED
      BY <3>1
  <2>3. PICK a \in Nat, b \in 0 .. n - 1 : y = a * n + b /\ b = y % n
    <3>1. y \div n \in Nat /\ y % n \in 0 .. n - 1 /\ y = (y \div n) * n + (y % n)
      BY Apart
    <3>2. QED
      BY <3>1
  <2>4. q * k + a \in Nat /\ q * w = (q * k) * n
    BY <2>1
  <2>5. x = (q * k + a) * n + b
    <3>1. (q * k + a) * n = (q * k) * n + a * n
      BY <2>4
    <3>2. q * w \in Nat /\ a * n \in Nat
      OBVIOUS
    <3>3. x = (q * k) * n + (a * n + b)
      BY <2>2, <2>3, <2>4
    <3>4. (q * k) * n \in Nat /\ b \in Nat
      BY <2>4, <3>2
    <3>5. QED
      BY <3>1, <3>2, <3>3, <3>4
  <2>6. PICK p \in Nat : p = q * k + a
    BY <2>4
  <2>7. x % n = b
    BY <2>5, <2>6, ApartUnique
  <2>8. QED
    BY <2>2, <2>3, <2>7
<1>3. QED
  BY <1>1, <1>2

(* Adding the same to two cores keeps them apart. *)
LEMMA RotateInjective ==
  ASSUME NEW n \in Nat \ {0}, NEW a \in Nat, NEW x \in 0 .. n - 1, NEW y \in 0 .. n - 1,
         (a + x) % n = (a + y) % n
  PROVE  x = y
<1>1. PICK p \in Nat, q \in Nat, r \in 0 .. n - 1 : a + x = p * n + r /\ a + y = q * n + r
  <2>1. PICK u \in Nat : u = a + x
    OBVIOUS
  <2>2. PICK v \in Nat : v = a + y
    OBVIOUS
  <2>3. u \div n \in Nat /\ u % n \in 0 .. n - 1 /\ u = (u \div n) * n + (u % n)
    BY Apart
  <2>4. v \div n \in Nat /\ v = (v \div n) * n + (v % n)
    BY Apart
  <2>5. u % n = v % n
    BY <2>1, <2>2
  <2>6. QED
    BY <2>1, <2>2, <2>3, <2>4, <2>5
<1>2. ~(p < q)
  <2> SUFFICES ASSUME p < q
               PROVE  FALSE
    OBVIOUS
  <2>1. p * n \in Nat /\ q * n \in Nat /\ p * n + n <= q * n
    BY NextMultiple
  <2>2. QED
    BY <1>1, <2>1
<1>3. ~(q < p)
  <2> SUFFICES ASSUME q < p
               PROVE  FALSE
    OBVIOUS
  <2>1. q * n \in Nat /\ p * n \in Nat /\ q * n + n <= p * n
    BY NextMultiple
  <2>2. QED
    BY <1>1, <2>1
<1>4. p = q
  BY <1>2, <1>3
<1>5. p * n \in Nat
  OBVIOUS
<1>6. QED
  BY <1>1, <1>4, <1>5

(* And reaches every core. *)
LEMMA RotateOnto ==
  ASSUME NEW n \in Nat \ {0}, NEW a \in Nat, NEW c \in 0 .. n - 1
  PROVE  \E y \in 0 .. n - 1 : (a + y) % n = c
<1>1. PICK p \in Nat, b \in 0 .. n - 1 : a = p * n + b
  <2>1. a \div n \in Nat /\ a % n \in 0 .. n - 1 /\ a = (a \div n) * n + (a % n)
    BY Apart
  <2>2. QED
    BY <2>1
<1>2. CASE c >= b
  <2>1. c - b \in 0 .. n - 1 /\ a + (c - b) \in Nat
    BY <1>2
  <2>2. a + (c - b) = p * n + c
    <3>1. p * n \in Nat
      OBVIOUS
    <3>2. QED
      BY <1>1, <3>1
  <2>3. (a + (c - b)) % n = c
    BY <2>1, <2>2, ApartUnique
  <2>4. QED
    BY <2>1, <2>3
<1>3. CASE c < b
  <2>1. c - b + n \in 0 .. n - 1 /\ a + (c - b + n) \in Nat
    BY <1>3
  <2>2. a + (c - b + n) = (p + 1) * n + c
    <3>1. (p + 1) * n = p * n + n /\ p * n \in Nat
      OBVIOUS
    <3>2. QED
      BY <1>1, <3>1
  <2>3. PICK u \in Nat, k \in Nat : u = a + (c - b + n) /\ k = p + 1
    BY <2>1
  <2>4. u % n = c
    BY <2>2, <2>3, ApartUnique
  <2>5. QED
    BY <2>1, <2>3, <2>4
<1>4. QED
  BY <1>2, <1>3

-----------------------------------------------------------------------------

(* How far thread r of a round sits from the first, with groups of g cores *)
(* that lie step apart.                                                    *)
Offset(r, g, step) == (r \div g) + (r % g) * step

(* A round fills the cores once: an offset is a core, *)
LEMMA OffsetRange ==
  ASSUME NEW g \in Nat \ {0}, NEW step \in Nat \ {0}, NEW r \in 0 .. g * step - 1
  PROVE  /\ Offset(r, g, step) \in 0 .. g * step - 1
         /\ Offset(r, g, step) % step = r \div g
         /\ Offset(r, g, step) \div step = r % g
<1>1. g * step \in Nat /\ r \in Nat /\ g * step = step * g
  OBVIOUS
<1>2. PICK a \in 0 .. step - 1 : a = r \div g
  BY <1>1, QuotientBelow
<1>3. PICK b \in 0 .. g - 1 : b = r % g
  BY <1>1
<1>4. b * step \in Nat /\ b * step + step <= g * step
  BY NextMultiple
<1>5. PICK x \in Nat : x = b * step + a
  BY <1>4
<1>6. x \div step = b /\ x % step = a
  BY <1>5, ApartUnique
<1>7. Offset(r, g, step) = x
  BY <1>2, <1>3, <1>4, <1>5 DEF Offset
<1>8. x \in 0 .. g * step - 1
  BY <1>1, <1>4, <1>5
<1>9. QED
  BY <1>2, <1>3, <1>6, <1>7, <1>8

(* two threads have two of them, *)
LEMMA OffsetInjective ==
  ASSUME NEW g \in Nat \ {0}, NEW step \in Nat \ {0},
         NEW r \in 0 .. g * step - 1, NEW s \in 0 .. g * step - 1,
         Offset(r, g, step) = Offset(s, g, step)
  PROVE  r = s
<1>1. r \in Nat /\ s \in Nat
  OBVIOUS
<1>2. r \div g = s \div g /\ r % g = s % g
  BY OffsetRange
<1>3. r = (r \div g) * g + (r % g) /\ s = (s \div g) * g + (s % g)
  BY <1>1, Apart
<1>4. QED
  BY <1>2, <1>3

(* and each core is one. *)
LEMMA OffsetOnto ==
  ASSUME NEW g \in Nat \ {0}, NEW step \in Nat \ {0}, NEW y \in 0 .. g * step - 1
  PROVE  \E r \in 0 .. g * step - 1 : Offset(r, g, step) = y
<1>1. g * step \in Nat /\ y \in Nat /\ g * step = step * g
  OBVIOUS
<1>2. PICK b \in 0 .. g - 1 : b = y \div step
  BY QuotientBelow
<1>3. PICK a \in 0 .. step - 1 : a = y % step
  BY <1>1
<1>4. y = b * step + a
  BY <1>1, <1>2, <1>3, Apart
<1>5. a * g \in Nat /\ a * g + g <= step * g
  BY NextMultiple
<1>6. PICK r \in Nat : r = a * g + b
  BY <1>5
<1>7. r \div g = a /\ r % g = b
  BY <1>6, ApartUnique
<1>8. r \in 0 .. g * step - 1
  BY <1>1, <1>5, <1>6
<1>9. Offset(r, g, step) = a + b * step
  BY <1>7 DEF Offset
<1>10. b * step \in Nat
  OBVIOUS
<1>11. QED
  BY <1>4, <1>8, <1>9, <1>10


(* core_id of thread t, with the sum cut to w values. *)
Place(t, s, g, step, w, n) == ((s + (t \div g) + (t % g) * step) % w) % n

(* Arguments with groups of g cores, thread r of round q, and a sum that   *)
(* stays below w or wraps around without harm.                             *)
Placing(s, g, step, w, q, r) ==
  /\ s \in Nat /\ g \in Nat \ {0} /\ step \in Nat \ {0} /\ w \in Nat \ {0}
  /\ q \in Nat /\ r \in 0 .. g * step - 1
  /\ s + (q * (g * step) + r) + g * step < w \/ w % (g * step) = 0

(* The core of thread r of round q, whether or not the sum wraps around. *)
LEMMA CoreFormula ==
  ASSUME NEW s, NEW g, NEW step, NEW w, NEW q, NEW r, Placing(s, g, step, w, q, r)
  PROVE  Place(q * (g * step) + r, s, g, step, w, g * step)
           = ((s + q * step) + Offset(r, g, step)) % (g * step)
<1>1. /\ s \in Nat /\ g \in Nat \ {0} /\ step \in Nat \ {0} /\ w \in Nat \ {0}
      /\ q \in Nat /\ r \in 0 .. g * step - 1
  BY DEF Placing
<1>2. PICK n \in Nat \ {0} : n = g * step
  <2>1. g * step >= g
    BY <1>1
  <2>2. QED
    BY <1>1, <2>1
<1>3. PICK t \in Nat : t = q * n + r
  BY <1>1, <1>2
<1>4. PICK c \in Nat, b \in 0 .. g - 1 : r = c * g + b /\ c = r \div g /\ b = r % g
  <2>1. r \in Nat
    BY <1>1, <1>2
  <2>2. r \div g \in Nat /\ r % g \in 0 .. g - 1 /\ r = (r \div g) * g + (r % g)
    BY <1>1, <2>1, Apart
  <2>3. QED
    BY <2>2
<1>5. PICK a \in Nat : a = q * step + c
  BY <1>1
<1>6. t = a * g + b
  <2>1. q * n = (q * step) * g /\ q * step \in Nat /\ c * g \in Nat
    BY <1>1, <1>2
  <2>2. (q * step + c) * g = (q * step) * g + c * g
    BY <1>1, <2>1
  <2>3. (q * step) * g \in Nat
    BY <1>1, <2>1
  <2>4. a * g = q * n + c * g /\ q * n \in Nat
    BY <1>5, <2>1, <2>2, <2>3
  <2>5. QED
    BY <1>3, <1>4, <2>1, <2>4
<1>7. t \div g = a /\ t % g = b
  BY <1>1, <1>6, ApartUnique
<1>8. a <= t
  <2>1. a * g >= a /\ a * g \in Nat
    BY <1>1
  <2>2. QED
    BY <1>6, <2>1
<1>9. b * step \in Nat /\ b * step + step <= n
  <2>1. b \in Nat /\ g \in Nat /\ step \in Nat /\ b < g
    BY <1>1
  <2>2. QED
    BY <1>2, <2>1, NextMultiple
<1>10. PICK x \in Nat : x = s + a + b * step
  BY <1>1, <1>9
<1>11. x < s + t + n
  BY <1>1, <1>8, <1>9, <1>10
<1>12. x < w \/ w % n = 0
  <2>1. s + t + n < w \/ w % n = 0
    BY <1>2, <1>3 DEF Placing
  <2>2. QED
    BY <1>1, <1>11, <2>1
<1>13. (x % w) % n = x % n
  <2>1. w \in Nat \ {0} /\ n \in Nat \ {0} /\ x \in Nat
    BY <1>1
  <2>2. QED
    BY ONLY <2>1, <1>12, WrapHarmless, Zenon
<1>14. x = (s + q * step) + Offset(r, g, step)
  <2>1. PICK d \in Nat : d = q * step
    BY <1>1
  <2>2. Offset(r, g, step) = c + b * step
    BY <1>4 DEF Offset
  <2>3. a = d + c
    BY <1>5, <2>1
  <2>4. QED
    BY <1>1, <1>9, <1>10, <2>1, <2>2, <2>3
<1>15. Place(t, s, g, step, w, n) = (x % w) % n
  BY <1>7, <1>10 DEF Place
<1>16. QED
  BY <1>2, <1>3, <1>13, <1>14, <1>15

(* What the checked arguments are. *)
LEMMA CheckedArguments ==
  ASSUME HelperTypeInv, status \in {"mapping", "ready"}
  PROVE  /\ arg.num_cores \in Nat \ {0} /\ arg.thread_step \in Nat \ {0}
         /\ group_size \in Nat \ {0} /\ arg.num_cores = group_size * arg.thread_step
         /\ arg.core_id_start \in Nat /\ arg.num_threads \in Nat /\ Word \in Nat \ {0}
<1>1. /\ arg.num_cores \in Nat \ {0} /\ arg.thread_step \in Nat
      /\ arg.core_id_start \in Nat /\ arg.num_threads \in Nat
  BY HelperAssumption DEF HelperTypeInv, Arguments
<1>2. arg.thread_step > 0 /\ arg.num_cores % arg.thread_step = 0
  BY DEF HelperTypeInv
<1>3. Word \in Nat \ {0}
  BY HelperAssumption
<1>4. PICK n \in Nat \ {0}, d \in Nat \ {0} : n = arg.num_cores /\ d = arg.thread_step
  BY <1>1, <1>2
<1>5. PICK g \in Nat : g = n \div d
  OBVIOUS
<1>6. n = (n \div d) * d + (n % d)
  BY Apart
<1>7. n % d = 0 /\ g * d \in Nat
  BY <1>2, <1>4
<1>8. n = g * d
  BY <1>5, <1>6, <1>7
<1>9. g # 0
  BY <1>8
<1>10. QED
  BY <1>1, <1>3, <1>4, <1>5, <1>8, <1>9 DEF group_size

(* A round puts every thread on a core of its own, and one on every core. *)
LEMMA RoundFillsCores ==
  ASSUME HelperTypeInv, status \in {"mapping", "ready"}, NoSkip,
         NEW n \in Nat \ {0}, n = arg.num_cores, NEW q \in Nat
  PROVE  /\ \A t, u \in q * n .. q * n + n - 1 :
              t < arg.num_threads /\ u < arg.num_threads /\ core_id(t) = core_id(u) => t = u
         /\ q * n + n <= arg.num_threads =>
              \A c \in 0 .. n - 1 : \E t \in q * n .. q * n + n - 1 : core_id(t) = c
<1>1. PICK g \in Nat \ {0} : g = group_size
  BY CheckedArguments
<1>2. PICK step \in Nat \ {0} : step = arg.thread_step
  BY CheckedArguments
<1>3. PICK s \in Nat : s = arg.core_id_start
  BY CheckedArguments
<1>4. PICK m \in Nat : m = arg.num_threads
  BY CheckedArguments
<1>5. n = g * step /\ Word \in Nat \ {0}
  BY <1>1, <1>2, CheckedArguments
<1>6. s + m + n < Word \/ Word % n = 0
  BY <1>3, <1>4 DEF NoSkip
<1>7. q * n \in Nat
  OBVIOUS
<1>8. PICK a \in Nat : a = s + q * step
  OBVIOUS
<1>9. ASSUME NEW r \in 0 .. n - 1, q * n + r < m
      PROVE  core_id(q * n + r) = (a + Offset(r, g, step)) % n
  <2>1. PICK t \in 0 .. m - 1 : t = q * n + r
    BY <1>7, <1>9
  <2>2. Place(q * n + r, s, g, step, Word, n) = ((s + q * step) + Offset(r, g, step)) % n
    <3>1. s + (q * (g * step) + r) + g * step < Word \/ Word % (g * step) = 0
      BY <1>5, <1>6, <2>1
    <3>2. Placing(s, g, step, Word, q, r)
      BY <1>5, <3>1 DEF Placing
    <3>3. Place(q * (g * step) + r, s, g, step, Word, g * step)
            = ((s + q * step) + Offset(r, g, step)) % (g * step)
      BY ONLY <3>2, CoreFormula, SMT
    <3>4. QED
      BY <1>5, <3>3
  <2>3. core_id(q * n + r) = Place(q * n + r, s, g, step, Word, n)
    BY <1>1, <1>2, <1>3, Zenon DEF core_id, Place
  <2>4. QED
    BY <1>8, <2>2, <2>3
<1>10. \A r \in 0 .. n - 1 : Offset(r, g, step) \in 0 .. n - 1
  BY <1>5, OffsetRange
<1>11. ASSUME NEW r \in 0 .. n - 1, NEW u \in 0 .. n - 1, q * n + r < m, q * n + u < m,
              core_id(q * n + r) = core_id(q * n + u)
       PROVE  r = u
  <2>1. (a + Offset(r, g, step)) % n = (a + Offset(u, g, step)) % n
    BY <1>9, <1>11
  <2>2. PICK x \in 0 .. n - 1 : x = Offset(r, g, step)
    BY <1>10
  <2>3. PICK y \in 0 .. n - 1 : y = Offset(u, g, step)
    BY <1>10
  <2>4. x = y
    BY <2>1, <2>2, <2>3, RotateInjective
  <2>5. QED
    BY <1>5, <2>2, <2>3, <2>4, OffsetInjective
<1>12. \A t \in q * n .. q * n + n - 1 : t - q * n \in 0 .. n - 1 /\ q * n + (t - q * n) = t
  BY <1>7
<1>13. ASSUME NEW t \in q * n .. q * n + n - 1, NEW u \in q * n .. q * n + n - 1,
              t < arg.num_threads, u < arg.num_threads, core_id(t) = core_id(u)
       PROVE  t = u
  <2>1. PICK x \in 0 .. n - 1 : t = q * n + x
    BY <1>12
  <2>2. PICK y \in 0 .. n - 1 : u = q * n + y
    BY <1>12
  <2>3. x = y
    BY <1>4, <1>11, <1>13, <2>1, <2>2
  <2>4. QED
    BY <2>1, <2>2, <2>3
<1>14. ASSUME q * n + n <= arg.num_threads, NEW c \in 0 .. n - 1
       PROVE  \E t \in q * n .. q * n + n - 1 : core_id(t) = c
  <2>1. PICK y \in 0 .. n - 1 : (a + y) % n = c
    <3>1. n \in Nat \ {0}
      OBVIOUS
    <3>2. QED
      BY ONLY <3>1, RotateOnto, Zenon
  <2>2. PICK r \in 0 .. n - 1 : Offset(r, g, step) = y
    BY <1>5, OffsetOnto
  <2>3. q * n + r < m /\ q * n + r \in q * n .. q * n + n - 1
    BY <1>4, <1>7, <1>14
  <2>4. core_id(q * n + r) = c
    BY <1>9, <2>1, <2>2, <2>3
  <2>5. QED
    BY <2>3, <2>4
<1>15. QED
  BY <1>13, <1>14


-----------------------------------------------------------------------------

LEMMA HelperStarts == HelperInit => HelperInv
<1> SUFFICES ASSUME HelperInit
             PROVE  HelperInv
  OBVIOUS
<1>1. DOMAIN core = 0 .. i - 1 /\ i = 0 /\ 0 .. i - 1 = {}
  BY DEF HelperInit
<1>2. arg.num_threads \in Nat /\ arg.num_cores \in Nat \ {0}
  BY HelperAssumption DEF HelperInit, Arguments
<1>3. HelperTypeInv
  <2>1. i \in 0 .. arg.num_threads
    BY <1>1, <1>2
  <2>2. QED
    BY <1>1, <2>1 DEF HelperInit, HelperTypeInv
<1>4. CoreInv
  BY <1>1 DEF CoreInv
<1>5. LoadInv
  <2> SUFFICES ASSUME NEW c \in 0 .. arg.num_cores - 1
               PROVE  Load(c) = (i \div arg.num_cores)
                        + (IF \E t \in RoundStart .. i - 1 : core[t] = c THEN 1 ELSE 0)
    BY DEF LoadInv
  <2>1. Load(c) = 0
    <3>1. {t \in DOMAIN core : core[t] = c} = {}
      BY <1>1
    <3>2. QED
      BY <3>1, FS_EmptySet DEF Load
  <2>2. i \div arg.num_cores = 0
    BY <1>1, <1>2
  <2>3. RoundStart = 0
    BY <1>2, <2>2 DEF RoundStart
  <2>4. QED
    BY <1>1, <2>1, <2>2, <2>3
<1>6. QED
  BY <1>3, <1>4, <1>5 DEF HelperInv

LEMMA CheckStep ==
  ASSUME HelperInv, Check \/ Ready
  PROVE  HelperInv'
<1>1. arg' = arg /\ i' = i /\ core' = core /\ status' \in {"exit", "sigfpe", "mapping", "ready"}
  BY DEF Check, Ready
<1>2. arg.num_cores \in Nat \ {0} /\ arg.thread_step \in Nat
  BY HelperAssumption DEF HelperInv, HelperTypeInv, Arguments
<1>3. HelperTypeInv'
  <2>1. CASE Check
    <3>1. arg.num_cores % arg.thread_step \in Nat \/ arg.thread_step = 0
      BY <1>2
    <3>2. i = 0
      BY <2>1 DEF Check, HelperInv, HelperTypeInv
    <3>3. status' \in {"mapping", "ready"} =>
            arg.thread_step > 0 /\ arg.num_cores % arg.thread_step = 0
      BY <1>2, <2>1, <3>1 DEF Check
    <3>4. QED
      BY <1>1, <3>2, <3>3 DEF HelperInv, HelperTypeInv
  <2>2. CASE Ready
    BY <1>1, <2>2 DEF Ready, HelperInv, HelperTypeInv
  <2>3. QED
    BY <2>1, <2>2
<1>4. CoreInv'
  BY <1>1 DEF HelperInv, CoreInv, core_id, group_size
<1>5. LoadInv'
  BY <1>1 DEF HelperInv, LoadInv, NoSkip, Load, RoundStart
<1>6. QED
  BY <1>3, <1>4, <1>5 DEF HelperInv

(* Placing thread i gives its core one thread more, and no other core. *)
LEMMA LoadEffect ==
  ASSUME HelperTypeInv, MapThread, NEW c
  PROVE  /\ Load(c) \in Nat
         /\ Load(c)' = IF core_id(i) = c THEN Load(c) + 1 ELSE Load(c)
<1> DEFINE S == {t \in DOMAIN core : core[t] = c}
           T == {t \in 0 .. i : (IF t = i THEN core_id(i) ELSE core[t]) = c}
<1>1. i \in Nat /\ DOMAIN core = 0 .. i - 1
  BY HelperAssumption DEF HelperTypeInv, Arguments
<1>2. IsFiniteSet(S)
  <2>1. IsFiniteSet(0 .. i - 1)
    BY <1>1, FS_Interval
  <2>2. S \subseteq 0 .. i - 1
    BY <1>1
  <2>3. QED
    BY <2>1, <2>2, FS_Subset
<1>3. Load(c) = Cardinality(S) /\ Cardinality(S) \in Nat
  BY <1>2, FS_CardinalityType DEF Load
<1>4. Load(c)' = Cardinality(T)
  <2>1. DOMAIN core' = 0 .. i
    BY DEF MapThread
  <2>2. \A t \in 0 .. i : core'[t] = IF t = i THEN core_id(i) ELSE core[t]
    BY DEF MapThread
  <2>3. {t \in DOMAIN core' : core'[t] = c} = T
    BY <2>1, <2>2
  <2>4. QED
    BY <2>3 DEF Load
<1>5. i \notin S
  BY <1>1
<1>6. CASE core_id(i) = c
  <2>1. T = S \cup {i}
    BY <1>1, <1>6
  <2>2. Cardinality(S \cup {i}) = Cardinality(S) + 1
    BY <1>2, <1>5, FS_AddElement
  <2>3. QED
    BY <1>3, <1>4, <1>6, <2>1, <2>2
<1>7. CASE core_id(i) # c
  <2>1. T = S
    BY <1>1, <1>7
  <2>2. QED
    BY <1>3, <1>4, <1>7, <2>1
<1>8. QED
  BY <1>3, <1>6, <1>7

(* A step of the loop keeps the loads even: in a round no core comes twice, *)
(* and at its end each one has come.                                        *)
LEMMA MapStep ==
  ASSUME HelperInv, MapThread
  PROVE  HelperInv'
<1> USE DEF HelperInv
<1>1. /\ status \in {"mapping", "ready"} /\ status' = status /\ arg' = arg /\ i' = i + 1
      /\ core' = [t \in 0 .. i |-> IF t = i THEN core_id(i) ELSE core[t]]
  BY DEF MapThread
<1>2. PICK n \in Nat \ {0} : n = arg.num_cores
  BY CheckedArguments, <1>1
<1>3. PICK m \in Nat : m = arg.num_threads
  BY CheckedArguments, <1>1
<1>4. i \in Nat /\ i < m
  BY <1>3 DEF HelperTypeInv, MapThread
<1>5. HelperTypeInv'
  <2>1. i + 1 \in 0 .. m /\ 0 .. i + 1 - 1 = 0 .. i
    BY <1>4
  <2>2. QED
    BY <1>1, <1>3, <2>1 DEF HelperTypeInv
<1>6. \A t : core_id(t)' = core_id(t)
  BY <1>1 DEF core_id, group_size
<1>7. CoreInv'
  BY <1>1, <1>4, <1>6 DEF CoreInv
<1>8. ASSUME NoSkip'
      PROVE  \A c \in 0 .. n - 1 :
               Load(c)' = ((i + 1) \div n)
                 + (IF \E t \in ((i + 1) \div n) * n .. i : core'[t] = c THEN 1 ELSE 0)
  <2>1. NoSkip
    BY <1>1, <1>8 DEF NoSkip
  <2>2. PICK q \in Nat, r \in 0 .. n - 1 : i = q * n + r /\ q = i \div n
    <3>1. i \div n \in Nat /\ i % n \in 0 .. n - 1 /\ i = (i \div n) * n + (i % n)
      BY <1>4, Apart
    <3>2. QED
      BY <3>1
  <2>3. PICK b \in Nat : b = q * n
    OBVIOUS
  <2>4. /\ \A t, u \in b .. b + n - 1 :
             t < m /\ u < m /\ core_id(t) = core_id(u) => t = u
        /\ b + n <= m => \A c \in 0 .. n - 1 : \E t \in b .. b + n - 1 : core_id(t) = c
    <3>1. HelperTypeInv /\ n \in Nat \ {0} /\ q \in Nat
      OBVIOUS
    <3>2. /\ \A t, u \in q * n .. q * n + n - 1 :
               t < arg.num_threads /\ u < arg.num_threads /\ core_id(t) = core_id(u) => t = u
          /\ q * n + n <= arg.num_threads =>
               \A c \in 0 .. n - 1 : \E t \in q * n .. q * n + n - 1 : core_id(t) = c
      BY ONLY <1>1, <1>2, <2>1, <3>1, RoundFillsCores
    <3>3. QED
      BY <1>3, <2>3, <3>2
  <2>5. i = b + r
    BY <2>2, <2>3
  <2>6. \A c \in 0 .. n - 1 :
          Load(c) = q + (IF \E t \in b .. i - 1 : core[t] = c THEN 1 ELSE 0)
    BY <1>2, <2>1, <2>2, <2>3 DEF LoadInv, RoundStart
  <2>7. \A t \in b .. i - 1 : core[t] = core_id(t)
    BY <1>4, <2>3 DEF CoreInv
  <2>8. \A t \in b .. i : core'[t] = core_id(t)
    BY <1>1, <1>4, <2>3, <2>5, <2>7
  <2> TAKE c \in 0 .. n - 1
  <2>9. Load(c) = q + (IF \E t \in b .. i - 1 : core_id(t) = c THEN 1 ELSE 0)
    BY <2>6, <2>7
  <2>10. Load(c)' = IF core_id(i) = c THEN Load(c) + 1 ELSE Load(c)
    BY LoadEffect
  <2>11. core_id(i) = c => ~\E t \in b .. i - 1 : core_id(t) = c
    BY <1>4, <2>3, <2>4, <2>5
  <2>12. (\E t \in b .. i : core_id(t) = c)
           <=> (core_id(i) = c \/ \E t \in b .. i - 1 : core_id(t) = c)
    BY <1>4, <2>3, <2>5
  <2>13. Load(c)' = q + (IF \E t \in b .. i : core_id(t) = c THEN 1 ELSE 0)
    <3>1. CASE core_id(i) = c
      BY <2>9, <2>10, <2>11, <2>12, <3>1
    <3>2. CASE core_id(i) # c
      BY <2>9, <2>10, <2>12, <3>2
    <3>3. QED
      BY <3>1, <3>2
  <2>14. CASE r + 1 < n
    <3>1. PICK k \in 0 .. n - 1 : k = r + 1
      BY <2>14
    <3>2. PICK x \in Nat : x = i + 1
      BY <1>4
    <3>3. x = q * n + k
      BY <2>3, <2>5, <3>1, <3>2
    <3>4. x \div n = q
      BY <3>3, ApartUnique
    <3>5. ((i + 1) \div n) = q /\ ((i + 1) \div n) * n = b
      BY <2>3, <3>2, <3>4
    <3>6. QED
      BY <2>8, <2>13, <3>5
  <2>15. CASE r + 1 = n
    <3>1. PICK x \in Nat, p \in Nat, zero \in 0 .. n - 1 : x = i + 1 /\ p = q + 1 /\ zero = 0
      BY <1>4
    <3>2. x = p * n + zero
      <4>1. (q + 1) * n = q * n + n
        OBVIOUS
      <4>2. p * n = b + n /\ x = b + n
        BY <2>3, <2>5, <2>15, <3>1, <4>1
      <4>3. QED
        BY <2>3, <3>1, <4>2
    <3>3. x \div n = p
      BY <3>2, ApartUnique
    <3>4. p * n = x
      <4>1. p * n \in Nat
        OBVIOUS
      <4>2. QED
        BY <3>1, <3>2, <4>1
    <3>5. ((i + 1) \div n) = q + 1 /\ ((i + 1) \div n) * n = i + 1
      BY <3>1, <3>3, <3>4
    <3>6. \E t \in b .. i : core_id(t) = c
      <4>1. b + n <= m /\ b + n - 1 = i
        BY <1>4, <2>3, <2>5, <2>15
      <4>2. QED
        BY <2>4, <4>1
    <3>7. i + 1 .. i = {}
      BY <1>4
    <3>8. QED
      BY <2>13, <3>5, <3>6, <3>7
  <2>16. QED
    BY <2>14, <2>15
<1>9. LoadInv'
  <2>1. RoundStart' = ((i + 1) \div n) * n /\ (i + 1) - 1 = i
    BY <1>1, <1>2, <1>4 DEF RoundStart
  <2>2. QED
    BY <1>1, <1>2, <1>8, <2>1 DEF LoadInv
<1>10. QED
  BY <1>5, <1>7, <1>9

(* The loads of two cores differ by the round under way. *)
LEMMA LoadsBalanced == HelperInv => Balanced
<1> SUFFICES ASSUME HelperInv, NoSkip,
                    NEW c \in 0 .. arg.num_cores - 1, NEW d \in 0 .. arg.num_cores - 1
             PROVE  Load(c) <= Load(d) + 1
  BY DEF Balanced
<1>1. PICK q \in Nat : q = i \div arg.num_cores
  <2>1. arg.num_cores \in Nat \ {0} /\ arg.num_threads \in Nat
    BY HelperAssumption DEF HelperInv, HelperTypeInv, Arguments
  <2>2. i \in Nat
    BY <2>1 DEF HelperInv, HelperTypeInv
  <2>3. QED
    BY <2>1, <2>2
<1>2. Load(c) \in {q, q + 1} /\ Load(d) \in {q, q + 1}
  BY <1>1 DEF HelperInv, LoadInv
<1>3. QED
  BY <1>1, <1>2

LEMMA HelperStep == HelperInv /\ [HelperNext]_helperVars => HelperInv'
<1> SUFFICES ASSUME HelperInv, [HelperNext]_helperVars
             PROVE  HelperInv'
  OBVIOUS
<1>1. CASE Check \/ Ready
  BY <1>1, CheckStep
<1>2. CASE MapThread
  BY <1>2, MapStep
<1>3. CASE UNCHANGED helperVars
  BY <1>3 DEF helperVars, HelperInv, HelperTypeInv, CoreInv, LoadInv, core_id, group_size,
     NoSkip, Load, RoundStart
<1>4. QED
  BY <1>1, <1>2, <1>3 DEF HelperNext, Finished

(* The constructor of ThreadHelper spreads the threads evenly: at every    *)
(* step of its loop, for every number of threads and cores, every step     *)
(* that passes the check and every first core, no core has two threads     *)
(* more than another, unless the sum wraps around at a number that the     *)
(* cores do not divide.                                                    *)
THEOREM PlacementBalanced == HelperSpec => []Balanced
<1>1. HelperSpec => []HelperInv
  BY HelperStarts, HelperStep, PTL DEF HelperSpec
<1>2. QED
  BY <1>1, LoadsBalanced, PTL


-----------------------------------------------------------------------------

(* Every step of a main is one of the constructor's, or leaves it alone. *)
LEMMA MainHelper == MainNext => [HelperNext]_helperVars
  BY DEF MainNext, Main, MemRegionExt, MemSetup, MapThreads, StartThreads, create, join, Report,
     thread_rmw, WarmStart, WarmEnd, Pass, Exit, Stay, HelperNext, allVars

(* The same in both programs, which call it for their threads. *)
THEOREM ProgramsBalanced == MainSpec => []Balanced
<1>1. MainInit => HelperInv
  BY HelperStarts DEF MainInit
<1>2. HelperInv /\ [MainNext]_allVars => HelperInv'
  <2>1. [MainNext]_allVars => [HelperNext]_helperVars
    BY MainHelper DEF allVars
  <2>2. QED
    BY <2>1, HelperStep
<1>3. QED
  BY <1>1, <1>2, LoadsBalanced, PTL DEF MainSpec

-----------------------------------------------------------------------------

LEMMA KeysApart ==
  /\ \A t \in Thread : Key(t) # All
  /\ \A t, u \in Thread : Key(t) = Key(u) => t = u
<1>1. "warmup" # "all"
  OBVIOUS
<1>2. QED
  BY <1>1 DEF Key, All

(* Sizes are numbers, and what the command line asks for does not change. *)
LEMMA MainConstants ==
  ASSUME MainTypeInv
  PROVE  /\ region \in Nat
         /\ \A t \in Thread : num_iterations(t) \in Nat
         /\ cmd' = cmd => region' = region /\ \A t \in Thread : num_iterations(t)' = num_iterations(t)
<1>1. cmd.partition_size \in Nat /\ cmd.num_iterations0 \in Nat /\ cmd.num_iterations1 \in Nat
  BY MainAssumption DEF MainTypeInv
<1>2. Word \in Nat \ {0} /\ Kilo \in Nat
  BY HelperAssumption, MainAssumption
<1>3. Kilo * cmd.partition_size \in Nat
  BY <1>1, <1>2
<1>4. region \in Nat
  BY <1>2, <1>3 DEF region, Bytes
<1>5. \A t \in Thread : num_iterations(t) \in Nat
  BY <1>1 DEF num_iterations
<1>6. cmd' = cmd => region' = region /\ \A t \in Thread : num_iterations(t)' = num_iterations(t)
  BY DEF region, Bytes, num_iterations
<1>7. QED
  BY <1>4, <1>5, <1>6

LEMMA RunStarts == MainInit => RunInv
<1> SUFFICES ASSUME MainInit
             PROVE  RunInv
  OBVIOUS
<1>1. cmd \in Commands
  BY MainAssumption DEF MainInit
<1>2. MainTypeInv
  BY <1>1 DEF MainInit, MainTypeInv
<1>3. PassInv
  BY <1>2, MainConstants DEF MainInit, PassInv
<1>4. CreateInv
  BY DEF MainInit, CreateInv, Thread
<1>5. TimersInv
  BY DEF MainInit, TimersInv
<1>6. QED
  BY <1>2, <1>3, <1>4, <1>5 DEF RunInv

(* Before the threads there is nothing to disturb but the stage. *)
LEMMA SetupStep ==
  ASSUME RunInv, MemRegionExt \/ MemSetup \/ MapThreads
  PROVE  RunInv'
<1> USE DEF RunInv
<1>1. /\ cmd' = cmd /\ next' = next /\ tpc' = tpc /\ passes' = passes /\ laps' = laps
      /\ pool' = pool /\ missed' = missed /\ stage \in {"setup", "map"}
  BY DEF MemRegionExt, MemSetup, MapThreads, threadVars
<1>2. stage' \in {"setup", "map", "sigfpe", "abort", "exit"}
  <2>1. CASE MemRegionExt
    BY <2>1 DEF MemRegionExt, Outcome
  <2>2. CASE MemSetup
    BY <2>2 DEF MemSetup
  <2>3. CASE MapThreads
    BY <2>3 DEF MapThreads
  <2>4. QED
    BY <2>1, <2>2, <2>3
<1>3. MainTypeInv'
  BY <1>1, <1>2 DEF MainTypeInv, Ended
<1>4. PassInv'
  BY <1>1, MainConstants DEF PassInv
<1>5. CreateInv'
  BY <1>1, <1>2 DEF CreateInv
<1>6. TimersInv'
  BY <1>1, <1>2 DEF TimersInv
<1>7. QED
  BY <1>3, <1>4, <1>5, <1>6

LEMMA StartStep ==
  ASSUME RunInv, StartThreads
  PROVE  RunInv'
<1> USE DEF RunInv
<1>1. /\ cmd' = cmd /\ next' = next /\ tpc' = tpc /\ passes' = passes /\ laps' = laps
      /\ missed' = missed /\ stage = "map" /\ stage' \in {"create", "segv", "flow"}
  BY DEF StartThreads
<1>2. MainTypeInv'
  BY <1>1 DEF MainTypeInv, Ended
<1>3. PassInv'
  BY <1>1, MainConstants DEF PassInv
<1>4. CreateInv'
  BY <1>1 DEF CreateInv
<1>5. TimersInv'
  <2>1. stage' = "create" => DOMAIN pool' = {All}
    BY DEF StartThreads
  <2>2. \A t \in Thread : tpc'[t] = "none"
    BY <1>1 DEF CreateInv
  <2>3. QED
    BY <1>1, <2>1, <2>2 DEF TimersInv
<1>6. QED
  BY <1>2, <1>3, <1>4, <1>5

LEMMA CreateStep ==
  ASSUME RunInv, create
  PROVE  RunInv'
<1> USE DEF RunInv
<1>1. /\ cmd' = cmd /\ passes' = passes /\ laps' = laps /\ pool' = pool /\ missed' = missed
      /\ stage = "create" /\ next \in Thread
      /\ \/ next = 0 /\ next' = 1 /\ stage' = "create"
         \/ next = 1 /\ next' = 0 /\ stage' = "join"
  BY DEF create, MainTypeInv, Thread
<1>2. PICK first \in {"warmup", "none"} : tpc' = [tpc EXCEPT ![next] = first]
  BY DEF create
<1>3. /\ tpc[next] = "none" /\ tpc'[next] = first
      /\ \A t \in Thread : t # next => tpc'[t] = tpc[t]
  BY <1>1, <1>2 DEF MainTypeInv, CreateInv
<1>4. MainTypeInv'
  BY <1>1, <1>2 DEF MainTypeInv
<1>5. PassInv'
  BY <1>1, <1>3, MainConstants DEF PassInv
<1>6. CreateInv'
  BY <1>1, <1>3 DEF CreateInv, Thread
<1>7. TimersInv'
  <2>1. \A t \in Thread : tpc'[t] = "warm" <=> tpc[t] = "warm"
    BY <1>3
  <2>2. {u \in Thread : tpc'[u] = "warm"} = {u \in Thread : tpc[u] = "warm"}
    BY <2>1
  <2>3. QED
    BY <1>1, <2>1, <2>2 DEF TimersInv
<1>8. QED
  BY <1>4, <1>5, <1>6, <1>7

LEMMA JoinStep ==
  ASSUME RunInv, join
  PROVE  RunInv'
<1> USE DEF RunInv
<1>1. /\ cmd' = cmd /\ tpc' = tpc /\ passes' = passes /\ laps' = laps
      /\ pool' = pool /\ missed' = missed
      /\ stage = "join" /\ tpc[next] \in {"none", "exited"}
      /\ \/ stage' = "segv"
         \/ stage' = IF next = 1 THEN "report" ELSE stage
  BY DEF join, threadVars
<1>2. (next = 0 /\ next' = 1) \/ (next = 1 /\ next' = 0)
  BY DEF join, MainTypeInv
<1>3. MainTypeInv'
  BY <1>1, <1>2 DEF MainTypeInv, Ended
<1>4. PassInv'
  BY <1>1, MainConstants DEF PassInv
<1>5. CreateInv'
  BY <1>1, <1>2 DEF CreateInv, Thread
<1>6. TimersInv'
  BY <1>1 DEF TimersInv
<1>7. QED
  BY <1>3, <1>4, <1>5, <1>6

LEMMA ReportStep ==
  ASSUME RunInv, Report
  PROVE  RunInv'
<1> USE DEF RunInv
<1>1. /\ cmd' = cmd /\ next' = next /\ tpc' = tpc /\ passes' = passes /\ laps' = laps
      /\ stage = "report" /\ stage' = "returned"
  BY DEF Report
<1>2. MainTypeInv'
  BY <1>1 DEF MainTypeInv, Ended
<1>3. PassInv'
  BY <1>1, MainConstants DEF PassInv
<1>4. CreateInv'
  BY <1>1 DEF CreateInv
<1>5. TimersInv'
  <2>1. {u \in Thread : tpc[u] = "warm"} = {}
    BY <1>1 DEF CreateInv
  <2>2. DOMAIN pool = {All}
    BY <1>1, <2>1 DEF TimersInv
  <2>3. missed' = FALSE
    BY <2>2 DEF Report, TimersInv
  <2>4. DOMAIN pool \ {All} = {}
    BY <2>2
  <2>5. pool' = << >>
    BY <2>4 DEF Report, Keep
  <2>6. QED
    BY <1>1, <2>3, <2>5 DEF TimersInv
<1>6. QED
  BY <1>2, <1>3, <1>4, <1>5

LEMMA WarmStartStep ==
  ASSUME RunInv, NEW t \in Thread, WarmStart(t)
  PROVE  RunInv'
<1> USE DEF RunInv
<1>1. /\ cmd' = cmd /\ next' = next /\ stage' = stage /\ passes' = passes /\ laps' = laps
      /\ missed' = missed /\ stage \in {"create", "join"} /\ tpc[t] = "warmup"
      /\ tpc' = [tpc EXCEPT ![t] = "warm"]
  BY DEF WarmStart, mainVars, ThreadsRun, Continue
<1>2. tpc'[t] = "warm" /\ \A u \in Thread : u # t => tpc'[u] = tpc[u]
  BY <1>1 DEF MainTypeInv
<1>3. MainTypeInv'
  BY <1>1 DEF MainTypeInv
<1>4. PassInv'
  BY <1>1, <1>2, MainConstants DEF PassInv
<1>5. CreateInv'
  BY <1>1, <1>2 DEF CreateInv
<1>6. TimersInv'
  <2>1. /\ DOMAIN pool' = DOMAIN pool \cup {Key(t)} /\ pool'[Key(t)] = t
        /\ \A k \in DOMAIN pool : k # Key(t) => pool'[k] = pool[k]
    BY DEF WarmStart
  <2>2. {u \in Thread : tpc'[u] = "warm"} = {u \in Thread : tpc[u] = "warm"} \cup {t}
    BY <1>2
  <2>3. DOMAIN pool' = {All} \cup {Key(u) : u \in {v \in Thread : tpc'[v] = "warm"}}
    BY <1>1, <2>1, <2>2 DEF TimersInv
  <2>4. ASSUME NEW u \in Thread, tpc'[u] = "warm"
        PROVE  pool'[Key(u)] = u
    <3>1. CASE u = t
      BY <2>1, <3>1
    <3>2. CASE u # t
      <4>1. tpc[u] = "warm" /\ pool[Key(u)] = u /\ Key(u) \in DOMAIN pool
        BY <1>1, <1>2, <2>4, <3>2 DEF TimersInv
      <4>2. Key(u) # Key(t)
        BY <3>2, KeysApart
      <4>3. QED
        BY <2>1, <4>1, <4>2
    <3>3. QED
      BY <3>1, <3>2
  <2>5. QED
    BY <1>1, <2>3, <2>4 DEF TimersInv
<1>7. QED
  BY <1>3, <1>4, <1>5, <1>6

LEMMA WarmEndStep ==
  ASSUME RunInv, NEW t \in Thread, WarmEnd(t)
  PROVE  RunInv'
<1> USE DEF RunInv
<1>1. /\ cmd' = cmd /\ next' = next /\ passes' = passes /\ laps' = laps
      /\ stage \in {"create", "join"} /\ tpc[t] = "warm"
  BY DEF WarmEnd, ThreadsRun
<1>2. CASE region = 0
  <2>1. stage' = "abort" /\ tpc' = tpc /\ pool' = pool /\ missed' = missed
    BY <1>2 DEF WarmEnd
  <2>2. MainTypeInv'
    BY <1>1, <2>1 DEF MainTypeInv, Ended
  <2>3. PassInv'
    BY <1>1, <2>1, MainConstants DEF PassInv
  <2>4. CreateInv'
    BY <2>1 DEF CreateInv
  <2>5. TimersInv'
    BY <2>1 DEF TimersInv
  <2>6. QED
    BY <2>2, <2>3, <2>4, <2>5
<1>3. CASE region # 0
  <2>1. stage' = stage /\ tpc' = [tpc EXCEPT ![t] = "loop"]
    BY <1>3 DEF WarmEnd, Continue
  <2>2. tpc'[t] = "loop" /\ \A u \in Thread : u # t => tpc'[u] = tpc[u]
    BY <2>1 DEF MainTypeInv
  <2>3. region > 0
    BY <1>3, MainConstants
  <2>4. MainTypeInv'
    BY <1>1, <2>1 DEF MainTypeInv
  <2>5. PassInv'
    BY <1>1, <2>2, <2>3, MainConstants DEF PassInv
  <2>6. CreateInv'
    BY <1>1, <2>1, <2>2 DEF CreateInv
  <2>7. TimersInv'
    <3>1. /\ DOMAIN pool = {All} \cup {Key(u) : u \in {v \in Thread : tpc[v] = "warm"}}
          /\ \A u \in Thread : tpc[u] = "warm" => pool[Key(u)] = u
      BY <1>1 DEF TimersInv
    <3>2. missed' = FALSE
      <4>1. Key(t) \in DOMAIN pool /\ pool[Key(t)] = t
        BY <1>1, <3>1
      <4>2. QED
        BY <1>3, <4>1 DEF WarmEnd, TimersInv
    <3>3. /\ DOMAIN pool' = DOMAIN pool \ {Key(t)}
          /\ \A k \in DOMAIN pool : k # Key(t) => pool'[k] = pool[k]
      BY <1>3 DEF WarmEnd, Keep
    <3>4. {v \in Thread : tpc'[v] = "warm"} = {v \in Thread : tpc[v] = "warm"} \ {t}
      BY <2>2
    <3>5. DOMAIN pool' = {All} \cup {Key(u) : u \in {v \in Thread : tpc'[v] = "warm"}}
      BY <3>1, <3>3, <3>4, KeysApart
    <3>6. ASSUME NEW u \in Thread, tpc'[u] = "warm"
          PROVE  pool'[Key(u)] = u
      <4>1. u # t /\ tpc[u] = "warm"
        BY <2>2, <3>6
      <4>2. Key(u) # Key(t) /\ Key(u) \in DOMAIN pool /\ pool[Key(u)] = u
        BY <3>1, <4>1, KeysApart
      <4>3. QED
        BY <3>3, <4>2
    <3>7. QED
      BY <1>1, <2>1, <3>2, <3>5, <3>6 DEF TimersInv
  <2>8. QED
    BY <2>4, <2>5, <2>6, <2>7
<1>4. QED
  BY <1>2, <1>3

LEMMA PassStep ==
  ASSUME RunInv, NEW t \in Thread, Pass(t) \/ Exit(t)
  PROVE  RunInv'
<1> USE DEF RunInv
<1>1. /\ cmd' = cmd /\ next' = next /\ stage' = stage /\ pool' = pool /\ missed' = missed
      /\ stage \in {"create", "join"} /\ tpc[t] = "loop"
  BY DEF Pass, Exit, mainVars, ThreadsRun
<1>2. /\ tpc' = tpc \/ tpc' = [tpc EXCEPT ![t] = "exited"]
      /\ \A u \in Thread : u # t => tpc'[u] = tpc[u]
      /\ tpc'[t] \in {"loop", "exited"}
  BY <1>1 DEF Pass, Exit, Continue, MainTypeInv
<1>3. passes[t] \in Nat
  BY DEF MainTypeInv
<1>4. /\ passes' \in [Thread -> Nat] /\ laps' = passes'
      /\ \A u \in Thread : u # t => passes'[u] = passes[u]
  <2>1. CASE Pass(t)
    BY <1>3, <2>1 DEF Pass, MainTypeInv
  <2>2. CASE Exit(t)
    BY <2>2 DEF Exit, MainTypeInv
  <2>3. QED
    BY <2>1, <2>2
<1>5. /\ passes'[t] <= num_iterations(t)
      /\ tpc'[t] = "exited" => passes'[t] = num_iterations(t)
  <2>1. CASE Pass(t)
    <3>1. passes'[t] = passes[t] + 1 /\ tpc'[t] = "loop" /\ passes[t] < num_iterations(t)
      BY <1>1, <2>1 DEF Pass, MainTypeInv
    <3>2. QED
      BY <1>3, <3>1, MainConstants
  <2>2. CASE Exit(t)
    <3>1. passes'[t] = num_iterations(t)
      BY <2>2 DEF Exit
    <3>2. QED
      BY <3>1, MainConstants
  <2>3. QED
    BY <2>1, <2>2
<1>6. MainTypeInv'
  BY <1>1, <1>2, <1>4 DEF MainTypeInv
<1>7. PassInv'
  <2>1. region' = region /\ \A u \in Thread : num_iterations(u)' = num_iterations(u)
    BY <1>1, MainConstants
  <2>2. region > 0
    BY <1>1 DEF PassInv
  <2>3. QED
    BY <1>2, <1>4, <1>5, <2>1, <2>2 DEF PassInv
<1>8. CreateInv'
  <2>1. \A u \in Thread : tpc[u] \in {"none", "exited"} => tpc'[u] = tpc[u]
    BY <1>1, <1>2
  <2>2. QED
    BY <1>1, <2>1 DEF CreateInv
<1>9. TimersInv'
  <2>1. \A u \in Thread : tpc'[u] = "warm" <=> tpc[u] = "warm"
    BY <1>1, <1>2
  <2>2. {u \in Thread : tpc'[u] = "warm"} = {u \in Thread : tpc[u] = "warm"}
    BY <2>1
  <2>3. QED
    BY <1>1, <2>1, <2>2 DEF TimersInv
<1>10. QED
  BY <1>6, <1>7, <1>8, <1>9

LEMMA RunStep == RunInv /\ [MainNext]_allVars => RunInv'
<1> SUFFICES ASSUME RunInv, [MainNext]_allVars
             PROVE  RunInv'
  OBVIOUS
<1>1. CASE Main
  BY <1>1, SetupStep, StartStep, CreateStep, JoinStep, ReportStep DEF Main
<1>2. ASSUME NEW t \in Thread, thread_rmw(t)
      PROVE  RunInv'
  BY <1>2, WarmStartStep, WarmEndStep, PassStep DEF thread_rmw
<1>3. CASE UNCHANGED allVars
  <2>1. /\ cmd' = cmd /\ stage' = stage /\ next' = next /\ tpc' = tpc /\ passes' = passes
        /\ laps' = laps /\ pool' = pool /\ missed' = missed
    BY <1>3 DEF allVars, mainVars, threadVars
  <2>2. QED
    BY <2>1, MainConstants DEF RunInv, MainTypeInv, PassInv, CreateInv, TimersInv
<1>4. QED
  BY <1>1, <1>2, <1>3 DEF MainNext, Stay

LEMMA RunReported == RunInv => RunComplete
  BY DEF RunInv, MainTypeInv, PassInv, CreateInv, TimersInv, RunComplete

(* smt_rdwr reports only what was done, for every command line and every   *)
(* interleaving of main and the threads, whichever of them could be        *)
(* created: the passes asked for, timed, over memory that is there, and    *)
(* every timer of the pool ended by its owner.                             *)
THEOREM RunsComplete == MainSpec => []RunComplete
  BY RunStarts, RunStep, RunReported, PTL DEF MainSpec

=============================================================================
