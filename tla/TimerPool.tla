------------------------------ MODULE TimerPool ------------------------------
(***************************************************************************)
(* The pool of named timers of lib_timing.cc: g_timer_map from keys to     *)
(* Timer objects, guarded by g_timer_map_mu, and threads that start and    *)
(* end timers over and over, several at a time.  A call takes the mutex,   *)
(* works on the map in two steps and drops the mutex with its lock_guard.  *)
(* Keys(t) are the keys thread t uses: its own in the programs of this     *)
(* repository, though nothing in the library asks for that.                *)
(***************************************************************************)
EXTENDS Integers, Functions

CONSTANTS
  Threads,
  Keys(_),    \* Keys(t): timer keys used by thread t
  None,       \* no thread, no key
  MaxTime     \* bound on the steady clock

ASSUME PoolAssumption ==
  /\ None \notin Threads
  /\ MaxTime \in Nat

AllKeys == UNION {Keys(t) : t \in Threads}
Unset == -1   \* the epoch, in a Timer that has not been started

VARIABLES
  clock,         \* steady_clock
  g_timer_map,   \* key -> time_point_begin_ of its Timer
  mu,            \* owner of g_timer_map_mu, or None
  pc,            \* pc[t]: next statement of thread t, "out" between calls
  key,           \* key[t]: timer_key of the current call, or None
  open,          \* open[t]: keys t has started and not ended
  abandoned,     \* keys whose end_timer was called with a count of 0
  began,         \* began[t][k]: when t's start_timer(k) read the clock
  reading        \* reading[t]: what t's last end_timer computed

vars == <<clock, g_timer_map, mu, pc, key, open, abandoned, began, reading>>

(* The mutex is held at these labels. *)
Inside == {"insert", "begin", "end", "erase"}

TypeOK ==
  /\ clock \in 0 .. MaxTime
  /\ DOMAIN g_timer_map \subseteq AllKeys
  /\ \A k \in DOMAIN g_timer_map : g_timer_map[k] \in Unset .. MaxTime
  /\ mu \in Threads \cup {None}
  /\ pc \in [Threads -> {"out", "s_lock", "e_lock"} \cup Inside]
  /\ \A t \in Threads : key[t] \in Keys(t) \cup {None} /\ open[t] \subseteq Keys(t)
  /\ abandoned \subseteq AllKeys
  /\ \A t \in Threads : began[t] \in [Keys(t) -> 0 .. MaxTime]
  /\ reading \in [Threads -> 0 .. MaxTime]

Init ==
  /\ clock = 0
  /\ g_timer_map = << >>
  /\ mu = None
  /\ pc = [t \in Threads |-> "out"]
  /\ key = [t \in Threads |-> None]
  /\ open = [t \in Threads |-> {}]
  /\ abandoned = {}
  /\ began = [t \in Threads |-> [k \in Keys(t) |-> 0]]
  /\ reading = [t \in Threads |-> 0]

Tick ==
  /\ clock < MaxTime
  /\ clock' = clock + 1
  /\ UNCHANGED <<g_timer_map, mu, pc, key, open, abandoned, began, reading>>

Goto(t, label) == pc' = [pc EXCEPT ![t] = label]

Return(t) == Goto(t, "out") /\ key' = [key EXCEPT ![t] = None] /\ mu' = None

-----------------------------------------------------------------------------
(* start_timer *)

CallStart(t) ==
  /\ pc[t] = "out"
  /\ \E k \in Keys(t) \ open[t] : key' = [key EXCEPT ![t] = k]
  /\ Goto(t, "s_lock")
  /\ UNCHANGED <<clock, g_timer_map, mu, open, abandoned, began, reading>>

(* Mutant: start_timer works on the map without the mutex. *)
StartUnlocked(t) ==
  /\ pc[t] = "s_lock"
  /\ Goto(t, "insert")
  /\ UNCHANGED <<clock, g_timer_map, mu, key, open, abandoned, began, reading>>

StartLock(t) ==
  /\ pc[t] = "s_lock"
  /\ mu = None
  /\ mu' = t
  /\ Goto(t, "insert")
  /\ UNCHANGED <<clock, g_timer_map, key, open, abandoned, began, reading>>

Put(map, k, begin) == [x \in DOMAIN map \cup {k} |-> IF x = k THEN begin ELSE map[x]]

(* Mutant: a timer that is still in the pool is left running. *)
StartReuse(t) ==
  /\ pc[t] = "insert"
  /\ g_timer_map' = IF key[t] \in DOMAIN g_timer_map THEN g_timer_map
                    ELSE Put(g_timer_map, key[t], clock)
  /\ began' = [began EXCEPT ![t][key[t]] = clock]
  /\ open' = [open EXCEPT ![t] = @ \cup {key[t]}]
  /\ abandoned' = abandoned \ {key[t]}
  /\ Return(t)
  /\ UNCHANGED <<clock, reading>>

(* A new Timer replaces whatever the key had, its begin not set yet. *)
StartInsert(t) ==
  /\ pc[t] = "insert"
  /\ g_timer_map' = Put(g_timer_map, key[t], Unset)
  /\ Goto(t, "begin")
  /\ UNCHANGED <<clock, mu, key, open, abandoned, began, reading>>

(* startTimer() on the object now in the map, and the lock_guard goes. *)
StartBegin(t) ==
  /\ pc[t] = "begin"
  /\ g_timer_map' = Put(g_timer_map, key[t], clock)
  /\ began' = [began EXCEPT ![t][key[t]] = clock]
  /\ open' = [open EXCEPT ![t] = @ \cup {key[t]}]
  /\ abandoned' = abandoned \ {key[t]}
  /\ Return(t)
  /\ UNCHANGED <<clock, reading>>

-----------------------------------------------------------------------------
(* end_timer *)

(* The overloads with num_refs or num_iters do nothing for a count of 0. *)
EndCountZero(t) ==
  /\ pc[t] = "out"
  /\ \E k \in open[t] :
       /\ open' = [open EXCEPT ![t] = @ \ {k}]
       /\ abandoned' = abandoned \cup {k}
  /\ UNCHANGED <<clock, g_timer_map, mu, pc, key, began, reading>>

(* Otherwise they make the plain call and only format its result. *)
CallEnd(t) ==
  /\ pc[t] = "out"
  /\ \E k \in open[t] : key' = [key EXCEPT ![t] = k]
  /\ Goto(t, "e_lock")
  /\ UNCHANGED <<clock, g_timer_map, mu, open, abandoned, began, reading>>

EndLock(t) ==
  /\ pc[t] = "e_lock"
  /\ mu = None
  /\ mu' = t
  /\ Goto(t, "end")
  /\ UNCHANGED <<clock, g_timer_map, key, open, abandoned, began, reading>>

(* at(), endTimer() and getElapsedTime(). *)
EndFound(t) ==
  /\ pc[t] = "end"
  /\ key[t] \in DOMAIN g_timer_map
  /\ reading' = [reading EXCEPT ![t] = clock - g_timer_map[key[t]]]
  /\ Goto(t, "erase")
  /\ UNCHANGED <<clock, g_timer_map, mu, key, open, abandoned, began>>

(* at() throws out_of_range: unlocked by unwinding, caught, 0 returned. *)
EndMissing(t) ==
  /\ pc[t] = "end"
  /\ key[t] \notin DOMAIN g_timer_map
  /\ reading' = [reading EXCEPT ![t] = 0]
  /\ open' = [open EXCEPT ![t] = @ \ {key[t]}]
  /\ Return(t)
  /\ UNCHANGED <<clock, g_timer_map, abandoned, began>>

(* Mutant: the timer stays in the pool. *)
EndKeep(t) ==
  /\ pc[t] = "erase"
  /\ open' = [open EXCEPT ![t] = @ \ {key[t]}]
  /\ Return(t)
  /\ UNCHANGED <<clock, g_timer_map, abandoned, began, reading>>

EndErase(t) ==
  /\ pc[t] = "erase"
  /\ g_timer_map' = Restrict(g_timer_map, DOMAIN g_timer_map \ {key[t]})
  /\ open' = [open EXCEPT ![t] = @ \ {key[t]}]
  /\ abandoned' = abandoned \ {key[t]}
  /\ Return(t)
  /\ UNCHANGED <<clock, began, reading>>

start_timer(t) == CallStart(t) \/ StartLock(t) \/ StartInsert(t) \/ StartBegin(t)

end_timer(t) ==
  \/ EndCountZero(t) \/ CallEnd(t) \/ EndLock(t)
  \/ EndFound(t) \/ EndMissing(t) \/ EndErase(t)

Next == Tick \/ \E t \in Threads : start_timer(t) \/ end_timer(t)

Spec == Init /\ [][Next]_vars

-----------------------------------------------------------------------------
(* For any use of keys *)

(* "Adding to timer pool needs to be thread safe": a shared key can cost a *)
(* thread time, never invent any.  What end_timer returns is at most the   *)
(* time since that thread's own start_timer; in particular nobody finds a  *)
(* timer that another thread has put into the map and not started yet.     *)
NeverTooLong ==
  \A t \in Threads : pc[t] = "erase" => reading[t] <= clock - began[t][key[t]]

(* For the keys that only one thread uses *)

Private(t) == Keys(t) \ UNION {Keys(u) : u \in Threads \ {t}}

(* end_timer finds the thread's own timer and returns exactly the time     *)
(* since its start_timer, whatever the other threads did to the map in     *)
(* between and whatever an earlier round left under the key.               *)
ExactReading ==
  [][\A t \in Threads :
       pc[t] = "end" /\ pc'[t] # "end" /\ key[t] \in Private(t) =>
         reading'[t] = clock - began[t][key[t]]]_vars

(* The pool holds the running timers and the ones given up with a count of *)
(* 0, so it does not grow over the rounds of a benchmark.                  *)
PoolContents ==
  mu = None =>
    \A t \in Threads : \A k \in Private(t) :
      k \in DOMAIN g_timer_map <=> k \in open[t] \cup abandoned

=============================================================================
