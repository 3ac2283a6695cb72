------------------------------- MODULE Cache -------------------------------
(***************************************************************************)
(* `Cache::get_or_insert_with` (src/homework/src/hello_server/cache.rs):   *)
(* threads each making one call on a shared                                *)
(* `RwLock<HashMap<K, Arc<Mutex<Option<V>>>>>`.                            *)
(*                                                                         *)
(* The RwLock is its readers, its writer and its poison flag; an entry of  *)
(* the map is its key's presence, whether its Option is Some, the owner    *)
(* of its Mutex and that Mutex's poison flag.  A lock is taken by a step   *)
(* whose guard is that it is free, as std's locks block; a guard dropped   *)
(* while its thread panics poisons a Mutex or an RwLock write lock, not a  *)
(* read lock.  The user function f runs between two steps of the thread    *)
(* that inserted the entry, and may return or (if FPanics) panic.          *)
(***************************************************************************)
EXTENDS Naturals, FiniteSets

CONSTANTS Threads, Keys,
          NoOwner,   \* a free lock
          FPanics    \* whether f may panic

VARIABLES
    readers, writer, rwPoisoned,    \* the RwLock
    inMap,     \* keys with an entry
    some,      \* key -> the entry's Option is Some
    owner,     \* key -> the thread holding the entry's Mutex
    poisoned,  \* key -> the entry's Mutex is poisoned
    fcalls,    \* key -> calls of f that have finished (returned or panicked)
    fpanicked, \* keys whose f panicked
    pc, key    \* per thread

rw == <<readers, writer, rwPoisoned>>
entry == <<inMap, some, owner, poisoned>>
hist == <<fcalls, fpanicked>>
vars == <<rw, entry, hist, pc, key>>

Terminal == {"done", "panicked", "unreachable"}

Goto(t, l) == pc' = [pc EXCEPT ![t] = l]

\* Where a call ends once it holds its entry's Mutex: the unwrap panics on
\* a poisoned Mutex, then the clone of `Some(v)` or `unreachable!()`.
Outcome(t) == IF poisoned[key[t]] THEN "panicked"
              ELSE IF some[key[t]] THEN "done" ELSE "unreachable"

\* Mutant of Recheck: the write path does not look the key up again.
RecheckSkipped(t) == FALSE

\* The write path's `map.get(&key)`: another caller may have inserted the
\* key since the read lock was dropped.
Recheck(t) == key[t] \in inMap

\* Mutant of InsertEntry: the new entry's Mutex is locked after `drop(map)`.
InsertEntryNoLock(t) ==
    /\ inMap' = inMap \union {key[t]}
    /\ some' = [some EXCEPT ![key[t]] = FALSE]
    /\ UNCHANGED owner

\* `map.insert(key, Arc::new(Mutex::new(None)))` and `mtx.lock()`, both
\* under the write lock.
InsertEntry(t) ==
    /\ inMap' = inMap \union {key[t]}
    /\ some' = [some EXCEPT ![key[t]] = FALSE]
    /\ owner' = [owner EXCEPT ![key[t]] = t]

-----------------------------------------------------------------------------

Start(t) ==
    /\ pc[t] = "idle"
    /\ \E k \in Keys : key' = [key EXCEPT ![t] = k]
    /\ Goto(t, "read")
    /\ UNCHANGED <<rw, entry, hist>>

\* `self.inner.read().unwrap()` and `map.get(&key)`: poisoned, the unwrap
\* panics; a hit keeps the read lock for the entry's Mutex; a miss drops it
\* (`drop(map)`) and goes on to the write path.
Read(t) ==
    /\ pc[t] = "read" /\ writer = NoOwner
    /\ \/ rwPoisoned /\ Goto(t, "panicked") /\ UNCHANGED readers
       \/ /\ ~rwPoisoned /\ key[t] \in inMap
          /\ readers' = readers \union {t} /\ Goto(t, "lock_r")
       \/ ~rwPoisoned /\ key[t] \notin inMap /\ Goto(t, "write") /\ UNCHANGED readers
    /\ UNCHANGED <<writer, rwPoisoned, entry, hist, key>>

\* Mutant of LockR: the read guard is kept after a hit that returns.
LockRKeepRead(t) ==
    /\ pc[t] = "lock_r" /\ owner[key[t]] = NoOwner
    /\ readers' = IF Outcome(t) = "done" THEN readers ELSE readers \ {t}
    /\ Goto(t, Outcome(t))
    /\ UNCHANGED <<writer, rwPoisoned, entry, hist, key>>

\* `v.lock().unwrap()` under the read lock; every guard is dropped on
\* return or unwind, and a read guard does not poison.
LockR(t) ==
    /\ pc[t] = "lock_r" /\ owner[key[t]] = NoOwner
    /\ readers' = readers \ {t}
    /\ Goto(t, Outcome(t))
    /\ UNCHANGED <<writer, rwPoisoned, entry, hist, key>>

\* `self.inner.write().unwrap()` and the lookup: poisoned, the unwrap
\* panics; a hit keeps the write lock for the entry's Mutex; a miss
\* inserts and locks a new entry, drops the write lock and goes on to f.
Write(t) ==
    /\ pc[t] = "write" /\ writer = NoOwner /\ readers = {}
    /\ \/ rwPoisoned /\ Goto(t, "panicked") /\ UNCHANGED <<writer, inMap, some, owner>>
       \/ /\ ~rwPoisoned /\ Recheck(t)
          /\ writer' = t /\ Goto(t, "lock_w")
          /\ UNCHANGED <<inMap, some, owner>>
       \/ /\ ~rwPoisoned /\ ~Recheck(t)
          /\ InsertEntry(t) /\ Goto(t, "compute")
          /\ UNCHANGED writer
    /\ UNCHANGED <<readers, rwPoisoned, poisoned, hist, key>>

\* `mtx.lock().unwrap()` under the write lock.  A panic here unwinds
\* through the write guard, which poisons the RwLock for every key.
LockW(t) ==
    /\ pc[t] = "lock_w" /\ owner[key[t]] = NoOwner
    /\ writer' = NoOwner
    /\ rwPoisoned' = (rwPoisoned \/ Outcome(t) # "done")
    /\ Goto(t, Outcome(t))
    /\ UNCHANGED <<readers, entry, hist, key>>

\* f(key) finishes.  Returning, its value is stored if the Option is still
\* None and the Mutex is released; panicking, the unwind drops the Mutex
\* guard and poisons it, the Option staying None.
Compute(t) ==
    /\ pc[t] = "compute"
    /\ fcalls' = [fcalls EXCEPT ![key[t]] = @ + 1]
    /\ owner' = [owner EXCEPT ![key[t]] = NoOwner]
    /\ \/ /\ some' = [some EXCEPT ![key[t]] = TRUE]
          /\ Goto(t, "done")
          /\ UNCHANGED <<poisoned, fpanicked>>
       \/ /\ FPanics
          /\ poisoned' = [poisoned EXCEPT ![key[t]] = TRUE]
          /\ fpanicked' = fpanicked \union {key[t]}
          /\ Goto(t, "panicked")
          /\ UNCHANGED some
    /\ UNCHANGED <<rw, inMap, key>>

-----------------------------------------------------------------------------

\* `Cache::default()`: an empty map, no lock held.
Init ==
    /\ readers = {} /\ writer = NoOwner /\ rwPoisoned = FALSE
    /\ inMap = {}
    /\ some = [k \in Keys |-> FALSE] /\ owner = [k \in Keys |-> NoOwner]
    /\ poisoned = [k \in Keys |-> FALSE]
    /\ fcalls = [k \in Keys |-> 0] /\ fpanicked = {}
    /\ pc = [t \in Threads |-> "idle"]
    /\ key = [t \in Threads |-> CHOOSE k \in Keys : TRUE]

\* The steps that do not wait for f.
Own(t) == Start(t) \/ Read(t) \/ LockR(t) \/ Write(t) \/ LockW(t)

Step(t) == Own(t) \/ Compute(t)

\* Every call has returned or panicked.
Done == /\ \A t \in Threads : pc[t] \in Terminal
        /\ UNCHANGED vars

Next == (\E t \in Threads : Step(t)) \/ Done

\* The scheduler runs every runnable thread, and f returns or panics.
Fairness == \A t \in Threads : WF_vars(Step(t))

\* As Fairness, but f may run for ever (as in the test
\* `cache_no_block_disjoint`, whose f blocks until told to quit).
HangFairness == \A t \in Threads : WF_vars(Own(t))

Spec == Init /\ [][Next]_vars
FairSpec == Spec /\ Fairness
HangSpec == Spec /\ HangFairness

-----------------------------------------------------------------------------
(* Properties.                                                             *)

\* f runs at most once per key (doc comment, lines 22-24, and the test
\* `cache_no_duplicate_concurrent`): counting the calls that finished and
\* those running now, also when callers race through the write path.
FOncePerKey ==
    \A k \in Keys :
        fcalls[k] + Cardinality({t \in Threads : pc[t] = "compute" /\ key[t] = k}) <= 1

\* `unreachable!()` (lines 50 and 60) is never reached: an entry's Mutex is
\* taken by its inserter before the write lock is dropped, so nobody sees
\* the None it starts with unless f panicked and poisoned it.
NeverUnreachable == \A t \in Threads : pc[t] # "unreachable"

\* Every call returns or panics: no thread waits for ever on the RwLock or
\* an entry's Mutex when f always finishes.
CallsFinish == \A t \in Threads : pc[t] \notin Terminal ~> pc[t] \in Terminal

\* A call is only ever held up by an f for its own key (doc comment, lines
\* 17-20): even if f runs for ever, every call finishes unless some f for
\* its own key is running.
DisjointCallsFinish ==
    \A t \in Threads :
        pc[t] \notin Terminal \union {"idle"}
            ~> \/ pc[t] \in Terminal
               \/ \E u \in Threads : pc[u] = "compute" /\ key[u] = key[t]

\* A call panics only if an f for its own key panicked: a panicking f does
\* not take down calls for other keys.
PanicStaysWithKey ==
    \A t \in Threads : pc[t] = "panicked" => key[t] \in fpanicked
=============================================================================
