# TLA+ models of `src/homework/src`

This directory holds TLA+ models of the Rust crate in `src/homework/src` and the
TLC configurations that check them. `PROJECT.json` maps every definition that
models code to the source lines it translates, and lists the runs, their mutants,
the findings and the hazards.

## The system

| Part | Source | State | Operations |
|---|---|---|---|
| Split-ordered hash map | `hash_table/split_ordered_list.rs` | list (Harris-Michael, from the `lockfree` crate), `buckets` (a GrowableArray of sentinel pointers), `size`, `count` | `lookup`, `insert`, `delete`; internally `find`, `lookup_bucket`, `initialize_bucket`, `get_parent` |
| Growable array | `hash_table/growable_array.rs` | a tagged root pointer (tag = height), segments of 2^10 `AtomicUsize` slots | `get(index)`, `Drop` |
| Cache | `hello_server/cache.rs` | `RwLock<HashMap<K, Arc<Mutex<Option<V>>>>>` | `get_or_insert_with` |
| Thread pool | `hello_server/thread_pool.rs` | `Mutex<usize>` job count, condvar, an MPMC channel, worker threads | `new`, `execute`, `join`, `Drop` |
| Lock-coupling list | `list_set.rs` | nodes with a `Mutex` on each `next` pointer | `contains`, `insert`, `remove`, `iter`, `Drop` |

The parts interact as follows:
- The map uses the growable array for its bucket slots.
- The map relies on `lockfree::list`, which lies outside `src/`, for the sorted list. Its cursor is modelled from the spec as a collaborator: one atomic search that unlinks the marked nodes it passes, and insert and unlink as single CASes on `prev.next`. These definitions are marked `spec_modelled`.
- The cache, the thread pool and the list set are independent of the map and of each other.

## Modules

- **`SplitOrder`** holds the key arithmetic as pure operators:
  - `ReverseBits`, the recursive `RevBits`, `SentinelKey` and `RegularKey`;
  - `GetParent`, with the halving loop `HalveUntil`.

  `MCSplitOrder` checks, for every key and every bucket count over a 6-bit word, that the parent is the index with its highest set bit cleared, and that the keys fall in split order. `RevBits` stands for the standard library's `usize::reverse_bits` and is not itself checked.
- **`NonblockingMap`** is the abstract map: an atomic function from keys to values, plus the pending call of each thread.
- **`SplitOrderedList`** models the map:
  - Each thread has a `pc` that walks through the shared-memory steps of a call:
    - `Start`: the entry of lookup, insert or delete;
    - `FindBegin`: `find` reads `size`;
    - `IbLoad`, `IbFind`, `IbInsert` and `IbStore`: the loops of `initialize_bucket`, with the recursion kept as a stack of bucket indices;
    - `FindKey`: `find`'s search and what each call does with its result;
    - `InsCas`, `InsCount` and `InsResize`: the link CAS, `fetch_add` and the `size` CAS;
    - `DelMark`, `DelUnlink` and `DelCount`: the mark, the one unlink attempt and `fetch_sub`.
  - `size` and `count` are usize values modulo 2^`WordBits`.
  - The list is `succ`, the next pointers, plus `marked`.
  - A bucket slot is one atomic cell: the GrowableArray run shows that `get` behaves like such an array.
  - `lookup_bucket` reads `size` a second time for `get_parent`. The model uses the size `find` read, because `get_parent` gives the same parent for any power of two above the index.
  - `InitialKeys` starts the model from a map that already holds those keys, in the state sequential inserts reach: size 2, bucket 0 and the keys' buckets initialised.
- **`GrowableArray`** models `get` and `Drop`:
  - A segment is its allocation number, and `root` is `[ptr, tag]`.
  - `RootCas`, `Grow` (one turn of the growth loop) and `Descend` (one level) are the three shared-memory steps of `get`.
  - `Store` is the caller storing into the returned slot.
  - `Drop` is `drop_seg`.
  - A lost allocation is freed in the same step, as the code does.
  - `frees` is a bag, so a double free is visible.
  - Indices are 6-bit words and segments have 2^2 slots. This keeps the shape of the 64/10 case: three levels, and `pow` overflowing at the top level just as `two.pow(70)` does.
- **`Cache`** models `get_or_insert_with`:
  - The RwLock is `readers`, `writer` and `rwPoisoned`.
  - Each key's entry is `inMap`, `some` (its `Option` is `Some`), `owner` (its Mutex) and `poisoned`.
  - The steps are `Start`, then `Read` (the read lock and the lookup), `LockR` (the entry Mutex under the read lock), `Write` (the write lock, plus the lookup or the insert that locks the new Mutex), `LockW` (the entry Mutex under the write lock) and `Compute` (f returning or panicking).
  - A lock is acquired by a step guarded on the lock being free.
  - A guard dropped during a panic poisons its Mutex or the RwLock's write lock; a read guard does not poison.
  - Each thread makes one call.
- **`ThreadPool`** models clients calling `execute` and `join`, the workers and `Drop`:
  - `count` is `job_count`; `waiting` is the set of threads blocked in `empty_condvar.wait`. `Finish` is the worker's `finish_job`: it decrements, and at 0 `notify_one` removes one arbitrary waiter. `Wake` is a woken joiner re-taking the Mutex and re-testing the loop condition; `Spurious` is a spurious wakeup, an action without fairness.
  - `queue` is the unbounded channel and `senderLive` whether `job_sender` still exists. `Recv` is `r.recv()`: a job while one is queued, `Err` (the worker exits its loop) only once the queue is empty and the sender dropped. The send step fails, and `execute` panics at its `unwrap`, once no receiver is left, i.e. every worker has exited or died.
  - `Crash` is a job that panics (a job number in `Panicky`): the worker thread unwinds past `finish_job` and dies.
  - `DropSender` is `ThreadPool::drop`, which drops the sender; the fields then drop, `workers` first. `DropJoin` is `Worker::drop` for one worker in Vec order: `join().unwrap()` waits for the thread, panics if it died, and a second panic while unwinding aborts (`unwinding`).
  - `StartJob`, `FinishJob` and `WaitTest` are `start_job`, `finish_job` and the loop test of `wait_empty`, shared by the actions that call them. `execute` is two steps, `Execute` and `Execute2`, whose order (`start_job`, then the send) is `ExecuteSteps`; `ExecStep` is one of them.
  - `started`, `executed`, `ran`, `panicked` and `before` are history variables for the properties.
  - `DropRunsEveryJob` also covers a panicking job (line 96): the worker dies and drops its receiver, yet the jobs still queued must be run by the other workers before the drop of the pool returns.
- **`OrderedListSet`** models `contains`, `insert`, `remove`, `iter` and `Drop` of the lock-coupling list:
  - A node is its allocation number; location 0 is `head` and location n the `next` Mutex of node n. `ptr` is what each Mutex guards, `lock` its owner, `nkey` each node's data, and `frees` a bag of freed nodes, so a double free shows.
  - `LockHead` locks `head`; `FindCurr` is one turn of `Cursor::find`. Its hand-over-hand step `Couple` locks the next node's `next` and drops the old guard in one step, and `IterCurr` uses it too. `Contains`, `Insert` and `Remove` are what each call does where the search stops, the guard dropped on return. `Remove`'s `Unlink` locks the removed node's `next` first, which waits for any thread whose cursor is there, then frees the node.
  - `IterCurr` is `Iter::next`; `held` is the data references it handed out, which the caller keeps until `Release`. `IterDrop` is dropping the Iter early.
  - `DropList` is `Drop`, freeing the nodes of its walk `DropWalk` once no call is running.
- **`SlotArray`** is the abstract growable array. Each index gets bound, at some step, to a slot that no other index has, and keeps it for ever. A call returns the slot its index is bound to.

## Runs

| Run | What it checks | Bounds |
|---|---|---|
| `so_arith` | The parent matches its reference. Every key's regular key lies after its bucket's sentinel, with no other sentinel between them. A parent's sentinel precedes its child's. | all keys below 2^5, sizes 2..32, 6-bit word |
| `sol_core` | `ListSorted`, `TypeOK`, `BucketsAnchored` (a slot holds its own sentinel, the sentinel is linked, and so is its parent's), `NoDanglingPrevUsed` (the `&Atomic::null()` prev is never CASed through), `Linearizable` (refinement of `NonblockingMap`) and `CallsReturn` under weak fairness of each thread | The map starts with keys {0,2,4,6} in bucket 0. 2 threads make 3 calls (`MaxOps` 7 counts the 4 initial inserts) on {3,8}: inserting 8 resizes the map to 4 buckets, and calls on 3 initialise bucket 3 through bucket 1, racing the other thread. 8-bit word. |
| `sol_count` (violation) | `CountNeverExceedsEntries` | 1 key, one insert and one delete |
| `ga_core` | `NoUseAfterFree`, `DropFreesEachSegmentOnce`, and `Linearizable`: refinement of `SlotArray` | 2 threads, 3 calls on indices {1, 6, 31}, of heights 1, 2 and 3 |
| `ga_overflow` (violation) | `PowInRange` | one `get(31)`, the scaled 2^63-1 |
| `cache_safe` | `FOncePerKey`, `NeverUnreachable`, `CallsFinish` (under `FairSpec`) | 3 threads, 2 keys, f may panic |
| `cache_block` (violation) | `DisjointCallsFinish` under `HangSpec`, where f may run for ever | 3 threads, 2 keys |
| `cache_poison` (violation) | `PanicStaysWithKey` | 3 threads, 2 keys, f may panic |
| `tp_core` | `JoinWaitsForJobs`: join returns only after every job submitted before it ran; `DropRunsEveryJob`: a drop that does not abort has seen every submitted job run or panic, even after a panicking job (line 96) ended its worker; `DropPropagatesPanic`: drop panics exactly when a worker panicked; `FinishJobNeverUnderflows`: `finish_job` never decrements a `job_count` of 0, because `execute` counts a job before sending it; `JoinReturns` and `DropTerminates` under `FairSpec` | 2 workers, 2 clients (one joins), 4 jobs of which jobs 2 and 3 panic |
| `tp_join` (violation) | `JoinReturns` | 2 workers, 2 joining clients, 2 jobs, none panics |
| `ls_core` | `ListSorted`; `CursorNotFreed`: no cursor or Iter stands on a freed node; `DropFreesEachNodeOnce`; `Linearizable`: refinement of `NonblockingMap` with one value; `CallsFinish` under `FairSpec` | 2 threads, keys {1,2}, 4 calls of any kind, then `Drop` |
| `ls_iter` (violation) | `DataRefsValid` | 2 threads, keys {1,2}, 3 calls |

Two threads are enough for every race in the map and the array, because each race is between two CASes on one word. The thread pool needs two workers so that one can die while the other keeps the channel open, and two panicking jobs so that a second panic during `Drop` aborts; with 4 jobs a job also reaches a pool whose workers have all died. The list needs two keys for a node behind another (a cursor standing on a node that is being removed) and 4 calls for insert, iter and remove to meet. The cache needs three threads: one running f, one waiting on f while it holds the RwLock, and one calling for another key. The bounds are chosen so that each of the following happens in some run:
- a lost CAS of every kind;
- a search that returns Err;
- a resize, and a stale `size`;
- a grown root whose descent is raced;
- a lost child-segment CAS.

Every passing run covers all the actions and disjuncts of its next-state relation.

Each property of a passing run has a mutant in `PROJECT.json`: a plausible bug in the mapped definition that TLC shows breaks it. Examples:
- `key & size` for `key % size`;
- a parent of `index - 1`;
- a delete that ignores an existing mark;
- a lost CAS retried on the same cursor;
- freeing the winner's segment;
- `drop_seg` stopping one level early;
- growth that forgets slot 0;
- `finish_job` testing the count before decrementing it;
- `execute` sending its job before `start_job` counts it;
- a list unlink that skips locking the removed node's `next`;
- a cache writer that skips the second lookup.

## Fairness

None of the map's or the array's operations block. Each step is a CAS, a load or a store, so the only fairness the code can rely on is the OS scheduler running every runnable thread: weak fairness of each thread's step (`FairSpec`).

With finitely many calls, `CallsReturn` says that the retry loops of `find`, `initialize_bucket`, `insert` and `delete` terminate once the others stop interfering.

The cache's locks block, and std's `Mutex` and `RwLock` are not fair. With one call per thread, weak fairness still gives every blocked thread its lock once the holders finish. `HangSpec` drops fairness for f's completion, as in the test `cache_no_block_disjoint`, whose f blocks until it is told to quit.

The pool's and the list's threads block on Mutexes and on the condvar. Weak fairness of each thread's step says the OS runs a thread whose lock is free; a condvar waiter is only woken by a notify, and spurious wakeups get no fairness. Drop runs once no client is left, and is weakly fair as one more thread.

`GrowableArray` has no liveness property, because every mutant that breaks termination also allocates without bound, and TLC cannot check that.

## Findings

1. **Count underflow** (`sol_count`). `delete` sees an entry as soon as `insert`'s CAS links it, so `delete`'s `fetch_sub` can come before the inserter's `fetch_add`. `count` then wraps to `usize::MAX`. An insert that finishes at that point computes `old_count + 1`, which panics in a debug build.
2. **`pow` overflow** (`ga_overflow`). `get` for an index of 61 bits or more evaluates `two.pow(10 * 7)`. A debug build panics, but spec section 8 tests `get(2^63 - 1)`. A release build wraps to the right mask by accident.
3. **Calls block across keys** (`cache_block`). A caller that finds an entry waits on its Mutex while holding the read lock (line 47). While that key's f runs, a call for another key cannot take the write lock (line 54). The doc comment at lines 17-20 forbids this. The test passes only because it uses two threads.
4. **One panic poisons the whole cache** (`cache_poison`). When f panics, its entry Mutex is poisoned. A same-key caller holding the write lock then panics at line 57, which poisons the RwLock. After that, every call for every key panics at line 43.

5. **`join` hangs with two joiners** (`tp_join`). `finish_job` wakes one waiter with `notify_one` (line 48). With two threads in `join`, one is woken and the other waits for ever although the count is 0. `notify_all` is needed.
6. **`iter` hands out dangling references** (`ls_iter`). `Iter::next` returns `&'l T` to a node's data (line 150) and moves its guard on. A `remove` can then reach that node and free it when the Box it took at line 111 goes out of scope (line 116) while the caller still holds the reference.

A job that panics skips `finish_job` (line 96), so the count never returns to 0 and a later `join` waits for ever. `JoinReturns` excludes that case; `DropPropagatesPanic` checks what the panic does to `Drop`.

## Not modelled yet, and the plan

1. Compose `SplitOrderedList` with `GrowableArray` so that the bucket slots come from `get`, if the state space allows it.

Out of reach or out of scope:
- Memory ordering (acquire and release): the models assume sequential consistency.
- Epoch reclamation: an unlinked list node is never freed in the model.
- The internals of the `lockfree` list, beyond its interface.
