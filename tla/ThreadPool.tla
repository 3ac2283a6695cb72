----------------------------- MODULE ThreadPool -----------------------------
(***************************************************************************)
(* The thread pool of src/homework/src/hello_server/thread_pool.rs.        *)
(*                                                                         *)
(* Client threads share the pool: each may `execute` jobs (start_job,      *)
(* then a send on the crossbeam channel) and, if it is a joiner, `join`    *)
(* (wait_empty on the job-count Mutex and its Condvar).  Worker threads    *)
(* loop on `recv`, run the job and call finish_job.  When every client is  *)
(* done, the owner drops the pool: ThreadPool::drop drops the sender, then *)
(* the `workers` Vec is dropped, joining each worker in order and          *)
(* unwrapping the result.                                                  *)
(*                                                                         *)
(* A job is its number, in start_job order; the jobs in Panicky panic.     *)
(* Every Mutex section (start_job, finish_job, one turn of wait_empty's    *)
(* loop) is one step, since none of them waits while holding the Mutex;   *)
(* a Condvar wait releases it atomically.  The channel is an unbounded     *)
(* FIFO that still delivers its buffered jobs after the sender is gone,    *)
(* and whose send fails once every receiver is dropped.                    *)
(***************************************************************************)
EXTENDS Naturals, Sequences, FiniteSets

CONSTANTS NumWorkers,  \* `size` given to ThreadPool::new
          Clients,     \* the threads sharing the pool
          Joiners,     \* the clients that call join
          MaxJobs,     \* bound on the jobs executed
          Panicky      \* the jobs whose closure panics

ASSUME NumWorkers > 0 /\ Joiners \subseteq Clients
       /\ Panicky \subseteq 1 .. MaxJobs

Workers == 1 .. NumWorkers

VARIABLES
    count,      \* *job_count
    waiting,    \* the clients waiting on empty_condvar
    queue,      \* the channel's buffered jobs
    senderLive, \* job_sender is Some
    started,    \* jobs submitted (execute calls)
    executed,   \* jobs whose execute returned
    ran,        \* jobs whose closure returned
    panicked,   \* jobs whose closure panicked
    wpc, wjob,  \* per worker
    cpc, cjob, before,  \* per client; before: executed when join began
    stage, joinIdx, unwinding  \* the owner's drop

chanVars == <<queue, senderLive>>
histVars == <<started, executed, ran, panicked>>
workerVars == <<wpc, wjob>>
clientVars == <<cpc, cjob, before>>
dropVars == <<stage, joinIdx, unwinding>>
vars == <<count, waiting, chanVars, histVars, workerVars, clientVars, dropVars>>

CGoto(c, l) == cpc' = [cpc EXCEPT ![c] = l]
WGoto(w, l) == wpc' = [wpc EXCEPT ![w] = l]

\* A client between calls.
Idle(c) == cpc[c] \in {"idle", "joined"}

\* Receivers still alive: a worker's clone is dropped when its thread ends.
Receivers == {w \in Workers : wpc[w] \notin {"exited", "dead"}}

\* start_job: `*self.job_count.lock().unwrap() += 1`.
StartJob == count' = count + 1

\* Mutant of FinishJob: the test for 0 reads the count before the decrement.
FinishJobTestFirst ==
    /\ count' = count - 1
    /\ IF count = 0 /\ waiting # {}
         THEN \E c \in waiting : waiting' = waiting \ {c}
         ELSE UNCHANGED waiting

\* finish_job: decrement under the Mutex and, at 0, `notify_one` wakes one
\* waiter, if any.
FinishJob ==
    /\ count' = count - 1
    /\ IF count - 1 = 0 /\ waiting # {}
         THEN \E c \in waiting : waiting' = waiting \ {c}
         ELSE UNCHANGED waiting

\* One test of wait_empty's `while *v != 0`, holding the Mutex: return, or
\* wait on the Condvar, which releases it.
WaitTest(c) ==
    IF count = 0 THEN CGoto(c, "joined") /\ UNCHANGED waiting
                 ELSE CGoto(c, "wait") /\ waiting' = waiting \union {c}

-----------------------------------------------------------------------------
(* Clients.                                                                *)

\* Mutant of ExecuteSteps: the job is sent before it is counted.
ExecuteStepsSwapped == <<"send", "start_job">>

\* The two shared-memory steps of `execute`, in the code's order:
\* start_job (line 124), then `sender.send(job).unwrap()` (line 130).
ExecuteSteps == <<"start_job", "send">>

\* One step s of `execute` for job j, then on to l.  start_job counts the
\* job; the send queues it, or, with no receiver left, fails, and execute
\* panics at the unwrap.
ExecStep(c, s, j, l) ==
    \/ s = "start_job" /\ StartJob /\ CGoto(c, l) /\ UNCHANGED <<queue, executed>>
    \/ /\ s = "send" /\ Receivers # {}
       /\ queue' = Append(queue, j) /\ executed' = executed \union {j}
       /\ CGoto(c, l) /\ UNCHANGED count
    \/ /\ s = "send" /\ Receivers = {}
       /\ CGoto(c, "panicked") /\ UNCHANGED <<count, queue, executed>>

\* `execute`: a new job, and the first of its two steps.
Execute(c) ==
    /\ Idle(c) /\ started < MaxJobs
    /\ started' = started + 1
    /\ cjob' = [cjob EXCEPT ![c] = started + 1]
    /\ ExecStep(c, ExecuteSteps[1], started + 1, "execute2")
    /\ UNCHANGED <<waiting, senderLive, ran, panicked, before, workerVars, dropVars>>

\* The second step of `execute`, after which it returns.
Execute2(c) ==
    /\ cpc[c] = "execute2"
    /\ ExecStep(c, ExecuteSteps[2], cjob[c], "idle")
    /\ UNCHANGED <<waiting, senderLive, started, ran, panicked, cjob, before,
                   workerVars, dropVars>>

\* `join` -> `wait_empty`: lock and test the count.
Join(c) ==
    /\ c \in Joiners /\ Idle(c)
    /\ before' = [before EXCEPT ![c] = executed]
    /\ WaitTest(c)
    /\ UNCHANGED <<count, chanVars, histVars, cjob, workerVars, dropVars>>

\* Mutant of Wake: `if *v != 0` for `while`: a woken waiter returns
\* without testing the count again.
WakeNoRecheck(c) ==
    /\ cpc[c] = "wait" /\ c \notin waiting
    /\ CGoto(c, "joined")
    /\ UNCHANGED <<count, waiting, chanVars, histVars, cjob, before,
                   workerVars, dropVars>>

\* A waiter woken (notified or spuriously) reacquires the Mutex and tests
\* the count again.
Wake(c) ==
    /\ cpc[c] = "wait" /\ c \notin waiting
    /\ WaitTest(c)
    /\ UNCHANGED <<count, chanVars, histVars, cjob, before, workerVars, dropVars>>

\* std's Condvar may wake a waiter without a notify.
Spurious(c) ==
    /\ c \in waiting
    /\ waiting' = waiting \ {c}
    /\ UNCHANGED <<count, chanVars, histVars, workerVars, clientVars, dropVars>>

\* The client stops using the pool (its borrow ends).
Quit(c) ==
    /\ Idle(c)
    /\ CGoto(c, "quit")
    /\ UNCHANGED <<count, waiting, chanVars, histVars, cjob, before,
                   workerVars, dropVars>>

-----------------------------------------------------------------------------
(* Workers: the closure spawned in ThreadPool::new.                        *)

\* Mutant of Recv: the loop ends as soon as the sender is gone.
RecvDisconnectFirst(w) ==
    /\ wpc[w] = "recv"
    /\ \/ /\ queue # <<>> /\ senderLive
          /\ wjob' = [wjob EXCEPT ![w] = Head(queue)]
          /\ queue' = Tail(queue)
          /\ WGoto(w, "run")
       \/ ~senderLive /\ WGoto(w, "exited") /\ UNCHANGED <<queue, wjob>>
    /\ UNCHANGED <<count, waiting, senderLive, histVars, clientVars, dropVars>>

\* `r.recv()`: the next buffered job, or Err once the channel is empty and
\* the sender gone, which ends the loop.
Recv(w) ==
    /\ wpc[w] = "recv"
    /\ \/ /\ queue # <<>>
          /\ wjob' = [wjob EXCEPT ![w] = Head(queue)]
          /\ queue' = Tail(queue)
          /\ WGoto(w, "run")
       \/ queue = <<>> /\ ~senderLive /\ WGoto(w, "exited") /\ UNCHANGED <<queue, wjob>>
    /\ UNCHANGED <<count, waiting, senderLive, histVars, clientVars, dropVars>>

\* The job returns, then finish_job.
Finish(w) ==
    /\ wpc[w] = "run" /\ wjob[w] \notin Panicky
    /\ ran' = ran \union {wjob[w]}
    /\ FinishJob
    /\ WGoto(w, "recv")
    /\ UNCHANGED <<chanVars, started, executed, panicked, wjob, clientVars, dropVars>>

\* The job panics: the unwind ends the worker thread, skipping finish_job.
Crash(w) ==
    /\ wpc[w] = "run" /\ wjob[w] \in Panicky
    /\ panicked' = panicked \union {wjob[w]}
    /\ WGoto(w, "dead")
    /\ UNCHANGED <<count, waiting, chanVars, started, executed, ran, wjob,
                   clientVars, dropVars>>

-----------------------------------------------------------------------------
(* The owner's drop, once no client uses the pool.                         *)

PoolUnused == \A c \in Clients : cpc[c] \in {"quit", "panicked"}

\* Mutant of DropSender: the sender is left to be dropped as a later
\* field, after the workers are joined.
DropSenderKept ==
    /\ stage = "live" /\ PoolUnused
    /\ stage' = "join"
    /\ UNCHANGED <<count, waiting, chanVars, histVars, workerVars, clientVars,
                   joinIdx, unwinding>>

\* ThreadPool::drop: `drop(self.job_sender.take())` (the first turn of the
\* loop over the non-empty `workers` takes it, the others find None).
DropSender ==
    /\ stage = "live" /\ PoolUnused
    /\ senderLive' = FALSE
    /\ stage' = "join"
    /\ UNCHANGED <<count, waiting, queue, histVars, workerVars, clientVars,
                   joinIdx, unwinding>>

\* On to the next Worker of the Vec, or done after the last.
NextWorker ==
    /\ joinIdx' = joinIdx + 1
    /\ stage' = IF joinIdx = NumWorkers THEN "done" ELSE "join"

\* Mutant of DropJoin: the join result is ignored instead of unwrapped.
DropJoinNoUnwrap ==
    /\ stage = "join" /\ wpc[joinIdx] \in {"exited", "dead"}
    /\ NextWorker
    /\ UNCHANGED <<count, waiting, chanVars, histVars, workerVars, clientVars,
                   unwinding>>

\* Dropping `workers` drops each Worker in order: `thread.join().unwrap()`
\* waits for the thread to end and panics if it panicked.  The Vec goes
\* on dropping the rest while unwinding; a second panic then aborts.
DropJoin ==
    /\ stage = "join"
    /\ \/ wpc[joinIdx] = "exited" /\ NextWorker /\ UNCHANGED unwinding
       \/ /\ wpc[joinIdx] = "dead" /\ unwinding = "none"
          /\ NextWorker /\ unwinding' = "panicking"
       \/ /\ wpc[joinIdx] = "dead" /\ unwinding = "panicking"
          /\ unwinding' = "aborted" /\ stage' = "done" /\ UNCHANGED joinIdx
    /\ UNCHANGED <<count, waiting, chanVars, histVars, workerVars, clientVars>>

-----------------------------------------------------------------------------

\* ThreadPool::new(NumWorkers): workers waiting on an empty channel.
Init ==
    /\ count = 0 /\ waiting = {} /\ queue = <<>> /\ senderLive = TRUE
    /\ started = 0 /\ executed = {} /\ ran = {} /\ panicked = {}
    /\ wpc = [w \in Workers |-> "recv"] /\ wjob = [w \in Workers |-> 0]
    /\ cpc = [c \in Clients |-> "idle"] /\ cjob = [c \in Clients |-> 0]
    /\ before = [c \in Clients |-> {}]
    /\ stage = "live" /\ joinIdx = 1 /\ unwinding = "none"

Client(c) == Execute(c) \/ Execute2(c) \/ Join(c) \/ Wake(c) \/ Quit(c)

Worker(w) == Recv(w) \/ Finish(w) \/ Crash(w)

\* The drop has returned, panicked or aborted the process.
Done == stage = "done" /\ UNCHANGED vars

Next ==
    \/ \E c \in Clients : Client(c) \/ Spurious(c)
    \/ \E w \in Workers : Worker(w)
    \/ DropSender \/ DropJoin
    \/ Done

\* The OS runs every runnable thread; spurious wakeups are never relied on.
Fairness ==
    /\ \A c \in Clients : WF_vars(Client(c))
    /\ \A w \in Workers : WF_vars(Worker(w))
    /\ WF_vars(DropSender \/ DropJoin)

Spec == Init /\ [][Next]_vars
FairSpec == Spec /\ Fairness

-----------------------------------------------------------------------------
(* Properties.                                                             *)

\* `join` "blocks until all jobs in the pool have been executed" (doc
\* comment, line 134, and the test `thread_pool_join_block`): when a join
\* returns, every job whose execute had returned before the join began has
\* run, whatever the wakeups, spurious ones included, and the executes
\* racing with it.
JoinWaitsForJobs ==
    \A c \in Joiners : cpc[c] = "joined" => before[c] \subseteq ran

\* Dropping the pool runs every job first (test `thread_pool_drop_block`):
\* a drop that does not abort has seen every executed job run or panic,
\* though the sender was dropped while jobs were still queued and a
\* panicking job (line 96) ended its worker and dropped its receiver.
DropRunsEveryJob ==
    stage = "done" /\ unwinding # "aborted" => executed \subseteq ran \union panicked

\* A panic in a job reaches the owner (doc comment, line 142, and the test
\* `thread_pool_drop_propagate_panic`): the drop returns normally exactly
\* when no job panicked.
DropPropagatesPanic ==
    stage = "done" => (unwinding = "none" <=> panicked = {})

\* Every join returns, unless a job panicked (a panicking job skips
\* finish_job, line 96, so the count never returns to 0).
JoinReturns ==
    \A c \in Joiners :
        cpc[c] = "wait" ~> (cpc[c] = "joined" \/ panicked # {})

\* job_count is a usize: finish_job's `*v -= 1` (line 46) never runs on a
\* count of 0, where a debug build panics and a release build wraps, after
\* which no join sees 0 again.  It holds because execute counts a job
\* (line 124) before the send (line 130) lets a worker run and finish it.
FinishJobNeverUnderflows == [][count' < count => count > 0]_count

\* The drop of the pool finishes: once the sender is gone every worker's
\* recv ends, so each join of a worker thread returns.
DropTerminates == stage = "join" ~> stage = "done"
=============================================================================
