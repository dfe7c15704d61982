---------------------------- MODULE InlineRunner ----------------------------
(***************************************************************************)
(* BackgroundParseRunner (asgi.py): in execution mode "inline" the API     *)
(* process executes the jobs itself.  The thread of the event loop calls   *)
(* the runner; the threads of a ThreadPoolExecutor execute the jobs, and   *)
(* the done callback of each future starts queued jobs.  They share the    *)
(* dictionary inflight, the list queued_job_ids and one lock that is not   *)
(* reentrant.                                                              *)
(*                                                                         *)
(* Everything between taking and releasing the lock is one step, except    *)
(* that add_done_callback is a step of its own: a pool thread needs no     *)
(* lock to finish the job in between.  A callback added to a future that   *)
(* is already finished, and the callbacks of a future that is cancelled,   *)
(* run at once in the calling thread, which then waits for the lock it     *)
(* holds: it hangs, and the lock is never free again.                      *)
(***************************************************************************)
EXTENDS Naturals, Sequences, FiniteSets, SequencesExt

CONSTANTS
    Loop,          \* the thread of the event loop
    Pool,          \* the threads of the executor (runtime.max_workers)
    NumJobs,       \* job rows; the rows of one call are numbered in their order
    Partitioned,   \* the documents that are parsed in parts, each the set of its part jobs
    MaxInflight,   \* max_inflight_jobs
    PartLimit,     \* max_active_parts_per_doc, 0 for no limit
    Cancellable    \* the jobs the host may call cancel_job for

Jobs == 1..NumJobs
Threads == Pool \cup {Loop}

\* The PDF part jobs, and the parent document of each.
PartJobs == UNION Partitioned
Parent == [j \in PartJobs |-> CHOOSE D \in Partitioned : j \in D]

ASSUME RunnerAssumption ==
    /\ NumJobs \in Nat
    /\ MaxInflight \in Nat
    /\ PartLimit \in Nat
    /\ Partitioned \subseteq SUBSET Jobs
    /\ Loop \notin Pool
    /\ 0 \notin Threads

VARIABLES
    state,       \* the row: "absent", "pending", "active", "done", "failed"
    cancelled,   \* failure_reason = "cancelled"
    inflight,    \* the keys of self.inflight
    queue,       \* self.queued_job_ids
    future,      \* "none", "waiting" in the executor, "running", "finished", "cancelled"
    callback,    \* the done callback was added before the future finished
    pool,        \* the work queue of the executor
    lock,        \* the thread that holds self._lock, or Free
    at,          \* where a thread is
    cur,         \* the job a thread is working on
    unsent,      \* the jobs a call of the API has created and not yet submitted
    down         \* shutdown was called

rows == <<state, cancelled>>
shared == <<inflight, queue, future, callback, pool>>
runnerVars == <<rows, shared, lock, at, cur, unsent, down>>

Free == 0
NoJob == 0

LoopControl == {"idle", "insert", "submit", "register", "cancelRead", "cancelWrite", "hung"}
PoolControl == {"idle", "begin", "run", "resolve", "done", "refill", "register", "hung"}

RunnerInit ==
    /\ state = [j \in Jobs |-> "absent"]
    /\ cancelled = [j \in Jobs |-> FALSE]
    /\ inflight = {}
    /\ queue = <<>>
    /\ future = [j \in Jobs |-> "none"]
    /\ callback = [j \in Jobs |-> FALSE]
    /\ pool = <<>>
    /\ lock = Free
    /\ at = [t \in Threads |-> "idle"]
    /\ cur = [t \in Threads |-> NoJob]
    /\ unsent = {}
    /\ down = FALSE

-----------------------------------------------------------------------------
MoveTo(t, from, to) ==
    /\ at[t] = from
    /\ at' = [at EXCEPT ![t] = to]

\* len(self.inflight) < self.max_inflight_jobs.
HasRoom(active) == Cardinality(active) < MaxInflight

\* _can_start_job: parts of one parent that are in flight count, run or not.
BadCanStart(j, active) == TRUE
CanStart(j, active) ==
    j \in PartJobs /\ PartLimit > 0 =>
        Cardinality({i \in active \cap PartJobs : Parent[i] = Parent[j]}) < PartLimit

\* The first half of starting a job: submit to the executor and put the future
\* into inflight.  The thread keeps the lock for the second half.
Schedule(t, j) ==
    /\ inflight' = inflight \cup {j}
    /\ future' = [future EXCEPT ![j] = "waiting"]
    /\ pool' = Append(pool, j)
    /\ cur' = [cur EXCEPT ![t] = j]
    /\ lock' = t
    /\ at' = [at EXCEPT ![t] = "register"]

\* The second half: add_done_callback.
Register(t) ==
    /\ at[t] = "register"
    /\ future[cur[t]] # "finished"
    /\ callback' = [callback EXCEPT ![cur[t]] = TRUE]
    /\ UNCHANGED <<rows, inflight, queue, future, pool, cur, down>>

RegisterLoop ==
    /\ Register(Loop)
    /\ at' = [at EXCEPT ![Loop] = IF unsent = {} THEN "idle" ELSE "submit"]
    /\ lock' = Free
    /\ UNCHANGED unsent

RegisterPool(t) ==
    /\ Register(t)
    /\ at' = [at EXCEPT ![t] = "refill"]
    /\ UNCHANGED <<lock, unsent>>

\* The future finished first: the callback runs here and waits for the lock.
RegisterTooLate(t) ==
    /\ MoveTo(t, "register", "hung")
    /\ future[cur[t]] = "finished"
    /\ UNCHANGED <<rows, shared, lock, cur, unsent, down>>

-----------------------------------------------------------------------------
(* The calls of the API.  There is one thread, so one call at a time.      *)

LoopFree == at[Loop] = "idle" /\ ~down

\* submit, restart_latest, rechunk_latest and reembed_latest look at the number
\* of jobs in flight without the lock ...
CheckCapacity ==
    /\ LoopFree
    /\ HasRoom(inflight)
    /\ MoveTo(Loop, "idle", "insert")
    /\ UNCHANGED <<rows, shared, lock, cur, unsent, down>>

\* ... then create the row ...
Insert(j) ==
    /\ j \notin PartJobs
    /\ state[j] = "absent"
    /\ MoveTo(Loop, "insert", "submit")
    /\ state' = [state EXCEPT ![j] = "pending"]
    /\ unsent' = {j}
    /\ UNCHANGED <<cancelled, shared, lock, cur, down>>

\* (no row left in this instance: the call fails before it creates one)
NothingToInsert ==
    /\ \A j \in Jobs \ PartJobs : state[j] # "absent"
    /\ MoveTo(Loop, "insert", "idle")
    /\ UNCHANGED <<rows, shared, lock, cur, unsent, down>>

\* plan_pdf_parts and the reruns create all their rows before they submit one.
InsertParts(S) ==
    /\ LoopFree
    /\ S # {}
    /\ S \subseteq PartJobs
    /\ \A j \in S : state[j] = "absent"
    /\ MoveTo(Loop, "idle", "submit")
    /\ state' = [j \in Jobs |-> IF j \in S THEN "pending" ELSE state[j]]
    /\ unsent' = S
    /\ UNCHANGED <<cancelled, shared, lock, cur, down>>

First(S) == CHOOSE j \in S : \A i \in S : j <= i

\* _submit_existing_job.  A part that cannot start waits in queued_job_ids; the
\* call of any other job raises too_many_inflight_jobs, its row stays.
SubmitExisting ==
    LET j == First(unsent) IN
    /\ at[Loop] = "submit"
    /\ lock = Free
    /\ unsent' = unsent \ {j}
    /\ IF HasRoom(inflight) /\ CanStart(j, inflight)
         THEN Schedule(Loop, j) /\ UNCHANGED queue
         ELSE /\ queue' = IF j \in PartJobs THEN Append(queue, j) ELSE queue
              /\ at' = [at EXCEPT ![Loop] = IF unsent = {j} THEN "idle" ELSE "submit"]
              /\ UNCHANGED <<inflight, future, pool, cur, lock>>
    /\ UNCHANGED <<rows, callback, down>>

\* The job leaves queued_job_ids, where it is once at most (HandedOverOnce).
Dequeue(j) ==
    IF j \in Range(queue)
      THEN RemoveAt(queue, CHOOSE i \in DOMAIN queue : queue[i] = j)
      ELSE queue

\* cancel_pdf_part: a part in flight is refused, whether it runs or waits for
\* a thread; any other pending part becomes failed, with the lock held.
CancelPart(j) ==
    /\ LoopFree
    /\ lock = Free
    /\ j \in PartJobs \ inflight
    /\ state[j] = "pending"
    /\ queue' = Dequeue(j)
    /\ state' = [state EXCEPT ![j] = "failed"]
    /\ cancelled' = [cancelled EXCEPT ![j] = TRUE]
    /\ UNCHANGED <<inflight, future, callback, pool, lock, at, cur, unsent, down>>

\* cancel_job, with the lock: the job leaves queued_job_ids, and a future that
\* no thread has taken is cancelled, which runs its callback here.
CancelJob(j) ==
    /\ LoopFree
    /\ lock = Free
    /\ j \in Cancellable
    /\ state[j] # "absent"
    /\ queue' = Dequeue(j)
    /\ cur' = [cur EXCEPT ![Loop] = j]
    /\ IF future[j] = "waiting"
         THEN /\ future' = [future EXCEPT ![j] = "cancelled"]
              /\ lock' = Loop
              /\ at' = [at EXCEPT ![Loop] = "hung"]
         ELSE /\ at' = [at EXCEPT ![Loop] = "cancelRead"]
              /\ UNCHANGED <<future, lock>>
    /\ UNCHANGED <<rows, inflight, callback, pool, unsent, down>>

\* ParseRuntime.cancel_job: a job that is over is left alone; otherwise the
\* row becomes failed, whatever happened since it was read.
CancelJobRead ==
    /\ MoveTo(Loop, "cancelRead",
            IF state[cur[Loop]] \in {"done", "failed"} THEN "idle" ELSE "cancelWrite")
    /\ UNCHANGED <<rows, shared, lock, cur, unsent, down>>

CancelJobWrite ==
    LET j == cur[Loop] IN
    /\ MoveTo(Loop, "cancelWrite", "idle")
    /\ state' = [state EXCEPT ![j] = "failed"]
    /\ cancelled' = [cancelled EXCEPT ![j] = TRUE]
    /\ UNCHANGED <<shared, lock, cur, unsent, down>>

\* The application ends: executor.shutdown(wait=True).
Shutdown ==
    /\ LoopFree
    /\ down' = TRUE
    /\ UNCHANGED <<rows, shared, lock, at, cur, unsent>>

-----------------------------------------------------------------------------
(* A thread of the executor.                                               *)

\* It takes the next work item, and drops one whose future was cancelled.
Take(t) ==
    LET j == Head(pool) IN
    /\ at[t] = "idle"
    /\ pool # <<>>
    /\ pool' = Tail(pool)
    /\ IF future[j] = "waiting"
         THEN /\ future' = [future EXCEPT ![j] = "running"]
              /\ cur' = [cur EXCEPT ![t] = j]
              /\ at' = [at EXCEPT ![t] = "begin"]
         ELSE UNCHANGED <<future, cur, at>>
    /\ UNCHANGED <<rows, inflight, queue, callback, lock, unsent, down>>

\* A job is executed whatever its row says.
BadMayExecute(j) == TRUE

\* execute claims a pending row and refuses a cancelled one.
MayExecute(j) == state[j] = "pending"

Begin(t) ==
    LET j == cur[t] IN
    /\ MoveTo(t, "begin", IF MayExecute(j) THEN "run" ELSE "resolve")
    /\ state' = [state EXCEPT ![j] = IF MayExecute(j) THEN "active" ELSE @]
    /\ UNCHANGED <<cancelled, shared, lock, cur, unsent, down>>

\* The attempt ends: done, failed, or raised before the try block, which
\* leaves the row as it is.  A cancelled row is not overwritten.
Finish(t, newState) ==
    LET j == cur[t] IN
    /\ MoveTo(t, "run", "resolve")
    /\ state' = [state EXCEPT ![j] = IF @ = "active" THEN newState ELSE @]
    /\ UNCHANGED <<cancelled, shared, lock, cur, unsent, down>>

\* The future is finished; then its callbacks are run by this thread.
Resolve(t) ==
    LET j == cur[t] IN
    /\ MoveTo(t, "resolve", IF callback[j] THEN "done" ELSE "idle")
    /\ future' = [future EXCEPT ![j] = "finished"]
    /\ UNCHANGED <<rows, inflight, queue, callback, pool, lock, cur, unsent, down>>

\* The finished job stays in inflight.
BadJobDone(t) ==
    /\ lock = Free
    /\ MoveTo(t, "done", "refill")
    /\ lock' = t
    /\ UNCHANGED <<rows, shared, cur, unsent, down>>

\* _job_done takes the lock and then starts queued jobs until none can start.
JobDone(t) ==
    /\ lock = Free
    /\ MoveTo(t, "done", "refill")
    /\ lock' = t
    /\ inflight' = inflight \ {cur[t]}
    /\ UNCHANGED <<rows, queue, future, callback, pool, cur, unsent, down>>

\* Only the head of the queue is looked at.
BadStartable(active) ==
    {i \in DOMAIN queue : i = 1 /\ state[queue[i]] = "pending" /\ CanStart(queue[i], active)}

\* _next_startable_queued_index
Startable(active) ==
    {i \in DOMAIN queue : state[queue[i]] = "pending" /\ CanStart(queue[i], active)}

\* A started job stays in the queue.
BadWithout(i) == queue
Without(i) == RemoveAt(queue, i)

Refill(t) ==
    LET i == First(Startable(inflight)) IN
    /\ at[t] = "refill"
    /\ HasRoom(inflight)
    /\ Startable(inflight) # {}
    /\ queue' = Without(i)
    /\ IF down
         THEN \* executor.submit raises: the job is in no list any more
              /\ at' = [at EXCEPT ![t] = "idle"]
              /\ lock' = Free
              /\ UNCHANGED <<inflight, future, pool, cur>>
         ELSE Schedule(t, queue[i])
    /\ UNCHANGED <<rows, callback, unsent, down>>

RefillOver(t) ==
    /\ ~HasRoom(inflight) \/ Startable(inflight) = {}
    /\ MoveTo(t, "refill", "idle")
    /\ lock' = Free
    /\ UNCHANGED <<rows, shared, cur, unsent, down>>

-----------------------------------------------------------------------------
\* The calls that are under way; a new call is not owed by anybody.
LoopStep ==
    \/ \E j \in Jobs : Insert(j)
    \/ NothingToInsert
    \/ SubmitExisting
    \/ RegisterLoop
    \/ RegisterTooLate(Loop)
    \/ CancelJobRead
    \/ CancelJobWrite

HostCall ==
    \/ CheckCapacity
    \/ \E S \in SUBSET PartJobs : InsertParts(S)
    \/ \E j \in Jobs : CancelPart(j) \/ CancelJob(j)
    \/ Shutdown

PoolStep(t) ==
    \/ Take(t)
    \/ Begin(t)
    \/ \E newState \in {"done", "failed", "active"} : Finish(t, newState)
    \/ Resolve(t)
    \/ JobDone(t)
    \/ Refill(t)
    \/ RefillOver(t)
    \/ RegisterPool(t)
    \/ RegisterTooLate(t)

RunnerNext == LoopStep \/ HostCall \/ \E t \in Pool : PoolStep(t)

RunnerSpec == RunnerInit /\ [][RunnerNext]_runnerVars

\* The threads run, and the lock is given to every thread that keeps waiting.
RunnerFairSpec ==
    /\ RunnerSpec
    /\ SF_runnerVars(LoopStep)
    /\ \A t \in Pool : SF_runnerVars(PoolStep(t))

-----------------------------------------------------------------------------
(* Properties.                                                             *)

Queued == Range(queue)

RunnerTypeOK ==
    /\ state \in [Jobs -> {"absent", "pending", "active", "done", "failed"}]
    /\ cancelled \in [Jobs -> BOOLEAN]
    /\ inflight \subseteq Jobs
    /\ queue \in Seq(Jobs)
    /\ future \in [Jobs -> {"none", "waiting", "running", "finished", "cancelled"}]
    /\ callback \in [Jobs -> BOOLEAN]
    /\ pool \in Seq(Jobs)
    /\ lock \in Threads \cup {Free}
    /\ \A t \in Pool : at[t] \in PoolControl
    /\ at[Loop] \in LoopControl
    /\ cur \in [Threads -> Jobs \cup {NoJob}]
    /\ unsent \subseteq Jobs
    /\ down \in BOOLEAN

\* max_inflight_jobs bounds the jobs handed to the executor, although the API
\* looks at the number without the lock and queued jobs are started by the
\* callbacks of others.
BackPressure == Cardinality(inflight) <= MaxInflight

\* No more than max_active_parts_per_doc parts of a parent are in flight,
\* whoever starts them.
PartsInflightLimited ==
    PartLimit > 0 =>
        \A p \in PartJobs :
            Cardinality({i \in inflight \cap PartJobs : Parent[i] = Parent[p]}) <= PartLimit

\* The state is well typed and both limits hold, whoever starts jobs.
LimitsHold == RunnerTypeOK /\ BackPressure /\ PartsInflightLimited

\* A job is handed to the executor at most once: it is never queued while it is
\* in flight or over, and never twice in a list.
HandedOverOnce ==
    /\ \A i, k \in DOMAIN queue : queue[i] = queue[k] => i = k
    /\ \A i, k \in DOMAIN pool : pool[i] = pool[k] => i = k
    /\ \A j \in Queued : future[j] = "none"
    /\ \A t, u \in Pool : at[t] = "run" /\ at[u] = "run" /\ cur[t] = cur[u] => t = u

\* Whenever the lock is free and the executor accepts work, no queued job could
\* be started: the callbacks leave no startable job behind.
WorkConserving ==
    lock = Free /\ ~down /\ Cardinality(inflight) < MaxInflight =>
        ~\E j \in Queued : state[j] = "pending" /\ CanStart(j, inflight)

\* A cancelled job is never executed, and stays cancelled.
CancelledStaysCancelled ==
    [][\A j \in Jobs : cancelled[j] => cancelled'[j] /\ state'[j] = "failed"]_runnerVars

\* Every job the runner has accepted leaves it again, unless a thread hangs
\* while it holds the lock or the application is shut down.
Hung == \E t \in Threads : at[t] = "hung"
Accepted(j) == j \in inflight \cup Queued
EveryAcceptedJobEnds ==
    []~(Hung \/ down) => \A j \in Jobs : Accepted(j) ~> ~Accepted(j)

\* A job that cancel_job kept from starting is recorded as cancelled.
CancelTakesEffect == \A j \in Jobs : future[j] = "cancelled" ~> cancelled[j]
=============================================================================
