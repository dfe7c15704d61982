------------------------------ MODULE JobQueue ------------------------------
(***************************************************************************)
(* The job queue of ParseCore in execution mode "queue-worker": the rows   *)
(* of the parse_jobs table, the worker processes that claim and execute    *)
(* them (worker.py, runtime.py), the recovery of timed-out claims, and the *)
(* cancel call of the host.  One statement of the SQL stores (stores.py)   *)
(* is one atomic step; two statements of one method are two steps.         *)
(*                                                                         *)
(* The uuid of a claim is represented by the attempt number the claim was  *)
(* given: a claim is the only thing that raises attempt_count here, so     *)
(* equal numbers mean the same claim, and 0 is the NULL token.  A stored   *)
(* artifact is represented by its origin, the <<job, attempt>> whose parse *)
(* produced the blocks it was derived from.                                *)
(***************************************************************************)
EXTENDS Naturals, FiniteSets

CONSTANTS
    Workers,       \* the worker processes (docker compose --scale)
    Cancellers,    \* host threads that may call cancel_job, {} for none
    NumJobs,       \* jobs are 1..NumJobs, numbered in the order of created_at
    Docs,          \* the documents
    DocOf,         \* the document a job parses
    Mode,          \* options["mode"] of a job: "parse", "chunks", "embeddings"
    Parts,         \* the jobs that are PDF part jobs, all of one parent
    PartLimit,     \* max_active_parts_per_doc, 0 for no limit
    MaxAttempts,   \* runtime.max_attempts
    Timeouts,      \* TRUE when job_timeout_seconds > 0
    MaxClaims,     \* bound of the model: claims of one job
    MaxCrashes,    \* bound of the model: worker crashes
    CrashLoad      \* bound of the model: jobs submitted when a worker crashes

Jobs == 1..NumJobs

ASSUME JobsAssumption == NumJobs \in Nat
ASSUME DocsAssumption == DocOf \in [Jobs -> Docs] /\ Parts \subseteq Jobs
ASSUME ModeAssumption == Mode \in [Jobs -> {"parse", "chunks", "embeddings"}]
ASSUME BoundsAssumption ==
    /\ MaxAttempts \in Nat \ {0}
    /\ PartLimit \in Nat
    /\ MaxClaims \in Nat
    /\ MaxCrashes \in Nat /\ CrashLoad \in Nat
    /\ Timeouts \in BOOLEAN

VARIABLES
    \* ---- the row of a job in parse_jobs
    state,         \* models.ParseJobState, "absent" before the insert
    token,         \* claim_token, 0 for NULL
    attempts,      \* attempt_count
    expired,       \* lease_expires_at is set and has passed
    delayed,       \* next_attempt_at is set and has not passed
    dead,          \* dead_lettered_at is set
    cancelled,     \* failure_reason = "cancelled"
    \* ---- the artifacts of a document
    blocks, chunks, index, views,
    \* ---- the locals of a worker
    pc,            \* the next statement of run_once
    job,           \* the job it is working on
    tok,           \* claim_token it was given
    att,           \* attempt, as read by execute
    todo,          \* recover_timed_out_jobs: expired claims still to handle
    cand,          \* claim_next_job: pending jobs still to try
    held,          \* origins of the blocks and chunks it has in memory
    \* ---- the locals of a canceller
    cpc, cjob,
    \* ---- history and bounds
    released,      \* claims of a job given back because of the part limit
    staleWrites,   \* artifacts a worker wrote after it lost its claim
    crashes

row == <<state, token, attempts, expired, delayed, dead, cancelled, released>>
artifacts == <<blocks, chunks, index, views>>
locals == <<job, tok, att, todo, cand, held>>
cancelVars == <<cpc, cjob>>
vars == <<row, artifacts, pc, locals, cancelVars, staleWrites, crashes>>

NoJob == 0
NoOrigin == <<0, 0>>
Origins == {NoOrigin} \cup (Jobs \X Nat)
Active == {"parsing", "structuring", "embedding"}
States == {"absent", "pending", "done", "failed"} \cup Active

\* The statements of execute, in their order.
Working == {"parse", "checkBlocks", "saveBlocks", "toStructuring", "chunk",
            "toEmbedding", "checkChunks", "saveChunks", "checkIndex",
            "upsert", "finish", "saveViews"}
Claimed == {"checkLimit", "release", "start"} \cup Working
Control == {"idle", "recover", "list", "claim", "reclaim", "down"} \cup Claimed

Init ==
    /\ state = [j \in Jobs |-> "absent"]
    /\ token = [j \in Jobs |-> 0]
    /\ attempts = [j \in Jobs |-> 0]
    /\ expired = [j \in Jobs |-> FALSE]
    /\ delayed = [j \in Jobs |-> FALSE]
    /\ dead = [j \in Jobs |-> FALSE]
    /\ cancelled = [j \in Jobs |-> FALSE]
    /\ released = [j \in Jobs |-> 0]
    /\ blocks = [d \in Docs |-> NoOrigin]
    /\ chunks = [d \in Docs |-> NoOrigin]
    /\ index = [d \in Docs |-> NoOrigin]
    /\ views = [d \in Docs |-> NoOrigin]
    /\ pc = [w \in Workers |-> "idle"]
    /\ job = [w \in Workers |-> NoJob]
    /\ tok = [w \in Workers |-> 0]
    /\ att = [w \in Workers |-> 0]
    /\ todo = [w \in Workers |-> {}]
    /\ cand = [w \in Workers |-> {}]
    /\ held = [w \in Workers |-> [blocks |-> NoOrigin, chunks |-> NoOrigin]]
    /\ cpc = [c \in Cancellers |-> "idle"]
    /\ cjob = [c \in Cancellers |-> NoJob]
    /\ staleWrites = [w \in Workers |-> 0]
    /\ crashes = 0

-----------------------------------------------------------------------------
(* The store operations.  Each describes the new row of one job.           *)

(* Faulty variants of an operator, named Bad..., stand before it: they are  *)
(* used by no action and show that the properties notice such a change.     *)

\* update_state with clear_claim: the claim, its lease and, unless a later
\* time is given, next_attempt_at are cleared; failure_reason is replaced.
SetUnclaimed(j, newState, later) ==
    /\ state' = [state EXCEPT ![j] = newState]
    /\ token' = [token EXCEPT ![j] = 0]
    /\ expired' = [expired EXCEPT ![j] = FALSE]
    /\ delayed' = [delayed EXCEPT ![j] = later]
    /\ cancelled' = [cancelled EXCEPT ![j] = FALSE]
    /\ UNCHANGED attempts

\* A retried job is put into a state the workers do not look for.
BadRetry(j) ==
    /\ SetUnclaimed(j, "retry", TRUE)
    /\ UNCHANGED <<dead, released>>

\* _schedule_retry and mark_dead_letter, the two ends of a failed attempt
\* (by execute's handlers and by recover_timed_out_jobs alike).
Retry(j) ==
    /\ SetUnclaimed(j, "pending", TRUE)
    /\ UNCHANGED <<dead, released>>

DeadLetter(j) ==
    /\ SetUnclaimed(j, "failed", FALSE)
    /\ dead' = [dead EXCEPT ![j] = TRUE]
    /\ UNCHANGED released

EndFailedAttempt(j, attempt) ==
    IF attempt >= MaxAttempts THEN DeadLetter(j) ELSE Retry(j)

\* The WHERE clause of _claim_job (and the bound of the model).
Claimable(j) == state[j] = "pending" /\ ~delayed[j] /\ attempts[j] < MaxClaims

\* A token per job instead of one per claim.
BadFreshToken(j) == 1

\* uuid4().hex: a token no earlier claim of the job had.
FreshToken(j) == attempts[j] + 1

\* _claim_job: a fresh token, a fresh lease and one more attempt.
ClaimRow(j) ==
    /\ state' = [state EXCEPT ![j] = "parsing"]
    /\ token' = [token EXCEPT ![j] = FreshToken(j)]
    /\ attempts' = [attempts EXCEPT ![j] = @ + 1]
    /\ expired' = [expired EXCEPT ![j] = FALSE]
    /\ delayed' = [delayed EXCEPT ![j] = FALSE]
    /\ cancelled' = [cancelled EXCEPT ![j] = FALSE]
    /\ UNCHANGED <<dead, released>>

-----------------------------------------------------------------------------
(* ParseRuntime.start: the insert of a pending row.                        *)

Submit(j) ==
    /\ state[j] = "absent"
    /\ \A i \in 1..(j - 1) : state[i] # "absent"
    /\ state' = [state EXCEPT ![j] = "pending"]
    /\ UNCHANGED <<token, attempts, expired, delayed, dead, cancelled, released,
                   artifacts, pc, locals, cancelVars, staleWrites, crashes>>

(* Time: a lease runs out, a retry delay runs out.                         *)

LeaseRunsOut(j) ==
    /\ Timeouts
    /\ state[j] \in Active
    /\ ~expired[j]
    /\ expired' = [expired EXCEPT ![j] = TRUE]
    /\ UNCHANGED <<state, token, attempts, delayed, dead, cancelled, released,
                   artifacts, pc, locals, cancelVars, staleWrites, crashes>>

DelayRunsOut(j) ==
    /\ delayed[j]
    /\ delayed' = [delayed EXCEPT ![j] = FALSE]
    /\ UNCHANGED <<state, token, attempts, expired, dead, cancelled, released,
                   artifacts, pc, locals, cancelVars, staleWrites, crashes>>

-----------------------------------------------------------------------------
(* claim_next_job.                                                         *)

Goto(w, from, to) ==
    /\ pc[w] = from
    /\ pc' = [pc EXCEPT ![w] = to]

\* Expired claims are never looked for.
BadSweep(w) ==
    /\ Goto(w, "idle", "recover")
    /\ UNCHANGED <<row, artifacts, locals, cancelVars, staleWrites, crashes>>

\* recover_timed_out_jobs lists the rows once.
Sweep(w) ==
    /\ Goto(w, "idle", "recover")
    /\ todo' = [todo EXCEPT ![w] =
           {<<j, token[j]>> : j \in {i \in Jobs : state[i] \in Active /\ expired[i]}}]
    /\ UNCHANGED <<row, artifacts, job, tok, att, cand, held, cancelVars,
                   staleWrites, crashes>>

\* Recovery that does not compare the token it saw.
BadRecover(w, j, t) ==
    /\ pc[w] = "recover"
    /\ <<j, t>> \in todo[w]
    /\ \A entry \in todo[w] : entry[1] <= j
    /\ EndFailedAttempt(j, t)
    /\ todo' = [todo EXCEPT ![w] = @ \ {<<j, t>>}]
    /\ UNCHANGED <<pc, artifacts, job, tok, att, cand, held, cancelVars,
                   staleWrites, crashes>>

\* It handles the rows it saw, the newest first, and writes each one only if
\* the token it saw is still there.  The attempt it saw is the token.  A row
\* that changed meanwhile raises stale_claim, which no caller up to
\* serve_forever catches: the worker process ends.
Recover(w, j, t) ==
    /\ pc[w] = "recover"
    /\ <<j, t>> \in todo[w]
    /\ \A entry \in todo[w] : entry[1] <= j
    /\ IF token[j] = t
         THEN /\ EndFailedAttempt(j, t)
              /\ todo' = [todo EXCEPT ![w] = @ \ {<<j, t>>}]
              /\ UNCHANGED pc
         ELSE /\ pc' = [pc EXCEPT ![w] = "down"]
              /\ todo' = [todo EXCEPT ![w] = {}]
              /\ UNCHANGED row
    /\ UNCHANGED <<artifacts, job, tok, att, cand, held, cancelVars,
                   staleWrites, crashes>>

RecoveryDone(w) ==
    /\ todo[w] = {}
    /\ Goto(w, "recover", "list")
    /\ UNCHANGED <<row, artifacts, locals, cancelVars, staleWrites, crashes>>

ActiveParts == {j \in Parts : state[j] \in Active}

\* _part_claim_allowed, on the snapshot the candidates come from.
PartClaimAllowed(j) ==
    \/ j \notin Parts
    \/ PartLimit = 0
    \/ Cardinality(ActiveParts) < PartLimit

ListPending(w) ==
    /\ Goto(w, "list", "claim")
    /\ cand' = [cand EXCEPT ![w] =
           {j \in Jobs : Claimable(j) /\ PartClaimAllowed(j)}]
    /\ UNCHANGED <<row, artifacts, job, tok, att, todo, held, cancelVars,
                   staleWrites, crashes>>

\* The candidates are tried oldest first; one that somebody else took is skipped.
ClaimNext(w, j) ==
    /\ pc[w] = "claim"
    /\ j \in cand[w]
    /\ \A i \in cand[w] : j <= i
    /\ cand' = [cand EXCEPT ![w] = @ \ {j}]
    /\ IF Claimable(j)
         THEN /\ ClaimRow(j)
              /\ pc' = [pc EXCEPT ![w] = "checkLimit"]
              /\ job' = [job EXCEPT ![w] = j]
              /\ tok' = [tok EXCEPT ![w] = FreshToken(j)]
         ELSE UNCHANGED <<row, pc, job, tok>>
    /\ UNCHANGED <<artifacts, att, todo, held, cancelVars, staleWrites, crashes>>

\* What a worker forgets when it returns to the polling loop.
Forget(w) ==
    /\ job' = [job EXCEPT ![w] = NoJob]
    /\ tok' = [tok EXCEPT ![w] = 0]
    /\ att' = [att EXCEPT ![w] = 0]
    /\ todo' = [todo EXCEPT ![w] = {}]
    /\ cand' = [cand EXCEPT ![w] = {}]
    /\ held' = [held EXCEPT ![w] = [blocks |-> NoOrigin, chunks |-> NoOrigin]]
    /\ staleWrites' = [staleWrites EXCEPT ![w] = 0]

NothingToClaim(w) ==
    /\ cand[w] = {}
    /\ Goto(w, "claim", "idle")
    /\ Forget(w)
    /\ UNCHANGED <<row, artifacts, cancelVars, crashes>>

\* No second look after the claim.
BadOverLimit(j) == FALSE

\* _part_claim_over_limit lists the rows again: the first PartLimit active
\* parts, in the order of created_at, may stay.
OverLimit(j) ==
    /\ j \in Parts
    /\ PartLimit > 0
    /\ \/ j \notin ActiveParts
       \/ Cardinality({i \in ActiveParts : i < j}) >= PartLimit

CheckLimit(w) ==
    /\ Goto(w, "checkLimit", IF OverLimit(job[w]) THEN "release" ELSE "start")
    /\ UNCHANGED <<row, artifacts, locals, cancelVars, staleWrites, crashes>>

\* The surplus claim is given back, and the next candidate tried; a claim that
\* was taken away meanwhile raises stale_claim out of claim_next_job.
Release(w) ==
    LET j == job[w] IN
    /\ pc[w] = "release"
    /\ IF token[j] = tok[w]
         THEN /\ Goto(w, "release", "claim")
              /\ SetUnclaimed(j, "pending", FALSE)
              /\ released' = [released EXCEPT ![j] = @ + 1]
              /\ UNCHANGED dead
              /\ job' = [job EXCEPT ![w] = NoJob]
              /\ tok' = [tok EXCEPT ![w] = 0]
              /\ UNCHANGED <<att, todo, cand, held, staleWrites>>
         ELSE /\ Goto(w, "release", "down")
              /\ Forget(w)
              /\ UNCHANGED row
    /\ UNCHANGED <<artifacts, cancelVars, crashes>>

-----------------------------------------------------------------------------
(* execute.                                                                *)

\* Before its try block, execute reads the row once and refuses a job that is
\* dead-lettered or cancelled; whatever else is raised there (route planning,
\* a store error) also ends the attempt without touching the row.
Refuse(w) ==
    /\ Goto(w, "start", "idle")
    /\ Forget(w)
    /\ UNCHANGED <<row, artifacts, cancelVars, crashes>>

Start(w) ==
    LET j == job[w] IN
    /\ pc[w] = "start"
    /\ ~dead[j]
    /\ ~(state[j] = "failed" /\ cancelled[j])
    /\ Goto(w, "start", IF state[j] = "pending" THEN "reclaim" ELSE "parse")
    /\ att' = [att EXCEPT ![w] = IF state[j] = "pending" THEN 0 ELSE attempts[j]]
    /\ UNCHANGED <<row, artifacts, job, tok, todo, cand, held, cancelVars,
                   staleWrites, crashes>>

\* The row was pending again: execute claims it itself, without a part limit.
Reclaim(w) ==
    LET j == job[w] IN
    /\ Goto(w, "reclaim", "parse")
    /\ Claimable(j)
    /\ ClaimRow(j)
    /\ tok' = [tok EXCEPT ![w] = FreshToken(j)]
    /\ att' = [att EXCEPT ![w] = attempts[j] + 1]
    /\ UNCHANGED <<artifacts, job, todo, cand, held, cancelVars, staleWrites, crashes>>

ReclaimRefused(w) ==
    /\ Goto(w, "reclaim", "idle")
    /\ ~Claimable(job[w])
    /\ Forget(w)
    /\ UNCHANGED <<row, artifacts, cancelVars, crashes>>

\* The worker's claim is the one in the row.
HoldsClaim(w) == job[w] # NoJob /\ tok[w] # 0 /\ token[job[w]] = tok[w]

\* _load_blocks_for_request: a parse makes new blocks, the two rerun modes
\* read the stored ones and raise when there are none.
Parse(w) ==
    LET j == job[w]  d == DocOf[j] IN
    /\ pc[w] = "parse"
    /\ Mode[j] # "parse" => blocks[d] # NoOrigin
    /\ Goto(w, "parse", IF Mode[j] = "chunks" THEN "toStructuring" ELSE "checkBlocks")
    /\ held' = [held EXCEPT ![w].blocks =
           IF Mode[j] = "parse" THEN <<j, att[w]>> ELSE blocks[d]]
    /\ UNCHANGED <<row, artifacts, job, tok, att, todo, cand, cancelVars,
                   staleWrites, crashes>>

\* _load_chunks_for_request: chunks are built from the blocks in memory, or
\* read from the store by an embeddings-only rerun.
Chunk(w) ==
    LET j == job[w]  d == DocOf[j] IN
    /\ pc[w] = "chunk"
    /\ Mode[j] = "embeddings" => chunks[d] # NoOrigin
    /\ Goto(w, "chunk", "toEmbedding")
    /\ held' = [held EXCEPT ![w].chunks =
           IF Mode[j] = "embeddings" THEN chunks[d] ELSE held[w].blocks]
    /\ UNCHANGED <<row, artifacts, job, tok, att, todo, cand, cancelVars,
                   staleWrites, crashes>>

\* The artifacts are written without a check.
BadEnsureActiveClaim(w, from, to) ==
    /\ Goto(w, from, to)
    /\ UNCHANGED <<row, artifacts, locals, cancelVars, staleWrites, crashes>>

\* _ensure_active_claim: a read, not a lock.
EnsureActiveClaim(w, from, to) ==
    /\ HoldsClaim(w)
    /\ state[job[w]] \in Active
    /\ Goto(w, from, to)
    /\ UNCHANGED <<row, artifacts, locals, cancelVars, staleWrites, crashes>>

\* The write that follows it replaces the artifact whatever the row is now.
CountStale(w) ==
    staleWrites' = [staleWrites EXCEPT ![w] = IF HoldsClaim(w) THEN @ ELSE @ + 1]

SaveBlocks(w) ==
    /\ Goto(w, "saveBlocks", "toStructuring")
    /\ blocks' = [blocks EXCEPT ![DocOf[job[w]]] = held[w].blocks]
    /\ CountStale(w)
    /\ UNCHANGED <<row, chunks, index, views, locals, cancelVars, crashes>>

SaveChunks(w) ==
    /\ Goto(w, "saveChunks", "checkIndex")
    /\ chunks' = [chunks EXCEPT ![DocOf[job[w]]] = held[w].chunks]
    /\ CountStale(w)
    /\ UNCHANGED <<row, blocks, index, views, locals, cancelVars, crashes>>

\* The index keeps the rows of an earlier attempt.
BadUpsert(w) ==
    /\ Goto(w, "upsert", "finish")
    /\ index' = [index EXCEPT ![DocOf[job[w]]] =
           IF @ = NoOrigin THEN held[w].chunks ELSE @]
    /\ CountStale(w)
    /\ UNCHANGED <<row, blocks, chunks, views, locals, cancelVars, crashes>>

Upsert(w) ==
    /\ Goto(w, "upsert", "finish")
    /\ index' = [index EXCEPT ![DocOf[job[w]]] = held[w].chunks]
    /\ CountStale(w)
    /\ UNCHANGED <<row, blocks, chunks, views, locals, cancelVars, crashes>>

\* _update_job_state(STRUCTURING) and (EMBEDDING): conditional on the token,
\* and only on the token.
Advance(w, from, newState, to) ==
    /\ HoldsClaim(w)
    /\ Goto(w, from, to)
    /\ state' = [state EXCEPT ![job[w]] = newState]
    /\ cancelled' = [cancelled EXCEPT ![job[w]] = FALSE]
    /\ UNCHANGED <<token, attempts, expired, delayed, dead, released,
                   artifacts, locals, cancelVars, staleWrites, crashes>>

\* The job is marked done whoever holds the claim now.
BadFinish(w) ==
    /\ Goto(w, "finish", "saveViews")
    /\ SetUnclaimed(job[w], "done", FALSE)
    /\ UNCHANGED <<dead, released, artifacts, locals, cancelVars, staleWrites, crashes>>

\* _update_job_state(DONE, clear_claim).
Finish(w) ==
    /\ HoldsClaim(w)
    /\ Goto(w, "finish", "saveViews")
    /\ SetUnclaimed(job[w], "done", FALSE)
    /\ UNCHANGED <<dead, released, artifacts, locals, cancelVars, staleWrites, crashes>>

\* _persist_document_views: after the job is done, without a claim.
SaveViews(w) ==
    /\ Goto(w, "saveViews", "idle")
    /\ views' = [views EXCEPT ![DocOf[job[w]]] = held[w].blocks]
    /\ Forget(w)
    /\ UNCHANGED <<row, blocks, chunks, index, cancelVars, crashes>>

\* The statements that find the claim gone raise stale_claim; run_once
\* swallows it.
StaleClaim(w) ==
    /\ \/ /\ pc[w] \in {"checkBlocks", "checkChunks", "checkIndex"}
          /\ ~HoldsClaim(w) \/ state[job[w]] \notin Active
       \/ /\ pc[w] \in {"toStructuring", "toEmbedding", "finish"}
          /\ ~HoldsClaim(w)
    /\ pc' = [pc EXCEPT ![w] = "idle"]
    /\ Forget(w)
    /\ UNCHANGED <<row, artifacts, cancelVars, crashes>>

\* Any statement of the try block may raise something else: the two except
\* branches end the attempt, if the claim is still there.
ExecuteRaises(w) ==
    LET j == job[w] IN
    /\ pc[w] \in Working
    /\ pc' = [pc EXCEPT ![w] = "idle"]
    /\ Forget(w)
    /\ IF HoldsClaim(w) THEN EndFailedAttempt(j, att[w]) ELSE UNCHANGED row
    /\ UNCHANGED <<artifacts, cancelVars, crashes>>

-----------------------------------------------------------------------------
(* A worker process dies (kill, host loss, restart of the container).      *)

Crash(w) ==
    /\ crashes < MaxCrashes
    /\ Cardinality({j \in Jobs : state[j] # "absent"}) <= CrashLoad
    /\ pc[w] # "down"
    /\ pc' = [pc EXCEPT ![w] = "down"]
    /\ Forget(w)
    /\ crashes' = crashes + 1
    /\ UNCHANGED <<row, artifacts, cancelVars>>

\* An operator or a supervisor starts it again.
Restart(w) ==
    /\ Goto(w, "down", "idle")
    /\ UNCHANGED <<row, artifacts, locals, cancelVars, staleWrites, crashes>>

-----------------------------------------------------------------------------
(* cancel_job: a read of the row, then a write that is not conditional.    *)

CancelRead(c, j) ==
    /\ cpc[c] = "idle"
    /\ state[j] \notin {"absent", "done", "failed"}
    /\ cpc' = [cpc EXCEPT ![c] = "write"]
    /\ cjob' = [cjob EXCEPT ![c] = j]
    /\ UNCHANGED <<row, artifacts, pc, locals, staleWrites, crashes>>

CancelWrite(c) ==
    LET j == cjob[c] IN
    /\ cpc[c] = "write"
    /\ cpc' = [cpc EXCEPT ![c] = "over"]
    /\ cjob' = [cjob EXCEPT ![c] = NoJob]
    /\ state' = [state EXCEPT ![j] = "failed"]
    /\ token' = [token EXCEPT ![j] = 0]
    /\ expired' = [expired EXCEPT ![j] = FALSE]
    /\ delayed' = [delayed EXCEPT ![j] = FALSE]
    /\ cancelled' = [cancelled EXCEPT ![j] = TRUE]
    /\ UNCHANGED <<attempts, dead, released, artifacts, pc, locals, staleWrites, crashes>>

-----------------------------------------------------------------------------
ClaimStep(w) ==
    \/ Sweep(w)
    \/ \E j \in Jobs, t \in 1..MaxClaims : Recover(w, j, t)
    \/ RecoveryDone(w)
    \/ ListPending(w)
    \/ \E j \in Jobs : ClaimNext(w, j)
    \/ NothingToClaim(w)
    \/ CheckLimit(w)
    \/ Release(w)

ExecuteStep(w) ==
    \/ Refuse(w)
    \/ Start(w)
    \/ Reclaim(w)
    \/ ReclaimRefused(w)
    \/ Parse(w)
    \/ EnsureActiveClaim(w, "checkBlocks", "saveBlocks")
    \/ SaveBlocks(w)
    \/ Advance(w, "toStructuring", "structuring", "chunk")
    \/ Chunk(w)
    \/ Advance(w, "toEmbedding", "embedding", "checkChunks")
    \/ EnsureActiveClaim(w, "checkChunks", "saveChunks")
    \/ SaveChunks(w)
    \/ EnsureActiveClaim(w, "checkIndex", "upsert")
    \/ Upsert(w)
    \/ Finish(w)
    \/ SaveViews(w)
    \/ StaleClaim(w)
    \/ ExecuteRaises(w)

WorkerStep(w) == ClaimStep(w) \/ ExecuteStep(w)

TimeStep == \E j \in Jobs : LeaseRunsOut(j) \/ DelayRunsOut(j)

Next ==
    \/ \E j \in Jobs : Submit(j)
    \/ TimeStep
    \/ \E w \in Workers : WorkerStep(w) \/ Crash(w) \/ Restart(w)
    \/ \E c \in Cancellers : CancelWrite(c) \/ \E j \in Jobs : CancelRead(c, j)

Spec == Init /\ [][Next]_vars

\* A live process keeps executing statements, and time passes.  Nothing is
\* assumed about restarts, nor about which statement raises.
FairSpec ==
    /\ Spec
    /\ \A j \in Jobs : WF_vars(LeaseRunsOut(j)) /\ WF_vars(DelayRunsOut(j))
    /\ \A w \in Workers : WF_vars(WorkerStep(w))

-----------------------------------------------------------------------------
(* Properties.                                                             *)

TypeOK ==
    /\ state \in [Jobs -> States]
    /\ token \in [Jobs -> Nat]
    /\ attempts \in [Jobs -> Nat]
    /\ expired \in [Jobs -> BOOLEAN]
    /\ delayed \in [Jobs -> BOOLEAN]
    /\ dead \in [Jobs -> BOOLEAN]
    /\ cancelled \in [Jobs -> BOOLEAN]
    /\ released \in [Jobs -> Nat]
    /\ blocks \in [Docs -> Origins]
    /\ chunks \in [Docs -> Origins]
    /\ index \in [Docs -> Origins]
    /\ views \in [Docs -> Origins]
    /\ pc \in [Workers -> Control]
    /\ job \in [Workers -> Jobs \cup {NoJob}]
    /\ tok \in [Workers -> Nat]
    /\ att \in [Workers -> Nat]
    /\ todo \in [Workers -> SUBSET (Jobs \X Nat)]
    /\ cand \in [Workers -> SUBSET Jobs]
    /\ held \in [Workers -> [blocks : Origins, chunks : Origins]]
    /\ cpc \in [Cancellers -> {"idle", "write", "over"}]
    /\ cjob \in [Cancellers -> Jobs \cup {NoJob}]
    /\ staleWrites \in [Workers -> Nat]
    /\ crashes \in Nat

\* At any time at most one worker process holds the claim that is in a job's
\* row, whatever was recovered, given back or claimed again in between.
ExclusiveClaim ==
    \A v, w \in Workers :
        HoldsClaim(v) /\ HoldsClaim(w) /\ job[v] = job[w] => v = w

\* An attempt that lost its claim replaces at most one more artifact: the
\* check before each of save_blocks, save_chunks and upsert, and the
\* conditional state change after each, leave a window of a single write.
StaleDamageBounded == \A w \in Workers : staleWrites[w] <= 1

\* A job is given no more than max_attempts real attempts; only claims that
\* were given back at the part limit come on top.
AttemptsBounded == \A j \in Jobs : attempts[j] <= MaxAttempts + released[j]

\* A pending row never keeps a claim, an active row always has one: no job is
\* active without a token that a recovery could compare.
ClaimIffActive == \A j \in Jobs : token[j] # 0 <=> state[j] \in Active

\* The blocks, chunks and index of a finished document come from one parse,
\* that of the attempt that finished it (for a document with one parse job).
DoneIsCoherent ==
    \A j \in Jobs :
        state[j] = "done" =>
            LET d == DocOf[j] IN
            /\ blocks[d] = <<j, attempts[j]>>
            /\ chunks[d] = blocks[d]
            /\ index[d] = blocks[d]

\* No more than max_active_parts_per_doc parts of a document are executed at
\* the same time.
Executing == {w \in Workers : pc[w] \in Working /\ HoldsClaim(w)}
PartLimitRespected ==
    PartLimit > 0 => Cardinality({w \in Executing : job[w] \in Parts}) <= PartLimit

\* Parts that execute under their first claim never exceed it, however many parts,
\* workers, retries and reruns there are: only a claim that was given back, or a retried
\* one, may come on top (stores.py, _part_claim_over_limit).
FirstClaimsRespectLimit ==
    PartLimit > 0 =>
        Cardinality({w \in Executing : job[w] \in Parts /\ attempts[job[w]] = 1}) <= PartLimit

\* A job that is done or failed stays as it is: no late worker and no recovery
\* changes it.
Settled(j) == state[j] \in {"done", "failed"}
SettledIsFinal ==
    [][\A j \in Jobs :
         Settled(j) => /\ state'[j] = state[j]
                       /\ attempts'[j] = attempts[j]
                       /\ dead'[j] = dead[j]
                       /\ cancelled'[j] = cancelled[j]]_vars

\* A cancellation is never undone: neither the worker whose claim it took away,
\* nor the recovery of that claim, nor a retry brings the job back
\* (runtime.py, cancel_job writes the row without comparing the claim).
CancelledStaysCancelled ==
    [][\A j \in Jobs : cancelled[j] => cancelled'[j] /\ state'[j] = "failed"]_vars

\* When a job becomes done, in whatever mode it ran, the blocks, chunks and
\* index of its document come from the same parse.
PublishesTogether ==
    \A j \in Jobs :
        state[j] # "done" /\ state'[j] = "done" =>
            LET d == DocOf[j] IN
            blocks[d] # NoOrigin /\ chunks[d] = blocks[d] /\ index[d] = blocks[d]
PublishedTogether == [][PublishesTogether]_vars

\* What the queue promises its host (LeasedJobs): the owner of a job is the worker
\* whose claim is in its row.
Holders(j) == {w \in Workers : HoldsClaim(w) /\ job[w] = j}
OwnerOf(j) == IF Holders(j) = {} THEN NoJob ELSE CHOOSE w \in Holders(j) : TRUE
StatusOf(j) ==
    CASE state[j] = "pending" -> "queued"
      [] state[j] \in Active -> "running"
      [] state[j] = "failed" /\ cancelled[j] -> "cancelled"
      [] OTHER -> state[j]

Promise == INSTANCE LeasedJobs WITH
    NoOwner <- NoJob,
    status <- [j \in Jobs |-> StatusOf(j)],
    owner <- [j \in Jobs |-> OwnerOf(j)],
    tries <- attempts

\* Every step of the queue is a step of what it promises: only the worker whose
\* claim is in the row finishes a job or gives it up, a lost claim never comes
\* back, and a job that is done, dead-lettered or cancelled stays so.
ImplementsLeasedJobs == Promise!Spec

\* What a claim is for: one owner, as long as the job is active, for no more
\* than max_attempts, and of first claims no more than the part limit allows.
ClaimsAreSound == ExclusiveClaim /\ ClaimIffActive /\ AttemptsBounded /\ FirstClaimsRespectLimit

\* If one worker process stays up, every pending job is finished or
\* dead-lettered, however often the others die and whatever raises.
SomeWorkerStaysUp == \E w \in Workers : <>[](pc[w] # "down")
EveryJobSettles ==
    SomeWorkerStaysUp => \A j \in Jobs : state[j] = "pending" ~> Settled(j)
=============================================================================
