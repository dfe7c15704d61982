------------------------------- MODULE MCLive -------------------------------
(***************************************************************************)
(* What must eventually happen, under the fairness each module states: one  *)
(* run with three scenarios.  JobQueue has the variables of the             *)
(* configuration's own instance; the inline runner and the parse cache are  *)
(* kept in the same variables under other names.                            *)
(***************************************************************************)
EXTENDS MCJobQueue

VARIABLE scenario

all == <<vars, scenario>>

CONSTANTS Host, T1, T2    \* the event loop and two threads of its process

Inline == INSTANCE InlineRunner WITH
    Loop <- Host, Pool <- {T1, T2}, NumJobs <- 3, Partitioned <- {{2, 3}},
    MaxInflight <- 2, PartLimit <- 1, Cancellable <- {},
    inflight <- blocks, queue <- chunks, future <- index, callback <- views,
    pool <- cand, lock <- held, at <- pc, cur <- job, unsent <- todo, down <- dead
InlineRest == <<token, attempts, expired, delayed, tok, att, cpc, cjob, released, staleWrites, crashes>>

Cache == INSTANCE ParseCache WITH
    Threads <- {T1, T2}, Files <- {1}, Versions <- {1, 2}, Options <- {1},
    MaxEntries <- 1, MaxCalls <- 2, Fallible <- TRUE,
    content <- state, cache <- chunks, inflight <- index, result <- views, req <- job,
    call <- tok, key <- att, cacheKey <- cand, flight <- held, parsed <- blocks, calls <- crashes, replaced <- dead
CacheRest == <<token, attempts, expired, delayed, cancelled, todo, cpc, cjob, released, staleWrites>>

InlineNext == scenario = "inline" /\ Inline!RunnerNext /\ UNCHANGED <<scenario, InlineRest>>
CacheNext == scenario = "cache" /\ Cache!Next /\ UNCHANGED <<scenario, CacheRest>>
QueueNext == scenario = "queue" /\ Next /\ UNCHANGED scenario

LiveInit ==
    \/ scenario = "queue" /\ Init
    \/ /\ scenario = "inline" /\ Inline!RunnerInit
       /\ token = 0 /\ attempts = 0 /\ expired = 0 /\ delayed = 0 /\ tok = 0 /\ att = 0
       /\ cpc = 0 /\ cjob = 0 /\ released = 0 /\ staleWrites = 0 /\ crashes = 0
    \/ /\ scenario = "cache" /\ Cache!Init
       /\ token = 0 /\ attempts = 0 /\ expired = 0 /\ delayed = 0 /\ cancelled = 0 /\ todo = 0
       /\ cpc = 0 /\ cjob = 0 /\ released = 0 /\ staleWrites = 0

\* The fairness of JobQueue!FairSpec, InlineRunner!FairSpec and
\* ParseCache!FairSpec, each in its scenario.
LiveSpec ==
    /\ LiveInit /\ [][QueueNext \/ InlineNext \/ CacheNext]_all
    /\ \A j \in Jobs : /\ WF_all(QueueNext /\ LeaseRunsOut(j))
                       /\ WF_all(QueueNext /\ DelayRunsOut(j))
    /\ \A w \in Workers : WF_all(QueueNext /\ WorkerStep(w))
    /\ SF_all(InlineNext /\ Inline!LoopStep)
    /\ \A t \in {T1, T2} : SF_all(InlineNext /\ Inline!PoolStep(t))
    /\ \A t \in {T1, T2} : WF_all(CacheNext /\ Cache!Proceed(t))

\* Every pending job settles if a worker stays up (JobQueue!EveryJobSettles).
PendingJobsSettle ==
    (\E w \in Workers : <>[](scenario = "queue" /\ pc[w] # "down")) =>
        \A j \in Jobs : (scenario = "queue" /\ state[j] = "pending")
                            ~> (scenario = "queue" /\ Settled(j))

\* Every job the runner has taken leaves it, unless a thread hangs
\* (InlineRunner!EveryAcceptedJobEnds).
AcceptedJobsEnd ==
    []~(scenario = "inline" /\ (Inline!Hung \/ dead)) =>
        \A j \in 1..3 : (scenario = "inline" /\ Inline!Accepted(j))
                            ~> (scenario = "inline" /\ ~Inline!Accepted(j))

\* Every request to the parse cache returns or raises, also one that waits for
\* the parse of another thread, which may raise (ParseCache!EveryParseEnds).
ParsesEnd ==
    \A t \in {T1, T2} :
        (scenario = "cache" /\ pc[t] = "hash") ~> (scenario = "cache" /\ pc[t] = "idle")
=============================================================================
