-------------------------- MODULE PartitionedParent --------------------------
(***************************************************************************)
(* A PDF that is parsed in parts (runtime.py): the parent job, one job per *)
(* part and rerun, and refresh_partitioned_parent, which every executor of *)
(* a part and every call of the API runs on its own to bring the parent    *)
(* up to date.  Each statement that reads or writes the job store or the   *)
(* index is one step; the reads of one part's blocks and chunks in         *)
(* _merged_partition_artifacts are taken together.                         *)
(*                                                                         *)
(* The rows of part jobs change as JobQueue says; here a claim is taken    *)
(* from a worker only when it has died.  An artifact is represented by the *)
(* run (the number of the part job) it was made by, 0 for none.            *)
(***************************************************************************)
EXTENDS Naturals, FiniteSets

CONSTANTS
    Api,          \* the API process, one call at a time
    Workers,      \* the executors of part jobs
    NumParts,     \* parts planned for the document
    Cached,       \* execution mode "inline": _pdf_part_cache_enabled
    MaxRuns,      \* bound of the model: part jobs per part (1 + reruns)
    Failures,     \* TRUE when an attempt may fail
    Cancels,      \* TRUE when the host cancels parts
    Views,        \* TRUE when the host reads the parts while they run
    MaxCrashes    \* bound of the model: executors that die

Parts == 1..NumParts
Procs == Workers \cup {Api}

ASSUME PartsAssumption == NumParts \in Nat \ {0} /\ MaxRuns \in Nat \ {0} /\ MaxCrashes \in Nat
ASSUME ProcsAssumption == Api \notin Workers

VARIABLES
    parent,      \* the state of the parent job
    runs,        \* the number of jobs created for a part
    unsubmitted, \* inline: jobs the runner is given when the call returns
    row,         \* the state of each of them
    partDoc,     \* the blocks and chunks stored for the part's own document
    merged,      \* the blocks, chunks and index rows of the parent, per part
    manifest,    \* index_manifest.part_index: the chunk_ids of each part
    cache,       \* _pdf_part_jobs_cache of this parent, Empty when absent
    pc,
    part, run,   \* the part job a process works on
    changed,     \* changed_part_ids is given: the refresh is incremental
    parentSeen,  \* parent_job.state as read at the start of the refresh
    newState,    \* the state the refresh computed
    seen,        \* the latest row of each part, as listed or cached
    todo,        \* parts whose artifacts are still to be read
    got,         \* what was read of them
    entries,     \* the manifest that was read
    crashes

store == <<parent, runs, unsubmitted, row, partDoc, merged, manifest, cache>>
locals == <<part, run, changed, parentSeen, newState, seen, todo, got, entries>>
vars == <<store, pc, locals, crashes>>

NoPart == 0
Nothing == [blocks |-> 0, chunks |-> 0]
Empty == [p \in Parts |-> <<0, "absent">>]
Runs == 1..MaxRuns

\* Statements of refresh_partitioned_parent, in both of its forms.
Refresh == {"readParent", "readRows", "assign", "listMerge", "assignMerge", "collect",
            "replaceBlocks", "replaceChunks", "readManifest", "replaceIndex",
            "compare", "saveBlocks", "saveChunks", "upsert", "setParent"}
Execute == {"idle", "saveBlocksOfPart", "saveChunksOfPart", "finish", "remember"}
Calls == {"idle", "partial", "createParts", "viewRows", "viewAssign",
          "cancelRows", "cancelAssign", "cancelWrite", "remember"}

Init ==
    /\ parent = "absent"
    /\ runs = [p \in Parts |-> 0]
    /\ unsubmitted = {}
    /\ row = [p \in Parts |-> [r \in Runs |-> "absent"]]
    /\ partDoc = [p \in Parts |-> Nothing]
    /\ merged = [p \in Parts |-> [blocks |-> 0, chunks |-> 0, index |-> 0]]
    /\ manifest = [p \in Parts |-> 0]
    /\ cache = Empty
    /\ pc = [q \in Procs |-> "idle"]
    /\ part = [q \in Procs |-> NoPart]
    /\ run = [q \in Procs |-> 0]
    /\ changed = [q \in Procs |-> FALSE]
    /\ parentSeen = [q \in Procs |-> "absent"]
    /\ newState = [q \in Procs |-> "absent"]
    /\ seen = [q \in Procs |-> Empty]
    /\ todo = [q \in Procs |-> {}]
    /\ got = [q \in Procs |-> [p \in Parts |-> Nothing]]
    /\ entries = [q \in Procs |-> [p \in Parts |-> 0]]
    /\ crashes = 0

-----------------------------------------------------------------------------
Goto(q, from, to) ==
    /\ pc[q] = from
    /\ pc' = [pc EXCEPT ![q] = to]

\* The process forgets the locals of the call it has ended.
Forget(q) ==
    /\ part' = [part EXCEPT ![q] = NoPart]
    /\ run' = [run EXCEPT ![q] = 0]
    /\ changed' = [changed EXCEPT ![q] = FALSE]
    /\ parentSeen' = [parentSeen EXCEPT ![q] = "absent"]
    /\ newState' = [newState EXCEPT ![q] = "absent"]
    /\ seen' = [seen EXCEPT ![q] = Empty]
    /\ todo' = [todo EXCEPT ![q] = {}]
    /\ got' = [got EXCEPT ![q] = [p \in Parts |-> Nothing]]
    /\ entries' = [entries EXCEPT ![q] = [p \in Parts |-> 0]]

\* The latest job of each part, as list_jobs has it now.
LatestState(p) == IF runs[p] = 0 THEN "absent" ELSE row[p][runs[p]]
Latest == [p \in Parts |-> <<runs[p], LatestState(p)>>]

\* ParseJobState.FAILED, with failure_reason "cancelled" or another one.
Failed == {"failed", "cancelled"}

Known(rows) == {p \in Parts : rows[p] # <<0, "absent">>}

DoneIn(rows) == {p \in Parts : rows[p][2] = "done"}

\* A parent with a part that is done counts as done.
BadPartitionParentState(rows) ==
    IF DoneIn(rows) # {} THEN "done" ELSE "partial"

\* _partition_parent_state
PartitionParentState(rows) ==
    CASE Known(rows) = {} -> "partial"
      [] Known(rows) # {} /\ Known(rows) = DoneIn(rows) -> "done"
      [] Known(rows) # {} /\ \A p \in Known(rows) : rows[p][2] \in Failed -> "failed"
      [] OTHER -> "partial"

\* A part that has ended is not put into the cache.
BadRemembered(p, r) == cache

\* _remember_pdf_part_job
Remembered(p, r) == IF Cached THEN [cache EXCEPT ![p] = <<r, row[p][r]>>] ELSE cache

-----------------------------------------------------------------------------
(* An executor of part jobs.                                               *)

\* The runner scans its queue from the end.
BadRunnerStarts(p, r) ==
    /\ <<p, r>> \notin unsubmitted
    /\ \A i \in (r + 1)..runs[p] : row[p][i] # "pending"
    /\ ~(pc[Api] \in {"cancelAssign", "cancelWrite"} /\ part[Api] = p)

\* The inline runner starts the jobs of a part in the order they came, once they
\* are submitted, and not while its lock is held by a cancellation.
RunnerStarts(p, r) ==
    /\ <<p, r>> \notin unsubmitted
    /\ \A i \in 1..(r - 1) : row[p][i] # "pending"
    /\ ~(pc[Api] \in {"cancelAssign", "cancelWrite"} /\ part[Api] = p)

\* In queue mode a job whose retry is not due yet is passed by a later one.
Claim(w, p, r) ==
    /\ Goto(w, "idle", "saveBlocksOfPart")
    /\ row[p][r] = "pending"
    /\ Cached => RunnerStarts(p, r)
    /\ row' = [row EXCEPT ![p][r] = "active"]
    /\ part' = [part EXCEPT ![w] = p]
    /\ run' = [run EXCEPT ![w] = r]
    /\ UNCHANGED <<parent, runs, unsubmitted, partDoc, merged, manifest, cache, changed,
                   parentSeen, newState, seen, todo, got, entries, crashes>>

\* Its claim is still there.
HasClaim(w) == row[part[w]][run[w]] = "active"

SavePart(w, from, to, artifact) ==
    /\ Goto(w, from, to)
    /\ HasClaim(w)
    /\ partDoc' = [partDoc EXCEPT ![part[w]][artifact] = run[w]]
    /\ UNCHANGED <<parent, runs, unsubmitted, row, merged, manifest, cache, locals, crashes>>

\* The part job is done; the refresh is told which part has changed.
FinishPart(w) ==
    /\ Goto(w, "finish", "remember")
    /\ HasClaim(w)
    /\ row' = [row EXCEPT ![part[w]][run[w]] = "done"]
    /\ changed' = [changed EXCEPT ![w] = TRUE]
    /\ UNCHANGED <<parent, runs, unsubmitted, partDoc, merged, manifest, cache, part, run,
                   parentSeen, newState, seen, todo, got, entries, crashes>>

\* The attempt fails, for good or (_should_retry_failed_job: in queue mode) to be
\* retried; the refresh is a full one.
FailPart(w, newRow) ==
    /\ Failures
    /\ newRow = "pending" => ~Cached
    /\ pc[w] \in {"saveBlocksOfPart", "saveChunksOfPart", "finish"}
    /\ HasClaim(w)
    /\ pc' = [pc EXCEPT ![w] = "remember"]
    /\ row' = [row EXCEPT ![part[w]][run[w]] = newRow]
    /\ UNCHANGED <<parent, runs, unsubmitted, partDoc, merged, manifest, cache, locals, crashes>>

\* stale_claim: the part was cancelled; nothing is refreshed.
LoseClaim(w) ==
    /\ pc[w] \in {"saveBlocksOfPart", "saveChunksOfPart", "finish"}
    /\ ~HasClaim(w)
    /\ pc' = [pc EXCEPT ![w] = "idle"]
    /\ Forget(w)
    /\ UNCHANGED <<store, crashes>>

Remember(q) ==
    /\ Goto(q, "remember", "readParent")
    /\ cache' = Remembered(part[q], run[q])
    /\ UNCHANGED <<parent, runs, unsubmitted, row, partDoc, merged, manifest, locals, crashes>>

\* Queue mode: a worker process dies, and another is started in its place.
Crash(w) ==
    /\ ~Cached
    /\ crashes < MaxCrashes
    /\ pc[w] # "idle"
    /\ pc' = [pc EXCEPT ![w] = "idle"]
    /\ crashes' = crashes + 1
    /\ Forget(w)
    /\ UNCHANGED store

\* recover_timed_out_jobs, run by an idle worker: a claim nobody works under is
\* given back or, when it was the last attempt, the job fails; the refresh that
\* follows is a full one.
Recover(w, p, r, newRow) ==
    /\ Goto(w, "idle", "readParent")
    /\ row[p][r] = "active"
    /\ \A v \in Workers : <<part[v], run[v]>> # <<p, r>>
    /\ row' = [row EXCEPT ![p][r] = newRow]
    /\ UNCHANGED <<parent, runs, unsubmitted, partDoc, merged, manifest, cache, locals, crashes>>

-----------------------------------------------------------------------------
(* refresh_partitioned_parent.                                             *)

ReadParent(q) ==
    /\ Goto(q, "readParent", "readRows")
    /\ parentSeen' = [parentSeen EXCEPT ![q] = parent]
    /\ UNCHANGED <<store, part, run, changed, newState, seen, todo, got, entries, crashes>>

\* _latest_pdf_part_jobs without refresh=True: the cache, when it is there; else
\* the rows are listed, and the next statement puts them into the cache.
FromCache == Cached /\ cache # Empty

ReadRows(q) ==
    LET rows == IF FromCache THEN cache ELSE Latest IN
    /\ Goto(q, "readRows", IF FromCache \/ ~Cached THEN "listMerge" ELSE "assign")
    /\ seen' = [seen EXCEPT ![q] = rows]
    /\ newState' = [newState EXCEPT ![q] = PartitionParentState(rows)]
    /\ UNCHANGED <<store, part, run, changed, parentSeen, todo, got, entries, crashes>>

Assign(q, from, to) ==
    /\ Goto(q, from, to)
    /\ cache' = seen[q]
    /\ UNCHANGED <<parent, runs, unsubmitted, row, partDoc, merged, manifest, locals, crashes>>

\* An incremental refresh does nothing for a part that is not done.
NothingToMerge(q) ==
    /\ changed[q]
    /\ part[q] \notin DoneIn(seen[q])
    /\ Goto(q, "listMerge", "setParent")
    /\ UNCHANGED <<store, locals, crashes>>

\* _merged_partition_artifacts lists the rows again, and takes the parts that
\* are done, or the changed one of them.
ListMerge(q) ==
    LET rows == IF FromCache THEN cache ELSE Latest
        wanted == IF changed[q] THEN {part[q]} ELSE Parts IN
    /\ changed[q] => part[q] \in DoneIn(seen[q])
    /\ Goto(q, "listMerge", IF FromCache \/ ~Cached THEN "collect" ELSE "assignMerge")
    /\ seen' = [seen EXCEPT ![q] = rows]
    /\ todo' = [todo EXCEPT ![q] = DoneIn(rows) \cap wanted]
    /\ UNCHANGED <<store, part, run, changed, parentSeen, newState, got, entries, crashes>>

Collect(q, p) ==
    /\ pc[q] = "collect"
    /\ p \in todo[q]
    /\ \A i \in todo[q] : p <= i
    /\ got' = [got EXCEPT ![q][p] = partDoc[p]]
    /\ todo' = [todo EXCEPT ![q] = @ \ {p}]
    /\ UNCHANGED <<store, pc, part, run, changed, parentSeen, newState, seen, entries, crashes>>

Collected(q) ==
    /\ todo[q] = {}
    /\ Goto(q, "collect", IF changed[q] THEN "replaceBlocks"
                          ELSE IF got[q] = [p \in Parts |-> Nothing] THEN "setParent"
                          ELSE "compare")
    /\ UNCHANGED <<store, locals, crashes>>

\* The incremental form: replace_blocks_by_prefix, replace_chunks_by_prefix, and
\* the index rows of the part together with the whole manifest.
Replace(q, from, to, artifact) ==
    /\ Goto(q, from, to)
    /\ merged' = [merged EXCEPT ![part[q]][artifact] = got[q][part[q]][artifact]]
    /\ UNCHANGED <<parent, runs, unsubmitted, row, partDoc, manifest, cache, locals, crashes>>

\* describe_document
ReadManifest(q) ==
    /\ Goto(q, "readManifest", "replaceIndex")
    /\ entries' = [entries EXCEPT ![q] = manifest]
    /\ UNCHANGED <<store, part, run, changed, parentSeen, newState, seen, todo, got, crashes>>

ReplaceIndex(q) ==
    LET p == part[q] IN
    /\ Goto(q, "replaceIndex", "setParent")
    /\ merged' = [merged EXCEPT ![p].index = got[q][p].chunks]
    /\ manifest' = [entries[q] EXCEPT ![p] = got[q][p].chunks]
    /\ UNCHANGED <<parent, runs, unsubmitted, row, partDoc, cache, locals, crashes>>

\* The full form replaces everything, unless the document would shrink.
Size(of) == Cardinality({p \in Parts : of[p].blocks # 0})

Compare(q) ==
    /\ Goto(q, "compare",
            IF newState[q] = "done" \/ Size(got[q]) >= Size(merged)
              THEN "saveBlocks" ELSE "setParent")
    /\ UNCHANGED <<store, locals, crashes>>

SaveAll(q, from, to, artifact) ==
    /\ Goto(q, from, to)
    /\ merged' = [p \in Parts |-> [merged[p] EXCEPT ![artifact] = got[q][p][artifact]]]
    /\ UNCHANGED <<parent, runs, unsubmitted, row, partDoc, manifest, cache, locals, crashes>>

Upsert(q) ==
    /\ Goto(q, "upsert", "setParent")
    /\ merged' = [p \in Parts |-> [merged[p] EXCEPT !.index = got[q][p].chunks]]
    /\ manifest' = [p \in Parts |-> got[q][p].chunks]
    /\ UNCHANGED <<parent, runs, unsubmitted, row, partDoc, cache, locals, crashes>>

\* The parent's row is written when its state, as read at the start, differs.
SetParent(q) ==
    /\ Goto(q, "setParent", "idle")
    /\ parent' = IF parentSeen[q] # newState[q] THEN newState[q] ELSE parent
    /\ unsubmitted' = IF q = Api THEN {} ELSE unsubmitted
    /\ Forget(q)
    /\ UNCHANGED <<runs, row, partDoc, merged, manifest, cache, crashes>>

RefreshStep(q) ==
    \/ ReadParent(q)
    \/ ReadRows(q)
    \/ Assign(q, "assign", "listMerge")
    \/ NothingToMerge(q)
    \/ ListMerge(q)
    \/ Assign(q, "assignMerge", "collect")
    \/ \E p \in Parts : Collect(q, p)
    \/ Collected(q)
    \/ Replace(q, "replaceBlocks", "replaceChunks", "blocks")
    \/ Replace(q, "replaceChunks", "readManifest", "chunks")
    \/ ReadManifest(q)
    \/ ReplaceIndex(q)
    \/ Compare(q)
    \/ SaveAll(q, "saveBlocks", "saveChunks", "blocks")
    \/ SaveAll(q, "saveChunks", "upsert", "chunks")
    \/ Upsert(q)
    \/ SetParent(q)

-----------------------------------------------------------------------------
(* The calls of the API.                                                   *)

\* start_pdf_part_jobs: the parent's row, pending at first, ...
Plan ==
    /\ parent = "absent"
    /\ Goto(Api, "idle", "partial")
    /\ parent' = "pending"
    /\ UNCHANGED <<runs, unsubmitted, row, partDoc, merged, manifest, cache, locals, crashes>>

\* The parent is put into an active state, as if it could be executed.
BadPartial ==
    /\ Goto(Api, "partial", "createParts")
    /\ parent' = "parsing"
    /\ UNCHANGED <<runs, unsubmitted, row, partDoc, merged, manifest, cache, locals, crashes>>

Partial ==
    /\ Goto(Api, "partial", "createParts")
    /\ parent' = "partial"
    /\ UNCHANGED <<runs, unsubmitted, row, partDoc, merged, manifest, cache, locals, crashes>>

\* The insert of a part job, and its entry in the cache.
CreateJob(p) ==
    /\ runs' = [runs EXCEPT ![p] = @ + 1]
    /\ row' = [row EXCEPT ![p][runs[p] + 1] = "pending"]
    /\ cache' = IF Cached THEN [cache EXCEPT ![p] = <<runs[p] + 1, "pending">>] ELSE cache
    /\ unsubmitted' = IF Cached THEN unsubmitted \cup {<<p, runs[p] + 1>>} ELSE {}
    /\ UNCHANGED <<parent, partDoc, merged, manifest>>

\* ... then the jobs of the parts, one after the other, and a refresh.
CreatePart(p) ==
    /\ pc[Api] = "createParts"
    /\ runs[p] = 0
    /\ \A i \in 1..(p - 1) : runs[i] # 0
    /\ CreateJob(p)
    /\ pc' = [pc EXCEPT ![Api] = IF p = NumParts THEN "readParent" ELSE "createParts"]
    /\ UNCHANGED <<locals, crashes>>

Planned == parent # "absent" /\ \A p \in Parts : runs[p] # 0

\* rerun_pdf_part: a new job for the part, whatever the state of the others.
Rerun(p) ==
    /\ Planned
    /\ runs[p] < MaxRuns
    /\ Goto(Api, "idle", "readParent")
    /\ CreateJob(p)
    /\ UNCHANGED <<locals, crashes>>

\* partition_parts_for_document, behind every read of the parts: it lists the
\* rows and puts what it has read into the cache.
ViewRows ==
    /\ Cached /\ Views
    /\ Planned
    /\ Goto(Api, "idle", "viewAssign")
    /\ seen' = [seen EXCEPT ![Api] = Latest]
    /\ UNCHANGED <<store, part, run, changed, parentSeen, newState, todo, got, entries, crashes>>

ViewAssign ==
    /\ Goto(Api, "viewAssign", "idle")
    /\ cache' = seen[Api]
    /\ Forget(Api)
    /\ UNCHANGED <<parent, runs, unsubmitted, row, partDoc, merged, manifest, crashes>>

\* cancel_pdf_part: the rows are listed, and a part seen pending is marked
\* cancelled, whatever has happened to it since (in inline mode the runner's lock
\* keeps it from being started in between).
CancelRows(p) ==
    /\ Cancels
    /\ Planned
    /\ LatestState(p) = "pending"
    /\ Goto(Api, "idle", IF Cached THEN "cancelAssign" ELSE "cancelWrite")
    /\ seen' = [seen EXCEPT ![Api] = Latest]
    /\ part' = [part EXCEPT ![Api] = p]
    /\ run' = [run EXCEPT ![Api] = runs[p]]
    /\ UNCHANGED <<store, changed, parentSeen, newState, todo, got, entries, crashes>>

CancelWrite ==
    /\ Goto(Api, "cancelWrite", "remember")
    /\ row' = [row EXCEPT ![part[Api]][run[Api]] = "cancelled"]
    /\ UNCHANGED <<parent, runs, unsubmitted, partDoc, merged, manifest, cache, locals, crashes>>

-----------------------------------------------------------------------------
ExecuteStep(w) ==
    \/ \E p \in Parts, r \in Runs : Claim(w, p, r)
    \/ SavePart(w, "saveBlocksOfPart", "saveChunksOfPart", "blocks")
    \/ SavePart(w, "saveChunksOfPart", "finish", "chunks")
    \/ FinishPart(w)
    \/ LoseClaim(w)
    \/ Crash(w)
    \/ \E newRow \in {"pending", "failed"} :
         \/ FailPart(w, newRow)
         \/ \E p \in Parts, r \in Runs : Recover(w, p, r, newRow)

ApiStep ==
    \/ Plan
    \/ Partial
    \/ \E p \in Parts : CreatePart(p) \/ Rerun(p) \/ CancelRows(p)
    \/ ViewRows
    \/ ViewAssign
    \/ Assign(Api, "cancelAssign", "cancelWrite")
    \/ CancelWrite

Next ==
    \/ \E w \in Workers : ExecuteStep(w)
    \/ ApiStep
    \/ \E q \in Procs : Remember(q) \/ RefreshStep(q)

Spec == Init /\ [][Next]_vars

-----------------------------------------------------------------------------
(* Properties.                                                             *)

PartRows == {"absent", "pending", "active", "done"} \cup Failed
ParentStates == {"absent", "pending", "partial", "done", "failed"}
Listings == [Parts -> (0..MaxRuns) \X PartRows]
PartDocs == [blocks : 0..MaxRuns, chunks : 0..MaxRuns]
MergedParts == [blocks : 0..MaxRuns, chunks : 0..MaxRuns, index : 0..MaxRuns]

StoreOK ==
    /\ parent \in ParentStates
    /\ runs \in [Parts -> 0..MaxRuns]
    /\ unsubmitted \subseteq Parts \X Runs
    /\ row \in [Parts -> [Runs -> PartRows]]
    /\ partDoc \in [Parts -> PartDocs]
    /\ merged \in [Parts -> MergedParts]
    /\ manifest \in [Parts -> 0..MaxRuns]
    /\ cache \in Listings
ControlOK ==
    /\ pc \in [Procs -> Execute \cup Calls \cup Refresh]
    /\ \A w \in Workers : pc[w] \in Execute \cup Refresh
    /\ pc[Api] \in Calls \cup Refresh
    /\ crashes \in 0..MaxCrashes
LocalsOK ==
    /\ part \in [Procs -> Parts \cup {NoPart}]
    /\ run \in [Procs -> 0..MaxRuns]
    /\ changed \in [Procs -> BOOLEAN]
    /\ parentSeen \in [Procs -> ParentStates] /\ newState \in [Procs -> ParentStates]
    /\ seen \in [Procs -> Listings]
    /\ todo \in [Procs -> SUBSET Parts]
    /\ got \in [Procs -> [Parts -> PartDocs]]
    /\ entries \in [Procs -> [Parts -> 0..MaxRuns]]
TypeOK == StoreOK /\ ControlOK /\ LocalsOK

\* Nobody executes a part, refreshes the parent or is in a call.
Quiet == \A q \in Procs : pc[q] = "idle"

\* When nothing is under way, the parent's state is the one its parts give:
\* every step that changed a part was followed by a refresh that saw it.
ParentAgrees == Quiet /\ Planned => parent = PartitionParentState(Latest)

\* When nothing is under way, the parent holds the blocks, the chunks and the
\* index rows of the latest run of every part that is done: no refresh was
\* skipped, and none overwrote what a later one had written.
MergedIsLatest ==
    Quiet => \A p \in Parts :
        LatestState(p) = "done" =>
            merged[p] = [blocks |-> runs[p], chunks |-> runs[p], index |-> runs[p]]

\* ... and its manifest lists the chunks of each of them: no refresh lost the
\* entry another one wrote between describe_document and the replacement.
ManifestIsComplete ==
    Quiet => \A p \in Parts : LatestState(p) = "done" => manifest[p] = runs[p]

\* Concurrent refreshes leave the parent as one refresh would: at rest, its row says
\* what the rows of its parts add up to (runtime.py, _partition_parent_state), and what was
\* merged of a part is what its latest run stored.
RefreshesAgree == ParentAgrees /\ MergedIsLatest

\* r is the last run of the part that was done.
Artifacts == {"blocks", "chunks", "index"}
NewestDone(p, r) ==
    r \in Runs /\ row[p][r] = "done" /\ \A i \in Runs : row[p][i] = "done" => i <= r

\* What an executor puts into the parent, when it merges the part it has finished or all
\* of them after a failure, is of the newest finished run of each part, or takes the part
\* away: nothing of an older run, and nothing of one that failed or has not ended,
\* although the API creates reruns, cancels and lists parts, refills the cache and
\* refreshes the parent at the same time (refresh_partitioned_parent,
\* _latest_pdf_part_jobs).  It takes inline mode and one executor per document,
\* max_active_parts_per_doc = 1; of the API's own refreshes it is not true.
MergesNewest ==
    pc'[Api] = pc[Api] =>
        \A p \in Parts, a \in Artifacts :
            merged'[p][a] \notin {0, merged[p][a]} => NewestDone(p, merged'[p][a])
ExecutorMergesNewest == [][MergesNewest]_vars

\* The parent is not done before every planned part has been done once, those
\* whose jobs are still to be inserted included.
DoneMeansAllParts ==
    parent = "done" => \A p \in Parts : \E r \in Runs : row[p][r] = "done"

\* Nothing of a part that was never done is in the parent, though failed and
\* interrupted attempts leave blocks and chunks in the part's own document, and stale
\* rows are read when the parts are merged.  (In queue mode a part that is done may
\* still be cancelled, see CancelRows.)
OnlyDonePartsAreMerged ==
    \A p \in Parts :
        merged[p] # [blocks |-> 0, chunks |-> 0, index |-> 0] \/ manifest[p] # 0 =>
            \E r \in Runs : row[p][r] \in {"done"} \cup (IF Cached THEN {} ELSE {"cancelled"})

\* In queue mode the first parts may be done before the other jobs are inserted, and the
\* parent counts as done.  It does not stay so: once no job is left, a parent that is done
\* has only parts that are, unless a worker died or a part was cancelled meanwhile
\* (start_pdf_part_jobs, refresh_partitioned_parent; with one worker, see README).
EarlyDoneEnds ==
    Quiet /\ Planned /\ crashes = 0 /\ (\A p \in Parts : LatestState(p) \in {"done", "failed"}) =>
        (parent = "done" => \A p \in Parts : LatestState(p) = "done")

\* Only parts that are done are merged into the parent, and in inline mode, where no
\* job runs before all of them are inserted, all of them have to be done for it to be
\* (refresh_partitioned_parent, _partition_parent_state).
OnlyDoneCounts == OnlyDonePartsAreMerged /\ (Cached => DoneMeansAllParts)
=============================================================================
