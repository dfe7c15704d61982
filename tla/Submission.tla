----------------------------- MODULE Submission -----------------------------
(***************************************************************************)
(* How work enters the system: the handlers of api_routes.py that write a   *)
(* file and create a job, the quota check of ParseRuntime.start, and what   *)
(* becomes of the file.  Several API processes share one job store and one  *)
(* object store.  A handler runs on the event loop of its process, so that  *)
(* one request at a time is between its statements there; other processes  *)
(* and the workers run meanwhile.                                           *)
(*                                                                          *)
(* The limit on jobs in flight and the runner's queue are InlineRunner's,   *)
(* claims and leases JobQueue's: here a runner either takes a job or        *)
(* refuses it, and a job that is claimed ends.                              *)
(***************************************************************************)
EXTENDS Integers, Sequences, FiniteSets, SequencesExt

CONSTANTS
    Procs,         \* API processes
    Inline,        \* execution_mode is "inline", otherwise "queue-worker"
    Limits,        \* quota_limits of the configuration: patterns to units
    Default,       \* quota_default_limit_units
    Units,         \* the quota_units of requests
    MaxAttempts,   \* max_attempts
    MaxRows, MaxFiles   \* bounds of the model

VARIABLES
    rows,      \* the job rows of one tenant and quota key, oldest first
    files,     \* the files in the object store: id and whether they are old
    expired,   \* the ids that a cleanup has removed
    lastFile,  \* the id of the newest file
    pc, req,   \* what the handler of a process does next, for which request
    reading    \* processes whose stage_upload waits for the body

submitVars == <<rows, files, expired, lastFile, pc, req, reading>>

Kinds == {"create", "stage", "sync", "rerun", "parent"}
States == {"pending", "parsing", "partial", "done", "failed"}
NoFile == 0
Idle == [kind |-> "create", file |-> NoFile, units |-> 1, row |-> 0]

Row(kind, file, units) ==
    [kind |-> kind, file |-> file, units |-> units, st |-> "pending", tries |-> 0]
Stored(f) == \E x \in files : x.id = f

\* _resolve_quota_limit: the first pattern that the configuration has.
Candidates == <<"tenant:key", "tenant:*", "*:key", "*:*">>
QuotaLimit ==
    LET known == {i \in 1..4 : Candidates[i] \in DOMAIN Limits}
    IN  IF known = {} THEN Default
        ELSE Limits[Candidates[CHOOSE i \in known : \A k \in known : i <= k]]

UnitsOf(s) == FoldSeq(LAMBDA r, n : n + r.units, 0, s)

\* quota_usage, for a window that no job has left: jobs count whatever became of
\* them, those of parts too.
Used(s) == UnitsOf(s)

\* _check_quota_limit.
WithinQuota(units) == QuotaLimit <= 0 \/ Used(rows) + units <= QuotaLimit

SubmitInit ==
    /\ rows = <<>> /\ files = {} /\ expired = {} /\ lastFile = 0
    /\ pc = [p \in Procs |-> "idle"] /\ req = [p \in Procs |-> Idle]
    /\ reading = {}

-----------------------------------------------------------------------------
(* The handlers, up to the quota check. *)

Start(p, kind, file, units) ==
    /\ pc' = [pc EXCEPT ![p] = "create"]
    /\ req' = [req EXCEPT ![p] = [kind |-> kind, file |-> file, units |-> units, row |-> 0]]

Refuse(p) == pc' = [pc EXCEPT ![p] = "idle"] /\ req' = [req EXCEPT ![p] = Idle]

\* create_job for a file of the object store, whose path stage_upload gave to the
\* client; _resolve_api_file_path refuses others, and a request over the limit
\* ends here.
CreateJob(p, x, u) ==
    /\ pc[p] = "idle" /\ x.dir = "uploads"
    /\ WithinQuota(u) /\ Start(p, "create", x.id, u)
    /\ UNCHANGED <<rows, files, expired, lastFile, reading>>

NewFile(dir) == [id |-> lastFile + 1, dir |-> dir, old |-> FALSE]

\* _persist_upload_file: the directory of a synchronous upload.
UploadDir == IF Inline THEN "transient" ELSE "uploads"

\* parse_upload and parse_batch: the file is written before the quota is
\* checked, and deleted at the end unless the mode is queue-worker.
SyncUpload(p, u) ==
    /\ pc[p] = "idle" /\ lastFile < MaxFiles
    /\ lastFile' = lastFile + 1
    /\ files' = files \cup {NewFile(UploadDir)}
    /\ IF WithinQuota(u) THEN Start(p, "sync", lastFile + 1, u)
       ELSE /\ pc' = [pc EXCEPT ![p] = "unlink"]
            /\ req' = [req EXCEPT ![p] = [kind |-> "sync", file |-> lastFile + 1,
                                          units |-> u, row |-> 0]]
    /\ UNCHANGED <<rows, expired, reading>>

\* _cleanup_expired_staged_uploads: what it removes.
Expired == {x \in files : x.dir = "uploads" /\ x.old}

\* stage_upload begins with the cleanup, and then waits for the body.
StageArrives(p) ==
    /\ pc[p] = "idle" /\ p \notin reading
    /\ reading' = reading \cup {p}
    /\ files' = files \ Expired
    /\ expired' = expired \cup {x.id : x \in Expired}
    /\ UNCHANGED <<rows, lastFile, pc, req>>

\* The file stays, whether a job is wanted, created or refused.
StageUpload(p, u, wanted) ==
    /\ pc[p] = "idle" /\ p \in reading /\ lastFile < MaxFiles
    /\ reading' = reading \ {p}
    /\ lastFile' = lastFile + 1
    /\ files' = files \cup {NewFile("uploads")}
    /\ IF wanted /\ WithinQuota(u) THEN Start(p, "stage", lastFile + 1, u)
       ELSE UNCHANGED <<pc, req>>
    /\ UNCHANGED <<rows, expired>>

\* reparse, rechunk and reembed start the request of the latest job again, also
\* if its file is gone (_request_with_source_integrity notes it as missing).
\* start_pdf_part_jobs starts a parent with the request of the latest job.
Rerun(p, kind) ==
    /\ pc[p] = "idle" /\ rows # <<>>
    /\ LET last == rows[Len(rows)] IN
         /\ kind = "parent" => last.kind # "part" /\ Stored(last.file)
         /\ WithinQuota(last.units)
         /\ Start(p, kind, last.file, last.units)
    /\ UNCHANGED <<rows, files, expired, lastFile, reading>>

-----------------------------------------------------------------------------
(* The row, and what follows. *)

\* job_store.create.  A parent becomes partial and gets the rows of its parts,
\* for which no quota is asked (one part here).
Create(p) ==
    /\ pc[p] = "create" /\ Len(rows) < MaxRows
    /\ rows' = rows \o
         (IF req[p].kind = "parent"
          THEN << [Row("parent", req[p].file, req[p].units) EXCEPT !.st = "partial"],
                  Row("part", NoFile, req[p].units) >>
          ELSE << Row(req[p].kind, req[p].file, req[p].units) >>)
    /\ IF req[p].kind = "sync"
       THEN /\ pc' = [pc EXCEPT ![p] = "execute"]
            /\ req' = [req EXCEPT ![p].row = Len(rows) + 1]
       ELSE Refuse(p)
    /\ UNCHANGED <<files, expired, lastFile, reading>>

Claim(j) ==
    /\ rows[j].st = "pending"
    /\ rows' = [rows EXCEPT ![j].st = "parsing", ![j].tries = @ + 1]

\* The outcomes of an execution: without its file it fails, and a failure is
\* retried in queue-worker mode only.
Outcomes(j) ==
    (IF rows[j].file = NoFile \/ Stored(rows[j].file) THEN {"done"} ELSE {}) \cup
    (IF Inline \/ rows[j].tries >= MaxAttempts THEN {"failed"} ELSE {"pending"})

\* runtime.submit goes on with execute, which claims the row; a worker may have
\* been faster, and the handler answers 400.
Execute(p) ==
    /\ pc[p] = "execute"
    /\ IF rows[req[p].row].st = "pending"
       THEN Claim(req[p].row) /\ pc' = [pc EXCEPT ![p] = "finish"]
       ELSE pc' = [pc EXCEPT ![p] = "unlink"] /\ UNCHANGED rows
    /\ UNCHANGED <<files, expired, lastFile, req, reading>>

Finish(p) ==
    /\ pc[p] = "finish"
    /\ \E st \in Outcomes(req[p].row) : rows' = [rows EXCEPT ![req[p].row].st = st]
    /\ pc' = [pc EXCEPT ![p] = "unlink"]
    /\ UNCHANGED <<files, expired, lastFile, req, reading>>

\* Every upload is deleted once its request is answered.
BadKept(f) == {x \in files : x.id # f}

\* The finally of the handler: delete_after_submit.
Kept(f) == IF Inline THEN {x \in files : x.id # f} ELSE files

Unlink(p) ==
    /\ pc[p] = "unlink"
    /\ files' = Kept(req[p].file)
    /\ Refuse(p)
    /\ UNCHANGED <<rows, expired, lastFile, reading>>

\* A thread of the inline runner, or a worker.  The inline runner is given the
\* jobs of its own handlers, and a synchronous one only executes in its handler.
MayTake(j) == Inline => rows[j].kind # "sync"
Take(j) == MayTake(j) /\ Claim(j) /\ UNCHANGED <<files, expired, lastFile, pc, req, reading>>
End(j) ==
    /\ rows[j].st = "parsing"
    /\ \A p \in Procs : pc[p] = "finish" => req[p].row # j
    /\ \E st \in Outcomes(j) : rows' = [rows EXCEPT ![j].st = st]
    /\ UNCHANGED <<files, expired, lastFile, pc, req, reading>>

\* staged_upload_retention_seconds pass.
Age(x) ==
    /\ x.dir = "uploads" /\ ~x.old
    /\ files' = (files \ {x}) \cup {[x EXCEPT !.old = TRUE]}
    /\ UNCHANGED <<rows, expired, lastFile, pc, req, reading>>

SubmitNext ==
    \/ \E p \in Procs :
         \/ \E x \in files, u \in Units : CreateJob(p, x, u)
         \/ \E u \in Units : SyncUpload(p, u)
         \/ StageArrives(p)
         \/ \E u \in Units, wanted \in BOOLEAN : StageUpload(p, u, wanted)
         \/ \E kind \in {"rerun", "parent"} : Rerun(p, kind)
         \/ Create(p) \/ Execute(p) \/ Finish(p) \/ Unlink(p)
    \/ \E j \in DOMAIN rows : Take(j) \/ End(j)
    \/ \E x \in files : Age(x)

SubmitSpec == SubmitInit /\ [][SubmitNext]_submitVars

-----------------------------------------------------------------------------
(* What must hold. *)

SubmitTypeOK ==
    /\ rows \in Seq([kind : Kinds \cup {"part"}, file : 0..MaxFiles, units : Units,
                     st : States, tries : 0..MaxAttempts])
    /\ files \subseteq [id : 1..MaxFiles, dir : {"transient", "uploads"}, old : BOOLEAN]
    /\ expired \subseteq 1..lastFile
    /\ pc \in [Procs -> {"idle", "create", "execute", "finish", "unlink"}]
    /\ reading \subseteq Procs

\* The check and the creation of the row are two statements (runtime.py, start),
\* so that the limit can be passed; but only by the requests that the other
\* processes have between the two.  Parts are not asked and not counted here,
\* although they use the quota up for later requests.
OverrunIsBounded ==
    LET asked == SelectSeq(rows, LAMBDA r : r.kind # "part")
        most == CHOOSE u \in Units : \A v \in Units : v <= u
    IN  QuotaLimit > 0 =>
            UnitsOf(asked) <= QuotaLimit + (Cardinality(Procs) - 1) * most

\* Whoever executes a job finds its file, or a cleanup has removed it after its
\* retention, or it is a rerun (or a parent) of a job whose file was deleted:
\* retries and the workers of the queue never meet a file that the handler took
\* away, although both kinds of upload go through the same code.
FilesOutliveTheirJobs ==
    \A j \in DOMAIN rows :
        /\ rows[j].st \in {"pending", "parsing"} /\ rows[j].file # NoFile
        /\ rows[j].kind # "rerun"
        => Stored(rows[j].file) \/ rows[j].file \in expired

\* A transient file belongs to a request that is still being answered.
TransientsAreOwned ==
    \A x \in files : x.dir = "transient" =>
        \E p \in Procs : pc[p] # "idle" /\ req[p].kind = "sync" /\ req[p].file = x.id
=============================================================================
