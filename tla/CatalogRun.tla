----------------------------- MODULE CatalogRun -----------------------------
(***************************************************************************)
(* A catalog run (catalog_runs.py): a directory with a ledger of parts, one *)
(* directory per attempt of a part, an audit report and a manifest.  Calls  *)
(* of execute_catalog_run are processes that hold the ledger in memory,     *)
(* write all of it to the disk after every change and let a process pool    *)
(* execute the parts.  Nothing locks the directory: two calls may overlap,  *)
(* and a call may be killed between any two writes while the processes of   *)
(* its pool live on.                                                        *)
(*                                                                          *)
(* The SHA-256 of a checkpoint is represented by the number of the call     *)
(* that wrote it (it contains times, so no two checkpoints are equal).      *)
(***************************************************************************)
EXTENDS Integers, FiniteSets, Sequences, TLC

CONSTANTS
    NumParts,      \* the parts are 1..NumParts, in the order of part_index
    Pids,          \* process ids the calls may run under
    MaxActive,     \* maxActivePartsPerDoc, 1 or 2
    MaxCalls,      \* bound of the model: calls of execute_catalog_run
    MaxFaults      \* bound of the model: kills of calls and pool processes

Parts == 1..NumParts

ASSUME CatalogAssumption ==
    /\ NumParts \in Nat \ {0} /\ MaxActive \in 1..2
    /\ MaxCalls \in Nat /\ MaxFaults \in Nat

VARIABLES
    \* ---- the disk
    ledger,        \* the parts of run-ledger.json
    temps,         \* pids whose temporary ledger file was left behind
    dirs,          \* attempt directories
    report,        \* the audit report, if it passed
    manifest,      \* manifest.json
    \* ---- the processes
    co,            \* the locals of the call of execute_catalog_run in a process
    orphans,       \* the tasks of pool processes whose call was killed
    \* ---- history and bounds
    overlapped, calls, faults

disk == <<ledger, temps, dirs, report, manifest>>
bounds == <<overlapped, calls, faults>>
vars == <<disk, co, orphans, bounds>>

\* Nothing orders the processes; used where no liveness property is checked.
PidSymmetry == Permutations(Pids)

Attempts == 0..MaxCalls
Ledgers == [Parts -> [st : {"pending", "running", "done", "failed"},
                      tries : Attempts, at : Attempts, sha : 0..MaxCalls]]
Tasks == [part : Parts, attempt : Attempts, by : 1..MaxCalls,
          st : {"queued", "running", "ok", "error"}]
NoLedger == [p \in Parts |-> [st |-> "pending", tries |-> 0, at |-> 0, sha |-> 0]]
NoReport == [passed |-> FALSE, full |-> FALSE, ledger |-> NoLedger]
NoManifest == [written |-> FALSE, shards |-> NoLedger, audited |-> NoLedger]

\* The locals: the next statement, the statement after the save under way, the
\* number of the call, its ledger, selected_queue, the tasks submitted and not
\* looked at, the futures the last wait() returned, whether the deadline has
\* passed and whether the pool is broken.
Idle == [pc |-> "idle", then |-> "idle", call |-> 0, mem |-> NoLedger,
         queue |-> <<>>, futures |-> {}, batch |-> {}, late |-> FALSE,
         broken |-> FALSE]

TypeOK ==
    /\ ledger \in Ledgers /\ temps \subseteq Pids
    /\ dirs \in [Parts \X Attempts ->
                    [st : {"absent", "open", "complete"}, by : 0..MaxCalls]]
    /\ report \in [passed : BOOLEAN, full : BOOLEAN, ledger : Ledgers]
    /\ manifest \in [written : BOOLEAN, shards : Ledgers, audited : Ledgers]
    /\ \A c \in Pids :
         /\ DOMAIN co[c] = DOMAIN Idle
         /\ co[c].pc \in {"idle", "select", "save", "replace", "loop", "submit",
                          "batch", "shutdown"}
         /\ co[c].then \in {"select", "submit", "batch", "idle"}
         /\ co[c].call \in 0..MaxCalls
         /\ co[c].mem \in Ledgers
         /\ co[c].queue \in Seq(Parts)
         /\ co[c].futures \subseteq Tasks /\ co[c].batch \subseteq co[c].futures
         /\ co[c].late \in BOOLEAN /\ co[c].broken \in BOOLEAN
    /\ orphans \subseteq Tasks
    /\ overlapped \in BOOLEAN
    /\ calls \in 0..MaxCalls /\ faults \in 0..MaxFaults

Init ==
    /\ ledger = NoLedger /\ temps = {}
    /\ dirs = [a \in Parts \X Attempts |-> [st |-> "absent", by |-> 0]]
    /\ report = NoReport /\ manifest = NoManifest
    /\ co = [c \in Pids |-> Idle] /\ orphans = {}
    /\ overlapped = FALSE /\ calls = 0 /\ faults = 0

-----------------------------------------------------------------------------
(* The ledger. *)

\* _refresh_ledger_summary: the state of the run that a ledger stands for.
RunState(l) ==
    LET some(s) == \E p \in Parts : l[p].st = s
    IN  IF \A p \in Parts : l[p].st = "done" THEN "completed"
        ELSE IF some("running") THEN "running"
        ELSE IF some("done") \/ some("failed") THEN "partial" ELSE "planned"

\* recover_interrupted_catalog_parts.
Recovered(l) ==
    [p \in Parts |-> IF l[p].st = "running"
                     THEN [l[p] EXCEPT !.st = "pending"] ELSE l[p]]

\* A resumption that executes everything that is not running.
BadEligible(l, failedOnly) ==
    {p \in Parts : l[p].st \in IF failedOnly THEN {"failed"}
                               ELSE {"pending", "failed", "done"}}

\* select_catalog_parts, without its order and max_parts.
Eligible(l, failedOnly) ==
    {p \in Parts : l[p].st \in IF failedOnly THEN {"failed"}
                               ELSE {"pending", "failed"}}

\* The sequence of the elements of s, in order (the only one there is).
InOrder(s) ==
    {q \in [1..Cardinality(s) -> s] : \A i, j \in DOMAIN q : i < j => q[i] < q[j]}

-----------------------------------------------------------------------------
(* A call of execute_catalog_run. *)

Min2(a, b) == IF a < b THEN a ELSE b
Finished(t) == {f \in t.futures : f.st \in {"ok", "error"}}
CannotLaunch(t) ==
    t.queue = <<>> \/ Cardinality(t.futures) = MaxActive \/ t.late

\* The locals of c become t; a save is under way that goes on at label.
Becomes(c, t) == co' = [co EXCEPT ![c] = t]
Saving(t, label) == [t EXCEPT !.pc = "save", !.then = label]
At(t, label) == IF label = "idle" THEN Idle ELSE [t EXCEPT !.pc = label]

\* The head of the call: load_catalog_run, the refusals, the recovery with
\* its save, and what will be selected.
Call(c, resume, failedOnly) ==
    LET interrupted == \E p \in Parts : ledger[p].st = "running"
        eligible == Eligible(Recovered(ledger), failedOnly)
    IN  /\ co[c].pc = "idle" /\ calls < MaxCalls
        /\ interrupted => resume
        /\ RunState(ledger) # "planned" => resume \/ failedOnly
        /\ calls' = calls + 1
        /\ overlapped' = (overlapped \/ \E d \in Pids : co[d].pc # "idle")
        /\ \E n \in 1..NumParts, found \in InOrder(eligible) :       \* n is max_parts
             LET t == [Idle EXCEPT !.call = calls + 1, !.mem = Recovered(ledger),
                                   !.queue = SubSeq(found, 1, Min2(n, Len(found)))]
             IN  Becomes(c, IF interrupted THEN Saving(t, "select") ELSE At(t, "select"))
        /\ UNCHANGED <<disk, orphans, faults>>

\* "no eligible parts" returns at once, otherwise the pool is made.
Select(c) ==
    /\ co[c].pc = "select"
    /\ Becomes(c, At(co[c], IF co[c].queue = <<>> THEN "idle" ELSE "loop"))
    /\ UNCHANGED <<disk, orphans, bounds>>

\* _atomic_write_bytes opens its temporary file with "xb": a file that a
\* killed process of the same pid left behind makes it raise.
SaveTemp(c) ==
    /\ co[c].pc = "save"
    /\ IF c \in temps
       THEN /\ Becomes(c, At(co[c], IF co[c].then = "select" THEN "idle" ELSE "shutdown"))
            /\ UNCHANGED temps
       ELSE Becomes(c, At(co[c], "replace")) /\ temps' = temps \cup {c}
    /\ UNCHANGED <<ledger, dirs, report, manifest, orphans, bounds>>

SaveReplace(c) ==
    /\ co[c].pc = "replace"
    /\ ledger' = co[c].mem /\ temps' = temps \ {c}
    /\ Becomes(c, At(co[c], co[c].then))
    /\ UNCHANGED <<dirs, report, manifest, orphans, bounds>>

\* The inner loop marks the next part and saves before it submits.
Launch(c) ==
    LET p == Head(co[c].queue)
        marked == [co[c].mem[p] EXCEPT !.st = "running", !.tries = @ + 1]
    IN  /\ co[c].pc = "loop" /\ ~CannotLaunch(co[c])
        /\ Becomes(c, Saving([co[c] EXCEPT !.mem[p] = marked], "submit"))
        /\ UNCHANGED <<disk, orphans, bounds>>

\* executor.submit; a broken pool raises, and the finally clause shuts it down.
Submit(c) ==
    LET p == Head(co[c].queue)
        task == [part |-> p, attempt |-> co[c].mem[p].tries, by |-> co[c].call,
                 st |-> "queued"]
    IN  /\ co[c].pc = "submit"
        /\ Becomes(c, IF co[c].broken THEN At(co[c], "shutdown")
                      ELSE [co[c] EXCEPT !.pc = "loop", !.queue = Tail(@),
                                         !.futures = @ \cup {task}])
        /\ UNCHANGED <<disk, orphans, bounds>>

\* wait(active, FIRST_COMPLETED).
Wait(c) ==
    /\ co[c].pc = "loop" /\ CannotLaunch(co[c]) /\ Finished(co[c]) # {}
    /\ Becomes(c, [co[c] EXCEPT !.pc = "batch", !.batch = Finished(co[c])])
    /\ UNCHANGED <<disk, orphans, bounds>>

\* The body of "for future in done".
Collect(c) ==
    /\ co[c].pc = "batch"
    /\ \/ co[c].batch = {} /\ Becomes(c, At(co[c], "loop"))
       \/ \E f \in co[c].batch :
            Becomes(c, Saving([co[c] EXCEPT
                !.futures = @ \ {f}, !.batch = @ \ {f},
                !.mem[f.part] =
                    IF f.st = "ok"
                    THEN [@ EXCEPT !.st = "done", !.at = f.attempt, !.sha = f.by]
                    ELSE [@ EXCEPT !.st = "failed"]], "batch"))
    /\ UNCHANGED <<disk, orphans, bounds>>

\* A loop that ends only when its queue is empty.
BadBreak(c) ==
    /\ co[c].pc = "loop" /\ co[c].queue = <<>> /\ co[c].futures = {}
    /\ Becomes(c, Saving(co[c], "idle"))
    /\ UNCHANGED <<disk, orphans, bounds>>

\* "if not active: break", the shutdown of the idle pool and the last save.
Break(c) ==
    /\ co[c].pc = "loop" /\ CannotLaunch(co[c]) /\ co[c].futures = {}
    /\ Becomes(c, Saving(co[c], "idle"))
    /\ UNCHANGED <<disk, orphans, bounds>>

\* After an exception: executor.shutdown waits for what runs.  A queued task is
\* dropped, unless a process takes it before.
Shutdown(c) ==
    /\ co[c].pc = "shutdown"
    /\ \A f \in co[c].futures : f.st # "running"
    /\ Becomes(c, Idle)
    /\ UNCHANGED <<disk, orphans, bounds>>

DeadlinePasses(c) ==
    /\ co[c].pc = "loop" /\ ~co[c].late /\ co[c].queue # <<>>
    /\ Becomes(c, [co[c] EXCEPT !.late = TRUE])
    /\ UNCHANGED <<disk, orphans, bounds>>

\* The process of the call is killed.  A save under way leaves its temporary
\* file (SaveTemp has put it there) and the pool processes keep working.
Kill(c) ==
    /\ co[c].pc # "idle" /\ faults < MaxFaults /\ faults' = faults + 1
    /\ orphans' = orphans \cup {f \in co[c].futures : f.st \in {"queued", "running"}}
    /\ Becomes(c, Idle)
    /\ UNCHANGED <<disk, overlapped, calls>>

-----------------------------------------------------------------------------
(* execute_catalog_part_task in a process of the pool. *)

\* mkdir that accepts the directory of somebody else.
BadWork(f, st) ==
    \/ /\ f.st = "queued" /\ st = "running"
       /\ dirs' = [dirs EXCEPT ![<<f.part, f.attempt>>] = [st |-> "open", by |-> f.by]]
    \/ f.st \in {"queued", "running"} /\ st = "error" /\ UNCHANGED dirs
    \/ /\ f.st = "running" /\ st = "ok"
       /\ dirs' = [dirs EXCEPT ![<<f.part, f.attempt>>] = [st |-> "complete", by |-> f.by]]

\* What a process can do with its task f, and the next state of the task: raise
\* because the source is gone or the attempt directory exists; make the directory;
\* fail later; write the artifacts and then the checkpoint.
Work(f, st) ==
    LET dir == dirs[<<f.part, f.attempt>>] IN
    \/ /\ f.st = "queued" /\ dir.st = "absent" /\ st = "running"
       /\ dirs' = [dirs EXCEPT ![<<f.part, f.attempt>>] = [st |-> "open", by |-> f.by]]
    \/ f.st \in {"queued", "running"} /\ st = "error" /\ UNCHANGED dirs
    \/ /\ f.st = "running" /\ st = "ok"
       /\ dirs' = [dirs EXCEPT ![<<f.part, f.attempt>>] = [st |-> "complete", by |-> f.by]]

PoolProcess(c) ==
    /\ \E f \in co[c].futures : \E st \in {"running", "ok", "error"} :
         /\ Work(f, st)
         /\ Becomes(c, [co[c] EXCEPT !.futures = (@ \ {f}) \cup {[f EXCEPT !.st = st]}])
    /\ UNCHANGED <<ledger, temps, report, manifest, orphans, bounds>>

\* A queued task of a killed call may still reach a process, or never.
OrphanProcess ==
    /\ \E f \in orphans : \E st \in {"running", "ok", "error"} :
         /\ Work(f, st)
         /\ orphans' = (orphans \ {f}) \cup
                (IF st = "running" THEN {[f EXCEPT !.st = st]} ELSE {})
    /\ UNCHANGED <<ledger, temps, report, manifest, co, bounds>>

\* A process of the pool dies: BrokenProcessPool for every future.
PoolBreaks(c) ==
    /\ \E f \in co[c].futures : f.st = "running"
    /\ faults < MaxFaults /\ faults' = faults + 1
    /\ Becomes(c, [co[c] EXCEPT !.broken = TRUE, !.futures =
            {IF f.st = "ok" THEN f ELSE [f EXCEPT !.st = "error"] : f \in @}])
    /\ UNCHANGED <<disk, orphans, overlapped, calls>>

-----------------------------------------------------------------------------
(* audit_catalog_run and finalize_catalog_run.  Attempt directories do not   *)
(* change once their checkpoint is complete, so a report says the same       *)
(* whenever, after the load of the ledger, it is written.                    *)

\* The parts that are done are verified against their checkpoints; the
\* records decide freely whether the gates pass.  An audit of a run that is
\* not complete may pass as well; which parts it has verified is kept of a
\* complete one.
Audit ==
    /\ \A p \in Parts : ledger[p].st = "done" => dirs[<<p, ledger[p].at>>].st = "complete"
    /\ \/ report' = NoReport
       \/ /\ \A p \in Parts : ledger[p].st = "done" =>
                  dirs[<<p, ledger[p].at>>].by = ledger[p].sha
          /\ LET full == \A p \in Parts : ledger[p].st = "done"
             IN  report' = [passed |-> TRUE, full |-> full,
                            ledger |-> IF full THEN ledger ELSE NoLedger]
    /\ UNCHANGED <<ledger, temps, dirs, manifest, co, orphans, bounds>>

\* A gate that trusts hardGatePassed alone.
BadGate(r, l) == r.passed /\ RunState(l) = "completed"

\* The checks of finalize_catalog_run on the report and the ledger.
Gate(r, l) == r.passed /\ r.full /\ RunState(l) = "completed"

\* The manifest takes its shards from the ledger.
Finalize ==
    /\ Gate(report, ledger)
    /\ manifest' = [written |-> TRUE, shards |-> ledger, audited |-> report.ledger]
    /\ UNCHANGED <<ledger, temps, dirs, report, co, orphans, bounds>>

-----------------------------------------------------------------------------
Coordinator(c) ==
    \/ Select(c) \/ SaveTemp(c) \/ SaveReplace(c) \/ Launch(c) \/ Submit(c)
    \/ Wait(c) \/ Collect(c) \/ Break(c) \/ Shutdown(c)

Next ==
    \/ \E c \in Pids :
         \/ \E resume, failedOnly \in BOOLEAN : Call(c, resume, failedOnly)
         \/ Coordinator(c) \/ PoolProcess(c)
         \/ DeadlinePasses(c) \/ Kill(c) \/ PoolBreaks(c)
    \/ OrphanProcess
    \/ Audit \/ Finalize

Spec == Init /\ [][Next]_vars

-----------------------------------------------------------------------------
(* What must hold. *)

\* A part that the ledger reports done has a complete checkpoint with the hash
\* the ledger gives, whatever calls overlapped, were killed or left processes
\* behind (attempt directories are made by one task only).
DoneIsBacked ==
    \A p \in Parts : ledger[p].st = "done" =>
        dirs[<<p, ledger[p].at>>] = [st |-> "complete", by |-> ledger[p].sha]

\* As long as calls do not overlap, a task never meets the directory of an
\* earlier attempt, not even that of a call that was killed: the number of the
\* attempt is on the disk before the task exists.
AttemptIsFresh ==
    ~overlapped => \A c \in Pids : \A f \in co[c].futures :
        f.st = "queued" => dirs[<<f.part, f.attempt>>].st = "absent"

\* The state is well typed, and what the ledger says of attempts is what is on
\* the disk.
LedgerMatchesDisk == TypeOK /\ DoneIsBacked /\ AttemptIsFresh

\* As long as calls do not overlap, the result of a part that is done is never
\* given up or replaced.
DoneStaysDone ==
    [][~overlapped' => \A p \in Parts : ledger[p].st = "done" => ledger'[p] = ledger[p]]_vars

\* The shards of a manifest are those that the audit has verified.
ManifestIsAudited ==
    ~overlapped /\ manifest.written => manifest.shards = manifest.audited

\* A call of execute_catalog_run is never stuck: past its deadline, with a
\* broken pool or after a save that raised, the coordinator or a process of
\* its pool can go on.
CallIsNeverStuck ==
    \A c \in Pids : co[c].pc # "idle" => ENABLED (Coordinator(c) \/ PoolProcess(c))
=============================================================================
