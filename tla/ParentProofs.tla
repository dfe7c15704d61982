---------------------------- MODULE ParentProofs ----------------------------
(***************************************************************************)
(* For any number of executors, parts, reruns and crashes, in both modes:   *)
(* nothing of a part that was never done gets into the parent, and in       *)
(* inline mode the parent is not done before all of its parts are.  In the  *)
(* first run of a document whose parts succeed, the parent agrees with its  *)
(* parts whenever nothing is under way.  Where one part of a document is    *)
(* executed at a time, its executor merges the newest finished runs, while  *)
(* parts fail, are run again, cancelled and read.                           *)
(***************************************************************************)
EXTENDS PartitionedParent, TLAPS

USE PartsAssumption, ProcsAssumption

\* Rows exist as far as jobs were created, and a process works on one of these.
RowsExist == \A p \in Parts, r \in Runs : runs[p] < r <=> row[p][r] = "absent"
WorkExists == \A q \in Procs : part[q] \in Parts => run[q] \in 1..runs[part[q]]

\* A part that counts: it has been done, or, in queue mode, was cancelled after that.
Counts(r) == r = "done" \/ (~Cached /\ r = "cancelled")
Counted(p) == \E r \in Runs : Counts(row[p][r])

\* Whatever is stored, read or remembered of a part is of one that counts.
Stored(p) == merged[p] # [blocks |-> 0, chunks |-> 0, index |-> 0] \/ manifest[p] # 0
ReadBy(q, p) == p \in todo[q] \/ got[q][p] # Nothing \/ entries[q][p] # 0
StoredCounts == \A p \in Parts : Stored(p) => Counted(p)
ReadCounts == \A q \in Procs, p \in Parts : ReadBy(q, p) => Counted(p)
Truthful(rows) == \A p \in Parts : rows[p][2] = "done" => Counted(p)
ListedCounts == Truthful(cache) /\ \A q \in Procs : Truthful(seen[q])

\* Inline mode.  Until all parts have a job nobody executes one or refreshes the parent,
Complete == \A p \in Parts : runs[p] # 0
Preparing == {"idle", "partial", "createParts"}
NobodyIsEarly ==
    ~Complete => /\ \A w \in Workers : pc[w] = "idle"
                 /\ pc[Api] \in Preparing
                 /\ \A p \in Parts, r \in Runs :
                        row[p][r] \in {"absent", "pending"} /\ (row[p][r] = "pending" => <<p, r>> \in unsubmitted)

\* the cache, and a listing that is about to become the cache, have all there are,
NoneIsMissing ==
    /\ \A p \in Parts : runs[p] # 0 => cache[p] # <<0, "absent">>
    /\ \A q \in Procs : pc[q] \in {"assign", "assignMerge", "viewAssign", "cancelAssign"} =>
                            \A p \in Parts : seen[q][p] # <<0, "absent">>

\* and a part that is being cancelled waits.
CancelledWaits ==
    pc[Api] \in {"cancelAssign", "cancelWrite"} =>
        part[Api] \in Parts /\ row[part[Api]][run[Api]] = "pending"

\* So a parent that is, or is going to be, done has only parts that count.
DoneIsComplete ==
    \/ \A p \in Parts : Counted(p)
    \/ parent # "done" /\ \A q \in Procs : newState[q] # "done"

Inline == NobodyIsEarly /\ NoneIsMissing /\ CancelledWaits /\ DoneIsComplete

ParentInv ==
    /\ TypeOK /\ RowsExist /\ WorkExists
    /\ StoredCounts /\ ReadCounts /\ ListedCounts
    /\ Cached => Inline

-----------------------------------------------------------------------------
(* Types.                                                                  *)

\* A process moves on to a statement that it has.
LEMMA MoveFits ==
    ASSUME ControlOK, NEW q \in Procs, NEW to, pc' = [pc EXCEPT ![q] = to], UNCHANGED crashes,
           \/ to \in Refresh \cup {"idle", "remember"}
           \/ q \in Workers /\ to \in Execute
           \/ q = Api /\ to \in Calls
    PROVE  ControlOK'
<1>1. to \in Execute \cup Calls \cup Refresh /\ (q # Api => to \in Execute \cup Refresh)
      /\ (q = Api => to \in Calls \cup Refresh)
    BY DEF Execute, Calls
<1>2. \A w \in Workers : w \in Procs /\ w # Api
    BY DEF Procs
<1>3. Api \in Procs
    BY DEF Procs
<1> QED
    BY <1>1, <1>2, <1>3 DEF ControlOK

\* What a call leaves behind.
LEMMA ForgetFits == ASSUME LocalsOK, NEW q \in Procs, Forget(q) PROVE LocalsOK'
<1>1. Empty \in Listings
    BY DEF Empty, Listings, PartRows
<1>2. [p \in Parts |-> Nothing] \in [Parts -> PartDocs]
    BY DEF Nothing, PartDocs
<1>3. "absent" \in ParentStates
    BY DEF ParentStates
<1> QED
    BY <1>1, <1>2, <1>3 DEF LocalsOK, Forget, NoPart

\* What is listed of the rows.
LEMMA LatestFits == ASSUME StoreOK PROVE Latest \in Listings
<1> SUFFICES ASSUME NEW p \in Parts PROVE <<runs[p], LatestState(p)>> \in (0..MaxRuns) \X PartRows
    BY DEF Latest, Listings
<1>1. runs[p] \in 0..MaxRuns
    BY DEF StoreOK
<1>2. LatestState(p) \in PartRows
    <2>1. CASE runs[p] = 0
        BY <2>1 DEF LatestState, PartRows
    <2>2. CASE runs[p] # 0
        <3>1. runs[p] \in Runs
            BY <1>1, <2>2 DEF Runs
        <3> QED
            BY <2>2, <3>1 DEF LatestState, StoreOK
    <2> QED
        BY <2>1, <2>2
<1> QED
    BY <1>1, <1>2

\* The state that rows give a parent.
LEMMA StateFits == ASSUME NEW rows PROVE PartitionParentState(rows) \in ParentStates
BY DEF PartitionParentState, ParentStates

\* A row is written.
LEMMA RowWritten ==
    ASSUME StoreOK, NEW p, NEW r, NEW s \in PartRows, row' = [row EXCEPT ![p][r] = s]
    PROVE  /\ row' \in [Parts -> [Runs -> PartRows]]
           /\ \A a \in Parts, b \in Runs : row'[a][b] = IF a = p /\ b = r THEN s ELSE row[a][b]
BY DEF StoreOK

\* A job is created.
LEMMA CreateFits ==
    ASSUME StoreOK, NEW p \in Parts, runs[p] < MaxRuns, CreateJob(p)
    PROVE  StoreOK'
<1>1. runs[p] + 1 \in Runs /\ runs[p] + 1 \in 0..MaxRuns /\ "pending" \in PartRows
    BY DEF StoreOK, Runs, PartRows
<1>2. runs' \in [Parts -> 0..MaxRuns]
    BY <1>1 DEF StoreOK, CreateJob
<1>3. row' \in [Parts -> [Runs -> PartRows]]
    BY <1>1, RowWritten DEF CreateJob
<1>4. cache' \in Listings
    <2>1. <<runs[p] + 1, "pending">> \in (0..MaxRuns) \X PartRows
        BY <1>1
    <2> QED
        BY <2>1 DEF StoreOK, CreateJob, Listings
<1>5. unsubmitted' \subseteq Parts \X Runs
    BY <1>1 DEF StoreOK, CreateJob
<1> QED
    BY <1>2, <1>3, <1>4, <1>5 DEF StoreOK, CreateJob

\* Executors.
LEMMA ExecuteFits ==
    ASSUME TypeOK, NEW w \in Workers, ExecuteStep(w)
    PROVE  TypeOK'
<1>1. w \in Procs /\ part[w] \in Parts \cup {NoPart} /\ run[w] \in 0..MaxRuns
    BY DEF Procs, TypeOK, LocalsOK
<1>2. {"active", "done", "pending", "failed"} \subseteq PartRows
    BY DEF PartRows, Failed
<1>3. ASSUME NEW p \in Parts, NEW r \in Runs, Claim(w, p, r) PROVE TypeOK'
    <2>1. ControlOK'
        BY <1>1, <1>3, MoveFits DEF TypeOK, Claim, Goto, Execute
    <2>2. StoreOK'
        BY <1>2, <1>3, RowWritten DEF TypeOK, StoreOK, Claim
    <2>3. LocalsOK'
        <3>1. p \in Parts \cup {NoPart} /\ r \in 0..MaxRuns
            BY DEF Runs
        <3> QED
            BY <1>1, <1>3, <3>1 DEF TypeOK, LocalsOK, Claim
    <2> QED
        BY <2>1, <2>2, <2>3 DEF TypeOK
<1>4. ASSUME \/ SavePart(w, "saveBlocksOfPart", "saveChunksOfPart", "blocks")
             \/ SavePart(w, "saveChunksOfPart", "finish", "chunks")
      PROVE  TypeOK'
    <2>1. ControlOK'
        BY <1>1, <1>4, MoveFits DEF TypeOK, SavePart, Goto, Execute
    <2>2. partDoc' \in [Parts -> PartDocs]
        BY <1>1, <1>4 DEF TypeOK, StoreOK, SavePart, PartDocs
    <2>3. UNCHANGED <<parent, runs, unsubmitted, row, merged, manifest, cache, locals>>
        BY <1>4 DEF SavePart
    <2> QED
        BY <2>1, <2>2, <2>3 DEF TypeOK, StoreOK, LocalsOK, locals
<1>5. ASSUME FinishPart(w) PROVE TypeOK'
    <2>1. ControlOK'
        BY <1>1, <1>5, MoveFits DEF TypeOK, FinishPart, Goto
    <2>2. StoreOK'
        BY <1>2, <1>5, RowWritten DEF TypeOK, StoreOK, FinishPart
    <2>3. LocalsOK'
        BY <1>5 DEF TypeOK, LocalsOK, FinishPart
    <2> QED
        BY <2>1, <2>2, <2>3 DEF TypeOK
<1>6. ASSUME LoseClaim(w) \/ Crash(w) PROVE TypeOK'
    <2>1. ControlOK'
        <3>1. pc' = [pc EXCEPT ![w] = "idle"] /\ crashes' \in 0..MaxCrashes
            BY <1>6 DEF TypeOK, ControlOK, LoseClaim, Crash
        <3> QED
            BY <1>1, <3>1 DEF TypeOK, ControlOK, Execute, Procs
    <2>2. LocalsOK'
        BY <1>1, <1>6, ForgetFits DEF TypeOK, LoseClaim, Crash
    <2> QED
        BY <1>6, <2>1, <2>2 DEF TypeOK, StoreOK, LoseClaim, Crash, store
<1>7. ASSUME NEW new \in {"pending", "failed"}, NEW p \in Parts, NEW r \in Runs,
             FailPart(w, new) \/ Recover(w, p, r, new)
      PROVE  TypeOK'
    <2>1. ControlOK'
        BY <1>1, <1>7, MoveFits DEF TypeOK, FailPart, Recover, Goto, Refresh
    <2>2. StoreOK'
        BY <1>2, <1>7, RowWritten DEF TypeOK, StoreOK, FailPart, Recover
    <2>3. UNCHANGED locals
        BY <1>7 DEF FailPart, Recover
    <2> QED
        BY <2>1, <2>2, <2>3 DEF TypeOK, LocalsOK, locals
<1>8. ASSUME NEW new \in {"pending", "failed"}, FailPart(w, new) PROVE TypeOK'
    <2>1. 1 \in Parts /\ 1 \in Runs
        BY DEF Parts, Runs
    <2> QED
        BY <1>7, <1>8, <2>1
<1> QED
    BY <1>3, <1>4, <1>5, <1>6, <1>7, <1>8 DEF ExecuteStep
\* Refreshes of the parent, and what an executor or a call notes before it.
LEMMA RefreshFits ==
    ASSUME TypeOK, WorkExists, NEW q \in Procs, Remember(q) \/ RefreshStep(q)
    PROVE  TypeOK'
<1>1. Latest \in Listings /\ cache \in Listings /\ seen[q] \in Listings
    BY LatestFits DEF TypeOK, StoreOK, LocalsOK
<1>2. ASSUME Remember(q) PROVE TypeOK'
    <2>1. ControlOK'
        BY <1>2, MoveFits DEF TypeOK, Remember, Goto, Refresh
    <2>2. cache' \in Listings
        <3>1. CASE part[q] \in Parts
            <4> run[q] \in Runs
                <5>1. runs[part[q]] \in 0..MaxRuns /\ run[q] \in 1..runs[part[q]]
                    BY <3>1 DEF TypeOK, StoreOK, WorkExists
                <5> QED
                    BY <5>1 DEF Runs
            <4>1. <<run[q], row[part[q]][run[q]]>> \in (0..MaxRuns) \X PartRows
                BY <3>1 DEF TypeOK, StoreOK, Runs
            <4> QED
                BY <1>1, <1>2, <3>1, <4>1 DEF Remember, Remembered, Listings
        <3>2. CASE part[q] \notin Parts
            BY <1>1, <1>2, <3>2 DEF Remember, Remembered, Listings
        <3> QED
            BY <3>1, <3>2
    <2> QED
        BY <1>2, <2>1, <2>2 DEF TypeOK, StoreOK, LocalsOK, locals, Remember
<1>3. ASSUME ReadParent(q) PROVE TypeOK'
    <2>1. ControlOK'
        BY <1>3, MoveFits DEF TypeOK, ReadParent, Goto, Refresh
    <2> QED
        BY <1>3, <2>1 DEF TypeOK, StoreOK, LocalsOK, store, ReadParent
<1>4. ASSUME ReadRows(q) PROVE TypeOK'
    <2>1. ControlOK'
        BY <1>4, MoveFits DEF TypeOK, ReadRows, Goto, Refresh
    <2>2. PICK rows \in Listings : /\ seen' = [seen EXCEPT ![q] = rows]
                                   /\ newState' = [newState EXCEPT ![q] = PartitionParentState(rows)]
        <3>1. CASE FromCache
            BY <1>1, <1>4, <3>1 DEF ReadRows
        <3>2. CASE ~FromCache
            BY <1>1, <1>4, <3>2 DEF ReadRows
        <3> QED
            BY <3>1, <3>2
    <2>3. PartitionParentState(rows) \in ParentStates
        BY StateFits
    <2> QED
        BY <1>4, <2>1, <2>2, <2>3 DEF TypeOK, StoreOK, LocalsOK, store, ReadRows
<1>5. ASSUME Assign(q, "assign", "listMerge") \/ Assign(q, "assignMerge", "collect") PROVE TypeOK'
    <2>1. ControlOK'
        BY <1>5, MoveFits DEF TypeOK, Assign, Goto, Refresh
    <2> QED
        BY <1>1, <1>5, <2>1 DEF TypeOK, StoreOK, LocalsOK, locals, Assign
<1>6. ASSUME NothingToMerge(q) \/ Collected(q) \/ Compare(q) PROVE TypeOK'
    <2>1. ControlOK'
        BY <1>6, MoveFits DEF TypeOK, NothingToMerge, Collected, Compare, Goto, Refresh
    <2> QED
        BY <1>6, <2>1 DEF TypeOK, StoreOK, LocalsOK, store, locals, NothingToMerge, Collected, Compare
<1>7. ASSUME ListMerge(q) PROVE TypeOK'
    <2>1. ControlOK'
        BY <1>7, MoveFits DEF TypeOK, ListMerge, Goto, Refresh
    <2>2. PICK rows \in Listings, done \in SUBSET Parts :
              seen' = [seen EXCEPT ![q] = rows] /\ todo' = [todo EXCEPT ![q] = done]
        BY <1>1, <1>7 DEF ListMerge, DoneIn
    <2> QED
        BY <1>7, <2>1, <2>2 DEF TypeOK, StoreOK, LocalsOK, store, ListMerge
<1>8. ASSUME NEW p \in Parts, Collect(q, p) PROVE TypeOK'
    <2>1. partDoc[p] \in PartDocs
        BY DEF TypeOK, StoreOK
    <2>2. UNCHANGED <<store, pc, crashes, part, run, changed, parentSeen, newState, seen, entries>>
        BY <1>8 DEF Collect
    <2>3. got' \in [Procs -> [Parts -> PartDocs]] /\ todo' \in [Procs -> SUBSET Parts]
        BY <1>8, <2>1 DEF TypeOK, LocalsOK, Collect
    <2> QED
        BY <2>2, <2>3 DEF TypeOK, StoreOK, ControlOK, LocalsOK, store
<1>9. ASSUME \/ Replace(q, "replaceBlocks", "replaceChunks", "blocks")
             \/ Replace(q, "replaceChunks", "readManifest", "chunks")
             \/ ReplaceIndex(q)
      PROVE  TypeOK'
    <2>1. ControlOK'
        BY <1>9, MoveFits DEF TypeOK, Replace, ReplaceIndex, Goto, Refresh
    <2>2. part[q] \in Parts => /\ got[q][part[q]].blocks \in 0..MaxRuns
                               /\ got[q][part[q]].chunks \in 0..MaxRuns
        BY DEF TypeOK, LocalsOK, PartDocs
    <2>3. merged' \in [Parts -> MergedParts]
        <3>1. merged \in [Parts -> MergedParts]
            BY DEF TypeOK, StoreOK
        <3>2. CASE Replace(q, "replaceBlocks", "replaceChunks", "blocks")
            BY <2>2, <3>1, <3>2 DEF Replace, MergedParts
        <3>3. CASE Replace(q, "replaceChunks", "readManifest", "chunks")
            BY <2>2, <3>1, <3>3 DEF Replace, MergedParts
        <3>4. CASE ReplaceIndex(q)
            BY <2>2, <3>1, <3>4 DEF ReplaceIndex, MergedParts
        <3> QED
            BY <1>9, <3>2, <3>3, <3>4
    <2>4. manifest' \in [Parts -> 0..MaxRuns]
        BY <1>9, <2>2 DEF TypeOK, StoreOK, LocalsOK, Replace, ReplaceIndex
    <2>5. UNCHANGED <<parent, runs, unsubmitted, row, partDoc, cache, locals>>
        BY <1>9 DEF Replace, ReplaceIndex
    <2> QED
        BY <2>1, <2>3, <2>4, <2>5 DEF TypeOK, StoreOK, LocalsOK, locals
<1>10. ASSUME ReadManifest(q) PROVE TypeOK'
    <2>1. ControlOK'
        BY <1>10, MoveFits DEF TypeOK, ReadManifest, Goto, Refresh
    <2> QED
        BY <1>10, <2>1 DEF TypeOK, StoreOK, LocalsOK, store, ReadManifest
<1>11. ASSUME \/ SaveAll(q, "saveBlocks", "saveChunks", "blocks")
              \/ SaveAll(q, "saveChunks", "upsert", "chunks")
              \/ Upsert(q)
       PROVE  TypeOK'
    <2>1. ControlOK'
        BY <1>11, MoveFits DEF TypeOK, SaveAll, Upsert, Goto, Refresh
    <2>2. \A p \in Parts : /\ got[q][p].blocks \in 0..MaxRuns /\ got[q][p].chunks \in 0..MaxRuns
                           /\ merged[p] \in MergedParts
        BY DEF TypeOK, StoreOK, LocalsOK, PartDocs
    <2>3. merged' \in [Parts -> MergedParts]
        <3>1. CASE SaveAll(q, "saveBlocks", "saveChunks", "blocks")
            BY <2>2, <3>1 DEF SaveAll, MergedParts
        <3>2. CASE SaveAll(q, "saveChunks", "upsert", "chunks")
            BY <2>2, <3>2 DEF SaveAll, MergedParts
        <3>3. CASE Upsert(q)
            BY <2>2, <3>3 DEF Upsert, MergedParts
        <3> QED
            BY <1>11, <3>1, <3>2, <3>3
    <2>4. manifest' \in [Parts -> 0..MaxRuns]
        BY <1>11, <2>2 DEF TypeOK, StoreOK, SaveAll, Upsert
    <2>5. UNCHANGED <<parent, runs, unsubmitted, row, partDoc, cache, locals>>
        BY <1>11 DEF SaveAll, Upsert
    <2> QED
        BY <2>1, <2>3, <2>4, <2>5 DEF TypeOK, StoreOK, LocalsOK, locals
<1>12. ASSUME SetParent(q) PROVE TypeOK'
    <2>1. ControlOK'
        BY <1>12, MoveFits DEF TypeOK, SetParent, Goto
    <2>2. LocalsOK'
        BY <1>12, ForgetFits DEF TypeOK, SetParent
    <2> QED
        BY <1>12, <2>1, <2>2 DEF TypeOK, StoreOK, LocalsOK, SetParent
<1> QED
    BY <1>2, <1>3, <1>4, <1>5, <1>6, <1>7, <1>8, <1>9, <1>10, <1>11, <1>12 DEF RefreshStep

\* Calls of the API.
LEMMA ApiFits ==
    ASSUME TypeOK, ApiStep
    PROVE  TypeOK'
<1>1. Api \in Procs /\ Latest \in Listings /\ seen[Api] \in Listings
    BY LatestFits DEF Procs, TypeOK, LocalsOK
<1>2. ASSUME Plan \/ Partial PROVE TypeOK'
    <2>1. ControlOK'
        BY <1>1, <1>2, MoveFits DEF TypeOK, Plan, Partial, Goto, Calls
    <2> QED
        BY <1>2, <2>1 DEF TypeOK, StoreOK, LocalsOK, locals, Plan, Partial, ParentStates
<1>3. ASSUME NEW p \in Parts, CreatePart(p) \/ Rerun(p) PROVE TypeOK'
    <2>1. ControlOK'
        BY <1>1, <1>3, MoveFits DEF TypeOK, CreatePart, Rerun, Goto, Calls, Refresh
    <2>2. StoreOK'
        BY <1>3, CreateFits DEF TypeOK, StoreOK, CreatePart, Rerun
    <2> QED
        BY <1>3, <2>1, <2>2 DEF TypeOK, LocalsOK, locals, CreatePart, Rerun
<1>4. ASSUME ViewRows PROVE TypeOK'
    <2>1. ControlOK'
        BY <1>1, <1>4, MoveFits DEF TypeOK, ViewRows, Goto, Calls
    <2> QED
        BY <1>1, <1>4, <2>1 DEF TypeOK, StoreOK, LocalsOK, store, ViewRows
<1>5. ASSUME ViewAssign PROVE TypeOK'
    <2>1. ControlOK'
        BY <1>1, <1>5, MoveFits DEF TypeOK, ViewAssign, Goto, Calls
    <2>2. LocalsOK'
        BY <1>1, <1>5, ForgetFits DEF TypeOK, ViewAssign
    <2> QED
        BY <1>1, <1>5, <2>1, <2>2 DEF TypeOK, StoreOK, ViewAssign
<1>6. ASSUME NEW p \in Parts, CancelRows(p) PROVE TypeOK'
    <2>1. ControlOK'
        BY <1>1, <1>6, MoveFits DEF TypeOK, CancelRows, Goto, Calls
    <2>2. runs[p] \in 0..MaxRuns
        BY DEF TypeOK, StoreOK
    <2> QED
        BY <1>1, <1>6, <2>1, <2>2 DEF TypeOK, StoreOK, LocalsOK, store, CancelRows
<1>7. ASSUME Assign(Api, "cancelAssign", "cancelWrite") PROVE TypeOK'
    <2>1. ControlOK'
        BY <1>1, <1>7, MoveFits DEF TypeOK, Assign, Goto, Calls
    <2> QED
        BY <1>1, <1>7, <2>1 DEF TypeOK, StoreOK, LocalsOK, locals, Assign
<1>8. ASSUME CancelWrite PROVE TypeOK'
    <2>1. ControlOK'
        BY <1>1, <1>8, MoveFits DEF TypeOK, CancelWrite, Goto, Calls
    <2>2. "cancelled" \in PartRows
        BY DEF PartRows, Failed
    <2>3. StoreOK'
        BY <1>8, <2>2, RowWritten DEF TypeOK, StoreOK, CancelWrite
    <2> QED
        BY <1>8, <2>1, <2>3 DEF TypeOK, LocalsOK, locals, CancelWrite
<1> QED
    BY <1>2, <1>3, <1>4, <1>5, <1>6, <1>7, <1>8 DEF ApiStep
-----------------------------------------------------------------------------
(* Rows.                                                                   *)

\* At most one row changes in a step: one that exists, and does not cease to count, or
\* the next one, which is created.
OneRow ==
    \/ UNCHANGED <<runs, row>>
    \/ \E p \in Parts, r \in Runs, s \in PartRows \ {"absent"} :
         /\ row' = [row EXCEPT ![p][r] = s]
         /\ Counts(row[p][r]) => Counts(s)
         /\ \/ row[p][r] # "absent" /\ UNCHANGED runs
            \/ r = runs[p] + 1 /\ runs' = [runs EXCEPT ![p] = r]

\* A process at work writes a row that counts or did not.
LEMMA OwnRow ==
    ASSUME TypeOK, RowsExist, WorkExists, NEW q \in Procs, NEW s \in PartRows \ {"absent"},
           row' = [row EXCEPT ![part[q]][run[q]] = s], UNCHANGED runs,
           part[q] \in Parts => (Counts(row[part[q]][run[q]]) => Counts(s))
    PROVE  OneRow
<1>1. CASE part[q] \notin Parts
    <2>1. row' = row
        BY <1>1 DEF TypeOK, StoreOK
    <2> QED
        BY <2>1 DEF OneRow
<1>2. CASE part[q] \in Parts
    <2>1. run[q] \in Runs /\ row[part[q]][run[q]] # "absent"
        <3>1. runs[part[q]] \in 0..MaxRuns /\ run[q] \in 1..runs[part[q]]
            BY <1>2 DEF TypeOK, StoreOK, WorkExists
        <3>2. run[q] \in Runs /\ ~(runs[part[q]] < run[q])
            BY <3>1 DEF Runs
        <3> QED
            BY <1>2, <3>2 DEF RowsExist
    <2> QED
        BY <1>2, <2>1 DEF OneRow
<1> QED
    BY <1>1, <1>2

\* An executor.
LEMMA ExecuteOneRow ==
    ASSUME TypeOK, RowsExist, WorkExists, NEW w \in Workers, ExecuteStep(w)
    PROVE  OneRow
<1>1. w \in Procs /\ {"active", "done", "pending", "failed"} \subseteq PartRows \ {"absent"}
    BY DEF Procs, PartRows, Failed
<1>2. ASSUME NEW p \in Parts, NEW r \in Runs, Claim(w, p, r) PROVE OneRow
    BY <1>1, <1>2 DEF OneRow, Claim, Counts
<1>3. ASSUME FinishPart(w) PROVE OneRow
    BY <1>1, <1>3, OwnRow DEF FinishPart, HasClaim, Counts
<1>4. ASSUME NEW new \in {"pending", "failed"}, FailPart(w, new) PROVE OneRow
    BY <1>1, <1>4, OwnRow DEF FailPart, HasClaim, Counts
<1>5. ASSUME NEW new \in {"pending", "failed"}, NEW p \in Parts, NEW r \in Runs, Recover(w, p, r, new)
      PROVE  OneRow
    BY <1>1, <1>5 DEF OneRow, Recover, Counts
<1>6. ASSUME \/ SavePart(w, "saveBlocksOfPart", "saveChunksOfPart", "blocks")
             \/ SavePart(w, "saveChunksOfPart", "finish", "chunks")
             \/ LoseClaim(w) \/ Crash(w)
      PROVE  OneRow
    BY <1>6 DEF OneRow, SavePart, LoseClaim, Crash, store
<1> QED
    BY <1>2, <1>3, <1>4, <1>5, <1>6 DEF ExecuteStep

\* A call, which in inline mode cancels only a part that waits.
LEMMA ApiOneRow ==
    ASSUME TypeOK, RowsExist, WorkExists, Cached => CancelledWaits, ApiStep
    PROVE  OneRow
<1>1. ASSUME NEW p \in Parts, CreatePart(p) \/ Rerun(p) PROVE OneRow
    <2>1. runs[p] \in 0..MaxRuns /\ runs[p] < MaxRuns
        BY <1>1 DEF TypeOK, StoreOK, CreatePart, Rerun
    <2>2. runs[p] + 1 \in Runs /\ runs[p] < runs[p] + 1 /\ "pending" \in PartRows
        BY <2>1 DEF Runs, PartRows
    <2>3. row[p][runs[p] + 1] = "absent"
        BY <2>2 DEF RowsExist
    <2> QED
        BY <1>1, <2>2, <2>3 DEF OneRow, CreatePart, Rerun, CreateJob, Counts
<1>2. ASSUME CancelWrite PROVE OneRow
    <2>1. Api \in Procs /\ "cancelled" \in PartRows \ {"absent"}
        BY DEF Procs, PartRows, Failed
    <2>2. part[Api] \in Parts => (Counts(row[part[Api]][run[Api]]) => Counts("cancelled"))
        BY <1>2 DEF CancelWrite, Goto, CancelledWaits, Counts
    <2> QED
        BY <1>2, <2>1, <2>2, OwnRow DEF CancelWrite
<1>3. ASSUME \/ Plan \/ Partial \/ ViewRows \/ ViewAssign \/ Assign(Api, "cancelAssign", "cancelWrite")
             \/ \E p \in Parts : CancelRows(p)
      PROVE  OneRow
    BY <1>3 DEF OneRow, Plan, Partial, ViewRows, ViewAssign, Assign, CancelRows, store
<1> QED
    BY <1>1, <1>2, <1>3 DEF ApiStep

\* A step.
LEMMA StepOneRow ==
    ASSUME TypeOK, RowsExist, WorkExists, Cached => CancelledWaits, [Next]_vars
    PROVE  OneRow
<1>1. ASSUME NEW q \in Procs, Remember(q) \/ RefreshStep(q) PROVE UNCHANGED <<runs, row>>
    BY <1>1 DEF Remember, RefreshStep, ReadParent, ReadRows, Assign, NothingToMerge, ListMerge, Collect,
                Collected, Replace, ReadManifest, ReplaceIndex, Compare, SaveAll, Upsert, SetParent, store
<1>2. UNCHANGED vars => UNCHANGED <<runs, row>>
    BY DEF vars, store
<1>3. UNCHANGED <<runs, row>> => OneRow
    BY DEF OneRow
<1> QED
    BY <1>1, <1>2, <1>3, ExecuteOneRow, ApiOneRow DEF Next

\* What counts goes on to count.
LEMMA CountedStays ==
    ASSUME TypeOK, OneRow
    PROVE  \A p \in Parts : Counted(p) => Counted(p)'
<1> SUFFICES ASSUME NEW p \in Parts, NEW r \in Runs, Counts(row[p][r]) PROVE Counts(row'[p][r])
    BY DEF Counted, Counts
<1>1. CASE UNCHANGED row
    BY <1>1
<1>2. ASSUME NEW a \in Parts, NEW b \in Runs, NEW s \in PartRows,
             row' = [row EXCEPT ![a][b] = s], Counts(row[a][b]) => Counts(s)
      PROVE  Counts(row'[p][r])
    <2>1. row'[p][r] = IF p = a /\ r = b THEN s ELSE row[p][r]
        BY <1>2, RowWritten DEF TypeOK
    <2> QED
        BY <1>2, <2>1
<1> QED
    BY <1>1, <1>2 DEF OneRow

\* There are rows up to the last that was created.
LEMMA RowsGoOn ==
    ASSUME TypeOK, RowsExist, OneRow
    PROVE  RowsExist' /\ \A p \in Parts : runs'[p] \in Nat /\ runs[p] =< runs'[p]
<1>1. \A p \in Parts : runs[p] \in 0..MaxRuns
    BY DEF TypeOK, StoreOK
<1>2. CASE UNCHANGED <<runs, row>>
    BY <1>1, <1>2 DEF RowsExist
<1>3. ASSUME NEW a \in Parts, NEW b \in Runs, NEW s \in PartRows \ {"absent"},
             row' = [row EXCEPT ![a][b] = s],
             \/ row[a][b] # "absent" /\ UNCHANGED runs
             \/ b = runs[a] + 1 /\ runs' = [runs EXCEPT ![a] = b]
      PROVE  RowsExist' /\ \A p \in Parts : runs'[p] \in Nat /\ runs[p] =< runs'[p]
    <2>1. \A p \in Parts, r \in Runs : row'[p][r] = IF p = a /\ r = b THEN s ELSE row[p][r]
        BY <1>3, RowWritten DEF TypeOK
    <2>0. b \in Nat
        BY DEF Runs
    <2>2. CASE row[a][b] # "absent" /\ UNCHANGED runs
        BY <1>1, <2>1, <2>2 DEF RowsExist
    <2>3. CASE b = runs[a] + 1 /\ runs' = [runs EXCEPT ![a] = b]
        <3>1. \A p \in Parts : runs'[p] = IF p = a THEN b ELSE runs[p]
            BY <2>3 DEF TypeOK, StoreOK
        <3>2. ASSUME NEW p \in Parts, NEW r \in Runs PROVE runs'[p] < r <=> row'[p][r] = "absent"
            <4>1. CASE p = a
                <5>1. r # b => (b < r <=> runs[a] < r)
                    BY <1>1, <2>3 DEF Runs
                <5>2. ~(b < b)
                    BY DEF Runs
                <5> QED
                    BY <2>1, <3>1, <4>1, <5>1, <5>2 DEF RowsExist
            <4>2. CASE p # a
                BY <2>1, <3>1, <4>2 DEF RowsExist
            <4> QED
                BY <4>1, <4>2
        <3>3. \A p \in Parts : runs'[p] \in Nat /\ runs[p] =< runs'[p]
            BY <1>1, <2>0, <2>3, <3>1
        <3> QED
            BY <3>2, <3>3 DEF RowsExist
    <2> QED
        BY <1>3, <2>2, <2>3
<1> QED
    BY <1>2, <1>3 DEF OneRow

\* Processes work on jobs that were created.
LEMMA WorkGoesOn ==
    ASSUME TypeOK, RowsExist, WorkExists, OneRow, [Next]_vars
    PROVE  WorkExists'
<1>1. /\ \A p \in Parts : runs[p] \in 0..MaxRuns /\ runs'[p] \in Nat /\ runs[p] =< runs'[p]
      /\ part \in [Procs -> Parts \cup {NoPart}] /\ run \in [Procs -> 0..MaxRuns] /\ NoPart \notin Parts
    <2>1. NoPart \notin Parts
        BY DEF NoPart, Parts
    <2>2. \A p \in Parts : runs'[p] \in Nat /\ runs[p] =< runs'[p]
        BY RowsGoOn
    <2> QED
        BY <2>1, <2>2 DEF TypeOK, StoreOK, LocalsOK
<1>2. ASSUME UNCHANGED <<part, run>> PROVE WorkExists'
    BY <1>1, <1>2 DEF WorkExists
<1>3. ASSUME NEW q \in Procs, Forget(q) PROVE WorkExists'
    BY <1>1, <1>3 DEF WorkExists, Forget
<1>4. ASSUME NEW q \in Procs, NEW p \in Parts, NEW r \in Runs, row[p][r] # "absent",
             part' = [part EXCEPT ![q] = p], run' = [run EXCEPT ![q] = r]
      PROVE  WorkExists'
    <2>1. r \in 1..runs[p]
        BY <1>1, <1>4 DEF RowsExist, Runs
    <2> QED
        BY <1>1, <1>4, <2>1 DEF WorkExists
<1>5. ASSUME NEW w \in Workers, ExecuteStep(w) PROVE WorkExists'
    <2>1. w \in Procs
        BY DEF Procs
    <2>2. ASSUME NEW p \in Parts, NEW r \in Runs, Claim(w, p, r) PROVE WorkExists'
        BY <1>4, <2>1, <2>2 DEF Claim
    <2>3. ASSUME LoseClaim(w) \/ Crash(w) PROVE WorkExists'
        BY <1>3, <2>1, <2>3 DEF LoseClaim, Crash
    <2>4. ASSUME \/ SavePart(w, "saveBlocksOfPart", "saveChunksOfPart", "blocks")
                 \/ SavePart(w, "saveChunksOfPart", "finish", "chunks")
                 \/ FinishPart(w)
                 \/ \E new \in {"pending", "failed"} :
                      FailPart(w, new) \/ \E p \in Parts, r \in Runs : Recover(w, p, r, new)
          PROVE  UNCHANGED <<part, run>>
        BY <2>4 DEF SavePart, FinishPart, FailPart, Recover, locals
    <2> QED
        BY <1>2, <1>5, <2>2, <2>3, <2>4 DEF ExecuteStep
<1>6. ASSUME ApiStep PROVE WorkExists'
    <2>1. Api \in Procs
        BY DEF Procs
    <2>2. ASSUME NEW p \in Parts, CancelRows(p) PROVE WorkExists'
        <3>1. runs[p] \in Runs /\ row[p][runs[p]] = "pending"
            BY <1>1, <2>2 DEF CancelRows, LatestState, Planned, Runs
        <3> QED
            BY <1>4, <2>1, <2>2, <3>1 DEF CancelRows
    <2>3. ASSUME ViewAssign PROVE WorkExists'
        BY <1>3, <2>1, <2>3 DEF ViewAssign
    <2>4. ASSUME \/ Plan \/ Partial \/ ViewRows \/ Assign(Api, "cancelAssign", "cancelWrite") \/ CancelWrite
                 \/ \E p \in Parts : CreatePart(p) \/ Rerun(p)
          PROVE  UNCHANGED <<part, run>>
        BY <2>4 DEF Plan, Partial, ViewRows, Assign, CancelWrite, CreatePart, Rerun, locals
    <2> QED
        BY <1>2, <1>6, <2>2, <2>3, <2>4 DEF ApiStep
<1>7. ASSUME NEW q \in Procs, Remember(q) \/ RefreshStep(q) PROVE WorkExists'
    <2>1. SetParent(q) => WorkExists'
        BY <1>3 DEF SetParent
    <2>2. SetParent(q) \/ UNCHANGED <<part, run>>
        BY <1>7 DEF Remember, RefreshStep, ReadParent, ReadRows, Assign, NothingToMerge, ListMerge, Collect,
                    Collected, Replace, ReadManifest, ReplaceIndex, Compare, SaveAll, Upsert, locals
    <2> QED
        BY <1>2, <2>1, <2>2
<1>8. UNCHANGED vars => UNCHANGED <<part, run>>
    BY DEF vars, locals
<1> QED
    BY <1>2, <1>5, <1>6, <1>7, <1>8 DEF Next
-----------------------------------------------------------------------------
(* What counts where: rows that are listed, parts that are read, parts that *)
(* are stored.  Each step takes only what counts before it.                 *)

\* The rows say of themselves what they are.
LEMMA LatestTruthful == ASSUME TypeOK PROVE Truthful(Latest) /\ Truthful(Empty)
<1>1. ASSUME NEW p \in Parts, Latest[p][2] = "done" PROVE Counted(p)
    <2>1. LatestState(p) = "done"
        BY <1>1 DEF Latest
    <2>2. runs[p] \in Runs /\ row[p][runs[p]] = "done"
        BY <2>1 DEF LatestState, Runs, TypeOK, StoreOK
    <2> QED
        BY <2>2 DEF Counted, Counts
<1>2. \A p \in Parts : Empty[p][2] # "done"
    BY DEF Empty
<1> QED
    BY <1>1, <1>2 DEF Truthful

\* The cache is given the row of a part, a new row, or a listing.
LEMMA CacheIsTold ==
    ASSUME TypeOK, WorkExists, ListedCounts, [Next]_vars
    PROVE  \A p \in Parts : cache'[p][2] = "done" => Counted(p)
<1>1. cache \in Listings /\ Truthful(cache) /\ \A q \in Procs : Truthful(seen[q])
    BY DEF TypeOK, StoreOK, ListedCounts
<1>2. CASE UNCHANGED cache
    BY <1>1, <1>2 DEF Truthful
<1>3. ASSUME NEW q \in Procs, cache' = seen[q] PROVE \A p \in Parts : cache'[p][2] = "done" => Counted(p)
    BY <1>1, <1>3 DEF Truthful
<1>4. ASSUME NEW a \in Parts, NEW n, NEW s, s = "done" => Counted(a), cache' = [cache EXCEPT ![a] = <<n, s>>]
      PROVE  \A p \in Parts : cache'[p][2] = "done" => Counted(p)
    BY <1>1, <1>4 DEF Truthful, Listings
<1>5. ASSUME NEW q \in Procs, Remember(q) PROVE \A p \in Parts : cache'[p][2] = "done" => Counted(p)
    <2>1. CASE ~Cached
        BY <1>2, <1>5, <2>1 DEF Remember, Remembered
    <2>2. CASE Cached /\ part[q] \notin Parts
        <3>1. cache' = cache
            BY <1>1, <1>5, <2>2 DEF Remember, Remembered, Listings
        <3> QED
            BY <1>2, <3>1
    <2>3. CASE Cached /\ part[q] \in Parts
        <3>1. run[q] \in Runs
            <4>1. runs[part[q]] \in 0..MaxRuns /\ run[q] \in 1..runs[part[q]]
                BY <2>3 DEF TypeOK, StoreOK, WorkExists
            <4> QED
                BY <4>1 DEF Runs
        <3>2. row[part[q]][run[q]] = "done" => Counted(part[q])
            BY <3>1 DEF Counted, Counts
        <3> QED
            BY <1>4, <1>5, <2>3, <3>2 DEF Remember, Remembered
    <2> QED
        BY <2>1, <2>2, <2>3
<1>6. ASSUME NEW p \in Parts, CreateJob(p) PROVE \A a \in Parts : cache'[a][2] = "done" => Counted(a)
    <2>1. CASE Cached
        <3>1. cache' = [cache EXCEPT ![p] = <<runs[p] + 1, "pending">>]
            BY <1>6, <2>1 DEF CreateJob
        <3>2. "pending" = "done" => Counted(p)
            OBVIOUS
        <3> QED
            BY <1>4, <3>1, <3>2
    <2>2. CASE ~Cached
        BY <1>2, <1>6, <2>2 DEF CreateJob
    <2> QED
        BY <2>1, <2>2
<1>7. ASSUME NEW w \in Workers, ExecuteStep(w) PROVE UNCHANGED cache
    BY <1>7 DEF ExecuteStep, Claim, SavePart, FinishPart, LoseClaim, Crash, FailPart, Recover, store
<1>8. ASSUME ApiStep
      PROVE  \/ UNCHANGED cache \/ cache' = seen[Api] \/ \E p \in Parts : CreateJob(p)
    BY <1>8 DEF ApiStep, Plan, Partial, CreatePart, Rerun, CancelRows, ViewRows, ViewAssign, Assign,
                CancelWrite, store
<1>9. ASSUME NEW q \in Procs, RefreshStep(q) PROVE UNCHANGED cache \/ cache' = seen[q]
    BY <1>9 DEF RefreshStep, ReadParent, ReadRows, Assign, NothingToMerge, ListMerge, Collect, Collected,
                Replace, ReadManifest, ReplaceIndex, Compare, SaveAll, Upsert, SetParent, store
<1>10. UNCHANGED vars => UNCHANGED cache
    BY DEF vars, store
<1>11. Api \in Procs
    BY DEF Procs
<1> QED
    BY <1>2, <1>3, <1>5, <1>6, <1>7, <1>8, <1>9, <1>10, <1>11 DEF Next

\* A process lists the rows, takes the cache, or forgets.
LEMMA ListingIsTold ==
    ASSUME TypeOK, ListedCounts, [Next]_vars
    PROVE  \A q \in Procs, p \in Parts : seen'[q][p][2] = "done" => Counted(p)
<1>1. /\ seen \in [Procs -> Listings] /\ Truthful(cache) /\ \A q \in Procs : Truthful(seen[q])
      /\ Truthful(Latest) /\ Truthful(Empty) /\ Api \in Procs
    BY LatestTruthful DEF TypeOK, LocalsOK, ListedCounts, Procs
<1>2. UNCHANGED seen => \A q \in Procs, p \in Parts : seen'[q][p][2] = "done" => Counted(p)
    BY <1>1 DEF Truthful
<1>3. ASSUME NEW q \in Procs, NEW rows, Truthful(rows), seen' = [seen EXCEPT ![q] = rows]
      PROVE  \A v \in Procs, p \in Parts : seen'[v][p][2] = "done" => Counted(p)
    BY <1>1, <1>3 DEF Truthful
<1>4. ASSUME NEW w \in Workers, ExecuteStep(w)
      PROVE  UNCHANGED seen \/ (w \in Procs /\ seen' = [seen EXCEPT ![w] = Empty])
    BY <1>4 DEF ExecuteStep, Claim, SavePart, FinishPart, LoseClaim, Crash, FailPart, Recover, Forget, locals, Procs
<1>5. ASSUME ApiStep
      PROVE  UNCHANGED seen \/ seen' = [seen EXCEPT ![Api] = Latest] \/ seen' = [seen EXCEPT ![Api] = Empty]
    BY <1>5 DEF ApiStep, Plan, Partial, CreatePart, Rerun, CancelRows, ViewRows, ViewAssign, Assign,
                CancelWrite, Forget, locals
<1>6. ASSUME NEW q \in Procs, Remember(q) \/ RefreshStep(q)
      PROVE  \/ UNCHANGED seen \/ seen' = [seen EXCEPT ![q] = Latest] \/ seen' = [seen EXCEPT ![q] = cache]
             \/ seen' = [seen EXCEPT ![q] = Empty]
    <2>1. ReadRows(q) \/ ListMerge(q) =>
              seen' = [seen EXCEPT ![q] = Latest] \/ seen' = [seen EXCEPT ![q] = cache]
        <3>1. CASE FromCache
            BY <3>1 DEF ReadRows, ListMerge
        <3>2. CASE ~FromCache
            BY <3>2 DEF ReadRows, ListMerge
        <3> QED
            BY <3>1, <3>2
    <2>2. SetParent(q) => seen' = [seen EXCEPT ![q] = Empty]
        BY DEF SetParent, Forget
    <2>3. ReadRows(q) \/ ListMerge(q) \/ SetParent(q) \/ UNCHANGED seen
        BY <1>6 DEF Remember, RefreshStep, ReadParent, Assign, NothingToMerge, Collect, Collected, Replace,
                    ReadManifest, ReplaceIndex, Compare, SaveAll, Upsert, locals
    <2> QED
        BY <2>1, <2>2, <2>3
<1>7. UNCHANGED vars => UNCHANGED seen
    BY DEF vars, locals
<1> QED
    BY <1>1, <1>2, <1>3, <1>4, <1>5, <1>6, <1>7 DEF Next

\* A refresh reads parts that are listed as done, their artifacts and the manifest.
LEMMA ReadIsTold ==
    ASSUME TypeOK, StoredCounts, ReadCounts, ListedCounts, [Next]_vars
    PROVE  \A q \in Procs, p \in Parts : ReadBy(q, p)' => Counted(p)
<1>1. /\ todo \in [Procs -> SUBSET Parts] /\ got \in [Procs -> [Parts -> PartDocs]]
      /\ entries \in [Procs -> [Parts -> 0..MaxRuns]]
    BY DEF TypeOK, LocalsOK
<1>2. UNCHANGED <<todo, got, entries>> => \A q \in Procs, p \in Parts : ReadBy(q, p)' => Counted(p)
    BY DEF ReadCounts, ReadBy
<1>3. ASSUME NEW q \in Procs, Forget(q) PROVE \A v \in Procs, p \in Parts : ReadBy(v, p)' => Counted(p)
    BY <1>1, <1>3 DEF Forget, ReadCounts, ReadBy
<1>4. ASSUME NEW q \in Procs, ListMerge(q) PROVE \A v \in Procs, p \in Parts : ReadBy(v, p)' => Counted(p)
    <2>1. PICK done \in SUBSET Parts : todo' = [todo EXCEPT ![q] = done] /\ \A p \in done : Counted(p)
        <3>1. \A rows : Truthful(rows) => \A p \in DoneIn(rows) : Counted(p)
            BY DEF Truthful, DoneIn
        <3>2. Truthful(Latest) /\ Truthful(cache)
            BY LatestTruthful DEF ListedCounts
        <3>3. CASE FromCache
            BY <1>4, <3>1, <3>2, <3>3 DEF ListMerge, DoneIn
        <3>4. CASE ~FromCache
            BY <1>4, <3>1, <3>2, <3>4 DEF ListMerge, DoneIn
        <3> QED
            BY <3>3, <3>4
    <2>2. UNCHANGED <<got, entries>>
        BY <1>4 DEF ListMerge
    <2> QED
        BY <1>1, <2>1, <2>2 DEF ReadCounts, ReadBy
<1>5. ASSUME NEW q \in Procs, NEW a \in Parts, Collect(q, a)
      PROVE  \A v \in Procs, p \in Parts : ReadBy(v, p)' => Counted(p)
    <2>1. Counted(a)
        BY <1>5 DEF Collect, ReadCounts, ReadBy
    <2>2. /\ got' = [got EXCEPT ![q][a] = partDoc[a]] /\ todo' = [todo EXCEPT ![q] = @ \ {a}]
          /\ UNCHANGED entries
        BY <1>5 DEF Collect
    <2>3. \A v \in Procs, p \in Parts : p # a => (p \in todo'[v] => p \in todo[v]) /\ got'[v][p] = got[v][p]
        BY <1>1, <2>2
    <2> QED
        BY <2>1, <2>2, <2>3 DEF ReadCounts, ReadBy
<1>6. ASSUME NEW q \in Procs, ReadManifest(q) PROVE \A v \in Procs, p \in Parts : ReadBy(v, p)' => Counted(p)
    <2>1. \A p \in Parts : manifest[p] # 0 => Counted(p)
        BY DEF StoredCounts, Stored
    <2> QED
        BY <1>1, <1>6, <2>1 DEF ReadManifest, ReadCounts, ReadBy
<1>7. ASSUME NEW w \in Workers, ExecuteStep(w) PROVE UNCHANGED <<todo, got, entries>> \/ (w \in Procs /\ Forget(w))
    BY <1>7 DEF ExecuteStep, Claim, SavePart, FinishPart, LoseClaim, Crash, FailPart, Recover, locals, Procs
<1>8. ASSUME ApiStep PROVE UNCHANGED <<todo, got, entries>> \/ (Api \in Procs /\ Forget(Api))
    BY <1>8 DEF ApiStep, Plan, Partial, CreatePart, Rerun, CancelRows, ViewRows, ViewAssign, Assign,
                CancelWrite, locals, Procs
<1>9. ASSUME NEW q \in Procs, Remember(q) \/ RefreshStep(q)
      PROVE  \/ UNCHANGED <<todo, got, entries>> \/ Forget(q) \/ ListMerge(q) \/ ReadManifest(q)
             \/ \E p \in Parts : Collect(q, p)
    BY <1>9 DEF Remember, RefreshStep, ReadParent, ReadRows, Assign, NothingToMerge, Collected, Replace,
                ReplaceIndex, Compare, SaveAll, Upsert, SetParent, locals
<1>10. UNCHANGED vars => UNCHANGED <<todo, got, entries>>
    BY DEF vars, locals
<1> QED
    BY <1>2, <1>3, <1>4, <1>5, <1>6, <1>7, <1>8, <1>9, <1>10 DEF Next

\* What is stored in the parent was read of a part before, or was there.
LEMMA StoredIsTold ==
    ASSUME TypeOK, StoredCounts, ReadCounts, [Next]_vars
    PROVE  \A p \in Parts : Stored(p)' => Counted(p)
<1>1. /\ merged \in [Parts -> MergedParts] /\ manifest \in [Parts -> 0..MaxRuns]
      /\ entries \in [Procs -> [Parts -> 0..MaxRuns]]
    BY DEF TypeOK, StoreOK, LocalsOK
<1>2. UNCHANGED <<merged, manifest>> => \A p \in Parts : Stored(p)' => Counted(p)
    BY DEF StoredCounts, Stored
<1>3. \A q \in Procs, p \in Parts : got[q][p].blocks # 0 \/ got[q][p].chunks # 0 => Counted(p)
    BY DEF ReadCounts, ReadBy, Nothing
<1>4. \A q \in Procs, p \in Parts : entries[q][p] # 0 => Counted(p)
    BY DEF ReadCounts, ReadBy
<1>5. \A p \in Parts : ~Counted(p) => merged[p] = [blocks |-> 0, chunks |-> 0, index |-> 0] /\ manifest[p] = 0
    BY DEF StoredCounts, Stored
<1>6. ASSUME NEW q \in Procs,
             \/ Replace(q, "replaceBlocks", "replaceChunks", "blocks")
             \/ Replace(q, "replaceChunks", "readManifest", "chunks")
             \/ SaveAll(q, "saveBlocks", "saveChunks", "blocks")
             \/ SaveAll(q, "saveChunks", "upsert", "chunks")
      PROVE  \A p \in Parts : Stored(p)' => Counted(p)
    <2> SUFFICES ASSUME NEW p \in Parts, ~Counted(p)
                 PROVE  merged'[p] = [blocks |-> 0, chunks |-> 0, index |-> 0] /\ manifest'[p] = 0
        BY DEF Stored
    <2>1. got[q][p].blocks = 0 /\ got[q][p].chunks = 0
        BY <1>3
    <2>2. merged[p] = [blocks |-> 0, chunks |-> 0, index |-> 0] /\ manifest[p] = 0
        BY <1>5
    <2>3. manifest' = manifest
        BY <1>6 DEF Replace, SaveAll
    <2>4. CASE Replace(q, "replaceBlocks", "replaceChunks", "blocks")
        BY <1>1, <2>1, <2>2, <2>3, <2>4 DEF Replace
    <2>5. CASE Replace(q, "replaceChunks", "readManifest", "chunks")
        BY <1>1, <2>1, <2>2, <2>3, <2>5 DEF Replace
    <2>6. CASE SaveAll(q, "saveBlocks", "saveChunks", "blocks")
        <3>1. merged'[p] = [merged[p] EXCEPT !.blocks = got[q][p].blocks]
            BY <2>6 DEF SaveAll
        <3> QED
            BY <2>1, <2>2, <2>3, <3>1
    <2>7. CASE SaveAll(q, "saveChunks", "upsert", "chunks")
        <3>1. merged'[p] = [merged[p] EXCEPT !.chunks = got[q][p].chunks]
            BY <2>7 DEF SaveAll
        <3> QED
            BY <2>1, <2>2, <2>3, <3>1
    <2> QED
        BY <1>6, <2>4, <2>5, <2>6, <2>7
<1>7. ASSUME NEW q \in Procs, ReplaceIndex(q) \/ Upsert(q) PROVE \A p \in Parts : Stored(p)' => Counted(p)
    <2> SUFFICES ASSUME NEW p \in Parts, ~Counted(p)
                 PROVE  merged'[p] = [blocks |-> 0, chunks |-> 0, index |-> 0] /\ manifest'[p] = 0
        BY DEF Stored
    <2>1. got[q][p].blocks = 0 /\ got[q][p].chunks = 0 /\ entries[q][p] = 0
        BY <1>3, <1>4
    <2>2. merged[p] = [blocks |-> 0, chunks |-> 0, index |-> 0]
        BY <1>5
    <2>3. CASE ReplaceIndex(q)
        BY <1>1, <2>1, <2>2, <2>3 DEF ReplaceIndex
    <2>4. CASE Upsert(q)
        BY <1>1, <2>1, <2>2, <2>4 DEF Upsert
    <2> QED
        BY <1>7, <2>3, <2>4
<1>8. ASSUME NEW w \in Workers, ExecuteStep(w) PROVE UNCHANGED <<merged, manifest>>
    BY <1>8 DEF ExecuteStep, Claim, SavePart, FinishPart, LoseClaim, Crash, FailPart, Recover, store
<1>9. ASSUME ApiStep PROVE UNCHANGED <<merged, manifest>>
    BY <1>9 DEF ApiStep, Plan, Partial, CreatePart, CreateJob, Rerun, CancelRows, ViewRows, ViewAssign,
                Assign, CancelWrite, store
<1>10. ASSUME NEW q \in Procs, Remember(q) \/ RefreshStep(q)
       PROVE  \/ UNCHANGED <<merged, manifest>> \/ ReplaceIndex(q) \/ Upsert(q)
              \/ Replace(q, "replaceBlocks", "replaceChunks", "blocks")
              \/ Replace(q, "replaceChunks", "readManifest", "chunks")
              \/ SaveAll(q, "saveBlocks", "saveChunks", "blocks")
              \/ SaveAll(q, "saveChunks", "upsert", "chunks")
    BY <1>10 DEF Remember, RefreshStep, ReadParent, ReadRows, Assign, NothingToMerge, ListMerge, Collect,
                 Collected, ReadManifest, Compare, SetParent, store
<1>11. UNCHANGED vars => UNCHANGED <<merged, manifest>>
    BY DEF vars, store
<1> QED
    BY <1>2, <1>6, <1>7, <1>8, <1>9, <1>10, <1>11 DEF Next
-----------------------------------------------------------------------------
(* Inline mode.                                                            *)

\* Whoever has more to do than to prepare finds all parts with a job.
LEMMA AtWorkAllIsComplete ==
    ASSUME NobodyIsEarly, NEW q \in Procs, pc[q] \notin Preparing
    PROVE  Complete
BY DEF NobodyIsEarly, Procs, Preparing

\* Then a listing has all parts.
LEMMA LatestHasAll ==
    ASSUME TypeOK, Complete
    PROVE  \A p \in Parts : Latest[p] # <<0, "absent">>
<1>1. \A p \in Parts : Latest[p] = <<runs[p], LatestState(p)>> /\ runs[p] # 0
    BY DEF Latest, Complete
<1> QED
    BY <1>1

\* The runner is given no job before the call has created them all.
LEMMA EarlyStep ==
    ASSUME TypeOK, RowsExist, OneRow, Cached, NobodyIsEarly, [Next]_vars
    PROVE  NobodyIsEarly'
<1>1. Complete => Complete'
    <2>1. \A p \in Parts : runs[p] \in Nat /\ runs'[p] \in Nat /\ runs[p] =< runs'[p]
        BY RowsGoOn DEF TypeOK, StoreOK
    <2> QED
        BY <2>1 DEF Complete
<1>2. CASE Complete
    BY <1>1, <1>2 DEF NobodyIsEarly
<1>3. CASE ~Complete
    <2>1. /\ \A w \in Workers : pc[w] = "idle"
          /\ pc[Api] \in {"idle", "partial", "createParts"}
          /\ \A p \in Parts, r \in Runs :
                row[p][r] \in {"absent", "pending"} /\ (row[p][r] = "pending" => <<p, r>> \in unsubmitted)
          /\ pc \in [Procs -> Execute \cup Calls \cup Refresh] /\ Api \in Procs
        BY <1>3 DEF NobodyIsEarly, Preparing, TypeOK, ControlOK, Procs
    <2>2. ASSUME NEW w \in Workers, ExecuteStep(w) PROVE FALSE
        BY <2>1, <2>2 DEF ExecuteStep, Claim, RunnerStarts, SavePart, FinishPart, FailPart, LoseClaim, Crash,
                          Recover, Goto
    <2>3. ASSUME NEW q \in Procs, Remember(q) \/ RefreshStep(q) PROVE FALSE
        <3>1. pc[q] \in {"idle", "partial", "createParts"}
            BY <2>1 DEF Procs
        <3> QED
            BY <2>3, <3>1 DEF Remember, RefreshStep, ReadParent, ReadRows, Assign, NothingToMerge, ListMerge,
                       Collect, Collected, Replace, ReadManifest, ReplaceIndex, Compare, SaveAll, Upsert,
                       SetParent, Goto
    <2>4. ASSUME NEW p \in Parts, CreatePart(p) PROVE NobodyIsEarly'
        <3>1. /\ runs' = [runs EXCEPT ![p] = runs[p] + 1]
              /\ row' = [row EXCEPT ![p][runs[p] + 1] = "pending"]
              /\ unsubmitted' = unsubmitted \cup {<<p, runs[p] + 1>>}
            BY <2>4 DEF CreatePart, CreateJob
        <3>2. "pending" \in PartRows
            BY DEF PartRows
        <3>3. \A a \in Parts, r \in Runs :
                  row'[a][r] = IF a = p /\ r = runs[p] + 1 THEN "pending" ELSE row[a][r]
            BY <3>1, <3>2, RowWritten DEF TypeOK
        <3>4. ASSUME NEW a \in Parts, NEW r \in Runs
              PROVE  row'[a][r] \in {"absent", "pending"} /\ (row'[a][r] = "pending" => <<a, r>> \in unsubmitted')
            <4>1. CASE a = p /\ r = runs[p] + 1
                BY <3>1, <3>3, <4>1
            <4>2. CASE ~(a = p /\ r = runs[p] + 1)
                BY <2>1, <3>1, <3>3, <4>2
            <4> QED
                BY <4>1, <4>2
        <3>5. \A w \in Workers : pc'[w] = "idle"
            BY <2>1, <2>4 DEF CreatePart, Procs
        <3>6. CASE p = NumParts
            <4>1. \A a \in Parts : a = p \/ a \in 1..(p - 1)
                BY <3>6 DEF Parts
            <4>2. runs[p] + 1 # 0
                BY DEF TypeOK, StoreOK
            <4>3. Complete'
                BY <2>4, <3>1, <4>1, <4>2 DEF CreatePart, Complete, TypeOK, StoreOK
            <4> QED
                BY <4>3 DEF NobodyIsEarly
        <3>7. CASE p # NumParts
            <4>1. pc'[Api] = "createParts"
                BY <2>1, <2>4, <3>7 DEF CreatePart
            <4> QED
                BY <3>4, <3>5, <4>1 DEF NobodyIsEarly, Preparing
        <3> QED
            BY <3>6, <3>7
    <2>5. ASSUME Plan \/ Partial PROVE NobodyIsEarly'
        <3>1. UNCHANGED <<runs, row, unsubmitted>>
            BY <2>5 DEF Plan, Partial
        <3>2. pc'[Api] \in Preparing /\ \A w \in Workers : pc'[w] = "idle"
            BY <2>1, <2>5 DEF Plan, Partial, Goto, Preparing, Procs
        <3> QED
            BY <2>1, <3>1, <3>2 DEF NobodyIsEarly
    <2>6. ASSUME \/ ViewRows \/ ViewAssign \/ Assign(Api, "cancelAssign", "cancelWrite") \/ CancelWrite
                 \/ \E p \in Parts : Rerun(p) \/ CancelRows(p)
          PROVE  FALSE
        BY <1>3, <2>1, <2>6 DEF ViewRows, ViewAssign, Assign, CancelWrite, Rerun, CancelRows, Planned,
                               Complete, Goto
    <2>7. UNCHANGED vars => NobodyIsEarly'
        BY DEF vars, store, NobodyIsEarly, Complete
    <2> QED
        BY <2>2, <2>3, <2>4, <2>5, <2>6, <2>7 DEF Next, ApiStep
<1> QED
    BY <1>2, <1>3

\* Entries are only added to the cache, and listings replace it that have all parts.
LEMMA MissingStep ==
    ASSUME TypeOK, WorkExists, Cached, NobodyIsEarly, NoneIsMissing, [Next]_vars
    PROVE  NoneIsMissing'
<1>1. /\ cache \in Listings /\ runs \in [Parts -> 0..MaxRuns] /\ seen \in [Procs -> Listings]
      /\ pc \in [Procs -> Execute \cup Calls \cup Refresh] /\ Api \in Procs
    BY DEF TypeOK, StoreOK, LocalsOK, ControlOK, Procs
<1> DEFINE CacheHas == \A p \in Parts : runs[p] # 0 => cache[p] # <<0, "absent">>
           Takes == {"assign", "assignMerge", "viewAssign", "cancelAssign"}
           ListHas(q) == pc[q] \in Takes => \A p \in Parts : seen[q][p] # <<0, "absent">>
<1>2. CacheHas /\ \A q \in Procs : ListHas(q)
    BY DEF NoneIsMissing
<1>3. ASSUME NEW q \in Procs, pc[q] \in Takes, cache' = seen[q] PROVE CacheHas'
    BY <1>2, <1>3
<1>4. CacheHas'
    <2>1. UNCHANGED <<runs, cache>> => CacheHas'
        BY <1>2
    <2>2. ASSUME NEW q \in Procs, Remember(q) PROVE CacheHas'
        <3>1. UNCHANGED runs
            BY <2>2 DEF Remember
        <3>2. CASE part[q] \notin Parts
            <4>1. cache' = cache
                BY <1>1, <2>2, <3>2 DEF Remember, Remembered, Listings
            <4> QED
                BY <2>1, <3>1, <4>1
        <3>3. CASE part[q] \in Parts
            <4>1. run[q] # 0
                BY <1>1, <3>3 DEF WorkExists
            <4>2. cache' = [cache EXCEPT ![part[q]] = <<run[q], row[part[q]][run[q]]>>]
                BY <2>2 DEF Remember, Remembered
            <4> QED
                BY <1>1, <1>2, <3>1, <4>1, <4>2 DEF Listings
        <3> QED
            BY <3>2, <3>3
    <2>3. ASSUME NEW p \in Parts, CreateJob(p) PROVE CacheHas'
        <3>1. runs' = [runs EXCEPT ![p] = runs[p] + 1] /\ cache' = [cache EXCEPT ![p] = <<runs[p] + 1, "pending">>]
            BY <2>3 DEF CreateJob
        <3>2. <<runs[p] + 1, "pending">> # <<0, "absent">>
            OBVIOUS
        <3> QED
            BY <1>1, <1>2, <3>1, <3>2 DEF Listings
    <2>4. ASSUME NEW w \in Workers, ExecuteStep(w) PROVE UNCHANGED <<runs, cache>>
        BY <2>4 DEF ExecuteStep, Claim, SavePart, FinishPart, LoseClaim, Crash, FailPart, Recover, store
    <2>5. ASSUME ApiStep
          PROVE  \/ UNCHANGED <<runs, cache>> \/ \E p \in Parts : CreateJob(p)
                 \/ pc[Api] \in Takes /\ cache' = seen[Api]
        BY <2>5 DEF ApiStep, Plan, Partial, CreatePart, Rerun, CancelRows, ViewRows, ViewAssign, Assign,
                    CancelWrite, store, Goto
    <2>6. ASSUME NEW q \in Procs, RefreshStep(q)
          PROVE  UNCHANGED <<runs, cache>> \/ (pc[q] \in Takes /\ cache' = seen[q])
        BY <2>6 DEF RefreshStep, ReadParent, ReadRows, Assign, NothingToMerge, ListMerge, Collect, Collected,
                    Replace, ReadManifest, ReplaceIndex, Compare, SaveAll, Upsert, SetParent, store, Goto
    <2>7. UNCHANGED vars => UNCHANGED <<runs, cache>>
        BY DEF vars, store
    <2> QED
        BY <1>1, <1>3, <2>1, <2>2, <2>3, <2>4, <2>5, <2>6, <2>7 DEF Next
<1>5. ASSUME NEW q \in Procs PROVE ListHas(q)'
    <2>1. CASE pc'[q] \notin Takes
        BY <2>1
    <2>2. CASE seen'[q] = seen[q] /\ pc[q] \in Takes
        BY <1>2, <2>2
    <2>3. CASE Complete /\ seen'[q] = Latest
        BY <2>3, LatestHasAll
    <2>4. ASSUME NEW w \in Workers, ExecuteStep(w) PROVE ListHas(q)'
        <3>1. /\ w # Api /\ w \in Procs /\ pc[w] \notin {"viewAssign", "cancelAssign"}
              /\ pc'[w] \notin Takes
            BY <1>1, <2>4 DEF ExecuteStep, Claim, SavePart, FinishPart, LoseClaim, Crash, FailPart, Recover, Goto,
                              Procs, TypeOK, ControlOK, Execute, Refresh
        <3>2. \A v \in Procs \ {w} : pc'[v] = pc[v] /\ seen'[v] = seen[v]
            BY <1>1, <2>4 DEF ExecuteStep, Claim, SavePart, FinishPart, LoseClaim, Crash, FailPart, Recover, Goto,
                              Forget, locals
        <3> QED
            BY <1>2, <3>1, <3>2
    <2>5. ASSUME ApiStep PROVE ListHas(q)'
        <3>1. \A v \in Procs \ {Api} : pc'[v] = pc[v] /\ seen'[v] = seen[v]
            BY <1>1, <2>5 DEF ApiStep, Plan, Partial, CreatePart, Rerun, CancelRows, ViewRows, ViewAssign, Assign,
                              CancelWrite, Goto, Forget, locals
        <3>2. \/ pc'[Api] \notin Takes
              \/ Planned /\ seen'[Api] = Latest
            BY <1>1, <2>5 DEF ApiStep, Plan, Partial, CreatePart, Rerun, CancelRows, ViewRows, ViewAssign, Assign,
                              CancelWrite, Goto
        <3>3. Planned => Complete
            BY DEF Planned, Complete
        <3> QED
            BY <1>2, <2>3, <3>1, <3>2, <3>3
    <2>6. ASSUME NEW v \in Procs, Remember(v) \/ RefreshStep(v) PROVE ListHas(q)'
        <3>1. \A u \in Procs \ {v} : pc'[u] = pc[u] /\ seen'[u] = seen[u]
            BY <1>1, <2>6 DEF Remember, RefreshStep, ReadParent, ReadRows, Assign, NothingToMerge, ListMerge, Collect,
                              Collected, Replace, ReadManifest, ReplaceIndex, Compare, SaveAll, Upsert, SetParent,
                              Goto, Forget, locals
        <3>2. \/ pc'[v] \notin Takes
              \/ ReadRows(v) /\ ~FromCache
              \/ ListMerge(v) /\ ~FromCache
            BY <1>1, <2>6 DEF Remember, RefreshStep, ReadParent, ReadRows, Assign, NothingToMerge, ListMerge, Collect,
                              Collected, Replace, ReadManifest, ReplaceIndex, Compare, SaveAll, Upsert, SetParent,
                              Goto
        <3>3. (ReadRows(v) \/ ListMerge(v)) /\ ~FromCache => Complete /\ seen'[v] = Latest
            <4>1. ReadRows(v) \/ ListMerge(v) => pc[v] \notin Preparing
                BY DEF ReadRows, ListMerge, Goto, Preparing
            <4>2. (ReadRows(v) \/ ListMerge(v)) /\ ~FromCache => seen'[v] = Latest
                BY <1>1 DEF ReadRows, ListMerge
            <4> QED
                BY <4>1, <4>2, AtWorkAllIsComplete
        <3> QED
            BY <1>2, <2>3, <3>1, <3>2, <3>3
    <2>7. UNCHANGED vars => ListHas(q)'
        BY <1>2 DEF vars, locals
    <2> QED
        BY <2>4, <2>5, <2>6, <2>7 DEF Next
<1> QED
    BY <1>4, <1>5 DEF NoneIsMissing
\* The part that is being cancelled is not claimed, and nobody else writes its row.
LEMMA CancelStep ==
    ASSUME TypeOK, Cached, CancelledWaits, [Next]_vars
    PROVE  CancelledWaits'
<1>1. /\ pc \in [Procs -> Execute \cup Calls \cup Refresh] /\ part \in [Procs -> Parts \cup {NoPart}]
      /\ run \in [Procs -> 0..MaxRuns] /\ Api \in Procs
    BY DEF TypeOK, ControlOK, LocalsOK, Procs
<1> DEFINE Cancelling == {"cancelAssign", "cancelWrite"}
<1>2. UNCHANGED <<row, part, run, pc>> => CancelledWaits'
    BY DEF CancelledWaits
<1>3. ASSUME pc[Api] \in Cancelling, part'[Api] = part[Api], run'[Api] = run[Api],
             row'[part[Api]][run[Api]] = row[part[Api]][run[Api]]
      PROVE  CancelledWaits'
    BY <1>3 DEF CancelledWaits
<1>4. ASSUME NEW w \in Workers, ExecuteStep(w) PROVE CancelledWaits'
    <2>1. w \in Procs /\ w # Api
        BY DEF Procs
    <2>2. pc'[Api] = pc[Api] /\ part'[Api] = part[Api] /\ run'[Api] = run[Api]
        BY <1>1, <1>4, <2>1 DEF ExecuteStep, Claim, SavePart, FinishPart, LoseClaim, Crash, FailPart, Recover, Goto,
                                Forget, locals
    <2>3. CASE pc[Api] \in Cancelling
        <3> DEFINE a == part[Api]
                   b == run[Api]
        <3>1. a \in Parts /\ row[a][b] = "pending"
            BY <2>3 DEF CancelledWaits
        <3>2. ASSUME NEW p, NEW r, NEW s, row' = [row EXCEPT ![p][r] = s], p # a \/ r # b
              PROVE  row'[a][b] = row[a][b]
            BY <3>1, <3>2 DEF TypeOK, StoreOK
        <3>3. ASSUME NEW p \in Parts, NEW r \in Runs, Claim(w, p, r) PROVE row'[a][b] = row[a][b]
            <4>1. p # a
                BY <2>3, <3>3 DEF Claim, RunnerStarts
            <4> QED
                BY <3>2, <3>3, <4>1 DEF Claim
        <3>4. ASSUME row[part[w]][run[w]] = "active", NEW s, row' = [row EXCEPT ![part[w]][run[w]] = s]
              PROVE  row'[a][b] = row[a][b]
            <4>1. part[w] # a \/ run[w] # b
                BY <3>1, <3>4
            <4> QED
                BY <3>2, <3>4, <4>1
        <3>5. ASSUME NEW p \in Parts, NEW r \in Runs, NEW s, Recover(w, p, r, s) PROVE row'[a][b] = row[a][b]
            <4>1. p # a \/ r # b
                BY <3>1, <3>5 DEF Recover
            <4> QED
                BY <3>2, <3>5, <4>1 DEF Recover
        <3>6. FinishPart(w) \/ (\E s \in {"pending", "failed"} : FailPart(w, s)) => row'[a][b] = row[a][b]
            BY <3>4 DEF FinishPart, FailPart, HasClaim
        <3>7. ASSUME \/ SavePart(w, "saveBlocksOfPart", "saveChunksOfPart", "blocks")
                     \/ SavePart(w, "saveChunksOfPart", "finish", "chunks")
                     \/ LoseClaim(w) \/ Crash(w)
              PROVE  UNCHANGED row
            BY <3>7 DEF SavePart, LoseClaim, Crash, store
        <3>8. row'[a][b] = row[a][b]
            BY <1>4, <3>3, <3>5, <3>6, <3>7 DEF ExecuteStep
        <3> QED
            BY <1>3, <2>2, <2>3, <3>8
    <2>4. CASE pc[Api] \notin Cancelling
        BY <2>2, <2>4 DEF CancelledWaits
    <2> QED
        BY <2>3, <2>4
<1>5. ASSUME ApiStep PROVE CancelledWaits'
    <2>1. ASSUME NEW p \in Parts, CancelRows(p) PROVE CancelledWaits'
        <3>1. runs[p] # 0 /\ row[p][runs[p]] = "pending"
            BY <2>1 DEF CancelRows, LatestState
        <3>2. part'[Api] = p /\ run'[Api] = runs[p] /\ UNCHANGED row
            BY <1>1, <2>1 DEF CancelRows, store
        <3> QED
            BY <3>1, <3>2 DEF CancelledWaits
    <2>2. ASSUME Assign(Api, "cancelAssign", "cancelWrite") PROVE CancelledWaits'
        <3>1. pc[Api] \in Cancelling /\ UNCHANGED <<row, part, run>>
            BY <2>2 DEF Assign, Goto, locals
        <3> QED
            BY <1>3, <3>1
    <2>3. ASSUME \/ Plan \/ Partial \/ ViewRows \/ ViewAssign \/ CancelWrite
                 \/ \E p \in Parts : CreatePart(p) \/ Rerun(p)
          PROVE  pc'[Api] \notin Cancelling
        BY <1>1, <2>3 DEF Plan, Partial, ViewRows, ViewAssign, CancelWrite, CreatePart, Rerun, Goto
    <2> QED
        BY <1>5, <2>1, <2>2, <2>3 DEF ApiStep, CancelledWaits
<1>6. ASSUME NEW q \in Procs, Remember(q) \/ RefreshStep(q) PROVE CancelledWaits'
    <2>1. /\ pc[q] \notin Cancelling /\ pc'[q] \notin Cancelling /\ UNCHANGED row
          /\ \A v \in Procs \ {q} : pc'[v] = pc[v] /\ part'[v] = part[v] /\ run'[v] = run[v]
        BY <1>1, <1>6 DEF Remember, RefreshStep, ReadParent, ReadRows, Assign, NothingToMerge, ListMerge, Collect,
                          Collected, Replace, ReadManifest, ReplaceIndex, Compare, SaveAll, Upsert, SetParent,
                          Goto, Forget, locals, store
    <2> QED
        BY <1>1, <2>1 DEF CancelledWaits
<1>7. UNCHANGED vars => CancelledWaits'
    BY <1>2 DEF vars, store, locals
<1> QED
    BY <1>4, <1>5, <1>6, <1>7 DEF Next

\* A state is computed of all the parts.
LEMMA DoneStep ==
    ASSUME TypeOK, ListedCounts, OneRow, Cached, Inline, [Next]_vars
    PROVE  DoneIsComplete'
<1>1. CASE \A p \in Parts : Counted(p)
    BY <1>1, CountedStays DEF DoneIsComplete
<1>2. CASE ~(\A p \in Parts : Counted(p))
    <2>1. /\ parent # "done" /\ \A q \in Procs : newState[q] # "done"
          /\ newState \in [Procs -> ParentStates] /\ Api \in Procs
        BY <1>2 DEF Inline, DoneIsComplete, TypeOK, LocalsOK, Procs
    <2>2. ASSUME NEW rows, Truthful(rows), \A p \in Parts : rows[p] # <<0, "absent">>
          PROVE  PartitionParentState(rows) # "done"
        <3>1. Known(rows) = Parts
            BY <2>2 DEF Known
        <3>2. DoneIn(rows) # Parts
            BY <1>2, <2>2 DEF Truthful, DoneIn
        <3> QED
            BY <3>1, <3>2 DEF PartitionParentState
    <2>3. ASSUME NEW q \in Procs, ReadRows(q) PROVE parent' = parent /\ \A v \in Procs : newState'[v] # "done"
        <3>1. Complete
            <4>1. pc[q] \notin Preparing
                BY <2>3 DEF ReadRows, Goto, Preparing
            <4> QED
                BY <4>1, AtWorkAllIsComplete DEF Inline
        <3>2. CASE FromCache
            <4>1. newState' = [newState EXCEPT ![q] = PartitionParentState(cache)]
                BY <2>3, <3>2 DEF ReadRows
            <4>2. Truthful(cache) /\ \A p \in Parts : cache[p] # <<0, "absent">>
                BY <3>1 DEF ListedCounts, Inline, NoneIsMissing, Complete
            <4> QED
                BY <2>1, <2>2, <2>3, <4>1, <4>2 DEF ReadRows, store
        <3>3. CASE ~FromCache
            <4>1. newState' = [newState EXCEPT ![q] = PartitionParentState(Latest)]
                BY <2>3, <3>3 DEF ReadRows
            <4>2. Truthful(Latest) /\ \A p \in Parts : Latest[p] # <<0, "absent">>
                BY <3>1, LatestTruthful, LatestHasAll
            <4> QED
                BY <2>1, <2>2, <2>3, <4>1, <4>2 DEF ReadRows, store
        <3> QED
            BY <3>2, <3>3
    <2>4. ASSUME NEW q \in Procs, SetParent(q)
          PROVE  parent' # "done" /\ \A v \in Procs : newState'[v] # "done"
        BY <2>1, <2>4 DEF SetParent, Forget
    <2>5. ASSUME NEW w \in Workers, ExecuteStep(w)
          PROVE  parent' = parent /\ \A v \in Procs : newState'[v] # "done"
        BY <2>1, <2>5 DEF ExecuteStep, Claim, SavePart, FinishPart, LoseClaim, Crash, FailPart, Recover, Forget,
                          store, locals
    <2>6. ASSUME ApiStep PROVE parent' # "done" /\ \A v \in Procs : newState'[v] # "done"
        BY <2>1, <2>6 DEF ApiStep, Plan, Partial, CreatePart, CreateJob, Rerun, CancelRows, ViewRows, ViewAssign,
                          Assign, CancelWrite, Forget, store, locals
    <2>7. ASSUME NEW q \in Procs, Remember(q) \/ RefreshStep(q)
          PROVE  ReadRows(q) \/ SetParent(q) \/ UNCHANGED <<parent, newState>>
        BY <2>7 DEF Remember, RefreshStep, ReadParent, Assign, NothingToMerge, ListMerge, Collect, Collected,
                    Replace, ReadManifest, ReplaceIndex, Compare, SaveAll, Upsert, store, locals
    <2>8. UNCHANGED vars => UNCHANGED <<parent, newState>>
        BY DEF vars, store, locals
    <2>9. parent' # "done" /\ \A v \in Procs : newState'[v] # "done"
        BY <2>1, <2>3, <2>4, <2>5, <2>6, <2>7, <2>8 DEF Next
    <2> QED
        BY <2>9 DEF DoneIsComplete
<1> QED
    BY <1>1, <1>2

-----------------------------------------------------------------------------
\* In the beginning there is nothing.
LEMMA ParentStarts == ASSUME Init PROVE ParentInv
<1>1. Empty \in Listings /\ Nothing \in PartDocs /\ [blocks |-> 0, chunks |-> 0, index |-> 0] \in MergedParts
    BY DEF Empty, Listings, PartRows, Nothing, PartDocs, MergedParts
<1>2. TypeOK
    <2>1. StoreOK
        BY <1>1 DEF Init, StoreOK, ParentStates, PartRows
    <2>2. ControlOK
        BY DEF Init, ControlOK, Execute, Calls, Procs
    <2>3. LocalsOK
        BY <1>1 DEF Init, LocalsOK, ParentStates, NoPart
    <2> QED
        BY <2>1, <2>2, <2>3 DEF TypeOK
<1>3. RowsExist /\ WorkExists
    BY DEF Init, RowsExist, WorkExists, Runs, NoPart, Parts
<1>4. StoredCounts /\ ReadCounts
    BY DEF Init, StoredCounts, Stored, ReadCounts, ReadBy
<1>5. ListedCounts
    BY DEF Init, ListedCounts, Truthful, Empty
<1>6. NobodyIsEarly
    BY DEF Init, NobodyIsEarly, Preparing, Procs
<1>7. NoneIsMissing /\ CancelledWaits
    BY DEF Init, NoneIsMissing, CancelledWaits, Procs
<1>8. DoneIsComplete
    BY DEF Init, DoneIsComplete
<1> QED
    BY <1>2, <1>3, <1>4, <1>5, <1>6, <1>7, <1>8 DEF ParentInv, Inline

\* Every step keeps the invariant.
LEMMA ParentStep == ASSUME ParentInv, [Next]_vars PROVE ParentInv'
<1>1. /\ TypeOK /\ RowsExist /\ WorkExists /\ StoredCounts /\ ReadCounts /\ ListedCounts
      /\ (Cached => Inline /\ CancelledWaits)
    BY DEF ParentInv, Inline
<1>2. OneRow
    BY <1>1, StepOneRow
<1>3. TypeOK'
    <2>1. UNCHANGED vars => TypeOK'
        BY <1>1 DEF vars, store, locals, TypeOK, StoreOK, ControlOK, LocalsOK
    <2> QED
        BY <1>1, <2>1, ExecuteFits, ApiFits, RefreshFits DEF Next
<1>4. RowsExist' /\ WorkExists'
    BY <1>1, <1>2, RowsGoOn, WorkGoesOn
<1>5. \A p \in Parts : Counted(p) => Counted(p)'
    BY <1>1, <1>2, CountedStays
<1>6. StoredCounts' /\ ReadCounts'
    BY <1>1, <1>5, StoredIsTold, ReadIsTold DEF StoredCounts, ReadCounts
<1>7. ListedCounts'
    BY <1>1, <1>5, CacheIsTold, ListingIsTold DEF ListedCounts, Truthful
<1>8. Cached => Inline'
    BY <1>1, <1>2, EarlyStep, MissingStep, CancelStep, DoneStep DEF Inline
<1> QED
    BY <1>3, <1>4, <1>6, <1>7, <1>8 DEF ParentInv

\* For any number of executors, parts, reruns and crashes, in both modes, whether parts
\* fail, are cancelled or are read: every value has its type, what the parent holds is of
\* parts that have been done, and in inline mode the parent is done only if all of its
\* parts have been, although it is refreshed by several threads from rows and a cache
\* that may be out of date (refresh_partitioned_parent, _merged_partition_artifacts).
THEOREM ParentCountsDone == Spec => [](TypeOK /\ OnlyDoneCounts)
<1>1. Init => ParentInv
    BY ParentStarts
<1>2. ParentInv /\ [Next]_vars => ParentInv'
    BY ParentStep
<1>3. ParentInv => TypeOK /\ OnlyDoneCounts
    <2> SUFFICES ASSUME ParentInv PROVE TypeOK /\ OnlyDoneCounts
        OBVIOUS
    <2>1. \A p \in Parts : Counted(p) =>
              \E r \in Runs : row[p][r] \in {"done"} \cup (IF Cached THEN {} ELSE {"cancelled"})
        BY DEF Counted, Counts
    <2>2. OnlyDonePartsAreMerged
        BY <2>1 DEF ParentInv, StoredCounts, Stored, OnlyDonePartsAreMerged
    <2>3. Cached => DoneMeansAllParts
        BY DEF ParentInv, Inline, DoneIsComplete, Counted, Counts, DoneMeansAllParts
    <2> QED
        BY <2>2, <2>3 DEF ParentInv, OnlyDoneCounts
<1> QED
    BY <1>1, <1>2, <1>3, PTL DEF Spec

\* In inline mode a part that is done stays done.
DoneStays == \A p \in Parts, r \in Runs : row[p][r] = "done" => row'[p][r] = "done"
DonePartsStay == [][Cached => DoneStays]_vars

\* No cancellation, which lists the rows in one statement and marks one of them in another,
\* and no late executor takes back a part that is done, since the runner starts none while
\* it is being cancelled (cancel_pdf_part with the lock of the runner); for any constants.
THEOREM DoneIsKept == Spec => DonePartsStay
<1>1. ParentInv /\ [Next]_vars => (Cached => DoneStays)
    <2> SUFFICES ASSUME ParentInv, [Next]_vars, Cached, NEW p \in Parts, NEW r \in Runs, row[p][r] = "done"
                 PROVE  row'[p][r] = "done"
        BY DEF DoneStays
    <2>1. TypeOK /\ OneRow
        BY StepOneRow DEF ParentInv, Inline
    <2>2. CASE UNCHANGED row
        BY <2>2
    <2>3. ASSUME NEW a \in Parts, NEW b \in Runs, NEW s \in PartRows,
                 row' = [row EXCEPT ![a][b] = s], Counts(row[a][b]) => Counts(s)
          PROVE  row'[p][r] = "done"
        <3>1. row'[p][r] = IF p = a /\ r = b THEN s ELSE row[p][r]
            BY <2>1, <2>3, RowWritten DEF TypeOK
        <3> QED
            BY <2>3, <3>1 DEF Counts
    <2> QED
        BY <2>1, <2>2, <2>3 DEF OneRow
<1> QED
    BY <1>1, ParentStarts, ParentStep, PTL DEF Spec, DonePartsStay
-----------------------------------------------------------------------------
(* The first run of a document whose parts succeed: concurrent refreshes   *)
(* leave the parent as one refresh would.                                  *)

\* Inline mode; no part is rerun, fails, is cancelled, or is read meanwhile.
FirstRun == Cached /\ MaxRuns = 1 /\ ~Failures /\ ~Cancels /\ ~Views

Both == [blocks |-> 1, chunks |-> 1]
Whole == [blocks |-> 1, chunks |-> 1, index |-> 1]

\* Where an executor is, from its claim to the end of its refresh.
Writing == {"saveBlocksOfPart", "saveChunksOfPart", "finish"}
Replacing == {"replaceBlocks", "replaceChunks", "readManifest", "replaceIndex"}
Merging == {"remember", "readParent", "readRows", "listMerge", "collect"} \cup Replacing
PastParent == {"readRows", "listMerge", "collect", "setParent"} \cup Replacing
PastRows == PastParent \ {"readRows"}
Planning == {"idle", "partial", "createParts", "readParent", "readRows", "listMerge", "collect", "setParent"}

\* Until the call that plans the parts has returned, nobody else does anything, and its
\* own refresh, a full one, finds nothing to merge.
Early == parent = "absent" \/ pc[Api] # "idle"
NothingIsStarted ==
    /\ pc[Api] \in Planning
    /\ parent \in {"absent", "pending", "partial", "done"}
    /\ parent = "absent" => pc[Api] = "idle"
    /\ parent = "pending" => pc[Api] = "partial"
    /\ Early => /\ \A w \in Workers : pc[w] = "idle"
                /\ \A p \in Parts : /\ row[p][1] \in {"absent", "pending"} /\ cache[p][2] \in {"absent", "pending"}
                                    /\ row[p][1] = "pending" => <<p, 1>> \in unsubmitted
                /\ ~changed[Api] /\ todo[Api] = {} /\ got[Api] = [p \in Parts |-> Nothing]

\* An executor has stored, read and merged what the statements it has passed say.
ExecutorOK(w) ==
    LET p == part[w] IN
    /\ pc[w] = "idle" => ~changed[w]
    /\ pc[w] # "idle" =>
        /\ p \in Parts /\ run[w] = 1
        /\ pc[w] \in Writing \cup Merging \cup {"setParent"}
        /\ pc[w] \in Writing => row[p][1] = "active" /\ ~changed[w]
        /\ pc[w] \notin Writing => row[p][1] = "done" /\ changed[w]
        /\ pc[w] \in {"saveChunksOfPart", "finish"} => partDoc[p].blocks = 1
        /\ pc[w] = "finish" => partDoc[p].chunks = 1
        /\ pc[w] \in Refresh => cache[p][2] = "done"
        /\ pc[w] = "listMerge" => seen[w][p][2] = "done"
        /\ pc[w] = "collect" => todo[w] \subseteq {p} /\ (p \in todo[w] \/ got[w][p] = Both)
        /\ pc[w] \in Replacing => got[w][p] = Both
        /\ pc[w] \in {"replaceChunks", "readManifest", "replaceIndex", "setParent"} => merged[p].blocks = 1
        /\ pc[w] \in {"readManifest", "replaceIndex", "setParent"} => merged[p].chunks = 1
        /\ pc[w] = "setParent" => merged[p].index = 1

\* No part has two executors,
OneEach == \A w, v \in Workers : pc[w] # "idle" /\ pc[v] # "idle" /\ w # v => part[w] # part[v]

\* and what is missing of a part that is done is what its executor has yet to do.
By(p, where) == \E w \in Workers : part[w] = p /\ pc[w] \in where
PartOK(p) ==
    /\ row[p][1] \notin Failed /\ cache[p][2] \notin Failed
    /\ cache[p][2] = "done" => row[p][1] = "done"
    /\ row[p][1] = "active" => By(p, Writing)
    /\ row[p][1] = "done" => /\ partDoc[p] = Both
                             /\ cache[p][2] = "done" \/ By(p, {"remember"})
                             /\ merged[p] = Whole \/ By(p, Merging)

\* Once the cache has all parts as done, the parent is done, or someone is going to see it.
AllDone == \A p \in Parts : cache[p][2] = "done"
Told(q) == pc[q] \in {"readParent", "readRows"} \/ (pc[q] \in PastRows /\ newState[q] = "done")
RefreshOK(q) ==
    /\ pc[q] \in PastParent => parentSeen[q] \in {"partial", "done"} /\ (parentSeen[q] = "done" => parent = "done")
    /\ pc[q] \in PastRows => /\ newState[q] \in {"partial", "done"} /\ (newState[q] = "done" => AllDone)
                             /\ newState[q] = "partial" => parentSeen[q] = "partial"
ParentIsTold ==
    /\ \A q \in Procs : RefreshOK(q)
    /\ parent = "done" => AllDone
    /\ AllDone => parent = "done" \/ \E q \in Procs : Told(q)

FirstInv ==
    /\ NothingIsStarted /\ OneEach /\ ParentIsTold
    /\ \A w \in Workers : ExecutorOK(w)
    /\ \A p \in Parts : PartOK(p)

-----------------------------------------------------------------------------
\* There is one run of each part.
LEMMA OneRun == ASSUME FirstRun PROVE Runs = {1} /\ 1 \in Parts
BY DEF FirstRun, Runs, Parts

\* After the preparation every list of the rows is the cache.
LEMMA CacheServes ==
    ASSUME ParentInv, FirstRun, NEW q \in Procs, pc[q] \notin Preparing
    PROVE  FromCache /\ Complete /\ \A p \in Parts : cache[p] # <<0, "absent">>
<1>1. NobodyIsEarly /\ NoneIsMissing
    BY DEF ParentInv, FirstRun, Inline
<1>2. Complete
    BY <1>1, AtWorkAllIsComplete
<1>3. \A p \in Parts : cache[p] # <<0, "absent">>
    BY <1>1, <1>2 DEF NoneIsMissing, Complete
<1>4. cache # Empty
    BY <1>3, OneRun DEF Empty
<1> QED
    BY <1>2, <1>3, <1>4 DEF FirstRun, FromCache

\* Of parts that are all there, and none of which failed, the parent is done or partial.
LEMMA Verdict ==
    ASSUME NEW rows, \A p \in Parts : rows[p] # <<0, "absent">> /\ rows[p][2] \notin Failed
    PROVE  /\ (\A p \in Parts : rows[p][2] = "done") => PartitionParentState(rows) = "done"
           /\ ~(\A p \in Parts : rows[p][2] = "done") => PartitionParentState(rows) = "partial"
<1>1. Known(rows) = Parts /\ 1 \in Parts
    BY DEF Known, Parts
<1>2. (\A p \in Parts : rows[p][2] = "done") <=> DoneIn(rows) = Parts
    BY DEF DoneIn
<1> QED
    BY <1>1, <1>2 DEF PartitionParentState

\* What the planning call may do,
LEMMA EarlyMoves ==
    ASSUME ParentInv, FirstRun, NothingIsStarted, Early, Next
    PROVE  \/ Plan \/ Partial \/ \E p \in Parts : CreatePart(p)
           \/ ReadParent(Api) \/ ReadRows(Api) \/ ListMerge(Api) \/ Collected(Api) \/ SetParent(Api)
<1>1. /\ \A w \in Workers : pc[w] = "idle"
      /\ pc[Api] \in Planning /\ Runs = {1} /\ ~changed[Api] /\ todo[Api] = {}
      /\ \A p \in Parts : row[p][1] \in {"absent", "pending"} /\ (row[p][1] = "pending" => <<p, 1>> \in unsubmitted)
      /\ parent = "absent" => pc[Api] = "idle"
    BY OneRun DEF NothingIsStarted
<1>2. ASSUME NEW w \in Workers, ExecuteStep(w) PROVE FALSE
    BY <1>1, <1>2 DEF ExecuteStep, Claim, RunnerStarts, SavePart, FinishPart, FailPart, LoseClaim, Crash, Recover,
                      Goto, FirstRun
<1>3. ASSUME NEW w \in Workers, Remember(w) \/ RefreshStep(w) PROVE FALSE
    <2>1. pc[w] = "idle"
        BY <1>1
    <2> QED
        BY <1>3, <2>1 DEF Remember, RefreshStep, ReadParent, ReadRows, Assign, NothingToMerge, ListMerge, Collect,
                   Collected, Replace, ReadManifest, ReplaceIndex, Compare, SaveAll, Upsert, SetParent, Goto
<1>4. ASSUME Remember(Api) \/ RefreshStep(Api)
      PROVE  ReadParent(Api) \/ ReadRows(Api) \/ ListMerge(Api) \/ Collected(Api) \/ SetParent(Api)
    BY <1>1, <1>4 DEF Planning, Remember, RefreshStep, Assign, NothingToMerge, Collect, Replace, ReadManifest,
                      ReplaceIndex, Compare, SaveAll, Upsert, Goto
<1>5. ASSUME ApiStep PROVE Plan \/ Partial \/ \E p \in Parts : CreatePart(p)
    <2>1. ASSUME NEW p \in Parts, Rerun(p) PROVE FALSE
        BY <1>1, <2>1 DEF Early, Rerun, Planned, Goto
    <2>2. ViewRows \/ (\E p \in Parts : CancelRows(p)) => FALSE
        BY DEF ViewRows, CancelRows, FirstRun
    <2>3. ViewAssign \/ Assign(Api, "cancelAssign", "cancelWrite") \/ CancelWrite => FALSE
        BY <1>1 DEF ViewAssign, Assign, CancelWrite, Goto, Planning
    <2> QED
        BY <1>5, <2>1, <2>2, <2>3 DEF ApiStep
<1> QED
    BY <1>2, <1>3, <1>4, <1>5 DEF Next, Procs

\* and what the executors may do after it.
ExecutorMoves(w) ==
    \/ \E p \in Parts : Claim(w, p, 1)
    \/ SavePart(w, "saveBlocksOfPart", "saveChunksOfPart", "blocks")
    \/ SavePart(w, "saveChunksOfPart", "finish", "chunks")
    \/ FinishPart(w)
RefreshMoves(w) ==
    \/ Remember(w) \/ ReadParent(w) \/ ReadRows(w) \/ ListMerge(w)
    \/ \E p \in Parts : Collect(w, p)
    \/ Collected(w)
ReplaceMoves(w) ==
    \/ Replace(w, "replaceBlocks", "replaceChunks", "blocks")
    \/ Replace(w, "replaceChunks", "readManifest", "chunks")
    \/ ReadManifest(w) \/ ReplaceIndex(w) \/ SetParent(w)

LEMMA LateMoves ==
    ASSUME ParentInv, FirstRun, FirstInv, ~Early, Next
    PROVE  \E w \in Workers : ExecutorMoves(w) \/ RefreshMoves(w) \/ ReplaceMoves(w)
<1>1. /\ pc[Api] = "idle" /\ parent # "absent" /\ Runs = {1}
      /\ runs \in [Parts -> 0..1]
    BY OneRun DEF Early, FirstRun, ParentInv, TypeOK, StoreOK
<1>2. ASSUME NEW w \in Workers, ExecuteStep(w) PROVE ExecutorMoves(w)
    <2>1. ExecutorOK(w)
        BY DEF FirstInv
    <2>2. ~LoseClaim(w)
        BY <2>1 DEF ExecutorOK, LoseClaim, HasClaim, Writing
    <2>3. ASSUME NEW p \in Parts, NEW r \in Runs, NEW new, Recover(w, p, r, new) PROVE FALSE
        <3>1. r = 1 /\ row[p][1] = "active"
            BY <1>1, <2>3 DEF Recover
        <3>2. PICK v \in Workers : part[v] = p /\ pc[v] \in Writing
            BY <3>1 DEF FirstInv, PartOK, By
        <3>3. run[v] = 1
            BY <3>2 DEF FirstInv, ExecutorOK, Writing
        <3> QED
            BY <2>3, <3>1, <3>2, <3>3 DEF Recover
    <2>4. ~Crash(w) /\ \A new : ~FailPart(w, new)
        BY DEF Crash, FailPart, FirstRun
    <2> QED
        BY <1>1, <1>2, <2>2, <2>3, <2>4 DEF ExecuteStep, ExecutorMoves
<1>3. ASSUME ApiStep PROVE FALSE
    BY <1>1, <1>3 DEF ApiStep, Plan, Partial, CreatePart, Rerun, Planned, ViewRows, ViewAssign, CancelRows, Assign,
                      CancelWrite, Goto, FirstRun
<1>4. ASSUME Remember(Api) \/ RefreshStep(Api) PROVE FALSE
    BY <1>1, <1>4 DEF Remember, RefreshStep, ReadParent, ReadRows, Assign, NothingToMerge, ListMerge, Collect,
                      Collected, Replace, ReadManifest, ReplaceIndex, Compare, SaveAll, Upsert, SetParent, Goto
<1>5. ASSUME NEW w \in Workers, Remember(w) \/ RefreshStep(w) PROVE RefreshMoves(w) \/ ReplaceMoves(w)
    <2>1. ExecutorOK(w)
        BY DEF FirstInv
    <2>2. ~NothingToMerge(w)
        BY <2>1 DEF ExecutorOK, NothingToMerge, Goto, DoneIn
    <2>3. /\ ~Assign(w, "assign", "listMerge") /\ ~Assign(w, "assignMerge", "collect") /\ ~Compare(w) /\ ~Upsert(w)
          /\ ~SaveAll(w, "saveBlocks", "saveChunks", "blocks") /\ ~SaveAll(w, "saveChunks", "upsert", "chunks")
        BY <2>1 DEF ExecutorOK, Writing, Merging, Replacing, Assign, Compare, Upsert, SaveAll, Goto
    <2> QED
        BY <1>5, <2>2, <2>3 DEF RefreshStep, RefreshMoves, ReplaceMoves
<1> QED
    BY <1>2, <1>3, <1>4, <1>5 DEF Next, Procs

-----------------------------------------------------------------------------
\* A step of executor w, working on part m, leaves the others and their parts alone.
Frame(w, m) ==
    /\ \A v \in Procs \ {w} :
         /\ pc'[v] = pc[v] /\ part'[v] = part[v] /\ run'[v] = run[v] /\ changed'[v] = changed[v]
         /\ parentSeen'[v] = parentSeen[v] /\ newState'[v] = newState[v] /\ seen'[v] = seen[v]
         /\ todo'[v] = todo[v] /\ got'[v] = got[v]
    /\ \A p \in Parts \ {m} :
         row'[p] = row[p] /\ partDoc'[p] = partDoc[p] /\ cache'[p] = cache[p] /\ merged'[p] = merged[p]

\* m is the part of w alone, and what holds of both goes on to hold.
OwnKept(w, m) ==
    /\ Frame(w, m)
    /\ m \in Parts
    /\ pc[w] # "idle" => part[w] = m
    /\ pc'[w] # "idle" => part'[w] = m
    /\ \A v \in Workers \ {w} : pc[v] # "idle" => part[v] # m
    /\ ExecutorOK(w)'
    /\ PartOK(m)'

\* Then it goes on to hold of everybody.
LEMMA OthersKept ==
    ASSUME FirstInv, NEW w \in Workers, NEW m, OwnKept(w, m)
    PROVE  /\ \A v \in Workers : ExecutorOK(v)'
           /\ \A p \in Parts : PartOK(p)'
           /\ OneEach'
<1>1. \A v \in Workers : v \in Procs
    BY DEF Procs
<1>2. ASSUME NEW v \in Workers, v # w PROVE ExecutorOK(v)'
    <2>1. ExecutorOK(v)
        BY DEF FirstInv
    <2>2. /\ pc'[v] = pc[v] /\ part'[v] = part[v] /\ run'[v] = run[v] /\ changed'[v] = changed[v]
          /\ seen'[v] = seen[v] /\ todo'[v] = todo[v] /\ got'[v] = got[v]
        BY <1>1, <1>2 DEF OwnKept, Frame
    <2>3. CASE pc[v] = "idle"
        BY <2>1, <2>2, <2>3 DEF ExecutorOK
    <2>4. CASE pc[v] # "idle"
        <3>1. part[v] \in Parts \ {m}
            BY <1>2, <2>1, <2>4 DEF OwnKept, ExecutorOK
        <3>2. /\ row'[part[v]] = row[part[v]] /\ partDoc'[part[v]] = partDoc[part[v]]
              /\ cache'[part[v]] = cache[part[v]] /\ merged'[part[v]] = merged[part[v]]
            BY <3>1 DEF OwnKept, Frame
        <3> QED
            BY <2>1, <2>2, <3>2 DEF ExecutorOK
    <2> QED
        BY <2>3, <2>4
<1>3. ASSUME NEW p \in Parts, p # m PROVE PartOK(p)'
    <2>1. PartOK(p)
        BY DEF FirstInv
    <2>2. row'[p] = row[p] /\ partDoc'[p] = partDoc[p] /\ cache'[p] = cache[p] /\ merged'[p] = merged[p]
        BY <1>3 DEF OwnKept, Frame
    <2>3. ASSUME NEW where, "idle" \notin where, By(p, where) PROVE By(p, where)'
        <3>1. PICK v \in Workers : part[v] = p /\ pc[v] \in where
            BY <2>3 DEF By
        <3>2. v # w
            BY <1>3, <2>3, <3>1 DEF OwnKept
        <3>3. pc'[v] = pc[v] /\ part'[v] = part[v]
            BY <1>1, <3>2 DEF OwnKept, Frame
        <3> QED
            BY <3>1, <3>3 DEF By
    <2>4. By(p, Writing) => By(p, Writing)'
        BY <2>3 DEF Writing
    <2>5. By(p, {"remember"}) => By(p, {"remember"})'
        BY <2>3
    <2>6. By(p, Merging) => By(p, Merging)'
        BY <2>3 DEF Merging, Replacing
    <2> QED
        BY <2>1, <2>2, <2>4, <2>5, <2>6 DEF PartOK
<1>4. OneEach'
    <2> SUFFICES ASSUME NEW v \in Workers, NEW u \in Workers, pc'[v] # "idle", pc'[u] # "idle", v # u
                 PROVE  part'[v] # part'[u]
        BY DEF OneEach
    <2>1. \A x \in Workers \ {w} : pc'[x] = pc[x] /\ part'[x] = part[x]
        BY <1>1 DEF OwnKept, Frame
    <2>2. CASE v # w /\ u # w
        BY <2>1, <2>2 DEF FirstInv, OneEach
    <2>3. CASE v = w
        BY <2>1, <2>3 DEF OwnKept
    <2>4. CASE u = w
        BY <2>1, <2>4 DEF OwnKept
    <2> QED
        BY <2>2, <2>3, <2>4
<1> QED
    BY <1>2, <1>3, <1>4 DEF OwnKept

\* A worker that is not idle works alone on its part.
LEMMA Alone ==
    ASSUME FirstInv, NEW w \in Workers, pc[w] # "idle"
    PROVE  part[w] \in Parts /\ \A v \in Workers \ {w} : pc[v] # "idle" => part[v] # part[w]
BY DEF FirstInv, ExecutorOK, OneEach

\* The part is claimed, its artifacts are stored, and it is done.
LEMMA ExecutorKeeps ==
    ASSUME ParentInv, FirstRun, FirstInv, NEW w \in Workers, ExecutorMoves(w)
    PROVE  \E m \in Parts : OwnKept(w, m)
<1>1. /\ w \in Procs /\ 1 \in Runs /\ ExecutorOK(w) /\ \A p \in Parts : PartOK(p)
      /\ pc \in [Procs -> Execute \cup Calls \cup Refresh] /\ part \in [Procs -> Parts \cup {NoPart}]
      /\ run \in [Procs -> 0..MaxRuns] /\ changed \in [Procs -> BOOLEAN]
      /\ row \in [Parts -> [Runs -> PartRows]] /\ partDoc \in [Parts -> PartDocs]
    BY OneRun DEF Procs, FirstInv, ParentInv, TypeOK, StoreOK, ControlOK, LocalsOK
<1>2. ASSUME NEW p \in Parts, Claim(w, p, 1) PROVE OwnKept(w, p)
    <2>1. /\ pc[w] = "idle" /\ row[p][1] = "pending" /\ row' = [row EXCEPT ![p][1] = "active"]
          /\ pc' = [pc EXCEPT ![w] = "saveBlocksOfPart"] /\ part' = [part EXCEPT ![w] = p]
          /\ run' = [run EXCEPT ![w] = 1]
          /\ UNCHANGED <<partDoc, merged, cache, changed, parentSeen, newState, seen, todo, got>>
        BY <1>2 DEF Claim, Goto
    <2>2. Frame(w, p)
        BY <1>1, <2>1 DEF Frame
    <2>3. row'[p][1] = "active" /\ pc'[w] = "saveBlocksOfPart" /\ part'[w] = p /\ run'[w] = 1
        BY <1>1, <2>1
    <2>4. \A v \in Workers \ {w} : pc[v] # "idle" => part[v] # p
        <3> SUFFICES ASSUME NEW v \in Workers, pc[v] # "idle" PROVE part[v] # p
            OBVIOUS
        <3>1. ExecutorOK(v)
            BY DEF FirstInv
        <3> QED
            BY <2>1, <3>1 DEF ExecutorOK
    <2>5. PartOK(p)'
        <3>1. cache'[p][2] \notin Failed /\ cache'[p][2] # "done"
            BY <1>1, <2>1 DEF PartOK
        <3>2. By(p, Writing)'
            BY <2>3 DEF By, Writing
        <3> QED
            BY <2>3, <3>1, <3>2 DEF PartOK, Failed
    <2>6. ~changed[w]
        BY <1>1, <2>1 DEF ExecutorOK
    <2> QED
        BY <2>1, <2>2, <2>3, <2>4, <2>5, <2>6 DEF OwnKept, ExecutorOK, Writing, Merging, Replacing, Refresh
<1>3. ASSUME ~(\E p \in Parts : Claim(w, p, 1)) PROVE \E m \in Parts : OwnKept(w, m)
    <2>0. PICK m : m = part[w]
        OBVIOUS
    <2>1. pc[w] \in Writing /\ UNCHANGED <<part, run, merged, cache, parentSeen, newState, seen, todo, got>>
        BY <1>3 DEF ExecutorMoves, SavePart, FinishPart, Goto, Writing, locals
    <2>2. /\ m \in Parts /\ run[w] = 1 /\ row[m][1] = "active" /\ ~changed[w]
          /\ \A v \in Workers \ {w} : pc[v] # "idle" => part[v] # m
        BY <1>1, <2>0, <2>1, Alone DEF ExecutorOK, Writing
    <2>3. cache[m][2] \notin Failed /\ cache[m][2] # "done"
        BY <1>1, <2>2 DEF PartOK
    <2>4. CASE SavePart(w, "saveBlocksOfPart", "saveChunksOfPart", "blocks")
        <3>1. /\ pc' = [pc EXCEPT ![w] = "saveChunksOfPart"] /\ partDoc' = [partDoc EXCEPT ![m]["blocks"] = 1]
              /\ UNCHANGED <<row, changed>>
            BY <2>0, <2>2, <2>4 DEF SavePart, Goto, locals
        <3>2. Frame(w, m)
            BY <1>1, <2>1, <2>2, <3>1 DEF Frame
        <3>3. pc'[w] = "saveChunksOfPart" /\ partDoc'[m].blocks = 1
            BY <1>1, <2>2, <3>1 DEF PartDocs
        <3>4. PartOK(m)'
            <4>1. By(m, Writing)'
                BY <2>0, <2>1, <3>3 DEF By, Writing
            <4> QED
                BY <2>1, <2>2, <2>3, <3>1, <4>1 DEF PartOK, Failed
        <3> QED
            BY <2>0, <2>1, <2>2, <3>1, <3>2, <3>3, <3>4 DEF OwnKept, ExecutorOK, Writing, Merging, Replacing, Refresh
    <2>5. CASE SavePart(w, "saveChunksOfPart", "finish", "chunks")
        <3>1. /\ pc' = [pc EXCEPT ![w] = "finish"] /\ partDoc' = [partDoc EXCEPT ![m]["chunks"] = 1]
              /\ partDoc[m].blocks = 1 /\ UNCHANGED <<row, changed>>
            BY <1>1, <2>0, <2>2, <2>5 DEF SavePart, Goto, locals, ExecutorOK
        <3>2. Frame(w, m)
            BY <1>1, <2>1, <2>2, <3>1 DEF Frame
        <3>3. pc'[w] = "finish" /\ partDoc'[m].blocks = 1 /\ partDoc'[m].chunks = 1
            BY <1>1, <2>2, <3>1 DEF PartDocs
        <3>4. PartOK(m)'
            <4>1. By(m, Writing)'
                BY <2>0, <2>1, <3>3 DEF By, Writing
            <4> QED
                BY <2>1, <2>2, <2>3, <3>1, <4>1 DEF PartOK, Failed
        <3> QED
            BY <2>0, <2>1, <2>2, <3>1, <3>2, <3>3, <3>4 DEF OwnKept, ExecutorOK, Writing, Merging, Replacing, Refresh
    <2>6. CASE FinishPart(w)
        <3>1. /\ pc' = [pc EXCEPT ![w] = "remember"] /\ row' = [row EXCEPT ![m][1] = "done"]
              /\ changed' = [changed EXCEPT ![w] = TRUE] /\ UNCHANGED partDoc
              /\ partDoc[m].blocks = 1 /\ partDoc[m].chunks = 1
            BY <1>1, <2>0, <2>2, <2>6 DEF FinishPart, Goto, ExecutorOK
        <3>2. Frame(w, m)
            BY <1>1, <2>1, <2>2, <3>1 DEF Frame
        <3>3. pc'[w] = "remember" /\ row'[m][1] = "done" /\ changed'[w]
            BY <1>1, <2>2, <3>1
        <3>4. partDoc[m] = Both
            BY <1>1, <2>2, <3>1 DEF PartDocs, Both
        <3>5. PartOK(m)'
            <4>1. By(m, {"remember"})' /\ By(m, Merging)'
                BY <2>0, <2>1, <3>3 DEF By, Merging
            <4> QED
                BY <2>1, <2>2, <2>3, <3>1, <3>3, <3>4, <4>1 DEF PartOK, Failed
        <3> QED
            BY <2>0, <2>1, <2>2, <3>1, <3>2, <3>3, <3>5 DEF OwnKept, ExecutorOK, Writing, Merging, Replacing, Refresh
    <2> QED
        BY <1>3, <2>4, <2>5, <2>6 DEF ExecutorMoves, OwnKept
<1> QED
    BY <1>2, <1>3

\* What is done is remembered and read.
LEMMA RefreshKeeps ==
    ASSUME ParentInv, FirstRun, FirstInv, NEW w \in Workers, RefreshMoves(w)
    PROVE  \E m \in Parts : OwnKept(w, m)
<1>0. PICK m : m = part[w]
    OBVIOUS
<1>1. /\ w \in Procs /\ ExecutorOK(w) /\ PartOK(m)
      /\ pc \in [Procs -> Execute \cup Calls \cup Refresh] /\ part \in [Procs -> Parts \cup {NoPart}]
      /\ seen \in [Procs -> Listings] /\ todo \in [Procs -> SUBSET Parts] /\ cache \in Listings
      /\ got \in [Procs -> [Parts -> PartDocs]] /\ newState \in [Procs -> ParentStates]
      /\ parentSeen \in [Procs -> ParentStates]
      /\ pc[w] # "idle" /\ pc[w] \notin Writing /\ pc[w] \notin Preparing
      /\ m \in Parts /\ \A v \in Workers \ {w} : pc[v] # "idle" => part[v] # m
    <2>1. pc[w] # "idle" /\ pc[w] \notin Writing /\ pc[w] \notin Preparing
        BY DEF RefreshMoves, Remember, ReadParent, ReadRows, ListMerge, Collect, Collected, Goto, Writing, Preparing
    <2>2. m \in Parts /\ \A v \in Workers \ {w} : pc[v] # "idle" => part[v] # m
        BY <1>0, <2>1, Alone
    <2> QED
        BY <2>1, <2>2 DEF Procs, FirstInv, ParentInv, TypeOK, StoreOK, ControlOK, LocalsOK
<1>2. run[w] = 1 /\ row[m][1] = "done" /\ changed[w] /\ partDoc[m] = Both /\ Cached
    BY <1>0, <1>1 DEF ExecutorOK, PartOK, FirstRun
<1>3. UNCHANGED <<row, partDoc, merged, part, run, changed>>
    BY DEF RefreshMoves, Remember, ReadParent, ReadRows, ListMerge, Collect, Collected, store, locals
<1>4. FromCache
    BY <1>1, CacheServes
<1>5. ASSUME pc'[w] \in Merging, cache'[m][2] = "done" PROVE PartOK(m)'
    <2>1. By(m, Merging)'
        BY <1>0, <1>3, <1>5 DEF By
    <2> QED
        BY <1>2, <1>3, <1>5, <2>1 DEF PartOK, Failed
<1>6. CASE Remember(w)
    <2>1. /\ pc' = [pc EXCEPT ![w] = "readParent"] /\ cache' = [cache EXCEPT ![m] = <<1, "done">>]
          /\ UNCHANGED <<parentSeen, newState, seen, todo, got>>
        BY <1>0, <1>2, <1>6 DEF Remember, Remembered, Goto, locals
    <2>2. Frame(w, m)
        BY <1>1, <1>3, <2>1 DEF Frame, Listings
    <2>3. pc'[w] = "readParent" /\ cache'[m][2] = "done"
        BY <1>1, <2>1 DEF Listings
    <2>4. PartOK(m)'
        BY <1>5, <2>3 DEF Merging
    <2> QED
        BY <1>0, <1>1, <1>2, <1>3, <2>1, <2>2, <2>3, <2>4
           DEF OwnKept, ExecutorOK, Writing, Merging, Replacing, Refresh
<1>7. CASE ~Remember(w)
    <2>1. UNCHANGED cache /\ pc[w] \in Refresh /\ cache[m][2] = "done"
        <3>1. UNCHANGED cache /\ pc[w] \in Refresh
            BY <1>7 DEF RefreshMoves, ReadParent, ReadRows, ListMerge, Collect, Collected, store, Goto, Refresh
        <3> QED
            BY <1>0, <1>1, <3>1 DEF ExecutorOK
    <2>2. ASSUME ReadParent(w) PROVE OwnKept(w, m)
        <3>1. /\ pc' = [pc EXCEPT ![w] = "readRows"] /\ parentSeen' = [parentSeen EXCEPT ![w] = parent]
              /\ UNCHANGED <<newState, seen, todo, got>>
            BY <2>2 DEF ReadParent, Goto
        <3>2. Frame(w, m)
            BY <1>1, <1>3, <2>1, <3>1 DEF Frame
        <3>3. pc'[w] = "readRows"
            BY <1>1, <3>1
        <3>4. PartOK(m)'
            BY <1>5, <2>1, <3>3 DEF Merging
        <3> QED
            BY <1>0, <1>1, <1>2, <1>3, <2>1, <3>2, <3>3, <3>4
               DEF OwnKept, ExecutorOK, Writing, Merging, Replacing, Refresh
    <2>3. ASSUME ReadRows(w) PROVE OwnKept(w, m)
        <3>1. PICK n : n = PartitionParentState(cache)
            OBVIOUS
        <3>2. /\ pc' = [pc EXCEPT ![w] = "listMerge"] /\ seen' = [seen EXCEPT ![w] = cache]
              /\ newState' = [newState EXCEPT ![w] = n] /\ UNCHANGED <<parentSeen, todo, got>>
            BY <1>4, <2>3, <3>1 DEF ReadRows, Goto
        <3>3. Frame(w, m)
            BY <1>1, <1>3, <2>1, <3>2 DEF Frame
        <3>4. pc'[w] = "listMerge" /\ seen'[w] = cache
            BY <1>1, <3>2
        <3>5. PartOK(m)'
            BY <1>5, <2>1, <3>4 DEF Merging
        <3> QED
            BY <1>0, <1>1, <1>2, <1>3, <2>1, <3>3, <3>4, <3>5
               DEF OwnKept, ExecutorOK, Writing, Merging, Replacing, Refresh
    <2>4. ASSUME ListMerge(w) PROVE OwnKept(w, m)
        <3>1. m \in DoneIn(cache)
            BY <1>1, <2>1 DEF DoneIn
        <3>2. PICK t : t = DoneIn(cache) \cap {m}
            OBVIOUS
        <3>3. /\ pc' = [pc EXCEPT ![w] = "collect"] /\ seen' = [seen EXCEPT ![w] = cache]
              /\ todo' = [todo EXCEPT ![w] = t] /\ UNCHANGED <<parentSeen, newState, got>>
            BY <1>0, <1>2, <1>4, <2>4, <3>2 DEF ListMerge, Goto
        <3>4. Frame(w, m)
            BY <1>1, <1>3, <2>1, <3>3 DEF Frame
        <3>5. pc'[w] = "collect" /\ todo'[w] = {m}
            BY <1>1, <3>1, <3>2, <3>3
        <3>6. PartOK(m)'
            BY <1>5, <2>1, <3>5 DEF Merging
        <3> QED
            BY <1>0, <1>1, <1>2, <1>3, <2>1, <3>4, <3>5, <3>6
               DEF OwnKept, ExecutorOK, Writing, Merging, Replacing, Refresh
    <2>5. ASSUME NEW p \in Parts, Collect(w, p) PROVE OwnKept(w, m)
        <3>1. pc[w] = "collect" /\ p = m
            BY <1>0, <1>1, <2>5 DEF Collect, ExecutorOK
        <3>2. /\ UNCHANGED pc /\ got' = [got EXCEPT ![w][m] = Both] /\ todo' = [todo EXCEPT ![w] = @ \ {m}]
              /\ UNCHANGED <<parentSeen, newState, seen>>
            BY <1>2, <2>5, <3>1 DEF Collect
        <3>3. Frame(w, m)
            BY <1>1, <1>3, <2>1, <3>2 DEF Frame
        <3>4. pc'[w] = "collect" /\ todo'[w] \subseteq {m} /\ got'[w][m] = Both
            <4>1. todo[w] \subseteq {m}
                BY <1>0, <1>1, <3>1 DEF ExecutorOK
            <4> QED
                BY <1>1, <3>1, <3>2, <4>1
        <3>5. PartOK(m)'
            BY <1>5, <2>1, <3>4 DEF Merging
        <3> QED
            BY <1>0, <1>1, <1>2, <1>3, <2>1, <3>3, <3>4, <3>5
               DEF OwnKept, ExecutorOK, Writing, Merging, Replacing, Refresh
    <2>6. ASSUME Collected(w) PROVE OwnKept(w, m)
        <3>1. /\ pc' = [pc EXCEPT ![w] = "replaceBlocks"] /\ UNCHANGED <<parentSeen, newState, seen, todo, got>>
            BY <1>2, <2>6 DEF Collected, Goto, locals
        <3>2. Frame(w, m)
            BY <1>1, <1>3, <2>1, <3>1 DEF Frame
        <3>3. pc'[w] = "replaceBlocks" /\ got[w][m] = Both
            BY <1>0, <1>1, <2>6, <3>1 DEF Collected, Goto, ExecutorOK
        <3>4. PartOK(m)'
            BY <1>5, <2>1, <3>3 DEF Merging, Replacing
        <3> QED
            BY <1>0, <1>1, <1>2, <1>3, <2>1, <3>1, <3>2, <3>3, <3>4
               DEF OwnKept, ExecutorOK, Writing, Merging, Replacing, Refresh
    <2> QED
        BY <1>1, <1>7, <2>2, <2>3, <2>4, <2>5, <2>6 DEF RefreshMoves
<1> QED
    BY <1>6, <1>7, <1>1 DEF OwnKept

\* What was read is merged, and the refresh ends.
LEMMA ReplaceKeeps ==
    ASSUME ParentInv, FirstRun, FirstInv, NEW w \in Workers, ReplaceMoves(w)
    PROVE  \E m \in Parts : OwnKept(w, m)
<1>0. PICK m : m = part[w]
    OBVIOUS
<1>1. /\ w \in Procs /\ ExecutorOK(w) /\ PartOK(m)
      /\ pc \in [Procs -> Execute \cup Calls \cup Refresh] /\ part \in [Procs -> Parts \cup {NoPart}]
      /\ merged \in [Parts -> MergedParts] /\ m \in Parts
      /\ pc[w] \in Replacing \cup {"setParent"}
      /\ \A v \in Workers \ {w} : pc[v] # "idle" => part[v] # m
    <2>1. pc[w] \in Replacing \cup {"setParent"}
        BY DEF ReplaceMoves, Replace, ReadManifest, ReplaceIndex, SetParent, Goto, Replacing
    <2>2. m \in Parts /\ \A v \in Workers \ {w} : pc[v] # "idle" => part[v] # m
        BY <1>0, <2>1, Alone DEF Replacing
    <2> QED
        BY <2>1, <2>2 DEF Procs, FirstInv, ParentInv, TypeOK, StoreOK, ControlOK, LocalsOK
<1>2. /\ run[w] = 1 /\ row[m][1] = "done" /\ changed[w] /\ partDoc[m] = Both /\ cache[m][2] = "done"
      /\ pc[w] \in Replacing => got[w][m] = Both
    BY <1>0, <1>1 DEF ExecutorOK, PartOK, Writing, Replacing, Refresh
<1>3. UNCHANGED <<row, partDoc, cache>>
    BY DEF ReplaceMoves, Replace, ReadManifest, ReplaceIndex, SetParent, store, locals
<1>4. pc[w] \in Replacing => got[w][m].blocks = 1 /\ got[w][m].chunks = 1
    BY <1>2 DEF Both
<1>5. ASSUME pc'[w] \in Merging, part'[w] = m PROVE PartOK(m)'
    <2>1. By(m, Merging)'
        BY <1>5 DEF By
    <2> QED
        BY <1>2, <1>3, <2>1 DEF PartOK, Failed
<1>6. CASE Replace(w, "replaceBlocks", "replaceChunks", "blocks")
    <2>1. /\ pc' = [pc EXCEPT ![w] = "replaceChunks"] /\ merged' = [merged EXCEPT ![m]["blocks"] = 1]
          /\ UNCHANGED <<part, run, changed, parentSeen, newState, seen, todo, got>>
        BY <1>0, <1>4, <1>6 DEF Replace, Goto, Replacing, locals
    <2>2. Frame(w, m)
        BY <1>1, <1>3, <2>1 DEF Frame
    <2>3. pc'[w] = "replaceChunks" /\ merged'[m].blocks = 1
        BY <1>1, <2>1 DEF MergedParts
    <2>4. PartOK(m)'
        BY <1>0, <1>5, <2>1, <2>3 DEF Merging, Replacing
    <2>5. got[w][m] = Both
        BY <1>2, <1>6 DEF Replace, Goto, Replacing
    <2> QED
        BY <1>0, <1>1, <1>2, <1>3, <2>1, <2>2, <2>3, <2>4, <2>5
           DEF OwnKept, ExecutorOK, Writing, Merging, Replacing, Refresh
<1>7. CASE Replace(w, "replaceChunks", "readManifest", "chunks")
    <2>1. /\ pc' = [pc EXCEPT ![w] = "readManifest"] /\ merged' = [merged EXCEPT ![m]["chunks"] = 1]
          /\ UNCHANGED <<part, run, changed, parentSeen, newState, seen, todo, got>>
        BY <1>0, <1>4, <1>7 DEF Replace, Goto, Replacing, locals
    <2>2. Frame(w, m)
        BY <1>1, <1>3, <2>1 DEF Frame
    <2>3. merged[m].blocks = 1 /\ got[w][m] = Both
        BY <1>0, <1>1, <1>2, <1>7 DEF Replace, Goto, ExecutorOK, Replacing
    <2>4. pc'[w] = "readManifest" /\ merged'[m].blocks = 1 /\ merged'[m].chunks = 1
        BY <1>1, <2>1, <2>3 DEF MergedParts
    <2>5. PartOK(m)'
        BY <1>0, <1>5, <2>1, <2>4 DEF Merging, Replacing
    <2> QED
        BY <1>0, <1>1, <1>2, <1>3, <2>1, <2>2, <2>3, <2>4, <2>5
           DEF OwnKept, ExecutorOK, Writing, Merging, Replacing, Refresh
<1>8. CASE ReadManifest(w)
    <2>1. /\ pc' = [pc EXCEPT ![w] = "replaceIndex"]
          /\ UNCHANGED <<merged, part, run, changed, parentSeen, newState, seen, todo, got>>
        BY <1>8 DEF ReadManifest, Goto, store
    <2>2. Frame(w, m)
        BY <1>1, <1>3, <2>1 DEF Frame
    <2>3. pc'[w] = "replaceIndex" /\ merged[m].blocks = 1 /\ merged[m].chunks = 1 /\ got[w][m] = Both
        BY <1>0, <1>1, <1>2, <1>8, <2>1 DEF ReadManifest, Goto, ExecutorOK, Replacing
    <2>4. PartOK(m)'
        BY <1>0, <1>5, <2>1, <2>3 DEF Merging, Replacing
    <2> QED
        BY <1>0, <1>1, <1>2, <1>3, <2>1, <2>2, <2>3, <2>4
           DEF OwnKept, ExecutorOK, Writing, Merging, Replacing, Refresh
<1>9. CASE ReplaceIndex(w)
    <2>1. /\ pc' = [pc EXCEPT ![w] = "setParent"] /\ merged' = [merged EXCEPT ![m].index = 1]
          /\ UNCHANGED <<part, run, changed, parentSeen, newState, seen, todo, got>>
        BY <1>0, <1>4, <1>9 DEF ReplaceIndex, Goto, Replacing, locals
    <2>2. Frame(w, m)
        BY <1>1, <1>3, <2>1 DEF Frame
    <2>3. merged[m].blocks = 1 /\ merged[m].chunks = 1
        BY <1>0, <1>1, <1>9 DEF ReplaceIndex, Goto, ExecutorOK
    <2>4. pc'[w] = "setParent" /\ merged'[m].blocks = 1 /\ merged'[m].chunks = 1 /\ merged'[m].index = 1
        BY <1>1, <2>1, <2>3 DEF MergedParts
    <2>5. merged'[m] = Whole
        BY <1>1, <2>1, <2>3 DEF MergedParts, Whole
    <2>6. PartOK(m)'
        BY <1>2, <1>3, <2>5 DEF PartOK, Failed
    <2> QED
        BY <1>0, <1>1, <1>2, <1>3, <2>1, <2>2, <2>4, <2>6
           DEF OwnKept, ExecutorOK, Writing, Merging, Replacing, Refresh
<1>10. CASE SetParent(w)
    <2>1. pc' = [pc EXCEPT ![w] = "idle"] /\ UNCHANGED merged /\ changed' = [changed EXCEPT ![w] = FALSE]
        BY <1>10 DEF SetParent, Goto, Forget
    <2>2. Frame(w, m)
        BY <1>1, <1>3, <1>10, <2>1 DEF SetParent, Forget, Frame, ParentInv, TypeOK, LocalsOK
    <2>3. pc'[w] = "idle" /\ ~changed'[w]
        BY <1>1, <2>1 DEF ParentInv, TypeOK, LocalsOK
    <2>4. merged[m] = Whole
        <3>1. merged[m].blocks = 1 /\ merged[m].chunks = 1 /\ merged[m].index = 1
            BY <1>0, <1>1, <1>10 DEF SetParent, Goto, ExecutorOK
        <3> QED
            BY <1>1, <3>1 DEF MergedParts, Whole
    <2>5. PartOK(m)'
        BY <1>2, <1>3, <2>1, <2>4 DEF PartOK, Failed
    <2> QED
        BY <1>0, <1>1, <2>2, <2>3, <2>5, <1>10 DEF OwnKept, ExecutorOK, SetParent, Goto
<1> QED
    BY <1>1, <1>6, <1>7, <1>8, <1>9, <1>10 DEF ReplaceMoves

-----------------------------------------------------------------------------
\* The parent is told when the last part is done, by whoever refreshes it then.
LEMMA LateTold ==
    ASSUME ParentInv, FirstRun, FirstInv, ~Early, NEW w \in Workers,
           ExecutorMoves(w) \/ RefreshMoves(w) \/ ReplaceMoves(w)
    PROVE  NothingIsStarted' /\ ParentIsTold'
<1>1. /\ w \in Procs /\ w # Api /\ Api \in Procs /\ ExecutorOK(w) /\ \A q \in Procs : RefreshOK(q)
      /\ parent \in {"partial", "done"} /\ pc[Api] = "idle"
      /\ pc \in [Procs -> Execute \cup Calls \cup Refresh] /\ cache \in Listings
      /\ newState \in [Procs -> ParentStates] /\ parentSeen \in [Procs -> ParentStates]
      /\ parent = "done" => AllDone
      /\ AllDone => parent = "done" \/ \E q \in Procs : Told(q)
    BY DEF Procs, FirstInv, NothingIsStarted, ParentIsTold, Early, ParentInv, TypeOK, StoreOK, ControlOK, LocalsOK
<1>2. \A v \in Procs \ {w} : pc'[v] = pc[v] /\ parentSeen'[v] = parentSeen[v] /\ newState'[v] = newState[v]
    BY <1>1 DEF ExecutorMoves, Claim, SavePart, FinishPart, RefreshMoves, Remember, ReadParent, ReadRows, ListMerge,
                Collect, Collected, ReplaceMoves, Replace, ReadManifest, ReplaceIndex, SetParent, Goto, Forget, locals
<1>3. AllDone => AllDone'
    <2>1. CASE Remember(w)
        <3>1. part[w] \in Parts /\ run[w] = 1 /\ row[part[w]][1] = "done"
            BY <1>1, <2>1 DEF Remember, Goto, ExecutorOK, Writing
        <3>2. cache' = [cache EXCEPT ![part[w]] = <<1, "done">>]
            BY <2>1, <3>1 DEF Remember, Remembered, FirstRun
        <3> QED
            BY <1>1, <3>2 DEF AllDone, Listings
    <2>2. Remember(w) \/ UNCHANGED cache
        BY DEF ExecutorMoves, Claim, SavePart, FinishPart, RefreshMoves, ReadParent, ReadRows, ListMerge,
               Collect, Collected, ReplaceMoves, Replace, ReadManifest, ReplaceIndex, SetParent, store
    <2> QED
        BY <2>1, <2>2 DEF AllDone
<1>4. \/ SetParent(w) \/ UNCHANGED parent
    BY DEF ExecutorMoves, Claim, SavePart, FinishPart, RefreshMoves, Remember, ReadParent, ReadRows, ListMerge,
           Collect, Collected, ReplaceMoves, Replace, ReadManifest, ReplaceIndex, store
<1>5. ASSUME SetParent(w)
      PROVE  /\ parent' \in {"partial", "done"} /\ (parent = "done" => parent' = "done")
             /\ newState[w] = "done" => parent' = "done"
             /\ parent' = "done" => AllDone
    <2>1. /\ parentSeen[w] \in {"partial", "done"} /\ (parentSeen[w] = "done" => parent = "done")
          /\ newState[w] \in {"partial", "done"} /\ (newState[w] = "done" => AllDone)
          /\ newState[w] = "partial" => parentSeen[w] = "partial"
        BY <1>1, <1>5 DEF RefreshOK, PastRows, PastParent, SetParent, Goto
    <2>2. parent' = IF parentSeen[w] # newState[w] THEN newState[w] ELSE parent
        BY <1>5 DEF SetParent
    <2> QED
        BY <1>1, <2>1, <2>2
<1>6. parent' \in {"partial", "done"} /\ (parent = "done" => parent' = "done") /\ (parent' = "done" => AllDone)
    BY <1>1, <1>4, <1>5
<1>7. NothingIsStarted'
    <2>1. pc'[Api] = "idle"
        BY <1>1, <1>2
    <2> QED
        BY <1>6, <2>1 DEF NothingIsStarted, Early, Planning
<1>8. ASSUME NEW v \in Procs, v # w PROVE RefreshOK(v)'
    BY <1>1, <1>2, <1>3, <1>6, <1>8 DEF RefreshOK
<1>9. RefreshOK(w)' /\ (AllDone /\ Told(w) => Told(w)' \/ parent' = "done")
    <2>1. CASE ReadParent(w)
        <3>1. pc'[w] = "readRows" /\ parentSeen'[w] = parent
            BY <1>1, <2>1 DEF ReadParent, Goto
        <3> QED
            BY <1>1, <1>6, <2>1, <3>1 DEF RefreshOK, PastRows, PastParent, Replacing, Told, ReadParent, store
    <2>2. CASE ReadRows(w)
        <3>1. FromCache /\ \A p \in Parts : cache[p] # <<0, "absent">>
            BY <1>1, <2>2, CacheServes DEF ReadRows, Goto, Preparing
        <3>2. \A p \in Parts : cache[p][2] \notin Failed
            BY DEF FirstInv, PartOK
        <3>3. PICK n : n = PartitionParentState(cache)
            OBVIOUS
        <3>4. (AllDone => n = "done") /\ (~AllDone => n = "partial")
            BY <3>1, <3>2, <3>3, Verdict DEF AllDone
        <3>5. pc' = [pc EXCEPT ![w] = "listMerge"] /\ newState' = [newState EXCEPT ![w] = n] /\ UNCHANGED parentSeen
            BY <2>2, <3>1, <3>3 DEF ReadRows, Goto
        <3>6. pc'[w] = "listMerge" /\ newState'[w] = n /\ parentSeen'[w] = parentSeen[w]
            BY <1>1, <3>5
        <3>7. parentSeen[w] \in {"partial", "done"} /\ (parentSeen[w] = "done" => parent = "done")
            BY <1>1, <2>2 DEF RefreshOK, PastParent, ReadRows, Goto
        <3> QED
            BY <1>1, <1>3, <1>6, <3>4, <3>6, <3>7 DEF RefreshOK, PastRows, PastParent, Told
    <2>3. CASE SetParent(w)
        <3>1. pc'[w] = "idle" /\ pc[w] = "setParent"
            BY <1>1, <2>3 DEF SetParent, Goto
        <3> QED
            BY <1>5, <2>3, <3>1 DEF RefreshOK, PastRows, PastParent, Replacing, Told
    <2>4. ASSUME \/ ListMerge(w) \/ (\E p \in Parts : Collect(w, p)) \/ Collected(w)
                 \/ Replace(w, "replaceBlocks", "replaceChunks", "blocks")
                 \/ Replace(w, "replaceChunks", "readManifest", "chunks")
                 \/ ReadManifest(w) \/ ReplaceIndex(w)
          PROVE  /\ pc[w] \in PastRows /\ pc'[w] \in PastRows
                 /\ parentSeen'[w] = parentSeen[w] /\ newState'[w] = newState[w]
        <3>1. UNCHANGED <<parentSeen, newState>>
            BY <2>4 DEF ListMerge, Collect, Collected, Replace, ReadManifest, ReplaceIndex, locals
        <3>2. Collected(w) => pc' = [pc EXCEPT ![w] = "replaceBlocks"]
            BY <1>1 DEF Collected, Goto, ExecutorOK, Writing
        <3>3. ListMerge(w) => pc' = [pc EXCEPT ![w] = "collect"]
            <4>1. ListMerge(w) => FromCache
                BY <1>1, CacheServes DEF ListMerge, Goto, Preparing
            <4> QED
                BY <4>1 DEF ListMerge, Goto
        <3> QED
            BY <1>1, <2>4, <3>1, <3>2, <3>3
               DEF ListMerge, Collect, Collected, Replace, ReadManifest, ReplaceIndex, Goto,
                   PastRows, PastParent, Replacing
    <2>5. ASSUME pc[w] \in PastRows, pc'[w] \in PastRows, parentSeen'[w] = parentSeen[w], newState'[w] = newState[w]
          PROVE  RefreshOK(w)' /\ (AllDone /\ Told(w) => Told(w)' \/ parent' = "done")
        BY <1>1, <1>3, <1>6, <2>5 DEF RefreshOK, Told, PastRows, PastParent, Replacing
    <2>6. ASSUME ExecutorMoves(w) \/ Remember(w)
          PROVE  pc'[w] \notin PastParent /\ pc[w] \notin PastParent /\ pc[w] \notin {"readParent", "readRows"}
        BY <1>1, <2>6 DEF ExecutorMoves, Claim, SavePart, FinishPart, Remember, Goto, PastParent, Replacing
    <2>7. ExecutorMoves(w) \/ Remember(w) => RefreshOK(w)' /\ (AllDone /\ Told(w) => Told(w)' \/ parent' = "done")
        BY <2>6 DEF RefreshOK, Told, PastRows
    <2> QED
        BY <2>1, <2>2, <2>3, <2>4, <2>5, <2>7 DEF RefreshMoves, ReplaceMoves
<1>10. AllDone' => parent' = "done" \/ \E q \in Procs : Told(q)'
    <2>1. CASE Remember(w)
        <3>1. pc'[w] = "readParent"
            BY <1>1, <2>1 DEF Remember, Goto
        <3> QED
            BY <1>1, <3>1 DEF Told
    <2>2. CASE ~Remember(w)
        <3>1. UNCHANGED cache
            BY <2>2 DEF ExecutorMoves, Claim, SavePart, FinishPart, RefreshMoves, ReadParent, ReadRows, ListMerge,
                        Collect, Collected, ReplaceMoves, Replace, ReadManifest, ReplaceIndex, SetParent, store
        <3>2. AllDone' => AllDone
            BY <3>1 DEF AllDone
        <3>3. ASSUME NEW q \in Procs, q # w, Told(q) PROVE Told(q)'
            BY <1>2, <3>3 DEF Told
        <3> QED
            BY <1>1, <1>6, <1>9, <3>2, <3>3
    <2> QED
        BY <2>1, <2>2
<1> QED
    BY <1>3, <1>6, <1>7, <1>8, <1>9, <1>10 DEF ParentIsTold

\* The planning call leaves the parent partial, and nothing merged.
LEMMA EarlyKeeps ==
    ASSUME ParentInv, ParentInv', FirstRun, FirstInv, Early, Next
    PROVE  FirstInv'
<1>1. /\ Api \in Procs /\ pc[Api] \in Planning /\ ~changed[Api]
      /\ todo[Api] = {} /\ got[Api] = [p \in Parts |-> Nothing]
      /\ \A w \in Workers : w \in Procs /\ w # Api /\ pc[w] = "idle" /\ ~changed[w]
      /\ \A p \in Parts : /\ row[p][1] \in {"absent", "pending"} /\ cache[p][2] \in {"absent", "pending"}
                          /\ row[p][1] = "pending" => <<p, 1>> \in unsubmitted
      /\ parent = "absent" => pc[Api] = "idle"
      /\ parent = "pending" => pc[Api] = "partial"
      /\ parent \in {"absent", "pending", "partial"}
      /\ RefreshOK(Api)
      /\ pc \in [Procs -> Execute \cup Calls \cup Refresh] /\ cache \in Listings /\ runs \in [Parts -> 0..1]
      /\ changed \in [Procs -> BOOLEAN] /\ 1 \in Parts /\ Runs = {1}
      /\ newState \in [Procs -> ParentStates] /\ parentSeen \in [Procs -> ParentStates]
      /\ todo \in [Procs -> SUBSET Parts] /\ got \in [Procs -> [Parts -> PartDocs]]
    <2>1. /\ \A w \in Workers : w \in Procs /\ w # Api /\ pc[w] = "idle" /\ ~changed[w]
          /\ \A p \in Parts : /\ row[p][1] \in {"absent", "pending"} /\ cache[p][2] \in {"absent", "pending"}
                              /\ row[p][1] = "pending" => <<p, 1>> \in unsubmitted
        BY DEF FirstInv, NothingIsStarted, ExecutorOK, Procs
    <2>2. ~AllDone /\ 1 \in Parts /\ Runs = {1}
        BY <2>1, OneRun DEF AllDone
    <2>3. parent \in {"absent", "pending", "partial"}
        BY <2>2 DEF FirstInv, NothingIsStarted, ParentIsTold
    <2>4. Api \in Procs /\ RefreshOK(Api)
        BY DEF Procs, FirstInv, ParentIsTold
    <2>5. runs \in [Parts -> 0..1]
        BY DEF ParentInv, TypeOK, StoreOK, FirstRun
    <2> QED
        BY <2>1, <2>2, <2>3, <2>4, <2>5
           DEF FirstInv, NothingIsStarted, ParentInv, TypeOK, StoreOK, ControlOK, LocalsOK
<1>2. \/ Plan \/ Partial \/ \E p \in Parts : CreatePart(p)
      \/ ReadParent(Api) \/ ReadRows(Api) \/ ListMerge(Api) \/ Collected(Api) \/ SetParent(Api)
    BY EarlyMoves DEF FirstInv
<1>3. \A w \in Workers : pc'[w] = "idle" /\ ~changed'[w]
    BY <1>1, <1>2
       DEF Plan, Partial, CreatePart, ReadParent, ReadRows, ListMerge, Collected, SetParent, Goto, Forget, locals
<1>4. \A p \in Parts : row'[p][1] \in {"absent", "pending"} /\ cache'[p][2] \in {"absent", "pending"}
    <2>1. ASSUME NEW a \in Parts, CreatePart(a)
          PROVE  \A p \in Parts : row'[p][1] \in {"absent", "pending"} /\ cache'[p][2] \in {"absent", "pending"}
        <3>1. row' = [row EXCEPT ![a][1] = "pending"] /\ cache' = [cache EXCEPT ![a] = <<1, "pending">>]
            BY <2>1 DEF CreatePart, CreateJob, FirstRun
        <3>2. row \in [Parts -> [Runs -> PartRows]] /\ cache \in [Parts -> (0..MaxRuns) \X PartRows] /\ 1 \in Runs
            BY <1>1 DEF ParentInv, TypeOK, StoreOK, Listings
        <3>3. \A p \in Parts : /\ row'[p][1] = IF p = a THEN "pending" ELSE row[p][1]
                               /\ cache'[p] = IF p = a THEN <<1, "pending">> ELSE cache[p]
            BY <3>1, <3>2
        <3>4. \A p \in Parts : row[p][1] \in {"absent", "pending"} /\ cache[p][2] \in {"absent", "pending"}
            BY <1>1
        <3>5. ASSUME NEW p \in Parts
              PROVE row'[p][1] \in {"absent", "pending"} /\ cache'[p][2] \in {"absent", "pending"}
            <4>1. CASE p = a
                BY <3>3, <4>1
            <4>2. CASE p # a
                BY <3>3, <3>4, <4>2
            <4> QED
                BY <4>1, <4>2
        <3> QED
            BY <3>5
    <2>2. (\E a \in Parts : CreatePart(a)) \/ UNCHANGED <<row, cache>>
        BY <1>2 DEF Plan, Partial, ReadParent, ReadRows, ListMerge, Collected, SetParent, store
    <2> QED
        BY <1>1, <2>1, <2>2
<1>5. (\A w \in Workers : ExecutorOK(w)') /\ OneEach' /\ (\A p \in Parts : PartOK(p)') /\ ~AllDone'
    BY <1>1, <1>3, <1>4 DEF ExecutorOK, OneEach, PartOK, AllDone, Failed
<1>6. ASSUME pc'[Api] # "idle" \/ Plan
      PROVE  \A p \in Parts : row'[p][1] = "pending" => <<p, 1>> \in unsubmitted'
    <2>1. ASSUME NEW a \in Parts, CreatePart(a)
          PROVE  \A p \in Parts : row'[p][1] = "pending" => <<p, 1>> \in unsubmitted'
        <3>1. row' = [row EXCEPT ![a][1] = "pending"] /\ unsubmitted' = unsubmitted \cup {<<a, 1>>}
            BY <2>1 DEF CreatePart, CreateJob, FirstRun
        <3> QED
            BY <1>1, <3>1 DEF ParentInv, TypeOK, StoreOK
    <2>2. SetParent(Api) => pc'[Api] = "idle"
        BY <1>1 DEF SetParent, Goto
    <2>3. (\E a \in Parts : CreatePart(a)) \/ SetParent(Api) \/ UNCHANGED <<row, unsubmitted>>
        BY <1>2 DEF Plan, Partial, ReadParent, ReadRows, ListMerge, Collected, store
    <2>4. Plan => ~SetParent(Api)
        BY DEF Plan, SetParent, Goto
    <2> QED
        BY <1>1, <1>6, <2>1, <2>2, <2>3, <2>4
<1> DEFINE PlanningOK ==
        /\ pc'[Api] \in Planning /\ parent' \in {"pending", "partial"}
        /\ parent' = "pending" => pc'[Api] = "partial"
        /\ ~changed'[Api] /\ todo'[Api] = {} /\ got'[Api] = [p \in Parts |-> Nothing]
        /\ RefreshOK(Api)'
<1>7. PlanningOK
    <2>1. CASE Plan \/ Partial
        BY <1>1, <2>1 DEF Plan, Partial, Goto, Planning, RefreshOK, PastRows, PastParent, Replacing, locals
    <2>2. ASSUME NEW p \in Parts, CreatePart(p) PROVE PlanningOK
        <3>1. pc'[Api] \in {"readParent", "createParts"} /\ pc[Api] = "createParts" /\ UNCHANGED <<parent, locals>>
            BY <1>1, <2>2 DEF CreatePart, CreateJob
        <3> QED
            BY <1>1, <3>1 DEF Planning, RefreshOK, PastRows, PastParent, Replacing, locals
    <2>3. CASE ReadParent(Api)
        <3>1. pc'[Api] = "readRows" /\ pc[Api] = "readParent" /\ parentSeen'[Api] = parent
              /\ UNCHANGED <<parent, changed, todo, got>>
            BY <1>1, <2>3 DEF ReadParent, Goto, store
        <3> QED
            BY <1>1, <3>1 DEF Planning, RefreshOK, PastRows, PastParent, Replacing
    <2>4. CASE ReadRows(Api)
        <3>1. FromCache /\ \A p \in Parts : cache[p] # <<0, "absent">>
            BY <1>1, <2>4, CacheServes DEF ReadRows, Goto, Preparing
        <3>2. PICK n : n = PartitionParentState(cache)
            OBVIOUS
        <3>3. n = "partial"
            BY <1>1, <3>1, <3>2, Verdict DEF Failed
        <3>4. pc' = [pc EXCEPT ![Api] = "listMerge"] /\ newState' = [newState EXCEPT ![Api] = n]
              /\ UNCHANGED <<parentSeen, parent, changed, todo, got>>
            BY <2>4, <3>1, <3>2 DEF ReadRows, Goto, store
        <3>5. pc'[Api] = "listMerge" /\ newState'[Api] = "partial" /\ pc[Api] = "readRows"
            BY <1>1, <2>4, <3>3, <3>4 DEF ReadRows, Goto
        <3> QED
            BY <1>1, <3>4, <3>5 DEF Planning, RefreshOK, PastRows, PastParent, Replacing
    <2>5. CASE ListMerge(Api)
        <3>1. FromCache
            BY <1>1, <2>5, CacheServes DEF ListMerge, Goto, Preparing
        <3>2. DoneIn(cache) = {}
            BY <1>1 DEF DoneIn
        <3>3. pc' = [pc EXCEPT ![Api] = "collect"] /\ todo'[Api] = {}
              /\ UNCHANGED <<parentSeen, newState, parent, changed, got>>
            BY <1>1, <2>5, <3>1, <3>2 DEF ListMerge, Goto, store
        <3>4. pc'[Api] = "collect" /\ pc[Api] = "listMerge"
            BY <1>1, <2>5, <3>3 DEF ListMerge, Goto
        <3> QED
            BY <1>1, <3>3, <3>4 DEF Planning, RefreshOK, PastRows, PastParent, Replacing, AllDone
    <2>6. CASE Collected(Api)
        <3>1. pc'[Api] = "setParent" /\ pc[Api] = "collect" /\ UNCHANGED <<store, locals>>
            BY <1>1, <2>6 DEF Collected, Goto
        <3> QED
            BY <1>1, <3>1 DEF Planning, RefreshOK, PastRows, PastParent, Replacing, AllDone, store, locals
    <2>7. CASE SetParent(Api)
        <3>1. pc'[Api] = "idle" /\ pc[Api] = "setParent" /\ ~changed'[Api] /\ todo'[Api] = {}
              /\ got'[Api] = [p \in Parts |-> Nothing]
            BY <1>1, <2>7 DEF SetParent, Goto, Forget
        <3>2. parent = "partial" /\ newState[Api] = "partial"
            <4>1. ~AllDone
                BY <1>1 DEF AllDone
            <4> QED
                BY <1>1, <3>1, <4>1 DEF RefreshOK, PastRows, PastParent
        <3>3. parent' = "partial"
            BY <2>7, <3>2 DEF SetParent
        <3> QED
            BY <3>1, <3>3 DEF Planning, RefreshOK, PastRows, PastParent, Replacing
    <2> QED
        BY <1>2, <2>1, <2>2, <2>3, <2>4, <2>5, <2>6, <2>7
<1>8. NothingIsStarted'
    <2>1. Early' => pc'[Api] # "idle"
        BY <1>7 DEF Early
    <2> QED
        BY <1>3, <1>4, <1>6, <1>7, <2>1 DEF NothingIsStarted
<1>9. ParentIsTold'
    <2>1. ASSUME NEW w \in Workers PROVE RefreshOK(w)'
        BY <1>3 DEF RefreshOK, PastRows, PastParent, Replacing
    <2> QED
        BY <1>5, <1>7, <2>1 DEF ParentIsTold, Procs
<1> QED
    BY <1>5, <1>8, <1>9 DEF FirstInv

-----------------------------------------------------------------------------
\* In the beginning nothing is started.
LEMMA FirstStarts == ASSUME FirstRun, Init PROVE FirstInv
<1>1. 1 \in Parts /\ 1 \in Runs /\ Api \in Procs /\ \A w \in Workers : w \in Procs
    BY OneRun DEF Procs
<1>2. NothingIsStarted
    BY <1>1 DEF Init, NothingIsStarted, Planning, Empty
<1>3. (\A w \in Workers : ExecutorOK(w)) /\ OneEach
    BY <1>1 DEF Init, ExecutorOK, OneEach
<1>4. \A p \in Parts : PartOK(p) /\ cache[p][2] = "absent"
    BY <1>1 DEF Init, PartOK, Empty, Failed
<1>5. ParentIsTold
    BY <1>1, <1>4 DEF Init, ParentIsTold, RefreshOK, PastRows, PastParent, Replacing, AllDone
<1> QED
    BY <1>2, <1>3, <1>4, <1>5 DEF FirstInv

\* Every step keeps the invariant.
LEMMA FirstStep == ASSUME ParentInv, FirstRun, FirstInv, [Next]_vars PROVE FirstInv'
<1>1. ParentInv'
    BY ParentStep
<1>2. CASE Next /\ Early
    BY <1>1, <1>2, EarlyKeeps
<1>3. CASE Next /\ ~Early
    <2>1. PICK w \in Workers : ExecutorMoves(w) \/ RefreshMoves(w) \/ ReplaceMoves(w)
        BY <1>3, LateMoves
    <2>2. PICK m \in Parts : OwnKept(w, m)
        BY <2>1, ExecutorKeeps, RefreshKeeps, ReplaceKeeps
    <2> QED
        BY <1>3, <2>1, <2>2, OthersKept, LateTold DEF FirstInv
<1>4. CASE UNCHANGED vars
    BY <1>4
       DEF vars, store, locals, FirstInv, NothingIsStarted, Early, ExecutorOK, OneEach, By, PartOK, AllDone, Told,
                RefreshOK, ParentIsTold
<1> QED
    BY <1>2, <1>3, <1>4

\* In the first run of a document whose parts succeed, with any number of threads and
\* parts: when nothing is under way, the parent's row says what the rows of its parts add
\* up to, and it holds what the run of every part that is done has stored, although every
\* thread refreshes it on its own, from a cache that others write, and writes the state it
\* has computed statements earlier (refresh_partitioned_parent).
THEOREM FirstRunAgrees == ASSUME FirstRun PROVE Spec => []RefreshesAgree
<1>1. Init => ParentInv /\ FirstInv
    BY ParentStarts, FirstStarts
<1>2. ParentInv /\ FirstInv /\ [Next]_vars => (ParentInv /\ FirstInv)'
    BY ParentStep, FirstStep
<1>3. ParentInv /\ FirstInv => RefreshesAgree
    <2> SUFFICES ASSUME ParentInv, FirstInv, Quiet PROVE (Planned => parent = PartitionParentState(Latest)) /\
                     \A p \in Parts : LatestState(p) = "done" =>
                         merged[p] = [blocks |-> runs[p], chunks |-> runs[p], index |-> runs[p]]
        BY DEF RefreshesAgree, ParentAgrees, MergedIsLatest
    <2>1. /\ \A q \in Procs : pc[q] = "idle"
          /\ \A w \in Workers : pc[w] = "idle"
          /\ runs \in [Parts -> 0..1] /\ TypeOK
        BY DEF Quiet, Procs, ParentInv, TypeOK, StoreOK, FirstRun
    <2>2. \A p \in Parts : PartOK(p) /\ ~By(p, Writing) /\ ~By(p, {"remember"}) /\ ~By(p, Merging)
        BY <2>1 DEF FirstInv, By, Writing, Merging, Replacing
    <2>3. \A p \in Parts : runs[p] # 0 => runs[p] = 1 /\ LatestState(p) = row[p][1]
        BY <2>1 DEF LatestState
    <2>4. ASSUME NEW p \in Parts, LatestState(p) = "done"
          PROVE  merged[p] = [blocks |-> runs[p], chunks |-> runs[p], index |-> runs[p]]
        <3>1. runs[p] = 1 /\ row[p][1] = "done"
            BY <2>3, <2>4 DEF LatestState
        <3> QED
            BY <2>2, <3>1 DEF PartOK, Whole
    <2>5. ASSUME Planned PROVE parent = PartitionParentState(Latest)
        <3>1. PICK rows : rows = Latest
            OBVIOUS
        <3>2. \A p \in Parts : rows[p] # <<0, "absent">> /\ rows[p][2] = row[p][1]
            BY <2>3, <2>5, <3>1 DEF Planned, Latest
        <3>3. \A p \in Parts : rows[p][2] \notin Failed /\ (rows[p][2] = "done" <=> cache[p][2] = "done")
            BY <2>2, <3>2 DEF PartOK
        <3>4. parent \in {"partial", "done"} /\ (parent = "done" <=> AllDone)
            <4>1. \A q \in Procs : ~Told(q)
                BY <2>1 DEF Told, PastRows, PastParent, Replacing
            <4>2. pc[Api] = "idle"
                BY <2>1 DEF Procs
            <4> QED
                BY <2>5, <4>1, <4>2 DEF FirstInv, NothingIsStarted, ParentIsTold, Planned
        <3> QED
            <4>1. (\A p \in Parts : rows[p][2] = "done") <=> AllDone
                BY <3>3 DEF AllDone
            <4>2. \A p \in Parts : rows[p] # <<0, "absent">> /\ rows[p][2] \notin Failed
                BY <3>2, <3>3
            <4>3. /\ (\A p \in Parts : rows[p][2] = "done") => PartitionParentState(rows) = "done"
                  /\ ~(\A p \in Parts : rows[p][2] = "done") => PartitionParentState(rows) = "partial"
                BY <4>2, Verdict
            <4>4. parent = PartitionParentState(rows)
                BY <3>4, <4>1, <4>3
            <4> QED
                BY <3>1, <4>4
    <2> QED
        BY <2>4, <2>5
<1> QED
    BY <1>1, <1>2, <1>3, PTL DEF Spec

-----------------------------------------------------------------------------
(* One executor at a time: what it merges is of the newest finished run,   *)
(* while parts fail, are run again, cancelled and read.                    *)

OneExecutor == Cached /\ \A v, w \in Workers : v = w

\* A run an executor has taken; the last of these, when it is done.
Begun(p, r) == row[p][r] \in {"active", "done", "failed"}
NoneAfter(p, r) == \A i \in Runs : r < i => ~Begun(p, i)
Finished(p, r) == r \in Runs /\ row[p][r] = "done" /\ NoneAfter(p, r)

\* The runs of a part begin in the order they were created, each by the executor,
InOrder == \A p \in Parts, i \in Runs, j \in Runs : Begun(p, j) /\ i < j => row[p][i] # "pending"
Holds(w) == pc[w] \in Writing \cup {"remember"}
WriterOK(w) ==
    /\ Holds(w) => part[w] \in Parts /\ run[w] \in Runs /\ NoneAfter(part[w], run[w])
    /\ pc[w] \in Writing => row[part[w]][run[w]] = "active"
    /\ pc[w] = "saveChunksOfPart" => partDoc[part[w]].blocks = run[w]
    /\ pc[w] = "finish" => partDoc[part[w]].blocks = run[w] /\ partDoc[part[w]].chunks = run[w]
ActiveIsHeld ==
    \A p \in Parts, r \in Runs : row[p][r] = "active" =>
        \E w \in Workers : part[w] = p /\ run[w] = r /\ pc[w] \in Writing

\* and what is stored of a part is of the last that has begun, if that is done.
DocOK ==
    \A p \in Parts, r \in Runs :
        row[p][r] = "done" /\ NoneAfter(p, r) => partDoc[p].blocks = r /\ partDoc[p].chunks = r

\* A part that is done as the cache has it has no later run but the one at work.
Overtaken(p, r) == \E w \in Workers : Holds(w) /\ part[w] = p /\ r < run[w]
CacheOK ==
    \A p \in Parts : cache[p][2] = "done" =>
        /\ cache[p][1] \in Runs /\ row[p][cache[p][1]] = "done"
        /\ NoneAfter(p, cache[p][1]) \/ Overtaken(p, cache[p][1])

\* The API's own listings are of the last jobs, which only it creates.
ApiOK ==
    /\ pc[Api] \in {"viewAssign", "cancelAssign"} =>
           \A p \in Parts :
               /\ seen[Api][p][1] = runs[p]
               /\ seen[Api][p][2] = "done" => runs[p] \in Runs /\ row[p][runs[p]] = "done"
    /\ pc[Api] = "remember" =>
           part[Api] \in Parts /\ run[Api] \in Runs /\ row[part[Api]][run[Api]] = "cancelled"
ListedOnce == \A q \in Procs : pc[q] \notin {"assign", "assignMerge"}

\* What the executor is about to merge.
GotOK(w) ==
    /\ pc[w] = "collect" => \A p \in todo[w] : \E r \in Runs : Finished(p, r)
    /\ \A p \in Parts : /\ got[w][p].blocks # 0 => Finished(p, got[w][p].blocks)
                        /\ got[w][p].chunks # 0 => Finished(p, got[w][p].chunks)
    /\ pc[w] = "idle" => \A p \in Parts : got[w][p] = Nothing

SoleInv ==
    /\ InOrder /\ ActiveIsHeld /\ DocOK /\ CacheOK /\ ApiOK /\ ListedOnce
    /\ \A w \in Workers : WriterOK(w) /\ GotOK(w)

\* In inline mode every list of the rows after the preparation is the cache.
LEMMA InlineServes ==
    ASSUME ParentInv, Cached, NEW q \in Procs, pc[q] \notin Preparing
    PROVE  FromCache
<1>1. NobodyIsEarly /\ NoneIsMissing
    BY DEF ParentInv, Inline
<1>2. Complete
    BY <1>1, AtWorkAllIsComplete
<1>3. \A p \in Parts : cache[p] # <<0, "absent">>
    BY <1>1, <1>2 DEF NoneIsMissing, Complete
<1>4. cache # Empty /\ 1 \in Parts
    BY <1>3 DEF Empty, Parts
<1> QED
    BY <1>4 DEF FromCache

\* Steps that begin no run and end none keep what is said of these.
SameRuns ==
    \A p \in Parts, r \in Runs : Begun(p, r) \/ row'[p][r] \in {"active", "done", "failed"} => row'[p][r] = row[p][r]

LEMMA RunsKept ==
    ASSUME SameRuns
    PROVE  \A p \in Parts, r \in Runs :
               /\ Begun(p, r)' <=> Begun(p, r)
               /\ NoneAfter(p, r)' <=> NoneAfter(p, r)
               /\ Finished(p, r)' <=> Finished(p, r)
               /\ row'[p][r] = "active" <=> row[p][r] = "active"
               /\ row'[p][r] = "done" <=> row[p][r] = "done"
<1>1. \A p \in Parts, r \in Runs : /\ Begun(p, r)' <=> Begun(p, r)
                                   /\ row'[p][r] = "active" <=> row[p][r] = "active"
                                   /\ row'[p][r] = "done" <=> row[p][r] = "done"
    BY DEF SameRuns, Begun
<1>2. \A p \in Parts, r \in Runs : NoneAfter(p, r)' <=> NoneAfter(p, r)
    BY <1>1 DEF NoneAfter
<1> QED
    BY <1>1, <1>2 DEF Finished

\* What only one executor does.
LEMMA SoleExecutes ==
    ASSUME OneExecutor, SoleInv, NEW w \in Workers, ExecuteStep(w)
    PROVE  \/ \E p \in Parts, r \in Runs : Claim(w, p, r)
           \/ SavePart(w, "saveBlocksOfPart", "saveChunksOfPart", "blocks")
           \/ SavePart(w, "saveChunksOfPart", "finish", "chunks")
           \/ FinishPart(w) \/ FailPart(w, "failed")
<1>1. pc[w] \in Writing => HasClaim(w)
    BY DEF SoleInv, WriterOK, HasClaim
<1>2. ~LoseClaim(w) /\ ~Crash(w)
    BY <1>1 DEF LoseClaim, Writing, Crash, OneExecutor
<1>3. ~FailPart(w, "pending")
    BY DEF FailPart, OneExecutor
<1>4. ASSUME NEW p \in Parts, NEW r \in Runs, NEW s, Recover(w, p, r, s) PROVE FALSE
    BY <1>4 DEF Recover, SoleInv, ActiveIsHeld
<1> QED
    BY <1>2, <1>3, <1>4 DEF ExecuteStep

\* The executor takes a run.
LEMMA ClaimKeeps ==
    ASSUME ParentInv, OneExecutor, SoleInv, NEW w \in Workers, NEW p \in Parts, NEW r \in Runs, Claim(w, p, r)
    PROVE  SoleInv'
<1>1. /\ w \in Procs /\ Api \in Procs /\ w # Api /\ \A v \in Workers : v = w
      /\ TypeOK /\ pc \in [Procs -> Execute \cup Calls \cup Refresh] /\ part \in [Procs -> Parts \cup {NoPart}]
      /\ run \in [Procs -> 0..MaxRuns] /\ "active" \in PartRows
    BY DEF Procs, OneExecutor, ParentInv, TypeOK, ControlOK, LocalsOK, PartRows
<1>2. /\ pc[w] = "idle" /\ pc'[w] = "saveBlocksOfPart" /\ part'[w] = p /\ run'[w] = r
      /\ pc'[Api] = pc[Api] /\ part'[Api] = part[Api] /\ run'[Api] = run[Api]
      /\ row[p][r] = "pending" /\ \A i \in 1..(r - 1) : row[p][i] # "pending"
      /\ UNCHANGED <<runs, partDoc, cache, seen, todo, got>>
    BY <1>1 DEF Claim, Goto, RunnerStarts, OneExecutor
<1>3. \A a \in Parts, b \in Runs : row'[a][b] = IF a = p /\ b = r THEN "active" ELSE row[a][b]
    BY <1>1, RowWritten DEF Claim, TypeOK
<1>4. \A a \in Parts, b \in Runs : row[a][b] # "active"
    BY <1>1, <1>2 DEF SoleInv, ActiveIsHeld, Writing
<1>5. NoneAfter(p, r)
    BY <1>2 DEF NoneAfter, SoleInv, InOrder
<1>6. \A a \in Parts, b \in Runs : Begun(a, b)' <=> (Begun(a, b) \/ (a = p /\ b = r))
    BY <1>3 DEF Begun
<1>7. \A a \in Parts, b \in Runs : NoneAfter(a, b)' <=> (NoneAfter(a, b) /\ ~(a = p /\ b < r))
    BY <1>6 DEF NoneAfter
<1>8. \A a \in Parts, b \in Runs : row'[a][b] = "done" <=> row[a][b] = "done"
    BY <1>2, <1>3
<1>9. InOrder'
    <2> SUFFICES ASSUME NEW a \in Parts, NEW i \in Runs, NEW j \in Runs, Begun(a, j)', i < j, row'[a][i] = "pending"
                 PROVE  FALSE
        BY DEF InOrder
    <2>1. row[a][i] = "pending"
        BY <1>2, <1>3
    <2>2. CASE Begun(a, j)
        BY <2>1, <2>2 DEF SoleInv, InOrder
    <2>3. CASE a = p /\ j = r
        <3>1. i \in 1..(r - 1)
            BY <2>3 DEF Runs
        <3> QED
            BY <1>2, <2>1, <2>3, <3>1
    <2> QED
        BY <1>6, <2>2, <2>3
<1>10. ActiveIsHeld'
    BY <1>2, <1>3, <1>4 DEF ActiveIsHeld, Writing
<1>11. DocOK'
    BY <1>2, <1>7, <1>8 DEF SoleInv, DocOK
<1>12. CacheOK'
    <2> SUFFICES ASSUME NEW a \in Parts, cache[a][2] = "done"
                 PROVE  /\ cache[a][1] \in Runs /\ row'[a][cache[a][1]] = "done"
                        /\ NoneAfter(a, cache[a][1])' \/ Overtaken(a, cache[a][1])'
        BY <1>2 DEF CacheOK
    <2> DEFINE c == cache[a][1]
    <2>1. c \in Runs /\ row[a][c] = "done" /\ (NoneAfter(a, c) \/ Overtaken(a, c))
        BY DEF SoleInv, CacheOK
    <2>2. NoneAfter(a, c)
        BY <1>1, <1>2, <2>1 DEF Overtaken, Holds, Writing
    <2>3. a = p /\ c < r => Overtaken(a, c)'
        BY <1>2 DEF Overtaken, Holds, Writing
    <2> QED
        BY <1>2, <1>7, <1>8, <2>1, <2>2, <2>3
<1>13. ApiOK'
    <2>1. \A a \in Parts, b \in Runs : row[a][b] = "cancelled" => row'[a][b] = "cancelled"
        BY <1>2, <1>3
    <2>2. \A a \in Parts : runs[a] \in Runs /\ row[a][runs[a]] = "done" => row'[a][runs[a]] = "done"
        BY <1>8
    <2> QED
        BY <1>2, <2>1, <2>2 DEF SoleInv, ApiOK
<1>14. ListedOnce'
    <2>1. \A q \in Procs : pc'[q] = IF q = w THEN "saveBlocksOfPart" ELSE pc[q]
        BY <1>1 DEF Claim, Goto
    <2> QED
        BY <2>1 DEF SoleInv, ListedOnce
<1>15. WriterOK(w)'
    <2>1. NoneAfter(p, r)'
        BY <1>5, <1>7 DEF Runs
    <2>2. row'[p][r] = "active"
        BY <1>3
    <2> QED
        BY <1>2, <2>1, <2>2 DEF WriterOK
<1>16. GotOK(w)'
    <2>1. \A a \in Parts : got[w][a] = Nothing
        BY <1>2 DEF SoleInv, GotOK
    <2> QED
        BY <1>2, <2>1 DEF GotOK, Nothing
<1> QED
    BY <1>1, <1>9, <1>10, <1>11, <1>12, <1>13, <1>14, <1>15, <1>16 DEF SoleInv

\* It stores what it made of the run,
LEMMA SaveKeeps ==
    ASSUME ParentInv, OneExecutor, SoleInv, NEW w \in Workers,
           \/ SavePart(w, "saveBlocksOfPart", "saveChunksOfPart", "blocks")
           \/ SavePart(w, "saveChunksOfPart", "finish", "chunks")
    PROVE  SoleInv'
<1>1. /\ w \in Procs /\ Api \in Procs /\ w # Api /\ \A v \in Workers : v = w
      /\ pc \in [Procs -> Execute \cup Calls \cup Refresh] /\ partDoc \in [Parts -> PartDocs]
    BY DEF Procs, OneExecutor, ParentInv, TypeOK, ControlOK, StoreOK
<1> DEFINE p == part[w]
           r == run[w]
<1>2. /\ UNCHANGED <<row, runs, cache, part, run, seen, todo, got>> /\ pc'[Api] = pc[Api]
      /\ \A q \in Procs : q # w => pc'[q] = pc[q]
      /\ pc[w] \in Writing /\ pc'[w] \in Writing
    BY <1>1 DEF SavePart, Goto, locals, Writing
<1>3. p \in Parts /\ r \in Runs /\ row[p][r] = "active" /\ NoneAfter(p, r)
    BY <1>2 DEF SoleInv, WriterOK, Holds
<1>4. \A a \in Parts : a # p => partDoc'[a] = partDoc[a]
    BY <1>1 DEF SavePart
<1>5. SameRuns
    BY <1>2 DEF SameRuns
<1>6. \A a \in Parts, b \in Runs : /\ Begun(a, b)' <=> Begun(a, b)
                                   /\ NoneAfter(a, b)' <=> NoneAfter(a, b)
                                   /\ Finished(a, b)' <=> Finished(a, b)
    BY <1>5, RunsKept
<1>7. InOrder'
    BY <1>2, <1>6 DEF SoleInv, InOrder
<1>8. ActiveIsHeld'
    BY <1>1, <1>2 DEF SoleInv, ActiveIsHeld
<1>9. DocOK'
    <2> SUFFICES ASSUME NEW a \in Parts, NEW b \in Runs, row[a][b] = "done", NoneAfter(a, b)
                 PROVE  partDoc'[a].blocks = b /\ partDoc'[a].chunks = b
        BY <1>2, <1>6 DEF DocOK
    <2>1. a # p
        <3>1. CASE a = p
            <4>1. b # r /\ ~(r < b) /\ ~(b < r)
                BY <1>3, <3>1 DEF NoneAfter, Begun
            <4> QED
                BY <1>3, <4>1 DEF Runs
        <3> QED
            BY <3>1
    <2> QED
        BY <1>4, <2>1 DEF SoleInv, DocOK
<1>10. CacheOK'
    <2>1. \A a \in Parts, b \in Runs : Overtaken(a, b) => Overtaken(a, b)'
        BY <1>1, <1>2 DEF Overtaken, Holds
    <2> QED
        BY <1>2, <1>6, <2>1 DEF SoleInv, CacheOK
<1>11. ApiOK'
    BY <1>2 DEF SoleInv, ApiOK
<1>12. ListedOnce'
    BY <1>1, <1>2 DEF SoleInv, ListedOnce, Writing
<1>13. WriterOK(w)'
    <2>1. pc'[w] \in Writing /\ row'[p][r] = "active" /\ NoneAfter(p, r)' /\ UNCHANGED <<part, run>>
        BY <1>2, <1>3, <1>6
    <2>2. CASE SavePart(w, "saveBlocksOfPart", "saveChunksOfPart", "blocks")
        <3>1. pc'[w] = "saveChunksOfPart"
            BY <1>1, <2>2 DEF SavePart, Goto
        <3>2. partDoc'[p].blocks = r
            BY <1>1, <1>3, <2>2 DEF SavePart, PartDocs
        <3> QED
            BY <1>3, <2>1, <3>1, <3>2 DEF WriterOK
    <2>3. CASE SavePart(w, "saveChunksOfPart", "finish", "chunks")
        <3>1. pc'[w] = "finish" /\ partDoc[p].blocks = r
            BY <1>1, <2>3 DEF SavePart, Goto, SoleInv, WriterOK
        <3>2. partDoc'[p].chunks = r /\ partDoc'[p].blocks = partDoc[p].blocks
            BY <1>1, <1>3, <2>3 DEF SavePart, PartDocs
        <3> QED
            BY <1>3, <2>1, <3>1, <3>2 DEF WriterOK
    <2> QED
        BY <2>2, <2>3
<1>14. GotOK(w)'
    <2>1. \A b : \A a \in Parts : Finished(a, b) => Finished(a, b)'
        BY <1>6 DEF Finished
    <2> QED
        BY <1>2, <2>1 DEF SoleInv, GotOK, Writing
<1> QED
    BY <1>1, <1>7, <1>8, <1>9, <1>10, <1>11, <1>12, <1>13, <1>14 DEF SoleInv

\* and ends it.
LEMMA EndKeeps ==
    ASSUME ParentInv, OneExecutor, SoleInv, NEW w \in Workers, FinishPart(w) \/ FailPart(w, "failed")
    PROVE  SoleInv'
<1>1. /\ w \in Procs /\ Api \in Procs /\ w # Api /\ \A v \in Workers : v = w
      /\ pc \in [Procs -> Execute \cup Calls \cup Refresh] /\ TypeOK
      /\ "done" \in PartRows /\ "failed" \in PartRows
    BY DEF Procs, OneExecutor, ParentInv, TypeOK, ControlOK, PartRows, Failed
<1> DEFINE p == part[w]
           r == run[w]
<1>2. /\ UNCHANGED <<partDoc, runs, cache, part, run, seen, todo, got>> /\ pc'[Api] = pc[Api]
      /\ \A q \in Procs : q # w => pc'[q] = pc[q]
      /\ pc[w] \in Writing /\ pc'[w] = "remember"
    BY <1>1 DEF FinishPart, FailPart, Goto, locals, Writing
<1>3. p \in Parts /\ r \in Runs /\ row[p][r] = "active" /\ NoneAfter(p, r)
    BY <1>2 DEF SoleInv, WriterOK, Holds
<1>4. PICK new \in {"done", "failed"} :
          row' = [row EXCEPT ![p][r] = new] /\ (new = "done" => pc[w] = "finish")
    BY DEF FinishPart, FailPart, Goto
<1>5. \A a \in Parts, b \in Runs : row'[a][b] = IF a = p /\ b = r THEN new ELSE row[a][b]
    BY <1>1, <1>4, RowWritten DEF TypeOK
<1>6. \A a \in Parts, b \in Runs : Begun(a, b)' <=> Begun(a, b)
    BY <1>3, <1>4, <1>5 DEF Begun
<1>7. \A a \in Parts, b \in Runs : NoneAfter(a, b)' <=> NoneAfter(a, b)
    BY <1>6 DEF NoneAfter
<1>8. \A a \in Parts, b \in Runs : row[a][b] = "done" => row'[a][b] = "done"
    BY <1>3, <1>5
<1>9. InOrder'
    BY <1>4, <1>5, <1>6 DEF SoleInv, InOrder
<1>10. ActiveIsHeld'
    <2> SUFFICES ASSUME NEW a \in Parts, NEW b \in Runs, row'[a][b] = "active" PROVE FALSE
        BY DEF ActiveIsHeld
    <2>1. row[a][b] = "active" /\ ~(a = p /\ b = r)
        BY <1>4, <1>5
    <2> QED
        BY <1>1, <2>1 DEF SoleInv, ActiveIsHeld
<1>11. DocOK'
    <2> SUFFICES ASSUME NEW a \in Parts, NEW b \in Runs, row'[a][b] = "done", NoneAfter(a, b)
                 PROVE  partDoc[a].blocks = b /\ partDoc[a].chunks = b
        BY <1>2, <1>7 DEF DocOK
    <2>1. CASE a = p /\ b = r
        <3>1. pc[w] = "finish"
            BY <1>4, <1>5, <2>1
        <3> QED
            BY <2>1, <3>1 DEF SoleInv, WriterOK
    <2>2. CASE ~(a = p /\ b = r)
        <3>1. row[a][b] = "done"
            BY <1>5, <2>2
        <3> QED
            BY <3>1 DEF SoleInv, DocOK
    <2> QED
        BY <2>1, <2>2
<1>12. CacheOK'
    <2>1. \A a \in Parts, b \in Runs : Overtaken(a, b) => Overtaken(a, b)'
        BY <1>1, <1>2 DEF Overtaken, Holds
    <2> QED
        BY <1>2, <1>7, <1>8, <2>1 DEF SoleInv, CacheOK
<1>13. ApiOK'
    <2>1. \A a \in Parts, b \in Runs : row[a][b] = "cancelled" => row'[a][b] = "cancelled"
        BY <1>3, <1>5
    <2> QED
        BY <1>2, <1>8, <2>1 DEF SoleInv, ApiOK
<1>14. ListedOnce'
    BY <1>1, <1>2 DEF SoleInv, ListedOnce
<1>15. WriterOK(w)'
    BY <1>2, <1>3, <1>7 DEF WriterOK, Writing
<1>16. GotOK(w)'
    <2>1. \A b : \A a \in Parts : Finished(a, b) => Finished(a, b)'
        BY <1>7, <1>8 DEF Finished
    <2> QED
        BY <1>2, <2>1 DEF SoleInv, GotOK
<1> QED
    BY <1>1, <1>9, <1>10, <1>11, <1>12, <1>13, <1>14, <1>15, <1>16 DEF SoleInv

\* A part job enters the cache.
LEMMA RememberKeeps ==
    ASSUME ParentInv, OneExecutor, SoleInv, NEW q \in Procs, Remember(q)
    PROVE  SoleInv'
<1>1. /\ Api \in Procs /\ \A v \in Workers : v \in Procs /\ v # Api
      /\ pc \in [Procs -> Execute \cup Calls \cup Refresh] /\ cache \in Listings
      /\ todo \in [Procs -> SUBSET Parts]
    BY DEF Procs, ParentInv, TypeOK, ControlOK, StoreOK, LocalsOK
<1>2. /\ UNCHANGED <<row, partDoc, runs, part, run, seen, todo, got>>
      /\ pc[q] = "remember" /\ pc'[q] = "readParent"
      /\ \A v \in Procs : v # q => pc'[v] = pc[v]
      /\ cache' = [cache EXCEPT ![part[q]] = <<run[q], row[part[q]][run[q]]>>]
    BY <1>1 DEF Remember, Goto, locals, Remembered, OneExecutor
<1>3. SameRuns
    BY <1>2 DEF SameRuns
<1>4. \A a \in Parts, b \in Runs : /\ Begun(a, b)' <=> Begun(a, b)
                                   /\ NoneAfter(a, b)' <=> NoneAfter(a, b)
                                   /\ Finished(a, b)' <=> Finished(a, b)
    BY <1>3, RunsKept
<1>5. part[q] \in Parts /\ run[q] \in Runs
    BY <1>2 DEF SoleInv, WriterOK, Holds, ApiOK, Procs
<1>6. InOrder' /\ DocOK'
    BY <1>2, <1>4 DEF SoleInv, InOrder, DocOK
<1>7. ActiveIsHeld'
    BY <1>1, <1>2 DEF SoleInv, ActiveIsHeld, Writing
<1>8. CacheOK'
    <2> SUFFICES ASSUME NEW a \in Parts, NEW c, c = cache'[a][1], cache'[a][2] = "done"
                 PROVE  c \in Runs /\ row[a][c] = "done" /\ (NoneAfter(a, c)' \/ Overtaken(a, c)')
        BY <1>2 DEF CacheOK, NoneAfter, Overtaken
    <2>1. CASE a = part[q]
        <3>1. cache'[a] = <<run[q], row[a][run[q]]>>
            BY <1>1, <1>2, <2>1 DEF Listings
        <3>2. row[a][run[q]] = "done" /\ q \in Workers
            BY <1>2, <2>1, <3>1 DEF SoleInv, ApiOK, Procs
        <3>3. NoneAfter(a, run[q])
            BY <1>2, <2>1, <3>2 DEF SoleInv, WriterOK, Holds
        <3> QED
            BY <1>4, <1>5, <2>1, <3>1, <3>2, <3>3
    <2>2. CASE a # part[q]
        <3>1. cache'[a] = cache[a]
            BY <1>1, <1>2, <2>2 DEF Listings
        <3>2. c \in Runs /\ row[a][c] = "done" /\ (NoneAfter(a, c) \/ Overtaken(a, c))
            BY <3>1 DEF SoleInv, CacheOK
        <3>3. Overtaken(a, c) => Overtaken(a, c)'
            BY <1>1, <1>2, <2>2 DEF Overtaken, Holds
        <3> QED
            BY <1>4, <3>1, <3>2, <3>3
    <2> QED
        BY <2>1, <2>2
<1>9. ApiOK'
    BY <1>1, <1>2 DEF SoleInv, ApiOK
<1>10. ListedOnce'
    BY <1>1, <1>2 DEF SoleInv, ListedOnce
<1>11. ASSUME NEW v \in Workers PROVE WriterOK(v)' /\ GotOK(v)'
    <2>1. WriterOK(v) /\ GotOK(v)
        BY DEF SoleInv
    <2>2. \A b : \A a \in Parts : Finished(a, b) => Finished(a, b)'
        BY <1>4 DEF Finished
    <2>3. CASE v = q
        BY <1>2, <2>1, <2>2, <2>3 DEF WriterOK, GotOK, Holds, Writing
    <2>4. CASE v # q
        <3>1. pc'[v] = pc[v]
            BY <1>1, <1>2, <2>4
        <3>2. WriterOK(v)'
            BY <1>2, <1>4, <2>1, <3>1 DEF WriterOK, Holds
        <3>3. GotOK(v)'
            <4>1. got'[v] = got[v] /\ todo'[v] = todo[v]
                BY <1>2
            <4>2. pc[v] = "collect" => \A a \in todo[v] : \E r \in Runs : Finished(a, r)'
                BY <1>1, <2>1, <2>2 DEF GotOK
            <4>3. \A a \in Parts : /\ got[v][a].blocks # 0 => Finished(a, got[v][a].blocks)'
                                   /\ got[v][a].chunks # 0 => Finished(a, got[v][a].chunks)'
                BY <2>1, <2>2, <1>2 DEF GotOK
            <4> QED
                BY <2>1, <3>1, <4>1, <4>2, <4>3 DEF GotOK
        <3> QED
            BY <3>2, <3>3
    <2> QED
        BY <2>3, <2>4
<1> QED
    BY <1>6, <1>7, <1>8, <1>9, <1>10, <1>11 DEF SoleInv

\* A refresh touches no run, no listing that is kept, and what it reads is of the cache.
LEMMA RefreshTouches ==
    ASSUME ParentInv, Cached, SoleInv, NEW q \in Procs, RefreshStep(q)
    PROVE  /\ UNCHANGED <<row, partDoc, runs, cache>>
           /\ pc[q] \in Refresh /\ pc'[q] \in (Refresh \cup {"idle"}) \ {"assign", "assignMerge"}
           /\ \A v \in Procs \ {q} : /\ pc'[v] = pc[v] /\ part'[v] = part[v] /\ run'[v] = run[v]
                                     /\ seen'[v] = seen[v] /\ todo'[v] = todo[v] /\ got'[v] = got[v]
           /\ \/ got'[q] = got[q] /\ pc'[q] \notin {"collect", "idle"}
              \/ got'[q] = got[q] /\ pc'[q] = "collect" /\ todo'[q] \subseteq {p \in Parts : cache[p][2] = "done"}
              \/ pc[q] = "collect" /\ pc'[q] = "collect" /\ \E p \in todo[q] :
                     got' = [got EXCEPT ![q][p] = partDoc[p]] /\ todo'[q] = todo[q] \ {p}
              \/ got'[q] = [p \in Parts |-> Nothing] /\ pc'[q] = "idle"
<1>1. /\ pc \in [Procs -> Execute \cup Calls \cup Refresh]
      /\ part \in [Procs -> Parts \cup {NoPart}] /\ run \in [Procs -> 0..MaxRuns]
      /\ seen \in [Procs -> Listings] /\ todo \in [Procs -> SUBSET Parts]
      /\ got \in [Procs -> [Parts -> PartDocs]]
    BY DEF ParentInv, TypeOK, ControlOK, LocalsOK
<1>2. pc[q] \notin {"assign", "assignMerge"}
    BY DEF SoleInv, ListedOnce
<1>3. pc[q] \in {"readRows", "listMerge"} => FromCache
    BY InlineServes DEF Preparing
<1>4. CASE ReadParent(q) \/ NothingToMerge(q)
    BY <1>1, <1>4 DEF ReadParent, NothingToMerge, Goto, store, locals, Refresh
<1>5. CASE ReadRows(q)
    BY <1>1, <1>3, <1>5 DEF ReadRows, Goto, store, Refresh
<1>6. CASE ListMerge(q)
    <2>1. pc[q] = "listMerge" /\ pc' = [pc EXCEPT ![q] = "collect"]
        BY <1>3, <1>6 DEF ListMerge, Goto
    <2>2. todo'[q] \subseteq {p \in Parts : cache[p][2] = "done"}
        BY <1>1, <1>3, <1>6, <2>1 DEF ListMerge, DoneIn
    <2>3. /\ UNCHANGED <<row, partDoc, runs, cache, got, part, run>>
          /\ \A v \in Procs \ {q} : seen'[v] = seen[v] /\ todo'[v] = todo[v]
        BY <1>1, <1>6 DEF ListMerge, store
    <2> QED
        BY <1>1, <2>1, <2>2, <2>3 DEF Refresh
<1>7. ASSUME NEW p \in Parts, Collect(q, p) PROVE /\ UNCHANGED <<row, partDoc, runs, cache, pc, part, run, seen>>
                                                  /\ pc[q] = "collect" /\ p \in todo[q]
                                                  /\ got' = [got EXCEPT ![q][p] = partDoc[p]]
                                                  /\ todo'[q] = todo[q] \ {p}
                                                  /\ \A v \in Procs \ {q} : todo'[v] = todo[v] /\ got'[v] = got[v]
    BY <1>1, <1>7 DEF Collect, store
<1>8. CASE \/ Collected(q) \/ ReadManifest(q) \/ ReplaceIndex(q) \/ Compare(q) \/ Upsert(q)
           \/ Replace(q, "replaceBlocks", "replaceChunks", "blocks")
           \/ Replace(q, "replaceChunks", "readManifest", "chunks")
           \/ SaveAll(q, "saveBlocks", "saveChunks", "blocks")
           \/ SaveAll(q, "saveChunks", "upsert", "chunks")
    <2>1. UNCHANGED <<row, partDoc, runs, cache, part, run, seen, todo, got>>
        BY <1>8 DEF Collected, ReadManifest, ReplaceIndex, Compare, Upsert, Replace, SaveAll, store, locals
    <2>2. /\ pc[q] \in Refresh /\ pc'[q] \in Refresh \ {"assign", "assignMerge", "collect", "idle"}
          /\ \A v \in Procs \ {q} : pc'[v] = pc[v]
        BY <1>1, <1>8 DEF Collected, ReadManifest, ReplaceIndex, Compare, Upsert, Replace, SaveAll, Goto, Refresh
    <2> QED
        BY <2>1, <2>2
<1>9. CASE SetParent(q)
    BY <1>1, <1>9 DEF SetParent, Goto, Forget, Refresh
<1>10. ~Assign(q, "assign", "listMerge") /\ ~Assign(q, "assignMerge", "collect")
    BY <1>2 DEF Assign, Goto
<1>11. (\E p \in Parts : Collect(q, p)) =>
          /\ UNCHANGED <<row, partDoc, runs, cache>>
          /\ pc[q] = "collect" /\ pc'[q] = "collect"
          /\ \A v \in Procs \ {q} : /\ pc'[v] = pc[v] /\ part'[v] = part[v] /\ run'[v] = run[v]
                                    /\ seen'[v] = seen[v] /\ todo'[v] = todo[v] /\ got'[v] = got[v]
          /\ \E p \in todo[q] : got' = [got EXCEPT ![q][p] = partDoc[p]] /\ todo'[q] = todo[q] \ {p}
    BY <1>7
<1> QED
    BY <1>4, <1>5, <1>6, <1>8, <1>9, <1>10, <1>11 DEF RefreshStep, Refresh

LEMMA SoleRefreshKeeps ==
    ASSUME ParentInv, OneExecutor, SoleInv, NEW q \in Procs, RefreshStep(q)
    PROVE  SoleInv'
<1>1. /\ Api \in Procs /\ \A v \in Workers : v \in Procs /\ v # Api
      /\ todo \in [Procs -> SUBSET Parts] /\ got \in [Procs -> [Parts -> PartDocs]]
    BY DEF Procs, ParentInv, TypeOK, LocalsOK
<1>2. /\ UNCHANGED <<row, partDoc, runs, cache>>
      /\ pc[q] \in Refresh /\ pc'[q] \in (Refresh \cup {"idle"}) \ {"assign", "assignMerge"}
      /\ \A v \in Procs \ {q} : /\ pc'[v] = pc[v] /\ part'[v] = part[v] /\ run'[v] = run[v]
                                /\ seen'[v] = seen[v] /\ todo'[v] = todo[v] /\ got'[v] = got[v]
    BY RefreshTouches DEF OneExecutor
<1>3. SameRuns
    BY <1>2 DEF SameRuns
<1>4. \A a \in Parts, b \in Runs : /\ Begun(a, b)' <=> Begun(a, b)
                                   /\ NoneAfter(a, b)' <=> NoneAfter(a, b)
                                   /\ Finished(a, b)' <=> Finished(a, b)
    BY <1>3, RunsKept
<1>5. InOrder' /\ DocOK'
    BY <1>2, <1>4 DEF SoleInv, InOrder, DocOK
<1>6. \A v \in Workers : /\ Holds(v)' <=> Holds(v) /\ (pc'[v] \in Writing <=> pc[v] \in Writing)
                         /\ Holds(v) => v # q
    BY <1>1, <1>2 DEF Holds, Writing, Refresh
<1>7. ActiveIsHeld'
    <2> SUFFICES ASSUME NEW a \in Parts, NEW b \in Runs, row[a][b] = "active"
                 PROVE  \E v \in Workers : part'[v] = a /\ run'[v] = b /\ pc'[v] \in Writing
        BY <1>2 DEF ActiveIsHeld
    <2>1. PICK v \in Workers : part[v] = a /\ run[v] = b /\ pc[v] \in Writing
        BY DEF SoleInv, ActiveIsHeld
    <2>2. v # q
        BY <1>6, <2>1 DEF Holds
    <2> QED
        BY <1>1, <1>2, <2>1, <2>2
<1>8. CacheOK'
    <2>1. \A a \in Parts, b \in Runs : Overtaken(a, b) => Overtaken(a, b)'
        BY <1>1, <1>2, <1>6 DEF Overtaken
    <2> QED
        BY <1>2, <1>4, <2>1 DEF SoleInv, CacheOK
<1>9. ApiOK'
    <2>1. CASE q = Api
        BY <1>2, <2>1 DEF ApiOK, Refresh
    <2>2. CASE q # Api
        BY <1>1, <1>2, <2>2 DEF SoleInv, ApiOK
    <2> QED
        BY <2>1, <2>2
<1>10. ListedOnce'
    BY <1>2 DEF SoleInv, ListedOnce
<1>11. ASSUME NEW v \in Workers PROVE WriterOK(v)'
    <2>1. WriterOK(v)
        BY DEF SoleInv
    <2>2. CASE v = q
        BY <1>2, <2>2 DEF WriterOK, Holds, Writing, Refresh
    <2>3. CASE v # q
        <3>1. pc'[v] = pc[v] /\ part'[v] = part[v] /\ run'[v] = run[v]
            BY <1>1, <1>2, <2>3
        <3> QED
            BY <1>2, <1>4, <2>1, <3>1 DEF WriterOK, Holds
    <2> QED
        BY <2>2, <2>3
<1>12. ASSUME NEW v \in Workers PROVE GotOK(v)'
    <2>1. GotOK(v)
        BY DEF SoleInv
    <2>2. \A b : \A a \in Parts : Finished(a, b) => Finished(a, b)'
        BY <1>4 DEF Finished
    <2> DEFINE Read(a, b) == b # 0 /\ (b = got[v][a].blocks \/ b = got[v][a].chunks)
               ReadNext(a, b) == b # 0 /\ (b = got'[v][a].blocks \/ b = got'[v][a].chunks)
    <2>3. \A b : \A a \in Parts : Read(a, b) => Finished(a, b)
        BY <2>1 DEF GotOK
    <2>4. ASSUME \A b : \A a \in Parts : ReadNext(a, b) => Finished(a, b)',
                 pc'[v] = "collect" => \A a \in todo'[v] : \E r \in Runs : Finished(a, r)',
                 pc'[v] = "idle" => \A a \in Parts : got'[v][a] = Nothing
          PROVE  GotOK(v)'
        BY <2>4 DEF GotOK, Finished, NoneAfter
    <2>5. got'[v] = got[v] => \A b : \A a \in Parts : ReadNext(a, b) => Finished(a, b)'
        BY <2>2, <2>3
    <2>6. CASE v # q
        <3>1. pc'[v] = pc[v] /\ todo'[v] = todo[v] /\ got'[v] = got[v]
            BY <1>1, <1>2, <2>6
        <3>2. pc[v] = "collect" => \A a \in todo[v] : \E r \in Runs : Finished(a, r)'
            BY <1>1, <2>1, <2>2 DEF GotOK
        <3>3. pc[v] = "idle" => \A a \in Parts : got[v][a] = Nothing
            BY <2>1 DEF GotOK
        <3> QED
            BY <2>4, <2>5, <3>1, <3>2, <3>3
    <2>7. CASE v = q
        <3>1. CASE got'[q] = got[q] /\ pc'[q] \notin {"collect", "idle"}
            BY <2>4, <2>5, <2>7, <3>1
        <3>2. CASE got'[q] = got[q] /\ pc'[q] = "collect" /\ todo'[q] \subseteq {p \in Parts : cache[p][2] = "done"}
            <4>1. ASSUME NEW a \in todo'[q] PROVE \E r \in Runs : Finished(a, r)'
                <5>1. a \in Parts /\ cache[a][2] = "done"
                    BY <3>2, <4>1
                <5>2. ~Holds(q) /\ \A u \in Workers : u = q
                    BY <1>2, <2>7 DEF Holds, Writing, Refresh, OneExecutor
                <5>3. Finished(a, cache[a][1]) /\ cache[a][1] \in Runs
                    BY <5>1, <5>2 DEF SoleInv, CacheOK, Overtaken, Finished
                <5> QED
                    BY <2>2, <5>1, <5>3
            <4> QED
                BY <2>4, <2>5, <2>7, <3>2, <4>1
        <3>3. ASSUME pc[q] = "collect", pc'[q] = "collect",
                     NEW p \in todo[q], got' = [got EXCEPT ![q][p] = partDoc[p]], todo'[q] = todo[q] \ {p}
              PROVE  GotOK(v)'
            <4>1. p \in Parts /\ got'[q] = [got[q] EXCEPT ![p] = partDoc[p]]
                BY <1>1, <3>3
            <4>2. PICK r \in Runs : Finished(p, r)
                BY <2>1, <2>7, <3>3 DEF GotOK
            <4>3. partDoc[p].blocks = r /\ partDoc[p].chunks = r
                BY <4>1, <4>2 DEF SoleInv, DocOK, Finished
            <4>4. \A a \in Parts : got'[q][a] = IF a = p THEN partDoc[p] ELSE got[q][a]
                BY <1>1, <4>1
            <4>5. \A b : \A a \in Parts : ReadNext(a, b) => Finished(a, b)'
                BY <2>2, <2>3, <2>7, <4>2, <4>3, <4>4
            <4>6. \A a \in todo'[q] : \E i \in Runs : Finished(a, i)'
                <5>1. \A a \in todo[q] : a \in Parts /\ \E i \in Runs : Finished(a, i)
                    BY <1>1, <2>1, <2>7, <3>3 DEF GotOK
                <5> QED
                    BY <2>2, <3>3, <5>1
            <4> QED
                BY <2>4, <2>7, <3>3, <4>5, <4>6
        <3>4. CASE got'[q] = [p \in Parts |-> Nothing] /\ pc'[q] = "idle"
            <4>1. \A b : \A a \in Parts : ~ReadNext(a, b)
                BY <2>7, <3>4 DEF Nothing
            <4> QED
                BY <2>4, <2>7, <3>4, <4>1
        <3> QED
            BY <2>7, <3>1, <3>2, <3>3, <3>4, RefreshTouches DEF OneExecutor
    <2> QED
        BY <2>6, <2>7
<1> QED
    BY <1>5, <1>7, <1>8, <1>9, <1>10, <1>11, <1>12 DEF SoleInv

\* What the calls of the API leave alone.
LEMMA ApiTouches ==
    ASSUME ParentInv, Cached, ApiStep
    PROVE  /\ partDoc' = partDoc
           /\ \A w \in Workers : /\ pc'[w] = pc[w] /\ part'[w] = part[w] /\ run'[w] = run[w]
                                 /\ todo'[w] = todo[w] /\ got'[w] = got[w]
           /\ pc'[Api] \notin {"assign", "assignMerge"}
           /\ \/ UNCHANGED <<runs, row, cache>> /\ pc'[Api] \in {"partial", "createParts"}
              \/ \E p \in Parts : runs[p] < MaxRuns /\ CreateJob(p) /\ pc'[Api] \in {"createParts", "readParent"}
              \/ UNCHANGED <<runs, row, cache>> /\ seen'[Api] = Latest /\ pc'[Api] \in {"viewAssign", "cancelAssign"}
              \/ /\ UNCHANGED <<runs, row>> /\ cache' = seen[Api]
                 /\ pc[Api] \in {"viewAssign", "cancelAssign"} /\ pc'[Api] \in {"idle", "cancelWrite"}
              \/ UNCHANGED <<cache, part, run>> /\ CancelWrite
<1>1. /\ Api \in Procs /\ \A w \in Workers : w \in Procs /\ w # Api
      /\ pc \in [Procs -> Execute \cup Calls \cup Refresh] /\ runs \in [Parts -> 0..MaxRuns]
      /\ part \in [Procs -> Parts \cup {NoPart}] /\ run \in [Procs -> 0..MaxRuns]
      /\ seen \in [Procs -> Listings] /\ todo \in [Procs -> SUBSET Parts]
      /\ got \in [Procs -> [Parts -> PartDocs]]
    BY DEF Procs, ParentInv, TypeOK, ControlOK, StoreOK, LocalsOK
<1>2. CASE Plan \/ Partial
    BY <1>1, <1>2 DEF Plan, Partial, Goto, locals
<1>3. ASSUME NEW p \in Parts, CreatePart(p) \/ Rerun(p) PROVE
          /\ partDoc' = partDoc /\ UNCHANGED locals /\ \A w \in Workers : pc'[w] = pc[w]
          /\ runs[p] < MaxRuns /\ CreateJob(p) /\ pc'[Api] \in {"createParts", "readParent"}
    BY <1>1, <1>3 DEF CreatePart, Rerun, CreateJob, Goto
<1>4. ASSUME NEW p \in Parts, CancelRows(p) PROVE
          /\ partDoc' = partDoc /\ UNCHANGED <<runs, row, cache, todo, got>>
          /\ \A w \in Workers : pc'[w] = pc[w] /\ part'[w] = part[w] /\ run'[w] = run[w]
          /\ seen'[Api] = Latest /\ pc'[Api] = "cancelAssign"
    BY <1>1, <1>4 DEF CancelRows, Goto, store
<1>5. CASE ViewRows
    BY <1>1, <1>5 DEF ViewRows, Goto, store
<1>6. CASE ViewAssign
    BY <1>1, <1>6 DEF ViewAssign, Goto, Forget
<1>7. CASE Assign(Api, "cancelAssign", "cancelWrite")
    BY <1>1, <1>7 DEF Assign, Goto, locals
<1>8. CASE CancelWrite
    BY <1>1, <1>8 DEF CancelWrite, Goto, locals
<1> QED
    BY <1>2, <1>3, <1>4, <1>5, <1>6, <1>7, <1>8 DEF ApiStep, locals

LEMMA SoleApiKeeps ==
    ASSUME ParentInv, OneExecutor, SoleInv, ApiStep
    PROVE  SoleInv'
<1>1. /\ Api \in Procs /\ \A w \in Workers : w \in Procs /\ w # Api
      /\ StoreOK /\ RowsExist /\ "pending" \in PartRows /\ "cancelled" \in PartRows
      /\ part \in [Procs -> Parts \cup {NoPart}] /\ pc \in [Procs -> Execute \cup Calls \cup Refresh]
      /\ runs \in [Parts -> 0..MaxRuns] /\ cache \in Listings
    BY DEF Procs, ParentInv, TypeOK, ControlOK, StoreOK, LocalsOK, PartRows, Failed
<1>2. /\ partDoc' = partDoc
      /\ \A w \in Workers : /\ pc'[w] = pc[w] /\ part'[w] = part[w] /\ run'[w] = run[w]
                            /\ todo'[w] = todo[w] /\ got'[w] = got[w]
      /\ pc'[Api] \notin {"assign", "assignMerge"} /\ \A w \in Workers : pc[w] \notin {"assign", "assignMerge"}
    BY <1>1, ApiTouches DEF OneExecutor, SoleInv, ListedOnce
<1> DEFINE Quietly == UNCHANGED <<runs, row, cache>> /\ pc'[Api] \in {"partial", "createParts"}
           Creates(p) == runs[p] < MaxRuns /\ CreateJob(p) /\ pc'[Api] \in {"createParts", "readParent"}
           Lists == UNCHANGED <<runs, row, cache>> /\ seen'[Api] = Latest /\ pc'[Api] \in {"viewAssign", "cancelAssign"}
           Keeps == /\ UNCHANGED <<runs, row>> /\ cache' = seen[Api]
                    /\ pc[Api] \in {"viewAssign", "cancelAssign"} /\ pc'[Api] \in {"idle", "cancelWrite"}
           Marks == UNCHANGED <<cache, part, run>> /\ CancelWrite
<1>3. Quietly \/ (\E p \in Parts : Creates(p)) \/ Lists \/ Keeps \/ Marks
    BY ApiTouches DEF OneExecutor
<1>4. ASSUME NEW p \in Parts, Creates(p)
      PROVE  /\ runs[p] + 1 \in Runs /\ row[p][runs[p] + 1] = "absent"
             /\ \A a \in Parts, b \in Runs :
                    row'[a][b] = IF a = p /\ b = runs[p] + 1 THEN "pending" ELSE row[a][b]
             /\ \A a \in Parts : cache'[a] = IF a = p THEN <<runs[p] + 1, "pending">> ELSE cache[a]
    <2>1. runs[p] + 1 \in Runs /\ row[p][runs[p] + 1] = "absent"
        BY <1>1, <1>4 DEF RowsExist, Runs
    <2>2. /\ row' = [row EXCEPT ![p][runs[p] + 1] = "pending"]
          /\ cache' = [cache EXCEPT ![p] = <<runs[p] + 1, "pending">>]
        BY <1>4 DEF CreateJob, OneExecutor
    <2>3. \A a \in Parts, b \in Runs :
              row'[a][b] = IF a = p /\ b = runs[p] + 1 THEN "pending" ELSE row[a][b]
        BY <1>1, <2>2, RowWritten
    <2> QED
        BY <1>1, <2>1, <2>2, <2>3 DEF Listings
<1>5. ASSUME Marks
      PROVE  /\ part[Api] \in Parts /\ run[Api] \in Runs /\ row[part[Api]][run[Api]] = "pending"
             /\ \A a \in Parts, b \in Runs :
                    row'[a][b] = IF a = part[Api] /\ b = run[Api] THEN "cancelled" ELSE row[a][b]
    <2>1. part[Api] \in Parts /\ row[part[Api]][run[Api]] = "pending"
        BY <1>5 DEF ParentInv, OneExecutor, Inline, CancelledWaits, CancelWrite, Goto
    <2>2. run[Api] \in Runs
        BY <1>1, <2>1 DEF ParentInv, WorkExists, Runs
    <2> QED
        BY <1>1, <1>5, <2>1, <2>2, RowWritten DEF CancelWrite
<1>6. SameRuns
    <2>1. ASSUME NEW p \in Parts, Creates(p) PROVE SameRuns
        BY <1>4, <2>1 DEF SameRuns, Begun
    <2>2. CASE Marks
        BY <1>5, <2>2 DEF SameRuns, Begun
    <2> QED
        BY <1>3, <2>1, <2>2 DEF SameRuns
<1>7. \A a \in Parts, b \in Runs : /\ Begun(a, b)' <=> Begun(a, b)
                                   /\ NoneAfter(a, b)' <=> NoneAfter(a, b)
                                   /\ Finished(a, b)' <=> Finished(a, b)
                                   /\ row'[a][b] = "active" <=> row[a][b] = "active"
                                   /\ row'[a][b] = "done" <=> row[a][b] = "done"
    BY <1>6, RunsKept
<1>8. InOrder'
    <2> SUFFICES ASSUME NEW a \in Parts, NEW i \in Runs, NEW j \in Runs, Begun(a, j), i < j, row'[a][i] = "pending"
                 PROVE  FALSE
        BY <1>7 DEF InOrder
    <2>1. row[a][i] # "pending"
        BY DEF SoleInv, InOrder
    <2>2. PICK p \in Parts : Creates(p)
        BY <1>3, <1>5, <2>1
    <2>3. a = p /\ i = runs[p] + 1
        <3>1. \A c \in Parts : \A d \in Runs : row'[c][d] # row[c][d] => c = p /\ d = runs[p] + 1
            <4> SUFFICES ASSUME NEW c \in Parts, NEW d \in Runs, ~(c = p /\ d = runs[p] + 1)
                         PROVE  row'[c][d] = row[c][d]
                OBVIOUS
            <4>1. row' = [row EXCEPT ![p][runs[p] + 1] = "pending"]
                BY <2>2 DEF CreateJob
            <4> QED
                BY <1>1, <4>1 DEF StoreOK
        <3> QED
            BY <2>1, <3>1
    <2>4. row[a][j] = "absent"
        BY <1>1, <2>3 DEF RowsExist, Runs
    <2> QED
        BY <2>4 DEF Begun
<1>9. ActiveIsHeld'
    <2> SUFFICES ASSUME NEW a \in Parts, NEW b \in Runs, row[a][b] = "active"
                 PROVE  \E w \in Workers : part'[w] = a /\ run'[w] = b /\ pc'[w] \in Writing
        BY <1>7 DEF ActiveIsHeld
    <2>1. PICK w \in Workers : part[w] = a /\ run[w] = b /\ pc[w] \in Writing
        BY DEF SoleInv, ActiveIsHeld
    <2> QED
        BY <1>2, <2>1
<1>10. DocOK'
    BY <1>2, <1>7 DEF SoleInv, DocOK
<1>11. CacheOK'
    <2>1. \A a \in Parts, b \in Runs : Overtaken(a, b) => Overtaken(a, b)'
        BY <1>2 DEF Overtaken, Holds
    <2> SUFFICES ASSUME NEW a \in Parts, NEW c, c = cache'[a][1], cache'[a][2] = "done"
                 PROVE  c \in Runs /\ row'[a][c] = "done" /\ (NoneAfter(a, c)' \/ Overtaken(a, c)')
        BY DEF CacheOK, NoneAfter, Overtaken
    <2>2. CASE cache'[a] = cache[a]
        BY <1>7, <2>1, <2>2 DEF SoleInv, CacheOK
    <2>3. CASE Keeps
        <3>1. c = runs[a] /\ c \in Runs /\ row[a][c] = "done"
            BY <2>3 DEF SoleInv, ApiOK
        <3>2. NoneAfter(a, c)
            BY <1>1, <3>1 DEF NoneAfter, RowsExist, Begun
        <3> QED
            BY <1>7, <3>1, <3>2
    <2>4. ASSUME NEW p \in Parts, Creates(p) PROVE cache'[a] = cache[a]
        <3>1. cache'[a] = IF a = p THEN <<runs[p] + 1, "pending">> ELSE cache[a]
            BY <1>4, <2>4
        <3> QED
            BY <3>1
    <2> QED
        BY <1>3, <2>2, <2>3, <2>4
<1>12. ApiOK'
    <2>1. CASE Lists
        <3>1. \A a \in Parts : /\ seen'[Api][a][1] = runs[a]
                               /\ seen'[Api][a][2] = "done" => runs[a] \in Runs /\ row[a][runs[a]] = "done"
            BY <1>1, <2>1 DEF Latest, LatestState, Runs
        <3> QED
            BY <2>1, <3>1 DEF ApiOK
    <2>2. CASE Marks
        <3>1. pc'[Api] = "remember"
            BY <1>1, <2>2 DEF CancelWrite, Goto
        <3> QED
            BY <1>5, <2>2, <3>1 DEF ApiOK
    <2>3. CASE pc'[Api] \in {"partial", "createParts", "readParent", "idle", "cancelWrite"}
        BY <2>3 DEF ApiOK
    <2> QED
        BY <1>3, <2>1, <2>2, <2>3
<1>13. ListedOnce'
    BY <1>2 DEF ListedOnce, Procs
<1>14. ASSUME NEW w \in Workers PROVE WriterOK(w)'
    <2>1. WriterOK(w)
        BY DEF SoleInv
    <2> QED
        BY <1>2, <1>7, <2>1 DEF WriterOK, Holds
<1>15. ASSUME NEW w \in Workers PROVE GotOK(w)'
    <2>1. GotOK(w)
        BY DEF SoleInv
    <2>2. \A b : \A a \in Parts : Finished(a, b) => Finished(a, b)'
        BY <1>7 DEF Finished
    <2>3. \A b : \A a \in Parts : b # 0 /\ (b = got'[w][a].blocks \/ b = got'[w][a].chunks) => Finished(a, b)'
        BY <1>2, <2>1, <2>2 DEF GotOK
    <2>4. todo[w] \subseteq Parts
        BY <1>1 DEF ParentInv, TypeOK, LocalsOK
    <2>5. pc'[w] = "collect" => \A a \in todo'[w] : \E r \in Runs : Finished(a, r)'
        BY <1>2, <2>1, <2>2, <2>4 DEF GotOK
    <2>6. pc'[w] = "idle" => \A a \in Parts : got'[w][a] = Nothing
        BY <1>2, <2>1 DEF GotOK
    <2> QED
        BY <2>3, <2>5, <2>6 DEF GotOK, Finished, NoneAfter
<1> QED
    BY <1>8, <1>9, <1>10, <1>11, <1>12, <1>13, <1>14, <1>15 DEF SoleInv

LEMMA SoleStarts == ASSUME Init PROVE SoleInv
<1>1. Api \in Procs /\ \A w \in Workers : w \in Procs
    BY DEF Procs
<1>2. \A p \in Parts, r \in Runs : row[p][r] = "absent"
    BY DEF Init
<1>3. InOrder /\ ActiveIsHeld /\ DocOK
    BY <1>2 DEF InOrder, ActiveIsHeld, DocOK, Begun
<1>4. CacheOK
    BY DEF Init, CacheOK, Empty
<1>5. ApiOK /\ ListedOnce
    BY <1>1 DEF Init, ApiOK, ListedOnce
<1>6. ASSUME NEW w \in Workers PROVE WriterOK(w) /\ GotOK(w)
    BY <1>1 DEF Init, WriterOK, Holds, Writing, GotOK, Nothing
<1> QED
    BY <1>3, <1>4, <1>5, <1>6 DEF SoleInv

LEMMA SoleStep == ASSUME ParentInv, OneExecutor, SoleInv, [Next]_vars PROVE SoleInv'
<1>1. ASSUME NEW w \in Workers, ExecuteStep(w) PROVE SoleInv'
    BY <1>1, SoleExecutes, ClaimKeeps, SaveKeeps, EndKeeps
<1>2. CASE UNCHANGED vars
    BY <1>2 DEF vars, store, locals, SoleInv, InOrder, ActiveIsHeld, DocOK, CacheOK, ApiOK, ListedOnce,
                WriterOK, GotOK, Finished, NoneAfter, Begun, Overtaken, Holds
<1> QED
    BY <1>1, <1>2, SoleApiKeeps, RememberKeeps, SoleRefreshKeeps DEF Next

\* Executors put into the parent what the newest finished runs stored, or take a part away,
\* however the API's reruns, cancellations, listings and refreshes come in between, where
\* one part of the document is executed at a time (max_active_parts_per_doc = 1).
THEOREM SoleExecutorMergesNewest == ASSUME OneExecutor PROVE Spec => ExecutorMergesNewest
<1>1. Init => ParentInv /\ SoleInv
    BY ParentStarts, SoleStarts
<1>2. ParentInv /\ SoleInv /\ [Next]_vars => (ParentInv /\ SoleInv)'
    BY ParentStep, SoleStep
<1>3. ParentInv /\ SoleInv /\ [Next]_vars => MergesNewest
    <2> SUFFICES ASSUME ParentInv, SoleInv, [Next]_vars, pc'[Api] = pc[Api],
                        NEW p \in Parts, NEW a \in Artifacts, NEW m,
                        m = merged'[p][a], m \notin {0, merged[p][a]}
                 PROVE  NewestDone(p, m)
        BY DEF MergesNewest, NewestDone
    <2>1. /\ Api \in Procs /\ pc \in [Procs -> Execute \cup Calls \cup Refresh]
          /\ merged \in [Parts -> MergedParts]
        BY DEF Procs, ParentInv, TypeOK, ControlOK, StoreOK
    <2>2. merged' # merged
        OBVIOUS
    <2>3. PICK q \in Procs : RefreshStep(q)
        <3>1. ~ApiStep
            BY <2>2 DEF ApiStep, Plan, Partial, CreatePart, Rerun, CreateJob, CancelRows, ViewRows, ViewAssign,
                        Assign, CancelWrite, store
        <3>2. \A w \in Workers : ~ExecuteStep(w)
            BY <2>2 DEF ExecuteStep, Claim, SavePart, FinishPart, LoseClaim, Crash, FailPart, Recover, store
        <3>3. \A q \in Procs : ~Remember(q)
            BY <2>2 DEF Remember
        <3> QED
            BY <2>2, <3>1, <3>2, <3>3 DEF Next, vars, store
    <2>4. \/ Replace(q, "replaceBlocks", "replaceChunks", "blocks")
          \/ Replace(q, "replaceChunks", "readManifest", "chunks")
          \/ ReplaceIndex(q)
          \/ SaveAll(q, "saveBlocks", "saveChunks", "blocks")
          \/ SaveAll(q, "saveChunks", "upsert", "chunks")
          \/ Upsert(q)
        BY <2>2, <2>3 DEF RefreshStep, ReadParent, ReadRows, Assign, NothingToMerge, ListMerge, Collect,
                          Collected, ReadManifest, Compare, SetParent, store
    <2>5. q \in Workers
        BY <2>1, <2>4 DEF Replace, ReplaceIndex, SaveAll, Upsert, Goto, Procs
    <2>6. m \in {got[q][p].blocks, got[q][p].chunks}
        BY <2>1, <2>4 DEF Replace, ReplaceIndex, SaveAll, Upsert, MergedParts, Artifacts
    <2>7. Finished(p, m)
        BY <2>5, <2>6 DEF SoleInv, GotOK
    <2> QED
        BY <2>7 DEF Finished, NewestDone, NoneAfter, Begun, Runs
<1> QED
    BY <1>1, <1>2, <1>3, PTL DEF Spec, ExecutorMergesNewest
=============================================================================
