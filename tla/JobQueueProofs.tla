--------------------------- MODULE JobQueueProofs ---------------------------
(***************************************************************************)
(* Theorems about JobQueue for any number of workers, cancellers, jobs and *)
(* documents, and for every value of the limits: its invariants first, and *)
(* then that it implements LeasedJobs.                                     *)
(***************************************************************************)
EXTENDS JobQueue, FiniteSetTheorems, WellFoundedInduction, TLAPS

Assumptions == JobsAssumption /\ DocsAssumption /\ ModeAssumption /\ BoundsAssumption

\* A worker that is past claim_next_job, or about to claim in execute, works on
\* a job; so does a canceller that is about to write.
BusyWorkerHasJob ==
    \A w \in Workers : pc[w] \in Claimed \cup {"reclaim"} => job[w] \in Jobs
BusyCancellerHasJob ==
    \A c \in Cancellers : cpc[c] = "write" => cjob[c] \in Jobs

TypeInv == TypeOK /\ BusyWorkerHasJob /\ BusyCancellerHasJob

-----------------------------------------------------------------------------
(* Types of the store operations.                                          *)

RowType ==
    /\ state \in [Jobs -> States]
    /\ token \in [Jobs -> Nat]
    /\ attempts \in [Jobs -> Nat]
    /\ expired \in [Jobs -> BOOLEAN]
    /\ delayed \in [Jobs -> BOOLEAN]
    /\ dead \in [Jobs -> BOOLEAN]
    /\ cancelled \in [Jobs -> BOOLEAN]
    /\ released \in [Jobs -> Nat]

\* A failed attempt leaves a well-typed row.
LEMMA EndFailedAttemptType ==
    ASSUME RowType, NEW j \in Jobs, NEW n \in Nat, EndFailedAttempt(j, n)
    PROVE  RowType'
<1>1. CASE DeadLetter(j)
  BY <1>1 DEF RowType, DeadLetter, SetUnclaimed, States, Active
<1>2. CASE Retry(j)
  BY <1>2 DEF RowType, Retry, SetUnclaimed, States, Active
<1> QED
  BY <1>1, <1>2 DEF EndFailedAttempt

\* A claim leaves a well-typed row.
LEMMA ClaimRowType ==
    ASSUME RowType, NEW j \in Jobs, ClaimRow(j)
    PROVE  RowType'
BY DEF RowType, ClaimRow, FreshToken, States, Active

LocalType ==
    /\ job \in [Workers -> Jobs \cup {NoJob}]
    /\ tok \in [Workers -> Nat]
    /\ att \in [Workers -> Nat]
    /\ todo \in [Workers -> SUBSET (Jobs \X Nat)]
    /\ cand \in [Workers -> SUBSET Jobs]
    /\ held \in [Workers -> [blocks : Origins, chunks : Origins]]
    /\ staleWrites \in [Workers -> Nat]

\* Returning to the polling loop leaves well-typed locals.
LEMMA ForgetType ==
    ASSUME LocalType, NEW w \in Workers, Forget(w)
    PROVE  LocalType'
<1>1. NoOrigin \in Origins
  BY DEF Origins
<1>2. [blocks |-> NoOrigin, chunks |-> NoOrigin] \in [blocks : Origins, chunks : Origins]
  BY <1>1
<1> QED
  BY <1>2 DEF LocalType, Forget

ArtifactType ==
    /\ blocks \in [Docs -> Origins]
    /\ chunks \in [Docs -> Origins]
    /\ index \in [Docs -> Origins]
    /\ views \in [Docs -> Origins]

ControlType == pc \in [Workers -> Control] /\ BusyWorkerHasJob

CancellerType ==
    /\ cpc \in [Cancellers -> {"idle", "write", "over"}]
    /\ cjob \in [Cancellers -> Jobs \cup {NoJob}]
    /\ BusyCancellerHasJob

\* TypeInv is the conjunction of these parts.
LEMMA TypeInvParts ==
    TypeInv <=> /\ RowType /\ ArtifactType /\ LocalType
                /\ ControlType /\ CancellerType /\ crashes \in Nat
BY DEF TypeInv, TypeOK, RowType, ArtifactType, LocalType, ControlType, CancellerType

\* A step that leaves a part alone keeps its types.
LEMMA Frames ==
    ASSUME TypeInv
    PROVE  /\ UNCHANGED row => RowType'
           /\ UNCHANGED artifacts => ArtifactType'
           /\ UNCHANGED <<locals, staleWrites>> => LocalType'
           /\ UNCHANGED cancelVars => CancellerType'
           /\ UNCHANGED crashes => crashes' \in Nat
<1> USE TypeInvParts
<1>1. UNCHANGED row => RowType'
  BY DEF RowType, row
<1>2. UNCHANGED artifacts => ArtifactType'
  BY DEF ArtifactType, artifacts
<1>3. UNCHANGED <<locals, staleWrites>> => LocalType'
  BY DEF LocalType, locals
<1>4. UNCHANGED cancelVars => CancellerType'
  BY DEF CancellerType, cancelVars, BusyCancellerHasJob
<1> QED
  BY <1>1, <1>2, <1>3, <1>4

\* Where a statement of a worker leads keeps the control types, given the job.
LEMMA GotoType ==
    ASSUME TypeInv, NEW w \in Workers, NEW to \in Control, pc' = [pc EXCEPT ![w] = to],
           \A v \in Workers \ {w} : job'[v] = job[v],
           to \in Claimed \cup {"reclaim"} => job'[w] \in Jobs
    PROVE  ControlType'
BY TypeInvParts DEF ControlType, BusyWorkerHasJob

\* Every step of claim_next_job keeps the types.
LEMMA ClaimStepType ==
    ASSUME TypeInv, Assumptions, NEW w \in Workers, ClaimStep(w)
    PROVE  TypeInv'
<1>0. /\ RowType /\ ArtifactType /\ LocalType /\ ControlType /\ CancellerType
      /\ crashes \in Nat
  BY TypeInvParts
<1> SUFFICES /\ RowType' /\ ArtifactType' /\ LocalType'
             /\ ControlType' /\ CancellerType' /\ crashes' \in Nat
  BY DEF TypeInv, TypeOK, RowType, ArtifactType, LocalType, ControlType, CancellerType
<1>1. CASE Sweep(w)
  <2>1. RowType'
    BY <1>1, Frames DEF Sweep, row
  <2>2. ArtifactType' /\ CancellerType' /\ crashes' \in Nat
    BY <1>1, Frames DEF Sweep
  <2>3. LocalType'
    <3>1. {<<j, token[j]>> : j \in {i \in Jobs : state[i] \in Active /\ expired[i]}}
            \in SUBSET (Jobs \X Nat)
      BY <1>0 DEF RowType
    <3> QED
      BY <3>1, <1>0, <1>1 DEF Sweep, LocalType
  <2>4. ControlType'
    BY <1>1, <1>0 DEF Sweep, Goto, Control, Claimed, Working, ControlType, BusyWorkerHasJob, LocalType, Forget, locals
  <2> QED
    BY <2>1, <2>2, <2>3, <2>4
<1>2. CASE \E j \in Jobs, t \in 1..MaxClaims : Recover(w, j, t)
  <2>1. RowType'
    BY <1>2, <1>0, Frames, EndFailedAttemptType DEF Recover
  <2>2. ArtifactType' /\ CancellerType' /\ crashes' \in Nat
    BY <1>2, Frames DEF Recover
  <2>3. LocalType'
    BY <1>2, <1>0 DEF Recover, LocalType
  <2>4. ControlType'
    BY <1>2, <1>0 DEF Recover, Goto, Control, Claimed, Working, ControlType, BusyWorkerHasJob, LocalType, Forget, locals
  <2> QED
    BY <2>1, <2>2, <2>3, <2>4
<1>3. CASE RecoveryDone(w)
  <2>1. RowType'
    BY <1>3, Frames DEF RecoveryDone, row
  <2>2. ArtifactType' /\ CancellerType' /\ crashes' \in Nat
    BY <1>3, Frames DEF RecoveryDone
  <2>3. LocalType'
    BY <1>3, Frames DEF RecoveryDone, locals
  <2>4. ControlType'
    BY <1>3, <1>0 DEF RecoveryDone, Goto, Control, Claimed, Working, ControlType, BusyWorkerHasJob, LocalType, Forget, locals
  <2> QED
    BY <2>1, <2>2, <2>3, <2>4
<1>4. CASE ListPending(w)
  <2>1. RowType'
    BY <1>4, Frames DEF ListPending, row
  <2>2. ArtifactType' /\ CancellerType' /\ crashes' \in Nat
    BY <1>4, Frames DEF ListPending
  <2>3. LocalType'
    BY <1>4, <1>0 DEF ListPending, LocalType
  <2>4. ControlType'
    BY <1>4, <1>0 DEF ListPending, Goto, Control, Claimed, Working, ControlType, BusyWorkerHasJob, LocalType, Forget, locals
  <2> QED
    BY <2>1, <2>2, <2>3, <2>4
<1>5. CASE \E j \in Jobs : ClaimNext(w, j)
  <2>1. RowType'
    BY <1>5, <1>0, Frames, ClaimRowType DEF ClaimNext
  <2>2. ArtifactType' /\ CancellerType' /\ crashes' \in Nat
    BY <1>5, Frames DEF ClaimNext
  <2>3. LocalType'
    <3>1. PICK j \in Jobs : ClaimNext(w, j)
      BY <1>5
    <3>2. FreshToken(j) \in Nat
      BY <1>0 DEF FreshToken, RowType
    <3>3. CASE Claimable(j)
      BY <3>1, <3>2, <3>3, <1>0 DEF ClaimNext, LocalType
    <3>4. CASE ~Claimable(j)
      BY <3>1, <3>4, <1>0 DEF ClaimNext, LocalType
    <3> QED
      BY <3>3, <3>4
  <2>4. ControlType'
    BY <1>5, <1>0 DEF ClaimNext, Goto, Control, Claimed, Working, ControlType, BusyWorkerHasJob, LocalType, Forget, locals
  <2> QED
    BY <2>1, <2>2, <2>3, <2>4
<1>6. CASE NothingToClaim(w)
  <2>1. RowType'
    BY <1>6, Frames DEF NothingToClaim, row
  <2>2. ArtifactType' /\ CancellerType' /\ crashes' \in Nat
    BY <1>6, Frames DEF NothingToClaim
  <2>3. LocalType'
    BY <1>6, <1>0, ForgetType DEF NothingToClaim
  <2>4. ControlType'
    BY <1>6, <1>0 DEF NothingToClaim, Goto, Control, Claimed, Working, ControlType, BusyWorkerHasJob, LocalType, Forget, locals
  <2> QED
    BY <2>1, <2>2, <2>3, <2>4
<1>7. CASE CheckLimit(w)
  <2>1. RowType'
    BY <1>7, Frames DEF CheckLimit, row
  <2>2. ArtifactType' /\ CancellerType' /\ crashes' \in Nat
    BY <1>7, Frames DEF CheckLimit
  <2>3. LocalType'
    BY <1>7, Frames DEF CheckLimit, locals
  <2>4. ControlType'
    BY <1>7, <1>0 DEF CheckLimit, Goto, Control, Claimed, Working, ControlType, BusyWorkerHasJob, LocalType, Forget, locals
  <2> QED
    BY <2>1, <2>2, <2>3, <2>4
<1>8. CASE Release(w)
  <2>0. pc[w] = "release" /\ job[w] \in Jobs
    BY <1>8, <1>0 DEF Release, ControlType, BusyWorkerHasJob, Claimed
  <2>1. CASE token[job[w]] = tok[w]
    <3>0. /\ SetUnclaimed(job[w], "pending", FALSE)
          /\ released' = [released EXCEPT ![job[w]] = @ + 1]
          /\ UNCHANGED dead
          /\ job' = [job EXCEPT ![w] = NoJob]
          /\ tok' = [tok EXCEPT ![w] = 0]
          /\ UNCHANGED <<att, todo, cand, held, staleWrites>>
      BY <2>1, <1>8 DEF Release
    <3>1. RowType'
      BY <2>0, <3>0, <1>0 DEF SetUnclaimed, RowType, States
    <3>2. LocalType'
      BY <3>0, <1>0 DEF LocalType
    <3>3. ControlType'
      BY <2>1, <1>0, <1>8 DEF Release, Goto, Control, Claimed, Working, ControlType, BusyWorkerHasJob, LocalType
    <3> QED
      BY <3>1, <3>2, <3>3, <1>8, Frames DEF Release
  <2>2. CASE token[job[w]] # tok[w]
    <3>1. RowType'
      BY <2>2, <1>8, Frames DEF Release
    <3>2. LocalType'
      BY <2>2, <1>0, <1>8, ForgetType DEF Release
    <3>3. ControlType'
      <4>1. /\ pc' = [pc EXCEPT ![w] = "down"]
            /\ job' = [job EXCEPT ![w] = NoJob]
        BY <2>2, <1>8 DEF Release, Goto, Forget
      <4> QED
        BY <4>1, <1>0 DEF Control, Claimed, Working, ControlType, BusyWorkerHasJob, LocalType
    <3> QED
      BY <3>1, <3>2, <3>3, <1>8, Frames DEF Release
  <2> QED
    BY <2>1, <2>2
<1> QED
  BY <1>1, <1>2, <1>3, <1>4, <1>5, <1>6, <1>7, <1>8 DEF ClaimStep

\* Every step of execute keeps the types.
LEMMA ExecuteStepType ==
    ASSUME TypeInv, Assumptions, NEW w \in Workers, ExecuteStep(w)
    PROVE  TypeInv'
<1>0. /\ RowType /\ ArtifactType /\ LocalType /\ ControlType /\ CancellerType
      /\ crashes \in Nat
  BY TypeInvParts
<1> SUFFICES /\ RowType' /\ ArtifactType' /\ LocalType'
             /\ ControlType' /\ CancellerType' /\ crashes' \in Nat
  BY DEF TypeInv, TypeOK, RowType, ArtifactType, LocalType, ControlType, CancellerType
<1>1. CASE Refuse(w)
  <2>1. RowType'
    BY <1>1, Frames DEF Refuse, row
  <2>2. ArtifactType' /\ CancellerType' /\ crashes' \in Nat
    BY <1>1, Frames DEF Refuse
  <2>3. LocalType'
    BY <1>1, <1>0, ForgetType DEF Refuse
  <2>4. ControlType'
    BY <1>1, <1>0 DEF Refuse, Goto, Control, Claimed, Working, ControlType, BusyWorkerHasJob, LocalType, Forget, locals
  <2> QED
    BY <2>1, <2>2, <2>3, <2>4
<1>2. CASE Start(w)
  <2>0. pc[w] = "start" /\ job[w] \in Jobs
    BY <1>2, <1>0 DEF Start, Goto, ControlType, BusyWorkerHasJob, Claimed, Working
  <2>1. RowType'
    BY <1>2, Frames DEF Start, row
  <2>2. ArtifactType' /\ CancellerType' /\ crashes' \in Nat
    BY <1>2, Frames DEF Start
  <2>3. LocalType'
    BY <2>0, <1>2, <1>0 DEF Start, RowType, LocalType
  <2>4. ControlType'
    BY <2>0, <1>2, <1>0 DEF Start, Goto, Control, Claimed, Working, ControlType, BusyWorkerHasJob
  <2> QED
    BY <2>1, <2>2, <2>3, <2>4
<1>3. CASE Reclaim(w)
  <2>0. pc[w] = "reclaim" /\ job[w] \in Jobs
    BY <1>3, <1>0 DEF Reclaim, Goto, ControlType, BusyWorkerHasJob, Claimed, Working
  <2>1. RowType'
    BY <2>0, <1>3, <1>0, ClaimRowType DEF Reclaim
  <2>2. ArtifactType' /\ CancellerType' /\ crashes' \in Nat
    BY <1>3, Frames DEF Reclaim
  <2>3. LocalType'
    BY <2>0, <1>3, <1>0 DEF Reclaim, FreshToken, RowType, LocalType
  <2>4. ControlType'
    BY <1>3, <1>0 DEF Reclaim, Goto, Control, Claimed, Working, ControlType, BusyWorkerHasJob, LocalType, Forget, locals
  <2> QED
    BY <2>1, <2>2, <2>3, <2>4
<1>4. CASE ReclaimRefused(w)
  <2>1. RowType'
    BY <1>4, Frames DEF ReclaimRefused, row
  <2>2. ArtifactType' /\ CancellerType' /\ crashes' \in Nat
    BY <1>4, Frames DEF ReclaimRefused
  <2>3. LocalType'
    BY <1>4, <1>0, ForgetType DEF ReclaimRefused
  <2>4. ControlType'
    BY <1>4, <1>0 DEF ReclaimRefused, Goto, Control, Claimed, Working, ControlType, BusyWorkerHasJob, LocalType, Forget, locals
  <2> QED
    BY <2>1, <2>2, <2>3, <2>4
<1>5. CASE Parse(w)
  <2>0. pc[w] = "parse" /\ job[w] \in Jobs
    BY <1>5, <1>0 DEF Parse, Goto, ControlType, BusyWorkerHasJob, Claimed, Working
  <2>00. /\ DocOf[job[w]] \in Docs
         /\ held[w] \in [blocks : Origins, chunks : Origins]
         /\ <<job[w], att[w]>> \in Origins
    BY <2>0, <1>0, Assumptions DEF DocsAssumption, Assumptions, LocalType, Origins
  <2>01. PICK o \in Origins : held' = [held EXCEPT ![w].blocks = o]
    BY <2>0, <2>00, <1>5, <1>0 DEF Parse, ArtifactType
  <2>1. RowType'
    BY <1>5, Frames DEF Parse, row
  <2>2. ArtifactType' /\ CancellerType' /\ crashes' \in Nat
    BY <1>5, Frames DEF Parse
  <2>3. LocalType'
    BY <2>01, <2>00, <1>5, <1>0 DEF Parse, LocalType
  <2>4. ControlType'
    BY <1>5, <1>0 DEF Parse, Goto, Control, Claimed, Working, ControlType, BusyWorkerHasJob, LocalType, Forget, locals
  <2> QED
    BY <2>1, <2>2, <2>3, <2>4
<1>6. CASE EnsureActiveClaim(w, "checkBlocks", "saveBlocks")
  <2>1. RowType'
    BY <1>6, Frames DEF EnsureActiveClaim, row
  <2>2. ArtifactType' /\ CancellerType' /\ crashes' \in Nat
    BY <1>6, Frames DEF EnsureActiveClaim
  <2>3. LocalType'
    BY <1>6, Frames DEF EnsureActiveClaim, locals
  <2>4. ControlType'
    BY <1>6, <1>0 DEF EnsureActiveClaim, Goto, Control, Claimed, Working, ControlType, BusyWorkerHasJob, LocalType, Forget, locals
  <2> QED
    BY <2>1, <2>2, <2>3, <2>4
<1>7. CASE EnsureActiveClaim(w, "checkChunks", "saveChunks")
  <2>1. RowType'
    BY <1>7, Frames DEF EnsureActiveClaim, row
  <2>2. ArtifactType' /\ CancellerType' /\ crashes' \in Nat
    BY <1>7, Frames DEF EnsureActiveClaim
  <2>3. LocalType'
    BY <1>7, Frames DEF EnsureActiveClaim, locals
  <2>4. ControlType'
    BY <1>7, <1>0 DEF EnsureActiveClaim, Goto, Control, Claimed, Working, ControlType, BusyWorkerHasJob, LocalType, Forget, locals
  <2> QED
    BY <2>1, <2>2, <2>3, <2>4
<1>8. CASE EnsureActiveClaim(w, "checkIndex", "upsert")
  <2>1. RowType'
    BY <1>8, Frames DEF EnsureActiveClaim, row
  <2>2. ArtifactType' /\ CancellerType' /\ crashes' \in Nat
    BY <1>8, Frames DEF EnsureActiveClaim
  <2>3. LocalType'
    BY <1>8, Frames DEF EnsureActiveClaim, locals
  <2>4. ControlType'
    BY <1>8, <1>0 DEF EnsureActiveClaim, Goto, Control, Claimed, Working, ControlType, BusyWorkerHasJob, LocalType, Forget, locals
  <2> QED
    BY <2>1, <2>2, <2>3, <2>4
<1>9. CASE SaveBlocks(w)
  <2>0. pc[w] = "saveBlocks" /\ job[w] \in Jobs
    BY <1>9, <1>0 DEF SaveBlocks, Goto, ControlType, BusyWorkerHasJob, Claimed, Working
  <2>00. /\ DocOf[job[w]] \in Docs
         /\ held[w] \in [blocks : Origins, chunks : Origins]
         /\ <<job[w], att[w]>> \in Origins
    BY <2>0, <1>0, Assumptions DEF DocsAssumption, Assumptions, LocalType, Origins
  <2>01. held[w].blocks \in Origins /\ staleWrites'[w] \in Nat
    BY <2>00, <1>9, <1>0 DEF SaveBlocks, CountStale, LocalType
  <2>1. RowType'
    BY <1>9, Frames DEF SaveBlocks, row
  <2>2. ArtifactType' /\ CancellerType' /\ crashes' \in Nat
    BY <2>00, <2>01, <1>9, <1>0, Frames DEF SaveBlocks, ArtifactType
  <2>3. LocalType'
    BY <1>9, <1>0 DEF SaveBlocks, CountStale, locals, LocalType
  <2>4. ControlType'
    BY <1>9, <1>0 DEF SaveBlocks, Goto, Control, Claimed, Working, ControlType, BusyWorkerHasJob, LocalType, Forget, locals
  <2> QED
    BY <2>1, <2>2, <2>3, <2>4
<1>10. CASE SaveChunks(w)
  <2>0. pc[w] = "saveChunks" /\ job[w] \in Jobs
    BY <1>10, <1>0 DEF SaveChunks, Goto, ControlType, BusyWorkerHasJob, Claimed, Working
  <2>00. /\ DocOf[job[w]] \in Docs
         /\ held[w] \in [blocks : Origins, chunks : Origins]
         /\ <<job[w], att[w]>> \in Origins
    BY <2>0, <1>0, Assumptions DEF DocsAssumption, Assumptions, LocalType, Origins
  <2>01. held[w].chunks \in Origins /\ staleWrites'[w] \in Nat
    BY <2>00, <1>10, <1>0 DEF SaveChunks, CountStale, LocalType
  <2>1. RowType'
    BY <1>10, Frames DEF SaveChunks, row
  <2>2. ArtifactType' /\ CancellerType' /\ crashes' \in Nat
    BY <2>00, <2>01, <1>10, <1>0, Frames DEF SaveChunks, ArtifactType
  <2>3. LocalType'
    BY <1>10, <1>0 DEF SaveChunks, CountStale, locals, LocalType
  <2>4. ControlType'
    BY <1>10, <1>0 DEF SaveChunks, Goto, Control, Claimed, Working, ControlType, BusyWorkerHasJob, LocalType, Forget, locals
  <2> QED
    BY <2>1, <2>2, <2>3, <2>4
<1>11. CASE Upsert(w)
  <2>0. pc[w] = "upsert" /\ job[w] \in Jobs
    BY <1>11, <1>0 DEF Upsert, Goto, ControlType, BusyWorkerHasJob, Claimed, Working
  <2>00. /\ DocOf[job[w]] \in Docs
         /\ held[w] \in [blocks : Origins, chunks : Origins]
         /\ <<job[w], att[w]>> \in Origins
    BY <2>0, <1>0, Assumptions DEF DocsAssumption, Assumptions, LocalType, Origins
  <2>01. held[w].chunks \in Origins /\ staleWrites'[w] \in Nat
    BY <2>00, <1>11, <1>0 DEF Upsert, CountStale, LocalType
  <2>1. RowType'
    BY <1>11, Frames DEF Upsert, row
  <2>2. ArtifactType' /\ CancellerType' /\ crashes' \in Nat
    BY <2>00, <2>01, <1>11, <1>0, Frames DEF Upsert, ArtifactType
  <2>3. LocalType'
    BY <1>11, <1>0 DEF Upsert, CountStale, locals, LocalType
  <2>4. ControlType'
    BY <1>11, <1>0 DEF Upsert, Goto, Control, Claimed, Working, ControlType, BusyWorkerHasJob, LocalType, Forget, locals
  <2> QED
    BY <2>1, <2>2, <2>3, <2>4
<1>12. CASE Advance(w, "toStructuring", "structuring", "chunk")
  <2>0. pc[w] = "toStructuring" /\ job[w] \in Jobs
    BY <1>12, <1>0 DEF Advance, Goto, ControlType, BusyWorkerHasJob, Claimed, Working
  <2>1. RowType'
    BY <2>0, <1>12, <1>0 DEF Advance, RowType, States, Active
  <2>2. ArtifactType' /\ CancellerType' /\ crashes' \in Nat
    BY <1>12, Frames DEF Advance
  <2>3. LocalType'
    BY <1>12, Frames DEF Advance, locals
  <2>4. ControlType'
    BY <1>12, <1>0 DEF Advance, Goto, Control, Claimed, Working, ControlType, BusyWorkerHasJob, LocalType, Forget, locals
  <2> QED
    BY <2>1, <2>2, <2>3, <2>4
<1>13. CASE Advance(w, "toEmbedding", "embedding", "checkChunks")
  <2>0. pc[w] = "toEmbedding" /\ job[w] \in Jobs
    BY <1>13, <1>0 DEF Advance, Goto, ControlType, BusyWorkerHasJob, Claimed, Working
  <2>1. RowType'
    BY <2>0, <1>13, <1>0 DEF Advance, RowType, States, Active
  <2>2. ArtifactType' /\ CancellerType' /\ crashes' \in Nat
    BY <1>13, Frames DEF Advance
  <2>3. LocalType'
    BY <1>13, Frames DEF Advance, locals
  <2>4. ControlType'
    BY <1>13, <1>0 DEF Advance, Goto, Control, Claimed, Working, ControlType, BusyWorkerHasJob, LocalType, Forget, locals
  <2> QED
    BY <2>1, <2>2, <2>3, <2>4
<1>14. CASE Chunk(w)
  <2>0. pc[w] = "chunk" /\ job[w] \in Jobs
    BY <1>14, <1>0 DEF Chunk, Goto, ControlType, BusyWorkerHasJob, Claimed, Working
  <2>00. /\ DocOf[job[w]] \in Docs
         /\ held[w] \in [blocks : Origins, chunks : Origins]
         /\ <<job[w], att[w]>> \in Origins
    BY <2>0, <1>0, Assumptions DEF DocsAssumption, Assumptions, LocalType, Origins
  <2>01. PICK o \in Origins : held' = [held EXCEPT ![w].chunks = o]
    BY <2>0, <2>00, <1>14, <1>0 DEF Chunk, ArtifactType
  <2>1. RowType'
    BY <1>14, Frames DEF Chunk, row
  <2>2. ArtifactType' /\ CancellerType' /\ crashes' \in Nat
    BY <1>14, Frames DEF Chunk
  <2>3. LocalType'
    BY <2>01, <2>00, <1>14, <1>0 DEF Chunk, LocalType
  <2>4. ControlType'
    BY <1>14, <1>0 DEF Chunk, Goto, Control, Claimed, Working, ControlType, BusyWorkerHasJob, LocalType, Forget, locals
  <2> QED
    BY <2>1, <2>2, <2>3, <2>4
<1>15. CASE Finish(w)
  <2>0. pc[w] = "finish" /\ job[w] \in Jobs
    BY <1>15, <1>0 DEF Finish, Goto, ControlType, BusyWorkerHasJob, Claimed, Working
  <2>1. RowType'
    BY <2>0, <1>15, <1>0 DEF Finish, SetUnclaimed, RowType, States
  <2>2. ArtifactType' /\ CancellerType' /\ crashes' \in Nat
    BY <1>15, Frames DEF Finish
  <2>3. LocalType'
    BY <1>15, Frames DEF Finish, locals
  <2>4. ControlType'
    BY <1>15, <1>0 DEF Finish, Goto, Control, Claimed, Working, ControlType, BusyWorkerHasJob, LocalType, Forget, locals
  <2> QED
    BY <2>1, <2>2, <2>3, <2>4
<1>16. CASE SaveViews(w)
  <2>0. pc[w] = "saveViews" /\ job[w] \in Jobs
    BY <1>16, <1>0 DEF SaveViews, Goto, ControlType, BusyWorkerHasJob, Claimed, Working
  <2>00. /\ DocOf[job[w]] \in Docs
         /\ held[w] \in [blocks : Origins, chunks : Origins]
         /\ <<job[w], att[w]>> \in Origins
    BY <2>0, <1>0, Assumptions DEF DocsAssumption, Assumptions, LocalType, Origins
  <2>01. held[w].blocks \in Origins
    BY <2>00
  <2>1. RowType'
    BY <1>16, Frames DEF SaveViews, row
  <2>2. ArtifactType' /\ CancellerType' /\ crashes' \in Nat
    BY <2>00, <2>01, <1>16, <1>0, Frames DEF SaveViews, ArtifactType
  <2>3. LocalType'
    BY <1>16, <1>0, ForgetType DEF SaveViews
  <2>4. ControlType'
    BY <1>16, <1>0 DEF SaveViews, Goto, Control, Claimed, Working, ControlType, BusyWorkerHasJob, LocalType, Forget, locals
  <2> QED
    BY <2>1, <2>2, <2>3, <2>4
<1>17. CASE StaleClaim(w)
  <2>1. RowType'
    BY <1>17, Frames DEF StaleClaim, row
  <2>2. ArtifactType' /\ CancellerType' /\ crashes' \in Nat
    BY <1>17, Frames DEF StaleClaim
  <2>3. LocalType'
    BY <1>17, <1>0, ForgetType DEF StaleClaim
  <2>4. ControlType'
    BY <1>17, <1>0 DEF StaleClaim, Goto, Control, Claimed, Working, ControlType, BusyWorkerHasJob, LocalType, Forget, locals
  <2> QED
    BY <2>1, <2>2, <2>3, <2>4
<1>18. CASE ExecuteRaises(w)
  <2>0. pc[w] \in Working /\ job[w] \in Jobs /\ att[w] \in Nat
    BY <1>18, <1>0 DEF ExecuteRaises, ControlType, LocalType, BusyWorkerHasJob, Claimed
  <2>1. RowType'
    BY <2>0, <1>18, <1>0, Frames, EndFailedAttemptType DEF ExecuteRaises
  <2>2. ArtifactType' /\ CancellerType' /\ crashes' \in Nat
    BY <1>18, Frames DEF ExecuteRaises
  <2>3. LocalType'
    BY <1>18, <1>0, ForgetType DEF ExecuteRaises
  <2>4. ControlType'
    BY <1>18, <1>0 DEF ExecuteRaises, Goto, Control, Claimed, Working, ControlType, BusyWorkerHasJob, LocalType, Forget, locals
  <2> QED
    BY <2>1, <2>2, <2>3, <2>4
<1> QED
  BY <1>1, <1>2, <1>3, <1>4, <1>5, <1>6, <1>7, <1>8, <1>9, <1>10, <1>11, <1>12, <1>13, <1>14, <1>15, <1>16, <1>17, <1>18 DEF ExecuteStep

\* The other steps keep the types.
LEMMA RowStepType ==
    ASSUME TypeInv, NEW j \in Jobs, Submit(j) \/ LeaseRunsOut(j) \/ DelayRunsOut(j)
    PROVE  TypeInv'
<1>0. /\ RowType /\ ArtifactType /\ LocalType /\ ControlType /\ CancellerType
      /\ crashes \in Nat
  BY TypeInvParts
<1> SUFFICES /\ RowType' /\ ArtifactType' /\ LocalType'
             /\ ControlType' /\ CancellerType' /\ crashes' \in Nat
  BY DEF TypeInv, TypeOK, RowType, ArtifactType, LocalType, ControlType, CancellerType
<1>1. RowType'
  BY <1>0 DEF Submit, LeaseRunsOut, DelayRunsOut, RowType, States
<1>2. ArtifactType' /\ LocalType' /\ CancellerType' /\ crashes' \in Nat
  BY Frames DEF Submit, LeaseRunsOut, DelayRunsOut
<1>3. ControlType'
  BY <1>0 DEF Submit, LeaseRunsOut, DelayRunsOut, ControlType, BusyWorkerHasJob, locals
<1> QED
  BY <1>1, <1>2, <1>3

\* Crash and restart keep the types.
LEMMA ProcessStepType ==
    ASSUME TypeInv, NEW w \in Workers, Crash(w) \/ Restart(w)
    PROVE  TypeInv'
<1>0. /\ RowType /\ ArtifactType /\ LocalType /\ ControlType /\ CancellerType
      /\ crashes \in Nat
  BY TypeInvParts
<1> SUFFICES /\ RowType' /\ ArtifactType' /\ LocalType'
             /\ ControlType' /\ CancellerType' /\ crashes' \in Nat
  BY DEF TypeInv, TypeOK, RowType, ArtifactType, LocalType, ControlType, CancellerType
<1>1. CASE Crash(w)
  <2>1. RowType' /\ ArtifactType' /\ CancellerType'
    BY <1>1, Frames DEF Crash
  <2>2. LocalType' /\ crashes' \in Nat
    BY <1>0, <1>1, ForgetType DEF Crash
  <2>3. ControlType'
    BY <1>0, <1>1 DEF Crash, Control, Claimed, Working, ControlType, BusyWorkerHasJob, LocalType, Forget
  <2> QED
    BY <2>1, <2>2, <2>3
<1>2. CASE Restart(w)
  <2>1. RowType' /\ ArtifactType' /\ LocalType' /\ CancellerType' /\ crashes' \in Nat
    BY <1>2, Frames DEF Restart
  <2>2. ControlType'
    BY <1>0, <1>2 DEF Restart, Goto, Control, Claimed, Working, ControlType, BusyWorkerHasJob, locals
  <2> QED
    BY <2>1, <2>2
<1> QED
  BY <1>1, <1>2

\* The two statements of cancel_job keep the types.
LEMMA CancelStepType ==
    ASSUME TypeInv, NEW c \in Cancellers,
           CancelWrite(c) \/ \E j \in Jobs : CancelRead(c, j)
    PROVE  TypeInv'
<1>0. /\ RowType /\ ArtifactType /\ LocalType /\ ControlType /\ CancellerType
      /\ crashes \in Nat
  BY TypeInvParts
<1> SUFFICES /\ RowType' /\ ArtifactType' /\ LocalType'
             /\ ControlType' /\ CancellerType' /\ crashes' \in Nat
  BY DEF TypeInv, TypeOK, RowType, ArtifactType, LocalType, ControlType, CancellerType
<1>1. CASE CancelWrite(c)
  <2>1. ArtifactType' /\ LocalType' /\ crashes' \in Nat
    BY <1>1, Frames DEF CancelWrite
  <2>2. RowType'
    BY <1>0, <1>1 DEF CancelWrite, RowType, States
  <2>3. ControlType'
    BY <1>0, <1>1 DEF CancelWrite, ControlType, BusyWorkerHasJob, locals
  <2>4. CancellerType'
    BY <1>0, <1>1 DEF CancelWrite, CancellerType, BusyCancellerHasJob
  <2> QED
    BY <2>1, <2>2, <2>3, <2>4
<1>2. CASE \E j \in Jobs : CancelRead(c, j)
  <2>1. RowType' /\ ArtifactType' /\ LocalType' /\ crashes' \in Nat
    BY <1>2, Frames DEF CancelRead
  <2>2. ControlType'
    BY <1>0, <1>2 DEF CancelRead, ControlType, BusyWorkerHasJob, locals
  <2>3. CancellerType'
    BY <1>0, <1>2 DEF CancelRead, CancellerType, BusyCancellerHasJob
  <2> QED
    BY <2>1, <2>2, <2>3
<1> QED
  BY <1>1, <1>2

\* The inductive type invariant.
LEMMA TypeInvariant == Spec => []TypeInv
<1> USE JobsAssumption, DocsAssumption, ModeAssumption, BoundsAssumption
<1>1. Init => TypeInv
  BY DEF Init, TypeInv, TypeOK, BusyWorkerHasJob, BusyCancellerHasJob, States, Active,
         Control, Claimed, Working, Origins
<1>2. TypeInv /\ [Next]_vars => TypeInv'
  <2> SUFFICES ASSUME TypeInv, [Next]_vars PROVE TypeInv'
    OBVIOUS
  <2>1. CASE \E j \in Jobs : Submit(j) \/ LeaseRunsOut(j) \/ DelayRunsOut(j)
    BY <2>1, RowStepType
  <2>2. CASE \E w \in Workers : ClaimStep(w)
    BY <2>2, ClaimStepType DEF Assumptions
  <2>3. CASE \E w \in Workers : ExecuteStep(w)
    BY <2>3, ExecuteStepType DEF Assumptions
  <2>4. CASE \E w \in Workers : Crash(w) \/ Restart(w)
    BY <2>4, ProcessStepType
  <2>5. CASE \E c \in Cancellers : CancelWrite(c) \/ \E j \in Jobs : CancelRead(c, j)
    BY <2>5, CancelStepType
  <2>6. CASE UNCHANGED vars
    BY <2>6 DEF vars, row, artifacts, locals, cancelVars, TypeInv, TypeOK,
                BusyWorkerHasJob, BusyCancellerHasJob
  <2> QED
    BY <2>1, <2>2, <2>3, <2>4, <2>5, <2>6 DEF Next, TimeStep, WorkerStep
<1> QED
  BY <1>1, <1>2, PTL DEF Spec

\* Type correctness: the rows, the artifacts and the locals of every process
\* keep their types.
THEOREM TypeCorrect == Spec => []TypeOK
<1>1. TypeInv => TypeOK
  BY DEF TypeInv
<1> QED
  BY <1>1, TypeInvariant, PTL

-----------------------------------------------------------------------------
(* Claims.  A claim raises attempt_count, so its token is larger than every *)
(* token a worker remembers for the job: the number of the attempt orders   *)
(* the claims, and only the last one can be in the row.                     *)

RowInv ==
    \A j \in Jobs :
        /\ token[j] # 0 <=> state[j] \in Active
        /\ token[j] # 0 => token[j] = attempts[j]
        /\ attempts[j] <= MaxAttempts + released[j]
        /\ state[j] \in {"absent", "pending"} => attempts[j] < MaxAttempts + released[j]

WorkerInv ==
    \A w \in Workers :
        /\ tok[w] # 0 => job[w] \in Jobs /\ tok[w] <= attempts[job[w]]
        /\ pc[w] \in Claimed \cup {"reclaim"} => tok[w] # 0
        /\ pc[w] \in Working => tok[w] <= att[w] /\ att[w] <= attempts[job[w]]

\* Two workers never remember the same claim.
OneHolder ==
    \A v, w \in Workers :
        tok[v] # 0 /\ tok[v] = tok[w] /\ job[v] = job[w] => v = w

ClaimInv == RowInv /\ WorkerInv /\ OneHolder

\* The end of a failed attempt, by whoever holds the token of the row.
LEMMA EndFailedAttemptRow ==
    ASSUME RowType, RowInv, BoundsAssumption, NEW j \in Jobs, token[j] # 0,
           EndFailedAttempt(j, attempts[j])
    PROVE  RowInv' /\ attempts' = attempts
<1>1. CASE DeadLetter(j)
  BY <1>1 DEF DeadLetter, SetUnclaimed, RowType, RowInv, Active
<1>2. CASE Retry(j) /\ attempts[j] < MaxAttempts
  <2>1. attempts[j] < MaxAttempts + released[j]
    BY <1>2 DEF RowType, BoundsAssumption
  <2> QED
    BY <1>2, <2>1 DEF Retry, SetUnclaimed, RowType, RowInv, Active
<1> QED
  BY <1>1, <1>2 DEF EndFailedAttempt, RowType, BoundsAssumption

\* A claim of a pending job.
LEMMA ClaimRowRow ==
    ASSUME RowType, RowInv, BoundsAssumption, NEW j \in Jobs, Claimable(j), ClaimRow(j)
    PROVE  RowInv' /\ attempts' = [attempts EXCEPT ![j] = @ + 1]
<1>1. attempts[j] < MaxAttempts + released[j]
  BY DEF Claimable, RowInv
<1>2. attempts[j] \in Nat /\ attempts[j] + 1 # 0 /\ attempts[j] + 1 <= MaxAttempts + released[j]
  BY <1>1 DEF RowType, BoundsAssumption
<1>3. \A i \in Jobs \ {j} : /\ state'[i] = state[i] /\ token'[i] = token[i]
                             /\ attempts'[i] = attempts[i] /\ released'[i] = released[i]
  BY DEF ClaimRow, RowType
<1>4. /\ state'[j] = "parsing" /\ token'[j] = attempts[j] + 1
      /\ attempts'[j] = attempts[j] + 1 /\ released'[j] = released[j]
  BY DEF ClaimRow, FreshToken, RowType
<1> QED
  BY <1>2, <1>3, <1>4 DEF RowInv, ClaimRow, Active

\* A worker that returns to the polling loop, or whose process ends.
LEMMA ForgetClaim ==
    ASSUME TypeInv, WorkerInv, OneHolder, NEW w \in Workers, Forget(w),
           NEW to \in Control \ (Claimed \cup {"reclaim"}), pc' = [pc EXCEPT ![w] = to],
           UNCHANGED attempts
    PROVE  WorkerInv' /\ OneHolder'
<1>1. WorkerInv'
  BY DEF WorkerInv, Forget, TypeInv, TypeOK, Working, Claimed
<1>2. OneHolder'
  BY DEF OneHolder, Forget, TypeInv, TypeOK
<1> QED
  BY <1>1, <1>2

\* A worker that goes from one statement to another with the claim it has.
LEMMA KeepClaim ==
    ASSUME TypeInv, WorkerInv, OneHolder, NEW w \in Workers, NEW to \in Control,
           pc' = [pc EXCEPT ![w] = to],
           to \in Claimed \cup {"reclaim"} => pc[w] \in Claimed,
           to \in Working => pc[w] \in Working,
           UNCHANGED <<attempts, job, tok, att>>
    PROVE  WorkerInv' /\ OneHolder'
<1>1. WorkerInv'
  BY DEF WorkerInv, TypeInv, TypeOK, Claimed
<1>2. OneHolder'
  BY DEF OneHolder
<1> QED
  BY <1>1, <1>2

\* A worker that is given a new claim: no other worker remembers its token.
LEMMA NewClaim ==
    ASSUME TypeInv, WorkerInv, OneHolder, NEW w \in Workers, NEW j \in Jobs,
           attempts' = [attempts EXCEPT ![j] = @ + 1],
           job'[w] = j, tok'[w] = attempts[j] + 1,
           \A v \in Workers \ {w} : job'[v] = job[v] /\ tok'[v] = tok[v] /\ att'[v] = att[v]
                                      /\ pc'[v] = pc[v],
           pc'[w] \in Working => att'[w] = attempts[j] + 1
    PROVE  WorkerInv' /\ OneHolder'
<1>1. attempts[j] \in Nat /\ attempts'[j] = attempts[j] + 1
      /\ \A i \in Jobs \ {j} : attempts'[i] = attempts[i]
  BY DEF TypeInv, TypeOK
<1>2. \A v \in Workers \ {w} : tok[v] # 0 /\ job[v] = j => tok[v] # attempts[j] + 1
  BY <1>1 DEF WorkerInv, TypeInv, TypeOK
<1>3. OneHolder'
  BY <1>2 DEF OneHolder
<1>4. \A v \in Workers : tok[v] \in Nat /\ att[v] \in Nat
                         /\ (job[v] \in Jobs => attempts[job[v]] \in Nat
                                               /\ attempts[job[v]] <= attempts'[job[v]])
  BY <1>1 DEF TypeInv, TypeOK
<1>5. ASSUME NEW v \in Workers \ {w}
      PROVE  /\ tok'[v] # 0 => job'[v] \in Jobs /\ tok'[v] <= attempts'[job'[v]]
             /\ pc'[v] \in Claimed \cup {"reclaim"} => tok'[v] # 0
             /\ pc'[v] \in Working => tok'[v] <= att'[v] /\ att'[v] <= attempts'[job'[v]]
  <2>1. pc[v] \in Working => job[v] \in Jobs
    BY DEF TypeInv, BusyWorkerHasJob, Claimed
  <2> QED
    BY <1>4, <2>1 DEF WorkerInv
<1>6. /\ tok'[w] # 0 /\ job'[w] \in Jobs /\ tok'[w] <= attempts'[job'[w]]
      /\ pc'[w] \in Working => tok'[w] <= att'[w] /\ att'[w] <= attempts'[job'[w]]
  BY <1>1
<1>7. WorkerInv'
  BY <1>5, <1>6 DEF WorkerInv
<1> QED
  BY <1>3, <1>7

\* The row of no job changes.
LEMMA SameRow == ASSUME RowInv, UNCHANGED row PROVE RowInv' /\ UNCHANGED attempts
BY DEF RowInv, row

\* Every step of claim_next_job keeps the invariant about claims.
LEMMA ClaimStepClaims ==
    ASSUME TypeInv, ClaimInv, Assumptions, NEW w \in Workers, ClaimStep(w)
    PROVE  ClaimInv'
<1>0. /\ RowType /\ RowInv /\ WorkerInv /\ OneHolder /\ BoundsAssumption
      /\ pc[w] \in Control /\ job[w] \in Jobs \cup {NoJob}
      /\ pc \in [Workers -> Control] /\ job \in [Workers -> Jobs \cup {NoJob}]
      /\ tok \in [Workers -> Nat] /\ att \in [Workers -> Nat]
  BY TypeInvParts DEF ClaimInv, Assumptions, ControlType, LocalType
<1> SUFFICES RowInv' /\ WorkerInv' /\ OneHolder'
  BY DEF ClaimInv
<1>1. CASE Sweep(w) \/ RecoveryDone(w) \/ ListPending(w) \/ CheckLimit(w)
  <2>1. RowInv' /\ UNCHANGED attempts
    BY <1>0, <1>1, SameRow DEF Sweep, RecoveryDone, ListPending, CheckLimit
  <2>2. PICK to \in Control : /\ pc' = [pc EXCEPT ![w] = to]
                              /\ to \in Claimed => pc[w] \in Claimed
                              /\ to \notin Working \cup {"reclaim"}
    BY <1>1 DEF Sweep, RecoveryDone, ListPending, CheckLimit, Goto, Control, Claimed, Working
  <2>3. UNCHANGED <<job, tok, att>>
    BY <1>1 DEF Sweep, RecoveryDone, ListPending, CheckLimit, locals
  <2> QED
    BY <1>0, <2>1, <2>2, <2>3, KeepClaim
<1>2. CASE \E j \in Jobs, t \in 1..MaxClaims : Recover(w, j, t)
  <2>0. PICK j \in Jobs, t \in 1..MaxClaims : Recover(w, j, t)
    BY <1>2
  <2>1. CASE token[j] = t
    <3>1. token[j] # 0 /\ EndFailedAttempt(j, attempts[j])
      BY <1>0, <2>0, <2>1 DEF Recover, RowInv, BoundsAssumption
    <3>2. RowInv' /\ attempts' = attempts
      BY <1>0, <3>1, EndFailedAttemptRow
    <3>3. UNCHANGED <<pc, job, tok, att>>
      BY <2>0, <2>1 DEF Recover
    <3> QED
      BY <1>0, <3>2, <3>3 DEF WorkerInv, OneHolder
  <2>2. CASE token[j] # t
    <3>1. RowInv' /\ UNCHANGED attempts
      BY <1>0, <2>0, <2>2, SameRow DEF Recover
    <3>2. pc' = [pc EXCEPT ![w] = "down"] /\ UNCHANGED <<job, tok, att>>
      BY <2>0, <2>2 DEF Recover
    <3> QED
      BY <1>0, <3>1, <3>2, KeepClaim DEF Control, Claimed, Working
  <2> QED
    BY <2>1, <2>2
<1>3. CASE \E j \in Jobs : ClaimNext(w, j)
  <2>0. PICK j \in Jobs : ClaimNext(w, j)
    BY <1>3
  <2>1. CASE Claimable(j)
    <3>1. ClaimRow(j)
      BY <2>0, <2>1 DEF ClaimNext
    <3>2. RowInv' /\ attempts' = [attempts EXCEPT ![j] = @ + 1]
      BY <1>0, <2>1, <3>1, ClaimRowRow
    <3>3. /\ pc' = [pc EXCEPT ![w] = "checkLimit"]
          /\ job' = [job EXCEPT ![w] = j]
          /\ tok' = [tok EXCEPT ![w] = attempts[j] + 1]
          /\ UNCHANGED att
      BY <2>0, <2>1 DEF ClaimNext, FreshToken
    <3>4. pc'[w] \notin Working
      BY <1>0, <3>3 DEF Working
    <3> QED
      BY <1>0, <3>2, <3>3, <3>4, NewClaim
  <2>2. CASE ~Claimable(j)
    <3>1. RowInv' /\ UNCHANGED attempts
      BY <1>0, <2>0, <2>2, SameRow DEF ClaimNext
    <3>2. UNCHANGED <<pc, job, tok, att>>
      BY <2>0, <2>2 DEF ClaimNext
    <3> QED
      BY <1>0, <3>1, <3>2 DEF WorkerInv, OneHolder
  <2> QED
    BY <2>1, <2>2
<1>4. CASE NothingToClaim(w)
  <2>1. RowInv' /\ UNCHANGED attempts
    BY <1>0, <1>4, SameRow DEF NothingToClaim
  <2>2. "idle" \in Control \ (Claimed \cup {"reclaim"})
    BY DEF Control, Claimed, Working
  <2> QED
    BY <1>0, <1>4, <2>1, <2>2, ForgetClaim DEF NothingToClaim, Goto
<1>5. CASE Release(w)
  <2>0. pc[w] = "release" /\ job[w] \in Jobs /\ tok[w] # 0
    BY <1>0, <1>5 DEF Release, WorkerInv, Claimed, TypeInv, BusyWorkerHasJob
  <2>1. CASE token[job[w]] = tok[w]
    <3>1. /\ SetUnclaimed(job[w], "pending", FALSE)
          /\ released' = [released EXCEPT ![job[w]] = @ + 1]
          /\ job' = [job EXCEPT ![w] = NoJob]
          /\ tok' = [tok EXCEPT ![w] = 0]
          /\ pc' = [pc EXCEPT ![w] = "claim"]
          /\ UNCHANGED att
      BY <1>5, <2>1 DEF Release, Goto
    <3>2. RowInv'
      BY <1>0, <2>0, <2>1, <3>1 DEF SetUnclaimed, RowInv, RowType, BoundsAssumption, Active
    <3>3. UNCHANGED attempts
      BY <3>1 DEF SetUnclaimed
    <3>4. WorkerInv'
      BY <1>0, <3>1, <3>3 DEF WorkerInv, Claimed, Working
    <3>5. OneHolder'
      BY <1>0, <3>1 DEF OneHolder
    <3> QED
      BY <3>2, <3>4, <3>5
  <2>2. CASE token[job[w]] # tok[w]
    <3>1. RowInv' /\ UNCHANGED attempts
      BY <1>0, <1>5, <2>2, SameRow DEF Release
    <3>2. "down" \in Control \ (Claimed \cup {"reclaim"})
      BY DEF Control, Claimed, Working
    <3> QED
      BY <1>0, <1>5, <2>2, <3>1, <3>2, ForgetClaim DEF Release, Goto
  <2> QED
    BY <2>1, <2>2
<1> QED
  BY <1>1, <1>2, <1>3, <1>4, <1>5 DEF ClaimStep

\* Every step of execute keeps the invariant about claims.
LEMMA ExecuteStepClaims ==
    ASSUME TypeInv, ClaimInv, Assumptions, NEW w \in Workers, ExecuteStep(w)
    PROVE  ClaimInv'
<1>0. /\ RowType /\ RowInv /\ WorkerInv /\ OneHolder /\ BoundsAssumption
      /\ pc[w] \in Control
      /\ pc \in [Workers -> Control] /\ job \in [Workers -> Jobs \cup {NoJob}]
      /\ tok \in [Workers -> Nat] /\ att \in [Workers -> Nat]
      /\ (pc[w] \in Claimed \cup {"reclaim"} => job[w] \in Jobs /\ tok[w] # 0)
  BY TypeInvParts DEF ClaimInv, Assumptions, ControlType, LocalType, BusyWorkerHasJob, WorkerInv
<1>00. "idle" \in Control \ (Claimed \cup {"reclaim"})
  BY DEF Control, Claimed, Working
<1> SUFFICES RowInv' /\ WorkerInv' /\ OneHolder'
  BY DEF ClaimInv
<1>1. CASE Refuse(w) \/ ReclaimRefused(w) \/ SaveViews(w) \/ StaleClaim(w)
  <2>1. UNCHANGED row /\ Forget(w) /\ pc' = [pc EXCEPT ![w] = "idle"]
    BY <1>1 DEF Refuse, ReclaimRefused, SaveViews, StaleClaim, Goto
  <2>2. RowInv' /\ UNCHANGED attempts
    BY <1>0, <2>1, SameRow
  <2> QED
    BY <1>0, <1>00, <2>1, <2>2, ForgetClaim
<1>2. CASE Start(w)
  <2>0. pc[w] = "start" /\ job[w] \in Jobs /\ tok[w] # 0 /\ tok[w] <= attempts[job[w]]
    BY <1>0, <1>2 DEF Start, Claimed, WorkerInv
  <2>1. RowInv' /\ UNCHANGED <<attempts, job, tok>>
    BY <1>0, <1>2, SameRow DEF Start
  <2>2. OneHolder'
    BY <1>0, <2>1 DEF OneHolder
  <2>3. /\ pc' = [pc EXCEPT ![w] = IF state[job[w]] = "pending" THEN "reclaim" ELSE "parse"]
        /\ att' = [att EXCEPT ![w] = IF state[job[w]] = "pending" THEN 0 ELSE attempts[job[w]]]
    BY <1>2 DEF Start, Goto
  <2>4. attempts[job[w]] \in Nat
    BY <1>0, <2>0 DEF RowType
  <2>5. WorkerInv'
    BY <1>0, <2>0, <2>1, <2>3, <2>4 DEF WorkerInv, Claimed, Working
  <2> QED
    BY <2>1, <2>2, <2>5
<1>3. CASE Reclaim(w)
  <2>0. job[w] \in Jobs /\ Claimable(job[w]) /\ ClaimRow(job[w])
    BY <1>0, <1>3 DEF Reclaim, Goto
  <2>1. RowInv' /\ attempts' = [attempts EXCEPT ![job[w]] = @ + 1]
    BY <1>0, <2>0, ClaimRowRow
  <2>2. /\ pc' = [pc EXCEPT ![w] = "parse"] /\ UNCHANGED job
        /\ tok' = [tok EXCEPT ![w] = attempts[job[w]] + 1]
        /\ att' = [att EXCEPT ![w] = attempts[job[w]] + 1]
    BY <1>3 DEF Reclaim, Goto, FreshToken
  <2> QED
    BY <1>0, <2>0, <2>1, <2>2, NewClaim
<1>4. CASE \/ Parse(w) \/ Chunk(w) \/ SaveBlocks(w) \/ SaveChunks(w) \/ Upsert(w)
           \/ EnsureActiveClaim(w, "checkBlocks", "saveBlocks")
           \/ EnsureActiveClaim(w, "checkChunks", "saveChunks")
           \/ EnsureActiveClaim(w, "checkIndex", "upsert")
  <2>1. UNCHANGED <<job, tok, att>>
    BY <1>4 DEF Parse, Chunk, SaveBlocks, SaveChunks, Upsert, EnsureActiveClaim, locals
  <2>2. RowInv' /\ UNCHANGED attempts
    BY <1>0, <1>4, SameRow
       DEF Parse, Chunk, SaveBlocks, SaveChunks, Upsert, EnsureActiveClaim
  <2>3. PICK to \in Working : pc[w] \in Working /\ pc' = [pc EXCEPT ![w] = to]
    BY <1>4 DEF Parse, Chunk, SaveBlocks, SaveChunks, Upsert, EnsureActiveClaim, Goto, Working
  <2> QED
    BY <1>0, <2>1, <2>2, <2>3, KeepClaim DEF Control, Claimed
<1>5. CASE \/ Advance(w, "toStructuring", "structuring", "chunk")
           \/ Advance(w, "toEmbedding", "embedding", "checkChunks")
  <2>1. UNCHANGED <<job, tok, att, attempts>>
    BY <1>5 DEF Advance, locals
  <2>2. PICK to \in Working : pc[w] \in Working /\ pc' = [pc EXCEPT ![w] = to]
    BY <1>5 DEF Advance, Goto, Working
  <2>3. RowInv'
    BY <1>0, <1>5, <2>2 DEF Advance, HoldsClaim, RowInv, RowType, Active, Claimed
  <2> QED
    BY <1>0, <2>1, <2>2, <2>3, KeepClaim DEF Control, Claimed
<1>6. CASE Finish(w)
  <2>1. UNCHANGED <<job, tok, att, attempts>>
    BY <1>6 DEF Finish, SetUnclaimed, locals
  <2>2. "saveViews" \in Working /\ pc[w] \in Working /\ pc' = [pc EXCEPT ![w] = "saveViews"]
    BY <1>6 DEF Finish, Goto, Working
  <2>3. RowInv'
    BY <1>0, <1>6, <2>2 DEF Finish, SetUnclaimed, RowInv, RowType, Active, Claimed
  <2> QED
    BY <1>0, <2>1, <2>2, <2>3, KeepClaim DEF Control, Claimed
<1>7. CASE ExecuteRaises(w)
  <2>0. pc[w] \in Working /\ job[w] \in Jobs /\ pc' = [pc EXCEPT ![w] = "idle"] /\ Forget(w)
    BY <1>0, <1>7 DEF ExecuteRaises, Claimed
  <2>1. CASE HoldsClaim(w)
    <3>1. token[job[w]] # 0 /\ att[w] = attempts[job[w]]
      <4>1. token[job[w]] # 0 /\ tok[w] = attempts[job[w]]
        BY <1>0, <2>0, <2>1 DEF HoldsClaim, RowInv
      <4>2. tok[w] <= att[w] /\ att[w] <= attempts[job[w]]
        BY <1>0, <2>0 DEF WorkerInv
      <4>3. att[w] \in Nat /\ attempts[job[w]] \in Nat
        BY <1>0, <2>0 DEF RowType
      <4> QED
        BY <4>1, <4>2, <4>3
    <3>2. RowInv' /\ attempts' = attempts
      BY <1>0, <1>7, <2>0, <2>1, <3>1, EndFailedAttemptRow DEF ExecuteRaises
    <3> QED
      BY <1>0, <1>00, <2>0, <3>2, ForgetClaim
  <2>2. CASE ~HoldsClaim(w)
    <3>1. RowInv' /\ UNCHANGED attempts
      BY <1>0, <1>7, <2>2, SameRow DEF ExecuteRaises
    <3> QED
      BY <1>0, <1>00, <2>0, <3>1, ForgetClaim
  <2> QED
    BY <2>1, <2>2
<1> QED
  BY <1>1, <1>2, <1>3, <1>4, <1>5, <1>6, <1>7 DEF ExecuteStep

\* Submissions, time, crashes and cancels keep the invariant about claims.
LEMMA OtherStepClaims ==
    ASSUME TypeInv, ClaimInv, Assumptions,
           \/ \E j \in Jobs : Submit(j) \/ LeaseRunsOut(j) \/ DelayRunsOut(j)
           \/ \E w \in Workers : Crash(w) \/ Restart(w)
           \/ \E c \in Cancellers : CancelWrite(c) \/ \E j \in Jobs : CancelRead(c, j)
           \/ UNCHANGED vars
    PROVE  ClaimInv'
<1>0. /\ RowType /\ RowInv /\ WorkerInv /\ OneHolder /\ BoundsAssumption
  BY TypeInvParts DEF ClaimInv, Assumptions
<1> SUFFICES RowInv' /\ WorkerInv' /\ OneHolder'
  BY DEF ClaimInv
<1>1. CASE \E j \in Jobs : Submit(j) \/ LeaseRunsOut(j) \/ DelayRunsOut(j)
  <2>1. UNCHANGED <<pc, job, tok, att, attempts>>
    BY <1>1 DEF Submit, LeaseRunsOut, DelayRunsOut, locals
  <2>2. WorkerInv' /\ OneHolder'
    BY <1>0, <2>1 DEF WorkerInv, OneHolder
  <2>3. RowInv'
    BY <1>0, <1>1 DEF Submit, LeaseRunsOut, DelayRunsOut, RowInv, RowType, Active
  <2> QED
    BY <2>2, <2>3
<1>2. CASE \E w \in Workers : Crash(w) \/ Restart(w)
  <2>0. PICK w \in Workers : Crash(w) \/ Restart(w)
    BY <1>2
  <2>1. UNCHANGED row
    BY <2>0 DEF Crash, Restart
  <2>2. RowInv' /\ UNCHANGED attempts
    BY <1>0, <2>1, SameRow
  <2>3. "idle" \in Control \ (Claimed \cup {"reclaim"}) /\ "down" \in Control \ (Claimed \cup {"reclaim"})
    BY DEF Control, Claimed, Working
  <2>4. CASE Crash(w)
    BY <1>0, <2>2, <2>3, <2>4, ForgetClaim DEF Crash
  <2>5. CASE Restart(w)
    <3>1. pc' = [pc EXCEPT ![w] = "idle"] /\ UNCHANGED <<job, tok, att>>
      BY <2>5 DEF Restart, Goto, locals
    <3> QED
      BY <1>0, <2>2, <2>3, <3>1, KeepClaim DEF Working
  <2> QED
    BY <2>0, <2>4, <2>5
<1>3. CASE \E c \in Cancellers : CancelWrite(c) \/ \E j \in Jobs : CancelRead(c, j)
  <2>0. PICK c \in Cancellers : CancelWrite(c) \/ \E j \in Jobs : CancelRead(c, j)
    BY <1>3
  <2>1. UNCHANGED <<pc, job, tok, att, attempts>>
    BY <2>0 DEF CancelWrite, CancelRead, row, locals
  <2>2. WorkerInv' /\ OneHolder'
    BY <1>0, <2>1 DEF WorkerInv, OneHolder
  <2>3. CASE CancelWrite(c)
    <3>1. cjob[c] \in Jobs
      BY <2>3 DEF CancelWrite, TypeInv, BusyCancellerHasJob
    <3> QED
      BY <1>0, <2>2, <2>3, <3>1 DEF CancelWrite, RowInv, RowType, Active
  <2>4. CASE \E j \in Jobs : CancelRead(c, j)
    BY <1>0, <2>2, <2>4, SameRow DEF CancelRead
  <2> QED
    BY <2>0, <2>3, <2>4
<1>4. CASE UNCHANGED vars
  BY <1>0, <1>4 DEF vars, row, locals, RowInv, WorkerInv, OneHolder
<1> QED
  BY <1>1, <1>2, <1>3, <1>4

\* The inductive invariant about claims.
LEMMA ClaimInvariant == Spec => []ClaimInv
<1> USE JobsAssumption, DocsAssumption, ModeAssumption, BoundsAssumption DEF Assumptions
<1>1. Init => ClaimInv
  <2> SUFFICES ASSUME Init PROVE RowInv /\ WorkerInv /\ OneHolder
    BY DEF ClaimInv
  <2>1. RowInv
    BY DEF Init, RowInv, Active, BoundsAssumption
  <2>2. WorkerInv /\ OneHolder
    BY DEF Init, WorkerInv, OneHolder, Claimed, Working
  <2> QED
    BY <2>1, <2>2
<1>2. TypeInv /\ ClaimInv /\ [Next]_vars => ClaimInv'
  <2> SUFFICES ASSUME TypeInv, ClaimInv, [Next]_vars PROVE ClaimInv'
    OBVIOUS
  <2>1. CASE \E w \in Workers : ClaimStep(w)
    BY <2>1, ClaimStepClaims
  <2>2. CASE \E w \in Workers : ExecuteStep(w)
    BY <2>2, ExecuteStepClaims
  <2> QED
    BY <2>1, <2>2, OtherStepClaims DEF Next, TimeStep, WorkerStep
<1> QED
  BY <1>1, <1>2, TypeInvariant, PTL DEF Spec

\* At most one worker process holds the claim of a job, for any number of
\* processes, leases, retries and crashes.
THEOREM ClaimIsExclusive == Spec => []ExclusiveClaim
<1>1. ClaimInv => ExclusiveClaim
  BY DEF ClaimInv, OneHolder, ExclusiveClaim, HoldsClaim
<1> QED
  BY <1>1, ClaimInvariant, PTL

\* A job is claimed at most max_attempts times, not counting the claims given
\* back at the part limit.
THEOREM AttemptsAreBounded == Spec => []AttemptsBounded
<1>1. ClaimInv => AttemptsBounded
  BY DEF ClaimInv, RowInv, AttemptsBounded
<1> QED
  BY <1>1, ClaimInvariant, PTL

\* A row has a claim token exactly while it is active.
THEOREM ClaimMeansActive == Spec => []ClaimIffActive
<1>1. ClaimInv => ClaimIffActive
  BY DEF ClaimInv, RowInv, ClaimIffActive
<1> QED
  BY <1>1, ClaimInvariant, PTL

-----------------------------------------------------------------------------
(* What one step does to the rows.  Whoever takes it, a step touches the row *)
(* of one job at most, by one of the store operations, and only a cancel     *)
(* does so without a claim or a pending row to begin with.                   *)

Cancels(c, j) == CancelWrite(c) /\ cjob[c] = j

RowOperation(j) ==
    \/ Submit(j) \/ LeaseRunsOut(j) \/ DelayRunsOut(j)
    \/ Claimable(j) /\ ClaimRow(j)
    \/ token[j] # 0 /\ EndFailedAttempt(j, attempts[j])
    \/ /\ token[j] # 0 /\ UNCHANGED dead
       /\ SetUnclaimed(j, "pending", FALSE) \/ SetUnclaimed(j, "done", FALSE)
    \/ /\ token[j] # 0 /\ UNCHANGED <<token, attempts, expired, delayed, dead>>
       /\ \E s \in Active : state' = [state EXCEPT ![j] = s]
       /\ cancelled' = [cancelled EXCEPT ![j] = FALSE]
    \/ \E c \in Cancellers : Cancels(c, j)

\* A claim that a worker gives up or loses is the claim of the last attempt.
LEMMA AttemptOfHolder ==
    ASSUME TypeInv, ClaimInv, NEW w \in Workers, pc[w] \in Working, HoldsClaim(w)
    PROVE  job[w] \in Jobs /\ token[job[w]] # 0 /\ att[w] = attempts[job[w]]
<1>0. /\ RowType /\ RowInv /\ WorkerInv /\ tok[w] \in Nat /\ att[w] \in Nat
      /\ job[w] \in Jobs /\ tok[w] # 0
  BY TypeInvParts DEF ClaimInv, LocalType, TypeInv, BusyWorkerHasJob, Claimed, HoldsClaim
<1>1. token[job[w]] # 0 /\ tok[w] = attempts[job[w]]
  BY <1>0 DEF HoldsClaim, RowInv
<1>2. tok[w] <= att[w] /\ att[w] <= attempts[job[w]]
  BY <1>0 DEF WorkerInv
<1>3. attempts[job[w]] \in Nat
  BY <1>0 DEF RowType
<1> QED
  BY <1>0, <1>1, <1>2, <1>3

\* Every step is one of those operations, or leaves all rows as they are.
LEMMA OneRowMoves ==
    ASSUME TypeInv, ClaimInv, Assumptions, [Next]_vars
    PROVE  UNCHANGED row \/ \E j \in Jobs : RowOperation(j)
<1>0. /\ RowType /\ RowInv /\ WorkerInv /\ BoundsAssumption
  BY TypeInvParts DEF ClaimInv, Assumptions
<1>1. CASE \E j \in Jobs : Submit(j) \/ LeaseRunsOut(j) \/ DelayRunsOut(j)
  BY <1>1 DEF RowOperation
<1>2. ASSUME NEW w \in Workers, ClaimStep(w)
      PROVE  UNCHANGED row \/ \E j \in Jobs : RowOperation(j)
  <2>1. ASSUME NEW j \in Jobs, NEW t \in 1..MaxClaims, Recover(w, j, t)
        PROVE  UNCHANGED row \/ RowOperation(j)
    <3>1. CASE token[j] = t
      <4>1. token[j] # 0 /\ t = attempts[j]
        BY <1>0, <3>1 DEF RowInv, BoundsAssumption
      <4> QED
        BY <2>1, <3>1, <4>1 DEF Recover, RowOperation
    <3>2. CASE token[j] # t
      BY <2>1, <3>2 DEF Recover
    <3> QED
      BY <3>1, <3>2
  <2>2. ASSUME NEW j \in Jobs, ClaimNext(w, j)
        PROVE  UNCHANGED row \/ RowOperation(j)
    BY <2>2 DEF ClaimNext, RowOperation
  <2>3. CASE Release(w)
    <3>0. pc[w] = "release" /\ job[w] \in Jobs /\ tok[w] # 0
      BY <1>0, <2>3 DEF Release, WorkerInv, Claimed, TypeInv, BusyWorkerHasJob
    <3>1. CASE token[job[w]] = tok[w]
      BY <2>3, <3>0, <3>1 DEF Release, RowOperation
    <3>2. CASE token[job[w]] # tok[w]
      BY <2>3, <3>2 DEF Release
    <3> QED
      BY <3>1, <3>2
  <2>4. CASE Sweep(w) \/ RecoveryDone(w) \/ ListPending(w) \/ NothingToClaim(w) \/ CheckLimit(w)
    BY <2>4 DEF Sweep, RecoveryDone, ListPending, NothingToClaim, CheckLimit
  <2> QED
    BY <1>2, <2>1, <2>2, <2>3, <2>4 DEF ClaimStep
<1>3. ASSUME NEW w \in Workers, ExecuteStep(w)
      PROVE  UNCHANGED row \/ \E j \in Jobs : RowOperation(j)
  <2>0. pc[w] \in Claimed \cup {"reclaim"} => job[w] \in Jobs /\ tok[w] # 0
    BY <1>0 DEF WorkerInv, TypeInv, BusyWorkerHasJob
  <2>1. CASE Reclaim(w)
    BY <2>0, <2>1 DEF Reclaim, Goto, RowOperation
  <2>2. CASE \/ Advance(w, "toStructuring", "structuring", "chunk")
             \/ Advance(w, "toEmbedding", "embedding", "checkChunks")
    <3>1. job[w] \in Jobs /\ token[job[w]] # 0
      BY <2>0, <2>2 DEF Advance, Goto, HoldsClaim, Claimed, Working
    <3>2. "structuring" \in Active /\ "embedding" \in Active
      BY DEF Active
    <3>3. /\ \E s \in Active : state' = [state EXCEPT ![job[w]] = s]
          /\ cancelled' = [cancelled EXCEPT ![job[w]] = FALSE]
          /\ UNCHANGED <<token, attempts, expired, delayed, dead>>
      BY <2>2, <3>2 DEF Advance
    <3> QED
      BY <3>1, <3>3 DEF RowOperation
  <2>3. CASE Finish(w)
    <3>1. job[w] \in Jobs /\ token[job[w]] # 0
      BY <2>0, <2>3 DEF Finish, Goto, HoldsClaim, Claimed, Working
    <3> QED
      BY <2>3, <3>1 DEF Finish, RowOperation
  <2>4. CASE ExecuteRaises(w)
    <3>1. CASE HoldsClaim(w)
      <4>1. pc[w] \in Working
        BY <2>4 DEF ExecuteRaises
      <4>2. job[w] \in Jobs /\ token[job[w]] # 0 /\ att[w] = attempts[job[w]]
        BY <3>1, <4>1, AttemptOfHolder
      <4> QED
        BY <2>4, <3>1, <4>2 DEF ExecuteRaises, RowOperation
    <3>2. CASE ~HoldsClaim(w)
      BY <2>4, <3>2 DEF ExecuteRaises
    <3> QED
      BY <3>1, <3>2
  <2>5. CASE \/ Refuse(w) \/ Start(w) \/ ReclaimRefused(w) \/ SaveViews(w) \/ StaleClaim(w)
    BY <2>5 DEF Refuse, Start, ReclaimRefused, SaveViews, StaleClaim
  <2>6. CASE \/ Parse(w) \/ Chunk(w) \/ SaveBlocks(w) \/ SaveChunks(w) \/ Upsert(w)
             \/ EnsureActiveClaim(w, "checkBlocks", "saveBlocks")
             \/ EnsureActiveClaim(w, "checkChunks", "saveChunks")
             \/ EnsureActiveClaim(w, "checkIndex", "upsert")
    BY <2>6 DEF Parse, Chunk, SaveBlocks, SaveChunks, Upsert, EnsureActiveClaim
  <2> QED
    BY <1>3, <2>1, <2>2, <2>3, <2>4, <2>5, <2>6 DEF ExecuteStep
<1>4. CASE \E w \in Workers : Crash(w) \/ Restart(w)
  BY <1>4 DEF Crash, Restart
<1>5. CASE \E c \in Cancellers : CancelWrite(c)
  BY <1>5 DEF RowOperation, Cancels, CancelWrite, TypeInv, BusyCancellerHasJob
<1>6. CASE \E c \in Cancellers, j \in Jobs : CancelRead(c, j)
  BY <1>6 DEF CancelRead
<1>7. CASE UNCHANGED vars
  BY <1>7 DEF vars, row
<1> QED
  BY <1>1, <1>2, <1>3, <1>4, <1>5, <1>6, <1>7 DEF Next, TimeStep, WorkerStep

\* A token is never replaced by another one that a worker may remember: it stays,
\* is cleared, or makes room for that of one more attempt.
LEMMA TokenMoves ==
    ASSUME TypeInv, ClaimInv, Assumptions, [Next]_vars, NEW i \in Jobs
    PROVE  token'[i] \in {0, token[i], attempts[i] + 1}
<1>0. RowType
  BY TypeInvParts
<1>1. CASE UNCHANGED row
  BY <1>1 DEF row
<1>2. ASSUME NEW j \in Jobs, RowOperation(j)
      PROVE  token'[i] \in {0, token[i], attempts[i] + 1}
  <2>1. CASE Submit(j) \/ LeaseRunsOut(j) \/ DelayRunsOut(j) \/ UNCHANGED token
    BY <2>1 DEF Submit, LeaseRunsOut, DelayRunsOut
  <2>2. CASE ClaimRow(j)
    BY <1>0, <2>2 DEF ClaimRow, FreshToken, RowType
  <2>3. CASE token' = [token EXCEPT ![j] = 0]
    BY <1>0, <2>3 DEF RowType
  <2> QED
    BY <1>2, <2>1, <2>2, <2>3
       DEF RowOperation, EndFailedAttempt, DeadLetter, Retry, SetUnclaimed, Cancels, CancelWrite
<1> QED
  BY <1>1, <1>2, OneRowMoves

\* Whoever lost a claim, or never had one, gets none by what the others do.
LEMMA LostClaimStaysLost ==
    ASSUME TypeInv, ClaimInv, Assumptions, [Next]_vars,
           NEW w \in Workers, job'[w] = job[w], tok'[w] = tok[w], ~HoldsClaim(w)
    PROVE  ~HoldsClaim(w)'
<1> SUFFICES ASSUME job[w] # NoJob, tok[w] # 0, token'[job[w]] = tok[w]
             PROVE  FALSE
  BY DEF HoldsClaim
<1>1. /\ job[w] \in Jobs /\ tok[w] \in Nat
      /\ tok[w] <= attempts[job[w]] /\ attempts[job[w]] \in Nat
  BY TypeInvParts DEF ClaimInv, WorkerInv, LocalType, RowType
<1>2. token'[job[w]] \in {0, token[job[w]], attempts[job[w]] + 1}
  BY <1>1, TokenMoves
<1>3. token[job[w]] = tok[w]
  BY <1>1, <1>2
<1> QED
  BY <1>3 DEF HoldsClaim

-----------------------------------------------------------------------------
(* The window between a check of the claim and the write it guards.        *)

\* A worker has written after it lost its claim only if it stands at the next
\* statement that looks at the claim, and it will not get the claim back.
InWindow(w) ==
    \/ staleWrites[w] = 0
    \/ /\ staleWrites[w] = 1
       /\ ~HoldsClaim(w)
       /\ pc[w] \in {"toStructuring", "checkIndex", "finish"}
StaleInv == \A w \in Workers : InWindow(w)

\* What other processes do leaves the window of a worker as it is.
LEMMA StaleElsewhere ==
    ASSUME TypeInv, ClaimInv, Assumptions, StaleInv, [Next]_vars, NEW w \in Workers,
           pc'[w] = pc[w], job'[w] = job[w], tok'[w] = tok[w], staleWrites'[w] = staleWrites[w]
    PROVE  InWindow(w)'
BY LostClaimStaysLost DEF StaleInv, InWindow

\* One artifact written without the claim, and the next statement looks.
LEMMA StaleWrite ==
    ASSUME TypeInv, StaleInv, NEW w \in Workers, CountStale(w), UNCHANGED <<row, locals>>,
           pc[w] \in {"saveBlocks", "saveChunks", "upsert"},
           NEW to \in {"toStructuring", "checkIndex", "finish"}, pc' = [pc EXCEPT ![w] = to]
    PROVE  InWindow(w)'
<1>1. staleWrites[w] = 0 /\ staleWrites \in [Workers -> Nat] /\ pc \in [Workers -> Control]
  BY DEF StaleInv, InWindow, TypeInv, TypeOK
<1>2. (HoldsClaim(w))' <=> HoldsClaim(w)
  BY DEF HoldsClaim, row, locals
<1> QED
  BY <1>1, <1>2 DEF CountStale, InWindow

\* A step of a worker leaves what the others have in hand.
LEMMA OthersUntouched ==
    ASSUME TypeInv, NEW w \in Workers, NEW v \in Workers \ {w},
           WorkerStep(w) \/ Crash(w) \/ Restart(w)
    PROVE  /\ pc'[v] = pc[v] /\ job'[v] = job[v] /\ tok'[v] = tok[v]
           /\ staleWrites'[v] = staleWrites[v]
<1>0. /\ pc \in [Workers -> Control] /\ job \in [Workers -> Jobs \cup {NoJob}]
      /\ tok \in [Workers -> Nat] /\ staleWrites \in [Workers -> Nat]
  BY DEF TypeInv, TypeOK
<1>1. CASE ClaimStep(w)
  BY <1>0, <1>1 DEF ClaimStep, Sweep, Recover, RecoveryDone, ListPending, ClaimNext, NothingToClaim,
        CheckLimit, Release, Forget, Goto, locals
<1>2. CASE ExecuteStep(w)
  BY <1>0, <1>2 DEF ExecuteStep, Refuse, Start, Reclaim, ReclaimRefused, Parse, Chunk, SaveBlocks,
        SaveChunks, Upsert, EnsureActiveClaim, CountStale, Advance, Finish, SaveViews, StaleClaim,
        ExecuteRaises, Forget, Goto, locals
<1>3. CASE Crash(w) \/ Restart(w)
  BY <1>0, <1>3 DEF Crash, Restart, Forget, Goto, locals
<1> QED
  BY <1>1, <1>2, <1>3 DEF WorkerStep

\* Every step keeps the window to a single write.
LEMMA StaleStep ==
    ASSUME TypeInv, ClaimInv, Assumptions, StaleInv, [Next]_vars
    PROVE  StaleInv'
<1>0. /\ pc \in [Workers -> Control] /\ staleWrites \in [Workers -> Nat]
  BY DEF TypeInv, TypeOK
<1> SUFFICES \A w \in Workers : InWindow(w)'
  BY DEF StaleInv
<1>1. ASSUME NEW w \in Workers, WorkerStep(w) \/ Crash(w) \/ Restart(w)
      PROVE  \A v \in Workers : InWindow(v)'
  <2>1. ASSUME NEW v \in Workers \ {w} PROVE InWindow(v)'
    BY <1>1, <2>1, OthersUntouched, StaleElsewhere
  <2>2. CASE SaveBlocks(w) \/ SaveChunks(w) \/ Upsert(w)
    <3>1. PICK to \in {"toStructuring", "checkIndex", "finish"} :
              /\ pc[w] \in {"saveBlocks", "saveChunks", "upsert"}
              /\ pc' = [pc EXCEPT ![w] = to]
      BY <2>2 DEF SaveBlocks, SaveChunks, Upsert, Goto
    <3>2. CountStale(w) /\ UNCHANGED <<row, locals>>
      BY <2>2 DEF SaveBlocks, SaveChunks, Upsert
    <3>3. InWindow(w)'
      BY <3>1, <3>2, StaleWrite
    <3> QED
      BY <2>1, <3>3
  <2>3. CASE Forget(w)
    BY <1>0, <2>1, <2>3 DEF Forget, InWindow
  <2>4. CASE /\ staleWrites' = staleWrites
             /\ \/ HoldsClaim(w)
                \/ pc[w] \notin {"toStructuring", "checkIndex", "finish"}
    <3>1. staleWrites[w] = 0
      BY <2>4 DEF StaleInv, InWindow
    <3> QED
      BY <2>1, <2>4, <3>1 DEF InWindow
  <2>5. CASE ClaimStep(w)
    BY <2>3, <2>4, <2>5 DEF ClaimStep, Sweep, Recover, RecoveryDone, ListPending, ClaimNext,
          NothingToClaim, CheckLimit, Release, Goto, locals
  <2>6. CASE ExecuteStep(w)
    BY <2>2, <2>3, <2>4, <2>6 DEF ExecuteStep, Refuse, Start, Reclaim, ReclaimRefused, Parse, Chunk,
          EnsureActiveClaim, Advance, Finish, SaveViews, StaleClaim, ExecuteRaises, Goto, locals
  <2>7. CASE Crash(w) \/ Restart(w)
    BY <2>3, <2>4, <2>7 DEF Crash, Restart, Goto, locals
  <2> QED
    BY <1>1, <2>5, <2>6, <2>7 DEF WorkerStep
<1>2. CASE /\ ~\E w \in Workers : WorkerStep(w) \/ Crash(w) \/ Restart(w)
  <2>1. UNCHANGED <<pc, job, tok, staleWrites>>
    BY <1>2 DEF Next, TimeStep, Submit, LeaseRunsOut, DelayRunsOut, CancelWrite, CancelRead, vars, locals
  <2> QED
    BY <2>1, StaleElsewhere
<1> QED
  BY <1>1, <1>2

\* An attempt that lost its claim replaces one more artifact at most, for any
\* number of processes, leases, retries, cancels and crashes.
THEOREM StaleDamage == Spec => []StaleDamageBounded
<1> USE JobsAssumption, DocsAssumption, ModeAssumption, BoundsAssumption DEF Assumptions
<1>1. Init => StaleInv
  BY DEF Init, StaleInv, InWindow
<1>2. StaleInv => StaleDamageBounded
  BY DEF StaleInv, InWindow, StaleDamageBounded
<1> QED
  BY <1>1, <1>2, StaleStep, TypeInvariant, ClaimInvariant, PTL DEF Spec

-----------------------------------------------------------------------------
(* Settled jobs.                                                           *)

\* Only a claim of a pending row, or whoever holds the claim of an active one,
\* changes a row; a late cancel is the exception (runtime.py, cancel_job).
LEMMA SettledRowMoves ==
    ASSUME TypeInv, ClaimInv, Assumptions, [Next]_vars, NEW i \in Jobs, Settled(i),
           ~\E c \in Cancellers : Cancels(c, i)
    PROVE  /\ state'[i] = state[i] /\ attempts'[i] = attempts[i] /\ token'[i] = token[i]
           /\ dead'[i] = dead[i] /\ cancelled'[i] = cancelled[i]
<1>0. RowType /\ RowInv
  BY TypeInvParts DEF ClaimInv
<1>1. state[i] \notin {"absent", "pending"} \cup Active /\ token[i] = 0
  BY <1>0 DEF Settled, RowInv, Active
<1>2. CASE UNCHANGED row
  BY <1>2 DEF row
<1>3. ASSUME NEW j \in Jobs, RowOperation(j), j # i
      PROVE  /\ state'[i] = state[i] /\ attempts'[i] = attempts[i] /\ token'[i] = token[i]
             /\ dead'[i] = dead[i] /\ cancelled'[i] = cancelled[i]
  BY <1>0, <1>3 DEF RowOperation, Submit, LeaseRunsOut, DelayRunsOut, ClaimRow, EndFailedAttempt,
     DeadLetter, Retry, SetUnclaimed, Cancels, CancelWrite, RowType
<1>4. CASE RowOperation(i)
  <2>1. LeaseRunsOut(i) \/ DelayRunsOut(i)
    BY <1>1, <1>4 DEF RowOperation, Submit, Claimable
  <2> QED
    BY <2>1 DEF LeaseRunsOut, DelayRunsOut
<1> QED
  BY <1>2, <1>3, <1>4, OneRowMoves

\* A cancelled job is failed.
CancelInv == \A j \in Jobs : cancelled[j] => state[j] = "failed"

\* Every step keeps that, and keeps the cancellation.
LEMMA CancelStep ==
    ASSUME TypeInv, ClaimInv, Assumptions, CancelInv, [Next]_vars, NEW i \in Jobs
    PROVE  /\ cancelled'[i] => state'[i] = "failed"
           /\ cancelled[i] => cancelled'[i] /\ state'[i] = "failed"
<1>0. RowType /\ RowInv
  BY TypeInvParts DEF ClaimInv
<1>1. CASE cancelled[i] /\ ~\E c \in Cancellers : Cancels(c, i)
  BY <1>1, SettledRowMoves DEF CancelInv, Settled
<1>2. CASE \E c \in Cancellers : Cancels(c, i)
  BY <1>0, <1>2 DEF Cancels, CancelWrite, RowType
<1>3. CASE ~cancelled[i] /\ ~\E c \in Cancellers : Cancels(c, i)
  <2>1. ~cancelled'[i]
    <3>1. CASE UNCHANGED row
      BY <1>3, <3>1 DEF row
    <3>2. ASSUME NEW j \in Jobs, RowOperation(j) PROVE ~cancelled'[i]
      BY <1>0, <1>3, <3>2 DEF RowOperation, Submit, LeaseRunsOut, DelayRunsOut, ClaimRow,
         EndFailedAttempt, DeadLetter, Retry, SetUnclaimed, Cancels, CancelWrite, RowType
    <3> QED
      BY <3>1, <3>2, OneRowMoves
  <2> QED
    BY <1>3, <2>1
<1> QED
  BY <1>1, <1>2, <1>3

\* A cancelled job is failed, always.
LEMMA CancelInvariant == Spec => []CancelInv
<1> USE JobsAssumption, DocsAssumption, ModeAssumption, BoundsAssumption DEF Assumptions
<1>1. Init => CancelInv
  BY DEF Init, CancelInv
<1>2. TypeInv /\ ClaimInv /\ CancelInv /\ [Next]_vars => CancelInv'
  BY CancelStep DEF CancelInv
<1> QED
  BY <1>1, <1>2, TypeInvariant, ClaimInvariant, PTL DEF Spec

\* A cancellation is never undone: no late worker, recovery or retry brings the
\* job back, for any number of processes and cancels.
THEOREM CancelIsForGood == Spec => CancelledStaysCancelled
<1> USE JobsAssumption, DocsAssumption, ModeAssumption, BoundsAssumption DEF Assumptions
<1>1. TypeInv /\ ClaimInv /\ CancelInv /\ [Next]_vars
        => [\A j \in Jobs : cancelled[j] => cancelled'[j] /\ state'[j] = "failed"]_vars
  BY CancelStep
<1> QED
  BY <1>1, TypeInvariant, ClaimInvariant, CancelInvariant, PTL DEF Spec, CancelledStaysCancelled

\* Only a cancel that was decided before the job settled changes a settled job,
\* and only its verdict: neither a worker nor a recovery does.
THEOREM OnlyCancelUnsettles ==
    Spec => [][\A j \in Jobs :
                 Settled(j) => \/ /\ state'[j] = state[j] /\ attempts'[j] = attempts[j]
                                  /\ dead'[j] = dead[j] /\ cancelled'[j] = cancelled[j]
                               \/ \E c \in Cancellers : Cancels(c, j)]_vars
<1> USE JobsAssumption, DocsAssumption, ModeAssumption, BoundsAssumption DEF Assumptions
<1>1. TypeInv /\ ClaimInv /\ [Next]_vars
        => [\A j \in Jobs :
              Settled(j) => \/ /\ state'[j] = state[j] /\ attempts'[j] = attempts[j]
                               /\ dead'[j] = dead[j] /\ cancelled'[j] = cancelled[j]
                            \/ \E c \in Cancellers : Cancels(c, j)]_vars
  BY SettledRowMoves
<1> QED
  BY <1>1, TypeInvariant, ClaimInvariant, PTL DEF Spec

\* Without cancels, a job that is done or dead-lettered stays so.
THEOREM SettledForGood ==
    ASSUME Cancellers = {}
    PROVE  Spec => SettledIsFinal
<1> USE JobsAssumption, DocsAssumption, ModeAssumption, BoundsAssumption DEF Assumptions
<1>1. [](Cancellers = {})
  BY PTL
<1>2. Cancellers = {} /\ TypeInv /\ ClaimInv /\ [Next]_vars
        => [\A j \in Jobs :
              Settled(j) => /\ state'[j] = state[j]
                            /\ attempts'[j] = attempts[j]
                            /\ dead'[j] = dead[j]
                            /\ cancelled'[j] = cancelled[j]]_vars
  BY SettledRowMoves
<1> QED
  BY <1>1, <1>2, TypeInvariant, ClaimInvariant, PTL DEF Spec, SettledIsFinal

-----------------------------------------------------------------------------
(* What a job that becomes done has published.                             *)

\* One worker process serves the queue, and no job reads chunks it has not made:
\* a rerun of the embeddings takes the chunks that are there, which may be those
\* of a parse that is older than the blocks.
LoneWorker == \A v, w \in Workers : v = w
NoEmbeddingRerun == \A j \in Jobs : Mode[j] # "embeddings"

\* Where in execute the blocks are in memory and stored, and so the chunks.
ChunksStored == {"checkIndex", "upsert", "finish"}
ChunksHeld == {"toEmbedding", "checkChunks", "saveChunks"} \cup ChunksStored
BlocksStored == {"toStructuring", "chunk"} \cup ChunksHeld
BlocksHeld == {"checkBlocks", "saveBlocks"} \cup BlocksStored

\* What a worker has in memory is what its document has, from its own writes or
\* from what it has read: nobody else writes in between.
Publishes(w) ==
    LET d == DocOf[job[w]] IN
    /\ pc[w] \in BlocksHeld => held[w].blocks # NoOrigin
    /\ pc[w] \in BlocksStored => blocks[d] = held[w].blocks
    /\ pc[w] \in ChunksHeld => held[w].chunks = held[w].blocks
    /\ pc[w] \in ChunksStored => chunks[d] = held[w].chunks
    /\ pc[w] = "finish" => index[d] = held[w].chunks
PublishInv == \A w \in Workers : Publishes(w)

\* A step into a state outside that part of execute has nothing to show.
LEMMA NothingHeld ==
    ASSUME NEW w \in Workers, pc'[w] \notin BlocksHeld
    PROVE  Publishes(w)'
BY DEF Publishes, BlocksHeld, BlocksStored, ChunksHeld, ChunksStored

\* claim_next_job holds no blocks.
LEMMA ClaimStepPublishes ==
    ASSUME TypeInv, NEW w \in Workers, ClaimStep(w)
    PROVE  Publishes(w)'
<1>0. pc \in [Workers -> Control]
  BY DEF TypeInv, TypeOK
<1> SUFFICES pc'[w] \notin BlocksHeld
  BY NothingHeld
<1>1. CASE Sweep(w) \/ RecoveryDone(w) \/ ListPending(w) \/ NothingToClaim(w) \/ CheckLimit(w)
  BY <1>0, <1>1 DEF Sweep, RecoveryDone, ListPending, NothingToClaim, CheckLimit, Goto,
     BlocksHeld, BlocksStored, ChunksHeld, ChunksStored
<1>2. CASE \E j \in Jobs, t \in 1..MaxClaims : Recover(w, j, t)
  BY <1>0, <1>2 DEF Recover, BlocksHeld, BlocksStored, ChunksHeld, ChunksStored
<1>3. CASE \E j \in Jobs : ClaimNext(w, j)
  BY <1>0, <1>3 DEF ClaimNext, BlocksHeld, BlocksStored, ChunksHeld, ChunksStored
<1>4. CASE Release(w)
  BY <1>0, <1>4 DEF Release, Goto, BlocksHeld, BlocksStored, ChunksHeld, ChunksStored
<1> QED
  BY <1>1, <1>2, <1>3, <1>4 DEF ClaimStep

\* Every statement of execute makes what it holds and what is stored the same.
LEMMA ExecuteStepPublishes ==
    ASSUME TypeInv, Assumptions, NoEmbeddingRerun, NEW w \in Workers, Publishes(w), ExecuteStep(w)
    PROVE  Publishes(w)'
<1>0. /\ pc \in [Workers -> Control] /\ blocks \in [Docs -> Origins] /\ chunks \in [Docs -> Origins]
      /\ index \in [Docs -> Origins] /\ held \in [Workers -> [blocks : Origins, chunks : Origins]]
      /\ att \in [Workers -> Nat] /\ job \in [Workers -> Jobs \cup {NoJob}]
  BY DEF TypeInv, TypeOK
<1>01. ASSUME pc[w] \in Working
       PROVE  job[w] \in Jobs /\ DocOf[job[w]] \in Docs
  BY <1>01 DEF TypeInv, BusyWorkerHasJob, Claimed, Assumptions, DocsAssumption
<1> DEFINE d == DocOf[job[w]]
<1>1. CASE \/ Refuse(w) \/ Start(w) \/ Reclaim(w) \/ ReclaimRefused(w) \/ SaveViews(w)
           \/ StaleClaim(w) \/ ExecuteRaises(w) \/ Finish(w)
  <2>1. pc'[w] \notin BlocksHeld
    BY <1>0, <1>1 DEF Refuse, Start, Reclaim, ReclaimRefused, SaveViews, StaleClaim, ExecuteRaises,
       Finish, Goto, BlocksHeld, BlocksStored, ChunksHeld, ChunksStored
  <2> QED
    BY <2>1, NothingHeld
<1>2. CASE Parse(w)
  <2>0. job[w] \in Jobs /\ d \in Docs
    BY <1>01, <1>2 DEF Parse, Working
  <2>1. job' = job /\ blocks' = blocks
    BY <1>2 DEF Parse, artifacts
  <2>2. pc'[w] = IF Mode[job[w]] = "chunks" THEN "toStructuring" ELSE "checkBlocks"
    BY <1>0, <1>2 DEF Parse, Goto
  <2>3. held'[w].blocks = IF Mode[job[w]] = "parse" THEN <<job[w], att[w]>> ELSE blocks[d]
    BY <1>0, <1>2 DEF Parse
  <2>4. Mode[job[w]] # "parse" => blocks[d] # NoOrigin
    BY <1>2 DEF Parse
  <2>5. <<job[w], att[w]>> # NoOrigin
    BY <2>0, JobsAssumption DEF NoOrigin, Jobs
  <2> QED
    BY <2>1, <2>2, <2>3, <2>4, <2>5
       DEF Publishes, BlocksHeld, BlocksStored, ChunksHeld, ChunksStored
<1>3. CASE SaveBlocks(w)
  <2>0. d \in Docs
    BY <1>01, <1>3 DEF SaveBlocks, Goto, Working
  <2>1. UNCHANGED <<job, held>> /\ pc[w] = "saveBlocks" /\ pc'[w] = "toStructuring"
    BY <1>0, <1>3 DEF SaveBlocks, Goto, locals
  <2>2. blocks'[d] = held[w].blocks
    BY <1>0, <1>3, <2>0 DEF SaveBlocks
  <2> QED
    BY <2>1, <2>2 DEF Publishes, BlocksHeld, BlocksStored, ChunksHeld, ChunksStored
<1>4. CASE Chunk(w)
  <2>0. job[w] \in Jobs
    BY <1>01, <1>4 DEF Chunk, Working
  <2>1. UNCHANGED <<job, blocks>> /\ pc[w] = "chunk" /\ pc'[w] = "toEmbedding"
    BY <1>0, <1>4 DEF Chunk, Goto, artifacts
  <2>2. held'[w].blocks = held[w].blocks /\ held'[w].chunks = held[w].blocks
    BY <1>0, <1>4, <2>0 DEF Chunk, NoEmbeddingRerun
  <2> QED
    BY <2>1, <2>2 DEF Publishes, BlocksHeld, BlocksStored, ChunksHeld, ChunksStored
<1>5. CASE SaveChunks(w)
  <2>0. d \in Docs
    BY <1>01, <1>5 DEF SaveChunks, Goto, Working
  <2>1. UNCHANGED <<job, held, blocks>> /\ pc[w] = "saveChunks" /\ pc'[w] = "checkIndex"
    BY <1>0, <1>5 DEF SaveChunks, Goto, locals
  <2>2. chunks'[d] = held[w].chunks
    BY <1>0, <1>5, <2>0 DEF SaveChunks
  <2> QED
    BY <2>1, <2>2 DEF Publishes, BlocksHeld, BlocksStored, ChunksHeld, ChunksStored
<1>6. CASE Upsert(w)
  <2>0. d \in Docs
    BY <1>01, <1>6 DEF Upsert, Goto, Working
  <2>1. UNCHANGED <<job, held, blocks, chunks>> /\ pc[w] = "upsert" /\ pc'[w] = "finish"
    BY <1>0, <1>6 DEF Upsert, Goto, locals
  <2>2. index'[d] = held[w].chunks
    BY <1>0, <1>6, <2>0 DEF Upsert
  <2> QED
    BY <2>1, <2>2 DEF Publishes, BlocksHeld, BlocksStored, ChunksHeld, ChunksStored
<1>7. CASE \/ EnsureActiveClaim(w, "checkBlocks", "saveBlocks")
           \/ EnsureActiveClaim(w, "checkChunks", "saveChunks")
           \/ EnsureActiveClaim(w, "checkIndex", "upsert")
           \/ Advance(w, "toStructuring", "structuring", "chunk")
           \/ Advance(w, "toEmbedding", "embedding", "checkChunks")
  <2>1. UNCHANGED <<job, held, blocks, chunks, index>>
    BY <1>7 DEF EnsureActiveClaim, Advance, locals, artifacts
  <2>2. <<pc[w], pc'[w]>> \in {<<"checkBlocks", "saveBlocks">>, <<"checkChunks", "saveChunks">>,
                              <<"checkIndex", "upsert">>, <<"toStructuring", "chunk">>,
                              <<"toEmbedding", "checkChunks">>}
    BY <1>0, <1>7 DEF EnsureActiveClaim, Advance, Goto
  <2> QED
    BY <2>1, <2>2 DEF Publishes, BlocksHeld, BlocksStored, ChunksHeld, ChunksStored
<1> QED
  BY <1>1, <1>2, <1>3, <1>4, <1>5, <1>6, <1>7 DEF ExecuteStep

\* A step of nobody's leaves what is held and what is stored alone.
LEMMA OtherStepPublishes ==
    ASSUME PublishInv, UNCHANGED <<artifacts, pc, locals>>
    PROVE  PublishInv'
BY DEF PublishInv, Publishes, artifacts, locals

\* With one worker what it holds is what is stored, through crashes, cancels,
\* recoveries and attempts that end anywhere.
LEMMA PublishInvariant ==
    ASSUME LoneWorker, NoEmbeddingRerun
    PROVE  Spec => []PublishInv
<1> USE JobsAssumption, DocsAssumption, ModeAssumption, BoundsAssumption DEF Assumptions
<1>0. [](LoneWorker /\ NoEmbeddingRerun)
  BY PTL
<1>1. Init => PublishInv
  BY DEF Init, PublishInv, Publishes, BlocksHeld, BlocksStored, ChunksHeld, ChunksStored
<1>2. LoneWorker /\ NoEmbeddingRerun /\ TypeInv /\ PublishInv /\ [Next]_vars => PublishInv'
  <2> SUFFICES ASSUME LoneWorker, NoEmbeddingRerun, TypeInv, PublishInv, [Next]_vars
               PROVE  PublishInv'
    OBVIOUS
  <2>1. ASSUME NEW w \in Workers, Publishes(w)' PROVE PublishInv'
    BY <2>1 DEF LoneWorker, PublishInv
  <2>2. CASE \E j \in Jobs : Submit(j) \/ LeaseRunsOut(j) \/ DelayRunsOut(j)
    <3>1. UNCHANGED <<artifacts, pc, locals>>
      BY <2>2 DEF Submit, LeaseRunsOut, DelayRunsOut
    <3> QED
      BY <3>1, OtherStepPublishes
  <2>3. CASE \E c \in Cancellers : CancelWrite(c) \/ \E j \in Jobs : CancelRead(c, j)
    <3>1. UNCHANGED <<artifacts, pc, locals>>
      BY <2>3 DEF CancelWrite, CancelRead
    <3> QED
      BY <3>1, OtherStepPublishes
  <2>4. ASSUME NEW w \in Workers, ClaimStep(w) PROVE PublishInv'
    BY <2>1, <2>4, ClaimStepPublishes
  <2>5. ASSUME NEW w \in Workers, ExecuteStep(w) PROVE PublishInv'
    BY <2>1, <2>5, ExecuteStepPublishes DEF PublishInv
  <2>6. ASSUME NEW w \in Workers, Crash(w) \/ Restart(w) PROVE PublishInv'
    <3>1. pc'[w] \notin BlocksHeld
      BY <2>6 DEF Crash, Restart, Goto, TypeInv, TypeOK,
         BlocksHeld, BlocksStored, ChunksHeld, ChunksStored
    <3> QED
      BY <2>1, <3>1, NothingHeld
  <2>7. CASE UNCHANGED vars
    BY <2>7, OtherStepPublishes DEF vars
  <2> QED
    BY <2>2, <2>3, <2>4, <2>5, <2>6, <2>7 DEF Next, TimeStep, WorkerStep
<1> QED
  BY <1>0, <1>1, <1>2, TypeInvariant, PTL DEF Spec

\* Only the last statement of an attempt makes a job done.
LEMMA OnlyFinishMakesDone ==
    ASSUME TypeInv, [Next]_vars, NEW i \in Jobs,
           state[i] # "done", state'[i] = "done"
    PROVE  \E w \in Workers : Finish(w) /\ job[w] = i
<1>0. RowType
  BY TypeInvParts
<1>1. state' # state
  OBVIOUS
<1>2. ASSUME NEW j, NEW n, EndFailedAttempt(j, n) \/ ClaimRow(j) PROVE FALSE
  BY <1>0, <1>2 DEF EndFailedAttempt, DeadLetter, Retry, SetUnclaimed, ClaimRow, RowType
<1>3. ~\E j \in Jobs : Submit(j) \/ LeaseRunsOut(j) \/ DelayRunsOut(j)
  BY <1>0 DEF Submit, LeaseRunsOut, DelayRunsOut, RowType
<1>4. ~\E c \in Cancellers : CancelWrite(c) \/ \E j \in Jobs : CancelRead(c, j)
  BY <1>0 DEF CancelWrite, CancelRead, row, RowType
<1>5. ASSUME NEW w \in Workers, ClaimStep(w) \/ Crash(w) \/ Restart(w) PROVE FALSE
  <2>1. CASE \/ Sweep(w) \/ RecoveryDone(w) \/ ListPending(w) \/ NothingToClaim(w) \/ CheckLimit(w)
             \/ Crash(w) \/ Restart(w)
    BY <1>1, <2>1 DEF Sweep, RecoveryDone, ListPending, NothingToClaim, CheckLimit, Crash, Restart, row
  <2>2. CASE \E j \in Jobs, t \in 1..MaxClaims : Recover(w, j, t)
    BY <1>1, <1>2, <2>2 DEF Recover, row
  <2>3. CASE \E j \in Jobs : ClaimNext(w, j)
    BY <1>1, <1>2, <2>3 DEF ClaimNext, row
  <2>4. CASE Release(w)
    BY <1>0, <1>1, <2>4 DEF Release, SetUnclaimed, row, RowType
  <2> QED
    BY <1>5, <2>1, <2>2, <2>3, <2>4 DEF ClaimStep
<1>6. ASSUME NEW w \in Workers, ExecuteStep(w) PROVE Finish(w) /\ job[w] = i
  <2>1. CASE Finish(w)
    BY <1>0, <2>1 DEF Finish, SetUnclaimed, RowType
  <2>2. CASE Reclaim(w)
    BY <1>2, <2>2 DEF Reclaim
  <2>3. CASE ExecuteRaises(w)
    BY <1>1, <1>2, <2>3 DEF ExecuteRaises, row
  <2>4. CASE \/ Advance(w, "toStructuring", "structuring", "chunk")
             \/ Advance(w, "toEmbedding", "embedding", "checkChunks")
    BY <1>0, <2>4 DEF Advance, RowType
  <2>5. CASE \/ Refuse(w) \/ Start(w) \/ ReclaimRefused(w) \/ SaveViews(w) \/ StaleClaim(w)
             \/ Parse(w) \/ Chunk(w) \/ SaveBlocks(w) \/ SaveChunks(w) \/ Upsert(w)
             \/ EnsureActiveClaim(w, "checkBlocks", "saveBlocks")
             \/ EnsureActiveClaim(w, "checkChunks", "saveChunks")
             \/ EnsureActiveClaim(w, "checkIndex", "upsert")
    BY <1>1, <2>5 DEF Refuse, Start, ReclaimRefused, SaveViews, StaleClaim, Parse, Chunk,
       SaveBlocks, SaveChunks, Upsert, EnsureActiveClaim, row
  <2> QED
    BY <1>6, <2>1, <2>2, <2>3, <2>4, <2>5 DEF ExecuteStep
<1>7. state' = state \/ Next
  BY DEF vars, row
<1> QED
  BY <1>1, <1>3, <1>4, <1>5, <1>6, <1>7 DEF Next, TimeStep, WorkerStep

\* With one worker and no rerun of the embeddings, a job that becomes done leaves
\* blocks, chunks and index of its document from one parse: however often leases ran
\* out, attempts failed between two writes, or the process died before.
THEOREM LoneWorkerPublishesTogether ==
    ASSUME LoneWorker, NoEmbeddingRerun
    PROVE  Spec => PublishedTogether
<1> USE JobsAssumption, DocsAssumption, ModeAssumption, BoundsAssumption DEF Assumptions
<1>1. TypeInv /\ PublishInv /\ [Next]_vars => [PublishesTogether]_vars
  <2> SUFFICES ASSUME TypeInv, PublishInv, [Next]_vars, NEW j \in Jobs,
                      state[j] # "done", state'[j] = "done"
               PROVE  /\ blocks[DocOf[j]] # NoOrigin
                      /\ chunks[DocOf[j]] = blocks[DocOf[j]] /\ index[DocOf[j]] = blocks[DocOf[j]]
    BY DEF PublishesTogether
  <2>1. PICK w \in Workers : Finish(w) /\ job[w] = j
    BY OnlyFinishMakesDone
  <2>2. pc[w] = "finish" /\ Publishes(w)
    BY <2>1 DEF Finish, Goto, PublishInv
  <2> QED
    BY <2>1, <2>2 DEF Publishes, BlocksHeld, BlocksStored, ChunksHeld, ChunksStored
<1> QED
  BY <1>1, PublishInvariant, TypeInvariant, PTL DEF Spec, PublishedTogether

-----------------------------------------------------------------------------
(* Where no claim times out, any number of workers keep a document whole:  *)
(* a job has one worker until it ends.  (With timeouts they do not: a late *)
(* worker may write once more, and DoneIsCoherent fails.)                  *)

OneParseEach ==
    /\ \A j \in Jobs : Mode[j] = "parse"
    /\ \A i, j \in Jobs : DocOf[i] = DocOf[j] => i = j

\* No lease runs out, so that no recovery has anything to do.
QuietInv == /\ \A j \in Jobs : ~expired[j]
            /\ \A w \in Workers : todo[w] = {}

\* What a worker is busy with is neither absent nor waiting, and done only when
\* nothing is left but the views; no other worker is busy with it.
Busy(w) == pc[w] \in Claimed \cup {"reclaim"}
Owns(w) ==
    Busy(w) => /\ pc[w] # "reclaim"
               /\ state[job[w]] \notin {"absent", "pending"}
               /\ state[job[w]] = "done" => pc[w] = "saveViews"
SoleInv == /\ \A w \in Workers : Owns(w)
           /\ \A v, w \in Workers : Busy(v) /\ Busy(w) /\ job[v] = job[w] => v = w

\* The steps of one worker.
StepOf(w) == ClaimStep(w) \/ ExecuteStep(w) \/ Crash(w) \/ Restart(w)
LocalsOf(w) == <<pc[w], job[w], tok[w], att[w], todo[w], cand[w], held[w]>>

\* A step of a worker moves no other one.
LEMMA OthersStay ==
    ASSUME TypeInv, NEW w \in Workers, NEW v \in Workers \ {w}, StepOf(w)
    PROVE  LocalsOf(v)' = LocalsOf(v)
<1>0. /\ pc \in [Workers -> Control] /\ job \in [Workers -> Jobs \cup {NoJob}]
      /\ tok \in [Workers -> Nat] /\ att \in [Workers -> Nat]
      /\ todo \in [Workers -> SUBSET (Jobs \X Nat)] /\ cand \in [Workers -> SUBSET Jobs]
      /\ held \in [Workers -> [blocks : Origins, chunks : Origins]]
  BY DEF TypeInv, TypeOK
<1>1. CASE ClaimStep(w)
  <2>1. CASE Sweep(w) \/ RecoveryDone(w) \/ ListPending(w) \/ NothingToClaim(w) \/ CheckLimit(w)
    BY <1>0, <2>1 DEF Sweep, RecoveryDone, ListPending, NothingToClaim, CheckLimit, Goto, Forget,
       LocalsOf, locals
  <2>2. CASE \E j \in Jobs, t \in 1..MaxClaims : Recover(w, j, t)
    BY <1>0, <2>2 DEF Recover, LocalsOf
  <2>3. CASE \E j \in Jobs : ClaimNext(w, j)
    BY <1>0, <2>3 DEF ClaimNext, LocalsOf
  <2>4. CASE Release(w)
    <3>1. CASE token[job[w]] = tok[w]
      BY <1>0, <2>4, <3>1 DEF Release, Goto, LocalsOf
    <3>2. CASE token[job[w]] # tok[w]
      BY <1>0, <2>4, <3>2 DEF Release, Goto, Forget, LocalsOf
    <3> QED
      BY <3>1, <3>2
  <2> QED
    BY <1>1, <2>1, <2>2, <2>3, <2>4 DEF ClaimStep
<1>2. CASE ExecuteStep(w)
  <2>1. CASE Refuse(w) \/ Start(w) \/ Reclaim(w) \/ ReclaimRefused(w) \/ Parse(w) \/ Chunk(w)
    BY <1>0, <2>1 DEF Refuse, Start, Reclaim, ReclaimRefused, Parse, Chunk, Goto, Forget, LocalsOf
  <2>2. CASE \/ SaveBlocks(w) \/ SaveChunks(w) \/ Upsert(w) \/ Finish(w)
             \/ EnsureActiveClaim(w, "checkBlocks", "saveBlocks")
             \/ EnsureActiveClaim(w, "checkChunks", "saveChunks")
             \/ EnsureActiveClaim(w, "checkIndex", "upsert")
             \/ Advance(w, "toStructuring", "structuring", "chunk")
             \/ Advance(w, "toEmbedding", "embedding", "checkChunks")
    BY <1>0, <2>2 DEF SaveBlocks, SaveChunks, Upsert, Finish, EnsureActiveClaim, Advance, Goto,
       LocalsOf, locals
  <2>3. CASE SaveViews(w) \/ StaleClaim(w) \/ ExecuteRaises(w)
    BY <1>0, <2>3 DEF SaveViews, StaleClaim, ExecuteRaises, Goto, Forget, LocalsOf
  <2> QED
    BY <1>2, <2>1, <2>2, <2>3 DEF ExecuteStep
<1>3. CASE Crash(w) \/ Restart(w)
  BY <1>0, <1>3 DEF Crash, Restart, Goto, Forget, LocalsOf, locals
<1> QED
  BY <1>1, <1>2, <1>3 DEF StepOf

\* A worker moves by its own steps only.
LEMMA OwnStepsOnly ==
    ASSUME TypeInv, [Next]_vars, NEW v \in Workers, ~StepOf(v)
    PROVE  LocalsOf(v)' = LocalsOf(v)
<1>1. CASE UNCHANGED <<pc, locals>>
  BY <1>1 DEF LocalsOf, locals
<1>2. CASE \E j \in Jobs : Submit(j) \/ LeaseRunsOut(j) \/ DelayRunsOut(j)
  BY <1>1, <1>2 DEF Submit, LeaseRunsOut, DelayRunsOut
<1>3. CASE \E c \in Cancellers : CancelWrite(c) \/ \E j \in Jobs : CancelRead(c, j)
  BY <1>1, <1>3 DEF CancelWrite, CancelRead
<1>4. CASE UNCHANGED vars
  BY <1>1, <1>4 DEF vars
<1>5. ASSUME NEW w \in Workers, StepOf(w) PROVE LocalsOf(v)' = LocalsOf(v)
  BY <1>5, OthersStay
<1> QED
  BY <1>2, <1>3, <1>4, <1>5 DEF Next, TimeStep, WorkerStep, StepOf

\* Without timeouts nothing is ever recovered.
LEMMA QuietInvariant ==
    ASSUME ~Timeouts
    PROVE  Spec => []QuietInv
<1> USE JobsAssumption, DocsAssumption, ModeAssumption, BoundsAssumption DEF Assumptions
<1>0. [](~Timeouts)
  BY PTL
<1>1. Init => QuietInv
  BY DEF Init, QuietInv
<1>2. ~Timeouts /\ TypeInv /\ ClaimInv /\ QuietInv /\ [Next]_vars => QuietInv'
  <2> SUFFICES ASSUME ~Timeouts, TypeInv, ClaimInv, QuietInv, [Next]_vars PROVE QuietInv'
    OBVIOUS
  <2>0. RowType /\ todo \in [Workers -> SUBSET (Jobs \X Nat)]
    BY TypeInvParts DEF LocalType
  <2>1. ASSUME NEW i \in Jobs PROVE ~expired'[i]
    <3>1. CASE UNCHANGED row
      BY <3>1 DEF row, QuietInv
    <3>2. ASSUME NEW j \in Jobs, RowOperation(j) PROVE ~expired'[i]
      <4>1. expired' = expired \/ expired' = [expired EXCEPT ![j] = FALSE]
        BY <3>2 DEF RowOperation, Submit, LeaseRunsOut, DelayRunsOut, ClaimRow, EndFailedAttempt,
           DeadLetter, Retry, SetUnclaimed, Cancels, CancelWrite
      <4> QED
        BY <2>0, <4>1 DEF RowType, QuietInv
    <3> QED
      BY <3>1, <3>2, OneRowMoves
  <2>2. ASSUME NEW w \in Workers PROVE todo'[w] = {}
    <3>1. CASE ~StepOf(w)
      BY <3>1, OwnStepsOnly DEF LocalsOf, QuietInv
    <3>2. CASE Sweep(w)
      BY <2>0, <3>2 DEF Sweep, QuietInv
    <3>3. CASE StepOf(w) /\ ~Sweep(w)
      <4>1. todo' = todo \/ todo'[w] = {}
        <5>1. CASE \/ RecoveryDone(w) \/ ListPending(w) \/ NothingToClaim(w) \/ CheckLimit(w) \/ Release(w)
                   \/ Crash(w) \/ Restart(w)
          BY <2>0, <5>1 DEF RecoveryDone, ListPending, NothingToClaim, CheckLimit, Release, Crash, Restart,
             Forget, locals
        <5>2. CASE \E j \in Jobs, t \in 1..MaxClaims : Recover(w, j, t)
          BY <5>2 DEF Recover, QuietInv
        <5>3. CASE \E j \in Jobs : ClaimNext(w, j)
          BY <5>3 DEF ClaimNext
        <5>4. CASE ExecuteStep(w)
          BY <2>0, <5>4 DEF ExecuteStep, Refuse, Start, Reclaim, ReclaimRefused, Parse, Chunk, SaveBlocks,
             SaveChunks, Upsert, EnsureActiveClaim, Advance, Finish, SaveViews, StaleClaim,
             ExecuteRaises, Forget, locals
        <5> QED
          BY <3>3, <5>1, <5>2, <5>3, <5>4 DEF StepOf, ClaimStep
      <4> QED
        BY <4>1 DEF QuietInv
    <3> QED
      BY <3>1, <3>2, <3>3
  <2> QED
    BY <2>1, <2>2 DEF QuietInv
<1> QED
  BY <1>0, <1>1, <1>2, TypeInvariant, ClaimInvariant, PTL DEF Spec

\* A worker that changes no row but that of its own job, or of a pending one that
\* it takes.
LEMMA SoleMove ==
    ASSUME TypeInv, SoleInv, NEW w \in Workers, NEW j \in Jobs, StepOf(w),
           \A i \in Jobs \ {j} : state'[i] = state[i],
           (Busy(w) /\ job[w] = j) \/ state[j] = "pending",
           Busy(w)' => job'[w] = j, Owns(w)'
    PROVE  SoleInv'
<1>0. \A v \in Workers : Busy(v) => job[v] \in Jobs
  BY DEF Busy, TypeInv, BusyWorkerHasJob
<1>1. ASSUME NEW v \in Workers \ {w}
      PROVE  /\ Owns(v)' /\ job'[v] = job[v]
             /\ Busy(v)' <=> Busy(v)
             /\ Busy(v) => job[v] # j
  <2>1. pc'[v] = pc[v] /\ job'[v] = job[v]
    BY OthersStay DEF LocalsOf
  <2>2. Busy(v) => job[v] # j
    BY DEF SoleInv, Owns
  <2>3. Busy(v) => state'[job[v]] = state[job[v]]
    BY <1>0, <2>2
  <2>4. Busy(v)' <=> Busy(v)
    BY <2>1 DEF Busy
  <2>5. Owns(v)
    BY DEF SoleInv
  <2> QED
    BY <2>1, <2>2, <2>3, <2>4, <2>5 DEF Owns, Busy
<1>2. ASSUME NEW u \in Workers, NEW v \in Workers, Busy(u)', Busy(v)', job'[u] = job'[v]
      PROVE  u = v
  <2>1. CASE u # w /\ v # w
    BY <1>1, <1>2, <2>1 DEF SoleInv
  <2>2. CASE u = w \/ v = w
    BY <1>1, <1>2, <2>2
  <2> QED
    BY <2>1, <2>2
<1>3. \A v \in Workers : Owns(v)'
  BY <1>1
<1> QED
  BY <1>2, <1>3 DEF SoleInv

\* A step that leaves the states of the rows alone and does not take up a job.
LEMMA SoleStay ==
    ASSUME TypeInv, SoleInv, NEW w \in Workers, StepOf(w), state' = state,
           Busy(w)' => Busy(w) /\ job'[w] = job[w] /\ pc'[w] # "reclaim"
                         /\ (pc[w] = "saveViews" => pc'[w] = "saveViews")
    PROVE  SoleInv'
<1>1. ASSUME NEW v \in Workers
      PROVE  Busy(v)' => Busy(v) /\ job'[v] = job[v] /\ Owns(v)'
  <2>1. CASE v # w
    <3>1. pc'[v] = pc[v] /\ job'[v] = job[v] /\ Owns(v)
      BY <2>1, OthersStay DEF LocalsOf, SoleInv
    <3> QED
      BY <3>1 DEF Busy, Owns
  <2>2. CASE v = w
    <3>1. Owns(w)
      BY DEF SoleInv
    <3> QED
      BY <2>2, <3>1 DEF Busy, Owns
  <2> QED
    BY <2>1, <2>2
<1>2. \A v \in Workers : Owns(v)'
  BY <1>1 DEF Owns, Busy
<1>3. \A u, v \in Workers : Busy(u)' /\ Busy(v)' /\ job'[u] = job'[v] => u = v
  BY <1>1 DEF SoleInv
<1> QED
  BY <1>2, <1>3 DEF SoleInv

\* Every step keeps a job with one worker.
LEMMA SoleStep ==
    ASSUME TypeInv, QuietInv, SoleInv, BoundsAssumption, [Next]_vars
    PROVE  SoleInv'
<1>0. /\ RowType /\ pc \in [Workers -> Control] /\ job \in [Workers -> Jobs \cup {NoJob}]
      /\ \A w \in Workers : Busy(w) => job[w] \in Jobs
  BY TypeInvParts DEF ControlType, LocalType, BusyWorkerHasJob, Busy
<1>1. ASSUME UNCHANGED <<pc, job>>,
             \A i \in Jobs : state'[i] = state[i] \/ state[i] = "absent" \/ state'[i] = "failed"
      PROVE  SoleInv'
  <2>1. ASSUME NEW w \in Workers PROVE Owns(w)'
    <3>1. Owns(w)
      BY DEF SoleInv
    <3> QED
      BY <1>0, <1>1, <3>1 DEF Owns, Busy
  <2>2. \A v, w \in Workers : Busy(v)' /\ Busy(w)' /\ job'[v] = job'[w] => v = w
    BY <1>1 DEF SoleInv, Busy
  <2> QED
    BY <2>1, <2>2 DEF SoleInv
<1>2. CASE \E j \in Jobs : Submit(j) \/ LeaseRunsOut(j) \/ DelayRunsOut(j)
  BY <1>0, <1>1, <1>2 DEF Submit, LeaseRunsOut, DelayRunsOut, RowType, locals
<1>3. CASE \E c \in Cancellers : CancelWrite(c) \/ \E j \in Jobs : CancelRead(c, j)
  BY <1>0, <1>1, <1>3 DEF CancelWrite, CancelRead, RowType, locals, row
<1>4. ASSUME NEW w \in Workers, ClaimStep(w) PROVE SoleInv'
  <2>0. StepOf(w)
    BY <1>4 DEF StepOf
  <2>1. CASE Sweep(w) \/ RecoveryDone(w) \/ ListPending(w) \/ NothingToClaim(w)
    <3>1. ~Busy(w)' /\ state' = state
      BY <1>0, <2>1 DEF Sweep, RecoveryDone, ListPending, NothingToClaim, Goto, row, Busy, Claimed, Working
    <3> QED
      BY <2>0, <3>1, SoleStay
  <2>2. CASE CheckLimit(w)
    <3>1. /\ state' = state /\ job'[w] = job[w] /\ pc[w] = "checkLimit"
          /\ pc'[w] \in {"release", "start"}
      BY <1>0, <2>2 DEF CheckLimit, Goto, row, locals
    <3>2. Busy(w)
      BY <3>1 DEF Busy, Claimed
    <3> QED
      BY <2>0, <3>1, <3>2, SoleStay
  <2>3. CASE \E j \in Jobs, t \in 1..MaxClaims : Recover(w, j, t)
    BY <2>3 DEF Recover, QuietInv
  <2>4. ASSUME NEW j \in Jobs, ClaimNext(w, j) PROVE SoleInv'
    <3>1. CASE Claimable(j)
      <4>1. state[j] = "pending" /\ \A i \in Jobs \ {j} : state'[i] = state[i]
        BY <1>0, <2>4, <3>1 DEF ClaimNext, Claimable, ClaimRow, RowType
      <4>2. job'[w] = j /\ pc'[w] = "checkLimit" /\ state'[j] = "parsing"
        BY <1>0, <2>4, <3>1 DEF ClaimNext, ClaimRow, RowType
      <4>3. Owns(w)'
        BY <4>2 DEF Owns
      <4> QED
        BY <2>0, <4>1, <4>2, <4>3, SoleMove
    <3>2. CASE ~Claimable(j)
      <4>1. state' = state /\ pc'[w] = "claim"
        BY <2>4, <3>2 DEF ClaimNext, row
      <4>2. ~Busy(w)'
        BY <4>1 DEF Busy, Claimed, Working
      <4> QED
        BY <2>0, <4>1, <4>2, SoleStay
    <3> QED
      BY <3>1, <3>2
  <2>5. CASE Release(w)
    <3>0. Busy(w) /\ pc'[w] \in {"claim", "down"}
      BY <1>0, <2>5 DEF Release, Goto, Busy, Claimed
    <3>1. ~Busy(w)'
      BY <3>0 DEF Busy, Claimed, Working
    <3>2. CASE token[job[w]] = tok[w]
      <4>1. \A i \in Jobs \ {job[w]} : state'[i] = state[i]
        BY <1>0, <2>5, <3>2 DEF Release, SetUnclaimed, RowType
      <4>2. Owns(w)'
        BY <3>1 DEF Owns
      <4> QED
        BY <1>0, <2>0, <3>0, <3>1, <4>1, <4>2, SoleMove
    <3>3. CASE token[job[w]] # tok[w]
      <4>1. state' = state
        BY <2>5, <3>3 DEF Release, row
      <4> QED
        BY <2>0, <3>1, <4>1, SoleStay
    <3> QED
      BY <3>2, <3>3
  <2> QED
    BY <1>4, <2>1, <2>2, <2>3, <2>4, <2>5 DEF ClaimStep
<1>5. ASSUME NEW w \in Workers, ExecuteStep(w) PROVE SoleInv'
  <2>0. StepOf(w) /\ Owns(w)
    BY <1>5 DEF StepOf, SoleInv
  <2>1. CASE Refuse(w) \/ ReclaimRefused(w) \/ SaveViews(w) \/ StaleClaim(w)
    <3>1. pc'[w] = "idle" /\ state' = state
      BY <1>0, <2>1 DEF Refuse, ReclaimRefused, SaveViews, StaleClaim, Goto, row
    <3>2. ~Busy(w)'
      BY <3>1 DEF Busy, Claimed, Working
    <3> QED
      BY <2>0, <3>1, <3>2, SoleStay
  <2>2. CASE Start(w)
    <3>1. pc[w] = "start" /\ state' = state /\ job'[w] = job[w]
      BY <2>2 DEF Start, Goto, row
    <3>2. Busy(w) /\ state[job[w]] # "pending"
      BY <2>0, <3>1 DEF Busy, Claimed, Owns
    <3>3. pc'[w] = "parse"
      BY <1>0, <2>2, <3>2 DEF Start, Goto
    <3> QED
      BY <2>0, <3>1, <3>2, <3>3, SoleStay
  <2>3. CASE Reclaim(w)
    BY <2>0, <2>3 DEF Reclaim, Goto, Owns, Busy
  <2>4. CASE \/ Parse(w) \/ Chunk(w) \/ SaveBlocks(w) \/ SaveChunks(w) \/ Upsert(w)
             \/ EnsureActiveClaim(w, "checkBlocks", "saveBlocks")
             \/ EnsureActiveClaim(w, "checkChunks", "saveChunks")
             \/ EnsureActiveClaim(w, "checkIndex", "upsert")
    <3>1. /\ pc[w] \in Working \ {"saveViews"} /\ pc'[w] \in Working
          /\ state' = state /\ job'[w] = job[w]
      BY <1>0, <2>4 DEF Parse, Chunk, SaveBlocks, SaveChunks, Upsert, EnsureActiveClaim, Goto,
         row, locals, Working
    <3>2. Busy(w) /\ pc'[w] # "reclaim"
      BY <3>1 DEF Busy, Claimed, Working
    <3> QED
      BY <2>0, <3>1, <3>2, SoleStay
  <2>5. CASE \/ Advance(w, "toStructuring", "structuring", "chunk")
             \/ Advance(w, "toEmbedding", "embedding", "checkChunks")
             \/ Finish(w)
    <3>1. pc[w] \in Working /\ pc'[w] \in {"chunk", "checkChunks", "saveViews"} /\ job'[w] = job[w]
      BY <1>0, <2>5 DEF Advance, Finish, Goto, locals, Working
    <3>2. Busy(w) /\ job[w] \in Jobs
      BY <1>0, <3>1 DEF Busy, Claimed
    <3>3. /\ \A i \in Jobs \ {job[w]} : state'[i] = state[i]
          /\ \/ state'[job[w]] \in {"structuring", "embedding"}
             \/ state'[job[w]] = "done" /\ pc'[w] = "saveViews"
      BY <1>0, <2>5, <3>2 DEF Advance, Finish, Goto, SetUnclaimed, RowType
    <3>4. Owns(w)'
      BY <3>1, <3>3 DEF Owns
    <3> QED
      BY <2>0, <3>1, <3>2, <3>3, <3>4, SoleMove
  <2>6. CASE ExecuteRaises(w)
    <3>1. pc[w] \in Working /\ pc'[w] = "idle"
      BY <1>0, <2>6 DEF ExecuteRaises
    <3>2. Busy(w) /\ job[w] \in Jobs /\ ~Busy(w)'
      BY <1>0, <3>1 DEF Busy, Claimed, Working
    <3>3. \A i \in Jobs \ {job[w]} : state'[i] = state[i]
      BY <1>0, <2>6 DEF ExecuteRaises, EndFailedAttempt, DeadLetter, Retry, SetUnclaimed, RowType, row
    <3>4. Owns(w)'
      BY <3>2 DEF Owns
    <3> QED
      BY <2>0, <3>2, <3>3, <3>4, SoleMove
  <2> QED
    BY <1>5, <2>1, <2>2, <2>3, <2>4, <2>5, <2>6 DEF ExecuteStep
<1>6. ASSUME NEW w \in Workers, Crash(w) \/ Restart(w) PROVE SoleInv'
  <2>1. state' = state /\ pc'[w] \in {"down", "idle"}
    BY <1>0, <1>6 DEF Crash, Restart, Goto, row
  <2>2. ~Busy(w)' /\ StepOf(w)
    BY <1>6, <2>1 DEF Busy, Claimed, Working, StepOf
  <2> QED
    BY <2>1, <2>2, SoleStay
<1>7. CASE UNCHANGED vars
  BY <1>1, <1>7 DEF vars, row, locals
<1> QED
  BY <1>2, <1>3, <1>4, <1>5, <1>6, <1>7 DEF Next, TimeStep, WorkerStep

\* A job has one worker.
LEMMA SoleInvariant ==
    ASSUME ~Timeouts
    PROVE  Spec => []SoleInv
<1> USE BoundsAssumption
<1>1. Init => SoleInv
  BY DEF Init, SoleInv, Owns, Busy, Claimed, Working
<1>2. TypeInv /\ QuietInv /\ SoleInv /\ [Next]_vars => SoleInv'
  BY SoleStep
<1> QED
  BY <1>1, <1>2, TypeInvariant, QuietInvariant, PTL DEF Spec

\* The blocks, chunks and index of a document are what the last worker on it made
\* of its own parse.
CoherentInv ==
    /\ \A w \in Workers : Publishes(w)
    /\ \A w \in Workers : pc[w] \in BlocksHeld => held[w].blocks = <<job[w], att[w]>>
    /\ DoneIsCoherent

\* Only its three writing statements change what is published of a document.
LEMMA OnlyWritersWrite ==
    ASSUME TypeInv, [Next]_vars, NEW d \in Docs
    PROVE  \/ blocks'[d] = blocks[d] /\ chunks'[d] = chunks[d] /\ index'[d] = index[d]
           \/ \E w \in Workers : (SaveBlocks(w) \/ SaveChunks(w) \/ Upsert(w)) /\ DocOf[job[w]] = d
<1>0. /\ blocks \in [Docs -> Origins] /\ chunks \in [Docs -> Origins] /\ index \in [Docs -> Origins]
  BY DEF TypeInv, TypeOK
<1>1. ASSUME NEW w \in Workers, ExecuteStep(w)
      PROVE  \/ UNCHANGED <<blocks, chunks, index>>
             \/ SaveBlocks(w) \/ SaveChunks(w) \/ Upsert(w)
  BY <1>1 DEF ExecuteStep, Refuse, Start, Reclaim, ReclaimRefused, Parse, EnsureActiveClaim, Advance,
     Chunk, Finish, SaveViews, StaleClaim, ExecuteRaises, artifacts
<1>2. ASSUME NEW w \in Workers, ClaimStep(w)
      PROVE  UNCHANGED <<blocks, chunks, index>>
  BY <1>2 DEF ClaimStep, Sweep, Recover, RecoveryDone, ListPending, ClaimNext, NothingToClaim,
     CheckLimit, Release, artifacts
<1>3. ASSUME NEW w \in Workers, SaveBlocks(w) \/ SaveChunks(w) \/ Upsert(w), DocOf[job[w]] # d
      PROVE  blocks'[d] = blocks[d] /\ chunks'[d] = chunks[d] /\ index'[d] = index[d]
  BY <1>0, <1>3 DEF SaveBlocks, SaveChunks, Upsert
<1>4. ASSUME NEW w \in Workers, Crash(w) \/ Restart(w)
      PROVE  UNCHANGED <<blocks, chunks, index>>
  BY <1>4 DEF Crash, Restart, artifacts
<1>5. ASSUME \/ \E j \in Jobs : Submit(j) \/ LeaseRunsOut(j) \/ DelayRunsOut(j)
             \/ \E c \in Cancellers : CancelWrite(c) \/ \E j \in Jobs : CancelRead(c, j)
             \/ UNCHANGED vars
      PROVE  UNCHANGED <<blocks, chunks, index>>
  BY <1>5 DEF Submit, LeaseRunsOut, DelayRunsOut, CancelWrite, CancelRead, artifacts, vars
<1> QED
  BY <1>1, <1>2, <1>3, <1>4, <1>5 DEF Next, TimeStep, WorkerStep

\* What a worker holds stays its own parse, whatever the other workers write.
LEMMA CoherentWorker ==
    ASSUME TypeInv, SoleInv, CoherentInv, Assumptions, OneParseEach, [Next]_vars, NEW w \in Workers
    PROVE  Publishes(w)' /\ (pc'[w] \in BlocksHeld => held'[w].blocks = <<job'[w], att'[w]>>)
<1>0. /\ pc \in [Workers -> Control] /\ job \in [Workers -> Jobs \cup {NoJob}]
      /\ att \in [Workers -> Nat] /\ held \in [Workers -> [blocks : Origins, chunks : Origins]]
      /\ NoEmbeddingRerun
  BY DEF TypeInv, TypeOK, OneParseEach, NoEmbeddingRerun
<1>1. CASE ExecuteStep(w)
  <2>1. Publishes(w)'
    BY <1>0, <1>1, ExecuteStepPublishes DEF CoherentInv
  <2>2. CASE Parse(w)
    <3>1. job[w] \in Jobs
      BY <2>2 DEF Parse, TypeInv, BusyWorkerHasJob, Claimed, Working
    <3>2. held'[w].blocks = <<job[w], att[w]>> /\ UNCHANGED <<job, att>>
      BY <1>0, <2>2, <3>1 DEF Parse, OneParseEach
    <3> QED
      BY <2>1, <3>2
  <2>3. CASE \/ Chunk(w) \/ SaveBlocks(w) \/ SaveChunks(w) \/ Upsert(w)
             \/ EnsureActiveClaim(w, "checkBlocks", "saveBlocks")
             \/ EnsureActiveClaim(w, "checkChunks", "saveChunks")
             \/ EnsureActiveClaim(w, "checkIndex", "upsert")
             \/ Advance(w, "toStructuring", "structuring", "chunk")
             \/ Advance(w, "toEmbedding", "embedding", "checkChunks")
    <3>1. pc[w] \in BlocksHeld
      BY <2>3 DEF Chunk, SaveBlocks, SaveChunks, Upsert, EnsureActiveClaim, Advance, Goto,
         BlocksHeld, BlocksStored, ChunksHeld, ChunksStored
    <3>2. held'[w].blocks = held[w].blocks /\ UNCHANGED <<job, att>>
      BY <1>0, <2>3 DEF Chunk, SaveBlocks, SaveChunks, Upsert, EnsureActiveClaim, Advance, locals
    <3> QED
      BY <2>1, <3>1, <3>2 DEF CoherentInv
  <2>4. CASE \/ Refuse(w) \/ Start(w) \/ Reclaim(w) \/ ReclaimRefused(w) \/ SaveViews(w)
             \/ StaleClaim(w) \/ ExecuteRaises(w) \/ Finish(w)
    <3>1. pc'[w] \notin BlocksHeld
      BY <1>0, <2>4 DEF Refuse, Start, Reclaim, ReclaimRefused, SaveViews, StaleClaim, ExecuteRaises,
         Finish, Goto, BlocksHeld, BlocksStored, ChunksHeld, ChunksStored
    <3> QED
      BY <2>1, <3>1
  <2> QED
    BY <1>1, <2>2, <2>3, <2>4 DEF ExecuteStep
<1>2. CASE ClaimStep(w) \/ Crash(w) \/ Restart(w)
  <2>1. pc'[w] \notin BlocksHeld
    <3>1. CASE Sweep(w) \/ RecoveryDone(w) \/ ListPending(w) \/ NothingToClaim(w) \/ CheckLimit(w)
               \/ Crash(w) \/ Restart(w)
      BY <1>0, <3>1 DEF Sweep, RecoveryDone, ListPending, NothingToClaim, CheckLimit, Crash, Restart,
         Goto, BlocksHeld, BlocksStored, ChunksHeld, ChunksStored
    <3>2. CASE \E j \in Jobs, t \in 1..MaxClaims : Recover(w, j, t)
      BY <1>0, <3>2 DEF Recover, BlocksHeld, BlocksStored, ChunksHeld, ChunksStored
    <3>3. CASE \E j \in Jobs : ClaimNext(w, j)
      BY <1>0, <3>3 DEF ClaimNext, BlocksHeld, BlocksStored, ChunksHeld, ChunksStored
    <3>4. CASE Release(w)
      BY <1>0, <3>4 DEF Release, Goto, BlocksHeld, BlocksStored, ChunksHeld, ChunksStored
    <3> QED
      BY <1>2, <3>1, <3>2, <3>3, <3>4 DEF ClaimStep
  <2> QED
    BY <2>1, NothingHeld
<1>3. CASE ~StepOf(w)
  <2>1. pc'[w] = pc[w] /\ job'[w] = job[w] /\ att'[w] = att[w] /\ held'[w] = held[w]
    BY <1>3, OwnStepsOnly DEF LocalsOf
  <2>2. CASE pc[w] \notin BlocksHeld
    BY <2>1, <2>2, NothingHeld
  <2>3. CASE pc[w] \in BlocksHeld
    <3>1. Busy(w) /\ job[w] \in Jobs /\ DocOf[job[w]] \in Docs
      BY <2>3 DEF BlocksHeld, BlocksStored, ChunksHeld, ChunksStored, Busy, Claimed, Working,
         TypeInv, BusyWorkerHasJob, Assumptions, DocsAssumption
    <3>2. ASSUME NEW v \in Workers, SaveBlocks(v) \/ SaveChunks(v) \/ Upsert(v),
                 DocOf[job[v]] = DocOf[job[w]]
          PROVE  FALSE
      <4>1. Busy(v) /\ job[v] \in Jobs /\ ExecuteStep(v)
        BY <3>2 DEF SaveBlocks, SaveChunks, Upsert, Goto, Busy, Claimed, Working,
           TypeInv, BusyWorkerHasJob, ExecuteStep
      <4>2. job[v] = job[w]
        BY <3>1, <3>2, <4>1 DEF OneParseEach
      <4>3. v = w
        BY <3>1, <4>1, <4>2 DEF SoleInv
      <4> QED
        BY <1>3, <4>1, <4>3 DEF StepOf
    <3>3. LET d == DocOf[job[w]] IN
          blocks'[d] = blocks[d] /\ chunks'[d] = chunks[d] /\ index'[d] = index[d]
      BY <3>1, <3>2, OnlyWritersWrite
    <3> QED
      BY <2>1, <3>3 DEF CoherentInv, Publishes
  <2> QED
    BY <2>2, <2>3
<1> QED
  BY <1>1, <1>2, <1>3 DEF StepOf

\* A job that is done, or becomes done, has what its last attempt has made.
LEMMA CoherentDone ==
    ASSUME TypeInv, ClaimInv, SoleInv, CoherentInv, Assumptions, OneParseEach, [Next]_vars,
           NEW j \in Jobs, state'[j] = "done"
    PROVE  LET d == DocOf[j] IN
           blocks'[d] = <<j, attempts'[j]>> /\ chunks'[d] = blocks'[d] /\ index'[d] = blocks'[d]
<1> DEFINE d == DocOf[j]
<1>0. d \in Docs /\ RowType
  BY TypeInvParts DEF Assumptions, DocsAssumption
<1>1. CASE state[j] = "done"
  <2>1. ~\E c \in Cancellers : Cancels(c, j)
    BY <1>0 DEF Cancels, CancelWrite, RowType
  <2>2. attempts'[j] = attempts[j]
    BY <1>1, <2>1, SettledRowMoves DEF Settled
  <2>3. ASSUME NEW w \in Workers, SaveBlocks(w) \/ SaveChunks(w) \/ Upsert(w), DocOf[job[w]] = d
        PROVE  FALSE
    <3>1. Busy(w) /\ job[w] \in Jobs /\ pc[w] # "saveViews"
      BY <2>3 DEF SaveBlocks, SaveChunks, Upsert, Goto, Busy, Claimed, Working,
         TypeInv, BusyWorkerHasJob
    <3>2. job[w] = j
      BY <2>3, <3>1 DEF OneParseEach
    <3> QED
      BY <1>1, <3>1, <3>2 DEF SoleInv, Owns
  <2>4. blocks'[d] = blocks[d] /\ chunks'[d] = chunks[d] /\ index'[d] = index[d]
    BY <1>0, <2>3, OnlyWritersWrite
  <2> QED
    BY <1>1, <2>2, <2>4 DEF CoherentInv, DoneIsCoherent
<1>2. CASE state[j] # "done"
  <2>1. PICK w \in Workers : Finish(w) /\ job[w] = j
    BY <1>2, OnlyFinishMakesDone
  <2>2. pc[w] = "finish" /\ HoldsClaim(w)
    BY <2>1 DEF Finish, Goto
  <2>3. att[w] = attempts[j]
    BY <2>1, <2>2, AttemptOfHolder DEF Working
  <2>4. UNCHANGED <<attempts, blocks, chunks, index>>
    BY <2>1 DEF Finish, SetUnclaimed, artifacts
  <2>5. blocks[d] = <<j, att[w]>> /\ chunks[d] = blocks[d] /\ index[d] = blocks[d]
    BY <2>1, <2>2 DEF CoherentInv, Publishes, BlocksHeld, BlocksStored, ChunksHeld, ChunksStored
  <2> QED
    BY <2>3, <2>4, <2>5
<1> QED
  BY <1>1, <1>2

\* Where no claim times out and every document is parsed by one job, what a job that
\* is done has published comes from the attempt that finished it: for any number of
\* workers, with retries, cancels, crashes and claims given back.  The run
\* queue_stale has timeouts, and there the same invariant fails.
THEOREM DoneIsWholeWithoutTimeouts ==
    ASSUME ~Timeouts, OneParseEach
    PROVE  Spec => []DoneIsCoherent
<1> USE JobsAssumption, DocsAssumption, ModeAssumption, BoundsAssumption DEF Assumptions
<1>0. []OneParseEach
  BY PTL
<1>1. Init => CoherentInv
  BY DEF Init, CoherentInv, DoneIsCoherent, Publishes, BlocksHeld, BlocksStored, ChunksHeld, ChunksStored
<1>2. OneParseEach /\ TypeInv /\ ClaimInv /\ SoleInv /\ CoherentInv /\ [Next]_vars => CoherentInv'
  BY CoherentWorker, CoherentDone DEF CoherentInv, DoneIsCoherent
<1>3. CoherentInv => DoneIsCoherent
  BY DEF CoherentInv
<1> QED
  BY <1>0, <1>1, <1>2, <1>3, TypeInvariant, ClaimInvariant, SoleInvariant, PTL DEF Spec

-----------------------------------------------------------------------------
(* JobQueue implements LeasedJobs, for any number of workers, cancellers,   *)
(* jobs and documents, and for every value of the limits.  The owner of a   *)
(* job is the worker whose claim is in its row; the lemmas show, for each   *)
(* store operation, what it does to the status and the owner of its job,    *)
(* and that it does nothing to those of the others.                         *)

\* A worker that is not past claim_next_job remembers no claim.
FreeInv == \A w \in Workers : pc[w] \notin Claimed \cup {"reclaim"} => tok[w] = 0

\* A canceller is about to write a row that exists.
CancelTargetInv == \A c \in Cancellers : cpc[c] = "write" => state[cjob[c]] # "absent"

\* Every step keeps that.
LEMMA FreeStep ==
    ASSUME TypeInv, ClaimInv, Assumptions, FreeInv, [Next]_vars
    PROVE  FreeInv'
<1>0. /\ pc \in [Workers -> Control] /\ tok \in [Workers -> Nat]
  BY DEF TypeInv, TypeOK
<1>1. ASSUME NEW w \in Workers, WorkerStep(w) \/ Crash(w) \/ Restart(w)
      PROVE  FreeInv'
  <2>1. \A v \in Workers \ {w} : pc'[v] \notin Claimed \cup {"reclaim"} => tok'[v] = 0
    BY <1>1, OthersUntouched DEF FreeInv
  <2>2. CASE tok' = [tok EXCEPT ![w] = 0]
    BY <1>0, <2>1, <2>2 DEF FreeInv
  <2>3. CASE pc'[w] \in Claimed \cup {"reclaim"}
    BY <2>1, <2>3 DEF FreeInv
  <2>4. CASE tok' = tok /\ pc[w] \notin Claimed \cup {"reclaim"}
    BY <2>1, <2>4 DEF FreeInv
  <2>5. CASE ClaimStep(w)
    BY <1>0, <2>2, <2>3, <2>4, <2>5 DEF ClaimStep, Sweep, Recover, RecoveryDone, ListPending,
       ClaimNext, NothingToClaim, CheckLimit, Release, Forget, Goto, locals, Claimed, Working
  <2>6. CASE ExecuteStep(w)
    BY <1>0, <2>2, <2>3, <2>6 DEF ExecuteStep, Refuse, Start, Reclaim, ReclaimRefused, Parse, Chunk,
       SaveBlocks, SaveChunks, Upsert, EnsureActiveClaim, Advance, Finish, SaveViews, StaleClaim,
       ExecuteRaises, Forget, Goto, locals, Claimed, Working
  <2>7. CASE Crash(w) \/ Restart(w)
    BY <1>0, <2>2, <2>4, <2>7 DEF Crash, Restart, Forget, Goto, locals, Claimed, Working
  <2> QED
    BY <1>1, <2>5, <2>6, <2>7 DEF WorkerStep
<1>2. CASE ~\E w \in Workers : WorkerStep(w) \/ Crash(w) \/ Restart(w)
  <2>1. UNCHANGED <<pc, tok>>
    BY <1>2 DEF Next, TimeStep, Submit, LeaseRunsOut, DelayRunsOut, CancelWrite, CancelRead, vars, locals
  <2> QED
    BY <2>1 DEF FreeInv
<1> QED
  BY <1>1, <1>2

\* No row is ever deleted.
LEMMA RowsStay ==
    ASSUME TypeInv, ClaimInv, Assumptions, [Next]_vars, NEW i \in Jobs, state[i] # "absent"
    PROVE  state'[i] # "absent"
<1>0. RowType
  BY TypeInvParts
<1>1. CASE UNCHANGED row
  BY <1>1 DEF row
<1>2. ASSUME NEW j \in Jobs, RowOperation(j) PROVE state'[i] # "absent"
  BY <1>0, <1>2 DEF RowOperation, Submit, LeaseRunsOut, DelayRunsOut, ClaimRow, EndFailedAttempt,
     DeadLetter, Retry, SetUnclaimed, Cancels, CancelWrite, RowType, Active
<1> QED
  BY <1>1, <1>2, OneRowMoves

\* Every step keeps the row of a pending cancel.
LEMMA CancelTargetStep ==
    ASSUME TypeInv, ClaimInv, Assumptions, CancelTargetInv, [Next]_vars
    PROVE  CancelTargetInv'
<1> SUFFICES ASSUME NEW c \in Cancellers, cpc'[c] = "write"
             PROVE  state'[cjob'[c]] # "absent"
  BY DEF CancelTargetInv
<1>0. /\ cpc \in [Cancellers -> {"idle", "write", "over"}]
      /\ cjob \in [Cancellers -> Jobs \cup {NoJob}]
      /\ cpc[c] = "write" => cjob[c] \in Jobs
  BY DEF TypeInv, TypeOK, BusyCancellerHasJob
<1>1. CASE cpc'[c] = cpc[c] /\ cjob'[c] = cjob[c]
  BY <1>0, <1>1, RowsStay DEF CancelTargetInv
<1>2. ASSUME NEW d \in Cancellers, CancelWrite(d) \/ \E j \in Jobs : CancelRead(d, j)
      PROVE  state'[cjob'[c]] # "absent"
  <2>1. CASE CancelWrite(d)
    <3>1. d # c
      BY <1>0, <2>1 DEF CancelWrite
    <3> QED
      BY <1>0, <1>1, <2>1, <3>1 DEF CancelWrite
  <2>2. ASSUME NEW j \in Jobs, CancelRead(d, j)
        PROVE  state'[cjob'[c]] # "absent"
    <3>1. CASE d = c
      BY <1>0, <2>2, <3>1 DEF CancelRead, row
    <3>2. CASE d # c
      BY <1>0, <1>1, <2>2, <3>2 DEF CancelRead
    <3> QED
      BY <3>1, <3>2
  <2> QED
    BY <1>2, <2>1, <2>2
<1>3. CASE ~\E d \in Cancellers : CancelWrite(d) \/ \E j \in Jobs : CancelRead(d, j)
  <2>1. UNCHANGED cancelVars
    BY <1>3 DEF Next, TimeStep, Submit, LeaseRunsOut, DelayRunsOut, WorkerStep, ClaimStep, Sweep, Recover,
       RecoveryDone, ListPending, ClaimNext, NothingToClaim, CheckLimit, Release, ExecuteStep, Refuse,
       Start, Reclaim, ReclaimRefused, Parse, Chunk, SaveBlocks, SaveChunks, Upsert, EnsureActiveClaim,
       Advance, Finish, SaveViews, StaleClaim, ExecuteRaises, Crash, Restart, vars
  <2> QED
    BY <1>1, <2>1 DEF cancelVars
<1> QED
  BY <1>2, <1>3

\* What the refinement rests on.
PromiseInv == TypeInv /\ ClaimInv /\ FreeInv /\ CancelTargetInv

\* It is an invariant of the queue.
LEMMA PromiseInvariant == Spec => []PromiseInv
<1> USE JobsAssumption, DocsAssumption, ModeAssumption, BoundsAssumption DEF Assumptions
<1>1. Init => FreeInv /\ CancelTargetInv
  BY DEF Init, FreeInv, CancelTargetInv
<1> QED
  BY <1>1, FreeStep, CancelTargetStep, TypeInvariant, ClaimInvariant, PTL DEF Spec, PromiseInv

-----------------------------------------------------------------------------
(* What a step does to the status and the owner of the jobs.               *)

\* The row of k says the same to the host, and keeps its claim.
SameRowOf(k) == state'[k] = state[k] /\ cancelled'[k] = cancelled[k] /\ token'[k] = token[k]

\* A worker has in hand what it had.
SameHands(v) == job'[v] = job[v] /\ tok'[v] = tok[v]

\* A job whose row and workers stay has the status and the owner it had.
LEMMA SameJob ==
    ASSUME NEW k \in Jobs, SameRowOf(k),
           \A v \in Workers : \/ SameHands(v)
                              \/ v \notin Holders(k) /\ v \notin Holders(k)'
    PROVE  StatusOf(k)' = StatusOf(k) /\ OwnerOf(k)' = OwnerOf(k)
<1>1. StatusOf(k)' = StatusOf(k)
  BY DEF SameRowOf, StatusOf
<1>2. Holders(k)' = Holders(k)
  BY DEF SameRowOf, SameHands, Holders, HoldsClaim
<1> QED
  BY <1>1, <1>2 DEF OwnerOf

\* A row without a claim has no owner.
LEMMA Unowned == ASSUME NEW j \in Jobs, token[j] = 0 PROVE Holders(j) = {} /\ OwnerOf(j) = NoJob
BY DEF OwnerOf, Holders, HoldsClaim

\* Nor has one whose claim was cleared.
LEMMA UnownedNext ==
    ASSUME NEW j \in Jobs, token'[j] = 0 PROVE Holders(j)' = {} /\ OwnerOf(j)' = NoJob
BY DEF OwnerOf, Holders, HoldsClaim

\* The worker that holds the claim of a job is its owner.
LEMMA HolderOwns ==
    ASSUME ClaimInv, NEW w \in Workers, HoldsClaim(w), NEW j \in Jobs, job[w] = j
    PROVE  Holders(j) = {w} /\ OwnerOf(j) = w
<1>1. Holders(j) = {w}
  BY DEF ClaimInv, OneHolder, Holders, HoldsClaim
<1> QED
  BY <1>1 DEF OwnerOf

\* When the status and the owner of the other jobs stay, those of j become what
\* they are now.
LEMMA OnlyOneBecomes ==
    ASSUME NEW j \in Jobs, NEW s, NEW o, StatusOf(j)' = s, OwnerOf(j)' = o,
           \A k \in Jobs \ {j} : StatusOf(k)' = StatusOf(k) /\ OwnerOf(k)' = OwnerOf(k)
    PROVE  Promise!Become(j, s, o)
<1>1. [k \in Jobs |-> StatusOf(k)]' = [[k \in Jobs |-> StatusOf(k)] EXCEPT ![j] = s]
  OBVIOUS
<1>2. [k \in Jobs |-> OwnerOf(k)]' = [[k \in Jobs |-> OwnerOf(k)] EXCEPT ![j] = o]
  OBVIOUS
<1> QED
  BY <1>1, <1>2 DEF Promise!Become

\* When those of every job stay, the promise does not notice the step.
LEMMA Unnoticed ==
    ASSUME attempts' = attempts,
           \A k \in Jobs : StatusOf(k)' = StatusOf(k) /\ OwnerOf(k)' = OwnerOf(k)
    PROVE  UNCHANGED Promise!vars
BY DEF Promise!vars

\* The status of a row that has a claim, and of one that is pending.
LEMMA StatusOfRow ==
    ASSUME ClaimInv, NEW j \in Jobs
    PROVE  /\ token[j] # 0 => StatusOf(j) = "running"
           /\ state[j] = "pending" => StatusOf(j) = "queued" /\ token[j] = 0
           /\ state[j] = "absent" => StatusOf(j) = "absent" /\ token[j] = 0
BY DEF StatusOf, ClaimInv, RowInv, Active

\* Steps that leave all claims as they are.
LEMMA QuietRows ==
    ASSUME TypeInv, ClaimInv, UNCHANGED <<token, attempts, job, tok>>,
           \A k \in Jobs : \/ state'[k] = state[k] /\ cancelled'[k] = cancelled[k]
                           \/ state[k] \in Active /\ state'[k] \in Active
    PROVE  UNCHANGED Promise!vars
<1>1. ASSUME NEW k \in Jobs PROVE StatusOf(k)' = StatusOf(k) /\ OwnerOf(k)' = OwnerOf(k)
  <2>1. StatusOf(k)' = StatusOf(k)
    BY DEF StatusOf, Active
  <2>2. Holders(k)' = Holders(k)
    BY DEF Holders, HoldsClaim
  <2> QED
    BY <2>1, <2>2 DEF OwnerOf
<1> QED
  BY <1>1, Unnoticed

\* A worker returns to the loop, or dies: a job it held has lost its owner.
LEMMA ForgetIsOrphan ==
    ASSUME TypeInv, ClaimInv, NEW w \in Workers, Forget(w), UNCHANGED row
    PROVE  [Promise!Next]_Promise!vars
<1>0. /\ job \in [Workers -> Jobs \cup {NoJob}] /\ tok \in [Workers -> Nat]
      /\ RowType
  BY TypeInvParts DEF TypeInv, TypeOK
<1>1. \A k \in Jobs : SameRowOf(k)
  BY DEF row, SameRowOf
<1>2. \A v \in Workers \ {w} : SameHands(v)
  BY <1>0 DEF Forget, SameHands
<1>3. \A k \in Jobs : w \notin Holders(k)'
  BY <1>0 DEF Forget, Holders, HoldsClaim
<1>4. attempts' = attempts
  BY DEF row
<1>5. CASE ~HoldsClaim(w)
  <2>1. \A k \in Jobs : StatusOf(k)' = StatusOf(k) /\ OwnerOf(k)' = OwnerOf(k)
    BY <1>1, <1>2, <1>3, <1>5, SameJob DEF Holders
  <2> QED
    BY <1>4, <2>1, Unnoticed
<1>6. CASE HoldsClaim(w)
  <2>1. PICK j \in Jobs : j = job[w] /\ token[j] # 0
    BY <1>0, <1>6 DEF HoldsClaim
  <2>2. \A k \in Jobs \ {j} : w \notin Holders(k)
    BY <2>1 DEF Holders
  <2>3. \A k \in Jobs \ {j} : StatusOf(k)' = StatusOf(k) /\ OwnerOf(k)' = OwnerOf(k)
    BY <1>1, <1>2, <1>3, <2>2, SameJob
  <2>4. Holders(j) = {w} /\ OwnerOf(j) = w
    BY <1>6, <2>1, HolderOwns
  <2>5. Holders(j)' = {}
    <3>1. \A v \in Workers \ {w} : v \notin Holders(j)'
      BY <1>1, <1>2, <2>1, <2>4 DEF SameRowOf, SameHands, Holders, HoldsClaim
    <3>2. Holders(j)' \subseteq Workers
      BY DEF Holders
    <3> QED
      BY <1>3, <3>1, <3>2
  <2>6. OwnerOf(j)' = NoJob
    BY <2>5 DEF OwnerOf
  <2>7. StatusOf(j)' = "running"
    <3>1. StatusOf(j) = "running"
      BY <2>1, StatusOfRow
    <3>2. StatusOf(j)' = StatusOf(j)
      BY <1>1, <2>1 DEF SameRowOf, StatusOf
    <3> QED
      BY <3>1, <3>2
  <2>8. Promise!Become(j, "running", NoJob)
    BY <2>1, <2>3, <2>6, <2>7, OnlyOneBecomes
  <2>9. Promise!Orphan(w, j)
    BY <1>4, <2>1, <2>4, <2>8 DEF Promise!Orphan
  <2> QED
    BY <2>1, <2>9 DEF Promise!Next
<1> QED
  BY <1>5, <1>6

-----------------------------------------------------------------------------
(* The steps that give a job an owner or take it away.                     *)

\* The other rows stay while one operation changes that of j.
LEMMA OtherRows ==
    ASSUME TypeInv, NEW j \in Jobs, RowOperation(j)
    PROVE  \A k \in Jobs \ {j} : SameRowOf(k)
BY TypeInvParts DEF RowOperation, Submit, LeaseRunsOut, DelayRunsOut, ClaimRow, EndFailedAttempt,
     DeadLetter, Retry, SetUnclaimed, Cancels, CancelWrite, RowType, SameRowOf

\* A claim that is cleared, by its worker (which may forget it) or by somebody
\* else: the job has no owner, and no other job is touched.
LEMMA ClaimCleared ==
    ASSUME TypeInv, ClaimInv, NEW j \in Jobs, RowOperation(j), token'[j] = 0,
           \A v \in Workers : \/ SameHands(v)
                              \/ job[v] = j /\ \A k \in Jobs : v \notin Holders(k)',
           NEW s, StatusOf(j)' = s
    PROVE  Promise!Become(j, s, NoJob)
<1>1. \A k \in Jobs \ {j} : SameRowOf(k)
  BY OtherRows
<1>2. \A k \in Jobs \ {j} : StatusOf(k)' = StatusOf(k) /\ OwnerOf(k)' = OwnerOf(k)
  <2> SUFFICES ASSUME NEW k \in Jobs \ {j}
               PROVE  StatusOf(k)' = StatusOf(k) /\ OwnerOf(k)' = OwnerOf(k)
    OBVIOUS
  <2>1. \A v \in Workers : SameHands(v) \/ (v \notin Holders(k) /\ v \notin Holders(k)')
    BY DEF Holders
  <2>2. SameRowOf(k)
    BY <1>1
  <2> QED
    BY <2>1, <2>2, SameJob
<1>3. OwnerOf(j)' = NoJob
  BY UnownedNext
<1> QED
  BY <1>2, <1>3, OnlyOneBecomes

\* The end of a failed attempt, whoever ends it.
LEMMA EndFailedIsRevoke ==
    ASSUME TypeInv, ClaimInv, NEW j \in Jobs, token[j] # 0, EndFailedAttempt(j, attempts[j]),
           \A v \in Workers : \/ SameHands(v)
                              \/ job[v] = j /\ \A k \in Jobs : v \notin Holders(k)'
    PROVE  Promise!Revoke(j)
<1>0. RowType
  BY TypeInvParts
<1>1. RowOperation(j)
  BY DEF RowOperation
<1>2. attempts' = attempts /\ token'[j] = 0 /\ ~cancelled'[j]
  BY <1>0 DEF EndFailedAttempt, DeadLetter, Retry, SetUnclaimed, RowType
<1>3. StatusOf(j) = "running"
  BY StatusOfRow
<1>4. CASE attempts[j] >= MaxAttempts
  <2>1. state'[j] = "failed"
    BY <1>0, <1>4 DEF EndFailedAttempt, DeadLetter, SetUnclaimed, RowType
  <2>2. StatusOf(j)' = "failed"
    BY <1>2, <2>1 DEF StatusOf, Active
  <2>3. Promise!Become(j, "failed", NoJob)
    BY <1>1, <1>2, <2>2, ClaimCleared
  <2> QED
    BY <1>2, <1>3, <1>4, <2>3 DEF Promise!Revoke, Promise!EndAttempt
<1>5. CASE ~(attempts[j] >= MaxAttempts)
  <2>1. state'[j] = "pending"
    BY <1>0, <1>5 DEF EndFailedAttempt, Retry, SetUnclaimed, RowType
  <2>2. StatusOf(j)' = "queued"
    BY <2>1 DEF StatusOf, Active
  <2>3. Promise!Become(j, "queued", NoJob)
    BY <1>1, <1>2, <2>2, ClaimCleared
  <2> QED
    BY <1>2, <1>3, <1>5, <2>3 DEF Promise!Revoke, Promise!EndAttempt
<1> QED
  BY <1>4, <1>5

\* A claim: nobody remembers a claim with the new token, so w is the owner.
LEMMA ClaimIsClaim ==
    ASSUME TypeInv, ClaimInv, NEW w \in Workers, NEW j \in Jobs, Claimable(j), ClaimRow(j),
           \A v \in Workers \ {w} : SameHands(v),
           tok[w] = 0 \/ job[w] = j,
           job'[w] = j, tok'[w] = FreshToken(j)
    PROVE  Promise!Claim(w, j)
<1>0. RowType /\ RowInv /\ WorkerInv /\ tok \in [Workers -> Nat]
  BY TypeInvParts DEF ClaimInv, LocalType
<1>1. RowOperation(j)
  BY DEF RowOperation
<1>2. \A k \in Jobs \ {j} : SameRowOf(k)
  BY <1>1, OtherRows
<1>3. /\ attempts[j] \in Nat /\ token'[j] = attempts[j] + 1 /\ state'[j] = "parsing"
      /\ attempts' = [attempts EXCEPT ![j] = @ + 1]
  BY <1>0 DEF ClaimRow, FreshToken, RowType
<1>4. \A k \in Jobs \ {j} : StatusOf(k)' = StatusOf(k) /\ OwnerOf(k)' = OwnerOf(k)
  <2> SUFFICES ASSUME NEW k \in Jobs \ {j}
               PROVE  StatusOf(k)' = StatusOf(k) /\ OwnerOf(k)' = OwnerOf(k)
    OBVIOUS
  <2>1. w \notin Holders(k) /\ w \notin Holders(k)'
    BY DEF Holders, HoldsClaim
  <2> QED
    BY <1>2, <2>1, SameJob
<1>5. Holders(j)' = {w}
  <2>1. ASSUME NEW v \in Workers \ {w}, v \in Holders(j)' PROVE FALSE
    <3>1. job[v] = j /\ tok[v] = attempts[j] + 1
      BY <1>3, <2>1 DEF SameHands, Holders, HoldsClaim
    <3>2. tok[v] <= attempts[j]
      BY <1>0, <1>3, <3>1 DEF WorkerInv
    <3> QED
      BY <1>3, <3>1, <3>2
  <2>2. w \in Holders(j)'
    BY <1>3 DEF Holders, HoldsClaim, FreshToken, Jobs, NoJob
  <2>3. Holders(j)' \subseteq Workers
    BY DEF Holders
  <2> QED
    BY <2>1, <2>2, <2>3
<1>6. OwnerOf(j)' = w
  BY <1>5 DEF OwnerOf
<1>7. StatusOf(j)' = "running"
  BY <1>3 DEF StatusOf, Active
<1>8. StatusOf(j) = "queued"
  BY StatusOfRow DEF Claimable
<1>9. Promise!Become(j, "running", w)
  BY <1>4, <1>6, <1>7, OnlyOneBecomes
<1> QED
  BY <1>3, <1>8, <1>9 DEF Promise!Claim

-----------------------------------------------------------------------------
(* The steps of the queue.                                                 *)

\* The owner finishes its job or gives it back, and keeps nothing but, at most, a
\* token that is no longer in the row.
LEMMA OwnerLeaves ==
    ASSUME TypeInv, ClaimInv, NEW w \in Workers, HoldsClaim(w), job[w] \in Jobs,
           \A v \in Workers : SameHands(v) \/ (v = w /\ tok'[w] = 0),
           UNCHANGED dead
    PROVE  /\ SetUnclaimed(job[w], "pending", FALSE) => Promise!GiveBack(w, job[w])
           /\ SetUnclaimed(job[w], "done", FALSE) => Promise!Finish(w, job[w])
<1>1. PICK j \in Jobs : j = job[w]
  OBVIOUS
<1>0. RowType /\ token[j] # 0 /\ OwnerOf(j) = w
  BY <1>1, TypeInvParts, HolderOwns DEF HoldsClaim
<1>2. ASSUME NEW s \in {"pending", "done"}, SetUnclaimed(j, s, FALSE)
      PROVE  /\ RowOperation(j) /\ token'[j] = 0 /\ attempts' = attempts
             /\ state'[j] = s /\ ~cancelled'[j]
  BY <1>0, <1>2 DEF RowOperation, SetUnclaimed, RowType
<1>3. \A v \in Workers : \/ SameHands(v)
                         \/ job[v] = j /\ \A k \in Jobs : v \notin Holders(k)'
  BY <1>1 DEF Holders, HoldsClaim
<1>4. ASSUME SetUnclaimed(j, "pending", FALSE) PROVE Promise!GiveBack(w, j)
  <2>1. StatusOf(j)' = "queued"
    BY <1>2, <1>4 DEF StatusOf, Active
  <2>2. Promise!Become(j, "queued", NoJob)
    BY <1>2, <1>3, <1>4, <2>1, ClaimCleared
  <2> QED
    BY <1>0, <1>2, <1>4, <2>2 DEF Promise!GiveBack
<1>5. ASSUME SetUnclaimed(j, "done", FALSE) PROVE Promise!Finish(w, j)
  <2>1. StatusOf(j)' = "done"
    BY <1>2, <1>5 DEF StatusOf, Active
  <2>2. Promise!Become(j, "done", NoJob)
    BY <1>2, <1>3, <1>5, <2>1, ClaimCleared
  <2> QED
    BY <1>0, <1>2, <1>5, <2>2 DEF Promise!Finish
<1> QED
  BY <1>1, <1>4, <1>5

\* The steps of claim_next_job.
LEMMA ClaimStepKeepsPromise ==
    ASSUME PromiseInv, Assumptions, NEW w \in Workers, ClaimStep(w)
    PROVE  [Promise!Next]_Promise!vars
<1>0. /\ TypeInv /\ ClaimInv /\ FreeInv /\ RowType /\ RowInv /\ WorkerInv /\ BoundsAssumption
      /\ job \in [Workers -> Jobs \cup {NoJob}] /\ tok \in [Workers -> Nat]
  BY TypeInvParts DEF PromiseInv, ClaimInv, Assumptions, TypeInv, TypeOK
<1>1. CASE UNCHANGED <<row, job, tok>>
  <2>1. UNCHANGED <<token, attempts, state, cancelled>>
    BY <1>1 DEF row
  <2> QED
    BY <1>0, <1>1, <2>1, QuietRows
<1>2. CASE Forget(w) /\ UNCHANGED row
  BY <1>0, <1>2, ForgetIsOrphan
<1>3. ASSUME NEW j \in Jobs, NEW t \in 1..MaxClaims, Recover(w, j, t), token[j] = t
      PROVE  [Promise!Next]_Promise!vars
  <2>1. token[j] # 0 /\ EndFailedAttempt(j, attempts[j])
    BY <1>0, <1>3 DEF Recover, RowInv, BoundsAssumption
  <2>2. \A v \in Workers : SameHands(v)
    BY <1>3 DEF Recover, SameHands
  <2>3. Promise!Revoke(j)
    BY <1>0, <2>1, <2>2, EndFailedIsRevoke
  <2> QED
    BY <2>3 DEF Promise!Next
<1>4. ASSUME NEW j \in Jobs, ClaimNext(w, j), Claimable(j)
      PROVE  [Promise!Next]_Promise!vars
  <2>1. pc[w] = "claim" /\ tok[w] = 0
    BY <1>0, <1>4 DEF ClaimNext, FreeInv, Claimed, Working
  <2>2. ClaimRow(j) /\ job' = [job EXCEPT ![w] = j] /\ tok' = [tok EXCEPT ![w] = FreshToken(j)]
    BY <1>4 DEF ClaimNext
  <2>3. Promise!Claim(w, j)
    BY <1>0, <1>4, <2>1, <2>2, ClaimIsClaim DEF SameHands
  <2> QED
    BY <2>3 DEF Promise!Next
<1>5. CASE Release(w) /\ token[job[w]] = tok[w]
  <2>1. job[w] \in Jobs /\ HoldsClaim(w)
    BY <1>0, <1>5 DEF Release, HoldsClaim, WorkerInv, TypeInv, BusyWorkerHasJob, Claimed, Jobs, NoJob
  <2>2. /\ SetUnclaimed(job[w], "pending", FALSE) /\ UNCHANGED dead
        /\ job' = [job EXCEPT ![w] = NoJob] /\ tok' = [tok EXCEPT ![w] = 0]
    BY <1>5 DEF Release
  <2>3. \A v \in Workers : SameHands(v) \/ (v = w /\ tok'[w] = 0)
    BY <1>0, <2>2 DEF SameHands
  <2>4. Promise!GiveBack(w, job[w])
    BY <1>0, <2>1, <2>2, <2>3, OwnerLeaves
  <2> QED
    BY <2>1, <2>4 DEF Promise!Next
<1>6. CASE Sweep(w) \/ RecoveryDone(w) \/ ListPending(w) \/ NothingToClaim(w) \/ CheckLimit(w)
  BY <1>1, <1>2, <1>6 DEF Sweep, RecoveryDone, ListPending, NothingToClaim, CheckLimit, locals
<1>7. CASE \E j \in Jobs, t \in 1..MaxClaims : Recover(w, j, t) /\ token[j] # t
  BY <1>1, <1>7 DEF Recover
<1>8. CASE \E j \in Jobs : ClaimNext(w, j) /\ ~Claimable(j)
  BY <1>1, <1>8 DEF ClaimNext
<1>9. CASE Release(w) /\ token[job[w]] # tok[w]
  BY <1>2, <1>9 DEF Release
<1> QED
  BY <1>3, <1>4, <1>5, <1>6, <1>7, <1>8, <1>9 DEF ClaimStep

\* The steps of execute.
LEMMA ExecuteStepKeepsPromise ==
    ASSUME PromiseInv, Assumptions, NEW w \in Workers, ExecuteStep(w)
    PROVE  [Promise!Next]_Promise!vars
<1>0. /\ TypeInv /\ ClaimInv /\ RowType /\ RowInv /\ WorkerInv
      /\ job \in [Workers -> Jobs \cup {NoJob}] /\ tok \in [Workers -> Nat]
      /\ (pc[w] \in Claimed \cup {"reclaim"} => job[w] \in Jobs)
  BY TypeInvParts DEF PromiseInv, ClaimInv, TypeInv, TypeOK, BusyWorkerHasJob
<1>1. CASE UNCHANGED <<row, job, tok>>
  <2>1. UNCHANGED <<token, attempts, state, cancelled>>
    BY <1>1 DEF row
  <2> QED
    BY <1>0, <1>1, <2>1, QuietRows
<1>2. CASE Forget(w) /\ UNCHANGED row
  BY <1>0, <1>2, ForgetIsOrphan
<1>3. CASE Reclaim(w)
  <2>1. job[w] \in Jobs /\ Claimable(job[w]) /\ ClaimRow(job[w]) /\ UNCHANGED job
    BY <1>0, <1>3 DEF Reclaim, Goto
  <2>2. PICK j \in Jobs : j = job[w]
    BY <2>1
  <2>3. tok' = [tok EXCEPT ![w] = FreshToken(j)]
    BY <1>3, <2>2 DEF Reclaim
  <2>4. Promise!Claim(w, j)
    BY <1>0, <2>1, <2>2, <2>3, ClaimIsClaim DEF SameHands
  <2> QED
    BY <2>4 DEF Promise!Next
<1>4. CASE \/ Advance(w, "toStructuring", "structuring", "chunk")
           \/ Advance(w, "toEmbedding", "embedding", "checkChunks")
  <2>1. UNCHANGED <<token, attempts, job, tok>>
    BY <1>4 DEF Advance, locals
  <2>2. job[w] \in Jobs /\ state[job[w]] \in Active
    BY <1>0, <1>4 DEF Advance, HoldsClaim, Goto, Claimed, Working, RowInv
  <2>3. /\ \E s \in Active : state' = [state EXCEPT ![job[w]] = s]
        /\ cancelled' = [cancelled EXCEPT ![job[w]] = FALSE]
    BY <1>4 DEF Advance, Active
  <2>4. \A k \in Jobs : \/ state'[k] = state[k] /\ cancelled'[k] = cancelled[k]
                        \/ state[k] \in Active /\ state'[k] \in Active
    BY <1>0, <2>2, <2>3 DEF RowType
  <2> QED
    BY <1>0, <2>1, <2>4, QuietRows
<1>5. CASE Finish(w)
  <2>1. job[w] \in Jobs /\ HoldsClaim(w) /\ SetUnclaimed(job[w], "done", FALSE) /\ UNCHANGED dead
    BY <1>0, <1>5 DEF Finish, Goto, Claimed, Working
  <2>2. \A v \in Workers : SameHands(v)
    BY <1>5 DEF Finish, locals, SameHands
  <2>3. Promise!Finish(w, job[w])
    BY <1>0, <2>1, <2>2, OwnerLeaves
  <2> QED
    BY <2>1, <2>3 DEF Promise!Next
<1>6. CASE ExecuteRaises(w) /\ HoldsClaim(w)
  <2>1. job[w] \in Jobs /\ token[job[w]] # 0 /\ att[w] = attempts[job[w]]
    BY <1>0, <1>6, AttemptOfHolder DEF ExecuteRaises
  <2>2. PICK j \in Jobs : j = job[w]
    BY <2>1
  <2>3. Forget(w) /\ EndFailedAttempt(j, attempts[j])
    BY <1>6, <2>1, <2>2 DEF ExecuteRaises
  <2>4. \A v \in Workers : \/ SameHands(v)
                           \/ job[v] = j /\ \A k \in Jobs : v \notin Holders(k)'
    BY <1>0, <2>2, <2>3 DEF Forget, SameHands, Holders, HoldsClaim
  <2>5. Promise!Revoke(j)
    BY <1>0, <2>1, <2>2, <2>3, <2>4, EndFailedIsRevoke
  <2> QED
    BY <2>5 DEF Promise!Next
<1>7. CASE ExecuteRaises(w) /\ ~HoldsClaim(w)
  BY <1>2, <1>7 DEF ExecuteRaises
<1>8. CASE Refuse(w) \/ ReclaimRefused(w) \/ SaveViews(w) \/ StaleClaim(w)
  BY <1>2, <1>8 DEF Refuse, ReclaimRefused, SaveViews, StaleClaim
<1>9. CASE \/ Start(w) \/ Parse(w) \/ Chunk(w) \/ SaveBlocks(w) \/ SaveChunks(w) \/ Upsert(w)
           \/ EnsureActiveClaim(w, "checkBlocks", "saveBlocks")
           \/ EnsureActiveClaim(w, "checkChunks", "saveChunks")
           \/ EnsureActiveClaim(w, "checkIndex", "upsert")
  BY <1>1, <1>9 DEF Start, Parse, Chunk, SaveBlocks, SaveChunks, Upsert, EnsureActiveClaim, locals
<1> QED
  BY <1>3, <1>4, <1>5, <1>6, <1>7, <1>8, <1>9 DEF ExecuteStep

\* A cancel whose decision was overtaken: the job has settled in between.
LateCancel == \E c \in Cancellers : CancelWrite(c) /\ Settled(cjob[c])

\* Every other step of the queue is one that LeasedJobs allows.
LEMMA StepKeepsPromise ==
    ASSUME PromiseInv, Assumptions, [Next]_vars, ~LateCancel
    PROVE  [Promise!Next]_Promise!vars
<1>0. /\ TypeInv /\ ClaimInv /\ CancelTargetInv /\ RowType /\ RowInv
  BY TypeInvParts DEF PromiseInv, ClaimInv
<1>1. ASSUME NEW j \in Jobs, Submit(j)
      PROVE  [Promise!Next]_Promise!vars
  <2>1. RowOperation(j) /\ attempts' = attempts /\ \A v \in Workers : SameHands(v)
    BY <1>1 DEF Submit, RowOperation, SameHands, locals
  <2>2. StatusOf(j) = "absent" /\ token[j] = 0
    BY <1>0, <1>1, StatusOfRow DEF Submit
  <2>3. token'[j] = 0 /\ state'[j] = "pending"
    BY <1>0, <1>1, <2>2 DEF Submit, RowType
  <2>4. StatusOf(j)' = "queued"
    BY <2>3 DEF StatusOf, Active
  <2>5. Promise!Become(j, "queued", NoJob)
    BY <1>0, <2>1, <2>3, <2>4, ClaimCleared
  <2>6. Promise!Submit(j)
    BY <2>1, <2>2, <2>5 DEF Promise!Submit
  <2> QED
    BY <2>6 DEF Promise!Next
<1>2. CASE \E j \in Jobs : LeaseRunsOut(j) \/ DelayRunsOut(j)
  <2>1. UNCHANGED <<token, attempts, job, tok, state, cancelled>>
    BY <1>2 DEF LeaseRunsOut, DelayRunsOut, locals
  <2> QED
    BY <1>0, <2>1, QuietRows
<1>3. ASSUME NEW w \in Workers, Crash(w)
      PROVE  [Promise!Next]_Promise!vars
  BY <1>0, <1>3, ForgetIsOrphan DEF Crash
<1>4. CASE \/ \E w \in Workers : Restart(w)
           \/ \E c \in Cancellers, j \in Jobs : CancelRead(c, j)
           \/ UNCHANGED vars
  <2>1. UNCHANGED <<token, attempts, job, tok, state, cancelled>>
    BY <1>4 DEF Restart, CancelRead, vars, row, locals
  <2> QED
    BY <1>0, <2>1, QuietRows
<1>5. ASSUME NEW c \in Cancellers, CancelWrite(c)
      PROVE  [Promise!Next]_Promise!vars
  <2>1. PICK j \in Jobs : j = cjob[c] /\ state[j] # "absent" /\ ~Settled(j)
    BY <1>0, <1>5 DEF CancelWrite, TypeInv, BusyCancellerHasJob, CancelTargetInv, LateCancel
  <2>2. /\ RowOperation(j) /\ attempts' = attempts /\ token'[j] = 0
        /\ state'[j] = "failed" /\ cancelled'[j]
    BY <1>0, <1>5, <2>1 DEF CancelWrite, RowOperation, Cancels, RowType
  <2>3. \A v \in Workers : SameHands(v)
    BY <1>5 DEF CancelWrite, SameHands, locals
  <2>4. StatusOf(j)' = "cancelled"
    BY <2>2 DEF StatusOf, Active
  <2>5. Promise!Become(j, "cancelled", NoJob)
    BY <1>0, <2>2, <2>3, <2>4, ClaimCleared
  <2>6. StatusOf(j) \in {"queued", "running"}
    BY <1>0, <2>1 DEF StatusOf, Settled, RowType, States, Active
  <2>7. Promise!Cancel(j)
    BY <2>2, <2>5, <2>6 DEF Promise!Cancel
  <2> QED
    BY <2>7 DEF Promise!Next
<1> QED
  BY <1>1, <1>2, <1>3, <1>4, <1>5, ClaimStepKeepsPromise, ExecuteStepKeepsPromise
     DEF Next, TimeStep, WorkerStep

\* Nothing has been submitted at first.
LEMMA PromiseInit == Init => Promise!Init
<1> SUFFICES ASSUME Init PROVE Promise!Init
  OBVIOUS
<1>1. \A j \in Jobs : StatusOf(j) = "absent" /\ token[j] = 0
  BY DEF Init, StatusOf, Active
<1>2. \A j \in Jobs : OwnerOf(j) = NoJob
  BY <1>1, Unowned
<1> QED
  BY <1>1, <1>2 DEF Init, Promise!Init

\* Without cancels the queue implements LeasedJobs: for any number of worker
\* processes, jobs, retries, leases, crashes and part limits, only the worker whose
\* claim is in the row finishes a job or gives it up, a lost claim never comes back,
\* and a job that is done or dead-lettered stays so.
THEOREM QueueKeepsPromise ==
    ASSUME Cancellers = {}
    PROVE  Spec => ImplementsLeasedJobs
<1> USE JobsAssumption, DocsAssumption, ModeAssumption, BoundsAssumption DEF Assumptions
<1>1. [](Cancellers = {})
  BY PTL
<1>2. Cancellers = {} /\ PromiseInv /\ [Next]_vars => [Promise!Next]_Promise!vars
  BY StepKeepsPromise DEF LateCancel
<1> QED
  BY <1>1, <1>2, PromiseInit, PromiseInvariant, PTL DEF Spec, ImplementsLeasedJobs, Promise!Spec

\* The behaviours in which no cancel arrives late.
PunctualSpec == Init /\ [][Next /\ ~LateCancel]_vars

\* With cancels it does so as long as none of them arrives late: a cancel that was
\* decided on a row that has settled since is the only step LeasedJobs does not allow.
THEOREM PunctualQueueKeepsPromise == PunctualSpec => ImplementsLeasedJobs
<1> USE JobsAssumption, DocsAssumption, ModeAssumption, BoundsAssumption DEF Assumptions
<1>1. [Next /\ ~LateCancel]_vars => [Next]_vars
  OBVIOUS
<1>2. PromiseInv /\ [Next /\ ~LateCancel]_vars => [Promise!Next]_Promise!vars
  <2> SUFFICES ASSUME PromiseInv, [Next /\ ~LateCancel]_vars PROVE [Promise!Next]_Promise!vars
    OBVIOUS
  <2>1. CASE Next /\ ~LateCancel
    BY <2>1, StepKeepsPromise
  <2>2. CASE UNCHANGED vars
    <3>1. UNCHANGED <<token, attempts, job, tok, state, cancelled>>
      BY <2>2 DEF vars, row, locals
    <3> QED
      BY <3>1, QuietRows DEF PromiseInv
  <2> QED
    BY <2>1, <2>2
<1>3. PunctualSpec => Spec
  BY <1>1, PTL DEF PunctualSpec, Spec
<1> QED
  BY <1>2, <1>3, PromiseInit, PromiseInvariant, PTL
     DEF PunctualSpec, ImplementsLeasedJobs, Promise!Spec

-----------------------------------------------------------------------------
(* The part limit.  It is kept by giving claims back, and the oldest active *)
(* parts may stay: a claim that was given back, or whose attempt failed, may *)
(* be older than one that executes, and when it executes again the limit is *)
(* exceeded.  The parts that execute under their first claim respect it,    *)
(* however many there are: they were claimed in their order, so each of     *)
(* them saw the older ones when it looked a second time.                    *)

\* The older parts that are active under their first claim.
Ahead(j) == {i \in ActiveParts : i < j /\ attempts[i] = 1}

\* Jobs are created in their order, and parts are claimed for the first time so.
OrderInv ==
    /\ \A j \in Jobs : delayed[j] => attempts[j] # 0
    /\ \A i, j \in Jobs : i < j /\ state[j] # "absent" => state[i] # "absent"
    /\ \A i, j \in Parts : i < j /\ attempts[j] # 0 /\ attempts[i] = 0 => state[i] \notin {"absent", "pending"}

\* Whoever has a part among its candidates has the older ones nobody claimed yet.
CandInv ==
    \A w \in Workers :
        /\ cand[w] # {} => MaxClaims # 0
        /\ \A j \in cand[w] : state[j] # "absent"
        /\ \A i, j \in Parts : i < j /\ j \in cand[w] /\ state[i] = "pending" /\ attempts[i] = 0 => i \in cand[w]

\* Whoever executes a part under its first claim has few enough of them ahead.
LimitInv ==
    \A w \in Workers :
        pc[w] \in {"start"} \cup Working /\ HoldsClaim(w) /\ job[w] \in Parts /\ attempts[job[w]] = 1
            => Cardinality(Ahead(job[w])) < PartLimit

PartInv == OrderInv /\ CandInv /\ LimitInv

\* The parts, and any choice of them, are finite.
LEMMA PartsFinite ==
    ASSUME Assumptions, NEW S \in SUBSET Parts
    PROVE  /\ IsFiniteSet(S) /\ Cardinality(S) \in Nat
           /\ \A T \in SUBSET S : Cardinality(T) <= Cardinality(S) /\ Cardinality(T) \in Nat
<1>1. IsFiniteSet(Jobs)
  BY FS_Interval DEF Jobs, Assumptions, JobsAssumption
<1>2. IsFiniteSet(S)
  BY <1>1, FS_Subset DEF Assumptions, DocsAssumption
<1> QED
  BY <1>2, FS_Subset, FS_CardinalityType

\* What a step does to a row, as far as the first claim is concerned.
LEMMA FirstClaimMoves ==
    ASSUME TypeInv, ClaimInv, CancelTargetInv, Assumptions, [Next]_vars, NEW i \in Jobs
    PROVE  /\ attempts'[i] \in {attempts[i], attempts[i] + 1}
           /\ attempts'[i] # attempts[i] => state[i] = "pending" /\ state'[i] = "parsing"
           /\ delayed'[i] => delayed[i] \/ attempts[i] # 0
           /\ attempts'[i] = 0 /\ state'[i] = "pending" => state[i] \in {"absent", "pending"}
           /\ attempts'[i] = attempts[i] /\ state'[i] \in Active => state[i] \in Active
<1>0. RowType /\ RowInv
  BY TypeInvParts DEF ClaimInv
<1>1. CASE UNCHANGED row
  BY <1>0, <1>1 DEF row, RowType
<1>2. ASSUME NEW j \in Jobs, RowOperation(j), i # j
      PROVE  attempts'[i] = attempts[i] /\ state'[i] = state[i] /\ delayed'[i] = delayed[i]
  BY <1>0, <1>2 DEF RowOperation, Submit, LeaseRunsOut, DelayRunsOut, ClaimRow, EndFailedAttempt,
     DeadLetter, Retry, SetUnclaimed, Cancels, CancelWrite, RowType
<1>3. CASE Submit(i) \/ LeaseRunsOut(i) \/ DelayRunsOut(i)
  BY <1>0, <1>3 DEF Submit, LeaseRunsOut, DelayRunsOut, RowType, Active
<1>4. CASE Claimable(i) /\ ClaimRow(i)
  BY <1>0, <1>4 DEF Claimable, ClaimRow, RowType
<1>5. ASSUME token[i] # 0, attempts' = attempts
      PROVE  attempts[i] \in Nat /\ attempts'[i] = attempts[i] /\ attempts[i] # 0 /\ state[i] \in Active
  BY <1>0, <1>5 DEF RowInv, RowType
<1>6. ASSUME token[i] # 0,
             \/ EndFailedAttempt(i, attempts[i])
             \/ SetUnclaimed(i, "pending", FALSE) \/ SetUnclaimed(i, "done", FALSE)
             \/ UNCHANGED <<token, attempts, expired, delayed, dead>>
      PROVE  attempts' = attempts
  BY <1>6 DEF EndFailedAttempt, DeadLetter, Retry, SetUnclaimed
<1>7. ASSUME NEW c \in Cancellers, Cancels(c, i) PROVE attempts' = attempts /\ state'[i] = "failed" /\ ~delayed'[i]
  BY <1>0, <1>7 DEF Cancels, CancelWrite, RowType
<1>8. attempts[i] \in Nat /\ "failed" \notin Active /\ "pending" \notin Active
  BY <1>0 DEF RowType, Active
<1>9. CASE RowOperation(i)
  <2>1. \/ Submit(i) \/ LeaseRunsOut(i) \/ DelayRunsOut(i) \/ (Claimable(i) /\ ClaimRow(i))
        \/ (token[i] # 0 /\ attempts' = attempts) \/ \E c \in Cancellers : Cancels(c, i)
    BY <1>6, <1>9 DEF RowOperation
  <2> QED
    BY <1>3, <1>4, <1>5, <1>7, <1>8, <2>1
<1> QED
  BY <1>1, <1>2, <1>8, <1>9, OneRowMoves

\* An attempt is counted when a pending row is claimed, by claim_next_job for the
\* oldest of the candidates or by execute.
LEMMA OnlyClaimsCount ==
    ASSUME TypeInv, ClaimInv, Assumptions, [Next]_vars, NEW i \in Jobs, attempts'[i] # attempts[i]
    PROVE  /\ state[i] = "pending" /\ state'[i] = "parsing"
           /\ \/ \E w \in Workers : i \in cand[w] /\ \A k \in cand[w] : i <= k
              \/ attempts[i] # 0
<1>0. RowType /\ RowInv /\ WorkerInv
  BY TypeInvParts DEF ClaimInv
<1>1. attempts' # attempts
  OBVIOUS
<1>2. ASSUME NEW j \in Jobs, ClaimRow(j), Claimable(j)
      PROVE  j = i /\ state[i] = "pending" /\ state'[i] = "parsing"
  BY <1>0, <1>2 DEF ClaimRow, Claimable, RowType
<1>3. ASSUME NEW w \in Workers, ClaimStep(w) \/ Crash(w) \/ Restart(w)
      PROVE  /\ state[i] = "pending" /\ state'[i] = "parsing"
             /\ i \in cand[w] /\ \A k \in cand[w] : i <= k
  <2>1. CASE \/ Sweep(w) \/ RecoveryDone(w) \/ ListPending(w) \/ NothingToClaim(w) \/ CheckLimit(w)
             \/ Crash(w) \/ Restart(w)
    BY <1>1, <2>1 DEF Sweep, RecoveryDone, ListPending, NothingToClaim, CheckLimit, Crash, Restart, row
  <2>2. CASE \E j \in Jobs, t \in 1..MaxClaims : Recover(w, j, t)
    BY <1>1, <2>2 DEF Recover, EndFailedAttempt, DeadLetter, Retry, SetUnclaimed, row
  <2>3. CASE \E j \in Jobs : ClaimNext(w, j)
    BY <1>1, <1>2, <2>3 DEF ClaimNext, row
  <2>4. CASE Release(w)
    BY <1>1, <2>4 DEF Release, SetUnclaimed, row
  <2> QED
    BY <1>3, <2>1, <2>2, <2>3, <2>4 DEF ClaimStep
<1>4. ASSUME NEW w \in Workers, ExecuteStep(w)
      PROVE  state[i] = "pending" /\ state'[i] = "parsing" /\ attempts[i] # 0
  <2>1. CASE Reclaim(w)
    <3>1. job[w] \in Jobs /\ tok[w] # 0 /\ tok[w] <= attempts[job[w]] /\ tok[w] \in Nat
      BY <1>0, <2>1 DEF Reclaim, Goto, WorkerInv, TypeInv, TypeOK, BusyWorkerHasJob
    <3>2. job[w] = i
      BY <1>2, <2>1, <3>1 DEF Reclaim
    <3> QED
      BY <1>0, <1>2, <2>1, <3>1, <3>2 DEF Reclaim, RowType
  <2>2. CASE ~Reclaim(w)
    BY <1>1, <1>4, <2>2 DEF ExecuteStep, Refuse, Start, ReclaimRefused, Parse, Chunk, SaveBlocks, SaveChunks,
       Upsert, EnsureActiveClaim, Advance, Finish, SaveViews, StaleClaim, ExecuteRaises,
       EndFailedAttempt, DeadLetter, Retry, SetUnclaimed, row
  <2> QED
    BY <2>1, <2>2
<1>5. ~\E j \in Jobs : Submit(j) \/ LeaseRunsOut(j) \/ DelayRunsOut(j)
  BY <1>1 DEF Submit, LeaseRunsOut, DelayRunsOut
<1>6. ~\E c \in Cancellers : CancelWrite(c) \/ \E j \in Jobs : CancelRead(c, j)
  BY <1>1 DEF CancelWrite, CancelRead, row
<1>7. attempts' = attempts \/ Next
  BY DEF vars, row
<1> QED
  BY <1>1, <1>3, <1>4, <1>5, <1>6, <1>7 DEF Next, TimeStep, WorkerStep

\* Every step keeps the order of the claims.
LEMMA OrderStep ==
    ASSUME PromiseInv, Assumptions, PartInv, [Next]_vars
    PROVE  OrderInv'
<1>0. /\ TypeInv /\ ClaimInv /\ CancelTargetInv /\ RowType /\ RowInv
      /\ Parts \subseteq Jobs /\ Jobs \subseteq Nat
  BY TypeInvParts DEF PromiseInv, ClaimInv, Assumptions, DocsAssumption, Jobs
<1>1. \A i \in Jobs : attempts[i] \in Nat /\ attempts'[i] \in {attempts[i], attempts[i] + 1}
  BY <1>0, FirstClaimMoves DEF RowType
<1>2. ASSUME NEW i \in Jobs, delayed'[i] PROVE attempts'[i] # 0
  <2>1. attempts[i] # 0
    BY <1>0, <1>2, FirstClaimMoves DEF PartInv, OrderInv
  <2> QED
    BY <1>1, <2>1
<1>3. ASSUME NEW i \in Jobs, NEW j \in Jobs, i < j, state'[j] # "absent"
      PROVE  state'[i] # "absent"
  <2>1. CASE state[j] # "absent"
    <3>1. state[i] # "absent"
      BY <1>3, <2>1 DEF PartInv, OrderInv
    <3> QED
      BY <1>0, <3>1, RowsStay
  <2>2. CASE state[j] = "absent"
    <3>1. PICK k \in Jobs : RowOperation(k)
      BY <1>0, <1>3, <2>2, OneRowMoves DEF row
    <3>2. k = j
      BY <1>0, <1>3, <2>2, <3>1 DEF RowOperation, Submit, LeaseRunsOut, DelayRunsOut, ClaimRow,
         EndFailedAttempt, DeadLetter, Retry, SetUnclaimed, Cancels, CancelWrite, RowType
    <3>3. token[j] = 0
      BY <1>0, <2>2 DEF RowInv, Active
    <3>4. ~\E c \in Cancellers : Cancels(c, j)
      BY <1>0, <2>2 DEF Cancels, CancelWrite, CancelTargetInv
    <3>5. Submit(j)
      BY <1>3, <2>2, <3>1, <3>2, <3>3, <3>4 DEF RowOperation, LeaseRunsOut, DelayRunsOut, Claimable
    <3>6. i \in 1..(j - 1)
      BY <1>0, <1>3 DEF Jobs, Assumptions, JobsAssumption
    <3>7. state[i] # "absent"
      BY <3>5, <3>6 DEF Submit
    <3> QED
      BY <1>0, <3>7, RowsStay
  <2> QED
    BY <2>1, <2>2
<1>4. ASSUME NEW i \in Parts, NEW j \in Parts, i < j, attempts'[j] # 0, attempts'[i] = 0
      PROVE  state'[i] \notin {"absent", "pending"}
  <2>1. i \in Jobs /\ j \in Jobs /\ attempts[i] = 0
    BY <1>0, <1>1, <1>4
  <2>2. state[i] \notin {"absent", "pending"}
    <3>1. CASE attempts[j] # 0
      BY <1>4, <2>1, <3>1 DEF PartInv, OrderInv
    <3>2. CASE attempts[j] = 0
      <4>1. PICK w \in Workers : j \in cand[w] /\ \A k \in cand[w] : j <= k
        BY <1>0, <1>4, <2>1, <3>2, OnlyClaimsCount
      <4>2. state[j] = "pending"
        BY <1>0, <1>4, <2>1, <3>2, OnlyClaimsCount
      <4>3. state[i] # "absent"
        BY <1>4, <2>1, <4>2 DEF PartInv, OrderInv
      <4>4. i \notin cand[w]
        BY <1>0, <1>4, <2>1, <4>1
      <4> QED
        BY <1>4, <2>1, <4>1, <4>3, <4>4 DEF PartInv, CandInv
    <3> QED
      BY <3>1, <3>2
  <2>3. state'[i] # "absent"
    BY <1>0, <2>1, <2>2, RowsStay
  <2> QED
    BY <1>0, <1>4, <2>1, <2>2, <2>3, FirstClaimMoves
<1> QED
  BY <1>2, <1>3, <1>4 DEF OrderInv

\* Every step keeps the candidates complete.
LEMMA CandStep ==
    ASSUME PromiseInv, Assumptions, PartInv, [Next]_vars
    PROVE  CandInv'
<1>0. /\ TypeInv /\ ClaimInv /\ CancelTargetInv /\ RowType /\ cand \in [Workers -> SUBSET Jobs]
      /\ Parts \subseteq Jobs /\ Jobs \subseteq Nat /\ MaxClaims \in Nat
  BY TypeInvParts DEF PromiseInv, LocalType, Assumptions, DocsAssumption, BoundsAssumption, Jobs
<1>1. ASSUME NEW i \in Parts, NEW j \in Parts, i < j, state[j] # "absent", state'[i] = "pending", attempts'[i] = 0
      PROVE  state[i] = "pending" /\ attempts[i] = 0
  <2>1. i \in Jobs /\ j \in Jobs /\ attempts[i] \in Nat
    BY <1>0 DEF RowType
  <2>2. attempts'[i] \in {attempts[i], attempts[i] + 1} /\ state[i] \in {"absent", "pending"}
    BY <1>0, <1>1, <2>1, FirstClaimMoves
  <2>3. state[i] # "absent"
    BY <1>1, <2>1 DEF PartInv, OrderInv
  <2> QED
    BY <1>1, <2>1, <2>2, <2>3
<1>2. ASSUME NEW w \in Workers, cand'[w] = cand[w] \/ cand'[w] = {}
      PROVE  /\ cand'[w] # {} => MaxClaims # 0
             /\ \A j \in cand'[w] : state'[j] # "absent"
             /\ \A i, j \in Parts : i < j /\ j \in cand'[w] /\ state'[i] = "pending" /\ attempts'[i] = 0
                   => i \in cand'[w]
  <2>1. \A j \in cand[w] : state'[j] # "absent"
    BY <1>0, RowsStay DEF PartInv, CandInv, PromiseInv
  <2>2. ASSUME NEW i \in Parts, NEW j \in Parts, i < j, j \in cand[w], state'[i] = "pending", attempts'[i] = 0
        PROVE  i \in cand[w]
    <3>1. state[i] = "pending" /\ attempts[i] = 0
      BY <1>1, <2>2 DEF PartInv, CandInv
    <3> QED
      BY <2>2, <3>1 DEF PartInv, CandInv
  <2> QED
    BY <1>2, <2>1, <2>2 DEF PartInv, CandInv
<1>3. ASSUME NEW w \in Workers, ListPending(w)
      PROVE  /\ cand'[w] # {} => MaxClaims # 0
             /\ \A j \in cand'[w] : state'[j] # "absent"
             /\ \A i, j \in Parts : i < j /\ j \in cand'[w] /\ state'[i] = "pending" /\ attempts'[i] = 0
                   => i \in cand'[w]
  <2>1. cand'[w] = {j \in Jobs : Claimable(j) /\ PartClaimAllowed(j)} /\ state' = state
    BY <1>0, <1>3 DEF ListPending, row
  <2>2. \A j \in cand'[w] : state[j] = "pending" /\ attempts[j] < MaxClaims /\ attempts[j] \in Nat
    BY <1>0, <2>1 DEF Claimable, RowType
  <2>3. ASSUME NEW i \in Parts, NEW j \in Parts, i < j, j \in cand'[w], state'[i] = "pending", attempts'[i] = 0
        PROVE  i \in cand'[w]
    <3>1. state[i] = "pending" /\ attempts[i] = 0
      BY <1>1, <2>2, <2>3
    <3>2. attempts[i] = 0 /\ ~delayed[i]
      BY <1>0, <3>1 DEF PartInv, OrderInv
    <3>3. attempts[i] < MaxClaims
      BY <1>0, <2>2, <2>3, <3>2
    <3>4. PartClaimAllowed(i)
      BY <2>1, <2>3 DEF PartClaimAllowed
    <3> QED
      BY <1>0, <2>1, <3>1, <3>2, <3>3, <3>4 DEF Claimable
  <2>4. cand'[w] # {} => MaxClaims # 0
    BY <1>0, <2>2
  <2> QED
    BY <2>1, <2>2, <2>3, <2>4
<1>4. ASSUME NEW w \in Workers, NEW k \in Jobs, ClaimNext(w, k)
      PROVE  /\ cand'[w] # {} => MaxClaims # 0
             /\ \A j \in cand'[w] : state'[j] # "absent"
             /\ \A i, j \in Parts : i < j /\ j \in cand'[w] /\ state'[i] = "pending" /\ attempts'[i] = 0
                   => i \in cand'[w]
  <2>1. cand'[w] = cand[w] \ {k} /\ k \in cand[w]
    BY <1>0, <1>4 DEF ClaimNext
  <2>2. \A j \in cand'[w] : state'[j] # "absent"
    BY <1>0, <2>1, RowsStay DEF PartInv, CandInv, PromiseInv
  <2>3. ASSUME NEW i \in Parts, NEW j \in Parts, i < j, j \in cand'[w], state'[i] = "pending", attempts'[i] = 0
        PROVE  i \in cand'[w]
    <3>1. state[i] = "pending" /\ attempts[i] = 0
      BY <1>1, <2>1, <2>3 DEF PartInv, CandInv
    <3>2. i \in cand[w]
      BY <2>1, <2>3, <3>1 DEF PartInv, CandInv
    <3>3. Claimable(i)
      <4>1. attempts[i] = 0 /\ ~delayed[i]
        BY <1>0, <3>1 DEF PartInv, OrderInv
      <4>2. MaxClaims # 0
        BY <3>2 DEF PartInv, CandInv
      <4> QED
        BY <1>0, <3>1, <4>1, <4>2 DEF Claimable
    <3>4. i # k
      <4>1. CASE i = k
        <5>1. state'[i] = "parsing"
          BY <1>0, <1>4, <3>3, <4>1 DEF ClaimNext, ClaimRow, RowType
        <5> QED
          BY <2>3, <5>1
      <4> QED
        BY <4>1
    <3> QED
      BY <2>1, <3>2, <3>4
  <2> QED
    BY <2>1, <2>2, <2>3 DEF PartInv, CandInv
<1>5. ASSUME NEW w \in Workers
      PROVE  \/ cand'[w] = cand[w] \/ cand'[w] = {}
             \/ ListPending(w) \/ \E k \in Jobs : ClaimNext(w, k)
  <2>1. CASE ~StepOf(w)
    BY <1>0, <2>1, OwnStepsOnly DEF LocalsOf
  <2>2. CASE ClaimStep(w)
    BY <1>0, <2>2 DEF ClaimStep, Sweep, Recover, RecoveryDone, NothingToClaim, CheckLimit, Release,
       Forget, locals
  <2>3. CASE ExecuteStep(w)
    BY <1>0, <2>3 DEF ExecuteStep, Refuse, Start, Reclaim, ReclaimRefused, Parse, Chunk, SaveBlocks,
       SaveChunks, Upsert, EnsureActiveClaim, Advance, Finish, SaveViews, StaleClaim,
       ExecuteRaises, Forget, locals
  <2>4. CASE Crash(w) \/ Restart(w)
    BY <1>0, <2>4 DEF Crash, Restart, Forget, locals
  <2> QED
    BY <2>1, <2>2, <2>3, <2>4 DEF StepOf
<1> QED
  BY <1>2, <1>3, <1>4, <1>5 DEF CandInv

\* Every step keeps how many are ahead of a part that executes.
LEMMA LimitStep ==
    ASSUME PromiseInv, Assumptions, PartLimit > 0, PartInv, [Next]_vars
    PROVE  LimitInv'
<1> SUFFICES ASSUME NEW w \in Workers, pc'[w] \in {"start"} \cup Working, HoldsClaim(w)',
                    job'[w] \in Parts, attempts'[job'[w]] = 1
             PROVE  Cardinality({i \in ActiveParts' : i < job'[w] /\ attempts'[i] = 1}) < PartLimit
  BY DEF LimitInv, Ahead
<1> DEFINE j == job'[w]
           next == {i \in ActiveParts' : i < j /\ attempts'[i] = 1}
<1>0. /\ TypeInv /\ ClaimInv /\ CancelTargetInv /\ RowType /\ RowInv /\ WorkerInv
      /\ pc \in [Workers -> Control] /\ tok \in [Workers -> Nat] /\ job \in [Workers -> Jobs \cup {NoJob}]
      /\ Parts \subseteq Jobs /\ Jobs \subseteq Nat /\ PartLimit \in Nat
  BY TypeInvParts DEF PromiseInv, ClaimInv, ControlType, LocalType, Assumptions, DocsAssumption,
     BoundsAssumption, Jobs
<1>1. Ahead(j) \in SUBSET Parts
  BY DEF Ahead, ActiveParts
\* Nobody gets ahead of a part that has been claimed.
<1>2. ASSUME attempts[j] = 1 PROVE next \subseteq Ahead(j)
  <2> SUFFICES ASSUME NEW i \in Parts, state'[i] \in Active, i < j, attempts'[i] = 1
               PROVE  state[i] \in Active /\ attempts[i] = 1
    BY DEF Ahead, ActiveParts
  <2>1. i \in Jobs /\ attempts[i] \in Nat /\ attempts'[i] \in {attempts[i], attempts[i] + 1}
    BY <1>0, FirstClaimMoves DEF RowType
  <2>2. attempts[i] # 0
    <3>1. ASSUME attempts[i] = 0 PROVE FALSE
      <4>1. state[i] = "pending"
        BY <1>0, <2>1, <3>1, FirstClaimMoves
      <4> QED
        BY <1>2, <3>1, <4>1 DEF PartInv, OrderInv
    <3> QED
      BY <3>1
  <2>3. attempts[i] = 1
    BY <2>1, <2>2
  <2> QED
    BY <1>0, <2>1, <2>3, FirstClaimMoves
<1>3. ASSUME NEW T, T \subseteq Ahead(j) PROVE Cardinality(T) <= Cardinality(Ahead(j)) /\ Cardinality(T) \in Nat /\ Cardinality(Ahead(j)) \in Nat
  BY <1>1, <1>3, PartsFinite
<1>4. ASSUME attempts[j] = 1, Cardinality(Ahead(j)) < PartLimit
      PROVE  Cardinality(next) < PartLimit
  <2>1. next \subseteq Ahead(j)
    BY <1>2, <1>4
  <2> HIDE DEF j, next
  <2> QED
    BY <1>0, <1>3, <1>4, <2>1
<1>5. CASE CheckLimit(w)
  <2>1. /\ pc[w] = "checkLimit" /\ pc'[w] = IF OverLimit(job[w]) THEN "release" ELSE "start"
        /\ UNCHANGED <<row, locals>>
    BY <1>0, <1>5 DEF CheckLimit, Goto
  <2>2. UNCHANGED <<job, state, attempts>> /\ ~OverLimit(job[w])
    BY <2>1 DEF row, locals, Working
  <2> DEFINE ahead == {i \in ActiveParts : i < j}
  <2>3. j = job[w] /\ attempts[j] = 1 /\ Cardinality(ahead) < PartLimit
    <3>1. ahead \in SUBSET Parts
      BY DEF ActiveParts
    <3>2. Cardinality(ahead) \in Nat
      BY <3>1, PartsFinite
    <3> QED
      BY <1>0, <2>2, <3>2 DEF OverLimit
  <2>4. Ahead(j) \subseteq ahead /\ ahead \in SUBSET Parts
    BY DEF Ahead, ActiveParts
  <2>5. /\ Cardinality(Ahead(j)) <= Cardinality(ahead)
        /\ Cardinality(ahead) \in Nat /\ Cardinality(Ahead(j)) \in Nat
    BY <2>4, PartsFinite
  <2>6. Cardinality(Ahead(j)) < PartLimit
    BY <1>0, <2>3, <2>5
  <2> QED
    BY <1>4, <2>3, <2>6
<1>6. ASSUME pc[w] \in {"start"} \cup Working, job'[w] = job[w], tok'[w] = tok[w]
      PROVE  Cardinality(next) < PartLimit
  <2>1. HoldsClaim(w)
    BY <1>0, <1>6, LostClaimStaysLost
  <2>2. state[j] \in Active /\ j \in Jobs
    BY <1>0, <1>6, <2>1 DEF HoldsClaim, RowInv
  <2>3. attempts[j] = 1
    BY <1>0, <2>2, FirstClaimMoves DEF Active
  <2> QED
    BY <1>4, <1>6, <2>1, <2>3 DEF PartInv, LimitInv
<1>7. CASE ClaimStep(w) /\ ~CheckLimit(w)
  <2>1. CASE pc'[w] = pc[w]
    <3>1. pc[w] \in {"recover", "claim"}
      BY <1>0, <1>7, <2>1 DEF ClaimStep, Sweep, Recover, RecoveryDone, ListPending, ClaimNext,
         NothingToClaim, Release, Goto
    <3> QED
      BY <2>1, <3>1 DEF Working
  <2>2. CASE pc'[w] # pc[w]
    <3>1. pc'[w] \in {"recover", "list", "claim", "checkLimit", "idle", "down"}
      BY <1>0, <1>7, <2>2 DEF ClaimStep, Sweep, Recover, RecoveryDone, ListPending, ClaimNext,
         NothingToClaim, Release, Goto
    <3> QED
      BY <3>1 DEF Working
  <2> QED
    BY <2>1, <2>2
<1>8. CASE ExecuteStep(w)
  <2>1. CASE Reclaim(w)
    <3>1. job[w] \in Jobs /\ tok[w] # 0 /\ tok[w] <= attempts[job[w]] /\ tok[w] \in Nat
      BY <1>0, <2>1 DEF Reclaim, Goto, WorkerInv, TypeInv, TypeOK, BusyWorkerHasJob
    <3>2. job' = job /\ attempts'[job[w]] = attempts[job[w]] + 1
      BY <1>0, <2>1, <3>1 DEF Reclaim, ClaimRow, RowType
    <3>3. attempts[job[w]] \in Nat /\ attempts[job[w]] # 0
      <4>1. attempts[job[w]] \in Nat
        BY <1>0, <3>1 DEF RowType
      <4> QED
        BY <3>1, <4>1
    <3> QED
      BY <3>2, <3>3
  <2>2. CASE ~Reclaim(w) /\ pc'[w] # "idle"
    <3>1. pc[w] \in {"start"} \cup Working /\ job'[w] = job[w] /\ tok'[w] = tok[w]
      BY <1>0, <1>8, <2>2 DEF ExecuteStep, Refuse, Start, ReclaimRefused, Parse, Chunk, SaveBlocks,
         SaveChunks, Upsert, EnsureActiveClaim, Advance, Finish, SaveViews, StaleClaim,
         ExecuteRaises, Goto, Working, locals
    <3> QED
      BY <1>6, <3>1
  <2>3. pc'[w] # "idle"
    BY DEF Working
  <2> QED
    BY <2>1, <2>2, <2>3
<1>9. CASE Crash(w) \/ Restart(w)
  <2>1. pc'[w] \in {"down", "idle"}
    BY <1>0, <1>9 DEF Crash, Restart, Goto
  <2> QED
    BY <2>1 DEF Working
<1>10. CASE ~StepOf(w)
  <2>1. pc'[w] = pc[w] /\ job'[w] = job[w] /\ tok'[w] = tok[w]
    BY <1>0, <1>10, OwnStepsOnly DEF LocalsOf
  <2> QED
    BY <1>6, <2>1
<1> QED
  BY <1>5, <1>7, <1>8, <1>9, <1>10 DEF StepOf

\* The order of the claims holds always.
LEMMA PartInvariant ==
    ASSUME PartLimit > 0
    PROVE  Spec => []PartInv
<1> USE JobsAssumption, DocsAssumption, ModeAssumption, BoundsAssumption DEF Assumptions
<1>1. Init => PartInv
  BY DEF Init, PartInv, OrderInv, CandInv, LimitInv, Working
<1>2. PromiseInv /\ PartInv /\ [Next]_vars => PartInv'
  BY OrderStep, CandStep, LimitStep DEF PartInv
<1> QED
  BY <1>1, <1>2, PromiseInvariant, PTL DEF Spec

\* A set of job numbers has a largest one.
LEMMA LastOf ==
    ASSUME Assumptions, NEW S \in SUBSET Jobs, S # {}
    PROVE  \E j \in S : \A i \in S : i <= j
<1> DEFINE R == OpToRel(<, Nat)
           T == {NumJobs - i : i \in S}
<1>0. NumJobs \in Nat /\ \A i \in S : i \in 1..NumJobs
  BY DEF Assumptions, JobsAssumption, Jobs
<1>1. T \subseteq Nat /\ T # {}
  BY <1>0
<1>2. IsWellFoundedOn(R, Nat)
  BY NatLessThanWellFounded
<1>3. PICK x \in T : \A y \in T : ~(<<y, x>> \in R)
  <2> HIDE DEF R, T
  <2> QED
    BY <1>1, <1>2, WFMin
<1>4. PICK j \in S : x = NumJobs - j
  BY <1>3
<1>5. ASSUME NEW i \in S PROVE i <= j
  <2>1. NumJobs - i \in T /\ NumJobs - i \in Nat
    BY <1>0
  <2>2. ~(NumJobs - i < NumJobs - j)
    BY <1>1, <1>3, <1>4, <2>1 DEF OpToRel
  <2> QED
    BY <1>0, <2>2
<1> QED
  BY <1>5

\* The parts of a document that execute under their first claim never exceed
\* max_active_parts_per_doc, for any number of parts and workers, whatever is given
\* back, retried, crashes, times out or is cancelled.
THEOREM FirstClaimsAreLimited == Spec => []FirstClaimsRespectLimit
<1> USE JobsAssumption, DocsAssumption, ModeAssumption, BoundsAssumption DEF Assumptions
<1>1. ASSUME PartLimit > 0, TypeInv, ClaimInv, PartInv PROVE FirstClaimsRespectLimit
  <2> DEFINE S == {w \in Executing : job[w] \in Parts /\ attempts[job[w]] = 1}
             F == {job[w] : w \in S}
             f == [w \in S |-> job[w]]
  <2>0. PartLimit \in Nat /\ Parts \subseteq Jobs /\ Jobs \subseteq Nat
    BY DEF BoundsAssumption, DocsAssumption, Jobs
  <2>1. \A w \in S : /\ w \in Workers /\ pc[w] \in Working /\ HoldsClaim(w)
                    /\ job[w] \in Parts /\ attempts[job[w]] = 1 /\ state[job[w]] \in Active
    BY <1>1, <2>0 DEF Executing, HoldsClaim, ClaimInv, RowInv
  <2>2. F \in SUBSET Parts
    BY <2>1
  <2>3. IsFiniteSet(F) /\ Cardinality(F) \in Nat
    BY <2>2, PartsFinite
  <2>4. f \in Injection(S, F)
    <3>1. ASSUME NEW v \in S, NEW w \in S, job[v] = job[w] PROVE v = w
      <4>1. v \in Workers /\ w \in Workers /\ HoldsClaim(v) /\ HoldsClaim(w)
        BY <2>1
      <4> HIDE DEF S
      <4> QED
        BY <1>1, <3>1, <4>1 DEF ClaimInv, OneHolder, HoldsClaim
    <3>2. f \in [S -> F] /\ \A v, w \in S : f[v] = f[w] => v = w
      BY <3>1
    <3> QED
      BY <3>2 DEF Injection, IsInjective
  <2>5. IsFiniteSet(S) /\ Cardinality(S) <= Cardinality(F)
    <3> HIDE DEF S, F, f
    <3> QED
      BY <2>3, <2>4, FS_Injection
  <2>6. Cardinality(S) \in Nat
    BY <2>5, FS_CardinalityType
  <2>7. Cardinality(F) <= PartLimit
    <3>1. CASE F = {}
      <4> HIDE DEF F
      <4> QED
        BY <2>0, <3>1, FS_EmptySet
    <3>2. CASE F # {}
      <4>1. PICK j \in F : \A i \in F : i <= j
        <5> HIDE DEF F
        <5> QED
          BY <2>0, <2>2, <3>2, LastOf
      <4>2. PICK w \in S : job[w] = j
        BY <4>1
      <4>3. Cardinality(Ahead(j)) < PartLimit
        <5>1. w \in Workers /\ pc[w] \in Working /\ HoldsClaim(w) /\ j \in Parts /\ attempts[j] = 1
          BY <2>1, <4>2
        <5> HIDE DEF S, F
        <5> QED
          BY <1>1, <4>2, <5>1 DEF PartInv, LimitInv
      <4>4. F \ {j} \subseteq Ahead(j)
        <5> SUFFICES ASSUME NEW v \in S, job[v] # j PROVE job[v] \in Ahead(j)
          OBVIOUS
        <5>1. job[v] \in Parts /\ attempts[job[v]] = 1 /\ state[job[v]] \in Active
          BY <2>1
        <5>2. job[v] <= j /\ job[v] \in Nat /\ j \in Nat
          BY <2>0, <2>2, <4>1, <5>1
        <5> HIDE DEF S, F
        <5> QED
          BY <5>1, <5>2 DEF Ahead, ActiveParts
      <4>5. Ahead(j) \in SUBSET Parts
        BY DEF Ahead, ActiveParts
      <4>6. Cardinality(F \ {j}) <= Cardinality(Ahead(j)) /\ Cardinality(Ahead(j)) \in Nat
        <5> HIDE DEF F
        <5> QED
          BY <4>4, <4>5, PartsFinite
      <4>7. Cardinality(F \ {j}) = Cardinality(F) - 1
        <5> HIDE DEF F
        <5> QED
          BY <2>3, <4>1, FS_RemoveElement
      <4> QED
        BY <2>0, <2>3, <4>3, <4>6, <4>7
    <3> QED
      BY <3>1, <3>2
  <2>8. Cardinality(S) <= PartLimit
    BY <2>0, <2>3, <2>5, <2>6, <2>7
  <2> QED
    BY <2>8 DEF FirstClaimsRespectLimit
<1>2. CASE PartLimit > 0
  <2>1. [](PartLimit > 0)
    BY <1>2, PTL
  <2>2. PartLimit > 0 /\ TypeInv /\ ClaimInv /\ PartInv => FirstClaimsRespectLimit
    BY <1>1
  <2> QED
    BY <1>2, <2>1, <2>2, TypeInvariant, ClaimInvariant, PartInvariant, PTL
<1>3. CASE ~(PartLimit > 0)
  <2>1. FirstClaimsRespectLimit
    BY <1>3 DEF FirstClaimsRespectLimit
  <2> QED
    BY <2>1, PTL
<1> QED
  BY <1>2, <1>3

\* The four together: what the queue's claims are for.
THEOREM ClaimsSound == Spec => []ClaimsAreSound
<1>1. ExclusiveClaim /\ ClaimIffActive /\ AttemptsBounded /\ FirstClaimsRespectLimit => ClaimsAreSound
  BY DEF ClaimsAreSound
<1> QED
  BY <1>1, ClaimIsExclusive, ClaimMeansActive, AttemptsAreBounded, FirstClaimsAreLimited, PTL
=============================================================================
