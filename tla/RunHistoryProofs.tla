-------------------------- MODULE RunHistoryProofs --------------------------
(***************************************************************************)
(* For any number of jobs, attempts and jobs at once: the store of a        *)
(* document is of one run whenever nothing runs and a parse or a rerun of   *)
(* the chunks has been alone since jobs overlapped or died, and a manifest  *)
(* written then holds the difference to the run that it names.              *)
(***************************************************************************)
EXTENDS RunHistory, WellFoundedInduction, TLAPS

USE RunAssumption

Whole == chunks.of = blocks /\ index.by = chunks.by

\* Attempts are counted and statements have names while a job runs.
RowsFit ==
    \A j \in Jobs :
        /\ job[j].state = "pending" => job[j].attempt < MaxAttempts
        /\ job[j].state = "running" => job[j].attempt \in 1..MaxAttempts

\* While nothing has overlapped, whoever runs is alone.
AloneIsAlone == \A j \in Running : job[j].alone => Running = {j}
CleanIsAlone == clean => \A j \in Running : job[j].alone
WholeAtRest == clean /\ Running = {} => Whole

\* A job that is alone knows what it has stored.  A rerun of the embeddings keeps the
\* chunks, and is only as good as what it found.
Sure(j) == job[j].alone /\ (clean \/ job[j].mode # "embeddings")
HasStored(j) ==
    /\ job[j].at \in {"build", "saveChunks", "upsert", "end"} => job[j].blocks = blocks
    /\ job[j].at = "saveChunks" => job[j].chunks.of = blocks
    /\ job[j].at = "upsert" => chunks = job[j].chunks /\ chunks.of = blocks
    /\ job[j].at = "end" => Whole

\* Until it writes, a job leaves whole what it has found whole.
HasFound(j) ==
    /\ job[j].at \in {"load", "save"} => Whole
    /\ job[j].mode = "chunks" /\ job[j].at \in {"build", "saveChunks"} => Whole
    /\ job[j].mode = "embeddings" /\ job[j].at = "save" => job[j].blocks = blocks
    /\ job[j].mode = "embeddings" /\ job[j].at = "build" => chunks.of = blocks
Stage(j) ==
    /\ Sure(j) => HasStored(j)
    /\ clean => HasFound(j)
    /\ job[j].mode = "chunks" => job[j].at # "save"
Stages == \A j \in Running : Stage(j)

RunInv == RunTypeOK /\ RowsFit /\ AloneIsAlone /\ CleanIsAlone /\ WholeAtRest /\ Stages

-----------------------------------------------------------------------------
\* The rows that the actions write.
LEMMA IdleRow == Idle \in Rows
<1>1. None \in Attempts /\ NoChunks \in Copies
    BY DEF Attempts, NoChunks, Copies
<1> QED
    BY <1>1 DEF Idle, Rows, States, Statements, Modes
\* Create gives a row its state and mode.
LEMMA ModeRow ==
    ASSUME NEW r \in Rows, NEW s \in States, NEW m \in Modes
    PROVE  [r EXCEPT !.state = s, !.mode = m] \in Rows
BY DEF Rows
\* Start writes the locals of an attempt.
LEMMA StartRow ==
    ASSUME NEW r \in Rows, NEW s \in States, NEW a \in 0..MaxAttempts, NEW t \in Statements,
           NEW n \in 0..NumJobs, NEW b \in Attempts, NEW p \in BOOLEAN, NEW q \in BOOLEAN
    PROVE  [r EXCEPT !.state = s, !.attempt = a, !.at = t, !.named = n, !.base = b, !.alone = p, !.sound = q] \in Rows
BY DEF Rows
\* Start tells the others that they are not alone.
LEMMA AloneRow == ASSUME NEW r \in Rows, NEW p \in BOOLEAN PROVE [r EXCEPT !.alone = p] \in Rows
BY DEF Rows
\* A statement moves on.
LEMMA AtRow == ASSUME NEW r \in Rows, NEW t \in Statements PROVE [r EXCEPT !.at = t] \in Rows
BY DEF Rows
\* Load.
LEMMA BlocksRow == ASSUME NEW r \in Rows, NEW b \in Attempts PROVE [r EXCEPT !.blocks = b] \in Rows
BY DEF Rows
\* Build.
LEMMA ChunksRow == ASSUME NEW r \in Rows, NEW c \in Copies PROVE [r EXCEPT !.chunks = c] \in Rows
BY DEF Rows
\* Finish keeps the attempt and its blocks.
LEMMA EndRow ==
    ASSUME NEW r \in Rows, NEW s \in States, NEW a \in 0..MaxAttempts, NEW b \in Attempts
    PROVE  [r EXCEPT !.state = s, !.attempt = a, !.blocks = b] \in Rows
BY DEF Rows
\* Raise keeps the mode and the attempt.
LEMMA RaiseRow ==
    ASSUME NEW r \in Rows, NEW m \in Modes, NEW a \in 0..MaxAttempts, NEW s \in States
    PROVE  [r EXCEPT !.mode = m, !.attempt = a, !.state = s] \in Rows
BY DEF Rows

\* A set of numbers with a bound has a greatest one: the least distance to the bound.
LEMMA Greatest ==
    ASSUME NEW N \in Nat, NEW S \in SUBSET (1..N), S # {}
    PROVE  \E i \in S : \A k \in S : k =< i
<1> DEFINE R == OpToRel(<, Nat)
           T == {N - i : i \in S}
<1>1. T \subseteq Nat /\ T # {}
    <2>1. \A i \in S : N - i \in Nat
        OBVIOUS
    <2> QED
        BY <2>1
<1>2. IsWellFoundedOn(R, Nat)
    BY NatLessThanWellFounded
<1> HIDE DEF T
<1>3. PICK x \in T : \A y \in T : ~(<<y, x>> \in R)
    BY <1>1, <1>2, WFMin
<1>4. \A y \in T : ~(y < x)
    BY <1>1, <1>3 DEF OpToRel
<1>5. PICK i \in S : x = N - i
    BY <1>3 DEF T
<1>6. ASSUME NEW k \in S PROVE k =< i
    <2>1. N - k \in T
        BY DEF T
    <2> QED
        BY <2>1, <1>4, <1>5
<1> QED
    BY <1>6

\* The newest of the jobs that are done is a job, or there is none.
LEMMA PreviousIsAJob ==
    ASSUME NEW j \in Jobs
    PROVE  PreviousRun(j) \in 0..NumJobs
<1> DEFINE finished == {i \in Jobs \ {j} : job[i].state = "done"}
<1>1. CASE finished = {}
    BY <1>1 DEF PreviousRun
<1>2. CASE finished # {}
    <2>1. \E i \in finished : \A k \in finished : k =< i
        <3> finished \in SUBSET (1..NumJobs)
            BY DEF Jobs
        <3> HIDE DEF finished
        <3> QED
            BY <1>2, Greatest
    <2>2. PreviousRun(j) \in finished
        BY <1>2, <2>1 DEF PreviousRun
    <2> QED
        BY <2>2 DEF Jobs
<1> QED
    BY <1>1, <1>2

-----------------------------------------------------------------------------
\* Nothing runs in the beginning.
LEMMA RunStarts ==
    ASSUME RunInit
    PROVE  RunInv
<1>1. None \in Attempts /\ NoChunks \in Copies
    BY DEF Attempts, NoChunks, Copies
<1>2. RunTypeOK
    BY <1>1, IdleRow DEF RunInit, RunTypeOK, NoIndex, Indexes
<1>3. \A j \in Jobs : job[j].state = "none"
    BY DEF RunInit, Idle
<1>4. Running = {}
    BY <1>3 DEF Running
<1>5. Whole
    BY DEF RunInit, Whole, NoChunks, NoIndex
<1> QED
    BY <1>2, <1>3, <1>4, <1>5 DEF RunInv, RowsFit, AloneIsAlone, CleanIsAlone, WholeAtRest, Stages

\* A job is created: nothing else changes.
LEMMA CreateKeeps ==
    ASSUME RunInv, NEW j \in Jobs, NEW mode \in Modes,
           Create(j, mode)
    PROVE  RunInv'
<1>1. job \in [Jobs -> Rows]
    BY DEF RunInv, RunTypeOK
<1>2. UNCHANGED <<blocks, chunks, index, clean, latest>> /\ job[j].state = "none"
    BY DEF Create
<1>3. /\ job'[j] = [Idle EXCEPT !.state = "pending", !.mode = mode]
      /\ \A i \in Jobs \ {j} : job'[i] = job[i]
      /\ job' \in [Jobs -> Rows]
    <2>1. [Idle EXCEPT !.state = "pending", !.mode = mode] \in Rows
        BY IdleRow, ModeRow DEF States
    <2> QED
        BY <1>1, <2>1 DEF Create
<1>4. job'[j].state = "pending" /\ job'[j].attempt = 0
    BY <1>3 DEF Idle
<1>5. RunTypeOK'
    BY <1>2, <1>3 DEF RunInv, RunTypeOK
<1>6. RowsFit'
    <2> SUFFICES ASSUME NEW i \in Jobs
                 PROVE  /\ job'[i].state = "pending" => job'[i].attempt < MaxAttempts
                        /\ job'[i].state = "running" => job'[i].attempt \in 1..MaxAttempts
        BY DEF RowsFit
    <2>1. CASE i = j
        BY <2>1, <1>4
    <2>2. CASE i # j
        BY <2>2, <1>3 DEF RunInv, RowsFit
    <2> QED
        BY <2>1, <2>2
<1>7. Running' = Running /\ j \notin Running
    BY <1>2, <1>3, <1>4 DEF Running
<1> QED
    BY <1>2, <1>3, <1>5, <1>6, <1>7
    DEF RunInv, AloneIsAlone, CleanIsAlone, WholeAtRest, Stages, Stage, Sure, HasStored, HasFound, Whole, Running

\* A statement of a job that goes on running: the others, if there are any, show
\* that it is not alone.
LEMMA StatementKeeps ==
    ASSUME RunInv, NEW j \in Running,
           job' \in [Jobs -> Rows], \A i \in Jobs \ {j} : job'[i] = job[i],
           job'[j].state = "running", job'[j].mode = job[j].mode, job'[j].alone = job[j].alone,
           job'[j].attempt = job[j].attempt, clean' = clean, latest' = latest,
           blocks' \in Attempts, chunks' \in Copies, index' \in Indexes, Stage(j)'
    PROVE  RunInv'
<1>1. j \in Jobs /\ job[j].state = "running"
    BY DEF Running
<1>2. Running' = Running
    BY <1>1 DEF Running
<1>3. RunTypeOK'
    BY DEF RunInv, RunTypeOK
<1>4. RowsFit'
    <2> SUFFICES ASSUME NEW i \in Jobs
                 PROVE  /\ job'[i].state = "pending" => job'[i].attempt < MaxAttempts
                        /\ job'[i].state = "running" => job'[i].attempt \in 1..MaxAttempts
        BY DEF RowsFit
    <2>1. CASE i = j
        BY <2>1, <1>1 DEF RunInv, RowsFit
    <2>2. CASE i # j
        BY <2>2 DEF RunInv, RowsFit
    <2> QED
        BY <2>1, <2>2
<1>5. \A i \in Running : job'[i].alone = job[i].alone
    BY DEF Running
<1>6. AloneIsAlone' /\ CleanIsAlone'
    BY <1>2, <1>5 DEF RunInv, AloneIsAlone, CleanIsAlone
<1>7. WholeAtRest'
    BY <1>2 DEF WholeAtRest
<1>8. ASSUME NEW i \in Running, i # j PROVE Stage(i)'
    <2>1. job'[i] = job[i]
        BY <1>8 DEF Running
    <2>2. ~job[i].alone
        BY <1>8 DEF RunInv, AloneIsAlone
    <2>3. ~clean
        BY <2>2 DEF RunInv, CleanIsAlone
    <2>4. job[i].mode = "chunks" => job[i].at # "save"
        BY DEF RunInv, Stages, Stage
    <2> QED
        BY <2>1, <2>2, <2>3, <2>4 DEF Stage, Sure
<1>9. Stages'
    BY <1>2, <1>8 DEF Stages
<1> QED
    BY <1>3, <1>4, <1>6, <1>7, <1>9 DEF RunInv

\* A job that ends leaves nothing else running if the store is clean then.
LEMMA EndKeeps ==
    ASSUME RunInv, NEW j \in Running,
           job' \in [Jobs -> Rows], \A i \in Jobs \ {j} : job'[i] = job[i],
           job'[j].state # "running", job'[j].state = "pending" => job'[j].attempt < MaxAttempts,
           UNCHANGED <<blocks, chunks, index>>, latest' \in 0..NumJobs, clean' \in BOOLEAN,
           clean' => job[j].alone /\ Whole
    PROVE  RunInv'
<1>1. j \in Jobs /\ job[j].state = "running"
    BY DEF Running
<1>2. Running' = Running \ {j}
    BY <1>1 DEF Running
<1>3. RunTypeOK'
    BY DEF RunInv, RunTypeOK
<1>4. RowsFit'
    <2> SUFFICES ASSUME NEW i \in Jobs
                 PROVE  /\ job'[i].state = "pending" => job'[i].attempt < MaxAttempts
                        /\ job'[i].state = "running" => job'[i].attempt \in 1..MaxAttempts
        BY DEF RowsFit
    <2>1. CASE i = j
        BY <2>1
    <2>2. CASE i # j
        BY <2>2 DEF RunInv, RowsFit
    <2> QED
        BY <2>1, <2>2
<1>5. clean' => Running' = {}
    BY <1>2 DEF RunInv, AloneIsAlone
<1>6. ASSUME NEW i \in Running'
      PROVE  job'[i] = job[i] /\ ~job[i].alone
    <2>1. i \in Running /\ i # j
        BY <1>2
    <2> QED
        BY <2>1 DEF RunInv, AloneIsAlone, Running
<1>7. AloneIsAlone' /\ CleanIsAlone'
    BY <1>5, <1>6 DEF AloneIsAlone, CleanIsAlone
<1>8. WholeAtRest'
    BY DEF WholeAtRest, Whole
<1>9. Stages'
    <2> SUFFICES ASSUME NEW i \in Running' PROVE Stage(i)'
        BY DEF Stages
    <2>1. job[i].mode = "chunks" => job[i].at # "save"
        BY <1>2 DEF RunInv, Stages, Stage
    <2> QED
        BY <1>5, <1>6, <2>1 DEF Stage, Sure
<1> QED
    BY <1>3, <1>4, <1>7, <1>8, <1>9 DEF RunInv

-----------------------------------------------------------------------------
\* The types of what a job that runs reads and holds.
LEMMA RunTypes ==
    ASSUME RunInv, NEW j \in Running
    PROVE  /\ j \in Jobs /\ job[j] \in Rows /\ job[j].state = "running"
           /\ job[j].attempt \in 1..MaxAttempts /\ job[j].attempt \in 0..MaxAttempts
           /\ job[j].mode \in Modes /\ job[j].blocks \in Attempts /\ job[j].chunks \in Copies
           /\ job[j].chunks.by \in Attempts /\ job[j].chunks.of \in Attempts
           /\ job[j].named \in 0..NumJobs /\ job[j].base \in Attempts /\ job[j].sound \in BOOLEAN
           /\ <<j, job[j].attempt>> \in Attempts
           /\ Stage(j)
<1>1. j \in Jobs /\ job[j].state = "running" /\ job[j] \in Rows
    BY DEF Running, RunInv, RunTypeOK
<1>2. job[j].attempt \in 1..MaxAttempts
    BY <1>1 DEF RunInv, RowsFit
<1>3. <<j, job[j].attempt>> \in Attempts
    BY <1>1, <1>2 DEF Attempts
<1>4. job[j].chunks \in Copies
    BY <1>1 DEF Rows
<1>5. job[j].chunks.by \in Attempts /\ job[j].chunks.of \in Attempts
    BY <1>4 DEF Copies
<1>6. Stage(j)
    BY DEF RunInv, Stages
<1>7. job[j].attempt \in 0..MaxAttempts
    BY <1>2
<1> QED
    BY <1>1, <1>2, <1>3, <1>4, <1>5, <1>6, <1>7 DEF Rows

\* Load writes nothing to the store.
LEMMA LoadKeeps ==
    ASSUME RunInv, NEW j \in Jobs, Load(j)
    PROVE  RunInv'
<1> DEFINE b == IF job[j].mode = "parse" THEN <<j, job[j].attempt>> ELSE blocks
           to == IF job[j].mode = "chunks" THEN "build" ELSE "save"
           row == [[job[j] EXCEPT !.blocks = b] EXCEPT !.at = to]
<1>1. j \in Running /\ job[j].at = "load" /\ job' = [job EXCEPT ![j] = row]
    BY DEF Load, Goto, Running
<1>2. UNCHANGED <<blocks, chunks, index, clean, latest>>
    BY DEF Load
<1>3. job[j] \in Rows /\ <<j, job[j].attempt>> \in Attempts /\ Stage(j)
    BY <1>1, RunTypes
<1>4. blocks \in Attempts /\ chunks \in Copies /\ index \in Indexes /\ job \in [Jobs -> Rows]
    BY DEF RunInv, RunTypeOK
<1>5. b \in Attempts /\ to \in Statements
    BY <1>3, <1>4 DEF Statements
<1> HIDE DEF b, to
<1>6. row \in Rows
    BY <1>3, <1>5, BlocksRow, AtRow
<1>7. /\ row.state = job[j].state /\ row.mode = job[j].mode /\ row.alone = job[j].alone
      /\ row.attempt = job[j].attempt /\ row.blocks = b /\ row.at = to
    BY <1>3 DEF Rows
<1> HIDE DEF row
<1>8. job' \in [Jobs -> Rows] /\ job'[j] = row /\ \A i \in Jobs \ {j} : job'[i] = job[i]
    BY <1>1, <1>4, <1>6
<1>9. clean => Whole
    BY <1>1, <1>3 DEF Stage, HasFound
<1>10. Stage(j)'
    <2>1. Whole' = Whole
        BY <1>2 DEF Whole
    <2> QED
        BY <1>2, <1>7, <1>8, <1>9, <2>1 DEF Stage, Sure, HasStored, HasFound, b, to
<1>11. job'[j].state = "running"
    BY <1>1, <1>7, <1>8 DEF Running
<1> QED
    BY <1>1, <1>2, <1>4, <1>7, <1>8, <1>10, <1>11, StatementKeeps

\* What is stored is of the blocks of the job from here on.
LEMMA SaveBlocksKeeps ==
    ASSUME RunInv, NEW j \in Jobs, SaveBlocks(j)
    PROVE  RunInv'
<1> DEFINE row == [job[j] EXCEPT !.at = "build"]
<1>1. j \in Running /\ job[j].at = "save" /\ job' = [job EXCEPT ![j] = row]
    BY DEF SaveBlocks, Goto, Running
<1>2. blocks' = job[j].blocks /\ UNCHANGED <<chunks, index, clean, latest>>
    BY DEF SaveBlocks
<1>3. job[j] \in Rows /\ job[j].blocks \in Attempts /\ Stage(j)
    BY <1>1, RunTypes
<1>4. chunks \in Copies /\ index \in Indexes /\ job \in [Jobs -> Rows]
    BY DEF RunInv, RunTypeOK
<1>5. row \in Rows
    BY <1>3, AtRow DEF Statements
<1>6. /\ row.state = job[j].state /\ row.mode = job[j].mode /\ row.alone = job[j].alone
      /\ row.attempt = job[j].attempt /\ row.blocks = job[j].blocks /\ row.at = "build"
    BY <1>3 DEF Rows
<1> HIDE DEF row
<1>7. job' \in [Jobs -> Rows] /\ job'[j] = row /\ \A i \in Jobs \ {j} : job'[i] = job[i]
    BY <1>1, <1>4, <1>5
<1>8. Stage(j)'
    <2>1. job[j].mode # "chunks"
        BY <1>1, <1>3 DEF Stage
    <2>2. clean /\ job[j].mode = "embeddings" => chunks.of = job[j].blocks
        BY <1>1, <1>3 DEF Stage, HasFound, Whole
    <2> QED
        BY <1>2, <1>6, <1>7, <2>1, <2>2 DEF Stage, Sure, HasStored, HasFound
<1>9. job'[j].state = "running"
    BY <1>1, <1>6, <1>7 DEF Running
<1> QED
    BY <1>1, <1>2, <1>3, <1>4, <1>6, <1>7, <1>8, <1>9, StatementKeeps

\* The chunks are of the blocks that are stored, or of those of the chunks there.
LEMMA BuildKeeps ==
    ASSUME RunInv, NEW j \in Jobs, Build(j)
    PROVE  RunInv'
<1> DEFINE c == [by |-> <<j, job[j].attempt>>,
                 of |-> IF job[j].mode = "embeddings" THEN chunks.of ELSE job[j].blocks]
           row == [[job[j] EXCEPT !.chunks = c] EXCEPT !.at = "saveChunks"]
<1>1. j \in Running /\ job[j].at = "build" /\ job' = [job EXCEPT ![j] = row]
    BY DEF Build, Goto, Running
<1>2. UNCHANGED <<blocks, chunks, index, clean, latest>>
    BY DEF Build
<1>3. job[j] \in Rows /\ <<j, job[j].attempt>> \in Attempts /\ job[j].blocks \in Attempts /\ Stage(j)
    BY <1>1, RunTypes
<1>4. blocks \in Attempts /\ chunks \in Copies /\ index \in Indexes /\ job \in [Jobs -> Rows]
    BY DEF RunInv, RunTypeOK
<1>5. c \in Copies
    <2>1. chunks.of \in Attempts
        BY <1>4 DEF Copies
    <2> QED
        BY <1>3, <2>1 DEF Copies
<1>6. c.of = IF job[j].mode = "embeddings" THEN chunks.of ELSE job[j].blocks
    OBVIOUS
<1> HIDE DEF c
<1>7. row \in Rows
    BY <1>3, <1>5, ChunksRow, AtRow DEF Statements
<1>8. /\ row.state = job[j].state /\ row.mode = job[j].mode /\ row.alone = job[j].alone
      /\ row.attempt = job[j].attempt /\ row.blocks = job[j].blocks /\ row.chunks = c
      /\ row.at = "saveChunks"
    BY <1>3 DEF Rows
<1> HIDE DEF row
<1>9. job' \in [Jobs -> Rows] /\ job'[j] = row /\ \A i \in Jobs \ {j} : job'[i] = job[i]
    BY <1>1, <1>4, <1>7
<1>10. Stage(j)'
    <2>1. Whole' = Whole
        BY <1>2 DEF Whole
    <2>2. Sure(j) => job[j].blocks = blocks
        BY <1>1, <1>3 DEF Stage, HasStored
    <2>3. clean /\ job[j].mode = "embeddings" => chunks.of = blocks
        BY <1>1, <1>3 DEF Stage, HasFound
    <2>4. clean /\ job[j].mode = "chunks" => Whole
        BY <1>1, <1>3 DEF Stage, HasFound
    <2>5. Sure(j) => c.of = blocks
        BY <1>6, <2>2, <2>3 DEF Sure
    <2>6. Sure(j)' = Sure(j)
        BY <1>2, <1>8, <1>9 DEF Sure
    <2> QED
        BY <1>2, <1>8, <1>9, <2>1, <2>2, <2>4, <2>5, <2>6 DEF Stage, HasStored, HasFound
<1>11. job'[j].state = "running"
    BY <1>1, <1>8, <1>9 DEF Running
<1> QED
    BY <1>1, <1>2, <1>4, <1>8, <1>9, <1>10, <1>11, StatementKeeps

\* The chunks follow the blocks.
LEMMA SaveChunksKeeps ==
    ASSUME RunInv, NEW j \in Jobs, SaveChunks(j)
    PROVE  RunInv'
<1> DEFINE row == [job[j] EXCEPT !.at = "upsert"]
<1>1. j \in Running /\ job[j].at = "saveChunks" /\ job' = [job EXCEPT ![j] = row]
    BY DEF SaveChunks, Goto, Running
<1>2. chunks' = job[j].chunks /\ UNCHANGED <<blocks, index, clean, latest>>
    BY DEF SaveChunks
<1>3. job[j] \in Rows /\ job[j].chunks \in Copies /\ Stage(j)
    BY <1>1, RunTypes
<1>4. blocks \in Attempts /\ index \in Indexes /\ job \in [Jobs -> Rows]
    BY DEF RunInv, RunTypeOK
<1>5. row \in Rows
    BY <1>3, AtRow DEF Statements
<1>6. /\ row.state = job[j].state /\ row.mode = job[j].mode /\ row.alone = job[j].alone
      /\ row.attempt = job[j].attempt /\ row.blocks = job[j].blocks /\ row.chunks = job[j].chunks
      /\ row.at = "upsert"
    BY <1>3 DEF Rows
<1> HIDE DEF row
<1>7. job' \in [Jobs -> Rows] /\ job'[j] = row /\ \A i \in Jobs \ {j} : job'[i] = job[i]
    BY <1>1, <1>4, <1>5
<1>8. Stage(j)'
    <2>1. Sure(j) => job[j].blocks = blocks /\ job[j].chunks.of = blocks
        BY <1>1, <1>3 DEF Stage, HasStored
    <2>2. Sure(j)' = Sure(j)
        BY <1>2, <1>6, <1>7 DEF Sure
    <2> QED
        BY <1>2, <1>6, <1>7, <2>1, <2>2 DEF Stage, HasStored, HasFound
<1>9. job'[j].state = "running"
    BY <1>1, <1>6, <1>7 DEF Running
<1> QED
    BY <1>1, <1>2, <1>3, <1>4, <1>6, <1>7, <1>8, <1>9, StatementKeeps

\* The index follows the chunks: what is stored is whole.
LEMMA UpsertKeeps ==
    ASSUME RunInv, NEW j \in Jobs, Upsert(j)
    PROVE  RunInv'
<1> DEFINE row == [job[j] EXCEPT !.at = "end"]
<1>1. j \in Running /\ job[j].at = "upsert" /\ job' = [job EXCEPT ![j] = row]
    BY DEF Upsert, Goto, Running
<1>2. /\ index' = [by |-> job[j].chunks.by, named |-> job[j].named, base |-> job[j].base,
                   sound |-> job[j].sound]
      /\ UNCHANGED <<blocks, chunks, clean, latest>>
    BY DEF Upsert
<1>3. job[j] \in Rows /\ Stage(j)
    BY <1>1, RunTypes
<1>4. blocks \in Attempts /\ chunks \in Copies /\ job \in [Jobs -> Rows]
    BY DEF RunInv, RunTypeOK
<1>5. row \in Rows
    BY <1>3, AtRow DEF Statements
<1>6. /\ row.state = job[j].state /\ row.mode = job[j].mode /\ row.alone = job[j].alone
      /\ row.attempt = job[j].attempt /\ row.blocks = job[j].blocks /\ row.at = "end"
    BY <1>3 DEF Rows
<1> HIDE DEF row
<1>7. job' \in [Jobs -> Rows] /\ job'[j] = row /\ \A i \in Jobs \ {j} : job'[i] = job[i]
    BY <1>1, <1>4, <1>5
<1>8. index' \in Indexes /\ index'.by = job[j].chunks.by
    <2>1. /\ job[j].chunks.by \in Attempts /\ job[j].named \in 0..NumJobs
          /\ job[j].base \in Attempts /\ job[j].sound \in BOOLEAN
        BY <1>1, RunTypes
    <2> QED
        BY <1>2, <2>1 DEF Indexes
<1>9. Stage(j)'
    <2>1. Sure(j) => job[j].blocks = blocks /\ chunks = job[j].chunks /\ chunks.of = blocks
        BY <1>1, <1>3 DEF Stage, HasStored
    <2>2. Sure(j)' = Sure(j)
        BY <1>2, <1>6, <1>7 DEF Sure
    <2>3. Sure(j) => Whole'
        BY <1>2, <1>8, <2>1 DEF Whole
    <2> QED
        BY <1>2, <1>6, <1>7, <2>1, <2>2, <2>3 DEF Stage, HasStored, HasFound
<1>10. job'[j].state = "running"
    BY <1>1, <1>6, <1>7 DEF Running
<1> QED
    BY <1>1, <1>2, <1>4, <1>6, <1>7, <1>8, <1>9, <1>10, StatementKeeps

\* A job that has been alone leaves one whole.
LEMMA FinishKeeps ==
    ASSUME RunInv, NEW j \in Jobs, Finish(j)
    PROVE  RunInv'
<1> DEFINE ended == [Idle EXCEPT !.state = "done", !.attempt = job[j].attempt, !.blocks = job[j].blocks]
           row == [ended EXCEPT !.at = "none"]
<1>1. j \in Running /\ job[j].at = "end" /\ job' = [job EXCEPT ![j] = row]
    BY DEF Finish, Goto, Running
<1>2. /\ clean' = (clean \/ (job[j].alone /\ job[j].mode # "embeddings"))
      /\ latest' = j /\ UNCHANGED <<blocks, chunks, index>>
    BY DEF Finish
<1>3. /\ job[j] \in Rows /\ job[j].attempt \in 0..MaxAttempts /\ job[j].blocks \in Attempts
      /\ Stage(j)
    BY <1>1, RunTypes
<1>4. job \in [Jobs -> Rows] /\ clean \in BOOLEAN
    BY DEF RunInv, RunTypeOK
<1>5. ended \in Rows
    BY <1>3, IdleRow, EndRow DEF States
<1>6. ended.state = "done"
    BY DEF Idle
<1> HIDE DEF ended
<1>7. row \in Rows /\ row.state = "done"
    BY <1>5, <1>6, AtRow DEF Statements, Rows
<1> HIDE DEF row
<1>8. job' \in [Jobs -> Rows] /\ job'[j] = row /\ \A i \in Jobs \ {j} : job'[i] = job[i]
    BY <1>1, <1>4, <1>7
<1>9. clean' => job[j].alone /\ Whole
    <2>1. clean => job[j].alone
        BY <1>1 DEF RunInv, CleanIsAlone
    <2>2. clean' => Sure(j)
        BY <1>2, <2>1 DEF Sure
    <2> QED
        BY <1>1, <1>3, <2>2 DEF Stage, HasStored, Sure
<1>10. job[j].alone \in BOOLEAN
    BY <1>3 DEF Rows
<1>11. clean' \in BOOLEAN
    BY <1>2, <1>4, <1>10
<1>12. latest' \in 0..NumJobs
    BY <1>2 DEF Jobs
<1> QED
    BY <1>1, <1>2, <1>7, <1>8, <1>9, <1>11, <1>12, EndKeeps

\* An exception leaves a whole, or a store that is not clean.
LEMMA RaiseKeeps ==
    ASSUME RunInv, NEW j \in Jobs, Raise(j)
    PROVE  RunInv'
<1> DEFINE state == IF job[j].attempt < MaxAttempts THEN "pending" ELSE "failed"
           row == [Idle EXCEPT !.mode = job[j].mode, !.attempt = job[j].attempt, !.state = state]
<1>1. j \in Running /\ job' = [job EXCEPT ![j] = row]
    BY DEF Raise, Running
<1>2. /\ clean' = (clean /\ \/ job[j].at \in {"load", "save"}
                            \/ job[j].mode = "chunks" /\ job[j].at \in {"build", "saveChunks"})
      /\ UNCHANGED <<blocks, chunks, index, latest>>
    BY DEF Raise
<1>3. /\ job[j] \in Rows /\ job[j].attempt \in 0..MaxAttempts /\ job[j].mode \in Modes
      /\ Stage(j)
    BY <1>1, RunTypes
<1>4. job \in [Jobs -> Rows] /\ clean \in BOOLEAN /\ latest \in 0..NumJobs
    BY DEF RunInv, RunTypeOK
<1>5. state \in States /\ state # "running" /\ (state = "pending" => job[j].attempt < MaxAttempts)
    BY DEF States
<1> HIDE DEF state
<1>6. row \in Rows
    BY <1>3, <1>5, IdleRow, RaiseRow
<1>7. row.state = state /\ row.attempt = job[j].attempt
    BY DEF Idle
<1> HIDE DEF row
<1>8. job' \in [Jobs -> Rows] /\ job'[j] = row /\ \A i \in Jobs \ {j} : job'[i] = job[i]
    BY <1>1, <1>4, <1>6
<1>9. clean' => job[j].alone /\ Whole
    <2>1. clean => job[j].alone
        BY <1>1 DEF RunInv, CleanIsAlone
    <2> QED
        BY <1>2, <1>3, <2>1 DEF Stage, HasFound
<1>10. clean' \in BOOLEAN
    BY <1>2, <1>4
<1> QED
    BY <1>1, <1>2, <1>4, <1>5, <1>7, <1>8, <1>9, <1>10, EndKeeps

\* An attempt begins: whoever runs already is not alone any more.
LEMMA StartKeeps ==
    ASSUME RunInv, NEW j \in Jobs, Start(j)
    PROVE  RunInv'
<1> DEFINE base == IF PreviousRun(j) = 0 THEN None ELSE blocks
           sound == /\ clean /\ Running = {}
                    /\ \A k \in Jobs : job[k].state = "done" => k =< latest
           number == job[j].attempt + 1
           named == PreviousRun(j)
           alone == Running = {}
           first == [job[j] EXCEPT !.state = "running", !.attempt = number, !.at = "load",
                                   !.named = named, !.base = base, !.alone = alone, !.sound = sound]
<1>1. job[j].state = "pending" /\ j \notin Running
    BY DEF Start, Running
<1>2. job' = [i \in Jobs |-> IF i = j THEN first
                             ELSE IF i \in Running THEN [job[i] EXCEPT !.alone = FALSE] ELSE job[i]]
    BY DEF Start
<1>3. clean' = (clean /\ Running = {}) /\ UNCHANGED <<blocks, chunks, index, latest>>
    BY DEF Start
<1>4. RunTypeOK /\ job \in [Jobs -> Rows] /\ blocks \in Attempts /\ clean \in BOOLEAN
    BY DEF RunInv, RunTypeOK
<1>5. job[j] \in Rows /\ job[j].attempt \in 0..MaxAttempts
    BY <1>4 DEF Rows
<1>6. number \in 1..MaxAttempts /\ number \in 0..MaxAttempts
    BY <1>1, <1>5 DEF RunInv, RowsFit
<1>7. named \in 0..NumJobs
    BY PreviousIsAJob
<1>8. base \in Attempts
    BY <1>4 DEF Attempts
<1>9. sound \in BOOLEAN /\ alone \in BOOLEAN
    OBVIOUS
<1> HIDE DEF base, sound, number, named, alone
<1>10. first \in Rows
    <2>1. "running" \in States /\ "load" \in Statements
        BY DEF States, Statements
    <2> QED
        BY <1>5, <1>6, <1>7, <1>8, <1>9, <2>1, StartRow
<1>11. /\ first.state = "running" /\ first.attempt = number /\ first.at = "load"
       /\ first.alone = alone /\ first.mode = job[j].mode
    BY <1>5, <1>9 DEF Rows
<1> HIDE DEF first
<1> USE DEF alone
<1>12. ASSUME NEW i \in Running
       PROVE  /\ i \in Jobs /\ i # j /\ job'[i] \in Rows /\ ~job'[i].alone /\ job'[i].state = "running"
              /\ job'[i].mode = job[i].mode /\ job'[i].at = job[i].at /\ job'[i].attempt = job[i].attempt
    <2>1. i \in Jobs /\ i # j /\ job[i] \in Rows /\ job[i].state = "running"
        BY <1>1, <1>4 DEF Running
    <2>2. job'[i] = [job[i] EXCEPT !.alone = FALSE]
        BY <1>2, <2>1
    <2>3. job'[i] \in Rows
        BY <2>1, <2>2, AloneRow
    <2> QED
        BY <2>1, <2>2, <2>3 DEF Rows
<1>13. job'[j] = first
    BY <1>2
<1>14. \A i \in Jobs \ {j} : i \notin Running => job'[i] = job[i]
    BY <1>2
<1>15. Running' = Running \cup {j}
    BY <1>11, <1>12, <1>13, <1>14 DEF Running
<1>16. RunTypeOK'
    <2>1. \A i \in Jobs : job'[i] \in Rows
        BY <1>4, <1>10, <1>12, <1>13, <1>14
    <2>2. job' \in [Jobs -> Rows]
        BY <1>2, <2>1
    <2>3. clean' \in BOOLEAN
        BY <1>3, <1>4
    <2> QED
        BY <1>3, <1>4, <2>2, <2>3 DEF RunTypeOK
<1>17. RowsFit'
    <2> SUFFICES ASSUME NEW i \in Jobs
                 PROVE  /\ job'[i].state = "pending" => job'[i].attempt < MaxAttempts
                        /\ job'[i].state = "running" => job'[i].attempt \in 1..MaxAttempts
        BY DEF RowsFit
    <2>1. CASE i = j
        BY <2>1, <1>6, <1>11, <1>13
    <2>2. CASE i \in Running
        BY <2>2, <1>12 DEF RunInv, RowsFit, Running
    <2>3. CASE i # j /\ i \notin Running
        BY <2>3, <1>14 DEF RunInv, RowsFit
    <2> QED
        BY <2>1, <2>2, <2>3
<1>18. AloneIsAlone' /\ CleanIsAlone'
    BY <1>3, <1>11, <1>12, <1>13, <1>15 DEF AloneIsAlone, CleanIsAlone
<1>19. WholeAtRest'
    BY <1>15 DEF WholeAtRest
<1>20. Stages'
    <2> SUFFICES ASSUME NEW i \in Running' PROVE Stage(i)'
        BY DEF Stages
    <2>1. CASE i = j
        <3>1. clean' => Whole'
            BY <1>3 DEF RunInv, WholeAtRest, Whole
        <3>2. Whole' => HasFound(j)' /\ HasStored(j)'
            BY <1>11, <1>13 DEF HasFound, HasStored
        <3>3. HasStored(j)'
            BY <1>11, <1>13 DEF HasStored
        <3> QED
            BY <2>1, <1>11, <1>13, <3>1, <3>2, <3>3 DEF Stage
    <2>2. CASE i \in Running
        <3>1. ~clean'
            BY <1>3, <2>2
        <3>2. job[i].mode = "chunks" => job[i].at # "save"
            BY <2>2 DEF RunInv, Stages, Stage
        <3> QED
            BY <2>2, <1>12, <3>1, <3>2 DEF Stage, Sure
    <2> QED
        BY <1>15, <2>1, <2>2
<1> QED
    BY <1>16, <1>17, <1>18, <1>19, <1>20 DEF RunInv

-----------------------------------------------------------------------------
\* The difference that a manifest holds.

\* Of the job that was done last are the blocks that are stored ...
Current == latest # 0 => blocks = job[latest].blocks

\* ... until the next job writes others.
Early(j) == \/ job[j].at \in {"load", "save"}
            \/ job[j].mode = "chunks" /\ job[j].at \in {"build", "saveChunks"}

\* A base is of the job that is named, and there is one if a job is named.
Fits(n, b) ==
    /\ n = 0 <=> b = None
    /\ n # 0 => job[n].state = "done" /\ b = job[n].blocks

DoneHaveBlocks ==
    /\ \A i \in Jobs : job[i].state = "done" => job[i].blocks # None /\ latest # 0
    /\ latest # 0 => job[latest].state = "done"
HeldBlocks == \A j \in Running : job[j].at # "load" => job[j].blocks # None
CurrentAtRest == clean /\ Running = {} => Current
CurrentAtFirst == \A j \in Running : clean /\ Early(j) => Current
RowsCompare == \A j \in Running : job[j].sound => Fits(job[j].named, job[j].base)
IndexCompares == index.sound /\ index.by # None => Fits(index.named, index.base)

DiffInv ==
    /\ DoneHaveBlocks /\ HeldBlocks /\ CurrentAtRest /\ CurrentAtFirst /\ RowsCompare /\ IndexCompares

\* Jobs that are done do not change, so what fits goes on to fit.
LEMMA FitsStays ==
    ASSUME \A i \in Jobs : job[i].state = "done" => job'[i] = job[i],
           NEW n \in 0..NumJobs, NEW b, Fits(n, b)
    PROVE  /\ n = 0 <=> b = None
           /\ n # 0 => job'[n].state = "done" /\ b = job'[n].blocks
<1>1. n # 0 => n \in Jobs
    BY DEF Jobs
<1> QED
    BY <1>1 DEF Fits

\* The newest of the jobs that are done, if any is.
LEMMA PreviousIsDone ==
    ASSUME NEW j \in Jobs, job[j].state # "done"
    PROVE  /\ PreviousRun(j) = 0 => \A i \in Jobs : job[i].state # "done"
           /\ PreviousRun(j) # 0 => /\ PreviousRun(j) \in Jobs /\ job[PreviousRun(j)].state = "done"
                                    /\ \A i \in Jobs : job[i].state = "done" => i =< PreviousRun(j)
<1> DEFINE finished == {i \in Jobs \ {j} : job[i].state = "done"}
<1>1. \A i \in Jobs : job[i].state = "done" => i \in finished
    OBVIOUS
<1>2. CASE finished = {}
    BY <1>1, <1>2 DEF PreviousRun
<1>3. CASE finished # {}
    <2>1. \E i \in finished : \A k \in finished : k =< i
        <3> finished \in SUBSET (1..NumJobs)
            BY DEF Jobs
        <3> HIDE DEF finished
        <3> QED
            BY <1>3, Greatest
    <2>2. PreviousRun(j) \in finished /\ \A k \in finished : k =< PreviousRun(j)
        BY <1>3, <2>1 DEF PreviousRun
    <2>3. PreviousRun(j) # 0
        BY <2>2 DEF Jobs
    <2> QED
        BY <1>1, <2>2, <2>3
<1> QED
    BY <1>2, <1>3

\* No job has ended in the beginning.
LEMMA DiffStarts == ASSUME RunInit PROVE DiffInv
<1>1. \A j \in Jobs : job[j].state = "none"
    BY DEF RunInit, Idle
<1>2. latest = 0 /\ index.by = None
    BY DEF RunInit, NoIndex
<1> QED
    BY <1>1, <1>2 DEF DiffInv, DoneHaveBlocks, HeldBlocks, CurrentAtRest, CurrentAtFirst, RowsCompare,
                      IndexCompares, Current, Running

\* A statement of a job that goes on running.
LEMMA StatementCompares ==
    ASSUME RunInv, DiffInv, NEW j \in Running,
           \A i \in Jobs \ {j} : job'[i] = job[i],
           job'[j].state = "running", job'[j].named = job[j].named, job'[j].base = job[j].base,
           job'[j].sound = job[j].sound, clean' = clean, latest' = latest,
           job'[j].at # "load" => job'[j].blocks # None,
           clean /\ Early(j)' => Current', index' = index \/ IndexCompares'
    PROVE  DiffInv'
<1>1. j \in Jobs /\ job[j].state = "running"
    BY DEF Running
<1>2. Running' = Running
    BY <1>1 DEF Running
<1>3. \A i \in Jobs : job[i].state = "done" => job'[i] = job[i]
    BY <1>1
<1>4. \A i \in Jobs : job'[i].state = "done" => job[i].state = "done" /\ job'[i] = job[i]
    BY <1>1
<1>5. latest \in 0..NumJobs
    BY DEF RunInv, RunTypeOK
<1>6. DoneHaveBlocks'
    <2>1. latest # 0 => latest \in Jobs
        BY <1>5 DEF Jobs
    <2> QED
        BY <1>3, <1>4, <2>1 DEF DiffInv, DoneHaveBlocks
<1>7. HeldBlocks'
    <2>1. \A i \in Running \ {j} : job'[i] = job[i]
        BY DEF Running
    <2> QED
        BY <1>2, <2>1 DEF DiffInv, HeldBlocks
<1>8. CurrentAtRest'
    BY <1>2 DEF CurrentAtRest
<1>9. CurrentAtFirst'
    <2> SUFFICES ASSUME NEW i \in Running, clean, Early(i)' PROVE Current'
        BY <1>2 DEF CurrentAtFirst
    <2>1. job[i].alone
        BY DEF RunInv, CleanIsAlone
    <2>2. i = j
        BY <2>1 DEF RunInv, AloneIsAlone
    <2> QED
        BY <2>2
<1>10. RowsCompare'
    <2> SUFFICES ASSUME NEW i \in Running, job'[i].sound PROVE Fits(job[i].named, job[i].base)'
        BY <1>2 DEF RowsCompare
    <2>1. job'[i].named = job[i].named /\ job'[i].base = job[i].base /\ job'[i].sound = job[i].sound
        BY DEF Running
    <2>2. Fits(job[i].named, job[i].base)
        BY <2>1 DEF DiffInv, RowsCompare
    <2>3. job[i].named \in 0..NumJobs
        BY RunTypes
    <2> QED
        BY <1>3, <2>1, <2>2, <2>3, FitsStays DEF Fits
<1>11. IndexCompares'
    <2>1. CASE index' = index
        <3> SUFFICES ASSUME index.sound, index.by # None PROVE Fits(index.named, index.base)'
            BY <2>1 DEF IndexCompares
        <3>1. Fits(index.named, index.base)
            BY DEF DiffInv, IndexCompares
        <3>2. index.named \in 0..NumJobs
            BY DEF RunInv, RunTypeOK, Indexes
        <3> QED
            BY <1>3, <2>1, <3>1, <3>2, FitsStays DEF Fits
    <2> QED
        BY <2>1
<1> QED
    BY <1>6, <1>7, <1>8, <1>9, <1>10, <1>11 DEF DiffInv

\* A job that ends, as the last one that is done or without being done.
LEMMA EndCompares ==
    ASSUME RunInv, DiffInv, NEW j \in Running,
           \A i \in Jobs \ {j} : job'[i] = job[i], job'[j].state # "running",
           UNCHANGED <<blocks, index>>, clean' => job[j].alone /\ Current',
           \/ job'[j].state = "done" /\ job'[j].blocks # None /\ latest' = j
           \/ job'[j].state # "done" /\ latest' = latest
    PROVE  DiffInv'
<1>1. j \in Jobs /\ job[j].state = "running" /\ j # 0
    BY DEF Running, Jobs
<1>2. Running' = Running \ {j}
    BY <1>1 DEF Running
<1>3. \A i \in Jobs : job[i].state = "done" => job'[i] = job[i]
    BY <1>1
<1>4. latest \in 0..NumJobs
    BY DEF RunInv, RunTypeOK
<1>5. DoneHaveBlocks'
    <2>1. latest # 0 => latest \in Jobs
        BY <1>4 DEF Jobs
    <2> QED
        BY <1>1, <1>3, <2>1 DEF DiffInv, DoneHaveBlocks
<1>6. \A i \in Running' : i \in Running /\ job'[i] = job[i]
    BY <1>2 DEF Running
<1>7. HeldBlocks'
    BY <1>6 DEF DiffInv, HeldBlocks
<1>8. clean' => Running' = {} /\ Current'
    BY <1>2 DEF RunInv, AloneIsAlone
<1>9. CurrentAtRest' /\ CurrentAtFirst'
    BY <1>8 DEF CurrentAtRest, CurrentAtFirst
<1>10. RowsCompare'
    <2> SUFFICES ASSUME NEW i \in Running', job'[i].sound PROVE Fits(job[i].named, job[i].base)'
        BY DEF RowsCompare
    <2>1. Fits(job[i].named, job[i].base)
        BY <1>6 DEF DiffInv, RowsCompare
    <2>2. job[i].named \in 0..NumJobs
        BY <1>6, RunTypes
    <2> QED
        BY <1>3, <1>6, <2>1, <2>2, FitsStays DEF Fits
<1>11. IndexCompares'
    <2> SUFFICES ASSUME index.sound, index.by # None PROVE Fits(index.named, index.base)'
        BY DEF IndexCompares
    <2>1. Fits(index.named, index.base)
        BY DEF DiffInv, IndexCompares
    <2>2. index.named \in 0..NumJobs
        BY DEF RunInv, RunTypeOK, Indexes
    <2> QED
        BY <1>3, <2>1, <2>2, FitsStays DEF Fits
<1> QED
    BY <1>5, <1>7, <1>9, <1>10, <1>11 DEF DiffInv

\* A job that is created has not run.
LEMMA CreateCompares ==
    ASSUME RunInv, DiffInv, NEW j \in Jobs, NEW mode \in Modes, Create(j, mode)
    PROVE  DiffInv'
<1>1. /\ job[j].state = "none" /\ UNCHANGED <<blocks, chunks, index, clean, latest>>
      /\ job \in [Jobs -> Rows] /\ latest \in 0..NumJobs
    BY DEF Create, RunInv, RunTypeOK
<1>2. (\A i \in Jobs \ {j} : job'[i] = job[i]) /\ job'[j].state = "pending"
    BY <1>1 DEF Create, Idle
<1>3. Running' = Running /\ j \notin Running
    BY <1>1, <1>2 DEF Running
<1>4. \A i \in Jobs : job[i].state = "done" => job'[i] = job[i]
    BY <1>1, <1>2
<1>5. latest # 0 => latest \in Jobs /\ job[latest].state = "done" /\ job'[latest] = job[latest]
    BY <1>1, <1>4 DEF Jobs, DiffInv, DoneHaveBlocks
<1>6. DoneHaveBlocks'
    BY <1>1, <1>2, <1>5 DEF DiffInv, DoneHaveBlocks
<1>7. \A i \in Running : i \in Jobs /\ job'[i] = job[i]
    BY <1>2, <1>3 DEF Running
<1>8. Current' <=> Current
    BY <1>1, <1>5 DEF Current
<1>9. HeldBlocks' /\ CurrentAtRest' /\ CurrentAtFirst'
    BY <1>1, <1>3, <1>7, <1>8 DEF DiffInv, HeldBlocks, CurrentAtRest, CurrentAtFirst, Early
<1>10. RowsCompare'
    <2> SUFFICES ASSUME NEW i \in Running, job'[i].sound PROVE Fits(job[i].named, job[i].base)'
        BY <1>3 DEF RowsCompare
    <2>1. Fits(job[i].named, job[i].base)
        BY <1>7 DEF DiffInv, RowsCompare
    <2>2. job[i].named \in 0..NumJobs
        BY RunTypes
    <2> QED
        BY <1>4, <1>7, <2>1, <2>2, FitsStays DEF Fits
<1>11. IndexCompares'
    <2> SUFFICES ASSUME index.sound, index.by # None PROVE Fits(index.named, index.base)'
        BY <1>1 DEF IndexCompares
    <2>1. Fits(index.named, index.base)
        BY DEF DiffInv, IndexCompares
    <2>2. index.named \in 0..NumJobs
        BY DEF RunInv, RunTypeOK, Indexes
    <2> QED
        BY <1>1, <1>4, <2>1, <2>2, FitsStays DEF Fits
<1> QED
    BY <1>6, <1>9, <1>10, <1>11 DEF DiffInv

\* What is stored is still that of the job done last.
LEMMA LoadCompares ==
    ASSUME RunInv, DiffInv, NEW j \in Jobs, Load(j)
    PROVE  DiffInv'
<1> DEFINE b == IF job[j].mode = "parse" THEN <<j, job[j].attempt>> ELSE blocks
           row == [[job[j] EXCEPT !.blocks = b] EXCEPT !.at = IF job[j].mode = "chunks" THEN "build" ELSE "save"]
<1>1. j \in Running /\ job[j].at = "load" /\ job' = [job EXCEPT ![j] = row]
    BY DEF Load, Goto, Running
<1>2. UNCHANGED <<blocks, chunks, index, clean, latest>>
    BY DEF Load
<1>3. job[j] \in Rows /\ job \in [Jobs -> Rows] /\ latest \in 0..NumJobs
    BY <1>1, RunTypes DEF RunInv, RunTypeOK
<1>4. b # None
    <2>1. j # 0
        BY DEF Jobs
    <2> QED
        BY <2>1 DEF Load, None
<1> HIDE DEF b
<1>5. /\ row.state = job[j].state /\ row.named = job[j].named /\ row.base = job[j].base
      /\ row.sound = job[j].sound /\ row.blocks = b
    BY <1>3 DEF Rows
<1> HIDE DEF row
<1>6. job'[j] = row /\ \A i \in Jobs \ {j} : job'[i] = job[i]
    BY <1>1, <1>3
<1>7. clean => Current'
    <2>1. clean => Current
        BY <1>1 DEF DiffInv, CurrentAtFirst, Early
    <2>2. latest # 0 => latest \in Jobs /\ latest # j
        BY <1>1, <1>3 DEF Jobs, Running, DiffInv, DoneHaveBlocks
    <2> QED
        BY <1>2, <1>6, <2>1, <2>2 DEF Current
<1>8. job'[j].state = "running"
    BY <1>1, <1>5, <1>6 DEF Running
<1> QED
    BY <1>1, <1>2, <1>4, <1>5, <1>6, <1>7, <1>8, StatementCompares

\* From here on a job that fails leaves a store that is not clean.
LEMMA SaveBlocksCompares ==
    ASSUME RunInv, DiffInv, NEW j \in Jobs, SaveBlocks(j)
    PROVE  DiffInv'
<1> DEFINE row == [job[j] EXCEPT !.at = "build"]
<1>1. j \in Running /\ job[j].at = "save" /\ job' = [job EXCEPT ![j] = row]
    BY DEF SaveBlocks, Goto, Running
<1>2. UNCHANGED <<chunks, index, clean, latest>>
    BY DEF SaveBlocks
<1>3. job[j] \in Rows /\ job \in [Jobs -> Rows] /\ Stage(j)
    BY <1>1, RunTypes DEF RunInv, RunTypeOK
<1>4. /\ row.state = job[j].state /\ row.named = job[j].named /\ row.base = job[j].base
      /\ row.sound = job[j].sound /\ row.blocks = job[j].blocks /\ row.at = "build" /\ row.mode = job[j].mode
    BY <1>3 DEF Rows
<1> HIDE DEF row
<1>5. job'[j] = row /\ \A i \in Jobs \ {j} : job'[i] = job[i]
    BY <1>1, <1>3
<1>6. job[j].mode # "chunks"
    BY <1>1, <1>3 DEF Stage
<1>7. ~Early(j)'
    BY <1>4, <1>5, <1>6 DEF Early
<1>8. job[j].blocks # None
    BY <1>1 DEF DiffInv, HeldBlocks
<1>9. job'[j].state = "running"
    BY <1>1, <1>4, <1>5 DEF Running
<1> QED
    BY <1>1, <1>2, <1>4, <1>5, <1>7, <1>8, <1>9, StatementCompares

\* A rerun of the chunks leaves the blocks alone.
LEMMA BuildCompares ==
    ASSUME RunInv, DiffInv, NEW j \in Jobs, Build(j) \/ SaveChunks(j)
    PROVE  DiffInv'
<1>1. PICK row : /\ job' = [job EXCEPT ![j] = row] /\ row.state = job[j].state /\ row.named = job[j].named
                 /\ row.base = job[j].base /\ row.sound = job[j].sound /\ row.blocks = job[j].blocks
                 /\ row.mode = job[j].mode
                 /\ \/ job[j].at = "build" /\ row.at = "saveChunks"
                    \/ job[j].at = "saveChunks" /\ row.at = "upsert"
    <2>1. job[j] \in Rows
        BY DEF RunInv, RunTypeOK
    <2>2. CASE Build(j)
        <3> DEFINE c == [by |-> <<j, job[j].attempt>>,
                         of |-> IF job[j].mode = "embeddings" THEN chunks.of ELSE job[j].blocks]
                   r == [[job[j] EXCEPT !.chunks = c] EXCEPT !.at = "saveChunks"]
        <3>1. job' = [job EXCEPT ![j] = r] /\ job[j].at = "build"
            BY <2>2 DEF Build, Goto
        <3> HIDE DEF c
        <3>2. /\ r.state = job[j].state /\ r.named = job[j].named /\ r.base = job[j].base
              /\ r.sound = job[j].sound /\ r.blocks = job[j].blocks /\ r.mode = job[j].mode
              /\ r.at = "saveChunks"
            BY <2>1 DEF Rows
        <3> HIDE DEF r
        <3> QED
            BY <3>1, <3>2
    <2>3. CASE SaveChunks(j)
        <3> DEFINE r == [job[j] EXCEPT !.at = "upsert"]
        <3>1. job' = [job EXCEPT ![j] = r] /\ job[j].at = "saveChunks"
            BY <2>3 DEF SaveChunks, Goto
        <3>2. /\ r.state = job[j].state /\ r.named = job[j].named /\ r.base = job[j].base
              /\ r.sound = job[j].sound /\ r.blocks = job[j].blocks /\ r.mode = job[j].mode
              /\ r.at = "upsert"
            BY <2>1 DEF Rows
        <3> HIDE DEF r
        <3> QED
            BY <3>1, <3>2
    <2> QED
        BY <2>2, <2>3
<1>2. j \in Running /\ UNCHANGED <<blocks, index, clean, latest>>
    BY DEF Build, SaveChunks, Goto, Running
<1>3. job \in [Jobs -> Rows] /\ latest \in 0..NumJobs
    BY DEF RunInv, RunTypeOK
<1>4. job'[j] = row /\ \A i \in Jobs \ {j} : job'[i] = job[i]
    BY <1>1, <1>3
<1>5. clean /\ Early(j)' => Current'
    <2>1. Early(j)' => Early(j)
        BY <1>1, <1>4 DEF Early
    <2>2. clean /\ Early(j)' => Current
        BY <1>2, <2>1 DEF DiffInv, CurrentAtFirst
    <2>3. latest # 0 => latest \in Jobs /\ latest # j
        BY <1>2, <1>3 DEF Jobs, Running, DiffInv, DoneHaveBlocks
    <2> QED
        BY <1>2, <1>4, <2>2, <2>3 DEF Current
<1>6. job[j].blocks # None
    BY <1>1, <1>2 DEF DiffInv, HeldBlocks
<1>7. job'[j].state = "running"
    BY <1>1, <1>2, <1>4 DEF Running
<1> QED
    BY <1>1, <1>2, <1>4, <1>5, <1>6, <1>7, StatementCompares

\* The manifest takes over what the attempt found when it started.
LEMMA UpsertCompares ==
    ASSUME RunInv, DiffInv, NEW j \in Jobs, Upsert(j)
    PROVE  DiffInv'
<1> DEFINE row == [job[j] EXCEPT !.at = "end"]
<1>1. j \in Running /\ job[j].at = "upsert" /\ job' = [job EXCEPT ![j] = row]
    BY DEF Upsert, Goto, Running
<1>2. /\ index' = [by |-> job[j].chunks.by, named |-> job[j].named, base |-> job[j].base,
                   sound |-> job[j].sound]
      /\ UNCHANGED <<blocks, chunks, clean, latest>>
    BY DEF Upsert
<1>3. job[j] \in Rows /\ job \in [Jobs -> Rows] /\ job[j].named \in 0..NumJobs
    BY <1>1, RunTypes DEF RunInv, RunTypeOK
<1>4. /\ row.state = job[j].state /\ row.named = job[j].named /\ row.base = job[j].base
      /\ row.sound = job[j].sound /\ row.blocks = job[j].blocks /\ row.at = "end"
    BY <1>3 DEF Rows
<1> HIDE DEF row
<1>5. job'[j] = row /\ \A i \in Jobs \ {j} : job'[i] = job[i]
    BY <1>1, <1>3
<1>6. ~Early(j)'
    BY <1>4, <1>5 DEF Early
<1>7. IndexCompares'
    <2>1. /\ index'.sound = job[j].sound /\ index'.named = job[j].named /\ index'.base = job[j].base
        BY <1>2
    <2> SUFFICES ASSUME job[j].sound PROVE Fits(index.named, index.base)'
        BY <2>1 DEF IndexCompares
    <2>2. Fits(job[j].named, job[j].base)
        BY <1>1 DEF DiffInv, RowsCompare
    <2>3. \A i \in Jobs : job[i].state = "done" => job'[i] = job[i]
        BY <1>1, <1>5 DEF Running
    <2> QED
        BY <1>3, <2>1, <2>2, <2>3, FitsStays DEF Fits
<1>8. job[j].blocks # None
    BY <1>1 DEF DiffInv, HeldBlocks
<1>9. job'[j].state = "running"
    BY <1>1, <1>4, <1>5 DEF Running
<1> QED
    BY <1>1, <1>2, <1>4, <1>5, <1>6, <1>7, <1>8, <1>9, StatementCompares

\* Of a job that is done alone are the blocks that are stored.
LEMMA FinishCompares ==
    ASSUME RunInv, DiffInv, NEW j \in Jobs, Finish(j)
    PROVE  DiffInv'
<1> DEFINE row == [[Idle EXCEPT !.state = "done", !.attempt = job[j].attempt, !.blocks = job[j].blocks] EXCEPT !.at = "none"]
<1>1. j \in Running /\ job[j].at = "end" /\ job' = [job EXCEPT ![j] = row]
    BY DEF Finish, Goto, Running
<1>2. /\ clean' = (clean \/ (job[j].alone /\ job[j].mode # "embeddings"))
      /\ latest' = j /\ UNCHANGED <<blocks, chunks, index>>
    BY DEF Finish
<1>3. row.state = "done" /\ row.blocks = job[j].blocks
    BY DEF Idle
<1> HIDE DEF row
<1>4. job'[j] = row /\ \A i \in Jobs \ {j} : job'[i] = job[i]
    BY <1>1 DEF RunInv, RunTypeOK
<1>5. job[j].blocks # None
    BY <1>1 DEF DiffInv, HeldBlocks
<1>6. clean' => job[j].alone /\ Current'
    <2>1. clean => job[j].alone
        BY <1>1 DEF RunInv, CleanIsAlone
    <2>2. clean' => Sure(j)
        BY <1>2, <2>1 DEF Sure
    <2>3. Sure(j) => job[j].blocks = blocks
        BY <1>1, RunTypes DEF Stage, HasStored
    <2> QED
        BY <1>2, <1>3, <1>4, <2>2, <2>3 DEF Current, Sure
<1> QED
    BY <1>1, <1>2, <1>3, <1>4, <1>5, <1>6, EndCompares

\* An exception before the first write leaves what was stored.
LEMMA RaiseCompares ==
    ASSUME RunInv, DiffInv, NEW j \in Jobs, Raise(j)
    PROVE  DiffInv'
<1> DEFINE row == [Idle EXCEPT !.mode = job[j].mode, !.attempt = job[j].attempt,
                     !.state = IF job[j].attempt < MaxAttempts THEN "pending" ELSE "failed"]
<1>1. j \in Running /\ job' = [job EXCEPT ![j] = row]
    BY DEF Raise, Running
<1>2. /\ clean' = (clean /\ \/ job[j].at \in {"load", "save"}
                            \/ job[j].mode = "chunks" /\ job[j].at \in {"build", "saveChunks"})
      /\ UNCHANGED <<blocks, chunks, index, latest>>
    BY DEF Raise
<1>3. row.state \in {"pending", "failed"}
    BY DEF Idle
<1> HIDE DEF row
<1>4. job'[j] = row /\ \A i \in Jobs \ {j} : job'[i] = job[i]
    BY <1>1 DEF RunInv, RunTypeOK
<1>5. clean' => job[j].alone /\ Current'
    <2>1. clean => job[j].alone
        BY <1>1 DEF RunInv, CleanIsAlone
    <2>2. clean' => clean /\ Current
        BY <1>1, <1>2 DEF DiffInv, CurrentAtFirst, Early
    <2>3. latest # 0 => latest \in Jobs /\ latest # j
        BY <1>1 DEF Jobs, Running, DiffInv, DoneHaveBlocks, RunInv, RunTypeOK
    <2> QED
        BY <1>2, <1>4, <2>1, <2>2, <2>3 DEF Current
<1> QED
    BY <1>1, <1>2, <1>3, <1>4, <1>5, EndCompares

\* An attempt that starts alone on a clean store, when the newest of the jobs that are
\* done is the one done last, finds the blocks of the job it names.
LEMMA StartCompares ==
    ASSUME RunInv, DiffInv, NEW j \in Jobs, Start(j)
    PROVE  DiffInv'
<1> DEFINE base == IF PreviousRun(j) = 0 THEN None ELSE blocks
           sound == /\ clean /\ Running = {}
                    /\ \A k \in Jobs : job[k].state = "done" => k =< latest
           number == job[j].attempt + 1
           named == PreviousRun(j)
           alone == Running = {}
           first == [job[j] EXCEPT !.state = "running", !.attempt = number, !.at = "load",
                                   !.named = named, !.base = base, !.alone = alone, !.sound = sound]
<1>1. job[j].state = "pending" /\ j \notin Running
    BY DEF Start, Running
<1>2. job' = [i \in Jobs |-> IF i = j THEN first
                             ELSE IF i \in Running THEN [job[i] EXCEPT !.alone = FALSE] ELSE job[i]]
    BY DEF Start
<1>3. clean' = (clean /\ Running = {}) /\ UNCHANGED <<blocks, chunks, index, latest>>
    BY DEF Start
<1>4. job \in [Jobs -> Rows] /\ latest \in 0..NumJobs
    BY DEF RunInv, RunTypeOK
<1>5. named \in 0..NumJobs
    BY PreviousIsAJob
<1>6. sound => Fits(named, base)
    <2> SUFFICES ASSUME sound PROVE Fits(named, base)
        OBVIOUS
    <2>1. CASE named = 0
        BY <2>1 DEF Fits
    <2>2. CASE named # 0
        <3>1. named \in Jobs /\ job[named].state = "done" /\ \A i \in Jobs : job[i].state = "done" => i =< named
            BY <1>1, <2>2, PreviousIsDone
        <3>2. latest # 0 /\ latest \in Jobs /\ job[latest].state = "done" /\ job[named].blocks # None
            BY <1>4, <3>1 DEF DiffInv, DoneHaveBlocks, Jobs
        <3>3. named = latest
            <4>1. named =< latest /\ latest =< named
                BY <3>1, <3>2
            <4> QED
                BY <3>1, <3>2, <4>1 DEF Jobs
        <3>4. blocks = job[latest].blocks
            BY <3>2 DEF DiffInv, CurrentAtRest, Current
        <3> QED
            BY <2>2, <3>1, <3>2, <3>3, <3>4 DEF Fits
    <2> QED
        BY <2>1, <2>2
<1>7. sound \in BOOLEAN
    OBVIOUS
<1> HIDE DEF base, sound, number, named, alone
<1>8. /\ first.state = "running" /\ first.at = "load" /\ first.named = named /\ first.base = base
      /\ first.sound = sound
    BY <1>4 DEF Rows
<1> HIDE DEF first
<1>9. job'[j] = first
    BY <1>2
<1>10. ASSUME NEW i \in Running
       PROVE  /\ i \in Jobs /\ i # j /\ job'[i].state = "running" /\ job'[i].at = job[i].at
              /\ job'[i].blocks = job[i].blocks /\ job'[i].named = job[i].named /\ job'[i].base = job[i].base
              /\ job'[i].sound = job[i].sound
    <2>1. i \in Jobs /\ i # j /\ job[i] \in Rows /\ job[i].state = "running"
        BY <1>1, <1>4 DEF Running
    <2>2. job'[i] = [job[i] EXCEPT !.alone = FALSE]
        BY <1>2, <2>1
    <2> QED
        BY <2>1, <2>2 DEF Rows
<1>11. \A i \in Jobs : i # j /\ i \notin Running => job'[i] = job[i]
    BY <1>2
<1>12. /\ \A i \in Jobs : job[i].state = "done" => i # j /\ i \notin Running /\ job'[i] = job[i]
       /\ \A i \in Jobs : job'[i].state = "done" => job[i].state = "done" /\ job'[i] = job[i]
    <2>1. \A i \in Jobs : job[i].state = "done" => i # j /\ i \notin Running
        BY <1>1 DEF Running
    <2> QED
        BY <1>8, <1>9, <1>10, <1>11, <2>1
<1>13. Running' = Running \cup {j}
    BY <1>8, <1>9, <1>10, <1>11 DEF Running
<1>14. latest # 0 => latest \in Jobs /\ job'[latest] = job[latest]
    BY <1>4, <1>12 DEF Jobs, DiffInv, DoneHaveBlocks
<1>15. DoneHaveBlocks'
    BY <1>3, <1>12, <1>14 DEF DiffInv, DoneHaveBlocks
<1>16. HeldBlocks'
    BY <1>8, <1>9, <1>10, <1>13 DEF DiffInv, HeldBlocks
<1>17. clean' => Current'
    BY <1>3, <1>14 DEF DiffInv, CurrentAtRest, Current
<1>18. CurrentAtRest' /\ CurrentAtFirst'
    BY <1>17 DEF CurrentAtRest, CurrentAtFirst
<1>19. RowsCompare'
    <2> SUFFICES ASSUME NEW i \in Running', job'[i].sound PROVE Fits(job[i].named, job[i].base)'
        BY DEF RowsCompare
    <2>1. CASE i = j
        <3>1. Fits(named, base)
            BY <1>6, <1>8, <1>9, <2>1
        <3> QED
            BY <1>5, <1>8, <1>9, <1>12, <2>1, <3>1, FitsStays DEF Fits
    <2>2. CASE i \in Running
        <3>1. Fits(job[i].named, job[i].base)
            BY <1>10, <2>2 DEF DiffInv, RowsCompare
        <3>2. job[i].named \in 0..NumJobs
            BY <2>2, RunTypes
        <3> QED
            BY <1>10, <1>12, <2>2, <3>1, <3>2, FitsStays DEF Fits
    <2> QED
        BY <1>13, <2>1, <2>2
<1>20. IndexCompares'
    <2> SUFFICES ASSUME index.sound, index.by # None PROVE Fits(index.named, index.base)'
        BY <1>3 DEF IndexCompares
    <2>1. Fits(index.named, index.base)
        BY DEF DiffInv, IndexCompares
    <2>2. index.named \in 0..NumJobs
        BY DEF RunInv, RunTypeOK, Indexes
    <2> QED
        BY <1>3, <1>12, <2>1, <2>2, FitsStays DEF Fits
<1> QED
    BY <1>15, <1>16, <1>18, <1>19, <1>20 DEF DiffInv

-----------------------------------------------------------------------------
\* However many jobs a document has and however they run together, every value has its
\* type; while nothing runs blocks, chunks and index are of one parse and one rerun of
\* it, if since the last overlap, or the last attempt that died between its writes, a
\* parse or a rerun of the chunks has been alone; and the manifest of an attempt that
\* started under that condition compares the document with the blocks of the run that it
\* names (ParseRuntime.execute, _previous_knowledge_unit_snapshot).
THEOREM RunsAreWhole == RunSpec => [](RunTypeOK /\ RunsAreSound)
<1>1. RunInit => RunInv /\ DiffInv
    BY RunStarts, DiffStarts
<1>2. RunInv /\ DiffInv /\ [RunNext]_runVars => RunInv' /\ DiffInv'
    <2> SUFFICES ASSUME RunInv, DiffInv, [RunNext]_runVars PROVE RunInv' /\ DiffInv'
        OBVIOUS
    <2>1. ASSUME NEW j \in Jobs, Execute(j) PROVE RunInv'
        BY <2>1, StartKeeps, LoadKeeps, SaveBlocksKeeps, BuildKeeps, SaveChunksKeeps, UpsertKeeps,
           FinishKeeps, RaiseKeeps DEF Execute
    <2>2. ASSUME NEW j \in Jobs, Execute(j) PROVE DiffInv'
        BY <2>2, StartCompares, LoadCompares, SaveBlocksCompares, BuildCompares, UpsertCompares,
           FinishCompares, RaiseCompares DEF Execute
    <2>3. ASSUME NEW j \in Jobs, NEW mode \in Modes, Create(j, mode) PROVE RunInv' /\ DiffInv'
        BY <2>3, CreateKeeps, CreateCompares
    <2>4. CASE UNCHANGED runVars
        <3>1. RunInv'
            BY <2>4 DEF runVars, RunInv, RunTypeOK, RowsFit, AloneIsAlone, CleanIsAlone, WholeAtRest,
                        Stages, Stage, Sure, HasStored, HasFound, Whole, Running
        <3>2. DiffInv'
            BY <2>4 DEF runVars, DiffInv, DoneHaveBlocks, HeldBlocks, CurrentAtRest, CurrentAtFirst,
                        RowsCompare, IndexCompares, Current, Early, Fits, Running
        <3> QED
            BY <3>1, <3>2
    <2> QED
        BY <2>1, <2>2, <2>3, <2>4 DEF RunNext
<1>3. RunInv /\ DiffInv => RunTypeOK /\ RunsAreSound
    BY DEF RunInv, WholeAtRest, Whole, RunsAreSound, RunsLeaveOneWhole, DiffInv, IndexCompares, Fits,
           DiffIsToTheRunNamed
<1> QED
    BY <1>1, <1>2, <1>3, PTL DEF RunSpec
=============================================================================
