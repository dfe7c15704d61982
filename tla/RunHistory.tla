----------------------------- MODULE RunHistory -----------------------------
(***************************************************************************)
(* The runs of one document and what each leaves in the store               *)
(* (ParseRuntime.execute): a parse, a rerun of the chunks and one of the    *)
(* embeddings replace blocks, chunks and index by separate statements, and  *)
(* the index manifest holds the difference of the knowledge units to the    *)
(* run before (_previous_knowledge_unit_snapshot, _build_index_manifest).   *)
(* Nothing keeps two jobs of a document apart.  JobQueue has the claims of  *)
(* the jobs; here a job is claimed whenever it is pending, and an attempt   *)
(* may fail at any statement.                                               *)
(*                                                                         *)
(* Blocks are represented by the attempt that parsed them, chunks and index *)
(* by the attempt that made them and what they were made of.                *)
(***************************************************************************)
EXTENDS Naturals, FiniteSets

CONSTANTS
    NumJobs,         \* jobs of the document, numbered as they are created
    MaxAttempts,     \* runtime.max_attempts
    Together         \* bound of the model: attempts that run at once

ASSUME RunAssumption == NumJobs \in Nat /\ MaxAttempts \in Nat \ {0}

Jobs == 1..NumJobs
Modes == {"parse", "chunks", "embeddings"}
None == <<0, 0>>
Attempts == {None} \cup (Jobs \X (1..MaxAttempts))
NoChunks == [by |-> None, of |-> None]
NoIndex == [by |-> None, named |-> 0, base |-> None, sound |-> TRUE]
Idle == [state |-> "none", mode |-> "parse", attempt |-> 0, at |-> "none", named |-> 0, base |-> None,
         blocks |-> None, chunks |-> NoChunks, alone |-> FALSE, sound |-> FALSE]

VARIABLES
    blocks, chunks, index,     \* the store
    job,                       \* rows and attempts: mode, statement, locals
    clean,                     \* history: nothing overlapped, and no attempt failed after it
                               \* began to write, since a parse or a rerun of the chunks ran alone
    latest                     \* history: the job that became done last

runVars == <<blocks, chunks, index, job, clean, latest>>

RunInit ==
    /\ blocks = None /\ chunks = NoChunks /\ index = NoIndex /\ clean = TRUE /\ latest = 0
    /\ job = [j \in Jobs |-> Idle]

Running == {j \in Jobs : job[j].state = "running"}
Goto(j, from, to, fields) ==
    /\ job[j].state = "running" /\ job[j].at = from
    /\ job' = [job EXCEPT ![j] = [fields EXCEPT !.at = to]]

-----------------------------------------------------------------------------
\* start, restart_latest, rechunk_latest, reembed_latest: the latest job is copied.
Create(j, mode) ==
    /\ job[j].state = "none" /\ \A i \in 1..(j - 1) : job[i].state # "none"
    /\ mode # "parse" => j > 1
    /\ job' = [job EXCEPT ![j] = [Idle EXCEPT !.state = "pending", !.mode = mode]]
    /\ UNCHANGED <<blocks, chunks, index, clean, latest>>

\* The newest job that is done, apart from the current one, 0 for none.
PreviousRun(j) ==
    LET finished == {i \in Jobs \ {j} : job[i].state = "done"}
    IN  IF finished = {} THEN 0 ELSE CHOOSE i \in finished : \A k \in finished : k =< i

\* _previous_knowledge_unit_snapshot: the run is that of the jobs, the units are those
\* of the blocks that are stored.
Start(j) ==
    /\ job[j].state = "pending"
    /\ Cardinality(Running) < Together
    /\ job' = [i \in Jobs |->
                 IF i = j THEN [job[j] EXCEPT !.state = "running", !.attempt = @ + 1, !.at = "load",
                                   !.named = PreviousRun(j),
                                   !.base = IF PreviousRun(j) = 0 THEN None ELSE blocks,
                                   !.alone = (Running = {}),
                                   !.sound = /\ clean /\ Running = {}
                                              /\ \A k \in Jobs : job[k].state = "done" => k =< latest]
                 ELSE IF i \in Running THEN [job[i] EXCEPT !.alone = FALSE] ELSE job[i]]
    /\ clean' = (clean /\ Running = {})
    /\ UNCHANGED <<blocks, chunks, index, latest>>

\* _load_blocks_for_request: reruns take the stored blocks and need some.
Load(j) ==
    /\ job[j].mode # "parse" => blocks # None
    /\ Goto(j, "load", IF job[j].mode = "chunks" THEN "build" ELSE "save",
            [job[j] EXCEPT !.blocks = IF job[j].mode = "parse" THEN <<j, job[j].attempt>> ELSE blocks])
    /\ UNCHANGED <<blocks, chunks, index, clean, latest>>

\* save_blocks, which a rerun of the embeddings executes as well.
SaveBlocks(j) ==
    /\ Goto(j, "save", "build", job[j])
    /\ blocks' = job[j].blocks
    /\ UNCHANGED <<chunks, index, clean, latest>>

\* _load_chunks_for_request and the embedding.
Build(j) ==
    /\ job[j].mode = "embeddings" => chunks # NoChunks
    /\ Goto(j, "build", "saveChunks",
            [job[j] EXCEPT !.chunks = [by |-> <<j, job[j].attempt>>,
                                       of |-> IF job[j].mode = "embeddings" THEN chunks.of ELSE job[j].blocks]])
    /\ UNCHANGED <<blocks, chunks, index, clean, latest>>

SaveChunks(j) ==
    /\ Goto(j, "saveChunks", "upsert", job[j])
    /\ chunks' = job[j].chunks
    /\ UNCHANGED <<blocks, index, clean, latest>>

\* A rerun of the embeddings that leaves the index as it is.
BadUpsert(j) ==
    /\ Goto(j, "upsert", "end", job[j])
    /\ index' = IF job[j].mode = "embeddings" THEN index
                ELSE [by |-> job[j].chunks.by, named |-> job[j].named, base |-> job[j].base,
                      sound |-> job[j].sound]
    /\ UNCHANGED <<blocks, chunks, clean, latest>>

\* index.upsert with the manifest of _build_index_manifest.
Upsert(j) ==
    /\ Goto(j, "upsert", "end", job[j])
    /\ index' = [by |-> job[j].chunks.by, named |-> job[j].named, base |-> job[j].base,
                 sound |-> job[j].sound]
    /\ UNCHANGED <<blocks, chunks, clean, latest>>

\* DONE.  A parse that has run alone has replaced all there was, and a rerun of the
\* chunks all that depends on the blocks.
Finish(j) ==
    /\ Goto(j, "end", "none",
            [Idle EXCEPT !.state = "done", !.attempt = job[j].attempt, !.blocks = job[j].blocks])
    /\ clean' = (clean \/ (job[j].alone /\ job[j].mode # "embeddings"))
    /\ latest' = j
    /\ UNCHANGED <<blocks, chunks, index>>

\* An exception at any statement, with _schedule_retry or mark_dead_letter.
Raise(j) ==
    /\ job[j].state = "running"
    /\ job' = [job EXCEPT ![j] = [Idle EXCEPT !.mode = job[j].mode, !.attempt = job[j].attempt,
                                     !.state = IF job[j].attempt < MaxAttempts THEN "pending" ELSE "failed"]]
    /\ clean' = (clean /\ \/ job[j].at \in {"load", "save"}
                          \/ job[j].mode = "chunks" /\ job[j].at \in {"build", "saveChunks"})
    /\ UNCHANGED <<blocks, chunks, index, latest>>

Execute(j) ==
    \/ Start(j) \/ Load(j) \/ SaveBlocks(j) \/ Build(j) \/ SaveChunks(j) \/ Upsert(j) \/ Finish(j) \/ Raise(j)

RunNext == \E j \in Jobs : Execute(j) \/ \E mode \in Modes : Create(j, mode)

RunSpec == RunInit /\ [][RunNext]_runVars

-----------------------------------------------------------------------------
States == {"none", "pending", "running", "done", "failed"}
Statements == {"none", "load", "save", "build", "saveChunks", "upsert", "end"}
Copies == [by : Attempts, of : Attempts]
Indexes == [by : Attempts, named : 0..NumJobs, base : Attempts, sound : BOOLEAN]
Rows == [state : States, mode : Modes, attempt : 0..MaxAttempts, named : 0..NumJobs, base : Attempts,
         blocks : Attempts, at : Statements, chunks : Copies, alone : BOOLEAN, sound : BOOLEAN]

RunTypeOK ==
    /\ blocks \in Attempts /\ chunks \in Copies /\ index \in Indexes
    /\ clean \in BOOLEAN /\ latest \in 0..NumJobs /\ job \in [Jobs -> Rows]

\* While no job runs, what is stored is of one parse and one rerun of it, unless two
\* jobs of the document have overlapped or an attempt has died between its writes;
\* and then the next parse or rerun of chunks that runs alone to its end puts it right.
RunsLeaveOneWhole ==
    clean /\ Running = {} => chunks.of = blocks /\ index.by = chunks.by

\* The difference that the manifest holds is to the blocks of the run that it names,
\* and there is one from the second run on, under the same condition and if that run
\* is not only the last one created but also the last one done.  (A retry after an
\* attempt that has stored its blocks compares these with themselves: what the
\* document has gained counts as unchanged.)
DiffIsToTheRunNamed ==
    index.sound /\ index.by # None =>
        /\ (index.named = 0) = (index.base = None)
        /\ index.named # 0 => index.base = job[index.named].blocks

\* What the runs of a document leave behind: one whole, and the right difference
\* (ParseRuntime.execute).
RunsAreSound == RunsLeaveOneWhole /\ DiffIsToTheRunNamed
=============================================================================
