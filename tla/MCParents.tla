----------------------------- MODULE MCParents -----------------------------
(***************************************************************************)
(* Five instances of PartitionedParent in one run: the configuration's     *)
(* own, the first run of three parts by three pool threads; one with two   *)
(* threads and two parts, which fail, are cancelled and read; one with a   *)
(* single thread and parts that fail and are run again; and two with a     *)
(* queue worker that may die, of one part that is run again and of two     *)
(* parts.  scenario tells which of them a behaviour belongs to.  The       *)
(* answers about one document, which are functions, and the inline runner  *)
(* that executes the parts are scenarios of their own.  The parent of the  *)
(* configuration and the runner have variables of their own, which stay as *)
(* they are in the other scenarios; the instances share v1, v2, ...        *)
(***************************************************************************)
EXTENDS PartitionedParent, InlineRunner, TLC

CONSTANTS Two, One      \* two of the Workers, and one of them

VARIABLES scenario, v1, v2, v3, v4, v5, v6, v7, v8, v9, v10, v11, v12, v13, v14, v15, v16, v17, v18, v19

rest == <<v4, v5, v6, v7, v8, v9, v10, v11, v12, v13, v14, v15, v16, v17, v18, v19>>
slots == <<v1, v2, v3, rest>>

Hosted == INSTANCE PartitionedParent WITH
    Workers <- Two, NumParts <- 2, Failures <- TRUE, Cancels <- TRUE, Views <- TRUE,
    parent <- v1, runs <- v2, unsubmitted <- v3, row <- v4, partDoc <- v5, merged <- v6, manifest <- v7,
    cache <- v8, pc <- v9, part <- v10, run <- v11, changed <- v12, parentSeen <- v13, newState <- v14,
    seen <- v15, todo <- v16, got <- v17, entries <- v18, crashes <- v19
Remote == INSTANCE PartitionedParent WITH
    Workers <- One, NumParts <- 1, Cached <- FALSE, MaxRuns <- 2, Failures <- TRUE, Cancels <- TRUE, MaxCrashes <- 1,
    parent <- v1, runs <- v2, unsubmitted <- v3, row <- v4, partDoc <- v5, merged <- v6, manifest <- v7,
    cache <- v8, pc <- v9, part <- v10, run <- v11, changed <- v12, parentSeen <- v13, newState <- v14,
    seen <- v15, todo <- v16, got <- v17, entries <- v18, crashes <- v19
Sole == INSTANCE PartitionedParent WITH
    Workers <- One, NumParts <- 2, MaxRuns <- 2, Failures <- TRUE,
    parent <- v1, runs <- v2, unsubmitted <- v3, row <- v4, partDoc <- v5, merged <- v6, manifest <- v7,
    cache <- v8, pc <- v9, part <- v10, run <- v11, changed <- v12, parentSeen <- v13, newState <- v14,
    seen <- v15, todo <- v16, got <- v17, entries <- v18, crashes <- v19
Pair == INSTANCE PartitionedParent WITH
    Workers <- One, NumParts <- 2, Cached <- FALSE, Failures <- TRUE, Cancels <- TRUE, MaxCrashes <- 1,
    parent <- v1, runs <- v2, unsubmitted <- v3, row <- v4, partDoc <- v5, merged <- v6, manifest <- v7,
    cache <- v8, pc <- v9, part <- v10, run <- v11, changed <- v12, parentSeen <- v13, newState <- v14,
    seen <- v15, todo <- v16, got <- v17, entries <- v18, crashes <- v19

\* What the service answers about one document: functions, as MCInputs has them.
Answers == INSTANCE MCAnswers WITH topic <- v1, input <- v2, done <- v3

Unused(slot) == slot = 0
NoRest ==
    /\ Unused(v4) /\ Unused(v5) /\ Unused(v6) /\ Unused(v7) /\ Unused(v8) /\ Unused(v9) /\ Unused(v10)
    /\ Unused(v11) /\ Unused(v12) /\ Unused(v13) /\ Unused(v14) /\ Unused(v15) /\ Unused(v16)
    /\ Unused(v17) /\ Unused(v18) /\ Unused(v19)

ParentsInit ==
    /\ Init /\ RunnerInit
    /\ \/ scenario \in {"threads", "runner"} /\ Unused(v1) /\ Unused(v2) /\ Unused(v3) /\ NoRest
       \/ scenario = "hosted" /\ Hosted!Init
       \/ scenario = "queued" /\ Remote!Init
       \/ scenario = "reruns" /\ Sole!Init
       \/ scenario = "pair" /\ Pair!Init
       \/ scenario = "answers" /\ Answers!AnswersInit /\ v3 = FALSE /\ NoRest

ParentsNext ==
    /\ UNCHANGED scenario
    /\ \/ scenario = "threads" /\ Next /\ UNCHANGED <<runnerVars, slots>>
       \/ scenario = "runner" /\ RunnerNext /\ UNCHANGED <<vars, slots>>
       \/ /\ UNCHANGED <<vars, runnerVars>>
          /\ \/ scenario = "hosted" /\ Hosted!Next
             \/ scenario = "queued" /\ Remote!Next
             \/ scenario = "reruns" /\ Sole!Next
             \/ scenario = "pair" /\ Pair!Next
             \/ scenario = "answers" /\ Answers!Answer /\ UNCHANGED rest

ParentsSpec == ParentsInit /\ [][ParentsNext]_<<vars, runnerVars, slots, scenario>>

\* The third worker, which only one scenario has, is not exchanged.  One is fixed by a
\* permutation that maps a state of its scenario to another one: pc has it in its domain.
WorkerSymmetry == Permutations(Two) \cup Permutations(Pool)

\* What TypeOK and OnlyDoneCounts say of the configuration's own parent, the other
\* instances say of theirs: with failures, cancellations, reads of the parts and reruns,
\* and in queue mode after a crash, values have their types, and only parts that are done
\* count; and the "done" of a parent whose parts are not all inserted does not last
\* (refresh_partitioned_parent, _partition_parent_state, start_pdf_part_jobs).
InstancesHold ==
    /\ scenario = "threads" => TypeOK
    /\ scenario = "hosted" => Hosted!TypeOK /\ Hosted!OnlyDoneCounts
    /\ scenario = "queued" => Remote!TypeOK /\ Remote!OnlyDoneCounts
    /\ scenario = "reruns" => Sole!TypeOK /\ Sole!OnlyDoneCounts
    /\ scenario = "pair" => Pair!TypeOK /\ Pair!OnlyDoneCounts /\ Pair!EarlyDoneEnds

\* With one executor and reruns, what it merges into the parent is of the newest
\* finished run (refresh_partitioned_parent).
RerunsMergeNewest == [][scenario = "reruns" => Sole!MergesNewest]_<<slots, scenario>>

\* The answers of the service about one document agree with it and with each other
\* (MCAnswers: api_payloads.py, quality.py, exports.py, profiles.py).
AnswersAreConsistent == scenario = "answers" => Answers!AnswersAreConsistent
=============================================================================
