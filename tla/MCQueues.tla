------------------------------ MODULE MCQueues ------------------------------
(***************************************************************************)
(* Three instances of JobQueue in one run: the configuration's own (three  *)
(* workers, three parts of one document), one of a document that is parsed *)
(* and rechunked by one worker that may die while the host cancels, and    *)
(* one of a document with two parts more than the limit.                   *)
(***************************************************************************)
EXTENDS MCJobQueue

CONSTANTS Solo, Hosts,    \* the worker and the host of the second instance
          Two             \* the workers of the third

VARIABLE scenario

Rerun == INSTANCE JobQueue WITH
    Workers <- Solo, Cancellers <- Hosts, Docs <- {1}, DocOf <- OneDoc,
    Mode <- ParseThenChunks, Parts <- NoParts, PartLimit <- 0,
    MaxAttempts <- 2, Timeouts <- TRUE, MaxCrashes <- 1, CrashLoad <- 2

Many == INSTANCE JobQueue WITH
    Workers <- Two, PartLimit <- 1, MaxClaims <- 2

QueuesInit ==
    \/ scenario = "parts" /\ Init
    \/ scenario = "rerun" /\ Rerun!Init
    \/ scenario = "many" /\ Many!Init

QueuesNext ==
    /\ UNCHANGED scenario
    /\ \/ scenario = "parts" /\ Next
       \/ scenario = "rerun" /\ Rerun!Next
       \/ scenario = "many" /\ Many!Next

QueuesSpec == QueuesInit /\ [][QueuesNext]_<<vars, scenario>>

\* No more than max_active_parts_per_doc parts of a document are executed at the
\* same time, although a claim over the limit is only undone after it was made: with
\* one part more than the limit and no retry none at all, and in general (where it is
\* not true of all of them) of those that execute under their first claim; with retries
\* that is checked as part of ClaimsAreSound.
PartLimitHolds ==
    /\ scenario = "parts" => PartLimitRespected
    /\ scenario = "many" => Many!FirstClaimsRespectLimit

\* When a job becomes done, in whatever mode it ran, the blocks, chunks and
\* index of its document come from the same parse.
PublishedAsOne == [][scenario = "rerun" => Rerun!PublishesTogether]_<<vars, scenario>>
=============================================================================
