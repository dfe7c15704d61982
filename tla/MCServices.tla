----------------------------- MODULE MCServices -----------------------------
(***************************************************************************)
(* The smaller state machines in one run: ParseCache, PartPlan and           *)
(* RunHistory, whose constants the configuration gives, PdfPages,            *)
(* DocumentStore for each of its databases, Submission in both modes,        *)
(* EventLog, a second RunHistory, and functions.  scenario tells which of    *)
(* them a behaviour belongs to.  The first three have their own variables,   *)
(* which stay as they are in the other scenarios; the instances share        *)
(* v1, v2, ..., under the names that they give them.                         *)
(***************************************************************************)
EXTENDS ParseCache, PartPlan, RunHistory, TLC

VARIABLES scenario, v1, v2, v3, v4, v5, v6, v7, v8, v9, v10, v11, v12, v13

cacheVars == vars
Rest7 == <<v8, v9, v10, v11, v12, v13>>
Rest6 == <<v7, Rest7>>
Rest5 == <<v6, Rest6>>
Rest3 == <<v4, v5, Rest5>>
slots == <<v1, v2, v3, Rest3>>
allVars == <<cacheVars, planVars, runVars, slots, scenario>>

-----------------------------------------------------------------------------
(* PdfPages: two pages, one of which a selective layout pass may take. *)

Kind(t, i, sh, l, s, f, tb) ==
    [text |-> t, images |-> i, shown |-> sh, layout |-> l, strong |-> s, figure |-> f, tables |-> tb]
Kinds == {Kind("good", 0, TRUE, FALSE, FALSE, FALSE, FALSE), Kind("good", 0, TRUE, TRUE, TRUE, FALSE, TRUE),
          Kind("garbled", 0, TRUE, FALSE, FALSE, FALSE, TRUE), Kind("garbled", 1, FALSE, FALSE, TRUE, FALSE, TRUE),
          Kind("empty", 1, TRUE, FALSE, FALSE, FALSE, FALSE), Kind("empty", 1, FALSE, FALSE, FALSE, FALSE, FALSE),
          Kind("empty", 0, TRUE, FALSE, FALSE, FALSE, FALSE)}
Request(o, d, p) == [ocr |-> o, dual |-> d, order |-> "none", cache |-> "none", profile |-> p]
Requests == {Request("none", "none", "other"), Request("true", "none", "other"),
             Request("false", "none", "other"),
             [Request("none", "false", "other") EXCEPT !.cache = "false"],
             Request("none", "none", "catalog"), Request("true", "none", "ledger"),
             Request("none", "true", "full")}

Pdf == INSTANCE PdfPages WITH
    NumPages <- 2, BadPages <- TRUE, Dual <- TRUE, Order <- FALSE, Adaptive <- TRUE,
    MinPages <- 2, MaxSelected <- 1, Cache <- TRUE, FastPath <- TRUE, MaxRuns <- 2,
    doc <- v1, version <- v2, ocr <- v3, last <- v4, runs <- v5

-----------------------------------------------------------------------------
(* DocumentStore: one refresh at a time, of three parts; and of two parts with *)
(* two pages each.                                                            *)

SQLite == INSTANCE DocumentStore WITH
    Threads <- {1}, Parts <- 1..3, PartPages <- 1, MaxItems <- 3, MaxRuns <- 4, Autocommit <- FALSE,
    stored <- v1, views <- v2, memory <- v3, index <- v4, part <- v5, bounds <- v6,
    merged <- v7, all <- v8, runs <- v9, pc <- v10, blocks <- v11,
    pages <- v12, paged <- v13
Postgres == INSTANCE DocumentStore WITH
    Threads <- {1}, Parts <- 1..3, PartPages <- 1, MaxItems <- 3, MaxRuns <- 3, Autocommit <- TRUE,
    stored <- v1, views <- v2, memory <- v3, index <- v4, part <- v5, bounds <- v6,
    merged <- v7, all <- v8, runs <- v9, pc <- v10, blocks <- v11,
    pages <- v12, paged <- v13
Paged == INSTANCE DocumentStore WITH
    Threads <- {1}, Parts <- 1..2, PartPages <- 2, MaxItems <- 2, MaxRuns <- 4, Autocommit <- FALSE,
    stored <- v1, views <- v2, memory <- v3, index <- v4, part <- v5, bounds <- v6,
    merged <- v7, all <- v8, runs <- v9, pc <- v10, blocks <- v11,
    pages <- v12, paged <- v13

-----------------------------------------------------------------------------
(* Submission: two API processes, in both execution modes. *)

InlineApi == INSTANCE Submission WITH
    Procs <- {1, 2}, Inline <- TRUE, Limits <- ("tenant:*" :> 2) @@ ("*:*" :> 1), Default <- 0,
    Units <- {1, 2}, MaxAttempts <- 1, MaxRows <- 3, MaxFiles <- 1,
    rows <- v1, files <- v2, expired <- v3, lastFile <- v4, reading <- v5, pc <- v6, req <- v7
QueueApi == INSTANCE Submission WITH
    Procs <- {1, 2}, Inline <- FALSE, Limits <- <<>>, Default <- 1,
    Units <- {1}, MaxAttempts <- 2, MaxRows <- 2, MaxFiles <- 2,
    rows <- v1, files <- v2, expired <- v3, lastFile <- v4, reading <- v5, pc <- v6, req <- v7

-----------------------------------------------------------------------------
(* What is told of all jobs, of the index of a document in parts, and the rows *)
(* of a catalog: functions, as MCInputs has them.                              *)

Reports == INSTANCE MCReports WITH topic <- v1, input <- v2, done <- v3

-----------------------------------------------------------------------------
(* EventLog: two threads and five events, of which the list keeps two. *)

Log == INSTANCE EventLog WITH
    Recorders <- {1, 2}, RingSize <- 2, MaxRecorded <- 5,
    ring <- v1, counts <- v2, log <- v3, todo <- v4, seen <- v5, overlapped <- v6, pc <- v7

-----------------------------------------------------------------------------
(* RunHistory with two jobs of a document at a time; the configuration's     *)
(* own has them one by one, with a retry each.                               *)

Overlapping == INSTANCE RunHistory WITH
    NumJobs <- 3, MaxAttempts <- 1, Together <- 2,
    blocks <- v1, chunks <- v2, index <- v3, job <- v4, clean <- v5, latest <- v6

-----------------------------------------------------------------------------
CacheAtRest == Init /\ content = [f \in Files |-> CHOOSE v \in Versions : TRUE]
PlanAtRest == /\ arg = [pages |-> 1, first |-> 1, last |-> 1, context |-> 0, size |-> 1]
              /\ next = arg.first /\ parts = <<>>
No7 == v8 = 0 /\ v9 = 0 /\ v10 = 0 /\ v11 = 0 /\ v12 = 0 /\ v13 = 0
No6 == v7 = 0 /\ No7
No5 == v6 = 0 /\ No6
No3 == v4 = 0 /\ v5 = 0 /\ No5
NoSlots == v1 = 0 /\ v2 = 0 /\ v3 = 0 /\ No3

ServicesInit ==
    /\ RunInit
    /\ \/ scenario = "cache" /\ Init /\ PlanAtRest /\ NoSlots
       \/ scenario = "plan" /\ PlanInit /\ CacheAtRest /\ NoSlots
       \/ /\ CacheAtRest /\ PlanAtRest
          /\ \/ scenario = "retried" /\ NoSlots
             \/ scenario = "pdf" /\ Pdf!Init /\ No5
             \/ scenario = "sqlite" /\ SQLite!Init
             \/ scenario = "postgres" /\ Postgres!Init
             \/ scenario = "paged" /\ Paged!Init
             \/ scenario = "inline" /\ InlineApi!SubmitInit /\ No7
             \/ scenario = "queue" /\ QueueApi!SubmitInit /\ No7
             \/ scenario = "pages" /\ Reports!RowsInit /\ v3 = FALSE /\ No3
             \/ scenario = "reports" /\ Reports!ReportsInit /\ v3 = FALSE /\ No3
             \/ scenario = "events" /\ Log!EventInit /\ No7
             \/ scenario = "overlapping" /\ Overlapping!RunInit /\ No6

ServicesNext ==
    /\ UNCHANGED scenario
    /\ \/ scenario = "cache" /\ Next /\ UNCHANGED <<planVars, runVars, slots>>
       \/ scenario = "plan" /\ PlanStep /\ UNCHANGED <<cacheVars, runVars, slots>>
       \/ scenario = "retried" /\ RunNext /\ UNCHANGED <<cacheVars, planVars, slots>>
       \/ /\ UNCHANGED <<cacheVars, planVars, runVars>>
          /\ \/ scenario = "pdf" /\ Pdf!Next /\ UNCHANGED Rest5
             \/ scenario = "sqlite" /\ SQLite!Next
             \/ scenario = "postgres" /\ Postgres!Next
             \/ scenario = "paged" /\ Paged!Next
             \/ scenario = "inline" /\ InlineApi!SubmitNext /\ UNCHANGED Rest7
             \/ scenario = "queue" /\ QueueApi!SubmitNext /\ UNCHANGED Rest7
             \/ scenario \in {"pages", "reports"} /\ Reports!Answer /\ UNCHANGED Rest3
             \/ scenario = "events" /\ Log!EventNext /\ UNCHANGED Rest7
             \/ scenario = "overlapping" /\ Overlapping!RunNext /\ UNCHANGED Rest6

ServicesSpec == ServicesInit /\ [][ServicesNext]_allVars

-----------------------------------------------------------------------------
(* The properties of the modules, each in its scenario.                    *)

\* Every variable of every module has a value of its type.
TypesOK ==
    CASE scenario = "cache" -> TypeOK
      [] scenario = "plan" -> PlanTypeOK
      [] scenario = "pdf" -> Pdf!TypeOK
      [] scenario = "sqlite" -> SQLite!TypeOK
      [] scenario = "postgres" -> Postgres!TypeOK
      [] scenario = "paged" -> Paged!TypeOK
      [] scenario = "inline" -> InlineApi!SubmitTypeOK
      [] scenario = "queue" -> QueueApi!SubmitTypeOK
      [] scenario \in {"pages", "reports"} -> v3 \in BOOLEAN
      [] scenario = "events" -> Log!EventTypeOK
      [] scenario = "retried" -> RunTypeOK
      [] scenario = "overlapping" -> Overlapping!RunTypeOK

\* The choice between native text, layout pass and OCR (parsers.py): pages that
\* need OCR are selected, a request without OCR gets none from the cache, and the
\* cache hides no table.  The words of a catalog's page get into its rows, each into
\* one, and these into the parts (catalog_extractors/caac_approved_catalog_v1.py).
OcrIsWhereItBelongs ==
    /\ scenario = "pdf" => Pdf!SelectionKeepsOcrPages /\ Pdf!NoOcrWhenOff /\ Pdf!CacheHidesNoTable
    /\ scenario = "pages" => Reports!WordsAreRead /\ Reports!RowsAreDivided /\ Reports!WindowsAreRead

\* The replacement of a part's rows in the parent's tables (stores.py): parts
\* stay in one piece and the index is never ahead, wherever a refresh dies.  Manifests
\* of the index say what is in it (runtime.py, _incremental_partition_index_manifest).
PartsTogether ==
    /\ scenario = "sqlite" => SQLite!PartsStayTogether
    /\ scenario = "postgres" => Postgres!PartsStayTogether /\ Postgres!IndexIsNotAhead
    /\ scenario = "reports" => Reports!ManifestsAreCurrent

\* What is told is current.  The views of the store and of InMemoryJobStore hold every
\* part's last run, each page once, and the list of events the latest of them; counters of events are
\* short of what threads lose of each other at most (runtime.py, EventAggregator).  What
\* is told of jobs adds up, and they are parsed by the parsers of their routes
\* (_resolve_parser).  Blocks, chunks and index of a document are of one run, and their
\* difference is to the run that the manifest names, unless its jobs have overlapped or
\* died between their writes (ParseRuntime.execute).
ViewsCurrent ==
    /\ scenario = "sqlite" => SQLite!ViewsAreCurrent
    /\ scenario = "paged" => Paged!ViewsAreCurrent
    /\ scenario = "events" => Log!RingIsLatest /\ Log!CountsAreBounded
    /\ scenario = "reports" => Reports!ReportsAddUp /\ Reports!ParsersAreChosen
    /\ scenario = "overlapping" => Overlapping!RunsAreSound

\* Submissions pass the quota by what other processes have under way at most
\* (runtime.py, _check_quota_limit and start), and the files of uploads live as long as
\* the jobs that need them, and not longer than their requests when those are transient
\* (api_routes.py).
SubmissionsHold ==
    /\ scenario = "inline" => /\ InlineApi!OverrunIsBounded /\ InlineApi!FilesOutliveTheirJobs
                              /\ InlineApi!TransientsAreOwned
    /\ scenario = "queue" => /\ QueueApi!OverrunIsBounded /\ QueueApi!FilesOutliveTheirJobs
                             /\ QueueApi!TransientsAreOwned

\* A reader of SQLite never finds a part gone (DocumentStore!NoPartVanishes).
PartsNeverVanish ==
    [][scenario = "sqlite" =>
        \A p \in 1..3 : /\ SQLite!Of(v11, p) # {} => SQLite!Of(v11', p) # {}
                        /\ SQLite!Of(v2, p) # {} => SQLite!Of(v2', p) # {}]_allVars
=============================================================================
