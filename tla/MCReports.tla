----------------------------- MODULE MCReports -----------------------------
(***************************************************************************)
(* What the service tells of all its jobs, the manifests of documents in    *)
(* parts, and the rows of a catalog: the modules that compute them, and     *)
(* their inputs.                                                            *)
(***************************************************************************)
EXTENDS MCInputs

-----------------------------------------------------------------------------
(* Telemetry: up to three jobs, with what each topic needs of them; up to      *)
(* seven durations; up to four searches.                                       *)

Telemetry == INSTANCE Telemetry

PlainJob == [doc |-> 1, tenant |-> "a", key |-> "k", units |-> 1, state |-> "done", part |-> FALSE,
             cancelled |-> FALSE, retry |-> FALSE, age |-> 0, took |-> 1]
UsageJobs == {[PlainJob EXCEPT !.tenant = t, !.key = k, !.units = u, !.state = s, !.age = a] :
                t \in {"a", "b"}, k \in {"k", "l"}, u \in {0, 2}, s \in {"done", "partial"}, a \in {0, 2}}
StateJobs == {[PlainJob EXCEPT !.state = s, !.took = t] : s \in {"done", "partial", "parsing"}, t \in {-1, 2}}
             \cup {[PlainJob EXCEPT !.state = "pending", !.retry = r, !.part = p] : r, p \in BOOLEAN}
             \cup {[PlainJob EXCEPT !.state = s, !.part = TRUE, !.cancelled = c] :
                     s \in {"failed", "embedding", "done"}, c \in BOOLEAN}
DocJobs == {[PlainJob EXCEPT !.doc = d, !.tenant = t, !.age = a, !.took = n] :
              d \in 1..2, t \in {"a", "b"}, a \in {0, 2}, n \in {1, 2}}
Searches == [tenant : {"a", "b"}, layer : {"primary", "high_precision"}, hits : {0, 3}]

-----------------------------------------------------------------------------
(* IndexManifest: up to three refreshes of two parts of up to two chunks.      *)

Manifests == INSTANCE IndexManifest WITH Parts <- {1, 2}, Large <- TRUE
SmallTier == INSTANCE IndexManifest WITH Parts <- {1, 2}, Large <- FALSE

PartChunks(p) ==
    {[n \in 1..Len(k) |-> [part |-> p, n |-> n, role |-> k[n].role, long |-> k[n].long]] :
        k \in Upto([role : {"paragraph", "table"}, long : {FALSE}] \cup {[role |-> "paragraph", long |-> TRUE]}, 2)}
Refreshes ==
    {[kind |-> k, part |-> 1, chunks |-> <<>>, blocks |-> 0] : k \in {"all", "restart"}}
    \cup UNION {{[kind |-> "part", part |-> p, chunks |-> c, blocks |-> Len(c)] : c \in PartChunks(p)} : p \in {1, 2}}
FewRefreshes == {e \in Refreshes : e.kind = "part" => Len(e.chunks) < 2 \/ (e.part = 2 /\ e.chunks[1].role = "table")}

-----------------------------------------------------------------------------
(* ProviderRoutes: two providers, parsers of which the third name is none of   *)
(* theirs, and a later configuration that has lost a parser or the routing.    *)

ProviderRoutes == INSTANCE ProviderRoutes

Provider(i, r, c, n) == [id |-> i, ready |-> r, kinds |-> {}, caps |-> c, priority |-> n]
ProviderPairs ==
    {{Provider(1, r, c, 1), q} : r \in {"yes", "evaluation_only"}, c \in {{}, {"tables"}},
        q \in {Provider(2, r, c, n) : r \in {"yes", "gate_pending"}, c \in {{}, {"tables"}}, n \in {1, 2}}
              \cup {[Provider(2, "yes", {}, 2) EXCEPT !.kinds = k] : k \in {{"pdf"}, {"docx"}}}}
ParserLists == Upto([name : 1..3, kinds : {{"pdf"}, {"docx"}}], 2)
Later(c) == {c, [c EXCEPT !.on = FALSE], [c EXCEPT !.providers = {}],
             [c EXCEPT !.parsers = IF @ = <<>> THEN @ ELSE Tail(@)]}

\* The parser of a job is that of the plan, and stays so (runtime.py, config.py).
ParsersAreChosen ==
    Answered("route") => /\ ProviderRoutes!RoutesAreFollowed(input.config, input.request)
                         /\ \A c \in Later(input.config) : \A saved \in BOOLEAN :
                              ProviderRoutes!RetriesKeepTheirParser(input.config, c, input.request, saved)

\* What is told of jobs, searches and indexes adds up and is what is stored (runtime.py,
\* stores.py, stubs.py).
ReportsAddUp ==
    /\ Answered("usage") => Telemetry!UsageAddsUp(input.jobs, input.hours)
    /\ Answered("jobs") => Telemetry!MetricsAddUp(input.jobs, "a", 0 - 1, input.sample)
    /\ Answered("durations") => Telemetry!PercentilesAreRanked(input)
    /\ Answered("searches") => Telemetry!SearchesAgree(input, 3)
    /\ Answered("reindex") => Telemetry!ReindexTakesNewest(input.jobs, input.tenant, input.hours, input.docs)

ManifestsAreCurrent ==
    Answered("manifest") => Manifests!ManifestsFollowParts(input) /\ SmallTier!ManifestsFollowParts(input)

-----------------------------------------------------------------------------
ReportsInit ==
    \/ topic = "usage" /\ \E jobs \in Upto(UsageJobs, 2), h \in {-1, 0, 1} : input = [jobs |-> jobs, hours |-> h]
    \/ topic = "jobs" /\ \E jobs \in Upto(StateJobs, 3), n \in {2, 9} : input = [jobs |-> jobs, sample |-> n]
    \/ topic = "durations" /\ input \in Upto(0..2, 7)
    \/ topic = "searches" /\ input \in Upto(Searches, 4)
    \/ topic = "reindex" /\ \E jobs \in Upto(DocJobs, 3), t \in {"a", "all"}, h \in {-1, 1}, d \in {{}, {2}} :
                              input = [jobs |-> jobs, tenant |-> t, hours |-> h, docs |-> d]
    \/ topic = "route" /\ \E pair \in ProviderPairs, list \in ParserLists, on, f, d \in BOOLEAN,
                             a \in {{}, {"tables"}}, r \in {0, 2} :
                             /\ on \/ (~d /\ f)
                             /\ input = [config |-> [on |-> on, fallback |-> f, providers |-> pair, parsers |-> list],
                                         request |-> [kind |-> "pdf", asked |-> a, derived |-> d, route |-> r]]
    \/ topic = "manifest" /\ input \in Upto(Refreshes, 2) \cup [1..3 -> FewRefreshes]

-----------------------------------------------------------------------------
(* CatalogRows, the extractor of the approved catalog: titles of three pages, *)
(* tables of two or three rows, and windows of three pages.                   *)

CatalogRows == INSTANCE CatalogRows

Titles == {{}, {"tc"}, {"vtc"}, {"type", "supplemental type"}, {"supplemental type"}, {"supplemental validation"},
           {"approved", "pma", "product"}, {"approved", "pma"}, {"design validation"}}

-----------------------------------------------------------------------------
(* Pages.  The serial header is at 0, the other labels are 60 apart and 20    *)
(* wide, one line at 100; rows are at 130 and 150.                            *)

Word(t, n, x, w, y) == [text |-> t, num |-> n, x0 |-> x, x1 |-> x + w, top |-> y, bottom |-> y + 8]
Labels(section) ==
    LET f == CatalogRows!Fields(section) IN {Word(f[i], 0, 60 * i, 20, 100) : i \in DOMAIN f}
TablePage(section, drop, rows, rules, words) ==
    [section |-> section, rules |-> rules, height |-> 300,
     words |-> {Word("row", 0, 0, 20, 100)} \cup {w \in Labels(section) : w.text \notin drop}
               \cup {Word("n", i, 4, 6, rows[i]) : i \in DOMAIN rows} \cup words]
FreeWords == {Word(t, 0, x, 10, y) : t \in {"id", "w"}, x \in {50, 61, 95, 119, 170, 190, 250}, y \in {112, 130, 134, 141, 150, 156}}
LayoutInput ==
    \/ \E s \in {"tc", "tda", "vda", "vstc", "foreign_tso_recognition", "foreign_product_recognition"},
          rules \in {{}, {125, 145, 170}}, a \in FreeWords, b \in {w \in FreeWords : w.x0 \in {61, 190} /\ w.top \notin {130, 156}} :
          a # b /\ input = TablePage(s, {}, <<130, 150>>, rules, {a, b})
    \/ \E s \in {"stc", "mda", "vtc", "vda"}, drop \in {{}, {"approval"}, {"type"}, {"origNumber"}},
          a, b \in {w \in FreeWords : w.text = "w" /\ w.top # 134 /\ w.x0 # 250} :
          a # b /\ input = TablePage(s, drop, <<130, 150>>, {110, 145}, {a, b})
    \/ \E s \in {"mda", "vstc", "tc"}, t \in {"label", "cutoff", "footer"}, x \in {61, 190, 250}, y \in {130, 141, 156} :
          input = TablePage(s, {}, <<130, 150>>, {}, {Word(t, 0, x, 10, y), Word("id", 0, 61, 10, 130)})

\* A column of words at any of eight heights, two or three rows.
DivisionInput ==
    \E tops \in SUBSET {108, 116, 124, 132, 140, 148, 156, 164} :
        /\ Cardinality(tops) \in 1..4
        /\ \E rows \in {<<130>>, <<130, 150>>, <<120, 156>>, <<120, 138, 160>>} :
              input = TablePage("tc", {}, rows, {}, {Word("w", 0, 244, 10, y) : y \in tops})

-----------------------------------------------------------------------------
(* Windows.  Each page has one row or two, complete or with empty cells. *)

RowKinds == {<<"A", "H", "n">>, <<"A", "H", "">>, <<"", "", "">>, <<"B", "H", "n">>, <<"B", "H", "">>, <<"", "", "m">>}
TableRow(k, p, n) ==
    LET cell == [approval |-> k[1], holder |-> k[2], name |-> k[3]]
    IN  [row |-> n, page |-> p, cells |-> cell, from |-> [f \in DOMAIN cell |-> p], codes |-> {},
         date |-> [found |-> {1}, rest |-> FALSE]]
TableSheet(t, p, ks, n) ==
    [page |-> p, section |-> t, rows |-> [i \in DOMAIN ks |-> TableRow(ks[i], p, n + i)]]
WindowInput ==
    \/ \E a, b, c \in RowKinds, t \in [1..3 -> {"", "pma_item"}], gap \in {0, 1}, x \in {0, 1}, f \in {2, 3} :
          input = [pages |-> <<TableSheet(t[1], 1, <<a>>, 0), TableSheet(t[2], 2, <<b>>, 1), TableSheet(t[3], 3, <<c>>, 2 + gap)>>,
                   section |-> "pma_item", first |-> f, context |-> x]
    \/ \E a, b, c, d \in RowKinds, x \in {0, 1}, s \in {"", "pma_item"} :
          input = [pages |-> <<TableSheet("pma_item", 1, <<a, b>>, 0), TableSheet(s, 2, <<c, d>>, 2)>>,
                   section |-> s, first |-> 2, context |-> x]

\* Windows of a run, with a review of some row whose holder is empty or not.
ReviewedInput ==
    \E a, b \in RowKinds, s \in {"tc", "pma_item"}, o \in SUBSET {<<1, 1>>, <<2, 2>>}, f \in {1, 2}, same \in BOOLEAN :
        \E p \in {1, 2} :
            input = [pages |-> <<TableSheet(s, 1, <<a>>, 0), TableSheet(s, p, IF same THEN <<b, b>> ELSE <<b>>, 1)>>,
                     first |-> f, last |-> 2, section |-> s, omitted |-> o,
                     state |-> [section |-> "", prev |-> <<>>]]

\* The words of the pages of the catalog are those of its tables
\* (catalog_extractors/caac_approved_catalog_v1.py).
WordsAreRead ==
    /\ Answered("titles") => CatalogRows!SpansTile(input)
    /\ Answered("layout") => CatalogRows!WordsAreKept(input)

\* Rows of several lines are told apart as well as can be (the same module).
RowsAreDivided ==
    Answered("division") =>
        CatalogRows!DivisionIsBest(input, {w \in input.words : w.text = "w"}, CatalogRows!Anchors(input))

\* The records of the catalog are the same however it is divided into parts (the same).
WindowsAreRead ==
    /\ Answered("window") =>
           /\ CatalogRows!PartsAgree(input.pages, input.section, input.first, input.context)
           /\ CatalogRows!ChainAgrees(input.pages, input.section, input.first)
           /\ CatalogRows!WindowIsAccounted(
                  CatalogRows!Window(input.pages, input.section, input.first, Len(input.pages), input.context))
    /\ Answered("reviewed") => CatalogRows!WindowIsAccounted(input)

RowsInit ==
    \/ topic = "titles" /\ input \in Upto(Titles, 3)
    \/ topic = "layout" /\ LayoutInput
    \/ topic = "division" /\ DivisionInput
    \/ topic = "window" /\ WindowInput
    \/ topic = "reviewed" /\ ReviewedInput
=============================================================================
