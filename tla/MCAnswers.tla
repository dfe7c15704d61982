----------------------------- MODULE MCAnswers -----------------------------
(***************************************************************************)
(* The answers of the service about one document: the modules that compute  *)
(* them, and their inputs.                                                  *)
(***************************************************************************)
EXTENDS MCInputs

-----------------------------------------------------------------------------
(* QualityAdvice: two parts of a page each, or three pages, or one unit that  *)
(* is no part; observations of two runs of a part.                            *)

QualityAdvice == INSTANCE QualityAdvice

AdvicePage(r, i, o, v, n) == [rag |-> r, info |-> i, order |-> o, provider |-> v, blocks |-> n]
GapSets == {{}, {"empty"}, {"figure"}, {"chunks"}, {"table", "vectors"}}
AdvicePages(v, n) ==
    {AdvicePage(r, FALSE, o, v, n) : r \in GapSets, o \in {100}}
    \cup {AdvicePage({}, TRUE, 0, v, n), AdvicePage({}, FALSE, 50, v, n), AdvicePage({"table"}, FALSE, 50, v, n)}
PartOf(f, l, s, r) == [first |-> f, last |-> l, state |-> s, able |-> TRUE, rerun |-> r]
UnitOf(l, s) == [first |-> 1, last |-> l, state |-> s, able |-> FALSE, rerun |-> "none"]
ParsedPart(f) == {PartOf(f, f, "done", r) : r \in {"none", "unchanged", "improved"}}
                 \cup {PartOf(f, f, "failed", "unchanged")}
BarePart(f) == {PartOf(f, f, s, "none") : s \in {"failed", "pending"}}
Configs == {[enabled |-> TRUE, rerun |-> TRUE, manual |-> TRUE, large |-> l] : l \in BOOLEAN}
           \cup {[enabled |-> e, rerun |-> FALSE, manual |-> FALSE, large |-> FALSE] : e \in BOOLEAN}
AdviceInput ==
    \/ \E a \in AdvicePages(1, 2), b \in AdvicePages(1, 2) \cup AdvicePages(2, 2) \cup AdvicePages(2, 3),
          p \in ParsedPart(1), q \in ParsedPart(2), c \in Configs :
          input = [pages |-> <<a, b>>, parts |-> <<p, q>>, config |-> c]
    \/ \E a \in AdvicePages(1, 2), p \in ParsedPart(1), q \in BarePart(2), c \in Configs :
          input = [pages |-> <<a>>, parts |-> <<p, q>>, config |-> c]
    \/ \E a \in AdvicePages(1, 3), b \in AdvicePages(2, 2), d \in AdvicePages(3, 2), c \in {x \in Configs : x.rerun} :
          input = [pages |-> <<a, b, d>>, config |-> c,
                   parts |-> <<PartOf(1, 2, "done", "none"), PartOf(3, 3, "done", "none")>>]
    \/ \E a \in AdvicePages(1, 2), b \in AdvicePages(2, 3), c \in Configs, s \in {"done", "failed"} :
          \/ input = [pages |-> <<a>>, parts |-> <<UnitOf(1, s)>>, config |-> c]
          \/ input = [pages |-> <<a, b>>, parts |-> <<UnitOf(2, s)>>, config |-> c]
Runs2 == [signals : 0..2, gaps : 0..2, units : 0..1, lost : 0..1, provider : {1, 2}]
RerunInputs == [before : Runs2, after : Runs2]

\* What the quality projection advises is about what is wrong with the document,
\* and leaves out and repeats nothing (api_payloads.py, parts.py).
AdviceIsConsistent ==
    /\ Answered("advice") => /\ QualityAdvice!AdviceIsSound(input)
                             /\ QualityAdvice!ProvidersAreRanked(input)
                             /\ QualityAdvice!ObservationAgrees(input)
    /\ Answered("rerun") => QualityAdvice!ComparisonIsFair(input.before, input.after)

-----------------------------------------------------------------------------
(* RecordsView: up to two blocks of up to three lines; a table of up to three *)
(* columns and rows; up to three stored records.                              *)

RecordsView == INSTANCE RecordsView

LineBlocks == {[kind |-> k, page |-> 1, source |-> s, content |-> c] :
                 k \in {"text", "title"}, s \in Upto({[text |-> t, page |-> p] : t \in BOOLEAN, p \in {1, 2}}, 2),
                 c \in Upto(BOOLEAN, 2)}
Names == {<<>>, <<"a">>, <<"b">>, <<"a", 2>>}
TableRows == {r \in Upto({<<>>, <<"a">>}, 3) : r # <<>>}
TableInput ==
    \/ \E h \in 0..2, n \in {<<>>} \cup {x \in Upto(Names, 3) : Len(x) > 1}, rows \in Upto(TableRows, 2) :
          input = [header |-> h, names |-> n, rows |-> rows]
    \/ \E h \in 0..2, top \in [1..3 -> Names], rows \in Upto(TableRows, 2) :
          input = [header |-> h, names |-> <<>>, rows |-> <<top>> \o rows]
NumberedBlocks == {[kind |-> k, page |-> p, lines |-> l] :
                     k \in {"text", "table"}, p \in {1, 2}, l \in Upto({"start", "header", "other"}, 2)}
FieldValues == [dates : BOOLEAN, ids : BOOLEAN, date : {"none", "bad", "good"}, ident : BOOLEAN]
ListedRows == {[first |-> f, last |-> l, match |-> v] : f \in 1..2, l \in 2..3, v \in BOOLEAN}
ListInput ==
    \E rows \in Upto(ListedRows, 3), f \in 0..3, l \in {0, 1, 2}, b \in BOOLEAN, n \in 0..2 :
        /\ f = 0 \/ l = 0 \/ f =< l
        /\ input = [rows |-> rows, query |-> [first |-> f, last |-> l, filter |-> b, limit |-> n, offset |-> 0]]

Exports == INSTANCE Exports

ExportRow(f, l, c, s) == [first |-> f, last |-> l, code |-> c, severity |-> s, field |-> "any"]
ExportRows == {ExportRow(0, 0, "low", "info"), ExportRow(1, 2, "low", "warning"), ExportRow(3, 3, "ok", "info")}
Documents == {[stored |-> [d \in {"pages", "lines", "records"} |-> s[d]], computed |-> [d \in Exports!Datasets |-> c]] :
                s \in [{"pages", "lines", "records"} -> {<<>>, <<ExportRow(2, 2, "low", "info")>>}],
                c \in Upto(ExportRows, 2)}
Filters == {Exports!NoFilter} \cup [severity : {"any", "info"}, code : {"any", "low"}, field : {"any"}, range : {<<1, 2>>}]
ExportInput ==
    \E doc \in Documents, inc \in Upto(Exports!Datasets, 2), f \in Filters, d \in BOOLEAN, b \in {{}, {"tables", "lines"}} :
          /\ d => inc = <<>>
          /\ input = [doc |-> doc, req |-> [include |-> inc, filters |-> f, default |-> d, bad |-> b]]

\* The files of an export: up to three rows of up to two fields, two of whose names
\* differ by case; rows with a page, a span of pages or neither.
FieldNames == {[word |-> "a", upper |-> FALSE], [word |-> "a", upper |-> TRUE], [word |-> "b", upper |-> FALSE]}
RowsOfFields == {r \in Upto([key : FieldNames, value : {"none", "text", "control"}], 2) : Len(r) = 2 => r[1].key # r[2].key}
TinyRows == {<<>>} \cup {<<[key |-> k, value |-> v]>> : k \in FieldNames, v \in {"none", "nested"}}
FilesInput ==
    \/ \E a, b \in RowsOfFields : input \in {<<>>, <<a>>, <<a, b>>}
    \/ \E a, b, c \in TinyRows : input = <<a, b, c>>
PagedRow(n, f, l) == [number |-> n, first |-> f, last |-> l, codes |-> [list |-> {}, text |-> "none"], code |-> "none"]
PagedRows == {PagedRow(0, 0, 0)} \cup {PagedRow(n, 0, 0) : n \in 1..4}
             \cup {PagedRow(0, p[1], p[2]) : p \in {q \in (1..4) \X (1..4) : q[1] =< q[2]}}
RangeInput ==
    \E rows \in Upto(PagedRows, 2), from \in 1..3, to \in 2..4 :
        from =< to /\ input = [rows |-> rows, from |-> from, to |-> to]
SignalRows == {[PagedRow(1, 0, 0) EXCEPT !.codes = c, !.code = k] :
                 c \in {[list |-> l, text |-> "none"] : l \in {{}, {"low"}, {"low", "other"}}}
                       \cup {[list |-> {}, text |-> "low"]},
                 k \in {"none", "low", "other"}}

-----------------------------------------------------------------------------
(* ReaderView: two blocks, at most one chunk or unit of the index, one signal; *)
(* paragraphs of four lines.                                                   *)

ReaderView == INSTANCE ReaderView

Placed(S) == {[type |-> b.type, artifact |-> b.artifact, text |-> b.text, more |-> b.more,
               first |-> b.first, last |-> b.last, order |-> n] : b \in S, n \in {1, 2}}
ReaderInput ==
    \E a \in Placed(BlocksAt(1, 1) \cup BlocksAt(1, 2)), b \in Placed(BlocksAt(1, 1) \cup BlocksAt(2, 2)),
      c \in {<<>>, <<[blocks |-> {1, 2}, vector |-> FALSE]>>},
      m \in {<<>>} \cup {<<[blocks |-> B, chunks |-> {}, index |-> i]>> : B \in {{2}, {1, 2}}, i \in {"yes", "unset"}},
      s \in {<<>>, <<[code |-> "low", page |-> 1, targets |-> {}]>>, <<[code |-> "low", page |-> 0, targets |-> {2}]>>} :
        /\ b.order = 2 \/ c = <<>>
        /\ c = <<>> \/ s = <<>>
        /\ input = [blocks |-> <<a, b>>, chunks |-> c, manifest |-> m, signals |-> s]
TextLines == [structural : BOOLEAN, start : {"capital", "other"}, end : {"stop", "colon", "open"}]
ItemsInput ==
    \E a \in {x \in Placed(BlocksAt(1, 1)) : x.order = 1 /\ x.type = "text"},
      b \in {x \in Placed(BlocksAt(2, 2)) : x.order = 2 /\ x.type = "table" /\ ~x.artifact},
      c \in ChunkLists,
      t \in Upto([blocks : {{1}, {1, 2}}, text : BOOLEAN, skip : BOOLEAN], 2) :
        input = [in |-> [blocks |-> <<a, b>>, chunks |-> c, manifest |-> <<>>, signals |-> <<>>], items |-> t]

\* What a reader sees of a document is what it says, in its order, with every code that
\* is about it; and the counts of the index are those found again (api_payloads.py,
\* runtime.py, ir.py).
ReaderSeesAll ==
    /\ Answered("reader") => /\ ReaderView!EveryBlockIsRead(input)
                             /\ ReaderView!EveryTextIsRead(input)
                             /\ ReaderView!EveryCodeArrives(input)
    /\ Answered("breaks") => ReaderView!ParagraphsKeepLines(input)
    /\ Answered("recorded") => ReaderView!RecordsAgree(input.in, input.items)

-----------------------------------------------------------------------------
(* PageView: up to three blocks on two pages; ProviderRoutes: any file.    *)

PageView == INSTANCE PageView
Profiles == INSTANCE ProviderRoutes

PlainBlock == [page |-> 1, type |-> "text", role |-> "plain", text |-> TRUE, kind |-> "none", logical |-> 0,
               words |-> "none", short |-> FALSE]
OnPage(p) ==
    {[PlainBlock EXCEPT !.page = p, !.role = r, !.text = t, !.type = y] :
        r \in {"plain", "artifact", "toc", "front"}, t \in BOOLEAN, y \in {"text", "table"}}
    \cup {[PlainBlock EXCEPT !.page = p, !.type = "image", !.role = "image", !.text = t] : t \in BOOLEAN}
    \cup {[PlainBlock EXCEPT !.page = p, !.type = "title", !.role = r, !.logical = l] : r \in {"plain", "front"}, l \in {0, 1}}
    \cup {[PlainBlock EXCEPT !.page = p, !.kind = k, !.short = s] : k \in {"body", "cover", "signature"}, s \in BOOLEAN}
    \cup {[PlainBlock EXCEPT !.page = p, !.words = w, !.logical = l] : w \in {"none", "signature", "appendix"}, l \in {1, 2}}
    \cup {[PlainBlock EXCEPT !.page = p, !.role = "audit", !.text = FALSE, !.short = TRUE]}
OcrPages == [ocr : {"none", "applied", "cached", "failed", "unchanged"}, time : {1}]
            \cup [ocr : {"failed"}, time : {0, 3}]
FewBlocks == {PlainBlock, [PlainBlock EXCEPT !.type = "title"], [PlainBlock EXCEPT !.role = "audit", !.text = FALSE],
              [PlainBlock EXCEPT !.page = 2], [PlainBlock EXCEPT !.page = 2, !.role = "artifact", !.type = "table"]}
ShownInput ==
    \/ \E a \in OnPage(1), b \in OnPage(1) \cup OnPage(2), c \in FewBlocks :
          input = [pages |-> <<[ocr |-> "none", time |-> 1], [ocr |-> "applied", time |-> 2]>>, blocks |-> <<a, b, c>>]
    \/ \E q \in [1..2 -> OcrPages], s \in Upto(FewBlocks, 3) : input = [pages |-> q, blocks |-> s]
ScoreInput ==
    \E g \in PageView!GarbleLevels, n \in 0..4, f \in BOOLEAN, s \in {4, 5}, e, d \in BOOLEAN :
        input = [g |-> g, c |-> [failed |-> n, fallback |-> f, signatures |-> s, empty |-> e, single |-> d]]
ProfileInput ==
    \E f \in Profiles!FileKinds, r \in Profiles!Known \cup {"none", "auto", "other"}, p, t \in {"few", "many"} :
        input = [file |-> f, requested |-> r, parsed |-> [f EXCEPT !.pages = p, !.tables = t]]

\* Pages show every text once, every count of pages and of OCR is the same wherever it is
\* told, a score says whether anything was found, and the profile is that of the rules
\* (api_payloads.py, ocr_trace.py, quality.py, profiles.py).
PagesAreTold ==
    /\ Answered("shown") => /\ PageView!PagesAreComplete(input)
                            /\ PageView!OcrIsToldAlike(input)
                            /\ PageView!MeasuresCountPages(input)
    /\ Answered("score") => PageView!ScoresTellFlags(input)
    /\ Answered("profile") => Profiles!ProfilesAreAsDescribed(input)

\* Lists of lines, records and codes, and exports of them, leave nothing out, whatever
\* a client asks for and wherever they come from (api_payloads.py, record_filters.py,
\* stores.py, export_jobs.py, exports.py).
ListsAreComplete ==
    /\ Answered("export") => Exports!ExportsAreWhole(input)
    /\ Answered("files") => Exports!FormatsAgree(input)
    /\ Answered("range") => Exports!RangesAreComplete(input.rows, input.from, input.to)
    /\ Answered("signal") => Exports!SignalsAreFound(input)
    /\ Answered("viewlines") => RecordsView!LinesAreComplete(input)
    /\ Answered("table") => RecordsView!RowsBecomeRecords(input)
    /\ Answered("numbered") => RecordsView!TextIsCut(input)
    /\ Answered("fields") => RecordsView!ShiftsAreSeen(input)
    /\ Answered("codes") => RecordsView!StoredCodesAreTrue(input)
    /\ Answered("list") => RecordsView!ListingIsComplete(input.rows, input.query)

\* The answers of the service about one document agree with it and with each other.
AnswersAreConsistent == AdviceIsConsistent /\ ListsAreComplete /\ ReaderSeesAll /\ PagesAreTold

-----------------------------------------------------------------------------
AnswersInit ==
    \/ topic = "advice" /\ AdviceInput
    \/ topic = "rerun" /\ input \in RerunInputs
    \/ topic = "viewlines" /\ input \in Upto(LineBlocks, 1) \cup [1..2 -> {b \in LineBlocks : Len(b.source) < 2}]
    \/ topic = "table" /\ TableInput
    \/ topic = "numbered" /\ input \in Upto(NumberedBlocks, 3)
    \/ topic = "fields" /\ input \in Upto(FieldValues, 2) \cup [1..3 -> {f \in FieldValues : ~f.dates \/ ~f.ids}]
    \/ topic = "codes" /\ \E a, b \in BlocksAt(1, 1) \cup BlocksAt(1, 2) \cup BlocksAt(2, 2) : input = <<a, b>>
    \/ topic = "list" /\ ListInput
    \/ topic = "export" /\ ExportInput
    \/ topic = "reader" /\ ReaderInput
    \/ topic = "breaks" /\ input \in Upto(TextLines, 3) \cup [1..4 -> {l \in TextLines : l.end # "colon"}]
    \/ topic = "recorded" /\ ItemsInput
    \/ topic = "shown" /\ ShownInput
    \/ topic = "score" /\ ScoreInput
    \/ topic = "profile" /\ ProfileInput
    \/ topic = "files" /\ FilesInput
    \/ topic = "range" /\ RangeInput
    \/ topic = "signal" /\ input \in Upto(SignalRows, 2)

\* The inputs of QualityAdvice only.
AdviceSpec ==
    /\ done = FALSE /\ topic = "advice" /\ AdviceInput
    /\ [][Answer]_<<topic, input, done>>

\* docs/configuration.md:345: the suggestions of the gate describe operations that
\* are available.
AdvisedRerunsRun == Answered("advice") => QualityAdvice!AdvisedRerunsRun(input)
=============================================================================
