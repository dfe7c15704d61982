---------------------------- MODULE MCDocuments ----------------------------
(***************************************************************************)
(* The modules that describe functions of the code, evaluated by TLC.        *)
(***************************************************************************)
EXTENDS MCInputs

-----------------------------------------------------------------------------
(* PageOcr and Figures: a page of a PDF, its columns, what OCR finds on it,  *)
(* its figures and the roles of its paragraphs.                              *)

PageOcr == INSTANCE PageOcr WITH Threshold <- 50, LineGap <- 16, MaxJoined <- 12
Figures == INSTANCE Figures

-----------------------------------------------------------------------------
(* Pages 100 wide and 600 high: runs of rows of one kind, 6 or 30 apart; the  *)
(* right half of rows that are 30 apart may be 3 or 4 lower.                  *)

Cell(x, w, y) == [x0 |-> x, x1 |-> x + w, top |-> y]
RowWords(kind, y) ==
    CASE kind = "both" -> {Cell(5, 35, y), Cell(58, 37, y)}
      [] kind = "lower" -> {Cell(5, 15, y), Cell(22, 18, y), Cell(60, 10, y + 3), Cell(72, 20, y + 3)}
      [] kind = "apart" -> {Cell(5, 15, y), Cell(22, 18, y), Cell(60, 10, y + 4), Cell(72, 20, y + 4)}
      [] kind = "left" -> {Cell(5, 15, y), Cell(22, 18, y)}
      [] kind = "right" -> {Cell(60, 10, y), Cell(72, 20, y)}
      [] kind = "full" -> {Cell(5, 40, y), Cell(46, 45, y)}
      [] kind = "torn" -> {Cell(5, 5, y), Cell(40, 20, y)}
\* The kinds of the rows: n of one, then l of left and right in turn, then f of one.
RowsOf(first, n, l, f, last) ==
    [i \in 1..(n + 2 * l + f) |->
        IF i <= n THEN first ELSE IF i > n + 2 * l THEN last
        ELSE IF (i - n) % 2 = 1 THEN "left" ELSE "right"]
PageWith(rows, gap, tables) ==
    [width |-> 100, height |-> 600, tables |-> tables,
     words |-> UNION {RowWords(rows[i], 6 + gap * i) : i \in DOMAIN rows}]
ColumnsInput ==
    \E n \in {0, 7, 8}, l \in {0, 5, 6, 7}, f \in {0, 3, 5}, last \in {"full", "torn"}, gap \in {6, 30},
       first \in {"both", "lower", "apart"}, t \in {{}, {[x0 |-> 0, x1 |-> 50, top |-> 30, bottom |-> 80]}},
       ordering \in BOOLEAN :
        /\ n + 2 * l + f \in 1..19
        /\ first # "both" => n > 0 /\ gap = 30
        /\ input = [page |-> PageWith(RowsOf(first, n, l, f, last), gap, t), ordering |-> ordering]

-----------------------------------------------------------------------------
(* What the engine returns for a page: at most four lines. *)

Entry(o, t, c, x, y, h) == [ok |-> o, text |-> t, conf |-> c, x0 |-> x, x1 |-> x + 30, top |-> y, bottom |-> y + h]
OcrEntries ==
    {Entry(TRUE, t, 90, x, y, 10) : t \in {<<"a">>, <<"a", "b">>}, x \in {0, 55}, y \in {0, 12, 40}}
    \cup {Entry(FALSE, <<"a">>, 90, 0, 12, 10), Entry(TRUE, <<>>, 90, 0, 12, 10), Entry(TRUE, <<"a">>, 49, 0, 12, 10),
          Entry(TRUE, <<"b">>, 50, 0, 28, 0), Entry(TRUE, <<"b">>, 50, 0, 8, 10)}
EngineInput == \E s \in Upto(OcrEntries, 3), c \in {1, 2} : input = [result |-> s, columns |-> c]
OutcomeInput ==
    \E s \in Upto(OcrEntries, 1), r \in {"none", "image"}, e \in BOOLEAN, g \in PageOcr!OcrErrors \cup {"ok"},
       n \in {<<>>, << <<"n">> >>} :
        input = [native |-> n, reason |-> r, engine |-> e, stage |-> g, result |-> s]
JoinEntries == {Entry(TRUE, t, 90, 0, y, 10) : t \in {<<"a">>, <<"b">>, <<"a", "b">>}, y \in {0, 12, 40, 80, 120}}
JoinInput ==
    \E s \in Upto(JoinEntries, 3), j \in SUBSET {1, 2} : input = [result |-> s, joins |-> j]
RefineInput ==
    \E paras \in Upto([ids : {<<1>>, <<1, 2>>}, length : {2, 5, 13}, low : BOOLEAN], 3) :
        \E v \in [DOMAIN paras -> {"high", "low", "error"}], split \in BOOLEAN :
            input = [verdicts |-> v, split |-> split,
                     paras |-> [i \in DOMAIN paras |-> [paras[i] EXCEPT !.ids = [k \in DOMAIN @ |-> <<i, k>>]]]]

\* A page is read in the order of its columns and OCR leaves nothing unsaid
\* (parsers.py).
PagesAreRead ==
    /\ Answered("columns") => PageOcr!ColumnsAreRead(input.page, input.ordering)
                              /\ PageOcr!ColumnsNeedEvidence(input.page, input.ordering)
    /\ Answered("engine") => PageOcr!EveryLineIsRecorded(input.result, input.columns, 100)
    /\ Answered("outcome") =>
           PageOcr!OcrIsTold(input.native, input.reason, input.engine, input.stage, input.result)
    /\ Answered("joined") => PageOcr!ParagraphsFindTheirLines(input.result, input.joins)
    /\ Answered("refined") => PageOcr!RefinersKeepText(input.paras, input.verdicts, input.split)

-----------------------------------------------------------------------------
(* Figures on pages 400 wide and 600 high.                                  *)

Rect(x, y, w, h) == [x0 |-> x, top |-> y, x1 |-> x + w, bottom |-> y + h]
Images == {Rect(100, 200, 200, 150), Rect(0, 0, 400, 560), Rect(0, 10, 60, 30), Rect(340, 560, 50, 30),
           Rect(100, 380, 20, 17), Rect(150, 330, 100, 40), Rect(300, 200, -100, 60), Rect(100, 200, 1, 90)}
FigureLine(y, x, keyword, label, short, heading) ==
    [x0 |-> x, x1 |-> x + 120, top |-> y, bottom |-> y + 10, keyword |-> keyword, label |-> label, short |-> short, heading |-> heading]
FigureLines ==
    {FigureLine(y, x, k, l, TRUE, FALSE) : y \in {40, 180, 355, 368, 575}, x \in {0, 120}, k, l \in BOOLEAN}
    \cup {FigureLine(368, 120, FALSE, FALSE, FALSE, h) : h \in BOOLEAN}
FigureTables == {{}, {Rect(90, 190, 220, 170)}}
FiguresInput ==
    \E a \in Images, b \in {Rect(150, 330, 100, 40), Rect(100, 200, 200, 150)}, t \in FigureTables,
       m \in {<<>>} \cup {<<l>> : l \in FigureLines}
             \cup {<<l, n>> : l \in {x \in FigureLines : x.x0 = 120}, n \in {x \in FigureLines : x.top > 355}} :
        input = [width |-> 400, height |-> 600, images |-> <<a, b>>, lines |-> m, tables |-> t]

Logo(x) == Rect(x, 10, 90, 80)
FigurePages ==
    {[width |-> 400, height |-> 600, images |-> i, lines |-> l, tables |-> {}] :
        i \in {<<>>, <<Logo(150)>>, <<Rect(150, 200, 90, 70)>>, <<Rect(150, 200, 60, 45), Logo(150)>>, <<Rect(100, 200, 200, 150)>>},
        l \in {<<>>, <<FigureLine(272, 140, TRUE, TRUE, TRUE, FALSE)>>}}
RepeatsInput ==
    \/ input \in Upto(FigurePages, 3)
    \/ input \in [1..5 -> {p \in FigurePages : Len(p.images) = 1 /\ p.lines = <<>>}]
    \/ \E p \in FigurePages, q \in [1..2 -> FigurePages] : input = <<p, p, p, p>> \o q
WordsInput == \E s \in SUBSET {Rect(x, y, 4, 4) : x \in {0, 8}, y \in {0, 2, 3, 5, 8}} : Cardinality(s) <= 5 /\ input = s

Firsts == {{}, {"toc", "chapter"}, {"chapter"}, {"appendix"}, {"enum", "bare"}, {"enum"}, {"decimal"}, {"number", "bare"},
           {"item"}, {"long", "section"}}
Texts == {{}, {"note"}, {"list_item", "code"}, {"code"}, {"toc"}, {"lep"}, {"change"}}
RolesInput ==
    \E pars \in Upto([first : Firsts, text : Texts], 2), h \in BOOLEAN, n \in {1, 2},
       w \in {{}, {"contents"}, {"signature"}, {"appendix"}} :
        (\A i \in DOMAIN pars : "toc" \in pars[i].first => "toc" \in pars[i].text)
        /\ input = [pars |-> pars, highlights |-> h, words |-> w, number |-> n]

\* Figures with captions are kept and paragraphs have their roles (parsers.py).
FiguresAreKept ==
    /\ Answered("figures") => Figures!CaptionedFiguresStay(input)
    /\ Answered("repeats") => Figures!RepeatedFiguresGoTogether(input)
    /\ Answered("words") => Figures!LinesKeepWords(input)
    /\ Answered("roles") => Figures!SectionsHaveRoles(input.pars, input.highlights, input.words, input.number)

PagesInit ==
    \/ topic = "columns" /\ ColumnsInput
    \/ topic = "engine" /\ EngineInput
    \/ topic = "outcome" /\ OutcomeInput
    \/ topic = "joined" /\ JoinInput
    \/ topic = "refined" /\ RefineInput
    \/ topic = "figures" /\ FiguresInput
    \/ topic = "repeats" /\ RepeatsInput
    \/ topic = "words" /\ WordsInput
    \/ topic = "roles" /\ RolesInput

-----------------------------------------------------------------------------
(* PdfText: pages of at most five lines, and four short pages. *)

PdfText == INSTANCE PdfText WITH MinLines <- 3, MinEntries <- 2, HeadN <- 1, TailN <- 1

Numbered(s) == [i \in DOMAIN s |-> <<s[i], i>>]
Singles(s) == [i \in DOMAIN s |-> << <<s[i], i>> >>]
LineInputs == {Numbered(s) : s \in Upto({"blank", "body", "marker", "toc", "label", "short"}, 5)}
ParagraphInputs ==
    {Singles(s) : s \in Upto({"body", "short", "label", "columns", "row", "note"}, 5)
                        \cup Upto({"highlights", "anchor", "change", "added", "plain"}, 5)}
HeaderPages == {<<>>, <<"run">>, <<"run", "body">>, <<"body", "run">>, <<"short", "body", "run">>}
HeaderInputs == {[p \in 1..4 |-> Numbered(q[p])] : q \in [1..4 -> HeaderPages]}

\* No line of a page is lost or changed place on its way to paragraphs, except
\* blank lines, page labels and running headers and footers (parsers.py).
PdfTextIsKept ==
    /\ PagesAreRead
    /\ Answered("lines") => PdfText!TextIsKept(input)
    /\ Answered("paragraphs") => PdfText!MergersKeepText(input)
    /\ Answered("headers") => PdfText!OnlyRunningLinesAreStripped(input, 1, 2)

-----------------------------------------------------------------------------
(* PdfBlocks: one page with up to seven items, and documents of three pages. *)

PdfBlocks == INSTANCE PdfBlocks WITH Height <- 4

Para(b, n, o, c) == [body |-> b, long |-> n, open |-> o, cont |-> c]
Page(ps, t, f) == [paras |-> ps, tables |-> t, figures |-> f]
Paras == {Para(TRUE, TRUE, TRUE, TRUE), Para(TRUE, TRUE, FALSE, TRUE), Para(TRUE, TRUE, TRUE, FALSE),
          Para(FALSE, TRUE, TRUE, TRUE), Para(TRUE, FALSE, TRUE, TRUE)}
PageInputs ==
    {Page([i \in 1..n |-> Para(TRUE, TRUE, TRUE, TRUE)], t, f) :
        n \in 0..3, t \in Upto({0, 1, 2, 3, 5}, 2), f \in Upto({0, 1, 2, 3, 5}, 2)}
PagesInputs ==
    Upto({Page(ps, t, <<>>) : ps \in Upto(Paras, 2), t \in {<<>>, <<1>>, <<3>>}}, 2)
    \cup [1..3 -> {Page(ps, <<>>, <<>>) : ps \in Upto(Paras, 1)}]

\* Every item of a page becomes a block of its page, once, in the order of the
\* page, and cached blocks are those of a new parse (parsers.py).
PdfBlocksAreComplete ==
    /\ FiguresAreKept
    /\ Answered("page") => PdfBlocks!SequenceIsComplete(input)
    /\ Answered("pages") => /\ PdfBlocks!EveryPageIsCovered(input)
                          /\ PdfBlocks!MergeKeepsText(input)
                          /\ PdfBlocks!RebindingIsParsing(input)

-----------------------------------------------------------------------------
(* CatalogAudit: two parts that own a page each. *)

CatalogAudit == INSTANCE CatalogAudit

Rec(id, row, first, last) == [id |-> id, row |-> row, first |-> first, last |-> last, sound |-> TRUE]
Recs == Upto({Rec(1, 1, 1, 1), Rec(2, 2, 1, 2), Rec(2, 2, 2, 2), Rec(3, 3, 2, 2), Rec(1, 2, 1, 1)}, 2)
Part(st, first, input_, recs, rej, ctx, defect) ==
    [st |-> st, first |-> first, last |-> first, input |-> input_, records |-> recs,
     candidates |-> Len(recs) + rej, rejected |-> rej, context |-> ctx, defect |-> defect]
AuditInputs ==
    {<<Part(s1, 1, 1, r1, j, FALSE, "none"), Part(s2, 2, 1, r2, 0, c, d)>> :
        s1, s2 \in {"done", "failed"}, r1, r2 \in Recs, j \in {0, 1}, c \in BOOLEAN,
        d \in {"none", "hash"}}
RecordFiles == {s \in Upto({[id |-> 1, body |-> "a"], [id |-> 1, body |-> "b"], [id |-> 2, body |-> "a"]}, 2) :
                    Len(s) = 2 => s[1].id # s[2].id}
CompareInputs == UNION {[1..n -> RecordFiles] : n \in 2..3}

LedgerProfiles == [target : 0..2, context : {0, 1}, active : 1..3, ocr : BOOLEAN, streams : {TRUE},
             schema : {"v1", "v2"}]
Entries == Upto({[id |-> i, row |-> n, page |-> p] : i \in {1, 2}, n \in {1, 2}, p \in 1..3}, 2)
LedgerInputs == {[pr |-> pr, review |-> rv, pages |-> 3, first |-> f, last |-> l, span |-> <<1, 2>>] :
                    pr \in LedgerProfiles, rv \in Entries, f \in {1, 2}, l \in {2, 3}}
Holders == {[holder |-> "identified", name |-> n, papers |-> FALSE, row |-> r, page |-> 1, id |-> i] :
              n \in BOOLEAN, r \in {1, 2}, i \in {0, 1}}
           \cup {[holder |-> "source_missing", name |-> n, papers |-> TRUE, row |-> r, page |-> p, id |-> i] :
              n \in BOOLEAN, r \in {1, 2}, p \in {1, 2}, i \in 0..2}
OmissionInputs == {[review |-> rv, records |-> rs] : rs \in Upto(Holders, 2),
                      rv \in {e \in Entries : e # <<>> /\ \A i \in DOMAIN e : e[i].page < 3}}

\* What the audit and the comparison of a catalog run promise (catalog_runs.py).
AuditIsExact ==
    /\ Answered("ledger") => CatalogAudit!ReviewHasOneOwner(input)
    /\ Answered("omissions") => CatalogAudit!EveryOmissionIsReviewed(input)
    /\ Answered("audit") => CatalogAudit!FinalizedIsExact(input)
    /\ Answered("compare") => CatalogAudit!ComparisonIsEquality(input)

-----------------------------------------------------------------------------
(* Retrieval: three chunks in batches of two, one retry; three chunks of two *)
(* roles, a limit of one or two, two or three candidates.                    *)

Retrieval == INSTANCE Retrieval WITH BatchSize <- 2, MaxRetries <- 1, MinTasks <- 3

Item(i, o, l) == [index |-> i, of |-> o, len |-> l]
Answers == {Retrieval!Down, <<Item(0, 1, 2)>>, <<Item(0, 1, 2), Item(0, 2, 2)>>,
            <<Item(2, 2, 2), Item(1, 1, 2)>>, <<Item(1, 1, 2), Item(0, 2, 2)>>,
            <<Item(1, 1, 2), Item(2, 2, 1)>>, <<Item(1, 1, 3)>>, <<Item(1, 1, 0)>>}
EmbedInputs == {[answers |-> a, n |-> n] : a \in Upto(Answers, 4), n \in 1..3}
                \cup {[answers |-> [i \in 1..8 |-> Retrieval!Down], n |-> 3]}

IndexChunks == {[role |-> r, words |-> w, match |-> v, len |-> l] :
                  r \in {"body", "table"}, w \in {0, 1}, v \in {-1, 1}, l \in {0, 2}}
Score1(i, s) == [index |-> i, score |-> s]
RerankAnswers == {<<>>, <<Score1(2, 1)>>, <<Score1(3, 2), Score1(1, 1)>>,
                  <<Score1(2, 1), Score1(2, 2)>>, <<Score1(1, 0), Score1(4, 1), Score1(3, 1)>>}
Queries == {[roles |-> r, len |-> l, limit |-> n, candidates |-> c, rerank |-> b] :
              r \in {{}, {"body"}}, l \in {0, 2}, n \in {1, 2}, c \in {2, 3}, b \in BOOLEAN}
SearchInputs == {[query |-> q, chunks |-> c, results |-> a, checked |-> k] :
                   q \in Queries, c \in UNION {[1..n -> IndexChunks] : n \in {0, 2}},
                   a \in RerankAnswers, k \in BOOLEAN}
                \cup {[query |-> q, chunks |-> c, results |-> a, checked |-> k] :
                   q \in {x \in Queries : x.rerank /\ x.roles = {} /\ x.len = 0},
                   c \in [1..3 -> {x \in IndexChunks : x.len = 0 /\ x.match = 1}],
                   a \in RerankAnswers, k \in BOOLEAN}

\* Up to four blocks, of which a search for one task looks at three.
SearchedBlock(r, w, t, k) == [role |-> r, words |-> w, tags |-> t, task |-> k]
SearchedBlocks ==
    {SearchedBlock("title", 1, {}, FALSE), SearchedBlock("body_section", 1, {}, TRUE), SearchedBlock("warning", 1, {}, FALSE),
     SearchedBlock("note", 2, {"page:toc"}, FALSE), SearchedBlock("toc_entry", 1, {"page:toc"}, TRUE)}
    \cup {SearchedBlock("paragraph", 1, {}, TRUE), SearchedBlock("paragraph", 1, {}, FALSE),
          SearchedBlock("paragraph", 2, {}, FALSE), SearchedBlock("paragraph", 1, {"page:toc"}, TRUE),
          SearchedBlock("paragraph", 0, {}, TRUE)}
BlocksInput ==
    \E s \in Upto(SearchedBlocks, 4), n \in {0, 7}, l \in {1, 2} :
        /\ Len(s) = 4 => l = 1 /\ n = 7
        /\ input = [blocks |-> s, lead |-> n, limit |-> l]

\* A vector belongs to its chunk, and a search returns what matches, whatever
\* the providers of vectors and of scores answer (runtime.py, embeddings.py); a search
\* of blocks or of tasks finds the best.
RetrievalIsSound ==
    /\ Answered("embed") => Retrieval!VectorsBelong(input)
    /\ Answered("search") => Retrieval!SearchIsComplete(input)
    /\ Answered("blocks") => Retrieval!BestBlocksAreFound(input)

-----------------------------------------------------------------------------
(* OfficeText: up to four paragraphs and tables, one sheet of four rows or two *)
(* of two, two pages of Markdown.                                              *)

OfficeText == INSTANCE OfficeText WITH MaxCells <- 3

P(c, l, s, v, b) == [tbl |-> FALSE, class |-> c, label |-> l, styled |-> s, level |-> v, brk |-> b]
T(c) == [tbl |-> TRUE, class |-> c, label |-> FALSE, styled |-> FALSE, level |-> 0, brk |-> FALSE]
Children == {P("toc", FALSE, FALSE, 0, FALSE), P("lep", FALSE, FALSE, 0, TRUE),
             P("signature", FALSE, FALSE, 1, FALSE), P("numbered", TRUE, FALSE, 1, FALSE),
             P("numbered", FALSE, FALSE, 3, FALSE), P("appendix", TRUE, TRUE, 0, FALSE),
             P("pageref", FALSE, FALSE, 0, FALSE), P("text", TRUE, FALSE, 0, FALSE),
             P("text", FALSE, TRUE, 1, TRUE), P("note", FALSE, TRUE, 0, FALSE),
             P("empty", FALSE, FALSE, 1, TRUE), T("empty"), T("text"), T("revision"), T("pageref")}

Sheet(rows, h) == [rows |-> rows, hidden |-> h]
Rows(w) == [1..w -> BOOLEAN]
SheetInputs ==
    {[sheets |-> <<Sheet(r, FALSE)>>, hiddenToo |-> FALSE] :
        r \in UNION {[1..n -> Rows(2)] : n \in 1..5} \cup [1..3 -> Rows(3)]}
    \cup {[sheets |-> <<Sheet(r, h), Sheet(q, FALSE)>>, hiddenToo |-> t] :
        r \in [1..2 -> Rows(2)], q \in [1..3 -> Rows(2)], h, t \in BOOLEAN}

MdLines == {"blank", "head", "table", "rule", "text"}
MdInputs == {<<[reported |-> r, lines |-> l]>> : r \in {-1, 1}, l \in Upto(MdLines, 5)}
            \cup {<<[reported |-> r, lines |-> l], [reported |-> q, lines |-> k]>> :
                    r, q \in -1..2, l, k \in Upto(MdLines, 2)}

\* What paragraphs, tables, cells and lines become of a DOCX, Excel or Markdown
\* file: nothing is lost, and a table has the title that stands above it.
OfficeTextIsKept ==
    /\ Answered("docx") => OfficeText!DocxIsComplete(input)
    /\ Answered("sheets") => OfficeText!SheetsAreComplete(input)
    /\ Answered("markdown") => OfficeText!MarkdownIsKept(input)

-----------------------------------------------------------------------------
(* KnowledgeUnits: three units on each side; four units of a hierarchy; three *)
(* that continue each other; two blocks on two pages with two chunks.         *)

KnowledgeUnits == INSTANCE KnowledgeUnits

Known(source) == {[content |-> c, structure |-> s, source |-> source] : c, s \in {1, 2}}
DiffInputs == {[previous |-> p, current |-> c] : p \in Upto(Known(1), 3),
                  c \in Upto(Known(1), 3) \cup Upto(Known(2), 3)}

Heads == {[kind |-> "head", level |-> l, no |-> <<>>] : l \in {0, 3}}
         \cup {[kind |-> "head", level |-> 0, no |-> n] : n \in {<<1>>, <<2>>, <<4>>, <<1, 1>>, <<1, 3>>}}
HierarchyInputs ==
    Upto(Heads \cup {[kind |-> "item", level |-> l, no |-> <<>>] : l \in 1..3}
               \cup {[kind |-> "text", level |-> 0, no |-> <<>>]}, 4)

Links(from) == {[type |-> IF t = {} THEN "paragraph" ELSE "table", tables |-> t, from |-> f,
                 cont |-> f # 0 \/ c, group |-> g] :
                  t \in {{}, {1}}, f \in from, c \in BOOLEAN, g \in {0, 1}}
Spans == {<< <<1, 1>>, <<1, 1>>, <<2, 2>> >>, << <<1, 1>>, <<2, 2>>, <<3, 3>> >>,
          << <<1, 2>>, <<2, 2>>, <<3, 3>> >>, << <<1, 1>>, <<3, 3>>, <<3, 4>> >>}
On(u, span) == [type |-> u.type, tables |-> u.tables, from |-> u.from, cont |-> u.cont,
                group |-> u.group, first |-> span[1], last |-> span[2]]
ContinuityInputs == {<<On(a, s[1]), On(b, s[2]), On(c, s[3])>> :
                       a \in Links({0, 2}), b \in Links({0, 1, 9}), c \in Links({0, 1, 2}), s \in Spans}

CoverageInput ==
    \E a \in BlocksAt(1, 1) \cup BlocksAt(1, 2), b \in BlocksAt(2, 2), c \in ChunkLists :
        input = [blocks |-> <<a, b>>, chunks |-> c, manifest |-> <<>>]
RecordedInput ==
    \E a \in {x \in BlocksAt(1, 1) : x.type # "image"}, b \in {x \in BlocksAt(2, 2) : x.type # "table"},
        c \in {y \in ChunkLists : Len(y) = 2 /\ 2 \in y[2].blocks},
        m \in {<<[blocks |-> B, chunks |-> {}, index |-> i]>> : B \in {{1}, {1, 2}}, i \in {"yes", "no", "unset"}}
              \cup {<<[blocks |-> {1}, chunks |-> {}, index |-> i], [blocks |-> {2}, chunks |-> {2}, index |-> j]>> :
                      i, j \in {"yes", "no"}} :
        input = [blocks |-> <<a, b>>, chunks |-> c, manifest |-> m]

\* What a document consists of, what of it can be found, and what changed since
\* the last run, are told without gaps (ir.py).
KnowledgeIsSound ==
    /\ Answered("diff") => KnowledgeUnits!DiffIsExact(input)
    /\ Answered("hierarchy") => KnowledgeUnits!SectionsAreATree(input)
    /\ Answered("continuity") => KnowledgeUnits!ContinuityIsSound(input)
    /\ Answered("coverage") => KnowledgeUnits!CoverageIsHonest(input)

-----------------------------------------------------------------------------
Init ==
    /\ done = FALSE
    /\ \/ PagesInit
       \/ topic = "lines" /\ input \in LineInputs
       \/ topic = "paragraphs" /\ input \in ParagraphInputs
       \/ topic = "headers" /\ input \in HeaderInputs
       \/ topic = "page" /\ input \in PageInputs
       \/ topic = "pages" /\ input \in PagesInputs
       \/ topic = "ledger" /\ input \in LedgerInputs
       \/ topic = "omissions" /\ input \in OmissionInputs
       \/ topic = "audit" /\ input \in AuditInputs
       \/ topic = "compare" /\ input \in CompareInputs
       \/ topic = "docx" /\ input \in Upto(Children, 4)
       \/ topic = "sheets" /\ input \in SheetInputs
       \/ topic = "markdown" /\ input \in MdInputs
       \/ topic = "embed" /\ input \in EmbedInputs
       \/ topic = "search" /\ input \in SearchInputs
       \/ topic = "blocks" /\ BlocksInput
       \/ topic = "diff" /\ input \in DiffInputs
       \/ topic = "hierarchy" /\ input \in HierarchyInputs
       \/ topic = "continuity" /\ input \in ContinuityInputs
       \/ topic = "coverage" /\ (CoverageInput \/ RecordedInput)

Spec == Init /\ [][Answer]_<<topic, input, done>>
=============================================================================
