----------------------------- MODULE OfficeText -----------------------------
(***************************************************************************)
(* The parsers of DOCX, Excel and Markdown (parsers.py): what they make of  *)
(* the paragraphs, cells and lines of a file.  The regular expressions      *)
(* decide about the class of a text; here the class is part of the input.   *)
(***************************************************************************)
EXTENDS Integers, Sequences, FiniteSets, SequencesExt, FiniteSetsExt

CONSTANT MaxCells    \* parsers.excel.max_metadata_cells

-----------------------------------------------------------------------------
(* DOCX. *)

\* A child of the body is a paragraph [tbl, class, label, styled, level, brk]:
\* the class of its text, whether a page label ends it, whether its style is a
\* heading style, its outline level (0: none) and whether it breaks the page.
\* A table has the class of its cells together: "empty" if all are.
FrontHeadings == {"toc", "lep", "revision", "distribution"}

DocxState == [body |-> FALSE, toc |-> FALSE, lep |-> FALSE, open |-> FALSE,
              text |-> "none", role |-> "none", at |-> 0]

Titled(st, role, page) == [st |-> st, type |-> "title", role |-> role, page |-> page]
Plain(st, role, page) ==
    [st |-> [st EXCEPT !.open = FALSE], type |-> "paragraph", role |-> role, page |-> page]

NoiseClasses == {"version", "pageref", "footer", "artifact"}

\* _infer_semantic_role, and the lists that are open, give a paragraph its role.
InferredRole(st, p) ==
    IF p.class # "text" THEN p.class
    ELSE IF st.toc /\ p.label THEN "toc_entry"
    ELSE IF st.lep THEN "lep_entry"
    ELSE "paragraph"

ParagraphPage(st, role) ==
    IF role = "toc_entry" THEN "toc"
    ELSE IF role = "lep_entry" \/ ~st.body THEN "front_matter"
    ELSE "body"

\* _classify_docx_paragraph, one disjunct of the code after the other.
ClassifyParagraph(st, q) ==
    LET p == IF q.class = "signature" /\ st.body THEN [q EXCEPT !.class = "text"] ELSE q
        closed == [st EXCEPT !.toc = FALSE, !.lep = FALSE, !.open = TRUE]
        role == InferredRole(st, p)
    IN  CASE p.class \in FrontHeadings ->
               Titled([closed EXCEPT !.toc = p.class = "toc", !.lep = p.class = "lep"],
                      "front_matter", "front_matter")
          [] p.class = "signature" -> Titled(closed, "front_matter", "signature")
          [] p.class \in {"numbered", "appendix"} ->
               LET section == IF p.class = "appendix" THEN "appendix" ELSE "body_section"
               IN  IF st.body \/ p.styled \/ p.class = "appendix" \/ ~p.label
                   THEN Titled([closed EXCEPT !.body = TRUE], section,
                               IF p.class = "appendix" THEN "appendix" ELSE "body")
                   ELSE Plain(st, "toc_entry", "toc")
          [] p.class \in NoiseClasses ->
               Plain(st, p.class, IF st.body THEN "body" ELSE "front_matter")
          [] p.styled /\ role = "paragraph" ->
               Titled([st EXCEPT !.body = TRUE, !.open = TRUE], "body_section", "body")
          [] OTHER ->
               Plain(st, IF st.body \/ role \in {"toc_entry", "lep_entry", "note"}
                         THEN role ELSE "paragraph", ParagraphPage(st, role))

\* _classify_docx_table: by its cells, or by the last heading.
ClassifyTable(st, t) ==
    LET says(c) == t.class = c \/ st.text = c
    IN  CASE t.class = "lep" \/ (st.role = "front_matter" /\ st.text = "lep") ->
               [role |-> "lep_entry", page |-> "front_matter"]
          [] says("revision") -> [role |-> "revision_record", page |-> "front_matter"]
          [] says("distribution") -> [role |-> "distribution_list", page |-> "front_matter"]
          [] st.role = "appendix" -> [role |-> "appendix", page |-> "appendix"]
          [] t.class \in NoiseClasses ->
               [role |-> "parse_artifact", page |-> IF st.body THEN "body" ELSE "front_matter"]
          [] OTHER -> [role |-> "table", page |-> IF st.body THEN "body" ELSE "front_matter"]

LogicalPage(lp, c) ==
    IF ~c.tbl /\ (c.brk \/ (c.level \in 1..2 /\ lp > 1)) THEN lp + 1 ELSE lp

\* A block that titles the tables that follow it whatever stands between.
BadDocxStep(acc, c) ==
    LET lp == LogicalPage(acc.lp, c)
        n == Len(acc.blocks) + 1
        got == ClassifyParagraph(acc.st, c)
        of == ClassifyTable(acc.st, c)
    IN  IF c.class = "empty" THEN [acc EXCEPT !.lp = lp]
        ELSE IF c.tbl
        THEN [acc EXCEPT !.blocks = Append(@,
                [type |-> "table", role |-> of.role, page |-> of.page, lp |-> lp,
                 title |-> acc.st.at])]
        ELSE [lp |-> lp,
              st |-> IF got.type = "title"
                     THEN [got.st EXCEPT !.text = c.class, !.role = got.role, !.at = n]
                     ELSE got.st,
              blocks |-> Append(acc.blocks,
                [type |-> got.type, role |-> got.role, page |-> got.page, lp |-> lp, title |-> 0])]

\* DocxParser.parse for one child: empty paragraphs and tables leave no block; a
\* title becomes the last heading; title is the number of the block that gives a
\* table its table_title.
DocxStep(acc, c) ==
    LET lp == LogicalPage(acc.lp, c)
        n == Len(acc.blocks) + 1
        got == ClassifyParagraph(acc.st, c)
        of == ClassifyTable(acc.st, c)
    IN  IF c.class = "empty" THEN [acc EXCEPT !.lp = lp]
        ELSE IF c.tbl
        THEN [acc EXCEPT !.blocks = Append(@,
                [type |-> "table", role |-> of.role, page |-> of.page, lp |-> lp,
                 title |-> IF acc.st.open THEN acc.st.at ELSE 0])]
        ELSE [lp |-> lp,
              st |-> IF got.type = "title"
                     THEN [got.st EXCEPT !.text = c.class, !.role = got.role, !.at = n]
                     ELSE got.st,
              blocks |-> Append(acc.blocks,
                [type |-> got.type, role |-> got.role, page |-> got.page, lp |-> lp, title |-> 0])]

DocxBlocks(children) ==
    FoldLeft(DocxStep, [lp |-> 1, st |-> DocxState, blocks |-> <<>>], children).blocks

-----------------------------------------------------------------------------
(* Excel.  A sheet is a sequence of rows of equal length; a cell is TRUE if it *)
(* is not empty.                                                               *)

Filled(row) == Cardinality({c \in DOMAIN row : row[c]})

\* _split_excel_table_regions: [from, to] of the regions.  An empty row ends one;
\* a row with one cell begins one if the next row has two or more.
Regions(rows) ==
    LET n == Len(rows)
        titles(r) == Filled(rows[r]) = 1 /\ r < n /\ Filled(rows[r + 1]) >= 2
        starts(r) == Filled(rows[r]) > 0 /\ (r = 1 \/ Filled(rows[r - 1]) = 0 \/ titles(r))
        ends(r) == Filled(rows[r]) > 0 /\ (r = n \/ Filled(rows[r + 1]) = 0 \/ titles(r + 1))
    IN  {<<f, t>> \in (1..n) \X (1..n) :
            f <= t /\ starts(f) /\ ends(t) /\ \A r \in f..(t - 1) : ~ends(r)}

\* _detect_excel_table_layout: 0 if the first row is not a title.
TitleRow(rows, region) ==
    IF region[2] > region[1] /\ Filled(rows[region[1]]) = 1 /\ Filled(rows[region[1] + 1]) >= 2
    THEN region[1] ELSE 0

\* _trim_excel_rows and _append_sheet_blocks: the ranges of a table.  The rows
\* of a region are not empty, so that only columns are trimmed.
TableOf(rows, region) ==
    LET title == TitleRow(rows, region)
        first == IF title = 0 THEN region[1] ELSE region[1] + 1
        cols == {c \in 1..Len(rows[1]) : \E r \in first..region[2] : rows[r][c]}
    IN  [title |-> title, top |-> first, bottom |-> region[2], left |-> Min(cols), right |-> Max(cols)]

Tables(rows) == {TableOf(rows, g) : g \in Regions(rows)}

InTable(t, r, c) == r \in t.top..t.bottom /\ c \in t.left..t.right

\* _excel_range_intersects
Intersects(a, b) ==
    ~(a.bottom < b.top \/ b.bottom < a.top \/ a.right < b.left \/ b.right < a.left)

\* Merged ranges and formulas that a table names.
MergedOf(t, merged) ==
    {g \in merged : Intersects(g, [t EXCEPT !.top = IF t.title = 0 THEN @ ELSE t.title])}
FormulasOf(t, formulas) == {f \in formulas : InTable(t, f[1], f[2])}

\* _excel_cells_metadata: the rows of a table that its metadata shows.
RowsShown(t) ==
    LET n == t.bottom - t.top + 1
        w == t.right - t.left + 1
    IN  IF n * w <= MaxCells THEN n ELSE Max({1, Min({n, MaxCells \div w})})

\* The tables of a workbook in the order of the blocks, with their positions.
SheetTables(sheet) == SetToSortSeq(Tables(sheet.rows), LAMBDA a, b : a.top < b.top)
Workbook(sheets, hiddenToo) ==
    LET Add(acc, i) ==
            IF sheets[i].hidden /\ ~hiddenToo THEN acc
            ELSE acc \o [k \in DOMAIN SheetTables(sheets[i]) |->
                           [page |-> i, position |-> Len(acc) + k, t |-> SheetTables(sheets[i])[k]]]
    IN  FoldLeft(Add, <<>>, [i \in DOMAIN sheets |-> i])

-----------------------------------------------------------------------------
(* Markdown: lines are "blank", "head", "table" (of two cells or more), "rule" *)
(* (a table line of dashes) or "text".                                         *)

\* _markdown_segments.  pending holds the paragraph or the table that is open;
\* never both are.
SegmentStep(acc, i, lines) ==
    LET kind == IF lines[i] \in {"table", "rule"} THEN "table" ELSE "paragraph"
        flushed == IF acc.pending.lines = <<>> THEN acc.out ELSE Append(acc.out, acc.pending)
        none == [type |-> "paragraph", lines |-> <<>>]
    IN  CASE lines[i] = "blank" -> [out |-> flushed, pending |-> none]
          [] lines[i] = "head" -> [out |-> Append(flushed, [type |-> "title", lines |-> <<i>>]),
                                   pending |-> none]
          [] acc.pending.lines # <<>> /\ acc.pending.type = kind ->
               [acc EXCEPT !.pending.lines = Append(@, i)]
          [] OTHER -> [out |-> flushed, pending |-> [type |-> kind, lines |-> <<i>>]]

Segments(lines) ==
    LET Step(acc, i) == SegmentStep(acc, i, lines)
        last == FoldLeft(Step, [out |-> <<>>, pending |-> [type |-> "paragraph", lines |-> <<>>]],
                         [i \in DOMAIN lines |-> i])
    IN  IF last.pending.lines = <<>> THEN last.out ELSE Append(last.out, last.pending)

\* _normalize_pymupdf4llm_pages, _coerce_page_number: the number of the k-th page
\* that a provider returned; reported is what it says of it (-1: nothing).
\* Pages without text are left out.
PageNumber(k, reported) ==
    IF reported = -1 THEN k ELSE IF reported >= 1 THEN reported ELSE reported + 1

\* _build_markdown_provider_blocks
MarkdownBlocks(pages) ==
    LET Add(acc, k) ==
            LET segs == Segments(pages[k].lines)
            IN  acc \o [s \in DOMAIN segs |->
                    [page |-> PageNumber(k, pages[k].reported), position |-> Len(acc) + s,
                     chunk |-> k, type |-> segs[s].type, lines |-> segs[s].lines]]
    IN  FoldLeft(Add, <<>>, [k \in DOMAIN pages |-> k])

-----------------------------------------------------------------------------
(* What must hold. *)

\* Each child with text becomes one block, in order; a table has the title of
\* the last heading exactly if only tables stand between them; logical pages do
\* not decrease; and no block before the first section of the body is on a page
\* of the body.
DocxIsComplete(children) ==
    LET blocks == DocxBlocks(children)
        full == SelectSeq(children, LAMBDA c : c.class # "empty")
        titles(i) == {h \in 1..(i - 1) : blocks[h].type = "title"}
    IN  /\ Len(blocks) = Len(full)
        /\ \A i \in DOMAIN blocks :
             /\ (blocks[i].type = "table") = full[i].tbl
             /\ i > 1 => blocks[i - 1].lp <= blocks[i].lp
             /\ full[i].tbl =>
                  blocks[i].title =
                    IF titles(i) # {} /\ \A k \in (Max(titles(i)) + 1)..(i - 1) : full[k].tbl
                    THEN Max(titles(i)) ELSE 0
             /\ blocks[i].page = "body" =>
                  \E h \in 1..i : blocks[h].type = "title" /\ blocks[h].role \in {"body_section", "appendix"}

\* Every cell with a value is in one table, or is the title of one; the tables
\* of a sheet do not overlap, and their order is that of their positions, which
\* count on from sheet to sheet; a formula is counted once, unless it is a
\* title; and the cells shown are no more than allowed, or one row.
SheetsAreComplete(in) ==
    LET out == Workbook(in.sheets, in.hiddenToo)
        of(i) == {out[k].t : k \in {j \in DOMAIN out : out[j].page = i}}
    IN  /\ \A k \in DOMAIN out : out[k].position = k /\ (k > 1 => out[k - 1].page <= out[k].page)
        /\ \A i \in DOMAIN in.sheets : ~in.sheets[i].hidden \/ in.hiddenToo =>
             LET rows == in.sheets[i].rows
             IN  /\ \A r \in DOMAIN rows : \A c \in DOMAIN rows[r] : rows[r][c] =>
                      /\ Cardinality({t \in of(i) : InTable(t, r, c) \/ t.title = r}) = 1
                      /\ \E t \in of(i) : t.title = r => Filled(rows[r]) = 1
                 /\ \A t, u \in of(i) : t # u => ~Intersects(t, u)
                 /\ \A f \in (DOMAIN rows) \X (1..Len(rows[1])) :
                      Cardinality({t \in of(i) : FormulasOf(t, {f}) # {}}) <= 1
                 /\ \A t \in of(i) :
                      /\ t.title # 0 => t.title = t.top - 1 /\ Filled(rows[t.top]) >= 2
                      /\ RowsShown(t) * (t.right - t.left + 1) <= Max({MaxCells, t.right - t.left + 1})

\* Every line with text is in one segment, in order, and a table has no other
\* lines than those of tables.
MarkdownIsKept(pages) ==
    LET blocks == MarkdownBlocks(pages)
        kept == FlattenSeq([b \in DOMAIN blocks |->
                   [i \in DOMAIN blocks[b].lines |-> <<blocks[b].chunk, blocks[b].lines[i]>>]])
        wanted == FlattenSeq([k \in DOMAIN pages |->
                   SelectSeq([i \in DOMAIN pages[k].lines |-> <<k, i>>],
                             LAMBDA x : pages[k].lines[x[2]] # "blank")])
    IN  /\ kept = wanted
        /\ \A b \in DOMAIN blocks : blocks[b].position = b
        /\ \A b \in DOMAIN blocks : \A i \in DOMAIN blocks[b].lines :
             (blocks[b].type = "table")
                = (pages[blocks[b].chunk].lines[blocks[b].lines[i]] \in {"table", "rule"})
        /\ (\A k \in DOMAIN pages : pages[k].reported \in {-1, k}) =>
             \A b \in DOMAIN blocks : blocks[b].page = blocks[b].chunk
=============================================================================
