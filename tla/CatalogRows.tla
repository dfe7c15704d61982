----------------------------- MODULE CatalogRows -----------------------------
(***************************************************************************)
(* The extractor of the approved catalog (catalog_extractors/               *)
(* caac_approved_catalog_v1.py): the columns and rows of a page, the words   *)
(* of each cell, and the records of a window of pages.  Lengths are in half  *)
(* points.  A word is [text, num, x0, x1, top, bottom]: text is the name of   *)
(* the column it heads, "id" if it looks like an approval number, "label"     *)
(* (TC-1), "cutoff", "footer" or "w"; num is its value if it is a number,     *)
(* else 0.  A page is [section, words, rules, height].                        *)
(***************************************************************************)
EXTENDS Integers, Sequences, FiniteSets, SequencesExt, FiniteSetsExt, TLC

-----------------------------------------------------------------------------
(* Sections.  The title of a page is a set of terms. *)

SectionRules ==
    << <<"pma_item", {{"approved", "pma", "product"}}>>,
       <<"pma_holder", {{"pma maker"}}>>,
       <<"foreign_tso_recognition", {{"foreign tso"}}>>,
       <<"foreign_product_recognition", {{"foreign product"}}>>,
       <<"ctsoa", {{"tso approval"}, {"ctsoa"}}>>,
       <<"vstc", {{"supplemental validation"}, {"vstc"}}>>,
       <<"vtc", {{"validation"}, {"supplemental validation"}, {"vtc"}}>>,
       <<"vda", {{"design validation"}, {"vda"}}>>,
       <<"stc", {{"supplemental type"}, {"stc"}}>>,
       <<"mda", {{"modification"}, {"mda"}}>>,
       <<"tda", {{"type design"}, {"tda"}}>>,
       <<"pc", {{"production"}, {"pc"}}>>,
       <<"tc", {{"type"}, {"supplemental type"}, {"tc"}}>> >>

\* _section_from_header: the first rule that the title satisfies.
SectionOf(title) ==
    LET holds == {i \in DOMAIN SectionRules : \E terms \in SectionRules[i][2] : terms \subseteq title}
    IN  IF holds = {} THEN "" ELSE SectionRules[Min(holds)][1]

\* detect_catalog_sections: each recognized title opens a span that ends before the next.
Spans(titles) ==
    LET at == SelectSeq([p \in DOMAIN titles |-> p], LAMBDA p : SectionOf(titles[p]) # "")
    IN  [k \in DOMAIN at |->
            [section |-> SectionOf(titles[at[k]]), first |-> at[k],
             last |-> IF k < Len(at) THEN at[k + 1] - 1 ELSE at[k]]]

-----------------------------------------------------------------------------
(* Columns and rows of a page. *)

\* _SECTION_HEADER_SPECS, for the sections whose cells are treated in a way of their own.
Fields(section) ==
    CASE section = "stc" -> <<"approval", "holder", "origModel", "origNumber", "model", "date">>
      [] section = "mda" -> <<"approval", "holder", "type", "desc", "date">>
      [] section = "vstc" -> <<"approval", "holder", "type", "model", "desc", "authority">>
      [] section = "vda" -> <<"approval", "holder", "type", "name", "model", "ctso">>
      [] section = "vtc" -> <<"approval", "holder", "type", "model">>
      [] section = "foreign_product_recognition" -> <<"holder", "name", "model", "approval">>
      [] section = "foreign_tso_recognition" -> <<"holder", "name", "model", "approval">>
      [] OTHER -> <<"approval", "holder", "name", "model", "date">>

Serials(page) == {w \in page.words : w.text = "row"}
Serial(page) == CHOOSE w \in Serials(page) : TRUE
HeaderBottom(page) == Serial(page).bottom

\* infer_catalog_header_columns: the words on the line of the serial header that are
\* labels of the section, by x-centre; the second model number may be labelled like the first.
Columns(page) ==
    LET line == {w \in page.words : w.top - Serial(page).top \in -10..10}
        labels(f) == IF f = "origNumber" THEN {"origModel", "origNumber"} ELSE {f}
        Take(acc, f) ==
            LET free == {w \in line : w.text \in labels(f) /\ \A i \in DOMAIN acc : acc[i].word # w}
            IN  IF free = {} THEN acc
                ELSE Append(acc, [key |-> f, word |-> CHOOSE w \in free : \A v \in free : w.x0 =< v.x0])
        all == FoldLeft(Take, <<[key |-> "row", word |-> Serial(page)]>>, Fields(page.section))
    IN  SortSeq(all, LAMBDA a, b : a.word.x0 + a.word.x1 < b.word.x0 + b.word.x1)

\* anchor_row_numbers: a line with one number in the first column is a row.
Anchors(page) ==
    LET right == Serial(page).x1 + 16
        bucket(w) == (2 * w.top + 5) \div 10
        line(b) == {w \in page.words : bucket(w) = b}
        first(b) == {w \in line(b) : w.num > 0 /\ w.x0 =< right /\ w.x1 =< right + 16}
        rows == {b \in {bucket(w) : w \in page.words} : Cardinality(first(b)) = 1}
        anchor(b) == [row |-> (CHOOSE w \in first(b) : TRUE).num,
                      top |-> Min({w.top : w \in line(b)}), bottom |-> Max({w.bottom : w \in line(b)})]
    IN  SetToSortSeq({anchor(b) : b \in rows},
                     LAMBDA a, c : a.top < c.top \/ (a.top = c.top /\ a.row < c.row))

\* map_words_to_columns: a column reaches half way to its neighbours.
ColumnOf(cols, w) ==
    LET centre(i) == cols[i].word.x0 + cols[i].word.x1
    IN  cols[1 + Cardinality({i \in 2..Len(cols) : centre(i - 1) + centre(i) =< 2 * (w.x0 + w.x1)})].key
Mapped(cols, words) ==
    [k \in {cols[i].key : i \in DOMAIN cols} |-> {w \in words : ColumnOf(cols, w) = k}]

\* _is_catalog_furniture_word
IsFurniture(page, w) == w.text = "cutoff" \/ (w.text = "label" /\ w.top >= page.height - 160)

\* _visual_line_groups: a line is named by the top of its first word.
LineTops(words) ==
    LET Open(acc, t) == IF acc = <<>> \/ t - Last(acc) > 5 THEN Append(acc, t) ELSE acc
    IN  FoldLeft(Open, <<>>, SetToSortSeq({w.top : w \in words}, <))
VisualLines(words) ==
    LET tops == LineTops(words)
    IN  [i \in DOMAIN tops |->
            {w \in words : w.top >= tops[i] /\ (i < Len(tops) => w.top < tops[i + 1])}]

-----------------------------------------------------------------------------
(* Words that the centred labels give to the wrong column: [from, to, side,   *)
(* at] moves what begins left or right of at.                                 *)

Has(cols, k) == \E i \in DOMAIN cols : cols[i].key = k
Label(cols, k) == cols[CHOOSE i \in DOMAIN cols : cols[i].key = k].word
LeftOf(cols, from, to, gap) ==
    IF Has(cols, from)
    THEN <<[from |-> from, to |-> to, side |-> "left", at |-> Label(cols, from).x0 - gap]>> ELSE <<>>

StcMoves(cols) == LeftOf(cols, "origNumber", "origModel", 2)
MdaMoves(cols) == LeftOf(cols, "desc", "type", 2) \o LeftOf(cols, "date", "desc", 2)
VstcMoves(cols) ==
    IF \A k \in {"type", "model", "authority"} : Has(cols, k)
    THEN <<[from |-> "type", to |-> "model", side |-> "right", at |-> Label(cols, "type").x1 + 4],
           [from |-> "model", to |-> "desc", side |-> "right", at |-> Label(cols, "model").x1 + 64]>>
         \o LeftOf(cols, "authority", "desc", 2)
    ELSE <<>>
VdaMoves(cols) ==
    IF \A k \in {"type", "name", "ctso"} : Has(cols, k)
    THEN LeftOf(cols, "type", "holder", 0) \o
         <<[from |-> "type", to |-> "name", side |-> "right", at |-> Label(cols, "type").x1 + 2],
           [from |-> "name", to |-> "model", side |-> "right", at |-> Label(cols, "name").x1 + 20]>>
         \o LeftOf(cols, "ctso", "model", 24)
    ELSE <<>>
VtcMoves(cols) == LeftOf(cols, "type", "holder", 2)
TdaMoves(cols) == LeftOf(cols, "model", "holder", 2)

Moves(section, cols) ==
    CASE section = "stc" -> StcMoves(cols)   [] section = "mda" -> MdaMoves(cols)
      [] section = "vstc" -> VstcMoves(cols) [] section = "vda" -> VdaMoves(cols)
      [] section = "vtc" -> VtcMoves(cols)   [] section = "tda" -> TdaMoves(cols)
      [] OTHER -> <<>>

\* The _reassign functions, with the labels of pages that two of them drop first.
Reassigned(page, cols, mapped) ==
    LET kept == [k \in DOMAIN mapped |->
                    {w \in mapped[k] : ~(page.section \in {"mda", "vstc"} /\ w.text = "label" /\ IsFurniture(page, w))}]
        Move(acc, m) ==
            LET out == {w \in acc[m.from] : (m.side = "left") = (w.x0 < m.at)}
                target == IF m.to \in DOMAIN acc THEN acc[m.to] ELSE {}
            IN  IF out = {} THEN acc
                ELSE (m.to :> (target \cup out)) @@ (m.from :> (acc[m.from] \ out)) @@ acc
    IN  FoldLeft(Move, kept, Moves(page.section, cols))

-----------------------------------------------------------------------------
(* Cells of several lines. *)

\* _partition_multiline_column: consecutive lines for every row, so that the middle of
\* its lines is near the row; <<>> if that cannot be told.  Centres are doubled, and
\* scaled by Scale so that the mean of up to four of them is an integer.
Scale == 12
Cost(lines, anchors, r, first, last) ==
    LET centre(i) == Min({w.top : w \in lines[i]}) + Max({w.bottom : w \in lines[i]})
        mean == (Scale * MapThenSumSet(centre, first..last)) \div (last - first + 1)
        off == mean - Scale * (anchors[r].top + anchors[r].bottom)
    IN  off * off

\* cheapest[r][e]: what it costs to give the first e lines to the first r rows, and the
\* end of the row before; of equal costs the first one found stays.
Cheapest(lines, anchors) ==
    LET rows == Len(anchors)
        n == Len(lines)
        table[r \in 0..rows] ==
            [e \in 0..n |->
                IF r = 0 THEN [cost |-> IF e = 0 THEN 0 ELSE -1, start |-> 0]
                ELSE LET starts == {s \in 0..(e - 1) : table[r - 1][s].cost >= 0 /\ e =< n - (rows - r)}
                         cost(s) == table[r - 1][s].cost + Cost(lines, anchors, r, s + 1, e)
                         best == {s \in starts : \A t \in starts : cost(s) =< cost(t)}
                     IN  IF starts = {} THEN [cost |-> -1, start |-> 0]
                         ELSE [cost |-> cost(Min(best)), start |-> Min(best)]]
    IN  table

Partition(page, words, anchors) ==
    LET data == {w \in words : w.top >= HeaderBottom(page) + 3 /\ ~IsFurniture(page, w)}
        lines == VisualLines(data)
        rows == Len(anchors)
        n == Len(lines)
        mid(a) == a.top + a.bottom
        gaps == SortSeq(SelectSeq([i \in 1..(rows - 1) |-> mid(anchors[i + 1]) - mid(anchors[i])],
                                  LAMBDA g : g > 0), <)
        typical == IF gaps = <<>> THEN 48 ELSE gaps[Len(gaps) \div 2 + 1]
        \* four times the tolerance, of 5 to 18 points
        near == Max({80, Min({288, 3 * typical})})
        close(i, a) == LET off == Min({w.top : w \in lines[i]}) + Max({w.bottom : w \in lines[i]}) - mid(a)
                       IN  4 * off \in -near..near
        table == Cheapest(lines, anchors)
        ends[r \in 0..rows] == IF r = rows THEN n ELSE table[r + 1][ends[r + 1]].start
    IN  IF rows = 0 \/ n < rows \/ \E r \in 1..rows : \A i \in 1..n : ~close(i, anchors[r]) THEN <<>>
        ELSE IF n = rows THEN lines
        ELSE [r \in 1..rows |-> UNION {lines[i] : i \in (ends[r - 1] + 1)..ends[r]}]

-----------------------------------------------------------------------------
(* Rows. *)

\* _row_band: between the nearest rules if they enclose this row only, else half way to
\* the rows next to it.  Bounds are doubled: the halves of two tops need not be whole.
RuledBand(page, anchors, i) ==
    LET above == {t \in page.rules : t =< anchors[i].top + 1}
        below == page.rules \ above
        start == Max(above) + 1
        end == Min(below) - 1
        inside == {j \in DOMAIN anchors : anchors[j].top >= start /\ anchors[j].top < end}
    IN  IF above = {} \/ below = {} THEN [there |-> FALSE, alone |-> FALSE, start |-> 0, end |-> 0]
        ELSE [there |-> TRUE, start |-> 2 * start, end |-> 2 * end,
              alone |-> end > start /\ end - start =< 240 /\ Cardinality(inside) =< 1]
BandWith(page, anchors, i, ruled) ==
    LET a == anchors[i]
        before == IF i = 1 THEN 2 * (HeaderBottom(page) + 3) ELSE anchors[i - 1].top + a.top
        after == IF i < Len(anchors) THEN a.top + anchors[i + 1].top ELSE 2 * page.height
    IN  IF ruled.alone THEN <<ruled.start, ruled.end>>
        ELSE IF ruled.there /\ i = Len(anchors) /\ ruled.end > before THEN <<before, ruled.end>>
        ELSE <<before, after>>
RowBand(page, anchors, i) == BandWith(page, anchors, i, RuledBand(page, anchors, i))
Banded(page, anchors, i) ==
    LET band == RowBand(page, anchors, i) IN {w \in page.words : 2 * w.top >= band[1] /\ 2 * w.top < band[2]}

MultilineFields(section) == {"model", "type", "origModel"} \cup (IF section = "vstc" THEN {"desc"} ELSE {})
Isolates(section) == section \in {"foreign_tso_recognition", "vda", "vstc"}

\* _approval_identifier_words: of the words that look like a number, the one nearest to the row.
Identifier(words, top) ==
    LET ids == {w \in words : w.text = "id"}
        off(w) == IF w.top >= top THEN w.top - top ELSE top - w.top
        nearer(v, w) == \/ off(v) < off(w)
                        \/ off(v) = off(w) /\ (v.top < w.top \/ (v.top = w.top /\ v.x0 =< w.x0))
    IN  IF ids = {} THEN {} ELSE {CHOOSE v \in ids : \A w \in ids : nearer(v, w)}

\* The loop of extract_candidate_rows that fills the cells of row i, before it writes them:
\* the words of the band, those of its columns of several lines, the approval number.
Isolated(page, cells, ids) ==
    LET foreign == page.section = "foreign_tso_recognition"
        to == IF foreign THEN "model" ELSE "holder"
        over == {w \in cells["approval"] \ ids : ~(foreign /\ w.text = "cutoff")}
    IN  IF ids = {} THEN [map |-> cells, codes |-> {"approval_identifier_pattern_unmatched"}]
        ELSE [map |-> [k \in DOMAIN cells |-> CASE k = "approval" -> ids
                                               [] k = to -> cells[k] \cup over
                                               [] OTHER -> cells[k]],
              codes |-> IF cells["approval"] = ids THEN {} ELSE {"approval_identifier_extraneous_text"}]
FilledFrom(page, anchors, assigned, i, band) ==
    LET cells == [k \in DOMAIN band |-> IF k \in DOMAIN assigned THEN assigned[k][i] ELSE band[k]]
    IN  IF "approval" \in DOMAIN band /\ band["approval"] # {} /\ Isolates(page.section)
        THEN Isolated(page, cells, Identifier(band["approval"], anchors[i].top))
        ELSE [map |-> cells, codes |-> {}]
Filled(page, cols, anchors, assigned, i) ==
    FilledFrom(page, anchors, assigned, i, Reassigned(page, cols, Mapped(cols, Banded(page, anchors, i))))

\* The loop that writes the cells: it goes through the columns from left to right, so that
\* what it takes from the approval number reaches the holder only if that comes later.
Written(cols, map, anchor) ==
    LET base == {w \in map["approval"] : w.top - anchor.top \in -5..5}
        over == IF "approval" \in DOMAIN map /\ base # {} THEN map["approval"] \ base ELSE {}
        place(k) == CHOOSE i \in DOMAIN cols : cols[i].key = k
        later == Has(cols, "holder") /\ Has(cols, "approval") /\ place("holder") > place("approval")
    IN  [k \in DOMAIN map \ {"row"} |->
            CASE k = "approval" -> IF base # {} THEN base ELSE map[k]
              [] k = "holder" -> IF later THEN map[k] \cup over ELSE map[k]
              [] k = "name" -> {w \in map[k] : w.text # "footer"}
              [] OTHER -> map[k]]

\* extract_candidate_rows: columns of several lines are divided for the whole page.
RowWith(cols, anchor, filled) ==
    [row |-> anchor.row, codes |-> filled.codes, cells |-> Written(cols, filled.map, anchor)]
Assigned(page, data, anchors) ==
    LET parts == [k \in MultilineFields(page.section) \cap DOMAIN data |->
                     IF data[k] = {} THEN <<>> ELSE Partition(page, data[k], anchors)]
    IN  [k \in {f \in DOMAIN parts : parts[f] # <<>>} |-> parts[k]]
RowsWith(page, cols, anchors, assigned) ==
    [i \in DOMAIN anchors |-> RowWith(cols, anchors[i], Filled(page, cols, anchors, assigned, i))]
RowsIn(page, cols, anchors) ==
    RowsWith(page, cols, anchors,
             Assigned(page, Reassigned(page, cols, Mapped(cols, {w \in page.words : w.top >= HeaderBottom(page) + 3})),
                      anchors))
CandidateRows(page) == IF Serials(page) = {} THEN <<>> ELSE RowsIn(page, Columns(page), Anchors(page))

-----------------------------------------------------------------------------
(* Records.  A row is [row, page, cells, from, codes]: cells gives the value  *)
(* of a field, "" if it is empty, from the page of its evidence.              *)

\* _normalize_date: the latest of the dates found; rest tells of other text.
NormalizedDate(d) ==
    [day |-> Max({0} \cup d.found),
     code |-> CASE d.found = {} /\ ~d.rest -> "none"       [] d.found = {} /\ d.rest -> "date_parse_failed"
                [] Cardinality(d.found) > 1 -> "date_multiple_candidates"
                [] OTHER -> IF d.rest THEN "date_text_contains_extra" ELSE "none"]

Inheritable == {"approval", "holder", "name"}

\* _inherit_pma_merged_cells: cells that a row shares with the one before it.
Inherited(row, prev) ==
    LET number == row.cells["approval"]
        shares == /\ prev # <<>> /\ prev[1].cells["approval"] # ""
                  /\ IF number # "" THEN number = prev[1].cells["approval"]
                     ELSE prev[1].row > 0 /\ row.row = prev[1].row + 1
        taken == {f \in Inheritable : row.cells[f] = "" /\ prev[1].cells[f] # ""}
    IN  IF shares /\ taken # {}
        THEN [row EXCEPT !.cells = [f \in DOMAIN @ |-> IF f \in taken THEN prev[1].cells[f] ELSE @[f]],
                         !.from = [f \in DOMAIN @ |-> IF f \in taken THEN prev[1].from[f] ELSE @[f]],
                         !.codes = @ \cup {"inherited_merged_cell"}]
        ELSE row

\* build_candidate_record: the record of a row, <<>> if the row is rejected; omitted tells
\* whether a review allows its holder to be empty.  The identity of a record is its
\* section, row and page with the values of its cells.
RecordOf(section, row, omitted) ==
    IF row.cells["approval"] = "" \/ (row.cells["holder"] = "" /\ ~omitted) THEN <<>>
    ELSE LET pages == {row.page} \cup {row.from[f] : f \in {g \in DOMAIN row.cells : row.cells[g] # ""}}
         IN  << [id |-> <<section, row.page, row.row, row.cells>>,
                 first |-> Min(pages), last |-> Max(pages), missing |-> row.cells["holder"] = "",
                 date |-> NormalizedDate(row.date).day,
                 codes |-> row.codes \cup ({NormalizedDate(row.date).code} \ {"none"})
                           \cup (IF row.cells["holder"] = "" THEN {"source_omission_reviewed"} ELSE {})] >>

\* extract: the records of the owned pages of a window.  A window is [pages, first, last,
\* section, omitted, state]; a page is [page, section, rows]; omitted is the set of <<row, page>>
\* that a review allows.  A review of a holder that is there stops the extraction.
Extract(window) ==
    LET owned(p) == p.page \in window.first..window.last
        Row(page, section, acc, raw) ==
            LET row == IF section = "pma_item" THEN Inherited(raw, acc.prev) ELSE raw
                allowed == <<raw.row, raw.page>> \in window.omitted
                record == RecordOf(section, row, allowed)
                next == IF section = "pma_item" THEN [acc EXCEPT !.prev = <<row>>] ELSE acc
                failed == row.cells["holder"] # "" /\ allowed
                told == [next EXCEPT !.rows = Append(@, row), !.failed = @ \/ failed]
            IN  IF ~owned(page) THEN next
                ELSE IF record = <<>> THEN [told EXCEPT !.rejected = Append(@, row)]
                ELSE IF \E i \in DOMAIN acc.records : acc.records[i].id = record[1].id
                     THEN [told EXCEPT !.signals = @ \cup {<<"duplicate", page.page>>}]
                ELSE [told EXCEPT !.records = @ \o record]
        Page(acc, page) ==
            LET section == IF page.section # "" THEN page.section ELSE acc.section
                seen == [acc EXCEPT !.section = section,
                                    !.signals = IF owned(page) THEN @ ELSE @ \cup {<<"context", page.page>>}]
            IN  IF section = "" \/ (window.section # "" /\ section # window.section)
                THEN [seen EXCEPT !.signals = IF owned(page) THEN @ \cup {<<"uncertain", page.page>>} ELSE @]
                ELSE FoldLeft(LAMBDA a, raw : Row(page, section, a, raw), seen, page.rows)
    IN  FoldLeft(Page, [records |-> <<>>, rejected |-> <<>>, rows |-> <<>>, signals |-> {}, failed |-> FALSE,
                        section |-> window.state.section, prev |-> window.state.prev], window.pages)

-----------------------------------------------------------------------------
(* Properties. *)

\* Sections follow each other without a gap from the first title on, and a title that
\* contains the title of another section names the narrower one.
Narrow == [stc |-> {"supplemental type"}, vstc |-> {"supplemental validation"}]
SpansTile(titles) ==
    LET spans == Spans(titles)
    IN  /\ \A k \in DOMAIN spans : spans[k].first =< spans[k].last
        /\ \A k \in 1..(Len(spans) - 1) : spans[k].last + 1 = spans[k + 1].first
        /\ \A p \in DOMAIN titles : SectionOf(titles[p]) # "" =>
               \E k \in DOMAIN spans : spans[k].first = p /\ spans[k].section = SectionOf(titles[p])
        /\ \A p \in DOMAIN titles, n \in DOMAIN Narrow : Narrow[n] \subseteq titles[p] => SectionOf(titles[p]) = n

\* A column of several lines is divided as a table is read: every line goes to one row,
\* rows get consecutive lines in their order and none is left without, and no other
\* division of that kind puts the lines closer to their rows.
DivisionIsBest(page, words, anchors) ==
    LET parts == Partition(page, words, anchors)
        lines == VisualLines({w \in words : ~IsFurniture(page, w) /\ w.top >= HeaderBottom(page) + 3})
        n == Len(lines)
        rows == Len(anchors)
        cuts == {c \in [0..rows -> 0..n] : c[0] = 0 /\ c[rows] = n /\ \A r \in 1..rows : c[r - 1] < c[r]}
        total(c) == MapThenSumSet(LAMBDA r : Cost(lines, anchors, r, c[r - 1] + 1, c[r]), 1..rows)
        made == {c \in cuts : \A r \in 1..rows : parts[r] = UNION {lines[i] : i \in (c[r - 1] + 1)..c[r]}}
    IN  parts # <<>> => \E c \in made : \A d \in cuts : total(c) =< total(d)

\* Every word of a row's band is in a cell, unless it is furniture or a column before the
\* number is the holder's; in one cell of a row only, and in those of two rows only if one
\* of them lies between rules and the other does not; and the number is never two.
KeptIn(page, rows, cols, anchors) ==
    LET cellsOf(w) == {<<i, k>> \in UNION {{i} \X DOMAIN rows[i].cells : i \in DOMAIN rows} : w \in rows[i].cells[k]}
        early == page.section \in {"foreign_product_recognition", "foreign_tso_recognition"}
        dropped(w) == \/ ColumnOf(cols, w) = "row" \/ w.text \in {"label", "cutoff", "footer"}
                      \/ early /\ ColumnOf(cols, w) = "approval"
        alone(i) == RuledBand(page, anchors, i).alone
    IN  /\ \A w \in UNION {Banded(page, anchors, i) : i \in DOMAIN anchors} :
               /\ dropped(w) \/ cellsOf(w) # {}
               /\ \A c, d \in cellsOf(w) : c # d => c[1] # d[1] /\ alone(c[1]) # alone(d[1])
        /\ Isolates(page.section) => \A i \in DOMAIN rows :
               LET number == rows[i].cells["approval"]
               IN  "approval" \in DOMAIN rows[i].cells /\ (\E w \in number : w.text = "id")
                       => Cardinality(number) = 1
WordsAreKept(page) == Serials(page) # {} => KeptIn(page, CandidateRows(page), Columns(page), Anchors(page))

\* A row inherits only what its own cell leaves empty, from a row of the same approval,
\* and its approval only from the row with the number before its own.
InheritsSoundly(window, row) ==
    LET raws == UNION {ToSet(window.pages[p].rows) : p \in DOMAIN window.pages}
        own == CHOOSE r \in raws : r.page = row.page /\ r.row = row.row
    IN  /\ \A f \in DOMAIN row.cells :
               \/ row.cells[f] = own.cells[f]
               \/ /\ own.cells[f] = "" /\ "inherited_merged_cell" \in row.codes
                  /\ \E r \in raws : /\ r.cells[f] = row.cells[f] /\ r.page = row.from[f] /\ r.row < row.row
                                    /\ r.cells["approval"] \in {"", row.cells["approval"]}
        /\ row.cells["approval"] # own.cells["approval"] => \E r \in raws : r.row = row.row - 1

\* Nothing of a window gets lost without a word: its rows are records, rejected or
\* duplicates, pages it does not own give nothing, and what a record inherited is told.
WindowIsAccounted(window) ==
    LET out == Extract(window)
    IN  /\ \A i \in DOMAIN out.rows : out.rows[i].page \in window.first..window.last
        /\ Len(out.records) + Len(out.rejected) =< Len(out.rows)
        /\ (Len(out.records) + Len(out.rejected) < Len(out.rows)) => \E s \in out.signals : s[1] = "duplicate"
        /\ \A i, j \in DOMAIN out.records : out.records[i].id = out.records[j].id => i = j
        /\ \A p \in DOMAIN window.pages :
               LET page == window.pages[p]
               IN  page.page \in window.first..window.last =>
                      \/ <<"uncertain", page.page>> \in out.signals
                      \/ \A r \in DOMAIN page.rows : \E i \in DOMAIN out.rows :
                             out.rows[i].page = page.page /\ out.rows[i].row = page.rows[r].row
        /\ \A i \in DOMAIN out.records : out.records[i].first # out.records[i].last =>
               "inherited_merged_cell" \in out.records[i].codes
        /\ \A i \in DOMAIN out.rows : InheritsSoundly(window, out.rows[i])

\* A document read in parts, each with context pages before it.  A part knows of a row at
\* most what the whole knows, never another value; and when its first page starts
\* with a title and a complete row, it knows all of it.
Window(pages, section, first, last, context) ==
    [pages |-> SubSeq(pages, Max({1, first - context}), last), first |-> first, last |-> last,
     section |-> section, omitted |-> {}, state |-> [section |-> "", prev |-> <<>>]]
PartsAgree(pages, section, first, context) ==
    LET n == Len(pages)
        whole == Extract(Window(pages, section, 1, n, 0))
        window == Window(pages, section, first, n, context)
        part == Extract(window)
        later == SelectSeq(whole.rows, LAMBDA r : r.page >= first)
        opens == window.pages[1]
        complete == opens.section # "" /\ opens.rows # <<>> /\ \A f \in Inheritable : opens.rows[1].cells[f] # ""
    IN  /\ \A i \in DOMAIN part.rows : \E j \in DOMAIN later :
               /\ later[j].page = part.rows[i].page /\ later[j].row = part.rows[i].row
               /\ \A f \in Inheritable : part.rows[i].cells[f] \in {"", later[j].cells[f]}
        /\ complete => part.rows = later

\* A document read in parts that hand their state on is read as a whole.
ChainAgrees(pages, section, first) ==
    LET n == Len(pages)
        whole == Extract(Window(pages, section, 1, n, 0))
        one == Extract(Window(SubSeq(pages, 1, first - 1), section, 1, first - 1, 0))
        two == Extract([Window(pages, section, first, n, 0) EXCEPT
                            !.state = [section |-> one.section, prev |-> one.prev]])
    IN  one.rows \o two.rows = whole.rows /\ one.records \o two.records = whole.records
=============================================================================
