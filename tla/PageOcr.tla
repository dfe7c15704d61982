------------------------------ MODULE PageOcr ------------------------------
(***************************************************************************)
(* How parsers.py reads one page of a PDF: whether it has two columns, the   *)
(* order in which its words are then read, how the lines an OCR engine       *)
(* returns are ordered and joined into paragraphs and line records, and how  *)
(* the lines of a paragraph are found again after the paragraphs have been   *)
(* regrouped.                                                               *)
(*                                                                          *)
(* Lengths are integers; fractions of the page are compared by multiplying   *)
(* out.  A text is a sequence of characters without its white space.         *)
(***************************************************************************)
EXTENDS Integers, Sequences, SequencesExt, FiniteSetsExt

CONSTANTS Threshold,   \* ocr_confidence_threshold, in percent
          LineGap,     \* ocr_merge_line_gap_ratio, in tenths
          MaxJoined    \* characters two paragraphs joined by similarity may have

Spans(x) == x.x1 - x.x0
Band(top, page) == Min({19, Max({0, (top * 20) \div page.height})})
OnLeft(x, page) == 100 * x.x1 <= 48 * page.width
OnRight(x, page) == 100 * x.x0 >= 52 * page.width

-----------------------------------------------------------------------------
(* _estimate_column_count.  A page is [width, height, words]; a word has     *)
(* [x0, x1, top], and words of one row have tops of one third.               *)

RowOf(word) == (2 * word.top + 3) \div 6
Rows(page) == {RowOf(w) : w \in page.words}

\* A row with a gap over the middle and enough text on either side of it.
HasGutter(row, page) ==
    LET spans == {w \in page.words : RowOf(w) = row} IN
    \E l, r \in spans :
        /\ l.x0 < r.x0 /\ ~\E w \in spans : l.x0 < w.x0 /\ w.x0 < r.x0
        /\ 100 * l.x1 <= 52 * page.width /\ 100 * r.x0 >= 48 * page.width
        /\ 1000 * (r.x0 - l.x1) >= 35 * page.width
        /\ 100 * (l.x1 - Min({w.x0 : w \in spans})) >= 18 * page.width
        /\ 100 * (Max({w.x1 : w \in spans}) - r.x0) >= 18 * page.width

Gutters(page) == {r \in Rows(page) : HasGutter(r, page)}
CentralGutter(page) ==
    /\ Cardinality(Gutters(page)) >= 8
    /\ Cardinality({(r * 60) \div page.height : r \in Gutters(page)}) >= 6

\* Words from top to bottom and from left to right, as extract_words gives them where
\* rows of text are well apart.
InOrder(words) ==
    SortSeq(FoldSet(LAMBDA w, s : Append(s, w), <<>>, words),
            LAMBDA a, b : a.top < b.top \/ (a.top = b.top /\ a.x0 < b.x0))

\* The lines: a word is in the line before it unless its top is more than 3 from the
\* line's, that of the line's first word.
Lines(page) ==
    LET Line(w) == [x0 |-> w.x0, x1 |-> w.x1, top |-> w.top, words |-> 1]
        Joins(l, w) == w.top - l.top \in -3..3
        Joined(l, w) == [l EXCEPT !.x0 = Min({@, w.x0}), !.x1 = Max({@, w.x1}), !.words = @ + 1]
    IN  FoldLeft(LAMBDA lines, w :
                     LET n == Len(lines) IN
                     IF n > 0 /\ Joins(lines[n], w) THEN [lines EXCEPT ![n] = Joined(@, w)]
                     ELSE Append(lines, Line(w)),
                 <<>>, InOrder(page.words))
Wide(l, page) == 100 * Spans(l) >= 55 * page.width
Narrow(l, page) == ~Wide(l, page) /\ l.words >= 2 /\ 100 * Spans(l) <= 42 * page.width
SharedBands(lines, page) ==
    LET left == {Band(l.top, page) : l \in {x \in ToSet(lines) : Narrow(x, page) /\ OnLeft(x, page)}}
        right == {Band(l.top, page) : l \in {x \in ToSet(lines) : Narrow(x, page) /\ OnRight(x, page)}}
        wide == Len(SelectSeq(lines, LAMBDA l : Wide(l, page)))
    IN  /\ Len(lines) >= 12
        /\ Cardinality(left \cap right) >= 4 /\ Cardinality(left) >= 6 /\ Cardinality(right) >= 6
        /\ wide <= Max({3, Len(lines) \div 4})

Columns(page) == IF CentralGutter(page) \/ SharedBands(Lines(page), page) THEN 2 ELSE 1

-----------------------------------------------------------------------------
(* The native text of a page, a sequence of words, and how sure its order is. *)

\* _filter_page_excluding_bboxes: the words whose centre is in no table.
Outside(page) ==
    {w \in page.words : ~\E b \in page.tables :
        /\ 2 * b.x0 <= w.x0 + w.x1 /\ w.x0 + w.x1 <= 2 * b.x1
        /\ b.top <= w.top + 2 /\ w.top + 2 <= b.bottom}
\* _extract_text_by_columns; a region has the words that reach into it.
InColumn(words, n, columns, page) ==
    {w \in words : /\ columns * w.x0 < n * page.width
                   /\ columns * w.x1 > (n - 1) * page.width}
TextByColumns(words, columns, page) ==
    FlattenSeq([n \in 1..columns |-> InOrder(InColumn(words, n, columns, page))])

\* _extract_pdfplumber_layout: columns are read one by one if the request orders.
NativeText(page, ordering, columns) ==
    IF ordering /\ columns > 1 THEN TextByColumns(Outside(page), columns, page)
    ELSE InOrder(Outside(page))

\* _layout_reading_order_confidence in percent, 0 for a page without content;
\* "other" is a page with tables or figures only.
OrderConfidence(content, columns, ordering) ==
    CASE content = "none" -> 0
      [] columns = 1 -> 98
      [] columns > 1 /\ ~ordering -> IF content = "text" THEN 58 ELSE 64
      [] OTHER -> 90

-----------------------------------------------------------------------------
(* _extract_ocr_text_from_page: from what the engine returns to paragraphs.  *)

\* _collect_ocr_lines: an entry is [ok, text, conf, x0, x1, top, bottom].
ColumnOf(e, columns, width) ==
    IF columns <= 1 THEN 0 ELSE Min({columns - 1, Max({0, ((e.x0 + e.x1) * columns) \div (2 * width)})})
Accepted(e) == e.ok /\ e.text # <<>> /\ e.conf >= Threshold
Earlier(a, b) ==
    \/ a.column < b.column
    \/ a.column = b.column /\ a.top < b.top
    \/ a.column = b.column /\ a.top = b.top /\ a.x0 < b.x0
CollectLines(result, columns, width) ==
    LET kept == SelectSeq(result, Accepted) IN
    SortSeq([i \in DOMAIN kept |->
                [text |-> kept[i].text, x0 |-> kept[i].x0, x1 |-> kept[i].x1, top |-> kept[i].top,
                 bottom |-> kept[i].bottom, column |-> ColumnOf(kept[i], columns, width)]], Earlier)

\* _group_ocr_line_groups
SameParagraph(previous, line) ==
    LET tall == Max({1, previous.bottom - previous.top, line.bottom - line.top})
        gap == line.top - previous.bottom
    IN  /\ line.column = previous.column
        /\ 0 <= gap /\ 10 * gap <= tall * LineGap
        /\ line.x0 - previous.x0 \in -6 * tall..6 * tall
GroupLines(lines) ==
    FoldLeft(LAMBDA groups, l :
        LET n == Len(groups) IN
        IF n > 0 /\ SameParagraph(groups[n][Len(groups[n])], l)
        THEN [groups EXCEPT ![n] = Append(@, l)] ELSE Append(groups, <<l>>),
      <<>>, lines)

\* _ocr_line_records, with the page of _ocr_line_records_for_page in the id.
LineRecords(groups, page) ==
    FlattenSeq([p \in DOMAIN groups |-> [i \in DOMAIN groups[p] |->
        [id |-> <<page, p, i>>, paragraph |-> p, line |-> groups[p][i]]]])

TextOf(lines) == FlattenSeq([i \in DOMAIN lines |-> lines[i].text])

\* The stages at which a page's OCR may fail, and what it then reports.
OcrErrors == {"ocr_dependencies_missing", "ocr_render_failed", "ocr_input_prepare_failed", "ocr_error"}
OcrText(stage, groups, page) ==
    IF stage \in OcrErrors THEN [text |-> <<>>, error |-> stage, records |-> <<>>]
    ELSE [text |-> [p \in DOMAIN groups |-> TextOf(groups[p])],
          error |-> IF groups = <<>> THEN "empty_ocr_text" ELSE "none",
          records |-> LineRecords(groups, page)]

\* _maybe_recover_page_with_ocr: reason is PdfPages' AttemptReason.
Recover(reason, engine, stage, groups, page) ==
    CASE reason = "none" -> [text |-> <<>>, error |-> "none", records |-> <<>>]
      [] reason # "none" /\ ~engine -> [text |-> <<>>, error |-> "provider_unavailable", records |-> <<>>]
      [] OTHER -> OcrText(stage, groups, page)

\* The layout of a page after OCR, and what _attach_page_layout_metadata tells of it.
PageLayout(native, reason, found) ==
    IF found.text # <<>>
    THEN [text |-> found.text, attempted |-> TRUE, used |-> TRUE, rejected |-> FALSE, why |-> "fallback_applied",
          lines |-> found.records]
    ELSE [text |-> native, attempted |-> reason # "none", used |-> FALSE, rejected |-> reason # "none",
          why |-> IF reason = "none" THEN "none" ELSE found.error, lines |-> <<>>]

-----------------------------------------------------------------------------
(* _ocr_lines_for_paragraph: the records of a paragraph of the page by its   *)
(* number and its text.                                                     *)

Within(text, part) ==
    \E i \in 0..Len(text) - Len(part) : SubSeq(text, i + 1, i + Len(part)) = part

LinesOf(text, number, records) ==
    LET indexed == SelectSeq(records, LAMBDA r : r.paragraph = number)
        matched == SelectSeq(records, LAMBDA r : Within(text, r.line.text))
        words == FlattenSeq([i \in DOMAIN indexed |-> indexed[i].line.text])
    IN  IF text = <<>> THEN <<>>
        ELSE IF indexed # <<>> /\ words = text THEN indexed
        ELSE IF matched # <<>> THEN matched ELSE indexed

\* _bbox_union_from_line_records
Union(records) ==
    LET real == {r.line : r \in {q \in ToSet(records) : q.line.x0 < q.line.x1 /\ q.line.top < q.line.bottom}} IN
    {[x0 |-> Min({l.x0 : l \in real}), x1 |-> Max({l.x1 : l \in real}),
      top |-> Min({l.top : l \in real}), bottom |-> Max({l.bottom : l \in real})] : n \in 1..Min({1, Cardinality(real)})}

-----------------------------------------------------------------------------
(* ImageOcrParser.parse: the paragraphs of an image; none at all is an error. *)
ImageText(result) ==
    LET kept == SelectSeq(result, Accepted)
        Above(a, b) == a.top < b.top \/ (a.top = b.top /\ a.x0 < b.x0)
    IN  SortSeq(kept, Above)

-----------------------------------------------------------------------------
(* The refiners of the host.  A paragraph is [ids, length, low]: the pieces  *)
(* it has, its characters, and whether _is_low_confidence_paragraph holds.   *)

\* _refine_with_semantic_similarity: a verdict is "high", "low" or "error".
MergeSimilar(paras, verdicts) ==
    FoldLeft(LAMBDA out, i :
        LET n == Len(out) IN
        IF n > 0 /\ out[n].length + paras[i].length <= MaxJoined /\ verdicts[i] = "high"
        THEN [out EXCEPT ![n] = [ids |-> @.ids \o paras[i].ids, length |-> @.length + 1 + paras[i].length,
                                 low |-> @.low \/ paras[i].low]]
        ELSE Append(out, paras[i]), <<>>, [i \in DOMAIN paras |-> i])

\* _refine_low_confidence_paragraphs: an answer is the ids of the parts, one
\* part or several, or <<>> when the refiner fails or has none.
RefineBoundaries(paras, answers) ==
    FlattenSeq([i \in DOMAIN paras |->
        LET parts == answers[i] IN
        IF ~paras[i].low \/ parts = <<>> THEN <<paras[i]>>
        ELSE [k \in DOMAIN parts |-> [ids |-> parts[k], length |-> Len(parts[k]), low |-> FALSE]]])

-----------------------------------------------------------------------------
(* Properties. *)

\* Whatever the columns, every word outside the tables is read; a word that lies
\* over the middle of two columns is cut and so in both, every other is read once.
\* Two columns are one after the other, never a line of the one in the other.
ColumnsAreRead(page, ordering) ==
    LET columns == Columns(page)
        text == NativeText(page, ordering, columns)
        Torn(w) == 2 * w.x0 < page.width /\ 2 * w.x1 > page.width
        Times(w) == Cardinality({i \in DOMAIN text : text[i] = w})
    IN  /\ \A w \in page.words \ Outside(page) : Times(w) = 0
        /\ \A w \in Outside(page) :
              Times(w) = IF columns = 2 /\ ordering /\ Torn(w) THEN 2 ELSE 1
        /\ \A i, j \in DOMAIN text : i < j =>
              \/ text[i].top <= text[j].top
              \/ columns = 2 /\ ordering /\ 2 * text[i].x0 < page.width /\ 2 * text[j].x1 > page.width

\* A page is read in columns only if there is text on both sides of the middle
\* in many places, so a page in one column is read from top to bottom and trusted.
ColumnsNeedEvidence(page, ordering) ==
    Columns(page) = 2 =>
        LET Both(b) == /\ \E w \in page.words : Band(w.top, page) = b /\ 100 * w.x0 >= 48 * page.width
                       /\ \E w \in page.words : Band(w.top, page) = b /\ 100 * w.x1 <= 52 * page.width
        IN  /\ Cardinality({b \in 0..19 : Both(b)}) >= 4
            /\ \A c \in {"text", "other"} :
                  OrderConfidence(c, 2, ordering) < OrderConfidence(c, 1, ordering)

\* Every accepted line of the engine is in one paragraph and in one record, in
\* reading order, and no two records of a page have the same id.
EveryLineIsRecorded(result, columns, width) ==
    LET lines == CollectLines(result, columns, width)
        groups == GroupLines(lines)
        records == LineRecords(groups, 1)
    IN  /\ [i \in DOMAIN records |-> records[i].line] = lines
        /\ Len(lines) = Cardinality({i \in DOMAIN result : Accepted(result[i])})
        /\ \A i, j \in DOMAIN records : i < j =>
              /\ records[i].id # records[j].id
              /\ records[i].paragraph <= records[j].paragraph
              /\ ~Earlier(records[j].line, records[i].line)
        /\ Len(ImageText(result)) = Len(lines)
        /\ columns = 1 => \A i \in DOMAIN lines : ImageText(result)[i].text = lines[i].text

\* OCR of a page has an outcome: its text with lines that say the same, or the
\* native text and a reason; the page without an attempt has neither.
OcrIsTold(native, reason, engine, stage, result) ==
    LET groups == GroupLines(CollectLines(result, 1, 100))
        layout == PageLayout(native, reason, Recover(reason, engine, stage, groups, 1))
    IN  /\ layout.attempted <=> layout.used # layout.rejected
        /\ layout.used => FlattenSeq(layout.text) = TextOf([i \in DOMAIN layout.lines |-> layout.lines[i].line])
        /\ ~layout.used => layout.text = native /\ layout.lines = <<>>
        /\ layout.rejected => layout.why \in OcrErrors \cup {"provider_unavailable", "empty_ocr_text"}

\* The paragraphs of the OCR text may be joined by the mergers (joins has the
\* numbers that go on in the next).  The lines of a paragraph are then found
\* again, all of them or others of the same text, and its box is around them.
ParagraphsFindTheirLines(result, joins) ==
    LET groups == GroupLines(CollectLines(result, 1, 100))
        records == LineRecords(groups, 1)
        starts == {p \in DOMAIN groups : p = 1 \/ p - 1 \notin joins}
        Members(s) == {p \in DOMAIN groups : s <= p /\ \A q \in starts : q <= s \/ p < q}
    IN  \A s \in starts :
            LET own == SelectSeq(records, LAMBDA r : r.paragraph \in Members(s))
                text == TextOf([i \in DOMAIN own |-> own[i].line])
                number == Cardinality({q \in starts : q <= s})
                found == LinesOf(text, number, records)
            IN  /\ \/ ToSet(own) \subseteq ToSet(found)
                   \/ TextOf([i \in DOMAIN found |-> found[i].line]) = text
                /\ joins = {} => found = own
                /\ ToSet(own) \subseteq ToSet(found) => \A box \in Union(found) : \A r \in ToSet(own) :
                      /\ box.x0 <= r.line.x0 /\ r.line.x1 <= box.x1
                      /\ box.top <= r.line.top /\ r.line.bottom <= box.bottom

\* The host's refiners lose and move no paragraph and touch none that is sure;
\* a joined paragraph is not longer than the limit and the line end it adds.
RefinersKeepText(paras, verdicts, split) ==
    LET Ids(s) == FlattenSeq([i \in DOMAIN s |-> s[i].ids])
        merged == MergeSimilar(paras, verdicts)
        halves == [i \in DOMAIN merged |->
                     IF split /\ Len(merged[i].ids) > 1
                     THEN <<SubSeq(merged[i].ids, 1, 1), Tail(merged[i].ids)>> ELSE <<>>]
        refined == RefineBoundaries(merged, halves)
    IN  /\ Ids(refined) = Ids(paras)
        /\ \A m \in ToSet(merged) : m.length <= MaxJoined + 1 \/ m \in ToSet(paras)
        /\ \A m \in ToSet(merged) : ~m.low => m \in ToSet(refined)
=============================================================================
