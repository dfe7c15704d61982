------------------------------ MODULE PdfText ------------------------------
(***************************************************************************)
(* The passes over the text of PDF pages in PdfTextParser (parsers.py):     *)
(* repeated headers and footers are stripped, the rest is cut into          *)
(* paragraphs, which six heuristics split and merge again.  Each of them    *)
(* rearranges text by what it takes the lines to be; none may lose any.     *)
(*                                                                          *)
(* A line is a pair of its text, of which only the class matters that the   *)
(* patterns put it into, and a number that tells it from its equals.  A     *)
(* paragraph is a sequence of lines.                                        *)
(***************************************************************************)
EXTENDS Integers, Sequences, SequencesExt, FiniteSetsExt

CONSTANTS
    MinLines,      \* structural_min_lines
    MinEntries,    \* toc_min_entries
    HeadN, TailN   \* hf_head_n, hf_tail_n

\* "run": a line that may be a running head.  The others say what a line looks
\* like; a paragraph looks like its first line.
Classes == {"blank", "body", "run", "short", "heading", "marker", "toc", "label",
            "columns", "row", "note", "highlights", "anchor", "change", "added", "plain"}

Text(line) == line[1]
Looks(paragraph) == Text(paragraph[1])
LinesOf(s) == SelectSeq(s, LAMBDA line : Text(line) # "blank")
Joined(paragraphs) == FlattenSeq(paragraphs)

-----------------------------------------------------------------------------
(* _strip_repeated_headers_footers. *)

First(s, n) == SubSeq(s, 1, IF Len(s) < n THEN Len(s) ELSE n)
Last_(s, n) == SubSeq(s, IF Len(s) < n THEN 1 ELSE Len(s) - n + 1, Len(s))
Texts(s) == {Text(s[i]) : i \in DOMAIN s}

NonEmpty(pages) == {p \in DOMAIN pages : LinesOf(pages[p]) # <<>>}
Heads(pages, t) == {p \in NonEmpty(pages) : t \in Texts(First(LinesOf(pages[p]), HeadN))}
Tails(pages, t) == {p \in NonEmpty(pages) : t \in Texts(Last_(LinesOf(pages[p]), TailN))}

\* max(2, int(non_empty_count * threshold)) for a threshold of num / den.
MinCount(n, num, den) == LET c == (n * num) \div den IN IF c < 2 THEN 2 ELSE c

\* The lines found to be running heads or feet; a "short" one is below
\* min_line_len.
Repeated(pages, num, den) ==
    {t \in UNION {Texts(pages[p]) : p \in DOMAIN pages} \ {"blank", "short"} :
        LET n == MinCount(Cardinality(NonEmpty(pages)), num, den) IN
        Cardinality(Heads(pages, t)) >= n \/ Cardinality(Tails(pages, t)) >= n}

Stripped(pages, num, den) ==
    IF Len(pages) < 3 \/ Cardinality(NonEmpty(pages)) < 3 THEN pages
    ELSE [p \in DOMAIN pages |->
            SelectSeq(pages[p], LAMBDA l : Text(l) \notin Repeated(pages, num, den))]

-----------------------------------------------------------------------------
(* _split_pdf_page_text and the splitters. *)

\* Blank lines end a paragraph.
SplitPageText(lines) ==
    LET Add(acc, l) ==
            IF Text(l) = "blank" THEN [acc EXCEPT !.open = FALSE]
            ELSE IF acc.open
                 THEN [acc EXCEPT !.out[Len(acc.out)] = Append(@, l)]
                 ELSE [out |-> Append(acc.out, <<l>>), open |-> TRUE]
    IN  FoldLeft(Add, [out |-> <<>>, open |-> FALSE], lines).out

\* The parts of s that begin at the positions cuts (and at 1).
CutAt(s, cuts) ==
    LET starts == SetToSortSeq(cuts \cup {1}, LAMBDA a, b : a < b)
        End(i) == IF i = Len(starts) THEN Len(s) ELSE starts[i + 1] - 1
    IN  [i \in DOMAIN starts |-> SubSeq(s, starts[i], End(i))]

Each(paragraphs, Split(_)) == FlattenSeq([i \in DOMAIN paragraphs |-> Split(paragraphs[i])])

\* _split_structural_items: cut before each of at least two markers.
SplitStructural(paragraphs) ==
    Each(paragraphs, LAMBDA p :
        LET markers == {i \in DOMAIN p : Text(p[i]) = "marker"} IN
        IF Len(p) < MinLines \/ Cardinality(markers) < 2 THEN <<p>> ELSE CutAt(p, markers))

\* _split_inline_structural_items: the same inside a long line; markers at the
\* very beginning do not count.
SplitInline(paragraphs) ==
    Each(paragraphs, LAMBDA p :
        LET markers == {i \in DOMAIN p : i > 1 /\ Text(p[i]) = "marker"} IN
        IF Cardinality(markers) < 2 THEN <<p>> ELSE CutAt(p, markers))

\* _split_toc_entries that forgets what follows the last entry.
BadSplitToc(paragraphs) ==
    Each(paragraphs, LAMBDA p :
        LET ends == {i \in DOMAIN p : Text(p[i]) = "toc"} IN
        IF Cardinality(ends) < MinEntries THEN <<p>>
        ELSE CutAt(SubSeq(p, 1, Max(ends)), {i + 1 : i \in ends \ {Max(ends)}}))

\* _split_toc_entries: cut after each entry; the rest stays with the last one.
SplitToc(paragraphs) ==
    Each(paragraphs, LAMBDA p :
        LET ends == {i \in DOMAIN p : Text(p[i]) = "toc"} IN
        IF Cardinality(ends) < MinEntries THEN <<p>>
        ELSE CutAt(p, {i + 1 : i \in ends \ {Max(ends)}}))

-----------------------------------------------------------------------------
(* The mergers: each paragraph is appended, or joined to the one before. *)

Gathered(paragraphs, Joins(_, _)) ==
    LET Add(out, p) ==
            IF out # <<>> /\ Joins(out[Len(out)], p)
            THEN [out EXCEPT ![Len(out)] = @ \o p] ELSE Append(out, p)
    IN  FoldLeft(Add, <<>>, paragraphs)

\* _merge_figure_caption_paragraphs: a label takes the paragraph that follows,
\* unless that looks like something else, and the pair takes nothing more.
MergeFigureCaptions(paragraphs) ==
    Gathered(paragraphs, LAMBDA prev, p :
        /\ Looks(prev) = "label" /\ \E i \in DOMAIN paragraphs : paragraphs[i] = prev
        /\ Looks(p) \notin {"label", "heading", "toc", "columns", "note", "marker"})

\* _merge_short_blocks.
MergeShort(paragraphs) ==
    IF Len(paragraphs) <= 1 THEN paragraphs
    ELSE Gathered(paragraphs, LAMBDA prev, p : Looks(p) = "short" /\ Len(p) = 1)

\* _merge_table_continuations: behind the header of a tools table, what is
\* neither a row nor a note belongs to the row before.
MergeTable(paragraphs) ==
    IF Len(paragraphs) <= 4 \/ \A i \in DOMAIN paragraphs : Looks(paragraphs[i]) # "columns"
    THEN paragraphs
    ELSE LET header == Min({i \in DOMAIN paragraphs : Looks(paragraphs[i]) = "columns"}) IN
         SubSeq(paragraphs, 1, header - 1) \o
         Gathered(SubSeq(paragraphs, header, Len(paragraphs)), LAMBDA prev, p :
             Looks(p) \notin {"row", "note"} /\ Looks(prev) # "note")

\* _should_merge_highlights_fragment: a page reference alone and the change it
\* belongs to; two additions with one reference each; a change without one.
Changes == {"change", "added", "plain"}
References(p) == Cardinality({i \in DOMAIN p : Text(p[i]) \in {"anchor", "change", "added"}})
SameHighlight(prev, p) ==
    \/ Looks(prev) = "anchor" /\ Len(prev) = 1 /\ Looks(p) \in Changes
    \/ /\ Looks(prev) \in Changes /\ Looks(p) \in Changes
       /\ \/ /\ Looks(prev) = "added" /\ Looks(p) = "added"
             /\ References(prev) = 1 /\ References(p) = 1
          \/ References(prev) >= 1 /\ References(p) = 0

\* _merge_highlights_entries, on pages with the header of a change log.
MergeHighlights(paragraphs) ==
    IF Len(paragraphs) <= 2 \/ \A i \in DOMAIN paragraphs : Looks(paragraphs[i]) # "highlights"
    THEN paragraphs
    ELSE Gathered(paragraphs, SameHighlight)

\* The passes in the order of _parse_uncached, all of them switched on.
Paragraphs(lines) ==
    MergeHighlights(MergeTable(MergeShort(MergeFigureCaptions(
        SplitToc(SplitInline(SplitStructural(SplitPageText(lines))))))))

-----------------------------------------------------------------------------
(* Properties. *)

\* Whatever the heuristics take the lines for, the text of a page comes out of
\* them as it went in, in the same order, and no paragraph is empty.
TextIsKept(lines) ==
    /\ Joined(Paragraphs(lines)) = LinesOf(lines)
    /\ \A i \in DOMAIN Paragraphs(lines) : Paragraphs(lines)[i] # <<>>

\* The mergers see any paragraphs that the splitters can produce.
MergersKeepText(paragraphs) ==
    LET m == MergeHighlights(MergeTable(MergeShort(MergeFigureCaptions(paragraphs)))) IN
    Joined(m) = Joined(paragraphs)

\* A line is stripped only where its text is a running head or foot of at least
\* two pages, all in the same place; what else is on the page stays.
OnlyRunningLinesAreStripped(pages, num, den) ==
    \A p \in DOMAIN pages : \A i \in DOMAIN pages[p] :
        ~Contains(Stripped(pages, num, den)[p], pages[p][i]) =>
            \/ Cardinality(Heads(pages, Text(pages[p][i]))) >= 2
            \/ Cardinality(Tails(pages, Text(pages[p][i]))) >= 2
=============================================================================
