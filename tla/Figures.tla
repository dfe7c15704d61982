------------------------------ MODULE Figures ------------------------------
(***************************************************************************)
(* The figures of a PDF and the roles of its paragraphs (parsers.py): which  *)
(* images of a page are kept, the caption each of them gets, the logos that  *)
(* are dropped because they are repeated, the headings that paragraphs are   *)
(* taken for, and the type of a page.                                       *)
(*                                                                          *)
(* A box is [x0, top, x1, bottom].  A page is [width, height, images, lines, *)
(* tables]; a line is a box with keyword and label (what it has of a         *)
(* caption), short (28 characters at most) and heading.  Fractions are       *)
(* compared by multiplying out; "conf" is a confidence in percent.           *)
(***************************************************************************)
EXTENDS Integers, Sequences, SequencesExt, FiniteSetsExt

-----------------------------------------------------------------------------
(* Boxes. *)

Area(b) == Max({0, b.x1 - b.x0}) * Max({0, b.bottom - b.top})
Common(a, b) ==
    Max({0, Min({a.x1, b.x1}) - Max({a.x0, b.x0})}) * Max({0, Min({a.bottom, b.bottom}) - Max({a.top, b.top})})
MostlyIn(a, b) == Area(a) > 0 /\ 4 * Common(a, b) >= 3 * Area(a)

\* _horizontal_overlap_ratio, at least n percent.
Beside(b, line, n) ==
    LET overlap == Min({b.x1, line.x1}) - Max({b.x0, line.x0})
        shortest == Min({Max({b.x1 - b.x0, 1}), Max({line.x1 - line.x0, 1})})
    IN  overlap > 0 /\ 100 * overlap >= n * shortest

\* _extract_pdf_object_bbox: an object upside down or the wrong way round is
\* turned, one without an extent is none.
Box(o) ==
    LET b == [x0 |-> Min({o.x0, o.x1}), x1 |-> Max({o.x0, o.x1}),
              top |-> Min({o.top, o.bottom}), bottom |-> Max({o.top, o.bottom})]
    IN  IF b.x1 - b.x0 <= 1 \/ b.bottom - b.top <= 1 THEN <<>> ELSE <<b>>

\* _extract_pdf_text_lines: words by their tops, each at most 3 below the least of
\* the line; a word is a box with a name.
LinesOfWords(words) ==
    LET sorted == SortSeq(FoldSet(LAMBDA w, s : Append(s, w), <<>>, words),
                          LAMBDA a, b : a.top < b.top \/ (a.top = b.top /\ a.x0 < b.x0)) IN
    FoldLeft(LAMBDA lines, w :
        LET n == Len(lines) IN
        IF n > 0 /\ w.top - lines[n][1].top <= 3
        THEN [lines EXCEPT ![n] = Append(@, w)] ELSE Append(lines, <<w>>),
      <<>>, sorted)

-----------------------------------------------------------------------------
(* Captions: _describe_pdf_figure_region.                                   *)

\* A line near an image: 0 below it, 1 above it, and how far away.
Places(b, line) ==
    LET below == line.top - b.bottom
        above == b.top - line.bottom
        near == Beside(b, line, 18) \/ (2 * line.x0 <= b.x0 + b.x1 /\ b.x0 + b.x1 <= 2 * line.x1)
    IN  {d \in {<<0, below>>} : near /\ below \in -6..60}
        \cup {d \in {<<1, above>>} : near /\ below \notin -6..60 /\ above \in 0..28}

Candidates(b, lines) ==
    UNION {{<<pl[1], pl[2], i>> : pl \in Places(b, lines[i])} :
             i \in {k \in DOMAIN lines : lines[k].keyword \/ lines[k].label}}
Nearest(C) ==
    CHOOSE c \in C : \A d \in C :
        \/ c[1] < d[1]
        \/ c[1] = d[1] /\ c[2] < d[2]
        \/ c[1] = d[1] /\ c[2] = d[2] /\ c[3] <= d[3]

\* The caption goes on in the next line if that is close and no heading.
GoesOn(b, lines, i) ==
    /\ i < Len(lines) /\ (lines[i].label \/ lines[i].short)
    /\ lines[i + 1].top - lines[i].bottom <= 16
    /\ Beside(b, lines[i + 1], 12) /\ ~lines[i + 1].heading

\* The lines of the caption, and _pdf_figure_caption_confidence.
Generic == [lines |-> <<>>, conf |-> 15]
CaptionAt(b, lines, i) ==
    LET more == GoesOn(b, lines, i) IN
    [lines |-> IF more THEN <<i, i + 1>> ELSE <<i>>, conf |-> IF lines[i].label /\ more THEN 95 ELSE 90]
Describe(b, lines) ==
    LET C == Candidates(b, lines) IN
    IF C = {} THEN Generic ELSE CaptionAt(b, lines, Nearest(C)[3])

-----------------------------------------------------------------------------
(* _extract_pdf_figure_regions.                                             *)

\* The area of a box in twentieths of a percent of the page: at least, at most n.
Covers(b, page, n) == 2000 * Area(b) >= n * page.width * page.height
Within(b, page, n) == 2000 * Area(b) <= n * page.width * page.height

\* _is_pdf_header_footer_noise_bbox
Noise(b, page, conf) ==
    LET top == 100 * b.top <= 12 * page.height /\ 100 * b.bottom <= 22 * page.height
        bottom == 100 * b.bottom >= 88 * page.height /\ 100 * b.top >= 76 * page.height
        side == 100 * b.x0 <= 8 * page.width \/ 100 * b.x1 >= 92 * page.width
        low == 100 * b.top <= 20 * page.height \/ 100 * b.bottom >= 80 * page.height
    IN  /\ conf < 80
        /\ \/ b.top < 0 /\ 100 * b.bottom <= 24 * page.height
           \/ Within(b, page, 110) /\ (top \/ bottom)
           \/ Within(b, page, 36) /\ side /\ low

\* _is_meaningful_pdf_figure_bbox
Meaningful(b, page, conf) ==
    /\ b.x1 - b.x0 >= 18 /\ b.bottom - b.top >= 18
    /\ conf >= 80 \/ (~Covers(b, page, 1600) /\ Covers(b, page, 3))
    /\ ~Noise(b, page, conf)
    /\ \A t \in page.tables : ~MostlyIn(b, t)

FigureRegions(page) ==
    LET boxes == FlattenSeq([i \in DOMAIN page.images |-> Box(page.images[i])])
        all == [i \in DOMAIN boxes |-> [box |-> boxes[i], caption |-> Describe(boxes[i], page.lines)]]
    IN  SelectSeq(all, LAMBDA f : Meaningful(f.box, page, f.caption.conf))

\* _pdf_figure_signature: place and size in whole percents, halves to even.
Percent(n, of) ==
    LET q == (100 * n) \div of   r == 2 * ((100 * n) % of) IN
    IF r < of \/ (r = of /\ q % 2 = 0) THEN q ELSE q + 1
Signature(b, page) ==
    <<Percent(b.x0, page.width), Percent(b.top, page.height),
      Percent(b.x1 - b.x0, page.width), Percent(b.bottom - b.top, page.height)>>

Margin(b, page) ==
    Within(b, page, 60) /\ (100 * b.top <= 18 * page.height \/ 100 * b.bottom >= 82 * page.height)

\* _should_drop_repeated_pdf_figure_region: a caption below 75 is a generic one.
Repeats(f, page, count) ==
    /\ count >= 3 /\ f.caption.conf < 75
    /\ \/ Margin(f.box, page) \/ Within(f.box, page, 24)
       \/ count >= 5 /\ Within(f.box, page, 60)

\* _filter_repeated_pdf_figure_regions: the figures of all pages of a document.
CountOf(pages, regions, signature) ==
    MapThenSumSet(LAMBDA p : Cardinality({i \in DOMAIN regions[p] :
        Signature(regions[p][i].box, pages[p]) = signature}), DOMAIN pages)
WithoutRepeats(pages, regions) ==
    [p \in DOMAIN pages |->
        SelectSeq(regions[p], LAMBDA f :
            ~Repeats(f, pages[p], CountOf(pages, regions, Signature(f.box, pages[p]))))]

-----------------------------------------------------------------------------
(* Roles.  A paragraph is [first, text]: the patterns its first line matches, *)
(* and those that match at its start or, "toc" and "lep", anywhere.          *)

\* _infer_pdf_structural_heading: the first pattern that matches; "bare" is a
\* number without a title or before a sentence, "decimal" one with a dot in it.
HeadingRules ==
    << <<"chapter", "body_section", 1>>, <<"section", "body_section", 2>>, <<"clause", "clause", 2>>,
       <<"item", "clause", 3>>, <<"appendix", "appendix", 1>>, <<"CHAPTER", "body_section", 1>>,
       <<"SECTION", "body_section", 2>>, <<"enum", "body_section", 1>>, <<"decimal", "clause", 2>>,
       <<"number", "body_section", 1>> >>
Matching(par) ==
    {i \in DOMAIN HeadingRules :
        /\ HeadingRules[i][1] \in par.first /\ par.first \cap {"toc", "long"} = {}
        /\ HeadingRules[i][1] \in {"enum", "decimal", "number"} => "bare" \notin par.first}
HeadingOf(par) == [i \in 1..Min({1, Cardinality(Matching(par))}) |-> HeadingRules[Min(Matching(par))]]

\* _infer_semantic_role: how the text opens, its heading, or what is in it.
Openings == <<"note", "warning", "caution", "definition", "procedure", "procedure_step", "list_item">>
Contents(highlights) ==
    << <<"code", "clause">>, <<"toc", "toc_entry">>, <<"lep", "lep_entry">> >>
      \o IF highlights THEN << <<"change", "highlights_entry">> >> ELSE <<>>
RoleOf(par, highlights) ==
    LET opening == SelectSeq(Openings, LAMBDA r : r \in par.text)
        heading == [i \in DOMAIN HeadingOf(par) |-> HeadingOf(par)[i][2]]
        found == SelectSeq(Contents(highlights), LAMBDA c : c[1] \in par.text)
    IN  (opening \o heading \o [i \in DOMAIN found |-> found[i][2]] \o <<"paragraph">>)[1]

\* _parse_uncached: a heading is one, whatever else the paragraph opens with.
PdfRole(par, highlights) ==
    IF HeadingOf(par) # <<>> THEN HeadingOf(par)[1][2] ELSE RoleOf(par, highlights)

\* _infer_page_type; words: what is found in the text of the page.
PageType(pars, highlights, words, number) ==
    LET roles == {PdfRole(pars[i], highlights) : i \in DOMAIN pars} IN
    IF roles \cap {"toc_entry", "lep_entry"} # {} \/ "contents" \in words THEN "toc"
    ELSE IF "signature" \in words THEN "signature"
    ELSE IF "appendix" \in words THEN "appendix"
    ELSE IF number = 1 /\ pars = <<>> THEN "cover" ELSE "body"

\* What a paragraph's block says: its role, and the level it opens, 0 for none.  On a
\* page of contents headings are entries.
ParagraphBlocks(pars, highlights, words, number) ==
    LET type == PageType(pars, highlights, words, number) IN
    [i \in DOMAIN pars |->
        LET heading == HeadingOf(pars[i]) IN
        [role |-> IF type = "toc" /\ heading # <<>> THEN "toc_entry" ELSE PdfRole(pars[i], highlights),
         level |-> IF heading = <<>> \/ type = "toc" THEN 0 ELSE heading[1][3]]]

-----------------------------------------------------------------------------
(* Properties. *)

\* A figure with a caption is kept, wherever it is and however large, unless it is
\* part of a table or too small; and a caption is below its figure if any is.
CaptionedFiguresStay(page) ==
    LET found == FigureRegions(page)
        boxes == FlattenSeq([i \in DOMAIN page.images |-> Box(page.images[i])])
    IN  \A i \in DOMAIN boxes :
            LET caption == Describe(boxes[i], page.lines)
                big == boxes[i].x1 - boxes[i].x0 >= 18 /\ boxes[i].bottom - boxes[i].top >= 18
                kept == \E f \in ToSet(found) : f.box = boxes[i]
            IN  /\ big /\ caption.lines # <<>> /\ (\A t \in page.tables : ~MostlyIn(boxes[i], t)) => kept
                /\ \A n \in ToSet(caption.lines) : page.lines[n].bottom < boxes[i].top =>
                     ~\E m \in DOMAIN page.lines :
                        /\ page.lines[m].label /\ Beside(boxes[i], page.lines[m], 18)
                        /\ page.lines[m].top - boxes[i].bottom \in 0..60

\* Dropping repeated figures is fair: what has a caption stays, and two figures
\* without a caption at the same place of pages of one size stay or go together.
RepeatedFiguresGoTogether(pages) ==
    LET before == [p \in DOMAIN pages |-> FigureRegions(pages[p])]
        after == WithoutRepeats(pages, before)
        Stays(p, f) == f \in ToSet(after[p])
    IN  \A p, q \in DOMAIN pages : \A f \in ToSet(before[p]), g \in ToSet(before[q]) :
            /\ f.caption.lines # <<>> => Stays(p, f)
            /\ f.box = g.box /\ f.caption = Generic /\ g.caption = Generic
                 /\ pages[p].width = pages[q].width /\ pages[p].height = pages[q].height =>
                   (Stays(p, f) <=> Stays(q, g))

\* Words become lines without loss, from top to bottom.
LinesKeepWords(words) ==
    LET lines == LinesOfWords(words) IN
    /\ UNION {ToSet(lines[i]) : i \in DOMAIN lines} = words
    /\ MapThenSumSet(LAMBDA i : Len(lines[i]), DOMAIN lines) = Cardinality(words)
    /\ \A i, j \in DOMAIN lines : i < j =>
          \A a \in ToSet(lines[i]), b \in ToSet(lines[j]) : a.top <= b.top

\* Sections open only at paragraphs whose role says so, never on a page of contents,
\* and every page with an entry of contents is one.
SectionsHaveRoles(pars, highlights, words, number) ==
    LET out == ParagraphBlocks(pars, highlights, words, number)
        type == PageType(pars, highlights, words, number)
    IN  \A i \in DOMAIN out :
            /\ out[i].level > 0 => out[i].role \in {"body_section", "clause", "appendix"}
            /\ out[i].level > 0 => \A j \in DOMAIN out : out[j].role \notin {"toc_entry", "lep_entry"}
            /\ out[i].role = "toc_entry" => type = "toc"
            /\ out[i].role \in {"body_section", "appendix"} => out[i].level > 0
            \* The other parsers, which have RoleOf, say the same of it or see its opening.
            /\ out[i].role # RoleOf(pars[i], highlights) =>
                 type = "toc" \/ pars[i].text \cap ToSet(Openings) # {}
=============================================================================
