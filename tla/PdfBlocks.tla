----------------------------- MODULE PdfBlocks -----------------------------
(***************************************************************************)
(* How PdfTextParser (parsers.py) turns the paragraphs, tables and figures  *)
(* of the pages into the blocks of a document: the order on a page, the     *)
(* placeholder of a page without content, paragraphs that go on over a page *)
(* break, and the rebinding of cached blocks to another document.           *)
(*                                                                          *)
(* A page is [paras, tables, figures, laid]: its paragraphs, the vertical   *)
(* positions of its tables and figures, and whether it has a page layout.   *)
(* A paragraph is [body, long, open, cont]: body text or not, long (12      *)
(* characters at least), open at its end (no terminal mark), looking like a *)
(* continuation.                                                            *)
(***************************************************************************)
EXTENDS Integers, Sequences, SequencesExt, FiniteSetsExt

CONSTANTS Height      \* page_layout.height

\* round(a / b) to the nearest integer, ties to even.
Round(a, b) ==
    LET q == a \div b   r == 2 * (a % b) IN
    IF r < b \/ (r = b /\ q % 2 = 0) THEN q ELSE q + 1

\* _estimate_table_anchor_index: the paragraph an item stands before.
Anchor(top, n) ==
    IF Height = 0 THEN n
    ELSE Min({n, Round(Min({Max({top, 0}), Height}) * n, Height)})

\* The items of a page by <<anchor, top, kind, index>>.
Items(page) ==
    {[kind |-> "table", at |-> i, top |-> page.tables[i]] : i \in DOMAIN page.tables} \cup
    {[kind |-> "image", at |-> i, top |-> page.figures[i]] : i \in DOMAIN page.figures}
Before(a, b, n) ==
    LET x == IF n = 0 THEN 0 ELSE Anchor(a.top, n)
        y == IF n = 0 THEN 0 ELSE Anchor(b.top, n)
    IN  \/ x < y
        \/ x = y /\ a.top < b.top
        \/ x = y /\ a.top = b.top /\ a.kind = "image" /\ b.kind = "table"
        \/ x = y /\ a.top = b.top /\ a.kind = b.kind /\ a.at < b.at

\* _build_page_content_sequence
PageSequence(page) ==
    LET n == Len(page.paras)
        items == SetToSortSeq(Items(page), LAMBDA a, b : Before(a, b, n))
        At(k) == SelectSeq(items, LAMBDA i : n = 0 \/ Anchor(i.top, n) = k)
    IN  IF n = 0 THEN items
        ELSE FlattenSeq([k \in 1..n + 1 |->
                At(k - 1) \o IF k <= n THEN <<[kind |-> "paragraph", at |-> k, top |-> 0]>>
                             ELSE <<>>])

-----------------------------------------------------------------------------
(* _parse_uncached: the blocks of the pages, numbered by position. *)

Block(id, kind, page, text) ==
    [id |-> id, kind |-> kind, page |-> page, end |-> 0, text |-> text, parts |-> <<>>]

Placeholder == [kind |-> "empty", at |-> 0, top |-> 0]

\* What is made into blocks of a page; a page with nothing gets a placeholder.
Content(page) == IF PageSequence(page) = <<>> THEN <<Placeholder>> ELSE PageSequence(page)

PageBlocks(doc, pages) ==
    LET all == FlattenSeq([p \in DOMAIN pages |->
                 [i \in DOMAIN Content(pages[p]) |-> <<p, Content(pages[p])[i]>>]])
        Text(p, item) == IF item.kind = "paragraph" THEN <<pages[p].paras[item.at]>> ELSE <<>>
    IN  <<Block(<<doc, 0>>, "title", 1, <<>>)>> \o
        [n \in DOMAIN all |-> Block(<<doc, n>>, all[n][2].kind, all[n][1],
                                    Text(all[n][1], all[n][2]))]

EndPage(b) == IF b.end = 0 THEN b.page ELSE b.end

\* _should_merge_cross_page_blocks that compares with the page a block begins on.
BadContinues(prev, b) ==
    /\ prev.kind = "paragraph" /\ b.kind = "paragraph"
    /\ b.page = prev.page + 1
    /\ prev.text[1].body /\ b.text[1].body /\ prev.text[1].long
    /\ prev.text[Len(prev.text)].open /\ b.text[1].cont

\* _should_merge_cross_page_blocks; a joined paragraph is as long as its first part
\* at least, and ends as its last part does.
Continues(prev, b) ==
    /\ prev.kind = "paragraph" /\ b.kind = "paragraph"
    /\ b.page = EndPage(prev) + 1
    /\ prev.text[1].body /\ b.text[1].body
    /\ prev.text[1].long
    /\ prev.text[Len(prev.text)].open /\ b.text[1].cont

\* The block of two parts; merged_block_ids has the ids of all of them.
Merged(prev, b) ==
    [prev EXCEPT !.end = b.page, !.text = @ \o b.text,
                 !.parts = (IF @ = <<>> THEN <<prev.id>> ELSE @) \o <<b.id>>]

\* _merge_cross_page_paragraph_blocks
MergeCrossPage(blocks) ==
    IF Len(blocks) <= 2 THEN blocks
    ELSE FoldLeft(LAMBDA out, b :
             IF out # <<>> /\ Continues(out[Len(out)], b)
             THEN [out EXCEPT ![Len(out)] = Merged(@, b)] ELSE Append(out, b),
           <<>>, blocks)

Parsed(doc, pages) == MergeCrossPage(PageBlocks(doc, pages))

\* _rebind_cached_blocks: the blocks of another document with the same bytes.
Rebound(blocks, doc) ==
    [i \in DOMAIN blocks |->
        [blocks[i] EXCEPT !.id[1] = doc,
                          !.parts = [k \in DOMAIN @ |-> <<doc, @[k][2]>>]]]

-----------------------------------------------------------------------------
(* Properties. *)

\* Every paragraph, table and figure of a page comes out exactly once, the
\* paragraphs in order, and tables and figures from top to bottom.
SequenceIsComplete(page) ==
    LET s == PageSequence(page)
        paras == SelectSeq(s, LAMBDA i : i.kind = "paragraph")
        others == SelectSeq(s, LAMBDA i : i.kind # "paragraph")
    IN  /\ [k \in DOMAIN paras |-> paras[k].at] = [k \in DOMAIN page.paras |-> k]
        /\ ToSet(others) = Items(page) /\ Len(others) = Cardinality(Items(page))
        /\ Height > 0 => \A i, j \in DOMAIN others : i < j => others[i].top <= others[j].top

\* Every page of the document is in the page span of a block: the empty ones,
\* and those whose only text was merged into a paragraph that began before.
EveryPageIsCovered(pages) ==
    \A p \in DOMAIN pages : \E b \in ToSet(Parsed(1, pages)) :
        b.page <= p /\ p <= EndPage(b)

\* Merging over page breaks loses and moves no text, and the span of a block has
\* no page without a part of it.
MergeKeepsText(pages) ==
    LET Words(bs) == FlattenSeq([i \in DOMAIN bs |-> bs[i].text])
        bs == Parsed(1, pages)
    IN  /\ Words(bs) = Words(PageBlocks(1, pages))
        /\ \A b \in ToSet(bs) : Len(b.text) > 1 =>
             /\ Len(b.text) = EndPage(b) - b.page + 1
             /\ Len(b.parts) = Len(b.text) /\ b.parts[1] = b.id

\* Cached blocks, rebound to another document, are those a parse of that
\* document would have given.
RebindingIsParsing(pages) == Rebound(Parsed(1, pages), 2) = Parsed(2, pages)
=============================================================================
