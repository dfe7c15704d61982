------------------------------ MODULE ReaderView ------------------------------
(***************************************************************************)
(* The projection that a reader of a document gets (api_payloads.py): its     *)
(* blocks in order, tables and figures that no block shows, the text of each,  *)
(* the codes that are told of it; and what the index records of the units      *)
(* (runtime.py) and hands back (ir.py).                                        *)
(*                                                                             *)
(* in.blocks, in.chunks and in.manifest are those of KnowledgeUnits, a block   *)
(* has an order besides; every table block has a table, every image block a    *)
(* figure, named by the block.  in.signals: [code, page, targets], page 0 if it *)
(* is not told.                                                                 *)
(***************************************************************************)
EXTENDS Integers, Sequences, FiniteSets, SequencesExt, FiniteSetsExt

KnowledgeUnits == INSTANCE KnowledgeUnits

-----------------------------------------------------------------------------
(* What is shown. *)

\* _reader_policy
Policy(b) ==
    CASE b.artifact -> "hidden"
      [] ~b.artifact /\ b.type = "table" -> "table"
      [] ~b.artifact /\ b.type = "image" -> "figure"
      [] OTHER -> "text"

Tables(in) == {k \in DOMAIN in.blocks : in.blocks[k].type = "table"}
Figures(in) == {k \in DOMAIN in.blocks : in.blocks[k].type = "image"}

InOrder(in, S) ==
    LET rank(k) == <<in.blocks[k].first, in.blocks[k].order, k>>
        less(k, m) == \E i \in 1..3 : /\ rank(k)[i] < rank(m)[i]
                                      /\ \A j \in 1..(i - 1) : rank(k)[j] = rank(m)[j]
    IN  SetToSortSeq(S, less)

\* _document_reader_projection: the blocks, then the tables and then the figures
\* that no block has shown, those of hidden blocks.
Shown(in) ==
    LET visible == {k \in DOMAIN in.blocks : Policy(in.blocks[k]) # "hidden"}
        orphans(S) == SelectSeq([k \in DOMAIN in.blocks |-> k], LAMBDA k : k \in S \ visible)
    IN  InOrder(in, visible) \o orphans(Tables(in)) \o orphans(Figures(in))

HiddenOn(in, p) ==
    Cardinality({k \in DOMAIN in.blocks : in.blocks[k].first = p /\ Policy(in.blocks[k]) = "hidden"})

\* The pages and the positions in Shown that each of them lists.
ReaderPages(in) ==
    [p \in KnowledgeUnits!Pages(in) |->
        SelectSeq([i \in DOMAIN Shown(in) |-> i], LAMBDA i : in.blocks[Shown(in)[i]].first = p)]

\* _ir_pages: here a block stands on every page that it spans.
IrPages(in) ==
    [p \in KnowledgeUnits!Pages(in) |->
        SelectSeq([k \in DOMAIN in.blocks |-> k], LAMBDA k : p \in in.blocks[k].first..in.blocks[k].last)]

-----------------------------------------------------------------------------
(* Text.  A part of it is <<block, "text">>, or <<block, "more">> for the cells *)
(* of a table or the alternative text of a figure.                              *)

Written(in, k, what) ==
    IF (what = "text" /\ in.blocks[k].text) \/ (what = "more" /\ in.blocks[k].more /\ in.blocks[k].type # "text")
    THEN <<<<k, what>>>> ELSE <<>>

\* _fallback_block_unit_text, _knowledge_unit_text_from_ir_sources: the cells of a
\* table stand for its text, the alternative text of a figure follows its caption.
UnitText(in, u) ==
    LET B == SetToSortSeq(u.blocks, <)
        type == in.blocks[B[1]].type
        own(k) == CASE type = "table" -> IF Written(in, k, "more") # <<>> THEN Written(in, k, "more") ELSE Written(in, k, "text")
                    [] type = "image" -> Written(in, k, "text") \o Written(in, k, "more")
                    [] OTHER -> Written(in, k, "text")
    IN  FlattenSeq([i \in DOMAIN B |-> own(B[i])])

\* _reader_units_for_block
UnitsFor(in, k) == SelectSeq([i \in DOMAIN KnowledgeUnits!Units(in) |-> i],
                             LAMBDA i : k \in KnowledgeUnits!Units(in)[i].blocks)

\* _reader_rag_text: units that say the same are told once.
RagText(in, k) ==
    LET units == SelectSeq(UnitsFor(in, k), LAMBDA i : KnowledgeUnits!Units(in)[i].index)
        text(n) == UnitText(in, KnowledgeUnits!Units(in)[units[n]])
        first == SelectSeq([n \in DOMAIN units |-> n], LAMBDA n : \A m \in 1..(n - 1) : text(m) # text(n))
    IN  FlattenSeq([i \in DOMAIN first |-> text(first[i])])

\* _reader_text_block, _reader_table_block, _reader_figure_block (a table without
\* a caption; the caption of a figure is the text of its block).
ReaderText(in, k) ==
    LET b == in.blocks[k]
        rag == RagText(in, k)
        own == Written(in, k, "text")
    IN  CASE b.type = "image" /\ b.text -> own
          [] ~(b.type = "image" /\ b.text) /\ rag # <<>> -> rag
          [] b.type = "image" /\ ~b.text /\ rag = <<>> -> Written(in, k, "more")
          [] OTHER -> IF b.artifact THEN <<>> ELSE own

\* _normalize_reader_text.  A line is [structural, start, end]; the paragraphs are
\* sequences of the numbers of lines.
Paragraphs(lines) ==
    LET Step(acc, n) ==
            LET l == lines[n]
                prev == IF acc.current = <<>> THEN "none" ELSE lines[Last(acc.current)].end
                flushed == IF acc.current = <<>> THEN acc.done ELSE Append(acc.done, acc.current)
                cut == acc.structural /\ prev = "stop" /\ l.start = "capital"
                current == IF l.structural \/ cut THEN <<n>> ELSE Append(acc.current, n)
                done == IF l.structural \/ cut THEN flushed ELSE acc.done
                structural == l.structural \/ (acc.structural /\ ~cut)
            IN  IF ~structural /\ l.end \in {"stop", "colon"}
                THEN [done |-> Append(done, current), current |-> <<>>, structural |-> FALSE]
                ELSE [done |-> done, current |-> current, structural |-> structural]
        end == FoldLeft(Step, [done |-> <<>>, current |-> <<>>, structural |-> FALSE],
                        [n \in DOMAIN lines |-> n])
    IN  IF end.current = <<>> THEN end.done ELSE Append(end.done, end.current)

-----------------------------------------------------------------------------
(* Codes. *)

\* _reader_quality_signal_index: a code about tables or figures goes to them, any
\* other one to the page.
PageCodes(in, p) ==
    ({KnowledgeUnits!PageReason(in, p)} \ {"none"})
    \cup {in.signals[i].code : i \in {j \in DOMAIN in.signals : in.signals[j].targets = {} /\ in.signals[j].page = p}}

TargetCodes(in, k) ==
    {in.signals[i].code : i \in {j \in DOMAIN in.signals : k \in in.signals[j].targets}}
    \cup {c \in {"rag_table_without_unit"} : \E p \in KnowledgeUnits!Pages(in) : k \in KnowledgeUnits!TableGaps(in, p)}
    \cup {c \in {"rag_figure_caption_missing"} : \E p \in KnowledgeUnits!Pages(in) : k \in KnowledgeUnits!FigureGaps(in, p)}

\* _annotate_reader_block_quality_signals
Codes(in, k) == PageCodes(in, in.blocks[k].first) \cup TargetCodes(in, k)

-----------------------------------------------------------------------------
(* What the index records.  An item is [blocks, text, skip].                   *)

\* _runtime_rag_coverage_manifest
RecordedItems(in, items) ==
    [i \in DOMAIN items |->
        [blocks |-> items[i].blocks, chunks |-> KnowledgeUnits!ChunksOf(in, items[i].blocks),
         index |-> IF items[i].text /\ ~items[i].skip THEN "yes" ELSE "no"]]

RecordedCounts(in, items) ==
    LET units == RecordedItems(in, items)
        count(S(_)) == Cardinality({i \in DOMAIN units : units[i].index = "yes" /\ S(units[i])})
        embedded(u) == u.chunks # {} /\ u.chunks \subseteq KnowledgeUnits!Vectors(in)
    IN  [total |-> Len(units),
         indexable |-> count(LAMBDA u : TRUE),
         chunked |-> count(LAMBDA u : u.chunks # {}),
         embedded |-> count(embedded),
         unembedded |-> count(LAMBDA u : u.chunks # {} /\ ~embedded(u)),
         skipped |-> Cardinality({i \in DOMAIN units : units[i].index = "no"})]

\* _index_manifest_with_rag_coverage: the units of a projection as the manifest
\* that it hands on.
Manifest(in) ==
    [i \in DOMAIN KnowledgeUnits!Units(in) |->
        LET u == KnowledgeUnits!Units(in)[i]
        IN  [blocks |-> u.blocks, chunks |-> u.chunks, index |-> IF u.index THEN "yes" ELSE "no"]]

-----------------------------------------------------------------------------
(* What must hold. *)

\* Every block that is not hidden is shown once, in the order of the document;
\* of hidden ones only tables and figures are, behind all others.  Each page lists
\* what begins on it, and what it lists and hides is what the document has there.
EveryBlockIsRead(in) ==
    LET s == Shown(in)
        pages == ReaderPages(in)
        late(i) == in.blocks[s[i]].artifact
    IN  /\ IsInjective(s)
        /\ ToSet(s) = {k \in DOMAIN in.blocks : ~in.blocks[k].artifact \/ in.blocks[k].type # "text"}
        /\ \A i, j \in DOMAIN s : i < j =>
             /\ late(i) => late(j)
             /\ ~late(j) => in.blocks[s[i]].first =< in.blocks[s[j]].first
        /\ \A i \in DOMAIN s : \E p \in DOMAIN pages : i \in ToSet(pages[p])
        /\ \A p \in DOMAIN pages :
             /\ ToSet(pages[p]) \subseteq {i \in DOMAIN s : s[i] \in ToSet(IrPages(in)[p])}
             /\ Len(SelectSeq(pages[p], LAMBDA i : ~late(i))) + HiddenOn(in, p)
                  = Cardinality({k \in DOMAIN in.blocks : in.blocks[k].first = p})

\* What a block says is in the text that is shown for it: a table may show its cells
\* instead.  It is shown elsewhere too only if one unit is made of several blocks, and
\* what a hidden table says only if the index has recorded a unit of it.
EveryTextIsRead(in) ==
    \A k \in ToSet(Shown(in)) :
        LET text == ReaderText(in, k)
            b == in.blocks[k]
        IN  /\ b.text /\ ~b.artifact =>
                 <<k, "text">> \in ToSet(text) \/ (b.type = "table" /\ b.more /\ <<k, "more">> \in ToSet(text))
            /\ b.artifact /\ b.type = "table" => k \notin {x[1] : x \in ToSet(text)} \/ in.manifest # <<>>
            /\ \A m \in DOMAIN in.blocks : m # k /\ m \in {x[1] : x \in ToSet(text)} =>
                 \E u \in ToSet(KnowledgeUnits!Units(in)) : {k, m} \subseteq u.blocks

\* No line is lost or changes place, and a line that opens a clause or an item of a
\* list opens a paragraph.
ParagraphsKeepLines(lines) ==
    LET out == Paragraphs(lines)
    IN  /\ FlattenSeq(out) = [n \in DOMAIN lines |-> n]
        /\ \A i \in DOMAIN out : out[i] # <<>> /\ \A n \in 2..Len(out[i]) : ~lines[out[i][n]].structural

\* What is missing on a page is told of every block that begins there and is shown, a
\* table or a figure that cannot be found of that table or figure, and a signal of what it
\* is about.
EveryCodeArrives(in) ==
    \A k \in ToSet(Shown(in)) :
        LET p == in.blocks[k].first
            concerns(s) == IF s.targets # {} THEN k \in s.targets ELSE p = s.page
            gap == {KnowledgeUnits!PageReason(in, p)} \ {"none"}
        IN  /\ \A s \in ToSet(in.signals) : concerns(s) => s.code \in Codes(in, k)
            /\ gap \subseteq Codes(in, k)
            /\ "rag_table_without_unit" \in Codes(in, k)
                 <=> in.blocks[k].type = "table" /\ \A u \in ToSet(KnowledgeUnits!Units(in)) : u.index => k \notin u.blocks
            /\ \A c \in Codes(in, k) :
                  c \in gap \cup {"rag_table_without_unit", "rag_figure_caption_missing"} \/ \E s \in ToSet(in.signals) : s.code = c /\ concerns(s)

\* The counts that the index records are those that the coverage finds again, and
\* a projection of what a projection handed on is the same.
RecordsAgree(in, items) ==
    LET recorded == [in EXCEPT !.manifest = RecordedItems(in, items)]
        again(x) == [x EXCEPT !.manifest = Manifest(x)]
        summary == KnowledgeUnits!Summary(recorded)
        counts == RecordedCounts(in, items)
    IN  /\ items # <<>> => \A n \in DOMAIN counts : counts[n] = summary[n]
        /\ \A x \in {in, recorded} : KnowledgeUnits!Units(again(x)) = KnowledgeUnits!Units(x)
=============================================================================
