--------------------------- MODULE KnowledgeUnits ---------------------------
(***************************************************************************)
(* The knowledge units of a document (ir.py): the section, the list and the *)
(* continuation each belongs to, the coverage of pages by chunks and        *)
(* vectors, and the comparison of the units of two parse runs.              *)
(***************************************************************************)
EXTENDS Integers, Sequences, FiniteSets, SequencesExt, FiniteSetsExt

-----------------------------------------------------------------------------
(* Comparison.  A unit is known by what it says (content), where it stands  *)
(* (structure) and the blocks it comes from (source).                       *)

Key(u, by) ==
    CASE by = "unit" -> <<u.content, u.structure, u.source>>
      [] by = "both" -> <<u.content, u.structure>>
      [] by = "content" -> <<u.content>>
      [] by = "structure" -> <<u.structure>>

Left(previous, found) == {i \in DOMAIN previous : \A m \in found : m.previous # i}
Right(current, found) == {j \in DOMAIN current : \A m \in found : m.current # j}

Group(units, I, by, key) == {i \in I : Key(units[i], by) = key}

Mapping(i, j, status) == [previous |-> i, current |-> j, status |-> status]

\* A match that asks only one side to be unique.
BadMatchUnique(previous, current, found, by, status) ==
    LET L == Left(previous, found)
        R == Right(current, found)
    IN  found \cup
        {Mapping(x[1], x[2], status) :
            x \in {y \in L \X R :
                    /\ Key(previous[y[1]], by) = Key(current[y[2]], by)
                    /\ Cardinality(Group(previous, L, by, Key(previous[y[1]], by))) = 1}}

\* match_unique: the key is that of one unit on each side.
MatchUnique(previous, current, found, by, status) ==
    LET L == Left(previous, found)
        R == Right(current, found)
    IN  found \cup
        {Mapping(x[1], x[2], status) :
            x \in {y \in L \X R :
                    /\ Key(previous[y[1]], by) = Key(current[y[2]], by)
                    /\ Cardinality(Group(previous, L, by, Key(previous[y[1]], by))) = 1
                    /\ Cardinality(Group(current, R, by, Key(current[y[2]], by))) = 1}}

\* Duplicates are paired in order, the rest of the longer side stays unmatched.
MatchDuplicates(previous, current, found, by) ==
    LET L == Left(previous, found)
        R == Right(current, found)
        rank(G, i) == Cardinality({k \in G : k < i})
    IN  found \cup
        {Mapping(x[1], x[2], "unknown") :
            x \in {y \in L \X R :
                    LET key == Key(previous[y[1]], by)
                        G == Group(previous, L, by, key)
                        H == Group(current, R, by, key)
                    IN  /\ Key(current[y[2]], by) = key
                        /\ Cardinality(G) # 1 \/ Cardinality(H) # 1
                        /\ rank(G, y[1]) = rank(H, y[2])}}

\* build_knowledge_unit_diff; index 0 stands for None.
Diff(previous, current) ==
    LET unique(found, by, status) == MatchUnique(previous, current, found, by, status)
        same == unique(unique({}, "unit", "unchanged"), "both", "unchanged")
        sure == unique(unique(same, "content", "relocated"), "structure", "changed")
        all == MatchDuplicates(previous, current,
                   MatchDuplicates(previous, current, sure, "content"), "structure")
    IN  all \cup {Mapping(0, j, "added") : j \in Right(current, all)}
            \cup {Mapping(i, 0, "removed") : i \in Left(previous, all)}

-----------------------------------------------------------------------------
(* Sections and lists.  A unit is [kind, level, no]: a "head" has an explicit *)
(* level (0: none) and a number, a sequence; an "item" its level in its list. *)

SectionLevel(u) == IF u.level > 0 THEN u.level ELSE Max({1, Len(u.no)})

\* One unit of _enrich_knowledge_unit_contract.  sections is the stack of the
\* open headings, whose levels increase, so that popping those that are not
\* above the new one keeps the others; items[l] is the last open item of level l.
PlaceUnit(acc, i, units) ==
    LET u == units[i]
        open == SelectSeq(acc.sections, LAMBDA h : SectionLevel(units[h]) < SectionLevel(u))
        above(stack) == IF stack = <<>> THEN 0 ELSE Last(stack)
        parent == IF u.level > 1 THEN acc.items[u.level - 1] ELSE 0
        items == [l \in DOMAIN acc.items |-> IF l < u.level THEN acc.items[l] ELSE 0]
        put(section, up, item) == Append(acc.out, [section |-> section, parent |-> up, item |-> item])
    IN  CASE u.kind = "head" ->
               [sections |-> Append(open, i), items |-> [l \in DOMAIN acc.items |-> 0],
                out |-> put(i, above(open), 0)]
          [] u.kind = "item" ->
               [acc EXCEPT !.items = [items EXCEPT ![u.level] = i],
                           !.out = put(above(acc.sections), 0, parent)]
          [] OTHER -> [acc EXCEPT !.out = put(above(acc.sections), 0, 0)]

Placed(units) ==
    LET Step(acc, i) == PlaceUnit(acc, i, units)
    IN  FoldLeft(Step, [sections |-> <<>>, items |-> [l \in 1..Max({1} \cup {units[i].level : i \in DOMAIN units}) |-> 0], out |-> <<>>],
                 [i \in DOMAIN units |-> i]).out

\* _knowledge_structure_quality_signals about the hierarchy: a heading with its
\* predecessor, and with the last numbered sibling.
StructureSignals(units) ==
    LET out == Placed(units)
        heads == {i \in DOMAIN units : units[i].kind = "head"}
        level(i) == SectionLevel(units[i])
        before(i) == {h \in heads : h < i}
        siblings(i) == {h \in before(i) : /\ out[h].parent = out[i].parent
                                          /\ level(h) = level(i)
                                          /\ units[h].no # <<>>}
        jumps(a, b) == /\ Len(a) = Len(b)
                       /\ Front(a) = Front(b)
                       /\ Last(b) > Last(a) + 1
    IN  {[code |-> "parent_missing", at |-> i] :
            i \in {h \in heads : level(h) > 1 /\ out[h].parent = 0}}
        \cup {[code |-> "level_jump", at |-> i] :
            i \in {h \in heads : before(h) # {} /\ level(h) > level(Max(before(h))) + 1}}
        \cup {[code |-> "number_jump", at |-> i] :
            i \in {h \in heads : /\ units[h].no # <<>>
                                 /\ siblings(h) # {}
                                 /\ jumps(units[Max(siblings(h))].no, units[h].no)}}
        \cup {[code |-> "list_parent_missing", at |-> i] :
            i \in {k \in DOMAIN units : /\ units[k].kind = "item"
                                        /\ units[k].level > 1
                                        /\ out[k].item = 0}}

-----------------------------------------------------------------------------
(* Continuations.  A unit is [type, from, cont, group, tables, first, last]:  *)
(* the unit its block says it continues (0: none), whether it says that it    *)
(* continues anything, its group (0: none), its tables and its pages.         *)

\* The unit that unit i continues, 0 if there is none; it may name itself.
ContinuesFrom(units, i) ==
    LET u == units[i]
        p == units[i - 1]
        grouped == {k \in 1..(i - 1) : u.group # 0 /\ units[k].group = u.group}
    IN  CASE u.from \in 1..i -> u.from
          [] u.from \notin 1..i /\ grouped # {} -> Max(grouped)
          [] u.from \notin 1..i /\ grouped = {} /\ i > 1
               /\ \/ u.cont /\ p.type = u.type /\ u.first <= p.last + 1
                  \/ u.tables \cap p.tables # {} /\ u.first = p.last + 1 -> i - 1
          [] OTHER -> 0

\* The second loop of _enrich_knowledge_unit_contract.
LinkUnit(acc, i, units) ==
    LET p == ContinuesFrom(units, i)
    IN  IF p \in {0, i} THEN acc
        ELSE [acc EXCEPT ![i].kind = "continues", ![i].from = p,
                         ![p].kind = "continues", ![p].to = i]

Linked(units) ==
    LET Step(acc, i) == LinkUnit(acc, i, units)
    IN  FoldLeft(Step, [i \in DOMAIN units |->
                          [kind |-> IF units[i].last > units[i].first THEN "spans_pages" ELSE "none",
                           from |-> 0, to |-> 0]],
                 [i \in DOMAIN units |-> i])

\* structure_cross_page_table_break, structure_cross_page_continuity_missing.
Unlinked(units) ==
    LET out == Linked(units)
    IN  {i \in DOMAIN units :
            \/ units[i].cont /\ out[i].kind # "spans_pages" /\ out[i].from = 0
            \/ units[i].last > units[i].first /\ out[i].kind \notin {"spans_pages", "continues"}}

-----------------------------------------------------------------------------
(* Coverage.  in.blocks: [type, artifact, text, more, first, last], more tells *)
(* of alternative text or of cells.  in.chunks: [blocks, vector].  in.manifest *)
(* holds the units that the index recorded, [blocks, chunks, index], or is     *)
(* empty; index may be "unset".                                                *)

\* _index_policy: TRUE if the policy is not "skip".
Indexable(b) == ~b.artifact /\ (b.text \/ (b.type # "text" /\ b.more))

\* The text of a unit: that of the chunks of exactly its blocks, else that of
\* the blocks, with the cells of a table and the alternative text of a figure.
UnitHasText(in, B, chunks, type) ==
    \/ \E c \in chunks : in.chunks[c].blocks = B /\ \E b \in B : in.blocks[b].text
    \/ \E b \in B : \/ in.blocks[b].text
                    \/ in.blocks[b].more /\ in.blocks[b].type = type /\ type # "text"

ChunksOf(in, B) == {c \in DOMAIN in.chunks : in.chunks[c].blocks \cap B # {}}

Vectors(in) == {c \in DOMAIN in.chunks : in.chunks[c].vector}

PagesOf(in, B) == Min({in.blocks[b].first : b \in B})..Max({in.blocks[b].last : b \in B})

\* _knowledge_units: one unit for each block.
ProjectedUnits(in) ==
    [b \in DOMAIN in.blocks |->
        LET chunks == ChunksOf(in, {b})
        IN  [blocks |-> {b}, pages |-> PagesOf(in, {b}), chunks |-> chunks,
             index |-> Indexable(in.blocks[b]) /\ UnitHasText(in, {b}, chunks, in.blocks[b].type)]]

\* _knowledge_units_from_runtime_manifest: what the index recorded, completed
\* from the blocks and the chunks.
RecordedUnits(in) ==
    [u \in DOMAIN in.manifest |->
        LET raw == in.manifest[u]
            first == in.blocks[Min(raw.blocks)]
            chunks == IF raw.chunks # {} THEN raw.chunks ELSE ChunksOf(in, raw.blocks)
        IN  [blocks |-> raw.blocks, pages |-> PagesOf(in, raw.blocks), chunks |-> chunks,
             index |-> IF raw.index = "unset"
                       THEN Indexable(first) /\ UnitHasText(in, raw.blocks, chunks, first.type)
                       ELSE raw.index = "yes"]]

Units(in) == IF in.manifest # <<>> THEN RecordedUnits(in) ELSE ProjectedUnits(in)

\* _coverage_unit_missing_reason, _unit_embedded and the status made of them.
UnitReason(in, u) ==
    CASE ~u.index -> "none"
      [] u.index /\ u.chunks = {} -> "no_chunks"
      [] u.index /\ u.chunks # {} /\ ~(u.chunks \subseteq Vectors(in)) -> "not_embedded"
      [] OTHER -> "none"

UnitStatus(in, u) ==
    IF ~u.index THEN "skipped" ELSE IF UnitReason(in, u) = "none" THEN "processed" ELSE "failed"

BlocksOn(in, p) == {b \in DOMAIN in.blocks : p \in in.blocks[b].first..in.blocks[b].last}
UnitsOn(in, p) == {i \in DOMAIN Units(in) : p \in Units(in)[i].pages}

\* _coverage_missing_reason of a page.
PageReason(in, p) ==
    LET index == {i \in UnitsOn(in, p) : Units(in)[i].index}
        chunks == ChunksOf(in, BlocksOn(in, p))
        text == \E b \in BlocksOn(in, p) : in.blocks[b].text /\ Indexable(in.blocks[b])
    IN  CASE text /\ index = {} -> "no_units"
          [] index # {} /\ (chunks = {} \/ \E i \in index : Units(in)[i].chunks = {}) -> "no_chunks"
          [] ~(text /\ index = {})
               /\ (index = {} \/ (chunks # {} /\ \A i \in index : Units(in)[i].chunks # {}))
               /\ ~(chunks \subseteq Vectors(in)) -> "not_embedded"
          [] OTHER -> "none"

\* _table_ids_without_indexable_units: a table counts on its first page.
TableGaps(in, p) ==
    {b \in DOMAIN in.blocks :
        /\ in.blocks[b].type = "table" /\ in.blocks[b].first = p
        /\ \A i \in UnitsOn(in, p) : Units(in)[i].index => b \notin Units(in)[i].blocks}

\* _figure_ids_missing_caption
FigureGaps(in, p) ==
    {b \in DOMAIN in.blocks :
        /\ in.blocks[b].type = "image" /\ in.blocks[b].first = p
        /\ ~in.blocks[b].text /\ ~in.blocks[b].more}

TableGap(in, p) == TableGaps(in, p) # {}
FigureGap(in, p) == FigureGaps(in, p) # {}

PageGap(in, p) == PageReason(in, p) # "none" \/ TableGap(in, p) \/ FigureGap(in, p)

Pages(in) == UNION {PagesOf(in, {b}) : b \in DOMAIN in.blocks}

\* _coverage_summary: units are counted once, whatever pages they span.
Summary(in) ==
    LET count(S(_)) == Cardinality({i \in DOMAIN Units(in) : S(Units(in)[i])})
    IN  [total |-> Len(Units(in)),
         indexable |-> count(LAMBDA u : u.index),
         chunked |-> count(LAMBDA u : u.index /\ u.chunks # {}),
         embedded |-> count(LAMBDA u : u.index /\ UnitReason(in, u) = "none"),
         unembedded |-> count(LAMBDA u : UnitReason(in, u) = "not_embedded"),
         skipped |-> count(LAMBDA u : ~u.index),
         gaps |-> Cardinality({p \in Pages(in) : PageGap(in, p)})]

\* _part_coverage_summary of the pages from first to last: a unit counts in each
\* part it stands on.
PartSummary(in, first, last) ==
    LET pages == Pages(in) \cap first..last
        units == {i \in DOMAIN Units(in) : Units(in)[i].pages \cap first..last # {}}
        with(S(_)) == {i \in units : S(Units(in)[i])}
    IN  [gaps |-> Cardinality({p \in pages : PageGap(in, p)}),
         missing |-> [r \in {"no_units", "no_chunks", "not_embedded"} |->
                        Cardinality({p \in pages : PageReason(in, p) = r})],
         units |-> units,
         skipped |-> with(LAMBDA u : ~u.index),
         embedded |-> with(LAMBDA u : u.index /\ UnitReason(in, u) = "none"),
         unembedded |-> with(LAMBDA u : UnitReason(in, u) = "not_embedded"),
         gapUnits |-> with(LAMBDA u : UnitReason(in, u) # "none")]

\* rag_coverage_quality_payload: the gate and the action that it recommends.
CoverageGate(in) ==
    LET some(reason) == \E p \in Pages(in) : PageReason(in, p) = reason
        warn(action) == [gate |-> "accept_with_warning", action |-> action]
    IN  IF some("no_units") THEN [gate |-> "manual_review", action |-> "review_parse_ir"]
        ELSE IF \E p \in Pages(in) : TableGap(in, p) THEN warn("local_provider_rerun")
        ELSE IF \E p \in Pages(in) : FigureGap(in, p) THEN warn("review_parse_ir")
        ELSE IF some("no_chunks") THEN warn("rechunk_document")
        ELSE IF some("not_embedded") THEN warn("reembed_document")
        ELSE [gate |-> "accept", action |-> "none"]

-----------------------------------------------------------------------------
(* What must hold. *)

\* Two parse runs are mapped one to one, no unit is left out, a status says
\* what is equal, and the comparison the other way round is its mirror image.
\* Equal content is reported as removed and added only if a match by structure
\* took another unit of that content, or if there were more on one side.
DiffIsExact(in) ==
    LET maps == Diff(in.previous, in.current)
        swapped == [added |-> "removed", removed |-> "added", unchanged |-> "unchanged",
                    relocated |-> "relocated", changed |-> "changed", unknown |-> "unknown"]
        content(u, v) == Key(u, "content") = Key(v, "content")
        structure(u, v) == Key(u, "structure") = Key(v, "structure")
    IN  /\ \A i \in DOMAIN in.previous : Cardinality({m \in maps : m.previous = i}) = 1
        /\ \A j \in DOMAIN in.current : Cardinality({m \in maps : m.current = j}) = 1
        /\ \A m \in maps : m.previous # 0 /\ m.current # 0 =>
             LET u == in.previous[m.previous]
                 v == in.current[m.current]
             IN  /\ m.status = "unchanged" => content(u, v) /\ structure(u, v)
                 /\ m.status = "relocated" => content(u, v) /\ ~structure(u, v)
                 /\ m.status = "changed" => ~content(u, v) /\ structure(u, v)
        /\ Diff(in.current, in.previous)
             = {Mapping(m.current, m.previous, swapped[m.status]) : m \in maps}
        /\ \A r, a \in maps : r.status = "removed" /\ a.status = "added"
                              /\ content(in.previous[r.previous], in.current[a.current]) =>
             \E m \in maps : /\ m.status \in {"changed", "unknown"}
                             /\ \/ m.previous # 0 /\ content(in.previous[m.previous], in.previous[r.previous])
                                \/ m.current # 0 /\ content(in.current[m.current], in.current[a.current])

\* The parent of a heading is the nearest one before it of a higher rank, the
\* section of another unit the last heading; the parent of an item is the last item one
\* level up, if neither a heading nor an item of a higher rank stands between.
\* A document without signals has no gaps: every heading is one level below its
\* parent, and every nested item has a parent.
SectionsAreATree(units) ==
    LET out == Placed(units)
        heads == {i \in DOMAIN units : units[i].kind = "head"}
        items == {i \in DOMAIN units : units[i].kind = "item"}
        level(i) == SectionLevel(units[i])
        MaxOr0(S) == Max(S \cup {0})
    IN  /\ \A i \in heads : out[i].parent = MaxOr0({h \in heads : h < i /\ level(h) < level(i)})
        /\ \A i \in DOMAIN units \ heads : out[i].section = MaxOr0({h \in heads : h < i})
        /\ \A i \in items :
             out[i].item =
                LET up == MaxOr0({k \in items : k < i /\ units[k].level = units[i].level - 1})
                IN  IF \E k \in (up + 1)..(i - 1) :
                          k \in heads \/ (k \in items /\ units[k].level < units[i].level - 1)
                    THEN 0 ELSE up
        /\ StructureSignals(units) = {} =>
             /\ \A i \in heads : level(i) = IF out[i].parent = 0 THEN 1
                                            ELSE level(out[i].parent) + 1
             /\ \A i \in items : units[i].level > 1 => out[i].item # 0

\* Continuations lead backwards, a unit that is continued knows the last that
\* does, and what declares to continue something does so, spans pages or is
\* reported.
ContinuityIsSound(units) ==
    LET out == Linked(units)
    IN  \A i \in DOMAIN units :
          /\ out[i].from < i
          /\ out[i].to = Max({0} \cup {k \in DOMAIN units : out[k].from = i})
          /\ out[i].from # 0 => out[out[i].from].kind = "continues"
          /\ units[i].cont /\ i \notin Unlinked(units) =>
               out[i].from # 0 \/ units[i].last > units[i].first

\* The pages and the units tell the same story: a unit that failed is reported
\* on one of its pages, the gate accepts a document only if every unit that is
\* to be indexed has chunks with vectors, and every page with a gap has a flag.
\* Without a record of the index no page with text is without units, and every
\* block is the block of one unit.  Totals count a unit once.  The parts of a
\* document have its gaps and its failed units between them.
CoverageIsHonest(in) ==
    LET units == Units(in)
        sum == Summary(in)
        last == Max(Pages(in))
        part == [p \in 1..last |-> PartSummary(in, p, p)]
    IN  /\ MapThenSumSet(LAMBDA p : part[p].gaps, 1..last) = sum.gaps
        /\ UNION {part[p].gapUnits : p \in 1..last}
             = {i \in DOMAIN units : UnitStatus(in, units[i]) = "failed"}
        /\ \A p \in 1..last :
             /\ part[p].units = part[p].skipped \cup part[p].embedded \cup part[p].gapUnits
             /\ part[p].gapUnits # {} =>
                  \E q \in 1..last : /\ part[p].gapUnits \cap part[q].gapUnits # {}
                                    /\ part[q].missing # [r \in DOMAIN part[q].missing |-> 0]
        /\ \A i \in DOMAIN units :
             UnitStatus(in, units[i]) = "failed" =>
               \E p \in units[i].pages : PageReason(in, p) # "none"
        /\ (CoverageGate(in).gate = "accept") = (sum.gaps = 0)
        /\ CoverageGate(in).gate = "accept" =>
             \A i \in DOMAIN units : UnitStatus(in, units[i]) # "failed"
        /\ sum.total = sum.skipped + sum.embedded + sum.unembedded + (sum.indexable - sum.chunked)
        /\ in.manifest = <<>> =>
             /\ \A p \in Pages(in) : PageReason(in, p) # "no_units"
             /\ \A b \in DOMAIN in.blocks :
                  Cardinality({i \in DOMAIN units : b \in units[i].blocks}) = 1
             /\ \A b \in DOMAIN in.blocks :
                  in.blocks[b].type = "table" /\ (in.blocks[b].text \/ in.blocks[b].more)
                    /\ ~in.blocks[b].artifact => units[b].index
=============================================================================
