----------------------------- MODULE RecordsView -----------------------------
(***************************************************************************)
(* The rows of a document that its clients list and export: the lines of    *)
(* its blocks, the records made from rows of tables and from numbered lines  *)
(* of text, the codes of its pages (api_payloads.py), the listing of records *)
(* page by page (record_filters.py, stores.py) and the choice between stored *)
(* rows and computed ones.                                                   *)
(***************************************************************************)
EXTENDS Integers, Sequences, FiniteSets, SequencesExt, FiniteSetsExt

KnowledgeUnits == INSTANCE KnowledgeUnits

Indices(s, Keep(_)) == SelectSeq([i \in DOMAIN s |-> i], LAMBDA i : Keep(i))

-----------------------------------------------------------------------------
(* Lines.  A block is [kind, page, source, content]: source holds the lines   *)
(* that the parser kept, [text, page], content tells of each line of the text *)
(* whether it has any.                                                        *)

Skipped(b) == b.kind \in {"title", "artifact"}

\* _structured_lines_from_blocks: the kept lines, or those of the text.
BlockLines(blocks, k) ==
    LET b == blocks[k]
        kept == Indices(b.source, LAMBDA i : b.source[i].text)
        written == SelectSeq(b.content, LAMBDA text : text)
    IN  IF Skipped(b) THEN <<>>
        ELSE IF kept # <<>>
             THEN [n \in DOMAIN kept |-> [block |-> k, line |-> kept[n], page |-> b.source[kept[n]].page]]
        ELSE [n \in DOMAIN written |-> [block |-> k, line |-> n, page |-> b.page]]

Lines(blocks) == FlattenSeq([k \in DOMAIN blocks |-> BlockLines(blocks, k)])

-----------------------------------------------------------------------------
(* Records of a table [header, names, rows].  A cell or a name is a sequence, *)
(* empty if it is blank; <<"a", 2>> is written a_2.                           *)

Width(t) == Max({0} \cup {Len(t.rows[r]) : r \in DOMAIN t.rows})

\* _rows_from_structured_cells: every row has the width of the table.
Padded(t) ==
    [r \in DOMAIN t.rows |->
        [c \in 1..Width(t) |-> IF c =< Len(t.rows[r]) THEN t.rows[r][c] ELSE <<>>]]

\* _stable_record_headers: a name that was used gets the next number.
Headers(raw, width) ==
    LET Step(acc, c) ==
            LET name == IF c =< Len(raw) /\ raw[c] # <<>> THEN raw[c] ELSE <<"col", c>>
                times == Cardinality({k \in DOMAIN acc.used : acc.used[k] = name})
            IN  IF times = 0
                THEN [names |-> Append(acc.names, name), used |-> Append(acc.used, name)]
                ELSE [names |-> Append(acc.names, Append(name, times + 1)), used |-> Append(acc.used, name)]
    IN  FoldLeft(Step, [names |-> <<>>, used |-> <<>>], [c \in 1..width |-> c]).names

HeadersOf(t) ==
    CASE t.names # <<>> -> Headers(t.names, Width(t))
      [] t.names = <<>> /\ t.header > 0 -> Headers(Padded(t)[1], Width(t))
      [] OTHER -> Headers(<<>>, Width(t))

\* The rows of _structured_records; of two columns of one name the last one stays.
TableRecords(t) ==
    LET rows == Padded(t)
        data == Indices(rows, LAMBDA r : r > t.header /\ \E c \in DOMAIN rows[r] : rows[r][c] # <<>>)
        names == HeadersOf(t)
        value(row, n) == row[Max({c \in DOMAIN names : names[c] = n})]
    IN  IF rows = <<>> THEN <<>>
        ELSE [k \in DOMAIN data |->
                 [row |-> data[k], cells |-> rows[data[k]],
                  fields |-> [n \in ToSet(names) |-> value(rows[data[k]], n)]]]

-----------------------------------------------------------------------------
(* Records of text.  A block is [kind, page, lines], a line "start" if a      *)
(* number opens it, "header" if it names the columns, "other" if neither.     *)

\* _text_block_records
TextRecords(blocks) ==
    LET used == Indices(blocks, LAMBDA b : blocks[b].kind \notin {"table", "title", "artifact"})
        lines == FlattenSeq([n \in DOMAIN used |->
                    [l \in DOMAIN blocks[used[n]].lines |-> <<used[n], l>>]])
        kind(x) == blocks[x[1]].lines[x[2]]
        page(x) == blocks[x[1]].page
        Step(acc, x) ==
            CASE kind(x) = "header" -> acc
              [] kind(x) = "start" -> Append(acc, [first |-> page(x), last |-> page(x), lines |-> <<x>>])
              [] OTHER -> IF acc = <<>> THEN acc
                          ELSE LET r == Last(acc)
                               IN  Append(Front(acc), [first |-> r.first, last |-> Max({r.last, page(x)}),
                                                       lines |-> Append(r.lines, x)])
    IN  FoldLeft(Step, <<>>, lines)

\* _text_record_signal_codes: what its lines alone tell.
BoundaryCodes(r) ==
    IF Len(r.lines) > 1 THEN {"row_continuation_detected"} ELSE {}

-----------------------------------------------------------------------------
(* A record that is suspected to be shifted.  A field is [dates, ids, date,   *)
(* ident]: whether its name is that of a date or an identifier, what date its *)
(* value holds, "none", "bad" or "good", and whether it holds an identifier.  *)

\* _record_column_shift_suspected
ShiftSuspected(fields) ==
    LET some(P(_)) == \E i \in DOMAIN fields : P(fields[i])
    IN  \/ some(LAMBDA f : ~f.dates /\ f.date # "none") /\ ~some(LAMBDA f : f.dates /\ f.date = "good")
        \/ some(LAMBDA f : ~f.ids /\ f.ident) /\ ~some(LAMBDA f : f.ids /\ f.ident)

\* _table_record_signal_codes
RecordCodes(fields) ==
    (IF (\E i \in DOMAIN fields : fields[i].date # "none") /\ (\A i \in DOMAIN fields : fields[i].date # "good")
     THEN {"date_parse_failed"} ELSE {})
    \cup (IF ShiftSuspected(fields) THEN {"column_shift_suspected"} ELSE {})

-----------------------------------------------------------------------------
(* The codes of a page, computed from the blocks alone when views are stored. *)

\* _view_block_is_indexable
ViewIndexable(b) == ~b.artifact /\ (b.text \/ (b.type # "text" /\ b.more))

\* _lightweight_view_coverage_signals of page p; blocks as in KnowledgeUnits.
ViewCodes(blocks, p) ==
    LET on == {b \in DOMAIN blocks : blocks[b].first = p}
    IN  {"no_chunks" : b \in {x \in on : ViewIndexable(blocks[x])}}
        \cup {"table" : b \in {x \in on : blocks[x].type = "table" /\ ~ViewIndexable(blocks[x])}}
        \cup {"figure" : b \in {x \in on : blocks[x].type = "image" /\ ~blocks[x].text /\ ~blocks[x].more}}

\* The codes that build_coverage_projection gives it while there are no chunks.
CoverageCodes(blocks, p) ==
    LET in == [blocks |-> blocks, chunks |-> <<>>, manifest |-> <<>>]
    IN  ({KnowledgeUnits!PageReason(in, p)} \ {"none"})
        \cup {"table" : x \in IF KnowledgeUnits!TableGap(in, p) THEN {1} ELSE {}}
        \cup {"figure" : x \in IF KnowledgeUnits!FigureGap(in, p) THEN {1} ELSE {}}

-----------------------------------------------------------------------------
(* Listing.  A row is [first, last, match], match tells whether the filters   *)
(* on its contents accept it; a query is [first, last, filter, limit, offset],*)
(* first and last 0 if the request leaves them out, limit 0 if there is none. *)

\* record_matches
Matches(row, q) ==
    /\ q.filter => row.match
    /\ q.first # 0 => row.last >= q.first
    /\ q.last # 0 => row.first =< q.last

\* LIMIT and OFFSET; collect_record_page counts to the same end.
Window(rows, q) ==
    SubSeq(rows, q.offset + 1, IF q.limit = 0 THEN Len(rows) ELSE Min({Len(rows), q.offset + q.limit}))

\* collect_record_page
CollectPage(rows, q) ==
    LET hit == SelectSeq(rows, LAMBDA r : Matches(r, q))
    IN  [total |-> Len(hit), items |-> Window(hit, q), persisted |-> TRUE]

\* The rows of a view in the order of SQLiteJobStore, by page and then by position.
Stored(rows) ==
    LET at(p) == SelectSeq(rows, LAMBDA r : r.first = p)
        top == Max({0} \cup {rows[i].first : i \in DOMAIN rows})
    IN  FlattenSeq([p \in 1..top |-> at(p)])

\* query_document_records: pages are selected by SQL, and so is the window when
\* there is nothing else to filter by; without a candidate it tells nothing.
QueryRecords(rows, q) ==
    LET candidates == SelectSeq(Stored(rows), LAMBDA r : Matches(r, [q EXCEPT !.filter = FALSE]))
    IN  IF candidates = <<>> THEN [total |-> 0, items |-> <<>>, persisted |-> FALSE]
        ELSE IF q.filter THEN CollectPage(candidates, q)
        ELSE [total |-> Len(candidates), items |-> Window(candidates, q), persisted |-> TRUE]

\* get_document_records_projection: rows computed from the blocks if the store has none.
ListRecords(rows, computed, q) ==
    IF QueryRecords(rows, q).persisted THEN QueryRecords(rows, q) ELSE CollectPage(computed, q)

\* _row_overlaps_page_range of an export with a page range.
Exported(rows, first, last) ==
    SelectSeq(rows, LAMBDA r : r.first =< last /\ r.last >= first)

-----------------------------------------------------------------------------
(* What must hold. *)

\* No line of a block that is not skipped is left out, none comes twice, and
\* what names it is unique.
LinesAreComplete(blocks) ==
    LET lines == Lines(blocks)
    IN  /\ IsInjective([i \in DOMAIN lines |-> <<lines[i].block, lines[i].line>>])
        /\ \A i, j \in DOMAIN lines : i < j =>
             lines[i].block < lines[j].block
               \/ (lines[i].block = lines[j].block /\ lines[i].line < lines[j].line)
        /\ \A k \in DOMAIN blocks :
             (\E i \in DOMAIN lines : lines[i].block = k)
               = (/\ ~Skipped(blocks[k])
                  /\ \/ \E i \in DOMAIN blocks[k].source : blocks[k].source[i].text
                     \/ TRUE \in ToSet(blocks[k].content))

\* Every row below the header that is not blank is one record, in order, and the
\* fields of a record hold its cells.  A cell is lost only if a name of the table
\* looks like one that the numbering makes ("a", "a", "a_2" gives a_2 twice).
RowsBecomeRecords(t) ==
    LET recs == TableRecords(t)
        rows == Padded(t)
        raw == IF t.names # <<>> THEN t.names ELSE IF t.header > 0 /\ rows # <<>> THEN rows[1] ELSE <<>>
        numbered == \E i \in DOMAIN raw : Len(raw[i]) > 1
    IN  /\ \A k, m \in DOMAIN recs : k < m => recs[k].row < recs[m].row
        /\ {recs[k].row : k \in DOMAIN recs}
             = {r \in DOMAIN rows : r > t.header /\ \E c \in DOMAIN rows[r] : rows[r][c] # <<>>}
        /\ \A k \in DOMAIN recs : ~numbered =>
             /\ Cardinality(DOMAIN recs[k].fields) = Width(t)
             /\ \A c \in 1..Width(t) : recs[k].fields[HeadersOf(t)[c]] = recs[k].cells[c]

\* From the first numbered line on every line that is not a header is in one
\* record, in order, and the pages of a record are those of its lines.
TextIsCut(blocks) ==
    LET recs == TextRecords(blocks)
        all == FlattenSeq([r \in DOMAIN recs |-> recs[r].lines])
        kind(x) == blocks[x[1]].lines[x[2]]
        usable == {b \in DOMAIN blocks : blocks[b].kind = "text"}
        before(x, y) == x[1] < y[1] \/ (x[1] = y[1] /\ x[2] < y[2])
    IN  /\ \A i, j \in DOMAIN all : i < j => before(all[i], all[j])
        /\ \A b \in usable : \A l \in DOMAIN blocks[b].lines :
             (<<b, l>> \in ToSet(all))
               = (/\ kind(<<b, l>>) # "header"
                  /\ \E i \in DOMAIN all : kind(all[i]) = "start" /\ ~before(<<b, l>>, all[i]))
        /\ \A r \in DOMAIN recs :
             LET pages == {blocks[x[1]].page : x \in ToSet(recs[r].lines)}
             IN  /\ kind(recs[r].lines[1]) = "start"
                 /\ \A n \in 2..Len(recs[r].lines) : kind(recs[r].lines[n]) = "other"
                 /\ recs[r].last = Max(pages)
                 /\ (recs[r].last > recs[r].first) => BoundaryCodes(recs[r]) # {}

\* A row without a code that is shifted so that its date columns have no date any
\* more, or its identifier columns no identifier, gets one.
ShiftsAreSeen(fields) ==
    LET n == Len(fields)
        shifted(k) == [i \in 1..n |->
            LET from == fields[((i + k - 1) % n) + 1]
            IN  [fields[i] EXCEPT !.date = from.date, !.ident = from.ident]]
    IN  RecordCodes(fields) = {} =>
          \A k \in 1..(n - 1) :
            LET s == shifted(k)
            IN  \/ (\E i \in 1..n : fields[i].dates /\ fields[i].date = "good")
                     /\ ~(\E i \in 1..n : s[i].dates /\ s[i].date = "good")
                \/ (\E i \in 1..n : fields[i].ids /\ fields[i].ident)
                     /\ ~(\E i \in 1..n : s[i].ids /\ s[i].ident)
                => RecordCodes(s) # {}

\* The codes of a stored page are those of the coverage while no block spans
\* pages; a block that does is missed on the pages behind its first, and nothing
\* is made up.
StoredCodesAreTrue(blocks) ==
    \A p \in UNION {blocks[b].first..blocks[b].last : b \in DOMAIN blocks} :
        /\ ViewCodes(blocks, p) \subseteq CoverageCodes(blocks, p)
        /\ (\A b \in DOMAIN blocks : blocks[b].first = blocks[b].last) =>
             ViewCodes(blocks, p) = CoverageCodes(blocks, p)
        /\ CoverageCodes(blocks, p) \ ViewCodes(blocks, p) \subseteq {"no_chunks"}

\* Whatever the window, and whether the store or the blocks answer, a client that
\* turns the pages gets every record that matches once, and always the same total.
ListingIsComplete(rows, q) ==
    LET window(n) == ListRecords(rows, rows, [q EXCEPT !.offset = n * q.limit])
        count == Cardinality({i \in DOMAIN rows : Matches(rows[i], q)})
        all == FlattenSeq([n \in 1..(Len(rows) + 1) |-> window(n - 1).items])
        free == ListRecords(rows, rows, [q EXCEPT !.limit = 0, !.offset = 0])
    IN  /\ q.limit > 0 => /\ all = free.items
                          /\ \A n \in 0..Len(rows) : window(n).total = count
        /\ Len(free.items) = count
        /\ \A r \in ToSet(rows) :
             Cardinality({i \in DOMAIN free.items : free.items[i] = r})
               = IF Matches(r, q) THEN Cardinality({i \in DOMAIN rows : rows[i] = r}) ELSE 0
        /\ ToSet(CollectPage(rows, [q EXCEPT !.limit = 0, !.offset = 0]).items) = ToSet(free.items)
        /\ ~q.filter /\ q.first # 0 /\ q.last # 0 =>
             ToSet(Exported(rows, q.first, q.last)) = ToSet(free.items)
=============================================================================
