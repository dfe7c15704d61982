------------------------------- MODULE Exports -------------------------------
(***************************************************************************)
(* Exports of a document: one data set at a time (export_document), or       *)
(* several as files of a package (create_export_job, export_jobs.py).        *)
(*                                                                           *)
(* A document is [stored, computed]: the rows of its views that the store    *)
(* keeps and the rows computed from its blocks, by data set.  A row is       *)
(* [first, last, code, severity, field], first 0 if it tells no page.        *)
(***************************************************************************)
EXTENDS Integers, Sequences, FiniteSets, SequencesExt, FiniteSetsExt

StoredViews == {"pages", "lines"}
Structured == {"pages", "tables", "quality_signals", "parse_units"}
Datasets == Structured \cup {"lines", "records", "coverage", "reader"}

-----------------------------------------------------------------------------
(* Rows. *)

\* _document_view_rows of a snapshot whose views were read: what the store
\* returned is taken, even if it is nothing.
ViewRows(doc, d) == doc.stored[d]

\* get_document_records_projection without filters
Records(doc) == IF doc.stored.records # <<>> THEN doc.stored.records ELSE doc.computed.records

\* export_document
ExportRows(doc, d) ==
    CASE d \in StoredViews -> ViewRows(doc, d)
      [] d = "records" -> Records(doc)
      [] OTHER -> doc.computed[d]

-----------------------------------------------------------------------------
(* A package.  A request is [include, filters, bad]: the data sets asked for, *)
(* in their order, and those whose name or format the exporter refuses.       *)

DefaultExports == <<"tables", "quality_signals", "coverage", "parse_units">>

\* create_export_job: what the payload holds for each data set, nothing for one
\* that it was not asked to fetch.
Payload(doc, include) ==
    LET names == ToSet(include)
        only == names # {} /\ names \subseteq (Datasets \ (Structured \ {"pages"}))
    IN  [d \in Datasets |->
            CASE d \in StoredViews /\ d \in names -> ViewRows(doc, d)
              [] d = "records" /\ d \in names -> Records(doc)
              [] d = "coverage" /\ (d \in names \/ names = {}) -> doc.computed.coverage
              [] d = "reader" /\ d \in names -> doc.computed.reader
              [] d \in Structured /\ ~only -> doc.computed[d]
              [] OTHER -> <<>>]

\* _row_overlaps_page_range
InRange(row, range) == row.first = 0 \/ (row.first =< range[2] /\ row.last >= range[1])

\* _filtered_payload; a filter that is not given is "any", a range <<>>.
Kept(d, row, f) ==
    /\ f.severity # "any" /\ d = "quality_signals" => row.severity = f.severity
    /\ f.code # "any" /\ d \in {"quality_signals", "records", "coverage", "reader"} => row.code = f.code
    /\ f.field # "any" /\ d = "records" => row.field = f.field
    /\ f.range # <<>> => InRange(row, f.range)

Filtered(rows, d, f) == SelectSeq(rows, LAMBDA r : Kept(d, r, f))

\* create_export_package: the files are written one after the other and the
\* manifest last; the first name or format that is refused ends it.
Package(doc, req) ==
    LET wanted == IF req.include = <<>> /\ req.default THEN DefaultExports ELSE req.include
        refused == {i \in DOMAIN wanted : wanted[i] \in req.bad}
        written == IF refused = {} THEN Len(wanted) ELSE Min(refused) - 1
        payload == Payload(doc, req.include)
    IN  [files |-> [i \in 1..written |->
                       [dataset |-> wanted[i], rows |-> Filtered(payload[wanted[i]], wanted[i], req.filters)]],
         manifest |-> refused = {}]

-----------------------------------------------------------------------------
(* What must hold. *)

NoFilter == [severity |-> "any", code |-> "any", field |-> "any", range |-> <<>>]

\* A file of a package holds what the export of its data set alone returns, cut
\* by the filters, whichever other data sets the package has.
FilesAreExports(doc, req) ==
    LET p == Package(doc, req)
    IN  \A i \in DOMAIN p.files :
          LET d == p.files[i].dataset
          IN  (d = "pages" => d \in ToSet(req.include)) =>
                p.files[i].rows = Filtered(ExportRows(doc, d), d, req.filters)

\* A package has a manifest, and can be found, if and only if every data set asked
\* for was written.
PackageIsWhole(doc, req) ==
    LET p == Package(doc, req)
    IN  p.manifest =
          ([i \in DOMAIN p.files |-> p.files[i].dataset]
             = IF req.include = <<>> /\ req.default THEN DefaultExports ELSE req.include)

\* Filters only leave out rows, the order in which they are given does not matter,
\* and a row without a page is never lost to a range of pages.
FiltersCompose(doc, req) ==
    \A d \in Datasets :
      LET rows == ExportRows(doc, d)
          f == req.filters
          pagesOnly == [NoFilter EXCEPT !.range = f.range]
          noPages == [f EXCEPT !.range = <<>>]
      IN  /\ Filtered(Filtered(rows, d, pagesOnly), d, noPages) = Filtered(rows, d, f)
          /\ Filtered(Filtered(rows, d, noPages), d, pagesOnly) = Filtered(rows, d, f)
          /\ \A i \in DOMAIN rows : rows[i].first = 0 /\ Kept(d, rows[i], noPages) =>
                rows[i] \in ToSet(Filtered(rows, d, f))

ExportsAreWhole(in) ==
    /\ FilesAreExports(in.doc, in.req)
    /\ PackageIsWhole(in.doc, in.req)
    /\ FiltersCompose(in.doc, in.req)

-----------------------------------------------------------------------------
(* The files of an export (exports.py): which rows of a data set it has, and *)
(* what each format keeps of them.                                           *)
(*                                                                           *)
(* Here a row is a dictionary, a sequence of [key, value] in its order.  A    *)
(* key is [word, upper]; a value is "none", "text", "nested" (a list or a     *)
(* dictionary), "yes", "no", or "control", a text with a control character.  *)
(* For the filters a row is [number, first, last, codes, code], 0 or "none"  *)
(* where it has no such key; codes is "none", or of a list or of a text.     *)

Tables == {"csv", "tsv", "xlsx", "sqlite"}
Formats == Tables \cup {"jsonl"}

-----------------------------------------------------------------------------
(* Which rows. *)

\* The pages of a row, 0 if it does not tell.
FirstPage(row) == IF row.first # 0 THEN row.first ELSE row.number
LastPage(row) == IF row.last # 0 THEN row.last ELSE FirstPage(row)

\* _filter_by_page_range, a bound 0 if it is not given.
InPages(row, from, to) ==
    FirstPage(row) # 0 => (from # 0 => LastPage(row) >= from) /\ (to # 0 => FirstPage(row) =< to)

\* _filter_by_quality_signal: codes count if there are any, as a list or as a
\* text; otherwise, and also then, the code of the row.
HasSignal(row, signal) ==
    \/ signal \in row.codes.list
    \/ row.codes.list = {} /\ row.codes.text = signal
    \/ row.code = signal

\* _dataset_rows, with the filters it is given.
Selected(rows, from, to, signal) ==
    SelectSeq(rows, LAMBDA r : InPages(r, from, to) /\ (signal # "none" => HasSignal(r, signal)))

\* _row_overlaps_page_range of a package: the number of the page comes first.
PackageInPages(row, from, to) ==
    IF row.number # 0 THEN row.number \in from..to
    ELSE LET first == IF row.first # 0 THEN row.first ELSE row.last
         IN  first # 0 => first =< to /\ (IF row.last # 0 THEN row.last ELSE first) >= from

-----------------------------------------------------------------------------
(* What a file holds. *)

KeysOf(row) == {row[i].key : i \in DOMAIN row}
ValueOf(row, key) ==
    LET at == {i \in DOMAIN row : row[i].key = key}
    IN  IF at = {} THEN "none" ELSE row[CHOOSE i \in at : TRUE].value

\* _fieldnames
FieldNames(rows) ==
    LET all == FlattenSeq([i \in DOMAIN rows |-> [j \in DOMAIN rows[i] |-> rows[i][j].key]])
    IN  FoldLeft(LAMBDA acc, k : IF Contains(acc, k) THEN acc ELSE Append(acc, k), <<>>, all)

\* _cell_value
CellValue(value) == IF value = "none" THEN "" ELSE value

\* The libraries: SQLite takes names of columns that differ only by case for the
\* same, and openpyxl refuses control characters.
Refuses(format, rows, names) ==
    \/ format = "sqlite" /\ \E i, j \in DOMAIN names : i # j /\ names[i].word = names[j].word
    \/ format = "xlsx" /\ \E i \in DOMAIN rows : \E j \in DOMAIN rows[i] : rows[i][j].value = "control"

\* A table has a line for every row, but in a workbook or a database only if a row
\* has a field (_serialize_rows, _serialize_xlsx, _serialize_sqlite).
TableFile(format, rows, names) ==
    [names |-> names,
     lines |-> IF names = <<>> /\ format \in {"xlsx", "sqlite"} THEN <<>>
               ELSE [i \in DOMAIN rows |-> [j \in DOMAIN names |-> CellValue(ValueOf(rows[i], names[j]))]]]

\* jsonl: a line is an object with sorted keys.
JsonLines(rows) == [i \in DOMAIN rows |-> {rows[i][j] : j \in DOMAIN rows[i]}]

\* write_structured_projection: the same line by line into a file.
Written(format, rows, names) ==
    IF format = "jsonl" THEN [names |-> <<>>, lines |-> JsonLines(rows)] ELSE TableFile(format, rows, names)

\* What is read back from a line, without empty cells.
ReadBack(names, line) ==
    {[key |-> names[j], value |-> line[j]] : j \in {k \in DOMAIN names : line[k] # ""}}

-----------------------------------------------------------------------------
(* What must hold. *)

\* Every format that does not refuse the rows tells the same of them, in their
\* order: nothing moves to another row or column, and only what is absent or null
\* is empty.
FormatsAgreeOn(rows, names, json) ==
    /\ IsInjective(names) /\ ToSet(names) = UNION {KeysOf(rows[i]) : i \in DOMAIN rows}
    /\ \A f \in Tables : Refuses(f, rows, names) \/
         LET file == Written(f, rows, names)
         IN  IF names = <<>> /\ f \in {"xlsx", "sqlite"} THEN file.lines = <<>>
             ELSE /\ Len(file.lines) = Len(rows)
                  /\ \A i \in DOMAIN rows :
                       ReadBack(file.names, file.lines[i]) = {p \in json[i] : p.value # "none"}
FormatsAgree(rows) == FormatsAgreeOn(rows, FieldNames(rows), Written("jsonl", rows, <<>>).lines)

\* The rows of a range of pages are all that touch it and all without a page, in
\* their order; two ranges that meet leave out nothing of what one range over
\* both has; and a package has the same rows.
RangesAreComplete(rows, from, to) ==
    LET kept(a, b) == ToSet(Selected(rows, a, b, "none"))
    IN  /\ \A r \in ToSet(rows) :
             r \in kept(from, to) <=>
               \/ FirstPage(r) = 0
               \/ FirstPage(r)..LastPage(r) \cap from..to # {}
        /\ \A mid \in from..to : mid < to => kept(from, to) = kept(from, mid) \cup kept(mid + 1, to)
        /\ \A r \in ToSet(rows) : PackageInPages(r, from, to) <=> r \in kept(from, to)

\* A signal finds a row that tells it in any of the ways rows tell signals, and a
\* search without a signal or a range finds all.
SignalsAreFound(rows) ==
    /\ Selected(rows, 0, 0, "none") = rows
    /\ \A s \in {"low", "other"} :
         \A r \in ToSet(rows) :
            r \in ToSet(Selected(rows, 0, 0, s)) <=> s \in r.codes.list \cup {r.codes.text, r.code}
=============================================================================
