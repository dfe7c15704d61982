---------------------------- MODULE DocumentStore ----------------------------
(***************************************************************************)
(* What a refresh of a partitioned document does to the tables of the       *)
(* store (stores.py, runtime.py): the rows of one part are replaced in      *)
(* place, among those of the other parts.  blocks stands for the tables     *)
(* blocks and chunks; views and pages for document_views, where a position  *)
(* may occur only once: views for its lines and records, whose ids begin    *)
(* with the prefix of their part, pages for its pages, whose ids do not;    *)
(* memory for the views of InMemoryJobStore, given the same calls.          *)
(*                                                                          *)
(* SQLite runs a replacement as one transaction, which begins with its      *)
(* first DELETE; the SELECT before it reads what is committed then.  On     *)
(* Postgres (Autocommit) each statement commits alone, and a crash may come *)
(* between two of them.  No two parts own the same page, and a run may have  *)
(* no row for a page of its part.                                           *)
(***************************************************************************)
EXTENDS Integers, Sequences, FiniteSets, FiniteSetsExt, SequencesExt

CONSTANTS
    Threads,      \* executors that refresh the parent
    Parts,        \* part numbers, in the order of their pages
    PartPages,    \* pages that a part owns
    MaxItems,     \* rows that a run of a part may give
    MaxRuns,      \* bound of the model: runs of parts
    Autocommit    \* FALSE for SQLiteJobStore, TRUE for PostgresJobStore

VARIABLES
    stored,    \* per part, the rows of its own document: the latest run
    blocks,    \* rows of the parent's blocks
    views,     \* rows of the parent's lines and records
    pages,     \* rows of its pages
    paged,     \* per run, the pages of its part that it has rows for
    memory,    \* the same views in InMemoryJobStore, a sequence
    index,     \* per part, the run whose chunks the vector index has
    pc,        \* what a thread does next
    part,      \* the part it refreshes
    bounds,    \* what its SELECT returned
    merged,    \* what it took from the part's document
    all,       \* the rows of the parent that it read for a full save
    runs

locals == <<pc, part, bounds, merged, all>>
tables == <<stored, blocks, views, memory, index, pages, paged>>
vars == <<tables, locals, runs>>

Row(p, run, n) == [part |-> p, run |-> run, n |-> n]
Rows(p, s) == [n \in 1..s.size |-> Row(p, s.run, n)]
At(rows, from) == {[row |-> rows[i], pos |-> from + i - 1] : i \in DOMAIN rows}
Of(T, p) == {r \in T : r.row.part = p}
Positions(T) == {r.pos : r \in T}
Precedes(a, b) == a.pos < b.pos \/ (a.pos = b.pos /\ a.row.part < b.row.part)
InOrder(T) == [i \in 1..Cardinality(T) |->
    (CHOOSE r \in T : Cardinality({s \in T : Precedes(s, r)}) = i - 1).row]
End(T) == IF T = {} THEN 0 ELSE Max(Positions(T)) + 1

PageRow(p, run, g) == [part |-> p, run |-> run, page |-> g]
PageRows(S) ==
    SetToSortSeq(S, LAMBDA a, b : a.part < b.part \/ (a.part = b.part /\ a.page < b.page))
PagesOf(p, run) == {PageRow(p, run, g) : g \in paged[run]}

Nothing == [run |-> 0, size |-> 0]
NoBounds == [min |-> -1, max |-> -1, count |-> 0, at |-> 0]

Init ==
    /\ stored = [p \in Parts |-> Nothing]
    /\ blocks = {} /\ views = {} /\ pages = {} /\ memory = <<>>
    /\ paged = [run \in 1..MaxRuns |-> {}]
    /\ index = [p \in Parts |-> 0]
    /\ pc = [t \in Threads |-> "idle"]
    /\ part = [t \in Threads |-> CHOOSE p \in Parts : TRUE]
    /\ bounds = [t \in Threads |-> NoBounds]
    /\ merged = [t \in Threads |-> <<>>]
    /\ all = [t \in Threads |-> <<>>]
    /\ runs = 0

Goto(t, from, to) == pc[t] = from /\ pc' = [pc EXCEPT ![t] = to]
Forget(t) == merged' = [merged EXCEPT ![t] = <<>>] /\ bounds' = [bounds EXCEPT ![t] = NoBounds]

-----------------------------------------------------------------------------
(* The statements. *)

\* SELECT MIN, MAX, COUNT of the old rows, and MAX of all when there are none.
BoundsOf(T, old) ==
    IF old = {} THEN [NoBounds EXCEPT !.at = End(T)]
    ELSE [min |-> Min(Positions(old)), max |-> Max(Positions(old)),
          count |-> Cardinality(old), at |-> Min(Positions(old))]
Bounds(T, p) == BoundsOf(T, Of(T, p))

Shift(T, from, delta) ==
    {IF r.pos > from THEN [r EXCEPT !.pos = @ + delta] ELSE r : r \in T}

\* A replacement that does not move the rows behind it.
BadBlocksReplaced(T, p, rows, b) == (T \ Of(T, p)) \cup At(rows, b.at)

\* replace_blocks_by_prefix and replace_chunks_by_prefix, after the SELECT.
BlocksReplaced(T, p, rows, b) ==
    LET kept == T \ Of(T, p) IN
    (IF b.max = -1 THEN kept ELSE Shift(kept, b.max, Len(rows) - b.count)) \cup At(rows, b.at)

\* _replace_document_view_rows: the same for old rows with the prefix, or with a
\* page between the first and the last one of the new rows (Overlapped); positions are
\* computed from the count of old rows, which may have others between them.
Overlapped(T, p, run) ==
    {r \in Of(T, p) : r.row.page \in Min(paged[run])..Max(paged[run])}
ViewsKept(T, old) == T \ old
ViewsFrom(b) == b.min + b.count - 1
ViewsAt(T, old, b) == IF b.min = -1 THEN End(ViewsKept(T, old)) ELSE b.min
ViewsShifted(T, old, rows, b) ==
    IF b.min = -1 THEN ViewsKept(T, old)
    ELSE Shift(ViewsKept(T, old), ViewsFrom(b), Len(rows) - b.count)
ViewsReplaced(T, old, rows, b) ==
    IF rows = <<>> THEN ViewsKept(T, old)
    ELSE ViewsShifted(T, old, rows, b) \cup At(rows, ViewsAt(T, old, b))

\* The UPDATE moves one row after another, in the order of positions, and the
\* INSERT adds rows: each must find its position free.
Collides(T, old, rows, b) ==
    LET kept == ViewsKept(T, old)
        delta == Len(rows) - b.count
        moved == {r \in kept : r.pos > ViewsFrom(b)}
    IN  rows # <<>> /\
        \/ b.min # -1 /\ delta > 0 /\ \E r, s \in moved : r.pos + delta = s.pos
        \/ Positions(ViewsShifted(T, old, rows, b)) \cap Positions(At(rows, ViewsAt(T, old, b))) # {}

\* InMemoryJobStore: new items stand where the first old one did; without old
\* ones, before the items of later pages.
MemoryReplaced(s, p, rows) ==
    LET kept == SelectSeq(s, LAMBDA r : r.part # p)
        old == {i \in DOMAIN s : s[i].part = p}
        at == IF old # {} THEN Min(old) - 1
              ELSE Len(SelectSeq(kept, LAMBDA r : r.part < p))
    IN  SubSeq(kept, 1, at) \o rows \o SubSeq(kept, at + 1, Len(kept))

-----------------------------------------------------------------------------
(* A refresh: _refresh_partitioned_parent_incremental for one part.         *)

\* A part has been parsed; the executor takes its rows.
Begin(t, p) ==
    /\ Goto(t, "idle", "bounds")
    /\ runs < MaxRuns /\ runs' = runs + 1
    /\ \A u \in Threads : pc[u] # "idle" => part[u] # p
    /\ \E k \in 1..MaxItems, g \in SUBSET (1..PartPages) :
        /\ g # {} /\ Cardinality(g) <= k
        /\ stored' = [stored EXCEPT ![p] = [run |-> runs + 1, size |-> k]]
        /\ paged' = [paged EXCEPT ![runs + 1] = g]
    /\ part' = [part EXCEPT ![t] = p]
    /\ merged' = [merged EXCEPT ![t] = Rows(p, stored'[p])]
    /\ UNCHANGED <<blocks, views, pages, memory, index, bounds, all>>

\* A replacement without a transaction.
BadSelectBlocks(t) ==
    /\ Goto(t, "bounds", "delete")
    /\ bounds' = [bounds EXCEPT ![t] = Bounds(blocks, part[t])]
    /\ UNCHANGED <<tables, part, merged, all, runs>>

SelectBlocks(t) ==
    /\ Goto(t, "bounds", IF Autocommit THEN "delete" ELSE "blocks")
    /\ bounds' = [bounds EXCEPT ![t] = Bounds(blocks, part[t])]
    /\ UNCHANGED <<tables, part, merged, all, runs>>

\* SQLite: DELETE, UPDATE and INSERT in one transaction.
ReplaceBlocks(t) ==
    /\ Goto(t, "blocks", "viewBounds")
    /\ blocks' = BlocksReplaced(blocks, part[t], merged[t], bounds[t])
    /\ UNCHANGED <<stored, views, pages, paged, memory, index, part, bounds, merged, all, runs>>

\* Postgres: one statement after another.
DeleteBlocks(t) ==
    /\ Goto(t, "delete", "shift")
    /\ blocks' = blocks \ Of(blocks, part[t])
    /\ UNCHANGED <<stored, views, pages, paged, memory, index, part, bounds, merged, all, runs>>

ShiftBlocks(t) ==
    /\ Goto(t, "shift", "insert")
    /\ blocks' = IF bounds[t].max = -1 THEN blocks
                 ELSE Shift(blocks, bounds[t].max, Len(merged[t]) - bounds[t].count)
    /\ UNCHANGED <<stored, views, pages, paged, memory, index, part, bounds, merged, all, runs>>

InsertBlocks(t) ==
    /\ Goto(t, "insert", "viewBounds")
    /\ blocks' = blocks \cup At(merged[t], bounds[t].at)
    /\ UNCHANGED <<stored, views, pages, paged, memory, index, part, bounds, merged, all, runs>>

\* The pages come first; their SELECT is before the transaction.
SelectViews(t) ==
    /\ Goto(t, "viewBounds", "views")
    /\ bounds' = [bounds EXCEPT ![t] =
            BoundsOf(pages, Overlapped(pages, part[t], stored[part[t]].run))]
    /\ UNCHANGED <<tables, part, merged, all, runs>>

\* A refresh that takes a failed replacement for done.
BadReplaceViews(t) ==
    LET p == part[t]
        run == stored[p].run
        old == Overlapped(pages, p, run)
        news == PageRows(PagesOf(p, run))
        lines == Of(views, p)
    IN
    /\ Goto(t, "views", "index")
    /\ IF Collides(pages, old, news, bounds[t]) \/ Collides(views, lines, merged[t], Bounds(views, p))
       THEN UNCHANGED <<pages, views>>
       ELSE /\ pages' = ViewsReplaced(pages, old, news, bounds[t])
            /\ views' = ViewsReplaced(views, lines, merged[t], Bounds(views, p))
    /\ memory' = MemoryReplaced(memory, p, merged[t])
    /\ UNCHANGED <<stored, paged, blocks, index, part, bounds, merged, all, runs>>

\* _persist_document_views: a collision is logged and FALSE returned; SQLite has
\* rolled back, Postgres has deleted the old rows and kept them deleted, and does not
\* come to the lines after a collision of pages.
ReplaceViews(t) ==
    LET p == part[t]
        run == stored[p].run
        old == Overlapped(pages, p, run)
        news == PageRows(PagesOf(p, run))
        lines == Of(views, p)
        newPages == ViewsReplaced(pages, old, news, bounds[t])
    IN
    /\ \/ /\ Goto(t, "views", "indexThenAll")
          /\ Collides(pages, old, news, bounds[t])
          /\ pages' = IF Autocommit THEN ViewsKept(pages, old) ELSE pages
          /\ UNCHANGED views
       \/ /\ Goto(t, "views", "indexThenAll")
          /\ ~Collides(pages, old, news, bounds[t])
          /\ Collides(views, lines, merged[t], Bounds(views, p))
          /\ pages' = IF Autocommit THEN newPages ELSE pages
          /\ views' = IF Autocommit THEN ViewsKept(views, lines) ELSE views
       \/ /\ Goto(t, "views", "index")
          /\ ~Collides(pages, old, news, bounds[t])
          /\ ~Collides(views, lines, merged[t], Bounds(views, p))
          /\ pages' = newPages
          /\ views' = ViewsReplaced(views, lines, merged[t], Bounds(views, p))
    /\ memory' = MemoryReplaced(memory, p, merged[t])
    /\ UNCHANGED <<stored, paged, blocks, index, part, bounds, merged, all, runs>>

\* PgVectorIndex.replace_chunks_by_prefix; it raises for a vector of a wrong
\* dimension, which ends the refresh.
ReplaceIndex(t) ==
    /\ \/ /\ Goto(t, "index", "idle") \/ Goto(t, "indexThenAll", "readAll")
          /\ index' = [index EXCEPT ![part[t]] = merged[t][1].run]
       \/ /\ Goto(t, "index", "idle") \/ Goto(t, "indexThenAll", "idle")
          /\ UNCHANGED index
    /\ Forget(t)
    /\ UNCHANGED <<stored, blocks, views, pages, paged, memory, part, all, runs>>

\* refresh_partitioned_parent, views_dirty and not views_updated: all views are
\* made again from the parent's blocks.
ReadAll(t) ==
    /\ Goto(t, "readAll", "saveAll")
    /\ all' = [all EXCEPT ![t] = InOrder(blocks)]
    /\ UNCHANGED <<tables, part, bounds, merged, runs>>

SaveAll(t) ==
    /\ Goto(t, "saveAll", "idle")
    /\ views' = At(all[t], 0)
    /\ pages' = At(PageRows(UNION {PagesOf(r.part, r.run) : r \in ToSet(all[t])}), 0)
    /\ all' = [all EXCEPT ![t] = <<>>]
    /\ UNCHANGED <<stored, paged, blocks, memory, index, part, bounds, merged, runs>>

\* The process dies; a Postgres statement that has run stays.
Crash(t) ==
    /\ Autocommit /\ pc[t] # "idle"
    /\ pc' = [pc EXCEPT ![t] = "idle"]
    /\ all' = [all EXCEPT ![t] = <<>>]
    /\ Forget(t)
    /\ UNCHANGED <<tables, part, runs>>

Step(t) ==
    \/ \E p \in Parts : Begin(t, p)
    \/ SelectBlocks(t) \/ ReplaceBlocks(t) \/ DeleteBlocks(t) \/ ShiftBlocks(t) \/ InsertBlocks(t)
    \/ SelectViews(t) \/ ReplaceViews(t) \/ ReplaceIndex(t) \/ ReadAll(t) \/ SaveAll(t)
    \/ Crash(t)

Next == \E t \in Threads : Step(t)

Spec == Init /\ [][Next]_vars

-----------------------------------------------------------------------------
(* Properties. *)

AllRows == [part : Parts, run : 1..MaxRuns, n : 1..MaxItems]
TypeOK ==
    /\ stored \in [Parts -> [run : 0..MaxRuns, size : 0..MaxItems]]
    /\ \A T \in {blocks, views} : \A r \in T : r.row \in AllRows /\ r.pos \in Nat
    /\ paged \in [1..MaxRuns -> SUBSET (1..PartPages)]
    /\ \A r \in pages : /\ r.row \in [part : Parts, run : 1..MaxRuns, page : 1..PartPages]
                        /\ r.pos \in Nat
    /\ memory \in Seq(AllRows)
    /\ index \in [Parts -> 0..MaxRuns]
    /\ part \in [Threads -> Parts]

Content(T) == {r.row : r \in T}
AtRest == \A t \in Threads : pc[t] = "idle"

\* Every part has a stretch of the parent's blocks to itself, in the order of
\* its run, however often parts have grown or shrunk, and wherever a refresh of
\* another part has died.
PartsStayTogether ==
    \A p \in Parts : \A r, s \in Of(blocks, p) :
        /\ r.pos - s.pos = r.row.n - s.row.n
        /\ \A q \in blocks : q.pos = r.pos => q = r

\* At rest the views hold the rows of each part's last run; unless the index has
\* refused a part's vectors, which ends a refresh before its views are made again.
AllIndexed == AtRest /\ \A p \in Parts : index[p] = stored[p].run
ViewsAreLast ==
    AllIndexed => Content(views) = UNION {ToSet(Rows(p, stored[p])) : p \in Parts}

\* And InMemoryJobStore holds the same ones, each once.  No page has two rows, and
\* those that the last run of a part gives have the row of this run; another page may
\* still have that of an earlier run, until all views are made again.
ViewsAreCurrent ==
    /\ ViewsAreLast
    /\ AllIndexed => \A r, s \in pages :
           r.row.part = s.row.part /\ r.row.page = s.row.page => r = s
    /\ AllIndexed => \A p \in Parts : stored[p].run > 0 => PagesOf(p, stored[p].run) \subseteq Content(pages)
    /\ AllIndexed => Content(views) = ToSet(memory) /\ Cardinality(views) = Len(memory)

\* SQLite: a reader never finds a part gone that was there, in the middle of a
\* replacement.
NoPartVanishes ==
    [][\A p \in Parts : (Of(blocks, p) # {} => Of(blocks', p) # {})
                     /\ (Of(views, p) # {} => Of(views', p) # {})]_vars

\* The index never has chunks of a run that the store does not have yet.
IndexIsNotAhead ==
    \A p \in Parts : \A r \in Of(blocks, p) : r.row.run >= index[p]

\* "replaces pages / lines / records in place ... so that a rerun of one part
\* does not rebuild the full views": no replacement fails.
ReplacementSucceeds == \A t \in Threads : pc[t] \notin {"indexThenAll", "readAll", "saveAll"}
=============================================================================
