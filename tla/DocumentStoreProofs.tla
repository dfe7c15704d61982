------------------------- MODULE DocumentStoreProofs -------------------------
(***************************************************************************)
(* What a refresh leaves in the tables, for any parts and runs of any size. *)
(* With any number of threads the vector index is never ahead of the blocks *)
(* (StoreInv).  With one, wherever it dies, every part has a stretch of the *)
(* parent's blocks to itself (TogetherInv); and in SQLite no part is ever   *)
(* gone, and the views hold the last run of every part (ViewsInv).          *)
(***************************************************************************)
EXTENDS DocumentStore, FiniteSetTheorems, WellFoundedInduction, TLAPS

\* What the constants are.
StoreConstants ==
    /\ Parts # {} /\ Parts \subseteq Int
    /\ MaxItems \in Nat /\ MaxRuns \in Nat

\* One refresh at a time.
Alone == \A t, u \in Threads : t = u

-----------------------------------------------------------------------------
(* What the statements leave of the rows, wherever these stand. *)

IsTable(T) == \A r \in T : r = [row |-> r.row, pos |-> r.pos]
RowsOf(T, p) == {r.row : r \in Of(T, p)}
IsRun(s) == s.run \in Nat /\ s.size \in Nat
RunRows(p, s) == {Row(p, s.run, n) : n \in 1..s.size}

\* Moving rows keeps them.
LEMMA ShiftKeeps ==
    ASSUME NEW T, IsTable(T), NEW from, NEW delta
    PROVE  IsTable(Shift(T, from, delta)) /\ \A p : RowsOf(Shift(T, from, delta), p) = RowsOf(T, p)
<1> DEFINE Moved(r) == IF r.pos > from THEN [r EXCEPT !.pos = @ + delta] ELSE r
           S == Shift(T, from, delta)
<1>1. S = {Moved(r) : r \in T}
    BY DEF Shift
<1>2. ASSUME NEW r \in T
      PROVE  Moved(r).row = r.row /\ Moved(r) = [row |-> Moved(r).row, pos |-> Moved(r).pos]
    <2>1. r = [row |-> r.row, pos |-> r.pos]
        BY DEF IsTable
    <2>2. CASE r.pos > from
        <3>1. Moved(r) = [row |-> r.row, pos |-> r.pos + delta]
            BY <2>1, <2>2
        <3> QED
            BY <3>1
    <2>3. CASE ~(r.pos > from)
        BY <2>1, <2>3
    <2> QED
        BY <2>2, <2>3
<1> HIDE DEF Moved
<1>3. IsTable(S)
    BY <1>1, <1>2 DEF IsTable
<1>4. ASSUME NEW p
      PROVE  RowsOf(S, p) = RowsOf(T, p)
    <2>1. \A x \in RowsOf(S, p) : x \in RowsOf(T, p)
        BY <1>1, <1>2 DEF RowsOf, Of
    <2>2. \A x \in RowsOf(T, p) : x \in RowsOf(S, p)
        <3> SUFFICES ASSUME NEW r \in T, r.row.part = p PROVE r.row \in RowsOf(S, p)
            BY DEF RowsOf, Of
        <3>1. Moved(r) \in S /\ Moved(r).row = r.row
            BY <1>1, <1>2
        <3> QED
            BY <3>1 DEF RowsOf, Of
    <2> QED
        BY <2>1, <2>2
<1> QED
    BY <1>3, <1>4

\* The rows of a run, as they are inserted.
LEMMA AtRows ==
    ASSUME NEW p, NEW s, IsRun(s), NEW from
    PROVE  /\ At(Rows(p, s), from) = {[row |-> Row(p, s.run, n), pos |-> from + n - 1] : n \in 1..s.size}
           /\ Len(Rows(p, s)) = s.size
           /\ Rows(p, s) = <<>> <=> s.size = 0
           /\ s.size >= 1 => Rows(p, s)[1].run = s.run
<1>1. /\ DOMAIN Rows(p, s) = 1..s.size /\ s.size \in Nat /\ 1..s.size = DOMAIN Rows(p, s)
      /\ \A n \in 1..s.size : Rows(p, s)[n] = Row(p, s.run, n)
    BY DEF Rows, IsRun
<1>2. Rows(p, s) \in Seq({Row(p, s.run, n) : n \in 1..s.size})
    BY <1>1 DEF Rows
<1>3. Len(Rows(p, s)) = s.size
    BY <1>1, <1>2
<1>4. Rows(p, s) = <<>> <=> s.size = 0
    BY <1>2, <1>3
<1>5. ASSUME s.size >= 1 PROVE Rows(p, s)[1].run = s.run
    <2>1. Rows(p, s)[1] = Row(p, s.run, 1)
        BY <1>1, <1>5
    <2> QED
        BY <2>1 DEF Row
<1>6. At(Rows(p, s), from) = {[row |-> Row(p, s.run, n), pos |-> from + n - 1] : n \in 1..s.size}
    BY <1>1 DEF At
<1> QED
    BY <1>3, <1>4, <1>5, <1>6

\* They are rows of their part, and all of them.
LEMMA AtKeeps ==
    ASSUME NEW p, NEW s, IsRun(s), NEW from
    PROVE  /\ IsTable(At(Rows(p, s), from))
           /\ RowsOf(At(Rows(p, s), from), p) = RunRows(p, s)
           /\ \A q : q # p => Of(At(Rows(p, s), from), q) = {}
<1> DEFINE A == At(Rows(p, s), from)
           E(n) == [row |-> Row(p, s.run, n), pos |-> from + n - 1]
<1>1. A = {E(n) : n \in 1..s.size}
    BY AtRows
<1>2. \A n : E(n).row = Row(p, s.run, n) /\ E(n).row.part = p /\ E(n) = [row |-> E(n).row, pos |-> E(n).pos]
    BY DEF Row
<1> HIDE DEF A, E
<1>3. IsTable(A)
    BY <1>1, <1>2 DEF IsTable
<1>4. Of(A, p) = A /\ \A q : q # p => Of(A, q) = {}
    BY <1>1, <1>2 DEF Of
<1>5. RowsOf(A, p) = RunRows(p, s)
    BY <1>1, <1>2, <1>4 DEF RowsOf, RunRows
<1> QED
    BY <1>3, <1>4, <1>5 DEF A

\* A part's rows are deleted, those of other parts stay.
LEMMA DeleteKeeps ==
    ASSUME NEW T, IsTable(T), NEW p
    PROVE  /\ IsTable(T \ Of(T, p)) /\ RowsOf(T \ Of(T, p), p) = {}
           /\ \A q : q # p => RowsOf(T \ Of(T, p), q) = RowsOf(T, q)
<1>1. \A q : q # p => Of(T \ Of(T, p), q) = Of(T, q)
    BY DEF Of
<1>2. Of(T \ Of(T, p), p) = {}
    BY DEF Of
<1> QED
    BY <1>1, <1>2 DEF IsTable, RowsOf

\* A part's rows are added, those of other parts stay.
LEMMA InsertKeeps ==
    ASSUME NEW T, IsTable(T), NEW p, NEW s, IsRun(s), NEW from, RowsOf(T, p) = {}
    PROVE  LET U == T \cup At(Rows(p, s), from) IN
           /\ IsTable(U) /\ RowsOf(U, p) = RunRows(p, s)
           /\ \A q : q # p => RowsOf(U, q) = RowsOf(T, q)
<1> DEFINE A == At(Rows(p, s), from)
           U == T \cup A
<1>1. IsTable(A) /\ RowsOf(A, p) = RunRows(p, s) /\ \A q : q # p => Of(A, q) = {}
    BY AtKeeps
<1> HIDE DEF A
<1>2. \A q : Of(U, q) = Of(T, q) \cup Of(A, q)
    BY DEF Of
<1>3. \A q : RowsOf(U, q) = RowsOf(T, q) \cup RowsOf(A, q)
    BY <1>2 DEF RowsOf
<1>4. \A q : q # p => RowsOf(A, q) = {}
    BY <1>1 DEF RowsOf
<1> QED
    BY <1>1, <1>3, <1>4 DEF IsTable, A

\* A replacement exchanges the rows of its part and keeps the others.
LEMMA ReplacementKeeps ==
    ASSUME NEW T, IsTable(T), NEW p, NEW s, IsRun(s), NEW b
    PROVE  LET U == BlocksReplaced(T, p, Rows(p, s), b) IN
           /\ IsTable(U) /\ RowsOf(U, p) = RunRows(p, s)
           /\ \A q : q # p => RowsOf(U, q) = RowsOf(T, q)
<1>1. PICK kept : kept = T \ Of(T, p)
    OBVIOUS
<1>2. IsTable(kept) /\ RowsOf(kept, p) = {} /\ \A q : q # p => RowsOf(kept, q) = RowsOf(T, q)
    BY <1>1, DeleteKeeps
<1> DEFINE moved == IF b.max = -1 THEN kept ELSE Shift(kept, b.max, Len(Rows(p, s)) - b.count)
<1>3. BlocksReplaced(T, p, Rows(p, s), b) = moved \cup At(Rows(p, s), b.at)
    BY <1>1 DEF BlocksReplaced
<1>4. IsTable(moved) /\ \A q : RowsOf(moved, q) = RowsOf(kept, q)
    BY <1>2, ShiftKeeps
<1> HIDE DEF moved
<1> QED
    BY <1>2, <1>3, <1>4, InsertKeeps

\* The same for the views.
LEMMA ViewReplacementKeeps ==
    ASSUME NEW T, IsTable(T), NEW p, NEW s, IsRun(s), s.size >= 1, NEW b
    PROVE  LET U == ViewsReplaced(T, Of(T, p), Rows(p, s), b) IN
           /\ IsTable(U) /\ RowsOf(U, p) = RunRows(p, s)
           /\ \A q : q # p => RowsOf(U, q) = RowsOf(T, q)
<1> DEFINE kept == ViewsKept(T, Of(T, p))
           moved == ViewsShifted(T, Of(T, p), Rows(p, s), b)
<1>0. Rows(p, s) # <<>>
    BY AtRows DEF IsRun
<1>1. IsTable(kept) /\ RowsOf(kept, p) = {} /\ \A q : q # p => RowsOf(kept, q) = RowsOf(T, q)
    BY DeleteKeeps DEF ViewsKept
<1>2. ViewsReplaced(T, Of(T, p), Rows(p, s), b) = moved \cup At(Rows(p, s), ViewsAt(T, Of(T, p), b))
    BY <1>0 DEF ViewsReplaced
<1>3. moved = IF b.min = -1 THEN kept ELSE Shift(kept, ViewsFrom(b), Len(Rows(p, s)) - b.count)
    BY DEF ViewsShifted
<1> HIDE DEF kept, moved
<1>4. IsTable(moved) /\ \A q : RowsOf(moved, q) = RowsOf(kept, q)
    BY <1>1, <1>3, ShiftKeeps
<1> QED
    BY <1>1, <1>2, <1>4, InsertKeeps

-----------------------------------------------------------------------------
(* The index follows the blocks, whoever refreshes what. *)

HasRows == {"bounds", "delete", "shift", "insert", "blocks", "viewBounds", "views", "index", "indexThenAll"}
Deleted == {"shift", "insert"}
Inserted == {"viewBounds", "views", "index", "indexThenAll"}

StoreTypes ==
    /\ stored \in [Parts -> [run : Nat, size : Nat]]
    /\ index \in [Parts -> Nat] /\ runs \in Nat
    /\ part \in [Threads -> Parts]
    /\ pc \in [Threads -> HasRows \cup {"idle", "readAll", "saveAll"}]
    /\ DOMAIN merged = Threads /\ DOMAIN bounds = Threads /\ DOMAIN all = Threads
    /\ IsTable(blocks) /\ IsTable(views)

\* A thread that refreshes a part has the rows of its last run, which the index has not.
HandingOf(t) ==
    pc[t] \in HasRows =>
        /\ merged[t] = Rows(part[t], stored[part[t]])
        /\ stored[part[t]].size >= 1 /\ index[part[t]] < stored[part[t]].run

\* No part is refreshed twice at once.
OneEach == \A t, u \in Threads : t # u /\ pc[t] # "idle" /\ pc[u] # "idle" => part[t] # part[u]

\* Runs are numbered as they end, and once the index has the last run of a part, the
\* blocks have it.
RunsAreInOrder(p) ==
    /\ index[p] <= stored[p].run /\ stored[p].run <= runs
    /\ \A x \in RowsOf(blocks, p) : x.run \in Nat /\ index[p] <= x.run /\ x.run <= stored[p].run
    /\ index[p] = stored[p].run => RowsOf(blocks, p) = RunRows(p, stored[p])

\* What the statements have done to the blocks so far.
BlocksFollow(t) ==
    /\ pc[t] \in Deleted => RowsOf(blocks, part[t]) = {}
    /\ pc[t] \in Inserted => RowsOf(blocks, part[t]) = RunRows(part[t], stored[part[t]])

StoreInv ==
    /\ StoreTypes /\ OneEach
    /\ \A t \in Threads : HandingOf(t) /\ BlocksFollow(t)
    /\ \A p \in Parts : RunsAreInOrder(p)

-----------------------------------------------------------------------------
(* Parts stay together. *)

\* The rows of a part are numbered from one.
Numbered(T, p) == \E k \in Nat : {x.n : x \in RowsOf(T, p)} = 1..k

\* Positions are unique, and the rows of a part follow each other in the order of its run.
Together(T) ==
    /\ IsTable(T)
    /\ \A r \in T : r.pos \in Nat /\ r.row.part \in Parts
    /\ \E m \in Nat : \A r \in T : r.pos < m
    /\ \A r, s \in T : r.pos = s.pos => r = s
    /\ \A r, s \in T : r.row.part = s.row.part => r.pos - s.pos = r.row.n - s.row.n
    /\ \A p \in Parts : Numbered(T, p)

\* Between the statements: what is to be shifted, and where there is room.
Hole(T, b) ==
    IF b.max = -1 THEN b.at \in Nat /\ \A r \in T : r.pos < b.at
    ELSE /\ b.at \in Nat /\ b.max \in Nat /\ b.at <= b.max /\ b.count = b.max - b.at + 1
         /\ \A r \in T : r.pos \notin b.at..b.max
Room(T, at, size) == at \in Nat /\ \A r \in T : r.pos \notin at..(at + size - 1)

PlaceKept(t) ==
    /\ pc[t] \in {"blocks", "delete"} => bounds[t] = Bounds(blocks, part[t])
    /\ pc[t] = "shift" => Hole(blocks, bounds[t])
    /\ pc[t] = "insert" => Room(blocks, bounds[t].at, stored[part[t]].size)

TogetherInv == Together(blocks) /\ \A t \in Threads : PlaceKept(t)

-----------------------------------------------------------------------------
(* The views of SQLite. *)

SavesAll(t) == pc[t] \in {"readAll", "saveAll"}
ViewsOfParts == \A r \in views : r.row.part \in Parts
ViewsInv ==
    /\ ViewsOfParts
    /\ \A p \in Parts : /\ RowsOf(views, p) # {} => RowsOf(blocks, p) # {}
                        /\ index[p] = stored[p].run =>
                             \/ RowsOf(views, p) = RunRows(p, stored[p])
                             \/ \E t \in Threads : SavesAll(t)
    /\ \A t \in Threads : /\ pc[t] = "index" => RowsOf(views, part[t]) = RunRows(part[t], stored[part[t]])
                          /\ pc[t] = "saveAll" => all[t] = InOrder(blocks)
                          /\ pc[t] \notin Deleted \cup {"delete"}

-----------------------------------------------------------------------------
(* The index. *)

\* What a step of a thread leaves to the others.
OthersStay(t) ==
    /\ \A u \in Threads \ {t} : /\ pc'[u] = pc[u] /\ part'[u] = part[u] /\ merged'[u] = merged[u]
                                /\ pc[u] # "idle" => part[u] # part'[t]
    /\ \A q \in Parts : q # part'[t] => /\ stored'[q] = stored[q] /\ index'[q] = index[q]
                                        /\ RowsOf(blocks', q) = RowsOf(blocks, q)
    /\ runs <= runs'

\* The rows of the last run.
LEMMA LastRun ==
    ASSUME StoreInv, NEW t \in Threads, pc[t] \in HasRows
    PROVE  /\ part[t] \in Parts /\ IsRun(stored[part[t]]) /\ stored[part[t]].size >= 1
           /\ merged[t] = Rows(part[t], stored[part[t]])
           /\ merged[t][1].run = stored[part[t]].run /\ Len(merged[t]) = stored[part[t]].size
           /\ merged[t] # <<>>
<1>1. part[t] \in Parts /\ IsRun(stored[part[t]]) /\ merged[t] = Rows(part[t], stored[part[t]])
      /\ stored[part[t]].size >= 1
    BY DEF StoreInv, StoreTypes, HandingOf, IsRun
<1> QED
    BY <1>1, AtRows DEF IsRun

\* The statements on the blocks, and what a thread does next.
LEMMA BlocksMove ==
    ASSUME StoreInv, NEW t \in Threads,
           ReplaceBlocks(t) \/ DeleteBlocks(t) \/ ShiftBlocks(t) \/ InsertBlocks(t)
    PROVE  /\ IsTable(blocks')
           /\ \A q : q # part[t] => RowsOf(blocks', q) = RowsOf(blocks, q)
           /\ \/ pc[t] = "delete" /\ pc'[t] = "shift" /\ RowsOf(blocks', part[t]) = {}
              \/ pc[t] = "shift" /\ pc'[t] = "insert" /\ RowsOf(blocks', part[t]) = RowsOf(blocks, part[t])
              \/ /\ pc[t] \in {"blocks", "insert"} /\ pc'[t] = "viewBounds"
                 /\ RowsOf(blocks', part[t]) = RunRows(part[t], stored[part[t]])
<1>1. IsTable(blocks) /\ t \in DOMAIN pc
    BY DEF StoreInv, StoreTypes
<1>2. CASE ReplaceBlocks(t)
    <2>1. pc[t] = "blocks" /\ pc'[t] = "viewBounds" /\ blocks' = BlocksReplaced(blocks, part[t], merged[t], bounds[t])
        BY <1>1, <1>2 DEF ReplaceBlocks, Goto
    <2>2. IsRun(stored[part[t]]) /\ merged[t] = Rows(part[t], stored[part[t]])
        BY <2>1, LastRun DEF HasRows
    <2> QED
        BY <1>1, <2>1, <2>2, ReplacementKeeps
<1>3. CASE DeleteBlocks(t)
    <2>1. pc[t] = "delete" /\ pc'[t] = "shift" /\ blocks' = blocks \ Of(blocks, part[t])
        BY <1>1, <1>3 DEF DeleteBlocks, Goto
    <2> QED
        BY <1>1, <2>1, DeleteKeeps
<1>4. CASE ShiftBlocks(t)
    <2>1. /\ pc[t] = "shift" /\ pc'[t] = "insert"
          /\ \/ blocks' = blocks
             \/ blocks' = Shift(blocks, bounds[t].max, Len(merged[t]) - bounds[t].count)
        BY <1>1, <1>4 DEF ShiftBlocks, Goto
    <2> QED
        BY <1>1, <2>1, ShiftKeeps
<1>5. CASE InsertBlocks(t)
    <2>1. pc[t] = "insert" /\ pc'[t] = "viewBounds" /\ blocks' = blocks \cup At(merged[t], bounds[t].at)
        BY <1>1, <1>5 DEF InsertBlocks, Goto
    <2>2. IsRun(stored[part[t]]) /\ merged[t] = Rows(part[t], stored[part[t]])
        BY <2>1, LastRun DEF HasRows
    <2>3. RowsOf(blocks, part[t]) = {}
        BY <2>1 DEF StoreInv, BlocksFollow, Deleted
    <2> QED
        BY <1>1, <2>1, <2>2, <2>3, InsertKeeps
<1> QED
    BY <1>2, <1>3, <1>4, <1>5

\* The views remain a table.
LEMMA ViewsMove ==
    ASSUME StoreInv, NEW t \in Threads, ReplaceViews(t)
    PROVE  /\ IsTable(views') /\ pc[t] = "views"
           /\ \/ pc'[t] = "indexThenAll"
              \/ /\ pc'[t] = "index" /\ RowsOf(views', part[t]) = RunRows(part[t], stored[part[t]])
           /\ ~Autocommit /\ pc'[t] = "indexThenAll" => views' = views
           /\ \A q : q # part[t] => RowsOf(views', q) = RowsOf(views, q)
<1>1. IsTable(views) /\ t \in DOMAIN pc /\ pc[t] = "views"
    BY DEF StoreInv, StoreTypes, ReplaceViews, Goto
<1>2. /\ IsRun(stored[part[t]]) /\ stored[part[t]].size >= 1
      /\ merged[t] = Rows(part[t], stored[part[t]])
    BY <1>1, LastRun DEF HasRows
<1> DEFINE kept == ViewsKept(views, Of(views, part[t]))
           replaced == ViewsReplaced(views, Of(views, part[t]), merged[t], Bounds(views, part[t]))
<1>3. \/ pc'[t] = "indexThenAll" /\ (views' = views \/ (Autocommit /\ views' = kept))
      \/ pc'[t] = "index" /\ views' = replaced
    <2> HIDE DEF kept, replaced
    <2> QED
        BY <1>1 DEF ReplaceViews, Goto, kept, replaced
<1>4. CASE pc'[t] = "indexThenAll" /\ views' = views
    BY <1>1, <1>4
<1>5. CASE pc'[t] = "indexThenAll" /\ Autocommit /\ views' = kept
    <2>1. views' = views \ Of(views, part[t])
        BY <1>5 DEF ViewsKept
    <2> QED
        BY <1>1, <1>5, <2>1, DeleteKeeps
<1>6. CASE pc'[t] = "index" /\ views' = replaced
    BY <1>1, <1>2, <1>6, ViewReplacementKeeps
<1> QED
    BY <1>3, <1>4, <1>5, <1>6

\* A sequence of rows becomes a table.
LEMMA AtIsTable ==
    ASSUME NEW rows, NEW from
    PROVE  IsTable(At(rows, from))
BY DEF IsTable, At

\* No action disturbs the other threads and their parts.
LEMMA OthersKept ==
    ASSUME StoreInv, NEW t \in Threads, Step(t)
    PROVE  StoreTypes' /\ OthersStay(t) /\ (pc[t] # "idle" => part' = part /\ stored' = stored /\ runs' = runs)
<1>1. /\ stored \in [Parts -> [run : Nat, size : Nat]]
      /\ index \in [Parts -> Nat] /\ runs \in Nat
      /\ part \in [Threads -> Parts]
      /\ pc \in [Threads -> HasRows \cup {"idle", "readAll", "saveAll"}]
      /\ DOMAIN merged = Threads /\ DOMAIN bounds = Threads /\ DOMAIN all = Threads
      /\ IsTable(blocks) /\ IsTable(views)
    BY DEF StoreInv, StoreTypes
<1>2. \A u \in Threads : u # t /\ pc[u] # "idle" /\ pc[t] # "idle" => part[u] # part[t]
    BY DEF StoreInv, OneEach
<1>3. ASSUME NEW p \in Parts, Begin(t, p)
      PROVE  StoreTypes' /\ OthersStay(t) /\ pc[t] = "idle"
    <2>1. PICK k \in 1..MaxItems : stored' = [stored EXCEPT ![p] = [run |-> runs + 1, size |-> k]]
        BY <1>3 DEF Begin
    <2>2. /\ pc[t] = "idle" /\ pc' = [pc EXCEPT ![t] = "bounds"] /\ runs' = runs + 1
          /\ \A u \in Threads : pc[u] # "idle" => part[u] # p
          /\ part' = [part EXCEPT ![t] = p]
          /\ merged' = [merged EXCEPT ![t] = Rows(p, stored'[p])]
          /\ UNCHANGED <<blocks, views, memory, index, bounds, all>>
        BY <1>3 DEF Begin, Goto
    <2>3. runs + 1 \in Nat /\ k \in Nat
        BY <1>1, <2>1
    <2>4. StoreTypes'
        BY <1>1, <2>1, <2>2, <2>3 DEF StoreTypes, HasRows
    <2>5. OthersStay(t)
        BY <1>1, <2>1, <2>2 DEF OthersStay
    <2> QED
        BY <2>2, <2>4, <2>5
<1>4. ASSUME \E to \in HasRows \cup {"idle", "readAll", "saveAll"} : pc' = [pc EXCEPT ![t] = to],
             pc[t] # "idle", UNCHANGED <<stored, part, runs>>,
             DOMAIN merged' = Threads /\ DOMAIN bounds' = Threads /\ DOMAIN all' = Threads,
             \A u \in Threads \ {t} : merged'[u] = merged[u],
             IsTable(blocks') /\ IsTable(views'), index' \in [Parts -> Nat],
             \A q \in Parts : q # part[t] => index'[q] = index[q] /\ RowsOf(blocks', q) = RowsOf(blocks, q)
      PROVE  StoreTypes' /\ OthersStay(t)
    BY <1>1, <1>2, <1>4 DEF StoreTypes, OthersStay
<1>5. CASE SelectBlocks(t) \/ SelectViews(t)
    BY <1>1, <1>4, <1>5 DEF SelectBlocks, SelectViews, Goto, HasRows, tables
<1>6. CASE ReplaceBlocks(t) \/ DeleteBlocks(t) \/ ShiftBlocks(t) \/ InsertBlocks(t)
    <2>1. IsTable(blocks') /\ \A q : q # part[t] => RowsOf(blocks', q) = RowsOf(blocks, q)
        BY <1>6, BlocksMove
    <2>2. /\ \E to \in HasRows \cup {"idle", "readAll", "saveAll"} : pc' = [pc EXCEPT ![t] = to]
          /\ pc[t] # "idle" /\ UNCHANGED <<stored, part, runs, merged, bounds, all, views, index>>
        BY <1>6 DEF ReplaceBlocks, DeleteBlocks, ShiftBlocks, InsertBlocks, Goto, HasRows
    <2> QED
        BY <1>1, <1>4, <2>1, <2>2
<1>7. CASE ReplaceViews(t)
    <2>1. IsTable(views')
        BY <1>7, ViewsMove
    <2>2. /\ \E to \in HasRows \cup {"idle", "readAll", "saveAll"} : pc' = [pc EXCEPT ![t] = to]
          /\ pc[t] # "idle" /\ UNCHANGED <<stored, part, runs, merged, bounds, all, blocks, index>>
        BY <1>7 DEF ReplaceViews, Goto, HasRows
    <2> QED
        BY <1>1, <1>4, <2>1, <2>2
<1>8. CASE ReplaceIndex(t)
    <2>1. pc[t] \in {"index", "indexThenAll"}
        BY <1>8 DEF ReplaceIndex, Goto
    <2>2. merged[t][1].run \in Nat
        BY <2>1, LastRun DEF HasRows, IsRun
    <2>3. index' \in [Parts -> Nat] /\ \A q \in Parts : q # part[t] => index'[q] = index[q]
        BY <1>1, <1>8, <2>2 DEF ReplaceIndex
    <2>4. /\ \E to \in HasRows \cup {"idle", "readAll", "saveAll"} : pc' = [pc EXCEPT ![t] = to]
          /\ UNCHANGED <<stored, part, runs, all, blocks, views>>
          /\ merged' = [merged EXCEPT ![t] = <<>>] /\ bounds' = [bounds EXCEPT ![t] = NoBounds]
        BY <1>8 DEF ReplaceIndex, Forget, Goto
    <2> QED
        BY <1>1, <1>4, <2>1, <2>3, <2>4
<1>9. CASE ReadAll(t)
    BY <1>1, <1>4, <1>9 DEF ReadAll, Goto, tables
<1>10. CASE SaveAll(t)
    <2>1. IsTable(views')
        BY <1>10, AtIsTable DEF SaveAll
    <2>2. /\ pc' = [pc EXCEPT ![t] = "idle"] /\ pc[t] # "idle" /\ DOMAIN all' = Threads
          /\ UNCHANGED <<stored, part, runs, merged, bounds, blocks, index>>
        BY <1>1, <1>10 DEF SaveAll, Goto
    <2> QED
        BY <1>1, <1>4, <2>1, <2>2
<1>11. CASE Crash(t)
    <2>1. /\ pc' = [pc EXCEPT ![t] = "idle"] /\ pc[t] # "idle"
          /\ UNCHANGED <<stored, part, runs, blocks, views, index>>
          /\ merged' = [merged EXCEPT ![t] = <<>>] /\ bounds' = [bounds EXCEPT ![t] = NoBounds]
          /\ all' = [all EXCEPT ![t] = <<>>]
        BY <1>11 DEF Crash, Forget, tables
    <2> QED
        BY <1>1, <1>4, <2>1
<1>12. CASE ~\E p \in Parts : Begin(t, p)
    <2>1. pc[t] # "idle" /\ UNCHANGED <<part, stored, runs>>
        BY <1>12 DEF Step, SelectBlocks, ReplaceBlocks, DeleteBlocks, ShiftBlocks, InsertBlocks, SelectViews,
              ReplaceViews, ReplaceIndex, ReadAll, SaveAll, Crash, Goto, tables
    <2> QED
        BY <1>5, <1>6, <1>7, <1>8, <1>9, <1>10, <1>11, <1>12, <2>1 DEF Step
<1> QED
    BY <1>3, <1>12

\* What a step does to the part of the thread that takes it.
OwnKept(t) ==
    /\ HandingOf(t)' /\ BlocksFollow(t)'
    /\ \A p \in Parts : p = part'[t] => RunsAreInOrder(p)'

\* Every action keeps the thread's own part in order.
LEMMA OwnPart ==
    ASSUME StoreInv, NEW t \in Threads, Step(t)
    PROVE  OwnKept(t)
<1>0. PICK q \in Parts : q = part[t]
    BY DEF StoreInv, StoreTypes
<1>1. /\ stored \in [Parts -> [run : Nat, size : Nat]]
      /\ index \in [Parts -> Nat] /\ runs \in Nat
      /\ part \in [Threads -> Parts] /\ t \in DOMAIN pc /\ t \in DOMAIN merged
      /\ part[t] \in Parts /\ IsRun(stored[part[t]])
    BY DEF StoreInv, StoreTypes, IsRun
<1>2. HandingOf(t) /\ BlocksFollow(t) /\ \A p \in Parts : RunsAreInOrder(p)
    BY DEF StoreInv
<1>3. ASSUME NEW p \in Parts, Begin(t, p)
      PROVE  OwnKept(t)
    <2>1. PICK k \in 1..MaxItems : stored' = [stored EXCEPT ![p] = [run |-> runs + 1, size |-> k]]
        BY <1>3 DEF Begin
    <2>2. /\ pc'[t] = "bounds" /\ runs' = runs + 1 /\ part'[t] = p /\ merged'[t] = Rows(p, stored'[p])
          /\ UNCHANGED <<blocks, index>>
        BY <1>1, <1>3 DEF Begin, Goto
    <2>3. stored'[p].run = runs + 1 /\ stored'[p].size >= 1
        BY <1>1, <2>1
    <2>4. /\ index[p] \in Nat /\ stored[p].run \in Nat /\ index[p] <= stored[p].run /\ stored[p].run <= runs
          /\ \A x \in RowsOf(blocks, p) : x.run \in Nat /\ index[p] <= x.run /\ x.run <= stored[p].run
        BY <1>1, <1>2 DEF RunsAreInOrder
    <2>5. HandingOf(t)'
        BY <1>1, <2>2, <2>3, <2>4 DEF HandingOf
    <2>6. BlocksFollow(t)'
        BY <2>2 DEF BlocksFollow, Deleted, Inserted
    <2>7. index'[p] < stored'[p].run /\ stored'[p].run <= runs' /\ index'[p] \in Nat
        BY <1>1, <2>2, <2>3, <2>4
    <2>8. \A x \in RowsOf(blocks', p) : x.run \in Nat /\ index'[p] <= x.run /\ x.run <= stored'[p].run
        <3>1. RowsOf(blocks', p) = RowsOf(blocks, p) /\ index'[p] = index[p]
            BY <2>2
        <3> QED
            BY <1>1, <2>3, <2>4, <3>1
    <2>9. RunsAreInOrder(p)'
        BY <1>1, <2>3, <2>7, <2>8 DEF RunsAreInOrder
    <2> QED
        BY <2>2, <2>5, <2>6, <2>9 DEF OwnKept
<1>4. ASSUME UNCHANGED <<stored, part, runs, index, merged>>, RowsOf(blocks', part[t]) = RowsOf(blocks, part[t]),
             pc[t] \in HasRows \/ pc'[t] \notin HasRows,
             pc'[t] \in Deleted => pc[t] \in Deleted,
             pc'[t] \in Inserted => pc[t] \in Inserted
      PROVE  OwnKept(t)
    <2>1. HandingOf(t)' /\ BlocksFollow(t)'
        BY <1>2, <1>4 DEF HandingOf, BlocksFollow
    <2>2. RunsAreInOrder(q)'
        BY <1>0, <1>1, <1>2, <1>4 DEF RunsAreInOrder
    <2> QED
        BY <1>0, <1>4, <2>1, <2>2 DEF OwnKept
<1>5. CASE SelectBlocks(t) \/ SelectViews(t) \/ ReplaceViews(t)
    BY <1>1, <1>4, <1>5 DEF SelectBlocks, SelectViews, ReplaceViews, Goto, tables, HasRows, Deleted, Inserted
<1>6. CASE ReplaceBlocks(t) \/ DeleteBlocks(t) \/ ShiftBlocks(t) \/ InsertBlocks(t)
    <2>1. UNCHANGED <<stored, part, runs, index, merged>>
        BY <1>6 DEF ReplaceBlocks, DeleteBlocks, ShiftBlocks, InsertBlocks
    <2>2. pc[t] \in HasRows
        BY <1>6 DEF ReplaceBlocks, DeleteBlocks, ShiftBlocks, InsertBlocks, Goto, HasRows
    <2>3. /\ merged[t] = Rows(part[t], stored[part[t]])
          /\ stored[part[t]].size >= 1 /\ index[part[t]] < stored[part[t]].run
          /\ index[part[t]] \in Nat /\ stored[part[t]].run \in Nat /\ stored[part[t]].run <= runs
        BY <1>1, <1>2, <2>2 DEF HandingOf, RunsAreInOrder
    <2>4. HandingOf(t)'
        BY <2>1, <2>3 DEF HandingOf
    <2>5. \/ pc[t] = "delete" /\ pc'[t] = "shift" /\ RowsOf(blocks', part[t]) = {}
          \/ pc[t] = "shift" /\ pc'[t] = "insert" /\ RowsOf(blocks', part[t]) = RowsOf(blocks, part[t])
          \/ /\ pc[t] \in {"blocks", "insert"} /\ pc'[t] = "viewBounds"
             /\ RowsOf(blocks', part[t]) = RunRows(part[t], stored[part[t]])
        BY <1>6, BlocksMove
    <2>6. BlocksFollow(t)'
        BY <1>2, <2>1, <2>5 DEF BlocksFollow, Deleted, Inserted
    <2>7. \A x \in RowsOf(blocks', part[t]) :
              x.run \in Nat /\ index[part[t]] <= x.run /\ x.run <= stored[part[t]].run
        <3>1. \A x \in RunRows(part[t], stored[part[t]]) : x.run = stored[part[t]].run
            BY DEF RunRows, Row
        <3> QED
            BY <1>1, <1>2, <2>3, <2>5, <3>1 DEF RunsAreInOrder
    <2>8. RunsAreInOrder(q)'
        BY <1>0, <2>1, <2>3, <2>7 DEF RunsAreInOrder
    <2> QED
        BY <1>0, <2>1, <2>4, <2>6, <2>8 DEF OwnKept
<1>7. CASE ReplaceIndex(t)
    <2>1. /\ pc[t] \in {"index", "indexThenAll"} /\ pc'[t] \in {"idle", "readAll"}
          /\ UNCHANGED <<stored, part, runs, blocks>>
          /\ index' = index \/ index' = [index EXCEPT ![part[t]] = merged[t][1].run]
        BY <1>1, <1>7 DEF ReplaceIndex, Goto
    <2>2. merged[t][1].run = stored[part[t]].run
        BY <2>1, LastRun DEF HasRows
    <2>3. HandingOf(t)' /\ BlocksFollow(t)'
        BY <2>1 DEF HandingOf, BlocksFollow, HasRows, Deleted, Inserted
    <2>4. RowsOf(blocks, part[t]) = RunRows(part[t], stored[part[t]])
        BY <1>2, <2>1 DEF BlocksFollow, Inserted
    <2>5. \A x \in RunRows(part[t], stored[part[t]]) : x.run = stored[part[t]].run
        BY DEF RunRows, Row
    <2>6. index'[part[t]] \in {index[part[t]], stored[part[t]].run}
        BY <1>1, <2>1, <2>2
    <2>7. RunsAreInOrder(q)'
        BY <1>0, <1>1, <1>2, <2>1, <2>4, <2>5, <2>6 DEF RunsAreInOrder, IsRun
    <2> QED
        BY <1>0, <2>1, <2>3, <2>7 DEF OwnKept
<1>8. CASE ReadAll(t)
    BY <1>1, <1>4, <1>8 DEF ReadAll, Goto, tables, HasRows, Deleted, Inserted
<1>9. CASE SaveAll(t)
    BY <1>1, <1>4, <1>9 DEF SaveAll, Goto, HasRows, Deleted, Inserted
<1>10. CASE Crash(t)
    <2>1. pc'[t] = "idle" /\ UNCHANGED <<stored, part, runs, blocks, index>>
        BY <1>1, <1>10 DEF Crash, tables
    <2>2. HandingOf(t)' /\ BlocksFollow(t)'
        BY <2>1 DEF HandingOf, BlocksFollow, HasRows, Deleted, Inserted
    <2>3. RunsAreInOrder(q)'
        BY <1>0, <1>1, <1>2, <2>1 DEF RunsAreInOrder
    <2> QED
        BY <1>0, <2>1, <2>2, <2>3 DEF OwnKept
<1> QED
    BY <1>3, <1>5, <1>6, <1>7, <1>8, <1>9, <1>10 DEF Step

\* At first nothing is stored.
LEMMA StoreInit ==
    ASSUME StoreConstants, Init
    PROVE  StoreInv
<1>1. \A p \in Parts : stored[p] = Nothing /\ index[p] = 0
    BY DEF Init
<1>2. \A t \in Threads : pc[t] = "idle"
    BY DEF Init
<1>3. (CHOOSE p \in Parts : TRUE) \in Parts
    BY DEF StoreConstants
<1>4. StoreTypes
    BY <1>3 DEF Init, StoreTypes, Nothing, IsTable
<1>5. \A p : RowsOf(blocks, p) = {}
    BY DEF Init, RowsOf, Of
<1>6. \A p \in Parts : RunRows(p, stored[p]) = {}
    BY <1>1 DEF RunRows, Nothing
<1>7. ASSUME NEW p \in Parts PROVE RunsAreInOrder(p)
    <2>1. index[p] = 0 /\ stored[p].run = 0 /\ runs = 0
        BY <1>1 DEF Nothing, Init
    <2> QED
        BY <1>5, <1>6, <2>1 DEF RunsAreInOrder
<1>8. OneEach /\ \A t \in Threads : HandingOf(t) /\ BlocksFollow(t)
    BY <1>2 DEF OneEach, HandingOf, BlocksFollow, HasRows, Deleted, Inserted
<1> QED
    BY <1>4, <1>7, <1>8 DEF StoreInv

\* The parts of the invariant are kept: the thread's own, and those of the others.
LEMMA StoreStep ==
    ASSUME StoreInv, [Next]_vars
    PROVE  StoreInv'
<1>1. CASE UNCHANGED vars
    BY <1>1 DEF vars, tables, locals, StoreInv, StoreTypes, OneEach, HandingOf, BlocksFollow, RunsAreInOrder
<1>2. ASSUME NEW t \in Threads, Step(t)
      PROVE  StoreInv'
    <2>1. StoreTypes' /\ OthersStay(t)
        BY <1>2, OthersKept
    <2>2. OwnKept(t) /\ part'[t] \in Parts
        BY <1>2, <2>1, OwnPart DEF StoreTypes
    <2>3. OneEach'
        <3>1. \A u \in Threads \ {t} : pc'[u] = pc[u] /\ part'[u] = part[u]
                                      /\ (pc[u] # "idle" => part[u] # part'[t])
            BY <2>1 DEF OthersStay
        <3>2. OneEach
            BY DEF StoreInv
        <3>3. ASSUME NEW u \in Threads, NEW v \in Threads, u # v, pc'[u] # "idle", pc'[v] # "idle"
              PROVE  part'[u] # part'[v]
            <4>1. CASE u = t
                BY <3>1, <3>3, <4>1
            <4>2. CASE v = t
                BY <3>1, <3>3, <4>2
            <4>3. CASE u # t /\ v # t
                BY <3>1, <3>2, <3>3, <4>3 DEF OneEach
            <4> QED
                BY <4>1, <4>2, <4>3
        <3> QED
            BY <3>3 DEF OneEach
    <2>4. ASSUME NEW u \in Threads PROVE HandingOf(u)' /\ BlocksFollow(u)'
        <3>1. CASE u = t
            BY <2>2, <3>1 DEF OwnKept
        <3>2. CASE u # t
            <4>0. part[u] \in Parts
                BY DEF StoreInv, StoreTypes
            <4>1. pc'[u] = pc[u] /\ part'[u] = part[u] /\ merged'[u] = merged[u] /\ part[u] \in Parts
                BY <2>1, <3>2, <4>0 DEF OthersStay
            <4>2. CASE pc[u] = "idle"
                BY <4>1, <4>2 DEF HandingOf, BlocksFollow, HasRows, Deleted, Inserted
            <4>3. CASE pc[u] # "idle"
                <5>1. /\ stored'[part[u]] = stored[part[u]] /\ index'[part[u]] = index[part[u]]
                      /\ RowsOf(blocks', part[u]) = RowsOf(blocks, part[u])
                    BY <2>1, <3>2, <4>1, <4>3 DEF OthersStay
                <5>2. HandingOf(u) /\ BlocksFollow(u)
                    BY DEF StoreInv
                <5> QED
                    BY <4>1, <5>1, <5>2 DEF HandingOf, BlocksFollow
            <4> QED
                BY <4>2, <4>3
        <3> QED
            BY <3>1, <3>2
    <2>5. ASSUME NEW p \in Parts PROVE RunsAreInOrder(p)'
        <3>1. CASE p = part'[t]
            BY <2>2, <3>1 DEF OwnKept
        <3>2. CASE p # part'[t]
            <4>1. /\ stored'[p] = stored[p] /\ index'[p] = index[p] /\ RowsOf(blocks', p) = RowsOf(blocks, p)
                  /\ runs <= runs' /\ runs \in Nat /\ runs' \in Nat /\ stored[p].run \in Nat
                BY <2>1, <3>2 DEF OthersStay, StoreInv, StoreTypes
            <4>2. RunsAreInOrder(p)
                BY DEF StoreInv
            <4> QED
                BY <4>1, <4>2 DEF RunsAreInOrder
        <3> QED
            BY <3>1, <3>2
    <2> QED
        BY <2>1, <2>3, <2>4, <2>5 DEF StoreInv
<1> QED
    BY <1>1, <1>2 DEF Next

\* So the invariant holds, for any number of threads and on both databases.
LEMMA StoreInvariant ==
    ASSUME StoreConstants
    PROVE  Spec => []StoreInv
<1>1. Init => StoreInv
    BY StoreInit
<1>2. StoreInv /\ [Next]_vars => StoreInv'
    BY StoreStep
<1> QED
    BY <1>1, <1>2, PTL DEF Spec

\* The vector index never has chunks of a run that the parent's blocks do not have yet,
\* whichever parts are refreshed at once and wherever a refresh dies (stores.py,
\* pgvector replace_chunks_by_prefix after replace_blocks_by_prefix).
THEOREM StoreIndexNotAhead ==
    ASSUME StoreConstants
    PROVE  Spec => []IndexIsNotAhead
<1>1. StoreInv => IndexIsNotAhead
    <2> SUFFICES ASSUME StoreInv, NEW p \in Parts, NEW r \in Of(blocks, p) PROVE r.row.run >= index[p]
        BY DEF IndexIsNotAhead
    <2>1. r.row \in RowsOf(blocks, p) /\ index[p] \in Nat
        BY DEF RowsOf, StoreInv, StoreTypes
    <2> QED
        BY <2>1 DEF StoreInv, RunsAreInOrder
<1> QED
    BY <1>1, StoreInvariant, PTL

-----------------------------------------------------------------------------
(* Positions. *)

\* A set of numbers below a bound has a greatest one.
LEMMA Greatest ==
    ASSUME NEW S \in SUBSET Nat, S # {}, NEW m \in Nat, \A x \in S : x < m
    PROVE  Max(S) \in S /\ \A x \in S : x <= Max(S)
<1> DEFINE U == {k \in Nat : \A x \in S : x <= k}
<1>1. m \in U
    OBVIOUS
<1>2. PICK k \in U : \A y \in U : ~(<<y, k>> \in OpToRel(<, Nat))
    <2>1. U \subseteq Nat /\ U # {}
        BY <1>1
    <2> QED
        BY <2>1, NatLessThanWellFounded, WFMin
<1>3. \A y \in U : ~(y < k)
    BY <1>2 DEF OpToRel
<1>4. k \in S
    <2> SUFFICES ASSUME k \notin S PROVE FALSE
        OBVIOUS
    <2>1. \A x \in S : x \in Nat /\ x <= k /\ x # k
        OBVIOUS
    <2>2. k \in Nat /\ k # 0
        <3>1. PICK x \in S : TRUE
            OBVIOUS
        <3> QED
            BY <2>1, <3>1
    <2>3. k - 1 \in U
        BY <2>1, <2>2
    <2> QED
        BY <1>3, <2>3
<1>5. k \in S /\ \A y \in S : k >= y
    BY <1>4
<1>6. Max(S) \in S /\ \A y \in S : Max(S) >= y
    BY <1>5 DEF Max
<1> QED
    BY <1>6

\* The first free position.
LEMMA EndIsFree ==
    ASSUME NEW T, Together(T)
    PROVE  End(T) \in Nat /\ \A r \in T : r.pos < End(T)
<1>1. CASE T = {}
    BY <1>1 DEF End
<1>2. CASE T # {}
    <2>1. Positions(T) \in SUBSET Nat /\ Positions(T) # {}
        BY <1>2 DEF Together, Positions
    <2>2. PICK m \in Nat : \A r \in T : r.pos < m
        BY DEF Together
    <2>3. \A x \in Positions(T) : x < m
        BY <2>2 DEF Positions
    <2>4. Max(Positions(T)) \in Positions(T) /\ \A x \in Positions(T) : x <= Max(Positions(T))
        BY <2>1, <2>3, Greatest
    <2>5. End(T) = Max(Positions(T)) + 1
        BY <1>2 DEF End
    <2>6. \A r \in T : r.pos \in Positions(T)
        BY DEF Positions
    <2> QED
        BY <2>1, <2>4, <2>5, <2>6
<1> QED
    BY <1>1, <1>2

\* The rows of a part are its first row, and those that follow it.
LEMMA Stretch ==
    ASSUME NEW T, Together(T), NEW p \in Parts, Of(T, p) # {}
    PROVE  \E k \in Nat \ {0} : \E f \in Of(T, p) :
               /\ f.row.n = 1 /\ f.pos \in Nat
               /\ \A r \in Of(T, p) : r.row.n \in 1..k /\ r.pos = f.pos + r.row.n - 1
               /\ \A n \in 1..k : \E r \in Of(T, p) : r.row.n = n
<1>1. PICK k \in Nat : {x.n : x \in RowsOf(T, p)} = 1..k
    BY DEF Together, Numbered
<1>2. \A r \in Of(T, p) : r.row.n \in 1..k
    BY <1>1 DEF RowsOf
<1>3. \A n \in 1..k : \E r \in Of(T, p) : r.row.n = n
    BY <1>1 DEF RowsOf
<1>4. k # 0
    BY <1>2
<1>5. PICK f \in Of(T, p) : f.row.n = 1
    BY <1>3, <1>4
<1>6. \A r \in Of(T, p) : r \in T /\ r.row.part = p /\ r.pos \in Nat
    BY DEF Of, Together
<1>7. \A r \in Of(T, p) : r.pos - f.pos = r.row.n - 1
    BY <1>5, <1>6 DEF Together
<1>8. ASSUME NEW r \in Of(T, p) PROVE r.pos = f.pos + r.row.n - 1
    BY <1>2, <1>6, <1>7
<1> QED
    BY <1>2, <1>3, <1>4, <1>5, <1>6, <1>8

\* What the SELECT returns for a part that has rows.
LEMMA BoundsAreExact ==
    ASSUME NEW T, Together(T), NEW p \in Parts, Of(T, p) # {}
    PROVE  LET b == Bounds(T, p) IN
           /\ b.at \in Nat /\ b.max \in Nat /\ b.at <= b.max /\ b.count = b.max - b.at + 1
           /\ \A r \in Of(T, p) : r.pos \in b.at..b.max
           /\ \A i \in b.at..b.max : \E r \in Of(T, p) : r.pos = i
<1> DEFINE U == Of(T, p)
<1>1. PICK k \in Nat \ {0}, f \in U :
               /\ f.row.n = 1 /\ f.pos \in Nat
               /\ \A r \in U : r.row.n \in 1..k /\ r.pos = f.pos + r.row.n - 1
               /\ \A n \in 1..k : \E r \in U : r.row.n = n
    BY Stretch
<1>2. PICK at \in Nat : at = f.pos
    BY <1>1
<1>3. /\ \A r \in U : r.row.n \in 1..k /\ r.pos = at + r.row.n - 1
      /\ \A n \in 1..k : \E r \in U : r.row.n = n
      /\ U # {} /\ \A r, s \in U : r.pos = s.pos => r = s
    BY <1>1, <1>2 DEF Together, Of
<1>4. Bounds(T, p) = [min |-> Min(Positions(U)), max |-> Max(Positions(U)),
                      count |-> Cardinality(U), at |-> Min(Positions(U))]
    BY <1>3 DEF Bounds, BoundsOf
<1> HIDE DEF U
<1>5. Positions(U) = at..(at + k - 1)
    <2>1. \A x \in Positions(U) : x \in at..(at + k - 1)
        BY <1>3 DEF Positions
    <2>2. ASSUME NEW x \in at..(at + k - 1) PROVE x \in Positions(U)
        <3>1. x - at + 1 \in 1..k
            BY <2>2
        <3>2. PICK r \in U : r.row.n = x - at + 1
            BY <1>3, <3>1
        <3>3. r.pos = x
            BY <1>3, <2>2, <3>2
        <3> QED
            BY <3>3 DEF Positions
    <2> QED
        BY <2>1, <2>2
<1>6. Min(Positions(U)) = at
    <2>1. at \in Positions(U) /\ \A y \in Positions(U) : y \in Nat /\ at <= y
        BY <1>5
    <2>2. \A x \in Positions(U) : (\A y \in Positions(U) : x <= y) => x = at
        BY <2>1
    <2> QED
        BY <2>1, <2>2 DEF Min
<1>7. Max(Positions(U)) = at + k - 1
    <2>1. at + k - 1 \in Positions(U) /\ \A y \in Positions(U) : y \in Nat /\ at + k - 1 >= y
        BY <1>5
    <2>2. \A x \in Positions(U) : (\A y \in Positions(U) : x >= y) => x = at + k - 1
        BY <2>1
    <2> QED
        BY <2>1, <2>2 DEF Max
<1>8. Cardinality(U) = k
    <2> DEFINE g == [n \in 1..k |-> CHOOSE r \in U : r.row.n = n]
    <2>1. \A n \in 1..k : g[n] \in U /\ g[n].row.n = n
        BY <1>3
    <2>2. \A r \in U : r.row.n \in 1..k /\ g[r.row.n] = r
        <3> SUFFICES ASSUME NEW r \in U PROVE r.row.n \in 1..k /\ g[r.row.n] = r
            OBVIOUS
        <3>1. r.row.n \in 1..k
            BY <1>3
        <3>2. g[r.row.n] \in U /\ g[r.row.n].row.n = r.row.n
            BY <2>1, <3>1
        <3>3. g[r.row.n].pos = r.pos
            BY <1>3, <3>2
        <3> QED
            BY <1>3, <3>1, <3>2, <3>3
    <2>3. g \in [1..k -> U]
        BY <2>1
    <2> HIDE DEF g
    <2>4. g \in Injection(1..k, U)
        BY <2>1, <2>3 DEF Injection, IsInjective
    <2>5. g \in Surjection(1..k, U)
        BY <2>2, <2>3 DEF Surjection
    <2>6. ExistsBijection(1..k, U)
        BY <2>4, <2>5 DEF ExistsBijection, Bijection
    <2>7. IsFiniteSet(1..k) /\ Cardinality(1..k) = k
        BY FS_Interval
    <2> QED
        BY <2>6, <2>7, FS_Bijection
<1>9. \A r \in U : r.pos \in at..(at + k - 1)
    BY <1>3
<1>10. \A i \in at..(at + k - 1) : \E r \in U : r.pos = i
    BY <1>5 DEF Positions
<1>11. /\ Bounds(T, p).at = at /\ Bounds(T, p).max = at + k - 1 /\ Bounds(T, p).count = k
    BY <1>4, <1>6, <1>7, <1>8
<1>12. at + k - 1 \in Nat /\ at <= at + k - 1 /\ k = (at + k - 1) - at + 1
    OBVIOUS
<1> QED
    BY <1>9, <1>10, <1>11, <1>12 DEF U

\* What the DELETE leaves: the part's rows stood where nobody else's do.
LEMMA DeletingLeavesHole ==
    ASSUME NEW T, Together(T), NEW p \in Parts
    PROVE  LET U == T \ Of(T, p) IN Together(U) /\ Hole(U, Bounds(T, p))
<1>0. IsTable(T)
    BY DEF Together
<1>1. PICK U : U = T \ Of(T, p)
    OBVIOUS
<1>2. /\ IsTable(U) /\ RowsOf(U, p) = {}
      /\ \A q : q # p => RowsOf(U, q) = RowsOf(T, q)
    BY <1>0, <1>1, DeleteKeeps
<1>3. Together(U)
    <2>1. ASSUME NEW q \in Parts PROVE Numbered(U, q)
        <3>1. CASE q = p
            <4>1. {x.n : x \in RowsOf(U, q)} = {} /\ 1..0 = {}
                BY <1>2, <3>1
            <4> QED
                BY <4>1 DEF Numbered
        <3>2. CASE q # p
            BY <1>2, <3>2 DEF Together, Numbered
        <3> QED
            BY <3>1, <3>2
    <2>2. U \subseteq T
        BY <1>1
    <2> QED
        BY <1>2, <2>1, <2>2 DEF Together
<1>4. Hole(U, Bounds(T, p))
    <2>1. CASE Of(T, p) = {}
        <3>1. Bounds(T, p).max = -1 /\ Bounds(T, p).at = End(T)
            BY <2>1 DEF Bounds, BoundsOf, NoBounds
        <3> QED
            BY <1>1, <3>1, EndIsFree DEF Hole
    <2>2. CASE Of(T, p) # {}
        <3>1. PICK b : b = Bounds(T, p)
            OBVIOUS
        <3>2. /\ b.at \in Nat /\ b.max \in Nat /\ b.at <= b.max /\ b.count = b.max - b.at + 1
              /\ \A i \in b.at..b.max : \E r \in Of(T, p) : r.pos = i
            BY <2>2, <3>1, BoundsAreExact
        <3>3. ASSUME NEW r \in U PROVE r.pos \notin b.at..b.max
            <4>1. \A s \in Of(T, p) : s \in T /\ s # r /\ s.pos # r.pos
                BY <1>1 DEF Together, Of
            <4> QED
                BY <3>2, <4>1
        <3> QED
            BY <3>1, <3>2, <3>3 DEF Hole
    <2> QED
        BY <2>1, <2>2
<1> QED
    BY <1>1, <1>3, <1>4

\* What the UPDATE leaves: room for the new rows.  No part reaches over the hole.
LEMMA ShiftingMakesRoom ==
    ASSUME NEW T, Together(T), NEW b, Hole(T, b), NEW size \in Nat, size >= 1
    PROVE  LET U == IF b.max = -1 THEN T ELSE Shift(T, b.max, size - b.count) IN
           Together(U) /\ Room(U, b.at, size)
<1>1. CASE b.max = -1
    <2>1. b.at \in Nat /\ \A r \in T : r.pos < b.at /\ r.pos \in Nat
        BY <1>1 DEF Hole, Together
    <2>2. Room(T, b.at, size)
        BY <2>1 DEF Room
    <2> QED
        BY <1>1, <2>2
<1>2. CASE b.max # -1
    <2>1. PICK at \in Nat, max \in Nat : at = b.at /\ max = b.max
        BY <1>2 DEF Hole
    <2>2. /\ at <= max /\ b.count = max - at + 1
          /\ \A r \in T : r.pos \in Nat /\ r.pos \notin at..max
        BY <1>2, <2>1 DEF Hole, Together
    <2>3. PICK delta \in Int : delta = size - b.count /\ delta = size - (max - at + 1)
        BY <2>2
    <2>4. PICK U : U = Shift(T, max, delta)
        OBVIOUS
    <2> DEFINE M(r) == IF r.pos > max THEN [r EXCEPT !.pos = @ + delta] ELSE r
    <2>5. U = {M(r) : r \in T}
        BY <2>4 DEF Shift
    <2>6. ASSUME NEW r \in T
          PROVE  /\ M(r).row = r.row
                 /\ \/ r.pos < at /\ M(r).pos = r.pos
                    \/ r.pos > max /\ M(r).pos = r.pos + delta
        <3>1. r = [row |-> r.row, pos |-> r.pos]
            BY DEF Together, IsTable
        <3>2. CASE r.pos > max
            <4>1. M(r) = [row |-> r.row, pos |-> r.pos + delta]
                BY <3>1, <3>2
            <4> QED
                BY <3>2, <4>1
        <3>3. CASE ~(r.pos > max)
            BY <2>2, <3>3
        <3> QED
            BY <3>2, <3>3
    <2> HIDE DEF M
    <2>7. IsTable(U) /\ \A p : RowsOf(U, p) = RowsOf(T, p)
        BY <2>4, ShiftKeeps DEF Together
    <2>8. ASSUME NEW u \in U
          PROVE  u.pos \in Nat /\ u.row.part \in Parts /\ u.pos \notin at..(at + size - 1)
        <3>1. PICK r \in T : u = M(r)
            BY <2>5
        <3>2. r.pos \in Nat /\ r.row.part \in Parts
            BY DEF Together
        <3>3. u.row = r.row
            BY <2>6, <3>1
        <3>4. u.pos \in Nat /\ u.pos \notin at..(at + size - 1)
            BY <2>2, <2>3, <2>6, <3>1, <3>2
        <3> QED
            BY <3>2, <3>3, <3>4
    <2>9. \E m \in Nat : \A u \in U : u.pos < m
        <3>1. PICK m \in Nat : \A r \in T : r.pos < m
            BY DEF Together
        <3>2. ASSUME NEW u \in U PROVE u.pos < m + size
            <4>1. PICK r \in T : u = M(r)
                BY <2>5
            <4>2. r.pos \in Nat /\ r.pos < m
                BY <3>1 DEF Together
            <4> QED
                BY <2>2, <2>3, <2>6, <4>1, <4>2
        <3> QED
            BY <3>2
    <2>10. ASSUME NEW u \in U, NEW v \in U, u.pos = v.pos
           PROVE  u = v
        <3>1. PICK r \in T : u = M(r)
            BY <2>5
        <3>2. PICK s \in T : v = M(s)
            BY <2>5
        <3>3. r.pos \in Nat /\ s.pos \in Nat
            BY DEF Together
        <3>4. r.pos = s.pos
            BY <2>2, <2>3, <2>6, <2>10, <3>1, <3>2, <3>3
        <3>5. r = s
            BY <3>4 DEF Together
        <3> QED
            BY <3>1, <3>2, <3>5
    <2>11. ASSUME NEW r \in T, NEW s \in T, r.row.part = s.row.part, r.pos < at, s.pos > max
           PROVE  FALSE
        <3>1. PICK p \in Parts : p = r.row.part
            BY DEF Together
        <3>2. r \in Of(T, p) /\ s \in Of(T, p)
            BY <2>11, <3>1 DEF Of
        <3>3. PICK k \in Nat \ {0}, f \in Of(T, p) :
                   /\ f.pos \in Nat
                   /\ \A x \in Of(T, p) : x.row.n \in 1..k /\ x.pos = f.pos + x.row.n - 1
                   /\ \A n \in 1..k : \E x \in Of(T, p) : x.row.n = n
            BY <3>2, Stretch
        <3>4. /\ r.row.n \in 1..k /\ r.pos = f.pos + r.row.n - 1
              /\ s.row.n \in 1..k /\ s.pos = f.pos + s.row.n - 1
            BY <3>2, <3>3
        <3>5. max - f.pos + 1 \in 1..k
            BY <2>2, <2>11, <3>3, <3>4
        <3>6. PICK x \in Of(T, p) : x.row.n = max - f.pos + 1
            BY <3>3, <3>5
        <3>7. x.pos = max /\ x \in T
            BY <3>3, <3>6 DEF Of
        <3> QED
            BY <2>2, <3>7
    <2>12. ASSUME NEW u \in U, NEW v \in U, u.row.part = v.row.part
           PROVE  u.pos - v.pos = u.row.n - v.row.n
        <3>1. PICK r \in T : u = M(r)
            BY <2>5
        <3>2. PICK s \in T : v = M(s)
            BY <2>5
        <3>3. r.pos \in Nat /\ s.pos \in Nat /\ u.row = r.row /\ v.row = s.row
            BY <2>6, <3>1, <3>2 DEF Together
        <3>4. r.pos - s.pos = r.row.n - s.row.n
            BY <2>12, <3>3 DEF Together
        <3>5. u.pos - v.pos = r.pos - s.pos
            BY <2>3, <2>6, <2>11, <2>12, <3>1, <3>2, <3>3
        <3> QED
            BY <3>3, <3>4, <3>5
    <2>13. \A p \in Parts : Numbered(U, p)
        BY <2>7 DEF Together, Numbered
    <2>14. Together(U)
        BY <2>7, <2>8, <2>9, <2>10, <2>12, <2>13 DEF Together
    <2>15. Room(U, b.at, size)
        BY <2>1, <2>8 DEF Room
    <2>16. U = Shift(T, b.max, size - b.count)
        BY <2>1, <2>3, <2>4
    <2> QED
        BY <1>2, <2>14, <2>15, <2>16
<1> QED
    BY <1>1, <1>2

\* What the INSERT leaves.
LEMMA InsertingKeepsTogether ==
    ASSUME NEW T, Together(T), NEW p \in Parts, RowsOf(T, p) = {},
           NEW s, IsRun(s), NEW at, Room(T, at, s.size)
    PROVE  Together(T \cup At(Rows(p, s), at))
<1>1. PICK A : A = At(Rows(p, s), at)
    OBVIOUS
<1>2. PICK U : U = T \cup A
    OBVIOUS
<1>3. /\ IsTable(U) /\ RowsOf(U, p) = RunRows(p, s)
      /\ \A q : q # p => RowsOf(U, q) = RowsOf(T, q)
    BY <1>1, <1>2, InsertKeeps DEF Together
<1>4. /\ at \in Nat /\ s.size \in Nat
      /\ \A r \in T : r.pos \in Nat /\ r.pos \notin at..(at + s.size - 1) /\ r.row.part # p
    BY DEF Room, IsRun, Together, RowsOf, Of
<1>5. ASSUME NEW a \in A
      PROVE  \E n \in 1..s.size : a = [row |-> Row(p, s.run, n), pos |-> at + n - 1]
    BY <1>1, AtRows
<1>6. ASSUME NEW a \in A
      PROVE  /\ a.row.n \in 1..s.size /\ a.pos = at + a.row.n - 1 /\ a.row.part = p
             /\ a = [row |-> Row(p, s.run, a.row.n), pos |-> at + a.row.n - 1]
    BY <1>5 DEF Row
<1>7. \A u \in U : u.pos \in Nat /\ u.row.part \in Parts
    BY <1>2, <1>4, <1>6 DEF Together
<1>8. \E m \in Nat : \A u \in U : u.pos < m
    <2>1. PICK m \in Nat : \A r \in T : r.pos < m
        BY DEF Together
    <2>2. \A u \in U : u.pos < m + at + s.size
        BY <1>2, <1>4, <1>6, <2>1
    <2> QED
        BY <1>4, <2>2
<1>9. ASSUME NEW u \in U, NEW v \in U, u.pos = v.pos
      PROVE  u = v
    <2>1. CASE u \in T /\ v \in T
        BY <1>9, <2>1 DEF Together
    <2>2. CASE u \in A /\ v \in A
        <3>1. u.row.n = v.row.n
            BY <1>4, <1>6, <1>9, <2>2
        <3> QED
            BY <1>6, <2>2, <3>1
    <2>3. \A a \in A, r \in T : a.pos # r.pos
        BY <1>4, <1>6
    <2> QED
        BY <1>2, <1>9, <2>1, <2>2, <2>3
<1>10. ASSUME NEW u \in U, NEW v \in U, u.row.part = v.row.part
       PROVE  u.pos - v.pos = u.row.n - v.row.n
    <2>1. CASE u \in T /\ v \in T
        BY <1>10, <2>1 DEF Together
    <2>2. CASE u \in A /\ v \in A
        BY <1>4, <1>6, <2>2
    <2> QED
        BY <1>2, <1>4, <1>6, <1>10, <2>1, <2>2
<1>11. ASSUME NEW q \in Parts PROVE Numbered(U, q)
    <2>1. CASE q = p
        <3>1. \A n \in 1..s.size : Row(p, s.run, n) \in RunRows(p, s) /\ Row(p, s.run, n).n = n
            BY DEF RunRows, Row
        <3>2. \A x \in RunRows(p, s) : x.n \in 1..s.size
            BY <3>1 DEF RunRows
        <3>3. {x.n : x \in RunRows(p, s)} = 1..s.size
            BY <3>1, <3>2
        <3> QED
            BY <1>3, <1>4, <2>1, <3>3 DEF Numbered
    <2>2. CASE q # p
        BY <1>3, <2>2 DEF Together, Numbered
    <2> QED
        BY <2>1, <2>2
<1>12. Together(U)
    BY <1>3, <1>7, <1>8, <1>9, <1>10, <1>11 DEF Together
<1> QED
    BY <1>1, <1>2, <1>12

\* At first there are no rows to be apart.
LEMMA TogetherInit ==
    ASSUME Init
    PROVE  TogetherInv
<1>1. blocks = {} /\ \A t \in Threads : pc[t] = "idle"
    BY DEF Init
<1>2. \A p \in Parts : Numbered(blocks, p)
    <2>1. \A p : {x.n : x \in RowsOf(blocks, p)} = {} /\ 1..0 = {}
        BY <1>1 DEF RowsOf, Of
    <2> QED
        BY <2>1 DEF Numbered
<1>3. \E m \in Nat : \A r \in blocks : r.pos < m
    BY <1>1
<1> QED
    BY <1>1, <1>2, <1>3 DEF TogetherInv, Together, PlaceKept, IsTable

\* While one refresh runs, what it has read of the positions stays true.
LEMMA TogetherStep ==
    ASSUME Alone, StoreInv, TogetherInv, NEW t \in Threads, Step(t)
    PROVE  TogetherInv'
<1>1. t \in DOMAIN pc /\ t \in DOMAIN bounds /\ part[t] \in Parts
    BY DEF StoreInv, StoreTypes
<1>2. Together(blocks) /\ PlaceKept(t)
    BY DEF TogetherInv
<1>3. SUFFICES Together(blocks') /\ PlaceKept(t)'
    BY <1>3 DEF TogetherInv, Alone
<1>4. ASSUME blocks' = blocks, pc'[t] \notin {"blocks", "delete", "shift", "insert"}
      PROVE  Together(blocks') /\ PlaceKept(t)'
    BY <1>2, <1>4 DEF PlaceKept
<1>5. CASE \E p \in Parts : Begin(t, p)
    BY <1>1, <1>4, <1>5 DEF Begin, Goto
<1>6. CASE SelectBlocks(t)
    <2>1. pc'[t] \in {"delete", "blocks"} /\ bounds'[t] = Bounds(blocks, part[t]) /\ UNCHANGED <<blocks, part>>
        BY <1>1, <1>6 DEF SelectBlocks, Goto, tables
    <2> QED
        BY <1>2, <2>1 DEF PlaceKept
<1>7. CASE ReplaceBlocks(t) \/ DeleteBlocks(t) \/ ShiftBlocks(t) \/ InsertBlocks(t)
    <2>1. pc[t] \in {"blocks", "delete", "shift", "insert"} /\ UNCHANGED <<bounds, part, stored>>
        BY <1>7 DEF ReplaceBlocks, DeleteBlocks, ShiftBlocks, InsertBlocks, Goto
    <2>2. PICK p, s, b, size : p \in Parts /\ p = part[t] /\ s = stored[p] /\ b = bounds[t] /\ size = s.size
        BY <1>1
    <2>3. IsRun(s) /\ size \in Nat /\ size >= 1 /\ merged[t] = Rows(p, s) /\ Len(merged[t]) = size
        BY <2>1, <2>2, LastRun DEF HasRows, IsRun
    <2>4. CASE ReplaceBlocks(t)
        <3>1. pc[t] = "blocks" /\ pc'[t] = "viewBounds" /\ blocks' = BlocksReplaced(blocks, p, Rows(p, s), b)
            BY <1>1, <2>2, <2>3, <2>4 DEF ReplaceBlocks, Goto
        <3>2. b = Bounds(blocks, p)
            BY <1>2, <2>2, <3>1 DEF PlaceKept
        <3>3. PICK kept : kept = blocks \ Of(blocks, p)
            OBVIOUS
        <3>4. /\ IsTable(kept) /\ RowsOf(kept, p) = {}
              /\ Together(kept) /\ Hole(kept, b)
            <4>1. IsTable(kept) /\ RowsOf(kept, p) = {}
                BY <1>2, <3>3, DeleteKeeps DEF Together
            <4> QED
                BY <1>2, <2>2, <3>2, <3>3, <4>1, DeletingLeavesHole
        <3>5. PICK moved : moved = IF b.max = -1 THEN kept ELSE Shift(kept, b.max, size - b.count)
            OBVIOUS
        <3>6. Together(moved) /\ Room(moved, b.at, size)
            BY <2>3, <3>4, <3>5, ShiftingMakesRoom
        <3>7. RowsOf(moved, p) = {}
            BY <3>4, <3>5, ShiftKeeps
        <3>8. blocks' = moved \cup At(Rows(p, s), b.at)
            BY <2>3, <3>1, <3>3, <3>5 DEF BlocksReplaced
        <3>9. Together(moved \cup At(Rows(p, s), b.at))
            BY <2>2, <2>3, <3>6, <3>7, InsertingKeepsTogether
        <3> QED
            BY <3>1, <3>8, <3>9 DEF PlaceKept
    <2>5. CASE DeleteBlocks(t)
        <3>1. pc[t] = "delete" /\ pc'[t] = "shift" /\ blocks' = blocks \ Of(blocks, p) /\ bounds'[t] = b
            BY <1>1, <2>1, <2>2, <2>5 DEF DeleteBlocks, Goto
        <3>2. b = Bounds(blocks, p)
            BY <1>2, <2>2, <3>1 DEF PlaceKept
        <3>3. Together(blocks \ Of(blocks, p)) /\ Hole(blocks \ Of(blocks, p), b)
            BY <1>2, <2>2, <3>2, DeletingLeavesHole
        <3> QED
            BY <3>1, <3>3 DEF PlaceKept
    <2>6. CASE ShiftBlocks(t)
        <3>1. /\ pc[t] = "shift" /\ pc'[t] = "insert" /\ bounds'[t] = b /\ part'[t] = p /\ stored'[p].size = size
              /\ blocks' = IF b.max = -1 THEN blocks ELSE Shift(blocks, b.max, size - b.count)
            BY <1>1, <2>1, <2>2, <2>3, <2>6 DEF ShiftBlocks, Goto
        <3>2. Hole(blocks, b)
            BY <1>2, <2>2, <3>1 DEF PlaceKept
        <3>3. PICK U : U = IF b.max = -1 THEN blocks ELSE Shift(blocks, b.max, size - b.count)
            OBVIOUS
        <3>4. Together(U) /\ Room(U, b.at, size)
            BY <1>2, <2>3, <3>2, <3>3, ShiftingMakesRoom
        <3>5. blocks' = U
            BY <3>1, <3>3
        <3> QED
            BY <3>1, <3>4, <3>5 DEF PlaceKept
    <2>7. CASE InsertBlocks(t)
        <3>1. pc[t] = "insert" /\ pc'[t] = "viewBounds" /\ blocks' = blocks \cup At(Rows(p, s), b.at)
            BY <1>1, <2>2, <2>3, <2>7 DEF InsertBlocks, Goto
        <3>2. Room(blocks, b.at, s.size)
            BY <1>2, <2>2, <3>1 DEF PlaceKept
        <3>3. RowsOf(blocks, p) = {}
            BY <2>2, <3>1 DEF StoreInv, BlocksFollow, Deleted
        <3>4. Together(blocks \cup At(Rows(p, s), b.at))
            BY <1>2, <2>2, <2>3, <3>2, <3>3, InsertingKeepsTogether
        <3> QED
            BY <3>1, <3>4 DEF PlaceKept
    <2> QED
        BY <1>7, <2>4, <2>5, <2>6, <2>7
<1>8. CASE SelectViews(t) \/ ReplaceViews(t) \/ ReplaceIndex(t) \/ ReadAll(t) \/ SaveAll(t) \/ Crash(t)
    BY <1>1, <1>4, <1>8 DEF SelectViews, ReplaceViews, ReplaceIndex, ReadAll, SaveAll, Crash, Goto, tables
<1> QED
    BY <1>5, <1>6, <1>7, <1>8 DEF Step

\* Where refreshes do not overlap, positions are always right.
LEMMA TogetherInvariant ==
    ASSUME StoreConstants, Alone
    PROVE  Spec => [](StoreInv /\ TogetherInv)
<1>1. Init => StoreInv /\ TogetherInv
    BY StoreInit, TogetherInit
<1>2. StoreInv /\ TogetherInv /\ [Next]_vars => StoreInv' /\ TogetherInv'
    <2>1. CASE UNCHANGED vars
        BY <2>1, StoreStep DEF vars, tables, locals, TogetherInv, PlaceKept
    <2>2. CASE Next
        BY <2>2, StoreStep, TogetherStep DEF Next
    <2> QED
        BY <2>1, <2>2
<1> QED
    BY <1>1, <1>2, PTL DEF Spec

\* Every part of a document has a stretch of the parent's blocks to itself, in the order
\* of its last run, however often parts have grown or shrunk, on both databases and
\* wherever a refresh has died, as long as refreshes do not overlap (stores.py,
\* replace_blocks_by_prefix).
THEOREM StorePartsStayTogether ==
    ASSUME StoreConstants, Alone
    PROVE  Spec => []PartsStayTogether
<1>1. TogetherInv => PartsStayTogether
    BY DEF TogetherInv, Together, PartsStayTogether, Of
<1> QED
    BY <1>1, TogetherInvariant, PTL

-----------------------------------------------------------------------------
(* The views of SQLite. *)

\* A table of unique positions is finite: there are only so many positions.
LEMMA TogetherIsFinite ==
    ASSUME NEW T, Together(T)
    PROVE  IsFiniteSet(T)
<1>1. PICK m \in Nat : \A r \in T : r.pos < m
    BY DEF Together
<1> DEFINE f == [r \in T |-> r.pos]
<1>2. \A r \in T : r.pos \in 0..(m - 1)
    BY <1>1 DEF Together
<1>3. f \in Injection(T, 0..(m - 1))
    BY <1>2 DEF Together, Injection, IsInjective
<1>4. IsFiniteSet(0..(m - 1))
    BY FS_Interval
<1> QED
    BY <1>3, <1>4, FS_Injection

\* Every row has a place in the order of a table, and every place a row.
LEMMA InOrderIsAll ==
    ASSUME NEW T, Together(T), Parts \subseteq Int
    PROVE  /\ DOMAIN InOrder(T) = 1..Cardinality(T)
           /\ \A i \in 1..Cardinality(T) : \E r \in T : InOrder(T)[i] = r.row
           /\ \A r \in T : \E i \in 1..Cardinality(T) : InOrder(T)[i] = r.row
<1> DEFINE Below(r) == {s \in T : Precedes(s, r)}
           rank == [r \in T |-> Cardinality(Below(r))]
<1>1. PICK c \in Nat : c = Cardinality(T)
    BY TogetherIsFinite, FS_CardinalityType
<1>2. \A r \in T : r.pos \in Nat /\ r.row.part \in Int
    BY DEF Together
<1>3. \A r, s \in T : Precedes(s, r) <=> s.pos < r.pos
    <2>1. ASSUME NEW r \in T, NEW s \in T, s.pos = r.pos
          PROVE  ~Precedes(s, r)
        <3>1. r = s
            BY <2>1 DEF Together
        <3> QED
            BY <1>2, <3>1 DEF Precedes
    <2> QED
        BY <1>2, <2>1 DEF Precedes
<1>4. ASSUME NEW r \in T
      PROVE  IsFiniteSet(Below(r)) /\ Cardinality(Below(r)) \in 0..(c - 1)
    <2>1. Below(r) \in SUBSET T /\ r \notin Below(r)
        BY <1>2, <1>3
    <2>2. IsFiniteSet(Below(r)) /\ Cardinality(Below(r)) <= c /\ Cardinality(Below(r)) # c
        BY <1>1, <2>1, TogetherIsFinite, FS_Subset
    <2>3. Cardinality(Below(r)) \in Nat
        BY <2>2, FS_CardinalityType
    <2> QED
        BY <2>2, <2>3
<1>5. ASSUME NEW r \in T, NEW s \in T, r.pos < s.pos
      PROVE  rank[r] # rank[s]
    <2>1. Below(r) \in SUBSET Below(s) /\ r \in Below(s) /\ r \notin Below(r)
        BY <1>2, <1>3, <1>5
    <2>2. Below(r) # Below(s)
        BY <2>1
    <2> QED
        BY <1>4, <2>1, <2>2, FS_Subset
<1>6. \A r, s \in T : rank[r] = rank[s] => r = s
    <2>1. \A r, s \in T : r.pos < s.pos \/ s.pos < r.pos \/ r = s
        BY <1>2 DEF Together
    <2> QED
        BY <1>5, <2>1
<1>7. rank \in [T -> 0..(c - 1)]
    BY <1>4
<1>8. \A r \in T : rank[r] = Cardinality(Below(r))
    OBVIOUS
<1> HIDE DEF rank
<1>9. rank \in Surjection(T, 0..(c - 1))
    <2>1. rank \in Injection(T, 0..(c - 1))
        BY <1>6, <1>7 DEF Injection, IsInjective
    <2>2. IsFiniteSet(0..(c - 1)) /\ Cardinality(0..(c - 1)) = c
        <3>1. c - 1 \in Int /\ 0 \in Int /\ (IF 0 > c - 1 THEN 0 ELSE (c - 1) - 0 + 1) = c
            BY <1>1
        <3>2. /\ IsFiniteSet(0..(c - 1))
              /\ Cardinality(0..(c - 1)) = IF 0 > c - 1 THEN 0 ELSE (c - 1) - 0 + 1
            BY <3>1, FS_Interval
        <3> QED
            BY <3>1, <3>2
    <2> QED
        BY <1>1, <2>1, <2>2, FS_Injection
<1>10. ASSUME NEW i \in 1..c
       PROVE  \E r \in T : rank[r] = i - 1
    <2>1. i - 1 \in 0..(c - 1)
        BY <1>1
    <2> QED
        BY <1>9, <2>1 DEF Surjection
<1> DEFINE Nth(i) == CHOOSE r \in T : Cardinality({s \in T : Precedes(s, r)}) = i - 1
<1>11. ASSUME NEW i \in 1..c
       PROVE  Nth(i) \in T /\ rank[Nth(i)] = i - 1
    <2>1. \E r \in T : Cardinality({s \in T : Precedes(s, r)}) = i - 1
        BY <1>8, <1>10
    <2>2. Nth(i) \in T /\ Cardinality({s \in T : Precedes(s, Nth(i))}) = i - 1
        BY <2>1
    <2> QED
        BY <1>8, <2>2
<1>12. DOMAIN InOrder(T) = 1..c /\ \A i \in 1..c : InOrder(T)[i] = Nth(i).row
    BY <1>1 DEF InOrder
<1> HIDE DEF Nth
<1>13. ASSUME NEW r \in T
       PROVE  \E i \in 1..c : InOrder(T)[i] = r.row
    <2>1. rank[r] + 1 \in 1..c /\ (rank[r] + 1) - 1 = rank[r]
        BY <1>1, <1>7
    <2>2. Nth(rank[r] + 1) = r
        BY <1>6, <1>11, <2>1
    <2> QED
        BY <1>12, <2>1, <2>2
<1> QED
    BY <1>1, <1>11, <1>12, <1>13

\* So a full save writes the rows of every part.
LEMMA SavingAllKeeps ==
    ASSUME NEW T, Together(T), Parts \subseteq Int
    PROVE  \A p : RowsOf(At(InOrder(T), 0), p) = RowsOf(T, p)
<1> DEFINE A == At(InOrder(T), 0)
<1>1. PICK o : o = InOrder(T)
    OBVIOUS
<1>2. A = {[row |-> o[i], pos |-> 0 + i - 1] : i \in DOMAIN o}
    BY <1>1 DEF At
<1> HIDE DEF A
<1>0. /\ DOMAIN o = 1..Cardinality(T)
      /\ \A i \in 1..Cardinality(T) : \E r \in T : o[i] = r.row
      /\ \A r \in T : \E i \in 1..Cardinality(T) : o[i] = r.row
    BY <1>1, InOrderIsAll
<1>3. \A i \in DOMAIN o : \E r \in T : o[i] = r.row
    BY <1>0
<1>4. \A r \in T : \E i \in DOMAIN o : o[i] = r.row
    BY <1>0
<1>5. \A a \in A : \E r \in T : a.row = r.row
    BY <1>2, <1>3
<1>6. \A r \in T : \E a \in A : a.row = r.row
    <2> SUFFICES ASSUME NEW r \in T PROVE \E a \in A : a.row = r.row
        OBVIOUS
    <2>1. PICK i \in DOMAIN o : o[i] = r.row
        BY <1>4
    <2>2. [row |-> o[i], pos |-> 0 + i - 1] \in A
        BY <1>2
    <2> QED
        BY <2>1, <2>2
<1>7. ASSUME NEW p PROVE RowsOf(A, p) = RowsOf(T, p)
    <2>1. \A x \in RowsOf(A, p) : x \in RowsOf(T, p)
        BY <1>5 DEF RowsOf, Of
    <2>2. \A x \in RowsOf(T, p) : x \in RowsOf(A, p)
        BY <1>6 DEF RowsOf, Of
    <2> QED
        BY <2>1, <2>2
<1> QED
    BY <1>7 DEF A

\* A run has rows.
LEMMA RunsAreNotEmpty ==
    ASSUME NEW p, NEW s, IsRun(s), s.size >= 1
    PROVE  RunRows(p, s) # {}
<1>1. 1 \in 1..s.size
    BY DEF IsRun
<1> QED
    BY <1>1 DEF RunRows

\* No step takes the rows of a part away from the blocks or the views.
LEMMA NothingVanishes ==
    ASSUME StoreConstants, Alone, ~Autocommit, StoreInv, TogetherInv, ViewsInv, NEW t \in Threads, Step(t),
           NEW q \in Parts
    PROVE  /\ RowsOf(blocks, q) # {} => RowsOf(blocks', q) # {}
           /\ RowsOf(views, q) # {} => RowsOf(views', q) # {}
<1>1. CASE (\E p \in Parts : Begin(t, p)) \/ SelectBlocks(t) \/ SelectViews(t) \/ ReplaceIndex(t) \/ ReadAll(t)
    BY <1>1 DEF Begin, SelectBlocks, SelectViews, ReplaceIndex, ReadAll, tables
<1>2. CASE ReplaceBlocks(t) \/ DeleteBlocks(t) \/ ShiftBlocks(t) \/ InsertBlocks(t)
    <2>1. views' = views /\ pc[t] \in HasRows
        BY <1>2 DEF ReplaceBlocks, DeleteBlocks, ShiftBlocks, InsertBlocks, Goto, HasRows
    <2>2. RunRows(part[t], stored[part[t]]) # {}
        BY <2>1, LastRun, RunsAreNotEmpty
    <2>3. pc[t] \notin {"delete", "shift"}
        BY DEF ViewsInv, Deleted
    <2>4. /\ q # part[t] => RowsOf(blocks', q) = RowsOf(blocks, q)
          /\ RowsOf(blocks', part[t]) = RunRows(part[t], stored[part[t]])
        BY <1>2, <2>3, BlocksMove
    <2> QED
        BY <2>1, <2>2, <2>4
<1>3. CASE ReplaceViews(t)
    <2>1. blocks' = blocks /\ pc[t] = "views"
        BY <1>3 DEF ReplaceViews, Goto
    <2>2. RunRows(part[t], stored[part[t]]) # {}
        BY <2>1, LastRun, RunsAreNotEmpty DEF HasRows
    <2>3. /\ q # part[t] => RowsOf(views', q) = RowsOf(views, q)
          /\ views' = views \/ RowsOf(views', part[t]) = RunRows(part[t], stored[part[t]])
        BY <1>3, ViewsMove
    <2> QED
        BY <2>1, <2>2, <2>3
<1>4. CASE SaveAll(t)
    <2>1. blocks' = blocks /\ views' = At(all[t], 0) /\ pc[t] = "saveAll"
        BY <1>4 DEF SaveAll, Goto
    <2>2. views' = At(InOrder(blocks), 0)
        BY <2>1 DEF ViewsInv
    <2>3. RowsOf(views', q) = RowsOf(blocks, q)
        BY <2>2, SavingAllKeeps DEF TogetherInv, StoreConstants
    <2>4. RowsOf(views, q) # {} => RowsOf(blocks, q) # {}
        BY DEF ViewsInv
    <2> QED
        BY <2>1, <2>3, <2>4
<1>5. CASE Crash(t)
    BY <1>5 DEF Crash
<1> QED
    BY <1>1, <1>2, <1>3, <1>4, <1>5 DEF Step

\* The views follow the blocks.
LEMMA ViewsInit ==
    ASSUME Init
    PROVE  ViewsInv
<1>1. views = {} /\ \A t \in Threads : pc[t] = "idle"
    BY DEF Init
<1>2. \A p \in Parts : stored[p] = Nothing
    BY DEF Init
<1>3. \A p \in Parts : RowsOf(views, p) = {} /\ RunRows(p, stored[p]) = {}
    BY <1>1, <1>2 DEF RowsOf, Of, RunRows, Nothing
<1> QED
    BY <1>1, <1>3 DEF ViewsInv, ViewsOfParts, Deleted

\* Rows of parts, as rows of no other part.
LEMMA OfParts ==
    ASSUME NEW T
    PROVE  (\A r \in T : r.row.part \in Parts) <=> \A q : q \notin Parts => RowsOf(T, q) = {}
BY DEF RowsOf, Of

\* A refresh that gives up the replacement makes all views again.
LEMMA ViewsStep ==
    ASSUME StoreConstants, Alone, ~Autocommit, StoreInv, StoreInv', TogetherInv, ViewsInv,
           NEW t \in Threads, Step(t)
    PROVE  ViewsInv'
<1>0. \A u \in Threads : u = t
    BY DEF Alone
<1>1. /\ t \in DOMAIN pc /\ t \in DOMAIN all /\ t \in DOMAIN part /\ part[t] \in Parts
      /\ \A p \in Parts : p \in DOMAIN index /\ p \in DOMAIN stored /\ index[p] \in Nat
                       /\ stored[p].run \in Nat
    BY DEF StoreInv, StoreTypes
<1>2. /\ ViewsOfParts /\ pc[t] \notin Deleted \cup {"delete"}
      /\ \A p \in Parts : index[p] = stored[p].run => RowsOf(views, p) = RunRows(p, stored[p]) \/ SavesAll(t)
      /\ pc[t] = "index" => RowsOf(views, part[t]) = RunRows(part[t], stored[part[t]])
    BY <1>0 DEF ViewsInv
<1>3. \A p \in Parts : RowsOf(views', p) # {} => RowsOf(blocks', p) # {}
    <2> SUFFICES ASSUME NEW p \in Parts, RowsOf(views', p) # {} PROVE RowsOf(blocks', p) # {}
        OBVIOUS
    <2>1. CASE RowsOf(views, p) # {}
        BY <2>1, NothingVanishes DEF ViewsInv
    <2>2. CASE RowsOf(views, p) = {}
        <3>1. CASE ReplaceViews(t)
            <4>1. blocks' = blocks /\ pc[t] = "views" /\ p = part[t]
                BY <2>2, <3>1, ViewsMove DEF ReplaceViews
            <4>2. RowsOf(blocks, p) = RunRows(p, stored[p]) /\ RunRows(p, stored[p]) # {}
                BY <4>1, LastRun, RunsAreNotEmpty DEF StoreInv, BlocksFollow, Inserted, HasRows
            <4> QED
                BY <4>1, <4>2
        <3>2. CASE SaveAll(t)
            <4>1. blocks' = blocks /\ views' = At(InOrder(blocks), 0)
                BY <3>2 DEF SaveAll, Goto, ViewsInv
            <4> QED
                BY <4>1, SavingAllKeeps DEF TogetherInv, StoreConstants
        <3>3. CASE ~ReplaceViews(t) /\ ~SaveAll(t)
            <4>1. views' = views
                BY <3>3 DEF Step, Begin, SelectBlocks, ReplaceBlocks, DeleteBlocks, ShiftBlocks, InsertBlocks,
                      SelectViews, ReplaceIndex, ReadAll, Crash, tables
            <4> QED
                BY <2>2, <4>1
        <3> QED
            BY <3>1, <3>2, <3>3
    <2> QED
        BY <2>1, <2>2
<1>4. SUFFICES /\ ViewsOfParts'
               /\ \A p \in Parts : index'[p] = stored'[p].run =>
                       RowsOf(views', p) = RunRows(p, stored'[p]) \/ pc'[t] \in {"readAll", "saveAll"}
               /\ pc'[t] = "index" => RowsOf(views', part'[t]) = RunRows(part'[t], stored'[part'[t]])
               /\ pc'[t] = "saveAll" => all'[t] = InOrder(blocks')
               /\ pc'[t] \notin Deleted \cup {"delete"}
    BY <1>0, <1>3, <1>4 DEF ViewsInv, SavesAll
<1>5. CASE \E p \in Parts : Begin(t, p)
    <2>0. PICK p \in Parts : Begin(t, p)
        BY <1>5
    <2>1. PICK k \in 1..MaxItems : stored' = [stored EXCEPT ![p] = [run |-> runs + 1, size |-> k]]
        BY <2>0 DEF Begin
    <2>2. pc[t] = "idle" /\ pc'[t] = "bounds" /\ UNCHANGED <<views, blocks, index>>
        BY <1>1, <2>0 DEF Begin, Goto
    <2>3. stored'[p].run = runs + 1 /\ \A q \in Parts : q # p => stored'[q] = stored[q]
        BY <1>1, <2>1
    <2>4. index[p] \in Nat /\ runs \in Nat /\ index[p] <= runs
        BY <1>1 DEF StoreInv, StoreTypes, RunsAreInOrder
    <2>5. index'[p] # stored'[p].run
        BY <2>2, <2>3, <2>4
    <2>6. \A q \in Parts : index'[q] = stored'[q].run => RowsOf(views', q) = RunRows(q, stored'[q])
        BY <1>2, <2>2, <2>3, <2>5 DEF SavesAll
    <2> QED
        BY <1>2, <1>4, <2>2, <2>6 DEF ViewsOfParts, Deleted
<1>6. CASE SelectBlocks(t) \/ SelectViews(t)
    <2>1. /\ pc[t] \notin {"readAll", "saveAll"} /\ pc'[t] \in {"blocks", "views"}
          /\ UNCHANGED <<views, blocks, index, stored>>
        BY <1>1, <1>6 DEF SelectBlocks, SelectViews, Goto, tables
    <2> QED
        BY <1>2, <1>4, <2>1 DEF ViewsOfParts, Deleted, SavesAll
<1>7. CASE ReplaceBlocks(t) \/ DeleteBlocks(t) \/ ShiftBlocks(t) \/ InsertBlocks(t)
    <2>1. /\ pc[t] = "blocks" /\ pc'[t] = "viewBounds"
          /\ UNCHANGED <<views, index, stored>>
        BY <1>1, <1>2, <1>7 DEF ReplaceBlocks, DeleteBlocks, ShiftBlocks, InsertBlocks, Goto, Deleted
    <2> QED
        BY <1>2, <1>4, <2>1 DEF ViewsOfParts, Deleted, SavesAll
<1>8. CASE ReplaceViews(t)
    <2>1. pc[t] = "views" /\ UNCHANGED <<blocks, index, stored, part>>
        BY <1>8 DEF ReplaceViews, Goto
    <2>2. /\ \A q : q # part[t] => RowsOf(views', q) = RowsOf(views, q)
          /\ \/ pc'[t] = "indexThenAll"
             \/ pc'[t] = "index" /\ RowsOf(views', part[t]) = RunRows(part[t], stored[part[t]])
        BY <1>8, ViewsMove
    <2>3. index[part[t]] # stored[part[t]].run
        BY <1>1, <2>1 DEF StoreInv, HandingOf, HasRows
    <2>4. \A q : q \notin Parts => RowsOf(views', q) = {}
        BY <1>1, <1>2, <2>2, OfParts DEF ViewsOfParts
    <2>5. ViewsOfParts'
        BY <2>4, OfParts DEF ViewsOfParts
    <2>6. \A p \in Parts : index'[p] = stored'[p].run => RowsOf(views', p) = RunRows(p, stored'[p])
        BY <1>2, <2>1, <2>2, <2>3 DEF SavesAll
    <2> QED
        BY <1>4, <2>1, <2>2, <2>5, <2>6 DEF Deleted
<1>9. CASE ReplaceIndex(t)
    <2>1. /\ UNCHANGED <<stored, part, views, blocks>>
          /\ \/ pc[t] = "index" /\ pc'[t] = "idle"
             \/ pc[t] = "indexThenAll" /\ pc'[t] = "readAll"
             \/ pc[t] = "indexThenAll" /\ pc'[t] = "idle" /\ index' = index
          /\ index' = index \/ index' = [index EXCEPT ![part[t]] = merged[t][1].run]
        BY <1>1, <1>9 DEF ReplaceIndex, Goto
    <2>2. \A p \in Parts : p # part[t] => index'[p] = index[p]
        BY <1>1, <2>1
    <2>3. index[part[t]] # stored[part[t]].run
        BY <1>1, <2>1 DEF StoreInv, HandingOf, HasRows
    <2>4. ASSUME NEW p \in Parts, index'[p] = stored'[p].run, pc'[t] = "idle"
          PROVE  RowsOf(views', p) = RunRows(p, stored'[p])
        <3>1. CASE p # part[t]
            BY <1>2, <2>1, <2>2, <2>4, <3>1 DEF SavesAll
        <3>2. CASE p = part[t]
            BY <1>2, <2>1, <2>3, <2>4, <3>2
        <3> QED
            BY <3>1, <3>2
    <2> QED
        BY <1>2, <1>4, <2>1, <2>4 DEF ViewsOfParts, Deleted
<1>10. CASE ReadAll(t)
    <2>1. pc'[t] = "saveAll" /\ all'[t] = InOrder(blocks) /\ UNCHANGED <<views, blocks>>
        BY <1>1, <1>10 DEF ReadAll, Goto, tables
    <2> QED
        BY <1>2, <1>4, <2>1 DEF ViewsOfParts, Deleted
<1>11. CASE SaveAll(t)
    <2>1. /\ pc'[t] = "idle" /\ views' = At(InOrder(blocks), 0)
          /\ UNCHANGED <<stored, blocks, index>>
        BY <1>1, <1>11 DEF SaveAll, Goto, ViewsInv
    <2>2. \A q : RowsOf(views', q) = RowsOf(blocks, q)
        BY <2>1, SavingAllKeeps DEF TogetherInv, StoreConstants
    <2>3. \A p \in Parts : index'[p] = stored'[p].run => RowsOf(views', p) = RunRows(p, stored'[p])
        BY <2>1, <2>2 DEF StoreInv, RunsAreInOrder
    <2>4. \A q : q \notin Parts => RowsOf(views', q) = {}
        BY <2>2, OfParts DEF TogetherInv, Together
    <2>5. ViewsOfParts'
        BY <2>4, OfParts DEF ViewsOfParts
    <2> QED
        BY <1>4, <2>1, <2>3, <2>5 DEF Deleted
<1>12. CASE Crash(t)
    BY <1>12 DEF Crash
<1> QED
    BY <1>5, <1>6, <1>7, <1>8, <1>9, <1>10, <1>11, <1>12 DEF Step

\* The invariant of SQLite, one refresh at a time.
ServedInv == StoreInv /\ TogetherInv /\ ViewsInv

\* It is kept, and nothing vanishes.
LEMMA ServedStep ==
    ASSUME StoreConstants, Alone, ~Autocommit, ServedInv, [Next]_vars
    PROVE  /\ ServedInv'
           /\ \A p \in Parts : /\ Of(blocks, p) # {} => Of(blocks', p) # {}
                               /\ Of(views, p) # {} => Of(views', p) # {}
<1>1. CASE UNCHANGED vars
    BY <1>1, StoreStep DEF ServedInv, vars, tables, locals, TogetherInv, PlaceKept, ViewsInv, ViewsOfParts, SavesAll
<1>2. ASSUME NEW t \in Threads, Step(t)
      PROVE  /\ ServedInv'
             /\ \A p \in Parts : /\ Of(blocks, p) # {} => Of(blocks', p) # {}
                                 /\ Of(views, p) # {} => Of(views', p) # {}
    <2>1. StoreInv /\ TogetherInv /\ ViewsInv
        BY DEF ServedInv
    <2>2. StoreInv' /\ TogetherInv'
        BY <1>2, <2>1, StoreStep, TogetherStep DEF Next
    <2>3. ViewsInv'
        BY <1>2, <2>1, <2>2, ViewsStep
    <2>4. \A p \in Parts : /\ RowsOf(blocks, p) # {} => RowsOf(blocks', p) # {}
                           /\ RowsOf(views, p) # {} => RowsOf(views', p) # {}
        BY <1>2, <2>1, NothingVanishes
    <2>5. \A T, p : Of(T, p) # {} <=> RowsOf(T, p) # {}
        BY DEF RowsOf
    <2> QED
        BY <2>2, <2>3, <2>4, <2>5 DEF ServedInv
<1> QED
    BY <1>1, <1>2 DEF Next

\* It holds from the first state.
LEMMA ServedInvariant ==
    ASSUME StoreConstants, Alone, ~Autocommit
    PROVE  Spec => []ServedInv
<1>1. Init => ServedInv
    BY StoreInit, TogetherInit, ViewsInit DEF ServedInv
<1>2. ServedInv /\ [Next]_vars => ServedInv'
    BY ServedStep
<1> QED
    BY <1>1, <1>2, PTL DEF Spec

\* A reader of SQLite never finds a part gone that was there, in the blocks or in the
\* views, as long as refreshes do not overlap; also when a replacement of views fails and
\* all of them are made again (stores.py, replace_document_views_by_prefix; runtime.py,
\* refresh_partitioned_parent).
THEOREM StoreNoPartVanishes ==
    ASSUME StoreConstants, Alone, ~Autocommit
    PROVE  Spec => NoPartVanishes
<1>1. ServedInv /\ [Next]_vars =>
          \A p \in Parts : (Of(blocks, p) # {} => Of(blocks', p) # {})
                       /\ (Of(views, p) # {} => Of(views', p) # {})
    <2> SUFFICES ASSUME ServedInv, [Next]_vars, NEW p \in Parts
                 PROVE  (Of(blocks, p) # {} => Of(blocks', p) # {}) /\ (Of(views, p) # {} => Of(views', p) # {})
        OBVIOUS
    <2>1. \A q \in Parts : /\ Of(blocks, q) # {} => Of(blocks', q) # {}
                           /\ Of(views, q) # {} => Of(views', q) # {}
        BY ServedStep
    <2> QED
        BY <2>1
<1> QED
    BY <1>1, ServedInvariant, PTL DEF Spec, NoPartVanishes

\* At rest the views of SQLite hold the rows of every part's last run, those that could
\* not be replaced in place included, once the index has taken the run's chunks
\* (stores.py, _persist_document_views; runtime.py, refresh_partitioned_parent).
THEOREM StoreViewsAreLast ==
    ASSUME StoreConstants, Alone, ~Autocommit
    PROVE  Spec => []ViewsAreLast
<1>1. ServedInv => ViewsAreLast
    <2> SUFFICES ASSUME ServedInv, AllIndexed
                 PROVE  Content(views) = UNION {ToSet(Rows(p, stored[p])) : p \in Parts}
        BY DEF ViewsAreLast
    <2>1. \A p \in Parts : RowsOf(views, p) = RunRows(p, stored[p])
        BY DEF ServedInv, ViewsInv, AllIndexed, AtRest, SavesAll
    <2>2. \A p : ToSet(Rows(p, stored[p])) = RunRows(p, stored[p])
        BY DEF ToSet, Rows, RunRows
    <2>3. \A r \in views : r.row.part \in Parts
        BY DEF ServedInv, ViewsInv, ViewsOfParts
    <2>4. \A x \in Content(views) : \E p \in Parts : x \in RowsOf(views, p)
        BY <2>3 DEF Content, RowsOf, Of
    <2>5. \A p \in Parts : RowsOf(views, p) \subseteq Content(views)
        BY DEF Content, RowsOf, Of
    <2> QED
        BY <2>1, <2>2, <2>4, <2>5
<1> QED
    BY <1>1, ServedInvariant, PTL
=============================================================================
