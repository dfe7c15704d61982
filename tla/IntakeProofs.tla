---------------------------- MODULE IntakeProofs ----------------------------
(***************************************************************************)
(* How documents come in.  The plan of the parts of a PDF is right for every *)
(* number of pages, size of a part and context: the parts tile the range,    *)
(* none is too long, and every page has one owner.  And a file that was      *)
(* submitted is there as long as its job may need it, for any number of      *)
(* processes, requests and retries.                                          *)
(***************************************************************************)
EXTENDS PartPlan, Submission, TLAPS

\* Later parts own later pages.
PartsAreOrdered ==
    \A i, j \in DOMAIN parts : i < j => parts[i].last < parts[j].first

\* What lies before the head of the loop is owned, and nothing else is.
PagesAreOwned ==
    \A page \in arg.first..(next - 1) :
        \E i \in DOMAIN parts : page \in parts[i].first..parts[i].last
OwnersAreBefore == \A i \in DOMAIN parts : parts[i].last < next

PlanInv ==
    /\ PlanTypeOK /\ PartsTile /\ PartsAreBounded
    /\ PartsAreOrdered /\ PagesAreOwned /\ OwnersAreBefore

-----------------------------------------------------------------------------
\* Members of a sequence.
LEMMA Members ==
    ASSUME NEW S, NEW s \in Seq(S), NEW i \in DOMAIN s
    PROVE  s[i] \in S /\ i \in Nat
OBVIOUS

\* _pages_per_part never asks for parts without pages.
LEMMA SizeIsPositive ==
    ASSUME NEW target \in Nat \ {0}, NEW ocrTarget \in Nat \ {0}, NEW r \in Facts
    PROVE  PagesPerPart(target, ocrTarget, r) \in Nat \ {0}
BY DEF PagesPerPart, Facts

\* The plan begins with its invariant.
LEMMA PlanStarts == PlanInit => PlanInv
<1> SUFFICES ASSUME PlanInit PROVE PlanInv
    OBVIOUS
<1>1. PICK pages, first, last \in 1..MaxPages, context \in 0..MaxContext,
           target, ocrTarget \in 1..MaxTarget, r \in Facts :
        /\ first <= last /\ last <= pages
        /\ arg = [pages |-> pages, first |-> first, last |-> last, context |-> context,
                  size |-> PagesPerPart(target, ocrTarget, r)]
    BY DEF PlanInit
<1>2. target \in Nat \ {0} /\ ocrTarget \in Nat \ {0}
    BY PlanAssumption
<1>3. PagesPerPart(target, ocrTarget, r) \in Nat \ {0}
    BY <1>2, SizeIsPositive
<1>4. arg \in Arguments
    BY <1>1, <1>3 DEF Arguments
<1>5. next = arg.first /\ parts = <<>>
    BY DEF PlanInit
<1> QED
    BY <1>1, <1>4, <1>5, PlanAssumption
    DEF PlanInv, PlanTypeOK, PartsTile, PartsAreBounded, PartsAreOrdered, PagesAreOwned,
        OwnersAreBefore, Arguments

\* A part begins at the head of the loop, ends inside the range and is no longer
\* than asked for.
LEMMA NewPart ==
    ASSUME PlanInv, next <= arg.last
    PROVE  /\ arg.first \in Nat /\ arg.last \in Nat /\ arg.size \in Nat \ {0} /\ arg.context \in Nat
           /\ next \in arg.first..arg.last
           /\ OwnedEnd(arg, next) \in next..arg.last
           /\ OwnedEnd(arg, next) - next < arg.size
           /\ InputStart(arg, next) \in arg.first..next
           /\ next - InputStart(arg, next) <= arg.context
BY PlanAssumption DEF PlanInv, PlanTypeOK, Arguments, OwnedEnd, InputStart

\* One iteration keeps the invariant.
LEMMA PlanGoesOn == PlanInv /\ PlanStep => PlanInv'
<1> SUFFICES ASSUME PlanInv, PlanStep PROVE PlanInv'
    OBVIOUS
<1> DEFINE end == OwnedEnd(arg, next)
           new == [first |-> next, last |-> end, input |-> InputStart(arg, next)]
<1>1. next <= arg.last /\ arg' = arg /\ next' = end + 1 /\ parts' = Append(parts, new)
    BY DEF PlanStep
<1>2. /\ arg.first \in Nat /\ arg.last \in Nat /\ arg.size \in Nat \ {0} /\ arg.context \in Nat
      /\ next \in arg.first..arg.last
      /\ end \in next..arg.last /\ end - next < arg.size
      /\ InputStart(arg, next) \in arg.first..next
      /\ next - InputStart(arg, next) <= arg.context
    BY <1>1, NewPart
<1>3. parts \in Seq([first : Nat, last : Nat, input : Nat])
    BY DEF PlanInv, PlanTypeOK
<1>4. new \in [first : Nat, last : Nat, input : Nat]
    BY <1>2
<1> HIDE DEF end
<1>5. /\ Len(parts) \in Nat /\ DOMAIN parts = 1..Len(parts)
      /\ Len(parts') = Len(parts) + 1 /\ DOMAIN parts' = 1..(Len(parts) + 1)
      /\ \A i \in DOMAIN parts : parts'[i] = parts[i]
      /\ parts'[Len(parts) + 1] = new
    BY <1>1, <1>3, <1>4
<1>6. \A i \in DOMAIN parts : parts[i] \in [first : Nat, last : Nat, input : Nat]
    BY <1>3, Members
<1>7. new.first = next /\ new.last = end /\ new.input = InputStart(arg, next)
    OBVIOUS
<1> HIDE DEF new
<1>8. PlanTypeOK'
    <2>1. parts' \in Seq([first : Nat, last : Nat, input : Nat])
        BY <1>1, <1>3, <1>4
    <2>2. next' \in arg'.first..(arg'.last + 1)
        BY <1>1, <1>2
    <2> QED
        BY <1>1, <2>1, <2>2 DEF PlanInv, PlanTypeOK
<1>9. PartsTile'
    <2>1. parts' # <<>>
        BY <1>5
    <2>2. parts'[1].first = arg'.first
        <3>1. CASE parts = <<>>
            BY <3>1, <1>1, <1>5, <1>7 DEF PlanInv, PartsTile
        <3>2. CASE parts # <<>>
            BY <3>2, <1>1, <1>3, <1>5 DEF PlanInv, PartsTile
        <3> QED
            BY <3>1, <3>2
    <2>3. parts'[Len(parts')].last = next' - 1
        BY <1>1, <1>2, <1>5, <1>7
    <2>4. \A i \in DOMAIN parts' : parts'[i].first <= parts'[i].last
        BY <1>2, <1>5, <1>7 DEF PlanInv, PartsTile
    <2>5. \A i \in 1..(Len(parts') - 1) : parts'[i + 1].first = parts'[i].last + 1
        <3> SUFFICES ASSUME NEW i \in 1..Len(parts)
                     PROVE  parts'[i + 1].first = parts'[i].last + 1
            BY <1>5
        <3>1. CASE i < Len(parts)
            <4>1. i + 1 \in DOMAIN parts /\ i \in 1..(Len(parts) - 1)
                BY <3>1, <1>5
            <4> QED
                BY <4>1, <1>5 DEF PlanInv, PartsTile
        <3>2. CASE i = Len(parts)
            <4>1. parts[Len(parts)].last = next - 1
                BY <3>2, <1>5 DEF PlanInv, PartsTile
            <4>2. parts'[i + 1].first = next /\ parts'[i] = parts[i]
                BY <3>2, <1>5, <1>7
            <4> QED
                BY <3>2, <4>1, <4>2, <1>2
        <3>3. Len(parts) \in Nat
            BY <1>5
        <3>4. i < Len(parts) \/ i = Len(parts)
            BY <3>3
        <3> QED
            BY <3>1, <3>2, <3>4
    <2> QED
        BY <2>1, <2>2, <2>3, <2>4, <2>5 DEF PartsTile
<1>10. PartsAreBounded'
    <2> SUFFICES ASSUME NEW i \in DOMAIN parts'
                 PROVE  /\ parts'[i].last - parts'[i].first < arg.size
                        /\ parts'[i].input \in arg.first..parts'[i].first
                        /\ parts'[i].first - parts'[i].input <= arg.context
        BY <1>1 DEF PartsAreBounded
    <2>1. CASE i \in DOMAIN parts
        BY <2>1, <1>5 DEF PlanInv, PartsAreBounded
    <2>2. CASE i = Len(parts) + 1
        BY <2>2, <1>2, <1>5, <1>7
    <2> QED
        BY <2>1, <2>2, <1>5
<1>11. PartsAreOrdered'
    <2> SUFFICES ASSUME NEW i \in DOMAIN parts', NEW j \in DOMAIN parts', i < j
                 PROVE  parts'[i].last < parts'[j].first
        BY DEF PartsAreOrdered
    <2>1. i \in DOMAIN parts
        BY <1>5
    <2>2. CASE j \in DOMAIN parts
        BY <2>1, <2>2, <1>5 DEF PlanInv, PartsAreOrdered
    <2>3. CASE j = Len(parts) + 1
        BY <2>1, <2>3, <1>5, <1>7 DEF PlanInv, OwnersAreBefore
    <2> QED
        BY <2>2, <2>3, <1>5
<1>12. PagesAreOwned'
    <2> SUFFICES ASSUME NEW page \in arg.first..end
                 PROVE  \E i \in DOMAIN parts' : page \in parts'[i].first..parts'[i].last
        BY <1>1, <1>2 DEF PagesAreOwned
    <2>1. CASE page < next
        <3>1. page \in arg.first..(next - 1)
            BY <2>1, <1>2
        <3>2. PICK i \in DOMAIN parts : page \in parts[i].first..parts[i].last
            BY <3>1 DEF PlanInv, PagesAreOwned
        <3> QED
            BY <3>2, <1>5
    <2>2. CASE page >= next
        <3>1. page \in new.first..new.last
            BY <2>2, <1>2, <1>7
        <3> QED
            BY <3>1, <1>5
    <2> QED
        BY <2>1, <2>2, <1>2
<1>13. OwnersAreBefore'
    <2> SUFFICES ASSUME NEW i \in DOMAIN parts' PROVE parts'[i].last < next'
        BY DEF OwnersAreBefore
    <2>1. CASE i \in DOMAIN parts
        BY <2>1, <1>1, <1>2, <1>5, <1>6 DEF PlanInv, OwnersAreBefore
    <2>2. CASE i = Len(parts) + 1
        BY <2>2, <1>1, <1>2, <1>5, <1>7
    <2> QED
        BY <2>1, <2>2, <1>5
<1> QED
    BY <1>8, <1>9, <1>10, <1>11, <1>12, <1>13 DEF PlanInv

\* A plan with the invariant gives every page one owner.
LEMMA OwnersAreUnique == PlanInv => EveryPageHasOneOwner
<1> SUFFICES ASSUME PlanInv, next > arg.last, NEW page \in arg.first..arg.last
             PROVE  \E i \in DOMAIN parts :
                        /\ page \in parts[i].first..parts[i].last
                        /\ \A j \in DOMAIN parts :
                             page \in parts[j].first..parts[j].last => j = i
    BY DEF EveryPageHasOneOwner
<1>1. arg.first \in Nat /\ arg.last \in Nat /\ next \in Nat
    BY PlanAssumption DEF PlanInv, PlanTypeOK, Arguments
<1>2. PICK i \in DOMAIN parts : page \in parts[i].first..parts[i].last
    BY <1>1 DEF PlanInv, PagesAreOwned
<1>3. ASSUME NEW j \in DOMAIN parts, page \in parts[j].first..parts[j].last
      PROVE  j = i
    <2>1. parts \in Seq([first : Nat, last : Nat, input : Nat])
        BY DEF PlanInv, PlanTypeOK
    <2>2. i \in Nat /\ j \in Nat /\ parts[i] \in [first : Nat, last : Nat, input : Nat]
          /\ parts[j] \in [first : Nat, last : Nat, input : Nat]
        BY <2>1, Members
    <2>3. ~(i < j) /\ ~(j < i)
        BY <1>1, <1>2, <1>3, <2>2 DEF PlanInv, PartsAreOrdered
    <2> QED
        BY <2>2, <2>3
<1> QED
    BY <1>2, <1>3

-----------------------------------------------------------------------------
\* plan_pdf_parts, for every document and every setting: the parts made so far are of
\* the right types, tile the pages without gap or overlap, are no longer and read no
\* more context than asked for, and when the loop ends each page has one owner.
THEOREM PlanIsSound == PlanSpec => [](PlanTypeOK /\ PlanTiles)
<1>1. PlanInit => PlanInv
    BY PlanStarts
<1>2. PlanInv /\ [PlanStep]_planVars => PlanInv'
    <2>1. PlanInv /\ PlanStep => PlanInv'
        BY PlanGoesOn
    <2>2. PlanInv /\ UNCHANGED planVars => PlanInv'
        BY DEF PlanInv, planVars, PlanTypeOK, PartsTile, PartsAreBounded, PartsAreOrdered,
               PagesAreOwned, OwnersAreBefore
    <2> QED
        BY <2>1, <2>2
<1>3. PlanInv => PlanTypeOK /\ PlanTiles
    BY OwnersAreUnique DEF PlanInv, PlanTiles
<1> QED
    BY <1>1, <1>2, <1>3, PTL DEF PlanSpec

-----------------------------------------------------------------------------
(* Submission: what holds of files, requests and rows between the statements  *)
(* of the handlers.                                                           *)

Live == {"pending", "parsing"}
Uploaded(f) == f \in expired \/ \E x \in files : x.id = f /\ x.dir = "uploads"
Transient(f) == \E x \in files : x.id = f /\ x.dir = "transient"
NeedsUpload(kind) == kind \in {"create", "stage"} \/ (kind = "sync" /\ ~Inline)

Columns == [kind : Kinds \cup {"part"}, file : 0..MaxFiles, units : Units,
            st : States, tries : 0..MaxAttempts]

IntakeTypeOK ==
    /\ SubmitTypeOK
    /\ lastFile \in 0..MaxFiles
    /\ req \in [Procs -> [kind : Kinds, file : 0..MaxFiles, units : Units \cup {1}, row : Nat]]

\* An id names one file, and only the inline mode has transient ones.
IdsAreUnique ==
    /\ \A x \in files : x.id <= lastFile /\ (x.dir = "transient" => Inline)
    /\ \A x, y \in files : x.id = y.id => x.dir = y.dir

\* A handler that has a request has the file that it is about, and a synchronous one
\* goes on with the row that it made.
RequestsHaveFiles ==
    \A p \in Procs : pc[p] # "idle" =>
        /\ req[p].units \in Units
        /\ req[p].kind = "sync" => req[p].file \in 1..lastFile
        /\ req[p].kind = "sync" /\ Inline => Transient(req[p].file)
        /\ pc[p] = "create" /\ NeedsUpload(req[p].kind) => Uploaded(req[p].file)
        /\ pc[p] # "create" => req[p].kind = "sync"
        /\ pc[p] \in {"execute", "finish"} =>
              /\ req[p].row \in DOMAIN rows
              /\ rows[req[p].row].file = req[p].file
        /\ pc[p] = "finish" => rows[req[p].row].st = "parsing"

\* Synchronous requests are about different files.
FilesAreOwn ==
    \A p, q \in Procs :
        /\ p # q /\ pc[p] # "idle" /\ pc[q] # "idle"
        /\ req[p].kind = "sync" /\ req[q].kind = "sync"
        => req[p].file # req[q].file

\* The handler that executes a synchronous row of the inline mode.
Executes(p, j) ==
    /\ pc[p] = (IF rows[j].st = "pending" THEN "execute" ELSE "finish")
    /\ req[p].row = j

\* A job that has not ended has its file, or its handler has.
RowsHaveFiles ==
    \A j \in DOMAIN rows :
        /\ rows[j].st = "pending" => rows[j].tries < MaxAttempts
        /\ rows[j].kind = "part" => rows[j].file = NoFile
        /\ rows[j].st \in Live =>
              /\ rows[j].kind # "parent"
              /\ NeedsUpload(rows[j].kind) => Uploaded(rows[j].file)
              /\ rows[j].kind = "sync" /\ Inline => \E p \in Procs : Executes(p, j)

IntakeInv ==
    /\ IntakeTypeOK /\ IdsAreUnique /\ RequestsHaveFiles /\ FilesAreOwn
    /\ RowsHaveFiles /\ TransientsAreOwned

-----------------------------------------------------------------------------
\* The bounds of Submission: a retry is allowed at most, and at least one attempt.
Bounds == MaxFiles \in Nat /\ MaxAttempts \in Nat \ {0}

\* What a type of the state says, spelled out: the columns of a row and the fields of a
\* request.
LEMMA IntakeTypes ==
    ASSUME Bounds, IntakeTypeOK
    PROVE  /\ \A j \in DOMAIN rows :
                /\ j \in Nat /\ rows[j].kind \in Kinds \cup {"part"}
                /\ rows[j].file \in 0..MaxFiles /\ rows[j].units \in Units
                /\ rows[j].st \in States /\ rows[j].tries \in 0..MaxAttempts
           /\ DOMAIN rows = 1..Len(rows) /\ Len(rows) \in Nat
           /\ \A x \in files : /\ x.id \in 1..MaxFiles /\ x.dir \in {"transient", "uploads"}
                               /\ x.old \in BOOLEAN
           /\ \A p \in Procs : /\ req[p].kind \in Kinds /\ req[p].file \in 0..MaxFiles
                               /\ req[p].units \in Units \cup {1} /\ req[p].row \in Nat
<1>1. rows \in Seq(Columns)
  BY DEF IntakeTypeOK, SubmitTypeOK, Columns
<1>2. /\ DOMAIN rows = 1..Len(rows) /\ Len(rows) \in Nat
      /\ \A j \in DOMAIN rows : rows[j] \in Columns
  BY <1>1
<1>3. \A r \in Columns : /\ r.kind \in Kinds \cup {"part"} /\ r.file \in 0..MaxFiles
                         /\ r.units \in Units /\ r.st \in States /\ r.tries \in 0..MaxAttempts
  BY DEF Columns
<1>4. \A x \in files : /\ x.id \in 1..MaxFiles /\ x.dir \in {"transient", "uploads"}
                       /\ x.old \in BOOLEAN
  BY DEF IntakeTypeOK, SubmitTypeOK
<1>5. \A p \in Procs : /\ req[p].kind \in Kinds /\ req[p].file \in 0..MaxFiles
                       /\ req[p].units \in Units \cup {1} /\ req[p].row \in Nat
  BY DEF IntakeTypeOK
<1>6. QED
  BY <1>2, <1>3, <1>4, <1>5

\* A row written by _create: it has the types of the columns.
LEMMA RowTyped ==
    ASSUME Bounds, NEW kind \in Kinds \cup {"part"}, NEW f \in 0..MaxFiles, NEW u \in Units
    PROVE  /\ \E a \in Columns : /\ a = Row(kind, f, u) /\ a.kind = kind /\ a.file = f
                                 /\ a.st = "pending" /\ a.tries = 0
           /\ \E a \in Columns : /\ a = [Row(kind, f, u) EXCEPT !.st = "partial"]
                                 /\ a.kind = kind /\ a.file = f /\ a.st = "partial"
<1>1. PICK a : a = [kind |-> kind, file |-> f, units |-> u, st |-> "pending", tries |-> 0]
  OBVIOUS
<1>2. /\ a \in Columns /\ a = Row(kind, f, u) /\ a.kind = kind /\ a.file = f
      /\ a.st = "pending" /\ a.tries = 0
  BY <1>1 DEF Bounds, Row, States, Columns
<1>3. PICK b : b = [a EXCEPT !.st = "partial"]
  OBVIOUS
<1>4. b \in Columns /\ b.kind = kind /\ b.file = f /\ b.st = "partial"
  BY <1>2, <1>3 DEF States, Columns
<1>5. QED
  BY <1>2, <1>3, <1>4

\* The system begins with the invariant.
LEMMA IntakeStarts == Bounds /\ SubmitInit => IntakeInv
<1> SUFFICES ASSUME Bounds, SubmitInit PROVE IntakeInv
    OBVIOUS
<1>1. IntakeTypeOK
  BY DEF Bounds, SubmitInit, IntakeTypeOK, SubmitTypeOK, Idle, NoFile, Kinds
<1>2. QED
  BY <1>1 DEF SubmitInit, IntakeInv, IdsAreUnique, RequestsHaveFiles, FilesAreOwn,
              RowsHaveFiles, TransientsAreOwned

-----------------------------------------------------------------------------
(* Handlers that begin. *)

\* A handler that begins with a request, while rows stay and files are at most added:
\* its request is as RequestsHaveFiles has it, and nothing else changes.
LEMMA Begins ==
    ASSUME Bounds, IntakeInv, NEW p \in Procs, pc[p] = "idle",
           NEW kind \in Kinds, NEW f \in 0..MaxFiles, NEW u \in Units, NEW at \in {"create", "unlink"},
           pc' = [pc EXCEPT ![p] = at],
           req' = [req EXCEPT ![p] = [kind |-> kind, file |-> f, units |-> u, row |-> 0]],
           UNCHANGED rows, IntakeTypeOK', IdsAreUnique', lastFile' \in {lastFile, lastFile + 1},
           \A g : /\ Uploaded(g) => Uploaded(g)'
                  /\ Transient(g) => Transient(g)',
           \A g : Transient(g)' => Transient(g) \/ (g = f /\ kind = "sync"),
           kind = "sync" => f = lastFile + 1 /\ lastFile' = f,
           kind = "sync" /\ Inline => Transient(f)',
           at = "create" /\ NeedsUpload(kind) => Uploaded(f)',
           at = "unlink" => kind = "sync"
    PROVE  IntakeInv'
<1> USE DEF IntakeInv
<1>1. /\ pc \in [Procs -> {"idle", "create", "execute", "finish", "unlink"}]
      /\ req \in [Procs -> [kind : Kinds, file : 0..MaxFiles, units : Units \cup {1}, row : Nat]]
      /\ lastFile \in Nat
  BY DEF IntakeTypeOK, SubmitTypeOK, Bounds
<1>2. /\ pc'[p] = at /\ req'[p] = [kind |-> kind, file |-> f, units |-> u, row |-> 0]
      /\ \A q \in Procs \ {p} : pc'[q] = pc[q] /\ req'[q] = req[q]
  BY <1>1
<1>3. RequestsHaveFiles'
  <2> SUFFICES ASSUME NEW q \in Procs, pc'[q] # "idle"
               PROVE  /\ req'[q].units \in Units
                      /\ req'[q].kind = "sync" => req'[q].file \in 1..lastFile'
                      /\ req'[q].kind = "sync" /\ Inline => Transient(req[q].file)'
                      /\ pc'[q] = "create" /\ NeedsUpload(req[q].kind)' => Uploaded(req[q].file)'
                      /\ pc'[q] # "create" => req'[q].kind = "sync"
                      /\ pc'[q] \in {"execute", "finish"} =>
                            /\ req'[q].row \in DOMAIN rows'
                            /\ rows'[req'[q].row].file = req'[q].file
                      /\ pc'[q] = "finish" => rows'[req'[q].row].st = "parsing"
    BY DEF RequestsHaveFiles
  <2>1. CASE q = p
    BY <1>1, <1>2, <2>1 DEF NeedsUpload
  <2>2. CASE q # p
    BY <1>1, <1>2, <2>2 DEF RequestsHaveFiles, NeedsUpload
  <2>3. QED
    BY <2>1, <2>2
<1>4. FilesAreOwn'
  BY <1>1, <1>2 DEF FilesAreOwn, RequestsHaveFiles
<1>5. RowsHaveFiles'
  <2>1. \A q \in Procs, j \in DOMAIN rows : Executes(q, j) => Executes(q, j)'
    BY <1>1, <1>2 DEF Executes
  <2>2. QED
    BY <2>1 DEF RowsHaveFiles, NeedsUpload
<1>6. TransientsAreOwned'
  <2> SUFFICES ASSUME NEW x \in files', x.dir = "transient"
               PROVE  \E q \in Procs : pc'[q] # "idle" /\ req'[q].kind = "sync"
                                       /\ req'[q].file = x.id
    BY DEF TransientsAreOwned
  <2>1. Transient(x.id)'
    BY DEF Transient
  <2>2. CASE Transient(x.id)
    <3>1. PICK q \in Procs : pc[q] # "idle" /\ req[q].kind = "sync" /\ req[q].file = x.id
      BY <2>2 DEF Transient, TransientsAreOwned
    <3>2. QED
      BY <3>1, <1>2
  <2>3. CASE x.id = f /\ kind = "sync"
    BY <2>3, <1>2
  <2>4. QED
    BY <2>1, <2>2, <2>3
<1>7. QED
  BY <1>3, <1>4, <1>5, <1>6

\* create_job for an uploaded file begins a request for it.
LEMMA CreateJobKeeps ==
    ASSUME Bounds, IntakeInv, NEW p \in Procs, NEW x \in files, NEW u \in Units, CreateJob(p, x, u)
    PROVE  IntakeInv'
<1>1. IntakeTypeOK /\ IntakeTypeOK'
  BY IntakeTypes DEF IntakeInv, IntakeTypeOK, SubmitTypeOK, CreateJob, Start, Kinds, Bounds
<1>2. /\ x.id \in 0..MaxFiles /\ x.dir = "uploads" /\ pc[p] = "idle"
      /\ UNCHANGED <<rows, files, expired, lastFile>>
  BY <1>1, IntakeTypes DEF CreateJob
<1>3. Uploaded(x.id)' /\ IdsAreUnique' /\ "create" \in Kinds
  BY <1>2 DEF Uploaded, IntakeInv, IdsAreUnique, Kinds
<1>4. \A g : (Uploaded(g)' <=> Uploaded(g)) /\ (Transient(g)' <=> Transient(g))
  BY <1>2 DEF Uploaded, Transient
<1>5. QED
  BY <1>1, <1>2, <1>3, <1>4, Begins DEF CreateJob, Start

\* A repetition begins a request for the file of the latest job.
LEMMA RerunKeeps ==
    ASSUME Bounds, IntakeInv, NEW p \in Procs, NEW kind \in {"rerun", "parent"}, Rerun(p, kind)
    PROVE  IntakeInv'
<1>1. /\ IntakeTypeOK /\ pc[p] = "idle" /\ rows # <<>>
      /\ UNCHANGED <<rows, files, expired, lastFile, reading>>
      /\ Start(p, kind, rows[Len(rows)].file, rows[Len(rows)].units)
  BY DEF IntakeInv, Rerun
<1>2. PICK f \in 0..MaxFiles, u \in Units :
        f = rows[Len(rows)].file /\ u = rows[Len(rows)].units
  <2>1. Len(rows) \in DOMAIN rows
    BY <1>1 DEF IntakeTypeOK, SubmitTypeOK
  <2>2. QED
    BY <2>1, <1>1, IntakeTypes
<1>3. /\ pc' = [pc EXCEPT ![p] = "create"] /\ kind \in Kinds
      /\ req' = [req EXCEPT ![p] = [kind |-> kind, file |-> f, units |-> u, row |-> 0]]
  BY <1>1, <1>2 DEF Start, Kinds
<1>4. IntakeTypeOK'
  BY <1>1, <1>3 DEF IntakeTypeOK, SubmitTypeOK
<1>5. IdsAreUnique' /\ kind # "sync" /\ ~NeedsUpload(kind)
  BY <1>1 DEF IntakeInv, IdsAreUnique, NeedsUpload
<1>6. \A g : (Uploaded(g)' <=> Uploaded(g)) /\ (Transient(g)' <=> Transient(g))
  BY <1>1 DEF Uploaded, Transient
<1>7. QED
  BY <1>1, <1>3, <1>4, <1>5, <1>6, Begins

\* A file that is added has an id of its own.
LEMMA Added ==
    ASSUME Bounds, IntakeInv, NEW dir \in {"transient", "uploads"}, lastFile < MaxFiles,
           dir = "transient" => Inline,
           NEW f, f = lastFile + 1, lastFile' = f, files' = files \cup {NewFile(dir)},
           UNCHANGED expired
    PROVE  /\ IdsAreUnique' /\ f \in 1..MaxFiles
           /\ files' \subseteq [id : 1..MaxFiles, dir : {"transient", "uploads"}, old : BOOLEAN]
           /\ expired' \subseteq 1..lastFile' /\ lastFile' \in 0..MaxFiles
           /\ dir = "uploads" => Uploaded(f)'
           /\ dir = "transient" => Transient(f)'
           /\ \A g : /\ Uploaded(g) => Uploaded(g)'
                     /\ Transient(g) => Transient(g)'
                     /\ Transient(g)' => Transient(g) \/ (g = f /\ dir = "transient")
<1>1. IntakeTypeOK /\ IdsAreUnique /\ lastFile \in Nat /\ MaxFiles \in Nat
  BY DEF IntakeInv, IntakeTypeOK, Bounds
<1>2. NewFile(dir) = [id |-> f, dir |-> dir, old |-> FALSE]
  BY DEF NewFile
<1>3. \A x \in files : x.id \in 1..MaxFiles
  BY <1>1, IntakeTypes
<1>4. IdsAreUnique'
  BY <1>1, <1>2, <1>3 DEF IdsAreUnique
<1>5. /\ files' \subseteq [id : 1..MaxFiles, dir : {"transient", "uploads"}, old : BOOLEAN]
      /\ expired' \subseteq 1..lastFile' /\ lastFile' \in 0..MaxFiles /\ f \in 1..MaxFiles
  <2>1. f \in 1..MaxFiles /\ lastFile' \in 0..MaxFiles
    BY <1>1 DEF IntakeTypeOK
  <2>2. NewFile(dir) \in [id : 1..MaxFiles, dir : {"transient", "uploads"}, old : BOOLEAN]
    BY <1>2, <2>1
  <2>3. expired \subseteq 1..lastFile
        /\ files \subseteq [id : 1..MaxFiles, dir : {"transient", "uploads"}, old : BOOLEAN]
    BY <1>1 DEF IntakeTypeOK, SubmitTypeOK
  <2>4. 1..lastFile \subseteq 1..lastFile'
    BY <1>1
  <2>5. QED
    BY <2>1, <2>2, <2>3, <2>4
<1>6. NewFile(dir) \in files' /\ NewFile(dir).id = f /\ NewFile(dir).dir = dir
  BY <1>2
<1>7. /\ dir = "uploads" => Uploaded(f)'
      /\ dir = "transient" => Transient(f)'
  BY <1>6 DEF Uploaded, Transient
<1>8. ASSUME NEW g
      PROVE  /\ Uploaded(g) => Uploaded(g)'
             /\ Transient(g) => Transient(g)'
             /\ Transient(g)' => Transient(g) \/ (g = f /\ dir = "transient")
  BY <1>6 DEF Uploaded, Transient
<1>9. QED
  BY <1>4, <1>5, <1>7, <1>8

\* A synchronous upload begins a request for the file that it writes, also when the
\* quota refuses it: then only the file is left to be deleted.
LEMMA SyncUploadKeeps ==
    ASSUME Bounds, IntakeInv, NEW p \in Procs, NEW u \in Units, SyncUpload(p, u)
    PROVE  IntakeInv'
<1>0. PICK f : f = lastFile + 1
  OBVIOUS
<1>1. PICK dir \in {"transient", "uploads"} :
        /\ f = lastFile + 1 /\ dir = UploadDir
        /\ pc[p] = "idle" /\ lastFile < MaxFiles /\ lastFile' = f
        /\ files' = files \cup {NewFile(dir)} /\ UNCHANGED <<rows, expired, reading>>
        /\ dir = "transient" => Inline
  <2>1. UploadDir \in {"transient", "uploads"} /\ (UploadDir = "transient" => Inline)
    BY DEF UploadDir
  <2>2. /\ pc[p] = "idle" /\ lastFile < MaxFiles /\ lastFile' = lastFile + 1
        /\ files' = files \cup {NewFile(UploadDir)} /\ UNCHANGED <<rows, expired, reading>>
    BY DEF SyncUpload
  <2>3. QED
    BY <1>0, <2>1, <2>2
<1>2. PICK at \in {"create", "unlink"} :
        /\ pc' = [pc EXCEPT ![p] = at]
        /\ req' = [req EXCEPT ![p] = [kind |-> "sync", file |-> f, units |-> u, row |-> 0]]
  BY <1>1 DEF SyncUpload, Start
<1>3. /\ IdsAreUnique' /\ f \in 1..MaxFiles
      /\ files' \subseteq [id : 1..MaxFiles, dir : {"transient", "uploads"}, old : BOOLEAN]
      /\ expired' \subseteq 1..lastFile' /\ lastFile' \in 0..MaxFiles
      /\ dir = "uploads" => Uploaded(f)'
      /\ dir = "transient" => Transient(f)'
      /\ \A g : /\ Uploaded(g) => Uploaded(g)'
                /\ Transient(g) => Transient(g)'
                /\ Transient(g)' => Transient(g) \/ (g = f /\ dir = "transient")
  BY <1>1, Added
<1>4. IntakeTypeOK'
  BY <1>1, <1>2, <1>3 DEF IntakeInv, IntakeTypeOK, SubmitTypeOK, Kinds, Bounds
<1>5. /\ Inline => Transient(f)'
      /\ NeedsUpload("sync") => Uploaded(f)'
      /\ "sync" \in Kinds /\ f \in 0..MaxFiles
  BY <1>1, <1>3 DEF UploadDir, NeedsUpload, Kinds, Bounds
<1>6. QED
  BY <1>1, <1>2, <1>3, <1>4, <1>5, Begins

\* The handler of a staged upload begins to read: what the cleanup removes is expired.
LEMMA StageArrivesKeeps ==
    ASSUME Bounds, IntakeInv, NEW p \in Procs, StageArrives(p)
    PROVE  IntakeInv'
<1> USE DEF IntakeInv
<1>1. /\ UNCHANGED <<rows, lastFile, pc, req>> /\ reading' = reading \cup {p}
      /\ files' = files \ Expired /\ expired' = expired \cup {x.id : x \in Expired}
      /\ \A x \in Expired : x \in files /\ x.dir = "uploads"
  BY DEF StageArrives, Expired
<1>2. IntakeTypeOK'
  <2>1. \A x \in files : x.id \in 1..lastFile
    BY IntakeTypes DEF IdsAreUnique, IntakeTypeOK, Bounds
  <2>2. QED
    BY <1>1, <2>1 DEF IntakeTypeOK, SubmitTypeOK
<1>3. IdsAreUnique'
  BY <1>1 DEF IdsAreUnique
<1>4. \A g : (Uploaded(g) => Uploaded(g)') /\ (Transient(g) => Transient(g)')
  BY <1>1 DEF Uploaded, Transient
<1>5. RequestsHaveFiles'
  BY <1>1, <1>4 DEF RequestsHaveFiles, NeedsUpload
<1>6. FilesAreOwn'
  BY <1>1 DEF FilesAreOwn
<1>7. RowsHaveFiles'
  BY <1>1, <1>4 DEF RowsHaveFiles, NeedsUpload, Executes
<1>8. TransientsAreOwned'
  BY <1>1 DEF TransientsAreOwned
<1>9. QED
  BY <1>2, <1>3, <1>5, <1>6, <1>7, <1>8

\* What leaves requests and rows alone and keeps the files keeps the invariant.
LEMMA Rests ==
    ASSUME Bounds, IntakeInv, UNCHANGED <<rows, pc, req>>, IntakeTypeOK', IdsAreUnique',
           lastFile' \in {lastFile, lastFile + 1},
           \A g : /\ Uploaded(g) => Uploaded(g)'
                  /\ Transient(g)' <=> Transient(g)
    PROVE  IntakeInv'
<1> USE DEF IntakeInv
<1>1. RequestsHaveFiles'
  BY DEF RequestsHaveFiles, NeedsUpload, IntakeTypeOK, SubmitTypeOK, Bounds
<1>2. FilesAreOwn'
  BY DEF FilesAreOwn
<1>3. RowsHaveFiles'
  BY DEF RowsHaveFiles, NeedsUpload, Executes
<1>4. TransientsAreOwned'
  BY DEF TransientsAreOwned, Transient
<1>5. QED
  BY <1>1, <1>2, <1>3, <1>4

\* The body of a staged upload has come: its file stays, and a job may be asked for.
LEMMA StageUploadKeeps ==
    ASSUME Bounds, IntakeInv, NEW p \in Procs, NEW u \in Units, NEW wanted \in BOOLEAN,
           StageUpload(p, u, wanted)
    PROVE  IntakeInv'
<1>1. PICK f :
        /\ f = lastFile + 1
        /\ pc[p] = "idle" /\ lastFile < MaxFiles /\ lastFile' = f /\ reading' = reading \ {p}
        /\ files' = files \cup {NewFile("uploads")} /\ UNCHANGED <<rows, expired>>
  BY DEF StageUpload
<1>2. /\ IdsAreUnique' /\ f \in 1..MaxFiles
      /\ files' \subseteq [id : 1..MaxFiles, dir : {"transient", "uploads"}, old : BOOLEAN]
      /\ expired' \subseteq 1..lastFile' /\ lastFile' \in 0..MaxFiles
      /\ Uploaded(f)'
      /\ \A g : /\ Uploaded(g) => Uploaded(g)'
                /\ Transient(g)' <=> Transient(g)
  BY <1>1, Added
<1>3. CASE /\ pc' = [pc EXCEPT ![p] = "create"]
           /\ req' = [req EXCEPT ![p] = [kind |-> "stage", file |-> f, units |-> u, row |-> 0]]
  <2>1. IntakeTypeOK'
    BY <1>1, <1>2, <1>3 DEF IntakeInv, IntakeTypeOK, SubmitTypeOK, Kinds, Bounds
  <2>2. f \in 0..MaxFiles /\ "stage" \in Kinds
    BY <1>2 DEF Kinds, Bounds
  <2>3. QED
    BY <1>1, <1>2, <1>3, <2>1, <2>2, Begins
<1>4. CASE UNCHANGED <<pc, req>>
  <2>1. IntakeTypeOK'
    BY <1>1, <1>2, <1>4 DEF IntakeInv, IntakeTypeOK, SubmitTypeOK
  <2>2. QED
    BY <1>1, <1>2, <1>4, <2>1, Rests
<1>5. QED
  BY <1>1, <1>3, <1>4 DEF StageUpload, Start

\* A file grows older.
LEMMA AgeKeeps ==
    ASSUME Bounds, IntakeInv, NEW x \in files, Age(x)
    PROVE  IntakeInv'
<1>1. IntakeTypeOK /\ IdsAreUnique /\ UNCHANGED <<rows, expired, lastFile, pc, req, reading>>
      /\ x.dir = "uploads"
  BY DEF IntakeInv, Age
<1>2. PICK y \in [id : 1..MaxFiles, dir : {"transient", "uploads"}, old : BOOLEAN] :
        /\ files' = (files \ {x}) \cup {y}
        /\ y.id = x.id /\ y.dir = x.dir
  <2>1. x \in [id : 1..MaxFiles, dir : {"transient", "uploads"}, old : BOOLEAN]
    BY <1>1 DEF IntakeTypeOK, SubmitTypeOK
  <2>2. /\ [x EXCEPT !.old = TRUE] \in [id : 1..MaxFiles, dir : {"transient", "uploads"},
                                        old : BOOLEAN]
        /\ [x EXCEPT !.old = TRUE].id = x.id /\ [x EXCEPT !.old = TRUE].dir = x.dir
    BY <2>1
  <2>3. QED
    BY <2>2 DEF Age
<1>3. IntakeTypeOK'
  BY <1>1, <1>2 DEF IntakeTypeOK, SubmitTypeOK
<1>4. IdsAreUnique'
  BY <1>1, <1>2 DEF IdsAreUnique
<1>5. \A g : (Uploaded(g) => Uploaded(g)') /\ (Transient(g)' <=> Transient(g))
  BY <1>1, <1>2 DEF Uploaded, Transient
<1>6. QED
  BY <1>1, <1>3, <1>4, <1>5, Rests

-----------------------------------------------------------------------------
(* Rows that are made, claimed and ended. *)

\* A row that becomes st, with t attempts; the others stay.
RowBecomes(j, st, t) ==
    /\ rows' \in Seq(Columns) /\ DOMAIN rows' = DOMAIN rows
    /\ \A k \in DOMAIN rows \ {j} : rows'[k] = rows[k]
    /\ rows'[j].st = st /\ rows'[j].tries = t
    /\ rows'[j].kind = rows[j].kind /\ rows'[j].file = rows[j].file

\* One row of a sequence of rows is replaced.
LEMMA RowReplaced ==
    ASSUME Bounds, IntakeTypeOK, NEW j \in DOMAIN rows, NEW st \in States, NEW t \in 0..MaxAttempts,
           rows' = [rows EXCEPT ![j] = [@ EXCEPT !.st = st, !.tries = t]]
    PROVE  RowBecomes(j, st, t)
<1>1. rows \in Seq(Columns)
  BY DEF IntakeTypeOK, SubmitTypeOK, Columns
<1>2. PICK r : r = [rows[j] EXCEPT !.st = st, !.tries = t]
  OBVIOUS
<1>3. rows[j] \in Columns /\ DOMAIN rows = 1..Len(rows) /\ Len(rows) \in Nat
  BY <1>1
<1>4. r \in Columns /\ r.st = st /\ r.tries = t /\ r.kind = rows[j].kind /\ r.file = rows[j].file
  BY <1>2, <1>3 DEF Columns
<1>5. rows' = [rows EXCEPT ![j] = r]
  BY <1>2
<1>6. QED
  BY <1>1, <1>3, <1>4, <1>5 DEF RowBecomes

\* A claim: the row is parsing, with one attempt more.
LEMMA Claims ==
    ASSUME Bounds, IntakeInv, NEW j \in DOMAIN rows, Claim(j)
    PROVE  /\ rows[j].st = "pending"
           /\ \E t \in 0..MaxAttempts : RowBecomes(j, "parsing", t)
<1>1. /\ IntakeTypeOK /\ rows[j].st = "pending"
      /\ rows[j].tries < MaxAttempts /\ rows[j].tries \in 0..MaxAttempts
  BY IntakeTypes DEF IntakeInv, RowsHaveFiles, Claim
<1>2. PICK t \in 0..MaxAttempts : t = rows[j].tries + 1
  BY <1>1 DEF Bounds
<1>3. rows' = [rows EXCEPT ![j] = [@ EXCEPT !.st = "parsing", !.tries = t]]
  BY <1>2 DEF Claim
<1>4. QED
  BY <1>1, <1>3, RowReplaced DEF States

\* An execution ends: only the queue tries again, and only while attempts are left.
LEMMA Ends ==
    ASSUME Bounds, IntakeInv, NEW j \in DOMAIN rows, NEW st \in Outcomes(j),
           rows' = [rows EXCEPT ![j].st = st]
    PROVE  /\ st \in States /\ (st = "pending" => ~Inline)
           /\ \E t \in 0..MaxAttempts :
                RowBecomes(j, st, t) /\ (st = "pending" => t < MaxAttempts)
<1>1. /\ IntakeTypeOK /\ rows[j].tries \in 0..MaxAttempts /\ rows[j] \in Columns
  <2>1. IntakeTypeOK /\ rows \in Seq(Columns)
    BY DEF IntakeInv, IntakeTypeOK, SubmitTypeOK, Columns
  <2>2. QED
    BY <2>1, IntakeTypes
<1>2. st \in States /\ (st = "pending" => ~Inline /\ rows[j].tries < MaxAttempts)
  <2>1. st \in {"done"} \/ st \in (IF Inline \/ rows[j].tries >= MaxAttempts THEN {"failed"} ELSE {"pending"})
    BY DEF Outcomes
  <2>2. QED
    BY <2>1, <1>1 DEF States, Bounds
<1>3. PICK t \in 0..MaxAttempts : t = rows[j].tries
  BY <1>1
<1>4. [rows[j] EXCEPT !.st = st] = [rows[j] EXCEPT !.st = st, !.tries = t]
  BY <1>1, <1>3 DEF Columns
<1>5. rows' = [rows EXCEPT ![j] = [@ EXCEPT !.st = st, !.tries = t]]
  BY <1>4
<1>6. QED
  BY <1>1, <1>2, <1>3, <1>5, RowReplaced

\* A row that has not ended goes on, while files and requests stay: the invariant is kept
\* if a synchronous row of the inline mode that has not ended still has its handler.
LEMMA Moves ==
    ASSUME Bounds, IntakeInv, NEW j \in DOMAIN rows, rows[j].st \in Live,
           NEW st \in States, NEW t \in 0..MaxAttempts, RowBecomes(j, st, t),
           st = "pending" => t < MaxAttempts,
           UNCHANGED <<files, expired, lastFile, req, reading>>,
           pc' \in [Procs -> {"idle", "create", "execute", "finish", "unlink"}],
           \A q \in Procs : /\ pc'[q] = "idle" <=> pc[q] = "idle"
                            /\ pc'[q] = "create" <=> pc[q] = "create"
                            /\ pc'[q] \in {"execute", "finish"} => pc[q] \in {"execute", "finish"},
           \A k \in DOMAIN rows \ {j}, q \in Procs : Executes(q, k) => Executes(q, k)',
           rows[j].kind = "sync" /\ Inline /\ st \in Live => \E q \in Procs : Executes(q, j)',
           \A q \in Procs : pc'[q] = "finish" =>
                (req[q].row = j /\ st = "parsing") \/ (req[q].row # j /\ pc[q] = "finish")
    PROVE  IntakeInv'
<1> USE DEF IntakeInv
<1>1. \A g : (Uploaded(g)' <=> Uploaded(g)) /\ (Transient(g)' <=> Transient(g))
  BY DEF Uploaded, Transient
<1>2. IntakeTypeOK'
  BY DEF RowBecomes, IntakeTypeOK, SubmitTypeOK, Columns
<1>3. IdsAreUnique'
  BY DEF IdsAreUnique
<1>4. RequestsHaveFiles'
  BY <1>1 DEF RequestsHaveFiles, NeedsUpload, RowBecomes
<1>5. FilesAreOwn'
  BY DEF FilesAreOwn
<1>6. RowsHaveFiles'
  <2> SUFFICES ASSUME NEW k \in DOMAIN rows'
               PROVE  /\ rows'[k].st = "pending" => rows'[k].tries < MaxAttempts
                      /\ rows'[k].kind = "part" => rows'[k].file = NoFile
                      /\ rows'[k].st \in Live =>
                            /\ rows'[k].kind # "parent"
                            /\ NeedsUpload(rows'[k].kind) => Uploaded(rows[k].file)'
                            /\ rows'[k].kind = "sync" /\ Inline => \E q \in Procs : Executes(q, k)'
    BY DEF RowsHaveFiles, NeedsUpload
  <2>1. k \in DOMAIN rows
    BY DEF RowBecomes
  <2>2. CASE k = j
    BY <1>1, <2>1, <2>2 DEF RowBecomes, RowsHaveFiles, NeedsUpload
  <2>3. CASE k # j
    BY <1>1, <2>1, <2>3 DEF RowBecomes, RowsHaveFiles, NeedsUpload
  <2>4. QED
    BY <2>2, <2>3
<1>7. TransientsAreOwned'
  BY DEF TransientsAreOwned
<1>8. QED
  BY <1>2, <1>3, <1>4, <1>5, <1>6, <1>7

\* A thread or a worker takes a job: never a synchronous one of the inline mode.
LEMMA TakeKeeps ==
    ASSUME Bounds, IntakeInv, NEW j \in DOMAIN rows, Take(j)
    PROVE  IntakeInv'
<1>1. /\ rows[j].st = "pending" /\ (Inline => rows[j].kind # "sync")
      /\ UNCHANGED <<files, expired, lastFile, pc, req, reading>>
  BY DEF Take, MayTake, Claim
<1>2. PICK t \in 0..MaxAttempts : RowBecomes(j, "parsing", t)
  BY Claims DEF Take
<1>3. \A k \in DOMAIN rows \ {j}, q \in Procs : Executes(q, k) => Executes(q, k)'
  BY <1>1, <1>2 DEF Executes, RowBecomes
<1>4. pc' \in [Procs -> {"idle", "create", "execute", "finish", "unlink"}]
  BY <1>1 DEF IntakeInv, IntakeTypeOK, SubmitTypeOK
<1>5. /\ "parsing" \in States /\ rows[j].st \in Live
      /\ \A q \in Procs : pc'[q] = "finish" => req[q].row # j /\ pc[q] = "finish"
  BY <1>1 DEF States, Live, IntakeInv, RequestsHaveFiles
<1>6. QED
  BY <1>1, <1>2, <1>3, <1>4, <1>5, Moves

\* A thread or a worker ends a job that no handler executes.
LEMMA EndKeeps ==
    ASSUME Bounds, IntakeInv, NEW j \in DOMAIN rows, End(j)
    PROVE  IntakeInv'
<1>1. /\ rows[j].st = "parsing" /\ (\A p \in Procs : pc[p] = "finish" => req[p].row # j)
      /\ UNCHANGED <<files, expired, lastFile, pc, req, reading>>
  BY DEF End
<1>2. PICK st \in Outcomes(j) : rows' = [rows EXCEPT ![j].st = st]
  BY DEF End
<1>3. PICK t \in 0..MaxAttempts : /\ RowBecomes(j, st, t) /\ st \in States
                                  /\ st = "pending" => t < MaxAttempts
  BY <1>2, Ends
<1>4. \A k \in DOMAIN rows \ {j}, q \in Procs : Executes(q, k) => Executes(q, k)'
  BY <1>1, <1>3 DEF Executes, RowBecomes
<1>5. pc' \in [Procs -> {"idle", "create", "execute", "finish", "unlink"}]
  BY <1>1 DEF IntakeInv, IntakeTypeOK, SubmitTypeOK
<1>6. rows[j].st \in Live /\ ~(rows[j].kind = "sync" /\ Inline)
  BY <1>1 DEF IntakeInv, RowsHaveFiles, Live, Executes
<1>7. QED
  BY <1>1, <1>3, <1>4, <1>5, <1>6, Moves

\* A handler has its row executed: it claims it, or a worker has been faster.
LEMMA ExecuteKeeps ==
    ASSUME Bounds, IntakeInv, NEW p \in Procs, Execute(p)
    PROVE  IntakeInv'
<1>1. /\ pc[p] = "execute" /\ UNCHANGED <<files, expired, lastFile, req, reading>>
      /\ pc \in [Procs -> {"idle", "create", "execute", "finish", "unlink"}]
  BY DEF Execute, IntakeInv, IntakeTypeOK, SubmitTypeOK
<1>2. PICK k \in DOMAIN rows : k = req[p].row
  BY <1>1 DEF IntakeInv, RequestsHaveFiles
<1>3. CASE rows[k].st = "pending"
  <2>1. Claim(k) /\ pc' = [pc EXCEPT ![p] = "finish"]
    BY <1>2, <1>3 DEF Execute
  <2>2. PICK t \in 0..MaxAttempts : RowBecomes(k, "parsing", t)
    BY <2>1, Claims
  <2>3. /\ \A q \in Procs : /\ pc'[q] = "idle" <=> pc[q] = "idle"
                            /\ pc'[q] = "create" <=> pc[q] = "create"
                            /\ pc'[q] \in {"execute", "finish"} => pc[q] \in {"execute", "finish"}
        /\ pc' \in [Procs -> {"idle", "create", "execute", "finish", "unlink"}]
    BY <1>1, <2>1
  <2>4. \A i \in DOMAIN rows \ {k}, q \in Procs : Executes(q, i) => Executes(q, i)'
    BY <1>1, <1>2, <2>1, <2>2 DEF Executes, RowBecomes
  <2>5. Executes(p, k)'
    BY <1>1, <1>2, <2>1, <2>2 DEF Executes, RowBecomes
  <2>6. /\ "parsing" \in States /\ rows[k].st \in Live
        /\ \A q \in Procs : pc'[q] = "finish" => req[q].row = k \/ pc[q] = "finish"
    BY <1>1, <1>2, <1>3, <2>1 DEF States, Live
  <2>7. QED
    BY <1>1, <2>2, <2>3, <2>4, <2>5, <2>6, Moves
<1>4. CASE rows[k].st # "pending"
  <2>1. UNCHANGED rows /\ pc' = [pc EXCEPT ![p] = "unlink"]
    BY <1>2, <1>4 DEF Execute
  <2>2. IntakeTypeOK' /\ IdsAreUnique'
    BY <1>1, <2>1 DEF IntakeInv, IntakeTypeOK, SubmitTypeOK, IdsAreUnique
  <2>3. \A g : (Uploaded(g)' <=> Uploaded(g)) /\ (Transient(g)' <=> Transient(g))
    BY <1>1 DEF Uploaded, Transient
  <2>4. RequestsHaveFiles' /\ FilesAreOwn'
    BY <1>1, <2>1, <2>3 DEF IntakeInv, RequestsHaveFiles, NeedsUpload, FilesAreOwn
  <2>5. \A i \in DOMAIN rows, q \in Procs : Executes(q, i) => Executes(q, i)'
    BY <1>1, <1>2, <1>4, <2>1 DEF Executes
  <2>6. RowsHaveFiles'
    BY <2>1, <2>3, <2>5 DEF IntakeInv, RowsHaveFiles, NeedsUpload
  <2>7. TransientsAreOwned'
    BY <1>1, <2>1 DEF IntakeInv, TransientsAreOwned
  <2>8. QED
    BY <2>2, <2>4, <2>6, <2>7 DEF IntakeInv
<1>5. QED
  BY <1>3, <1>4

\* A handler ends the execution of its row.
LEMMA FinishKeeps ==
    ASSUME Bounds, IntakeInv, NEW p \in Procs, Finish(p)
    PROVE  IntakeInv'
<1>1. /\ pc[p] = "finish" /\ UNCHANGED <<files, expired, lastFile, req, reading>>
      /\ pc \in [Procs -> {"idle", "create", "execute", "finish", "unlink"}]
      /\ pc' = [pc EXCEPT ![p] = "unlink"]
  BY DEF Finish, IntakeInv, IntakeTypeOK, SubmitTypeOK
<1>2. PICK k \in DOMAIN rows : k = req[p].row
  BY <1>1 DEF IntakeInv, RequestsHaveFiles
<1>3. PICK st \in Outcomes(k) : rows' = [rows EXCEPT ![k].st = st]
  BY <1>2 DEF Finish
<1>4. PICK t \in 0..MaxAttempts : /\ RowBecomes(k, st, t) /\ st \in States
                                  /\ st = "pending" => t < MaxAttempts
                                  /\ st = "pending" => ~Inline
  BY <1>3, Ends
<1>5. st # "parsing"
  BY <1>3 DEF Outcomes
<1>6. /\ \A q \in Procs : /\ pc'[q] = "idle" <=> pc[q] = "idle"
                          /\ pc'[q] = "create" <=> pc[q] = "create"
                          /\ pc'[q] \in {"execute", "finish"} => pc[q] \in {"execute", "finish"}
      /\ pc' \in [Procs -> {"idle", "create", "execute", "finish", "unlink"}]
  BY <1>1
<1>7. ASSUME NEW i \in DOMAIN rows \ {k}, NEW q \in Procs, Executes(q, i)
      PROVE  Executes(q, i)'
  <2>1. rows'[i] = rows[i]
    BY <1>4 DEF RowBecomes
  <2>2. q # p /\ pc'[q] = pc[q] /\ req'[q] = req[q]
    BY <1>1, <1>2, <1>7 DEF Executes
  <2>3. QED
    BY <1>7, <2>1, <2>2 DEF Executes
<1>8. rows[k].st = "parsing" /\ req[p].kind = "sync" /\ req[p].file = rows[k].file
  BY <1>1, <1>2 DEF IntakeInv, RequestsHaveFiles
<1>9. \A q \in Procs : pc'[q] = "finish" => req[q].row # k /\ pc[q] = "finish"
  <2> SUFFICES ASSUME NEW q \in Procs, pc'[q] = "finish", req[q].row = k
               PROVE  FALSE
    BY <1>1
  <2>1. q # p /\ pc[q] = "finish"
    BY <1>1
  <2>2. req[q].kind = "sync" /\ req[q].file = rows[k].file
    BY <2>1 DEF IntakeInv, RequestsHaveFiles
  <2>3. QED
    BY <1>1, <1>8, <2>1, <2>2 DEF IntakeInv, FilesAreOwn
<1>10. /\ rows[k].st \in Live
       /\ ~(rows[k].kind = "sync" /\ Inline /\ st \in Live)
  <2>1. st \in Live => st = "pending"
    BY <1>5 DEF Live
  <2>2. rows[k].st \in Live
    BY <1>8 DEF Live
  <2>3. st = "pending" => ~Inline
    BY <1>4
  <2>4. QED
    BY <2>1, <2>2, <2>3
<1>11. QED
  BY <1>1, <1>4, <1>6, <1>7, <1>9, <1>10, Moves

\* The finally of a synchronous handler: of the files that the runs of others need, none is
\* removed.
LEMMA UnlinkKeeps ==
    ASSUME Bounds, IntakeInv, NEW p \in Procs, Unlink(p)
    PROVE  IntakeInv'
<1> USE DEF IntakeInv
<1>1. /\ pc[p] = "unlink" /\ files' = Kept(req[p].file)
      /\ UNCHANGED <<rows, expired, lastFile, reading>>
      /\ pc' = [pc EXCEPT ![p] = "idle"] /\ req' = [req EXCEPT ![p] = Idle]
      /\ pc \in [Procs -> {"idle", "create", "execute", "finish", "unlink"}]
      /\ req \in [Procs -> [kind : Kinds, file : 0..MaxFiles, units : Units \cup {1}, row : Nat]]
  BY DEF Unlink, Refuse, IntakeTypeOK, SubmitTypeOK
<1>2. /\ pc'[p] = "idle"
      /\ \A q \in Procs \ {p} : pc'[q] = pc[q] /\ req'[q] = req[q]
  BY <1>1
<1>3. /\ req[p].kind = "sync" /\ (Inline => Transient(req[p].file))
      /\ files' \subseteq files
  BY <1>1 DEF RequestsHaveFiles, Kept
<1>4. IntakeTypeOK'
  <2>1. Idle \in [kind : Kinds, file : 0..MaxFiles, units : Units \cup {1}, row : Nat]
    BY DEF Idle, NoFile, Kinds, Bounds
  <2>2. QED
    BY <1>1, <1>3, <2>1 DEF IntakeTypeOK, SubmitTypeOK
<1>5. IdsAreUnique'
  BY <1>1, <1>3 DEF IdsAreUnique
<1>6. ASSUME NEW g, Uploaded(g) PROVE Uploaded(g)'
  <2>1. CASE g \in expired
    BY <1>1, <2>1 DEF Uploaded
  <2>2. CASE g \notin expired
    <3>1. PICK x \in files : x.id = g /\ x.dir = "uploads"
      BY <1>6, <2>2 DEF Uploaded
    <3>2. Inline => x.id # req[p].file
      BY <1>3, <3>1 DEF Transient, IdsAreUnique
    <3>3. x \in files'
      BY <1>1, <3>2 DEF Kept
    <3>4. QED
      BY <3>1, <3>3 DEF Uploaded
  <2>3. QED
    BY <2>1, <2>2
<1>7. ASSUME NEW g, Transient(g), g # req[p].file PROVE Transient(g)'
  BY <1>1, <1>7 DEF Transient, Kept
<1>8. RequestsHaveFiles'
  <2> SUFFICES ASSUME NEW q \in Procs, pc'[q] # "idle"
               PROVE  /\ req'[q].units \in Units
                      /\ req'[q].kind = "sync" => req'[q].file \in 1..lastFile'
                      /\ req'[q].kind = "sync" /\ Inline => Transient(req[q].file)'
                      /\ pc'[q] = "create" /\ NeedsUpload(req[q].kind)' => Uploaded(req[q].file)'
                      /\ pc'[q] # "create" => req'[q].kind = "sync"
                      /\ pc'[q] \in {"execute", "finish"} =>
                            /\ req'[q].row \in DOMAIN rows'
                            /\ rows'[req'[q].row].file = req'[q].file
                      /\ pc'[q] = "finish" => rows'[req'[q].row].st = "parsing"
    BY DEF RequestsHaveFiles
  <2>1. q # p /\ pc'[q] = pc[q] /\ req'[q] = req[q] /\ pc[q] # "idle"
    BY <1>2
  <2>2. PICK f : f = req[q].file /\ f = req'[q].file
    BY <2>1
  <2>3. req[q].kind = "sync" /\ Inline => Transient(f)'
    <3>1. req[q].kind = "sync" => f # req[p].file
      BY <1>1, <1>3, <2>1, <2>2 DEF FilesAreOwn
    <3>2. req[q].kind = "sync" /\ Inline => Transient(f)
      BY <2>1, <2>2 DEF RequestsHaveFiles
    <3>3. QED
      BY <3>1, <3>2, <1>7
  <2>4. pc[q] = "create" /\ NeedsUpload(req[q].kind) => Uploaded(f)'
    BY <2>1, <2>2, <1>6 DEF RequestsHaveFiles
  <2>5. (Transient(f)' => Transient(req[q].file)') /\ (Uploaded(f)' => Uploaded(req[q].file)')
    BY <2>2 DEF Transient, Uploaded
  <2>6. QED
    BY <1>1, <2>1, <2>3, <2>4, <2>5 DEF RequestsHaveFiles, NeedsUpload
<1>9. FilesAreOwn'
  BY <1>2 DEF FilesAreOwn
<1>10. RowsHaveFiles'
  <2> SUFFICES ASSUME NEW k \in DOMAIN rows
               PROVE  /\ rows[k].st = "pending" => rows[k].tries < MaxAttempts
                      /\ rows[k].kind = "part" => rows[k].file = NoFile
                      /\ rows[k].st \in Live =>
                            /\ rows[k].kind # "parent"
                            /\ NeedsUpload(rows[k].kind) => Uploaded(rows[k].file)'
                            /\ rows[k].kind = "sync" /\ Inline => \E q \in Procs : Executes(q, k)'
    BY <1>1 DEF RowsHaveFiles, NeedsUpload
  <2>1. \A q \in Procs : Executes(q, k) => Executes(q, k)'
    BY <1>1, <1>2 DEF Executes
  <2>2. PICK f : f = rows[k].file /\ f = rows'[k].file
    BY <1>1
  <2>3. Uploaded(rows[k].file) => Uploaded(rows[k].file)'
    <3>1. Uploaded(rows[k].file) => Uploaded(f)
      BY <2>2
    <3>2. Uploaded(f)' => Uploaded(rows[k].file)'
      BY <2>2 DEF Uploaded
    <3>3. QED
      BY <3>1, <3>2, <1>6
  <2>4. QED
    BY <2>1, <2>3 DEF RowsHaveFiles
<1>11. TransientsAreOwned'
  <2> SUFFICES ASSUME NEW x \in files', x.dir = "transient"
               PROVE  \E q \in Procs : pc'[q] # "idle" /\ req'[q].kind = "sync"
                                       /\ req'[q].file = x.id
    BY DEF TransientsAreOwned
  <2>1. x \in files /\ Inline
    BY <1>3 DEF IdsAreUnique
  <2>2. x.id # req[p].file
    BY <1>1, <2>1 DEF Kept
  <2>3. PICK q \in Procs : pc[q] # "idle" /\ req[q].kind = "sync" /\ req[q].file = x.id
    BY <2>1 DEF TransientsAreOwned
  <2>4. QED
    BY <1>2, <2>2, <2>3
<1>12. QED
  BY <1>4, <1>5, <1>8, <1>9, <1>10, <1>11

\* A handler creates its row, and a parent those of its parts.
LEMMA CreateKeeps ==
    ASSUME Bounds, IntakeInv, NEW p \in Procs, Create(p)
    PROVE  IntakeInv'
<1> USE DEF IntakeInv
<1>1. /\ pc[p] = "create" /\ UNCHANGED <<files, expired, lastFile, reading>>
      /\ IntakeTypeOK /\ rows \in Seq(Columns) /\ Len(rows) \in Nat /\ DOMAIN rows = 1..Len(rows)
      /\ pc \in [Procs -> {"idle", "create", "execute", "finish", "unlink"}]
      /\ req \in [Procs -> [kind : Kinds, file : 0..MaxFiles, units : Units \cup {1}, row : Nat]]
      /\ "part" \in Kinds \cup {"part"} /\ NoFile \in 0..MaxFiles
  BY DEF Create, IntakeTypeOK, SubmitTypeOK, Columns, NoFile, Bounds
<1>2. PICK kind \in Kinds, f \in 0..MaxFiles, u \in Units :
        kind = req[p].kind /\ f = req[p].file /\ u = req[p].units
  BY <1>1 DEF RequestsHaveFiles
<1>3. PICK n \in {1, 2}, s \in Seq(Columns) :
        /\ rows' = rows \o s /\ Len(s) = n
        /\ \A i \in 1..n : /\ s[i].st = "pending" => s[i].tries < MaxAttempts
                           /\ s[i].kind = "part" => s[i].file = NoFile
                           /\ s[i].st \in Live =>
                                 /\ s[i].kind # "parent"
                                 /\ s[i].kind = "part" \/ (s[i].kind = kind /\ s[i].file = f)
        /\ kind = "sync" => s[1].file = f /\ s[1].st = "pending" /\ n = 1
  <2>1. CASE kind = "parent"
    <3>1. PICK a \in Columns : /\ a = [Row("parent", f, u) EXCEPT !.st = "partial"]
                               /\ a.kind = "parent" /\ a.st = "partial"
      BY <1>2, <2>1, RowTyped
    <3>2. PICK b \in Columns : /\ b = Row("part", NoFile, u) /\ b.st = "pending"
                               /\ b.kind = "part" /\ b.file = NoFile /\ b.tries = 0
      <4>1. "part" \in Kinds \cup {"part"} /\ NoFile \in 0..MaxFiles
        BY <1>1
      <4>2. QED
        BY <4>1, RowTyped
    <3>3. rows' = rows \o <<a, b>>
      BY <1>2, <2>1, <3>1, <3>2 DEF Create
    <3>4. PICK s \in Seq(Columns) : s = <<a, b>> /\ Len(s) = 2 /\ s[1] = a /\ s[2] = b
      <4>1. /\ <<a, b>> \in Seq(Columns) /\ Len(<<a, b>>) = 2
            /\ <<a, b>>[1] = a /\ <<a, b>>[2] = b
        OBVIOUS
      <4>2. QED
        BY <4>1
    <3>5. \A i \in 1..2 : i = 1 \/ i = 2
      OBVIOUS
    <3>6. \A i \in 1..2 :
             /\ s[i].st = "pending" => s[i].tries < MaxAttempts
             /\ s[i].kind = "part" => s[i].file = NoFile
             /\ s[i].st \in Live =>
                   /\ s[i].kind # "parent"
                   /\ s[i].kind = "part" \/ (s[i].kind = kind /\ s[i].file = f)
      <4> SUFFICES ASSUME NEW i \in 1..2
                   PROVE  /\ s[i].st = "pending" => s[i].tries < MaxAttempts
                          /\ s[i].kind = "part" => s[i].file = NoFile
                          /\ s[i].st \in Live => s[i].kind = "part"
        OBVIOUS
      <4>1. CASE s[i] = a
        BY <3>1, <4>1 DEF Live
      <4>2. CASE s[i] = b
        BY <3>2, <4>2 DEF Bounds
      <4>3. QED
        BY <3>4, <3>5, <4>1, <4>2
    <3>7. kind # "sync" /\ rows' = rows \o s
      BY <2>1, <3>3, <3>4
    <3>8. QED
      BY <3>4, <3>6, <3>7
  <2>2. CASE kind # "parent"
    <3>1. PICK a \in Columns : /\ a = Row(kind, f, u) /\ a.st = "pending" /\ a.kind = kind
                               /\ a.file = f /\ a.tries = 0
      BY <1>2, RowTyped
    <3>2. rows' = rows \o <<a>>
      BY <1>2, <2>2, <3>1 DEF Create
    <3>3. PICK s \in Seq(Columns) : s = <<a>> /\ Len(s) = 1 /\ s[1] = a
      <4>1. <<a>> \in Seq(Columns) /\ Len(<<a>>) = 1 /\ <<a>>[1] = a
        OBVIOUS
      <4>2. QED
        BY <4>1
    <3>4. kind # "part"
      BY DEF Kinds
    <3>5. \A i \in 1..1 :
             /\ s[i].st = "pending" => s[i].tries < MaxAttempts
             /\ s[i].kind = "part" => s[i].file = NoFile
             /\ s[i].st \in Live =>
                   /\ s[i].kind # "parent"
                   /\ s[i].kind = "part" \/ (s[i].kind = kind /\ s[i].file = f)
      BY <2>2, <3>1, <3>3, <3>4 DEF Bounds
    <3>6. rows' = rows \o s /\ s[1].file = f /\ s[1].st = "pending"
      BY <3>1, <3>2, <3>3
    <3>7. QED
      BY <3>3, <3>5, <3>6
  <2>3. QED
    BY <2>1, <2>2
<1>4. /\ rows' \in Seq(Columns) /\ DOMAIN rows' = 1..(Len(rows) + n) /\ DOMAIN rows \subseteq DOMAIN rows'
      /\ \A k \in DOMAIN rows : rows'[k] = rows[k]
      /\ \A k \in DOMAIN rows' \ DOMAIN rows : k - Len(rows) \in 1..n /\ rows'[k] = s[k - Len(rows)]
  BY <1>1, <1>3
<1>5. /\ kind = "sync" => /\ pc' = [pc EXCEPT ![p] = "execute"]
                          /\ req' = [req EXCEPT ![p].row = Len(rows) + 1]
      /\ kind # "sync" => /\ pc' = [pc EXCEPT ![p] = "idle"]
                          /\ req' = [req EXCEPT ![p] = Idle]
  BY <1>2 DEF Create, Refuse
<1>6. /\ \A q \in Procs \ {p} : pc'[q] = pc[q] /\ req'[q] = req[q]
      /\ kind = "sync" => /\ pc'[p] = "execute" /\ req'[p].row = Len(rows) + 1
                          /\ req'[p].kind = "sync" /\ req'[p].file = f /\ req'[p].units = u
      /\ kind # "sync" => pc'[p] = "idle"
      /\ pc' \in [Procs -> {"idle", "create", "execute", "finish", "unlink"}]
      /\ req' \in [Procs -> [kind : Kinds, file : 0..MaxFiles, units : Units \cup {1}, row : Nat]]
  <2>1. Idle \in [kind : Kinds, file : 0..MaxFiles, units : Units \cup {1}, row : Nat]
    BY DEF Idle, NoFile, Kinds, Bounds
  <2>2. CASE kind = "sync"
    <3>1. PICK w : w = [req[p] EXCEPT !.row = Len(rows) + 1]
      OBVIOUS
    <3>2. /\ w \in [kind : Kinds, file : 0..MaxFiles, units : Units \cup {1}, row : Nat]
          /\ w.row = Len(rows) + 1 /\ w.kind = kind /\ w.file = f /\ w.units = u
      <4>1. req[p] \in [kind : Kinds, file : 0..MaxFiles, units : Units \cup {1}, row : Nat]
        BY <1>1
      <4>2. Len(rows) + 1 \in Nat
        BY <1>1
      <4>3. QED
        BY <1>2, <3>1, <4>1, <4>2
    <3>3. req' = [req EXCEPT ![p] = w]
      BY <1>5, <2>2, <3>1
    <3>4. QED
      BY <1>1, <1>5, <2>2, <3>2, <3>3
  <2>3. CASE kind # "sync"
    BY <1>1, <1>5, <2>1, <2>3
  <2>4. QED
    BY <2>2, <2>3
<1>7. \A g : (Uploaded(g)' <=> Uploaded(g)) /\ (Transient(g)' <=> Transient(g))
  BY <1>1 DEF Uploaded, Transient
<1>8. IntakeTypeOK' /\ IdsAreUnique'
  BY <1>1, <1>4, <1>6 DEF IntakeTypeOK, SubmitTypeOK, Columns, IdsAreUnique
<1>9. RequestsHaveFiles'
  <2> SUFFICES ASSUME NEW q \in Procs, pc'[q] # "idle"
               PROVE  /\ req'[q].units \in Units
                      /\ req'[q].kind = "sync" => req'[q].file \in 1..lastFile'
                      /\ req'[q].kind = "sync" /\ Inline => Transient(req[q].file)'
                      /\ pc'[q] = "create" /\ NeedsUpload(req[q].kind)' => Uploaded(req[q].file)'
                      /\ pc'[q] # "create" => req'[q].kind = "sync"
                      /\ pc'[q] \in {"execute", "finish"} =>
                            /\ req'[q].row \in DOMAIN rows'
                            /\ rows'[req'[q].row].file = req'[q].file
                      /\ pc'[q] = "finish" => rows'[req'[q].row].st = "parsing"
    BY DEF RequestsHaveFiles
  <2>1. CASE q # p
    BY <1>1, <1>4, <1>6, <1>7, <2>1 DEF RequestsHaveFiles, NeedsUpload
  <2>2. CASE q = p
    <3>1. kind = "sync" /\ pc'[p] = "execute" /\ req'[p].file = f /\ req[p].file = f
      BY <1>2, <1>6, <2>2
    <3>2. Len(rows) + 1 \in DOMAIN rows' \ DOMAIN rows /\ (Len(rows) + 1) - Len(rows) = 1
      BY <1>1, <1>4
    <3>3. rows'[Len(rows) + 1] = s[1] /\ s[1].file = f
      BY <3>1, <3>2, <1>3, <1>4
    <3>4. f \in 1..lastFile /\ (Inline => Transient(f))
      BY <1>1, <1>2, <3>1 DEF RequestsHaveFiles
    <3>5. Inline => Transient(req[p].file)'
      BY <1>7, <3>1, <3>4
    <3>6. QED
      BY <1>1, <1>6, <2>2, <3>1, <3>2, <3>3, <3>4, <3>5
  <2>3. QED
    BY <2>1, <2>2
<1>10. FilesAreOwn'
  <2>1. \A q \in Procs : pc'[q] # "idle" =>
            pc[q] # "idle" /\ req'[q].kind = req[q].kind /\ req'[q].file = req[q].file
    BY <1>1, <1>2, <1>6
  <2>2. QED
    BY <2>1 DEF FilesAreOwn
<1>11. RowsHaveFiles'
  <2> SUFFICES ASSUME NEW k \in DOMAIN rows'
               PROVE  /\ rows'[k].st = "pending" => rows'[k].tries < MaxAttempts
                      /\ rows'[k].kind = "part" => rows'[k].file = NoFile
                      /\ rows'[k].st \in Live =>
                            /\ rows'[k].kind # "parent"
                            /\ NeedsUpload(rows'[k].kind) => Uploaded(rows[k].file)'
                            /\ rows'[k].kind = "sync" /\ Inline => \E q \in Procs : Executes(q, k)'
    BY DEF RowsHaveFiles, NeedsUpload
  <2>1. CASE k \in DOMAIN rows
    <3>1. \A q \in Procs : Executes(q, k) => Executes(q, k)'
      BY <1>1, <1>4, <1>6, <2>1 DEF Executes
    <3>2. QED
      BY <1>4, <1>7, <2>1, <3>1 DEF RowsHaveFiles, NeedsUpload
  <2>2. CASE k \notin DOMAIN rows
    <3>1. PICK i \in 1..n : i = k - Len(rows) /\ rows'[k] = s[i]
      BY <1>4, <2>2
    <3>2. NeedsUpload(kind) => Uploaded(f)
      BY <1>1, <1>2 DEF RequestsHaveFiles
    <3>3. rows'[k].file = f /\ NeedsUpload(kind) => Uploaded(rows[k].file)'
      BY <1>7, <3>2
    <3>4. rows'[k].kind = "sync" /\ rows'[k].st \in Live => kind = "sync"
      BY <1>3, <3>1
    <3>5. kind = "sync" => Executes(p, k)'
      BY <1>1, <1>3, <1>4, <1>6, <2>2, <3>1 DEF Executes
    <3>6. QED
      BY <1>3, <3>1, <3>3, <3>4, <3>5 DEF NeedsUpload
  <2>3. QED
    BY <2>1, <2>2
<1>12. TransientsAreOwned'
  BY <1>1, <1>2, <1>6 DEF TransientsAreOwned
<1>13. QED
  BY <1>8, <1>9, <1>10, <1>11, <1>12

-----------------------------------------------------------------------------
\* Every step keeps the invariant.
LEMMA IntakeGoesOn == Bounds /\ IntakeInv /\ [SubmitNext]_submitVars => IntakeInv'
<1> SUFFICES ASSUME Bounds, IntakeInv, [SubmitNext]_submitVars PROVE IntakeInv'
    OBVIOUS
<1>1. ASSUME NEW p \in Procs, NEW x \in files, NEW u \in Units, CreateJob(p, x, u)
      PROVE  IntakeInv'
  BY <1>1, CreateJobKeeps
<1>2. ASSUME NEW p \in Procs, NEW u \in Units, SyncUpload(p, u)
      PROVE  IntakeInv'
  BY <1>2, SyncUploadKeeps
<1>3. ASSUME NEW p \in Procs, StageArrives(p)
      PROVE  IntakeInv'
  BY <1>3, StageArrivesKeeps
<1>4. ASSUME NEW p \in Procs, NEW u \in Units, NEW wanted \in BOOLEAN, StageUpload(p, u, wanted)
      PROVE  IntakeInv'
  BY <1>4, StageUploadKeeps
<1>5. ASSUME NEW p \in Procs, NEW kind \in {"rerun", "parent"}, Rerun(p, kind)
      PROVE  IntakeInv'
  BY <1>5, RerunKeeps
<1>6. ASSUME NEW p \in Procs, Create(p) \/ Execute(p) \/ Finish(p) \/ Unlink(p)
      PROVE  IntakeInv'
  BY <1>6, CreateKeeps, ExecuteKeeps, FinishKeeps, UnlinkKeeps
<1>7. ASSUME NEW j \in DOMAIN rows, Take(j) \/ End(j)
      PROVE  IntakeInv'
  BY <1>7, TakeKeeps, EndKeeps
<1>8. ASSUME NEW x \in files, Age(x)
      PROVE  IntakeInv'
  BY <1>8, AgeKeeps
<1>9. CASE UNCHANGED submitVars
  BY <1>9 DEF submitVars, IntakeInv, IntakeTypeOK, SubmitTypeOK, IdsAreUnique,
              RequestsHaveFiles, FilesAreOwn, RowsHaveFiles, TransientsAreOwned,
              Uploaded, Transient, NeedsUpload, Executes
<1>10. QED
  BY <1>1, <1>2, <1>3, <1>4, <1>5, <1>6, <1>7, <1>8, <1>9 DEF SubmitNext

\* Whoever has the invariant has the file.
LEMMA FilesAreThere == Bounds /\ IntakeInv => FilesOutliveTheirJobs
<1> SUFFICES ASSUME Bounds, IntakeInv, NEW j \in DOMAIN rows,
                    rows[j].st \in {"pending", "parsing"}, rows[j].file # NoFile,
                    rows[j].kind # "rerun"
             PROVE  Stored(rows[j].file) \/ rows[j].file \in expired
    BY DEF FilesOutliveTheirJobs
<1>1. rows[j].kind \in {"create", "stage", "sync"} /\ rows[j].st \in Live
  BY IntakeTypes DEF IntakeInv, RowsHaveFiles, Live, Kinds
<1>2. CASE NeedsUpload(rows[j].kind)
  BY <1>1, <1>2 DEF IntakeInv, RowsHaveFiles, Uploaded, Stored
<1>3. CASE rows[j].kind = "sync" /\ Inline
  <2>1. PICK q \in Procs : Executes(q, j)
    BY <1>1, <1>3 DEF IntakeInv, RowsHaveFiles
  <2>2. Transient(rows[j].file)
    BY <1>3, <2>1 DEF Executes, IntakeInv, RequestsHaveFiles
  <2>3. QED
    BY <2>2 DEF Transient, Stored
<1>4. QED
  BY <1>1, <1>2, <1>3 DEF NeedsUpload

\* The files of uploads: whoever executes a job finds its file, or a cleanup has removed
\* it after its retention, or the job repeats another whose file was deleted; and a
\* transient file belongs to a request that is being answered (api_routes.py,
\* delete_after_submit and _cleanup_expired_staged_uploads).
THEOREM FilesLiveLongEnough ==
    ASSUME Bounds
    PROVE  SubmitSpec => [](SubmitTypeOK /\ FilesOutliveTheirJobs /\ TransientsAreOwned)
<1>1. SubmitInit => IntakeInv
  BY IntakeStarts
<1>2. IntakeInv /\ [SubmitNext]_submitVars => IntakeInv'
  BY IntakeGoesOn
<1>3. IntakeInv => SubmitTypeOK /\ FilesOutliveTheirJobs /\ TransientsAreOwned
  BY FilesAreThere DEF IntakeInv, IntakeTypeOK
<1>4. QED
  BY <1>1, <1>2, <1>3, PTL DEF SubmitSpec
=============================================================================
