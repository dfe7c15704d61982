------------------------------ MODULE PartPlan ------------------------------
(***************************************************************************)
(* plan_pdf_parts (pdf_parts.py): the loop that cuts the pages of a PDF     *)
(* into parts.  Each part owns a range of pages and reads some pages before *)
(* it as context.  One step is one iteration of the loop.                   *)
(***************************************************************************)
EXTENDS Integers, Sequences

CONSTANTS
    MaxPages,      \* pages of a document
    MaxTarget,     \* pages per part that may be asked for
    MaxContext     \* context pages that may be asked for

ASSUME PlanAssumption == MaxPages \in Nat /\ MaxTarget \in Nat /\ MaxContext \in Nat

VARIABLES
    arg,           \* the arguments: page range, pages per part, context
    next,          \* owned_page_start
    parts          \* the parts so far

planVars == <<arg, next, parts>>

\* _pages_per_part: the size of a part.  r says what is known of the document:
\* many pages need OCR, earlier parses failed, the file is large, and the
\* profile or an option asks for OCR.
BadPagesPerPart(target, ocrTarget, r) ==
    LET half(n) == n \div 2
        t1 == IF r.failures THEN half(target) ELSE target
        t2 == IF r.large THEN half(t1) ELSE t1
    IN  IF r.ocrPages \/ r.ocrHeavy THEN ocrTarget ELSE t2

PagesPerPart(target, ocrTarget, r) ==
    LET half(n) == IF n \div 2 < 1 THEN 1 ELSE n \div 2
        t1 == IF r.failures THEN half(target) ELSE target
        t2 == IF r.large THEN half(t1) ELSE t1
    IN  IF r.ocrPages \/ r.ocrHeavy THEN ocrTarget ELSE t2

\* The arguments that pass the checks at the head of plan_pdf_parts.
Arguments ==
    {a \in [pages : 1..MaxPages, first : 1..MaxPages, last : 1..MaxPages,
            size : Nat, context : 0..MaxContext] :
        a.first <= a.last /\ a.last <= a.pages /\ a.size >= 1}

Facts == [failures : BOOLEAN, large : BOOLEAN, ocrPages : BOOLEAN, ocrHeavy : BOOLEAN]

PlanInit ==
    /\ \E pages, first, last \in 1..MaxPages, context \in 0..MaxContext,
          target, ocrTarget \in 1..MaxTarget, r \in Facts :
         /\ first <= last /\ last <= pages
         /\ arg = [pages |-> pages, first |-> first, last |-> last, context |-> context,
                   size |-> PagesPerPart(target, ocrTarget, r)]
    /\ next = arg.first /\ parts = <<>>

OwnedEnd(a, from) ==
    IF from + a.size - 1 > a.last THEN a.last ELSE from + a.size - 1

InputStart(a, from) ==
    IF from - a.context < a.first THEN a.first ELSE from - a.context

\* A loop that goes on with the last page of the part.
BadPlanStep ==
    /\ next <= arg.last
    /\ parts' = Append(parts, [first |-> next, last |-> OwnedEnd(arg, next),
                               input |-> InputStart(arg, next)])
    /\ next' = OwnedEnd(arg, next)
    /\ UNCHANGED arg

\* One iteration.
PlanStep ==
    /\ next <= arg.last
    /\ parts' = Append(parts, [first |-> next, last |-> OwnedEnd(arg, next),
                               input |-> InputStart(arg, next)])
    /\ next' = OwnedEnd(arg, next) + 1
    /\ UNCHANGED arg

PlanSpec == PlanInit /\ [][PlanStep]_planVars

-----------------------------------------------------------------------------
\* The types, and the head of the loop never passes the end of the range.
PlanTypeOK ==
    /\ arg \in Arguments
    /\ next \in arg.first..(arg.last + 1)
    /\ parts \in Seq([first : Nat, last : Nat, input : Nat])

\* The parts so far tile the pages from the first one up to the head of the
\* loop: each begins where the one before ends, none is empty.
PartsTile ==
    /\ parts = <<>> => next = arg.first
    /\ parts # <<>> => parts[1].first = arg.first /\ parts[Len(parts)].last = next - 1
    /\ \A i \in DOMAIN parts : parts[i].first <= parts[i].last
    /\ \A i \in 1..(Len(parts) - 1) : parts[i + 1].first = parts[i].last + 1

\* No part is longer than asked for, and its input begins with at most the
\* context asked for, inside the range.
PartsAreBounded ==
    \A i \in DOMAIN parts :
        /\ parts[i].last - parts[i].first < arg.size
        /\ parts[i].input \in arg.first..parts[i].first
        /\ parts[i].first - parts[i].input <= arg.context

\* When the loop has ended every page of the range has exactly one owner.
EveryPageHasOneOwner ==
    next > arg.last =>
        \A page \in arg.first..arg.last :
            \E i \in DOMAIN parts :
                /\ page \in parts[i].first..parts[i].last
                /\ \A j \in DOMAIN parts :
                     page \in parts[j].first..parts[j].last => j = i

\* What the plan of a document's parts is relied on for.
PlanTiles == PartsTile /\ PartsAreBounded /\ EveryPageHasOneOwner
=============================================================================
