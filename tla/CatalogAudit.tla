---------------------------- MODULE CatalogAudit ----------------------------
(***************************************************************************)
(* The decisions of a catalog run that look at data (catalog_runs.py,       *)
(* catalog_omissions.py): what a ledger may say, what a part may report,    *)
(* what the audit finds in the parts that are done, when a run may be       *)
(* finalized, and when two record files are the same.  A checkpoint is      *)
(* represented by its first defect, a record by the fields the audit        *)
(* compares across records and parts.                                       *)
(***************************************************************************)
EXTENDS Integers, FiniteSets, Sequences, SequencesExt

-----------------------------------------------------------------------------
(* Building a ledger. *)

\* _profile_payload: the settings a profile of a catalog run may have.
ProfileAccepted(pr) ==
    /\ pr.target >= 1 /\ pr.context >= 0 /\ pr.active \in 1..2
    /\ ~pr.ocr /\ pr.streams

NoRepetition(s) == \A i, j \in DOMAIN s : s[i] = s[j] => i = j

\* normalize_source_omission_review: a review is refused unless its entries are
\* about different cells.
ReviewAccepted(entries) ==
    /\ entries # <<>>
    /\ NoRepetition([i \in DOMAIN entries |-> entries[i].id])
    /\ NoRepetition([i \in DOMAIN entries |-> <<entries[i].row, entries[i].page>>])

\* A ledger that takes any review of its document.
BadLedgerAccepted(pr, review, pages, first, last, span) ==
    /\ first >= 1 /\ last >= first /\ last <= pages
    /\ <<first, last>> = span /\ ProfileAccepted(pr)
    /\ IF pr.schema = "v2" THEN ReviewAccepted(review) ELSE review = <<>>

\* build_catalog_run_ledger: the refusals, before the parts are planned.  span
\* is the registered range of the section; a V2 run needs a review whose
\* entries lie in it, and no other run may have one (<<>>).
LedgerAccepted(pr, review, pages, first, last, span) ==
    /\ first >= 1 /\ last >= first /\ last <= pages
    /\ <<first, last>> = span /\ ProfileAccepted(pr)
    /\ IF pr.schema = "v2"
       THEN ReviewAccepted(review) /\ \A i \in DOMAIN review : review[i].page \in first..last
       ELSE review = <<>>

\* The owned ranges that plan_pdf_parts gives for the ledger.
OwnedRanges(pr, first, last) ==
    {<<p, IF p + pr.target - 1 > last THEN last ELSE p + pr.target - 1>> :
        p \in {q \in first..last : (q - first) % pr.target = 0}}

-----------------------------------------------------------------------------
(* audit_catalog_run. *)

Done(parts) == {i \in DOMAIN parts : parts[i].st = "done"}

\* Parts whose checkpoint fails one of the checks that end with "continue":
\* hash, identity, page ranges, descriptors, bytes and hashes of the artifacts,
\* the set of artifacts.
Audited(parts) == {i \in Done(parts) : parts[i].defect \in {"none", "counts"}}

\* The records of the audited parts, in the order the audit meets them.
AllRecords(parts) ==
    FlattenSeq([i \in DOMAIN parts |-> IF i \in Audited(parts) THEN parts[i].records
                                       ELSE <<>>])

\* artifact_errors: a defect, a count that differs, candidates unaccounted for.
ArtifactErrors(parts) ==
    {i \in Done(parts) : parts[i].defect # "none"} \cup
    {i \in Audited(parts) :
        parts[i].candidates # Len(parts[i].records) + parts[i].rejected}

Owned(r, part) ==
    /\ r.first >= part.input
    /\ r.last \in part.first..part.last
    /\ r.first <= r.last

OwnershipErrors(parts) ==
    UNION {{<<i, k>> : k \in {k \in DOMAIN parts[i].records :
                                 ~Owned(parts[i].records[k], parts[i])}}
           : i \in Audited(parts)}

\* Record ids and row numbers seen before, in this or in an earlier part.
Repeated(s) == {i \in DOMAIN s : \E j \in 1..(i - 1) : s[j] = s[i]}

\* The gaps between the smallest and the largest row number (the list is cut
\* at 100, which is never zero).
MissingRows(parts) ==
    LET rows == {AllRecords(parts)[k].row : k \in DOMAIN AllRecords(parts)}
        from == CHOOSE a \in rows : \A b \in rows : a <= b
        to == CHOOSE a \in rows : \A b \in rows : a >= b
    IN  IF rows = {} THEN {} ELSE (from..to) \ rows

\* Parts after the first should have used the pages before them, once each.
ContextMismatch(parts) ==
    Cardinality({i \in Audited(parts) : parts[i].context}) #
        (IF Audited(parts) = {} THEN 0 ELSE Cardinality(Audited(parts)) - 1)

Field(s, f(_)) == [i \in DOMAIN s |-> f(s[i])]

\* The codes of reviewRequired; "record" stands for the findings about one
\* record alone (schema, evidence, omissions, critical signals, dates).
ReviewRequired(parts) ==
    LET rs == AllRecords(parts)
        id(r) == r.id
        row(r) == r.row
    IN  {code \in {"artifact", "ownership", "id", "row", "missing", "rejected",
                   "start", "context", "record"} :
          CASE code = "artifact"  -> ArtifactErrors(parts) # {}
            [] code = "ownership" -> OwnershipErrors(parts) # {}
            [] code = "id"        -> Repeated(Field(rs, id)) # {}
            [] code = "row"       -> Repeated(Field(rs, row)) # {}
            [] code = "missing"   -> MissingRows(parts) # {}
            [] code = "rejected"  -> \E i \in Audited(parts) : parts[i].rejected > 0
            [] code = "start"     -> rs # <<>> /\ \A k \in DOMAIN rs : rs[k].row # 1
            [] code = "context"   -> ContextMismatch(parts)
            [] code = "record"    -> \E k \in DOMAIN rs : ~rs[k].sound}

HardGatePassed(parts) == ReviewRequired(parts) = {}
FullRunComplete(parts) == Done(parts) = DOMAIN parts

\* finalize_catalog_run: its refusals, and the shard count it compares.
Finalized(parts) ==
    LET records == Len(AllRecords(parts))
        shards == FoldSeq(LAMBDA p, n : n + Len(p.records), 0, parts)
    IN  /\ HardGatePassed(parts) /\ FullRunComplete(parts)
        /\ records >= 1
        /\ records = FoldSeq(LAMBDA p, n : n + p.candidates, 0, parts)
        /\ shards = records

-----------------------------------------------------------------------------
(* Records without a holder, in V2 runs. *)

Entry(review, r) == {e \in ToSet(review) : <<e.row, e.page>> = <<r.row, r.page>>}

\* _validate_source_missing_holder_record: the record has no errors.  r.page is
\* the page of its sourceOmission, r.id the review it names; papers says that
\* its source cell, its evidence and its quality document an empty cell.
HolderAccepted(review, r) ==
    \/ r.holder = "identified" /\ r.name /\ r.id = 0
    \/ /\ r.holder = "source_missing" /\ ~r.name /\ r.papers
       /\ \E e \in Entry(review, r) : r.id = e.id

\* The review a record uses up, also when it has other errors.
Used(review, rs, i) ==
    IF rs[i].holder = "source_missing" /\ rs[i].id # 0
    THEN {e.id : e \in Entry(review, rs[i])} ELSE {}

\* There are no source_omission_errors, all parts being done.
OmissionsClean(review, rs) ==
    /\ \A i \in DOMAIN rs : HolderAccepted(review, rs[i])
    /\ \A i, j \in DOMAIN rs : i # j => Used(review, rs, i) \cap Used(review, rs, j) = {}
    /\ {e.id : e \in ToSet(review)} = UNION {Used(review, rs, i) : i \in DOMAIN rs}

-----------------------------------------------------------------------------
(* compare_catalog_record_sets. *)

Ids(s) == {s[i].id : i \in DOMAIN s}
Body(s, x) == s[CHOOSE i \in DOMAIN s : s[i].id = x].body
Changed(a, b) == {x \in Ids(a) \cap Ids(b) : Body(a, x) # Body(b, x)}

\* recordSetMatches and recordOrderMatches, for inputs without repeated ids.
Same(a, b) ==
    /\ Ids(a) \ Ids(b) = {} /\ Ids(b) \ Ids(a) = {} /\ Changed(a, b) = {}
    /\ [i \in DOMAIN a |-> a[i].id] = [i \in DOMAIN b |-> b[i].id]

\* Every input is compared with the first one.
ComparisonPasses(inputs) == \A i \in 2..Len(inputs) : Same(inputs[1], inputs[i])

-----------------------------------------------------------------------------
(* What must hold. *)

\* A run that is finalized consists of the rows 1..n, each in exactly one
\* record of one part, in the part that owns the page where it ends, and every
\* part was audited (finalize_catalog_run trusts the counts of the report).
FinalizedIsExact(parts) ==
    Finalized(parts) =>
        LET owner(n) == {<<i, k>> \in (DOMAIN parts) \X (1..2) :
                            k <= Len(parts[i].records) /\ parts[i].records[k].row = n}
            total == FoldSeq(LAMBDA p, n : n + Len(p.records), 0, parts)
        IN  /\ Audited(parts) = DOMAIN parts
            /\ \A n \in 1..total : Cardinality(owner(n)) = 1
            /\ \A i \in DOMAIN parts : \A k \in DOMAIN parts[i].records :
                 parts[i].records[k].last \in parts[i].first..parts[i].last
            /\ \A i \in DOMAIN parts : parts[i].rejected = 0

\* In a ledger that was accepted every reviewed cell lies in exactly one part,
\* so that exactly one extractor may apply the review; there are no reviews in a
\* run of another schema.
ReviewHasOneOwner(in) ==
    LedgerAccepted(in.pr, in.review, in.pages, in.first, in.last, in.span) =>
        /\ (in.review = <<>>) <=> (in.pr.schema # "v2")
        /\ \A i \in DOMAIN in.review :
             Cardinality({o \in OwnedRanges(in.pr, in.first, in.last) :
                             in.review[i].page \in o[1]..o[2]}) = 1

\* "Every review can authorize exactly one empty cell": in an audit without
\* omission errors the records without a holder's name and the reviews are in
\* one-to-one correspondence, by row and page.
EveryOmissionIsReviewed(in) ==
    ReviewAccepted(in.review) /\ OmissionsClean(in.review, in.records) =>
        /\ \A i \in DOMAIN in.review :
             Cardinality({k \in DOMAIN in.records :
                 ~in.records[k].name /\ in.records[k].row = in.review[i].row
                                    /\ in.records[k].page = in.review[i].page}) = 1
        /\ Cardinality({k \in DOMAIN in.records : ~in.records[k].name}) = Len(in.review)

\* Inputs that pass the comparison hold the same records in the same order,
\* although only sets of ids, bodies by id and orders of ids are compared, and
\* only with the first input.
ComparisonIsEquality(inputs) ==
    ComparisonPasses(inputs) <=> \A i, j \in DOMAIN inputs : inputs[i] = inputs[j]
=============================================================================
