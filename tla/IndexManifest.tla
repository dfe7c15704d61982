--------------------------- MODULE IndexManifest ---------------------------
(***************************************************************************)
(* The manifest of the index of a document that is parsed in parts, and the  *)
(* chunks that NullIndex has of it.  A refresh after one part updates the    *)
(* manifest that the index keeps (_incremental_partition_index_manifest); a  *)
(* full one derives it from all that is stored.  NullIndex is in memory: a   *)
(* process that restarts, or another one, begins with nothing.               *)
(*                                                                           *)
(* A chunk is [part, n, role, long]; part and n are its id, which begins     *)
(* with the prefix of the part.  A refresh is [kind, part, chunks, blocks].  *)
(***************************************************************************)
EXTENDS Integers, Sequences, FiniteSets, SequencesExt, FiniteSetsExt

CONSTANTS Parts, Large     \* Large: "large" is one of the embedding tiers

None == [parts |-> <<>>]

Ids(chunks) == [i \in DOMAIN chunks |-> <<chunks[i].part, chunks[i].n>>]
Roles(chunks) == {chunks[i].role : i \in DOMAIN chunks}

\* _select_high_precision_chunks
HighPrecision(chunks) == SelectSeq(chunks, LAMBDA c : c.role # "paragraph" \/ c.long)

-----------------------------------------------------------------------------
(* Manifests. *)

Entry(chunks, blocks) == [ids |-> Ids(chunks), chunks |-> Len(chunks), blocks |-> blocks]

\* _derive_index_manifest_from_snapshot and _partition_index_manifest: chunks and
\* blocks belong to the part their ids name.
Derived(chunks, blocks) ==
    [parts |-> [p \in Parts |-> Entry(SelectSeq(chunks, LAMBDA c : c.part = p), blocks[p])],
     primary |-> Len(chunks), structure |-> MapThenSumSet(LAMBDA p : blocks[p], Parts),
     roles |-> Roles(chunks),
     high |-> IF Large THEN Ids(HighPrecision(chunks)) ELSE <<>>]

NoBlocks == [p \in Parts |-> 0]

\* _incremental_partition_index_manifest
Counted(old, entries, p, chunks) ==
    [parts |-> entries,
     primary |-> MapThenSumSet(LAMBDA q : entries[q].chunks, Parts),
     structure |-> MapThenSumSet(LAMBDA q : entries[q].blocks, Parts),
     roles |-> old.roles \cup Roles(chunks),
     high |-> IF Large THEN SelectSeq(old.high, LAMBDA id : id[1] # p) \o Ids(HighPrecision(chunks)) ELSE <<>>]
Incremental(manifest, p, chunks, blocks) ==
    LET old == IF manifest = None THEN Derived(<<>>, NoBlocks) ELSE manifest
    IN  Counted(old, [old.parts EXCEPT ![p] = Entry(chunks, blocks)], p, chunks)

\* _pdf_part_index_manifest: what a part's own manifest says of it; the ids there
\* are its own.
PartEntry(chunks) == [ids |-> [i \in DOMAIN chunks |-> chunks[i].n], chunks |-> Len(chunks)]

-----------------------------------------------------------------------------
(* NullIndex: [primary, high, manifest]. *)

NoIndex == [primary |-> <<>>, high |-> <<>>, manifest |-> None]

Listed(chunks, manifest) ==
    SelectSeq(chunks, LAMBDA c : <<c.part, c.n>> \in ToSet(manifest.high))

\* upsert
Upsert(chunks, manifest) ==
    [primary |-> chunks, high |-> Listed(chunks, manifest), manifest |-> manifest]

\* replace_chunks_by_prefix, and _prefix_insert_index: at the place of the first that
\* goes, or at the end.
Others(chunks, p) == SelectSeq(chunks, LAMBDA c : c.part # p)
PlaceOf(chunks, p) ==
    LET gone == {i \in DOMAIN chunks : chunks[i].part = p}
    IN  IF gone = {} THEN Len(chunks)
        ELSE Cardinality({i \in DOMAIN chunks : i < Min(gone) /\ chunks[i].part # p})
Spliced(chunks, at, new) == SubSeq(chunks, 1, at) \o new \o SubSeq(chunks, at + 1, Len(chunks))
ReplaceByPrefix(index, p, chunks, manifest) ==
    [primary |-> Spliced(Others(index.primary, p), PlaceOf(index.primary, p), chunks),
     high |-> Others(index.high, p) \o Listed(chunks, manifest),
     manifest |-> manifest]

-----------------------------------------------------------------------------
(* Refreshes, one after the other.  known is the parts the index was told of by *)
(* its process.                                                                 *)

Start == [stored |-> <<>>, blocks |-> NoBlocks, index |-> NoIndex, known |-> {}]

\* _refresh_partitioned_parent_incremental, of one part
RefreshPart(s, p, chunks, blocks) ==
    [stored |-> Spliced(Others(s.stored, p), PlaceOf(s.stored, p), chunks),
     blocks |-> [s.blocks EXCEPT ![p] = blocks],
     index |-> ReplaceByPrefix(s.index, p, chunks, Incremental(s.index.manifest, p, chunks, blocks)),
     known |-> s.known \cup {p}]

\* refresh_partitioned_parent without changed parts: the parts in the order of
\* their pages.
InPartOrder(chunks) ==
    FoldLeft(LAMBDA acc, p : acc \o SelectSeq(chunks, LAMBDA c : c.part = p), <<>>, SetToSortSeq(Parts, <))
RefreshAll(s) ==
    LET chunks == InPartOrder(s.stored)
    IN  [s EXCEPT !.stored = chunks, !.known = Parts, !.index = Upsert(chunks, Derived(chunks, s.blocks))]

Step(s, e) ==
    CASE e.kind = "part" -> RefreshPart(s, e.part, e.chunks, e.blocks)
      [] e.kind = "all" -> RefreshAll(s)
      [] e.kind = "restart" -> [s EXCEPT !.index = NoIndex, !.known = {}]

\* get_document
ManifestShown(s) ==
    IF s.index.manifest = None THEN Derived(s.stored, s.blocks) ELSE s.index.manifest

-----------------------------------------------------------------------------
(* What must hold. *)

\* An updated manifest is the one derived from all that is stored, but for the order
\* of chunks and for roles that a rerun has removed; after a restart that is so for
\* the parts refreshed since, until a full refresh.
ManifestIsCurrent(s) ==
    LET shown == ManifestShown(s)
        whole == Derived(s.stored, s.blocks)
        fresh == s.known = Parts \/ s.index.manifest = None
    IN  /\ \A p \in s.known : shown.parts[p] = whole.parts[p]
        /\ fresh => /\ shown.parts = whole.parts
                    /\ shown.primary = whole.primary /\ shown.structure = whole.structure
                    /\ ToSet(shown.high) = ToSet(whole.high) /\ Len(shown.high) = Len(whole.high)
                    /\ whole.roles \subseteq shown.roles
        /\ shown.primary = MapThenSumSet(LAMBDA p : shown.parts[p].chunks, Parts)

\* The index has the chunks that its manifest lists, each once, those of a part in one
\* piece and in their order; and as chunks of high precision those that are.
IndexIsAsListed(s) ==
    LET index == s.index
        listed == UNION {ToSet(index.manifest.parts[p].ids) : p \in Parts}
    IN  index.manifest # None =>
          /\ ToSet(Ids(index.primary)) = listed /\ IsInjective(Ids(index.primary))
          /\ \A p \in Parts :
               Ids(SelectSeq(index.primary, LAMBDA c : c.part = p)) = index.manifest.parts[p].ids
          /\ \A i, k \in DOMAIN index.primary : index.primary[i].part = index.primary[k].part =>
               \A j \in i..k : index.primary[j].part = index.primary[i].part
          /\ IsInjective(index.high)
          /\ ToSet(index.high) = IF Large THEN ToSet(HighPrecision(index.primary)) ELSE {}

\* What a part says of itself is what its parent says of it.
PartsSayTheSame(s) ==
    \A p \in s.known :
      LET own == PartEntry(SelectSeq(s.stored, LAMBDA c : c.part = p))
          told == s.index.manifest.parts[p]
      IN  told.chunks = own.chunks /\ told.ids = [i \in DOMAIN own.ids |-> <<p, own.ids[i]>>]

AfterRefreshes(s) == ManifestIsCurrent(s) /\ IndexIsAsListed(s) /\ PartsSayTheSame(s)
ManifestsFollowParts(events) == AfterRefreshes(FoldLeft(Step, Start, events))
=============================================================================
