----------------------------- MODULE Retrieval -----------------------------
(***************************************************************************)
(* Embedding, search and rerank: ParseRuntime._embed_chunks with the        *)
(* providers of embeddings.py, search_document_with_mode, and               *)
(* _rerank_candidates with the provider of rerank.py.  A provider is a      *)
(* sequence of answers, used up one per HTTP request.  Searches of the      *)
(* structure and of tasks look at the blocks and need no provider.          *)
(*                                                                          *)
(* A chunk is identified by its number in the document.  A vector is the    *)
(* number of the chunk it was computed for, and its length.                 *)
(***************************************************************************)
EXTENDS Integers, Sequences, FiniteSets, SequencesExt

CONSTANTS
    BatchSize,    \* providers.embedding.batch_size
    MaxRetries,   \* providers.embedding.max_retries
    MinTasks      \* entries that a search for tasks looks at, at least: 10

Attempts == MaxRetries + 1
Smaller(a, b) == IF a < b THEN a ELSE b

-----------------------------------------------------------------------------
(* OpenAiCompatibleEmbeddingProvider._embed_batch. *)

\* An answer is Down (URLError, timeout, not JSON: the request is repeated) or a
\* list of items [index, of, len]: index is 0 if the item has none; of is the
\* place in the batch of the text whose vector it holds (a server that sends no
\* indexes answers in order); len is the length of the vector, 0 if there is
\* none or it is not finite.
Down == <<[index |-> -1, of |-> 0, len |-> 0]>>

Indexed(answer) == \E i \in DOMAIN answer : answer[i].index # 0

\* The indexes are complete, or there are none.  Other answers are errors that
\* are not repeated here: EmbeddingRequestError is not among those caught.
IndexesOK(answer, n) ==
    Indexed(answer) => {answer[i].index : i \in DOMAIN answer} = 1..n

InIndexOrder(answer) ==
    IF Indexed(answer) THEN SortSeq(answer, LAMBDA a, b : a.index < b.index) ELSE answer

VectorsOK(items) ==
    \A i \in DOMAIN items : items[i].len > 0 /\ items[i].len = items[1].len

\* What one call of embed for a batch of n texts does with the answers that are
\* left: [ok, vectors, used].  If all attempts are used up, or an answer is not
\* acceptable, the call raises.
EmbedCall(answers, n) ==
    LET tries == Smaller(Attempts, Len(answers))
        downs == {k \in 1..tries : answers[k] # Down}
        first == CHOOSE k \in downs : \A j \in downs : k <= j
        items == InIndexOrder(answers[first])
    IN  IF downs = {} THEN [ok |-> FALSE, vectors |-> <<>>, used |-> tries]
        ELSE IF IndexesOK(answers[first], n) /\ VectorsOK(items) /\ Len(items) = n
             THEN [ok |-> TRUE, vectors |-> items, used |-> first]
             ELSE [ok |-> FALSE, vectors |-> <<>>, used |-> first]

\* _embed_batch_with_retry: the runtime repeats the call as often again.
EmbedBatch(answers, n) ==
    LET Try(acc, k) ==
            IF acc.ok THEN acc
            ELSE LET call == EmbedCall(SubSeq(answers, acc.used + 1, Len(answers)), n)
                 IN  [call EXCEPT !.used = @ + acc.used]
    IN  FoldLeft(Try, [ok |-> FALSE, vectors |-> <<>>, used |-> 0],
                 [k \in 1..Attempts |-> k])

\* _embed_chunks: batch after batch; a batch that fails keeps its chunks, without
\* vectors, and the document is indexed all the same.
Embedded(answers, n) ==
    LET Add(acc, b) ==
            LET size == Smaller(BatchSize, n - (b - 1) * BatchSize)
                got == EmbedBatch(SubSeq(answers, acc.used + 1, Len(answers)), size)
            IN  [used |-> acc.used + got.used,
                 chunks |-> acc.chunks \o
                    [i \in 1..size |->
                        [chunk |-> (b - 1) * BatchSize + i,
                         vector |-> IF got.ok THEN (b - 1) * BatchSize + got.vectors[i].of ELSE 0,
                         len |-> IF got.ok THEN got.vectors[i].len ELSE 0]]]
    IN  FoldLeft(Add, [used |-> 0, chunks |-> <<>>],
                 [b \in 1..((n + BatchSize - 1) \div BatchSize) |-> b])

-----------------------------------------------------------------------------
(* search_document_with_mode. *)

\* A chunk of the index: [role, words, match, len] with its keyword score, its
\* cosine with the query times two, and the length of its vector (0: none).
\* query.len is the length of the query's vector, 0 if it could not be embedded.
Comparable(query, c) == query.len > 0 /\ c.len = query.len

Mode(query, chunks) ==
    IF \E i \in DOMAIN chunks : Comparable(query, chunks[i]) THEN "hybrid" ELSE "keyword-fallback"

\* _score_chunk, up to the weights of roles, which are positive.
Score(query, c) ==
    IF Comparable(query, c) THEN (IF c.match > 0 THEN c.match ELSE 0) + c.words ELSE 2 * c.words

Scored(query, chunks) ==
    {i \in DOMAIN chunks :
        /\ query.roles # {} => chunks[i].role \in query.roles
        /\ Score(query, chunks[i]) > 0}

\* Sorted by (-score, chunk_id).
Ranked(S, Key(_)) ==
    LET Rank(i) == Cardinality({j \in S : \/ Key(j) > Key(i)
                                          \/ Key(j) = Key(i) /\ j < i}) + 1
    IN  [r \in 1..Cardinality(S) |-> CHOOSE i \in S : Rank(i) = r]

\* The candidates: limit of them, or candidate_limit if a rerank will follow.
Candidates(query, chunks) ==
    LET key(i) == Score(query, chunks[i])
        all == Ranked(Scored(query, chunks), key)
        most == IF query.rerank /\ query.candidates > query.limit
                THEN query.candidates ELSE query.limit
    IN  SubSeq(all, 1, Smaller(most, Len(all)))

-----------------------------------------------------------------------------
(* _rerank_candidates. *)

\* DashScopeCompatibleRerankProvider._parse_results: an answer is refused as a
\* whole; the indexes are those of the candidates, and a score of 0 stands for
\* one that is not a number.
ResultsOK(results, n) ==
    /\ results # <<>>
    /\ \A i \in DOMAIN results : results[i].index \in 1..n /\ results[i].score # 0
    /\ \A i, j \in DOMAIN results : results[i].index = results[j].index => i = j

\* The scores that the runtime takes from a provider, which may be another one:
\* the first of each index.
Taken(results, n) ==
    {i \in DOMAIN results :
        /\ results[i].index \in 1..n /\ results[i].score # 0
        /\ \A j \in 1..(i - 1) : results[j].index # results[i].index \/ results[j].score = 0}

\* A rerank that only keeps what the provider has scored.
BadReranked(cands, results) ==
    LET taken == Taken(results, Len(cands))
        scored == {results[i].index : i \in taken}
        Given(k) == results[CHOOSE i \in taken : results[i].index = k].score
        first == Ranked(scored, Given)
    IN  [r \in DOMAIN first |-> cands[first[r]]]

\* Scored candidates by their score, then the others as they were (they are in
\* the order of retrieval, which settles ties).
Reranked(cands, results) ==
    LET taken == Taken(results, Len(cands))
        scored == {results[i].index : i \in taken}
        Given(k) == results[CHOOSE i \in taken : results[i].index = k].score
        first == Ranked(scored, Given)
        rest == SelectSeq([k \in DOMAIN cands |-> k], LAMBDA k : k \notin scored)
    IN  [r \in DOMAIN (first \o rest) |-> cands[(first \o rest)[r]]]

\* checked tells whether the provider is the one of rerank.py; results are
\* <<>> if it raised.  No usable score leaves the order of retrieval.
Search(query, chunks, results, checked) ==
    LET cands == Candidates(query, chunks)
        got == IF ~query.rerank \/ (checked /\ ~ResultsOK(results, Len(cands))) THEN <<>>
               ELSE results
        applied == cands # <<>> /\ Taken(got, Len(cands)) # {}
        order == IF applied THEN Reranked(cands, got) ELSE cands
    IN  SubSeq(order, 1, Smaller(query.limit, Len(order)))

-----------------------------------------------------------------------------
(* search_document_structure_with_mode, search_document_tasks_with_mode. *)

\* A block is [role, words, tags, task]: how many words of the query it has, the tags
\* besides the one of its role, and whether it begins like a task.
TaskRoles == {"paragraph", "body_section", "warning", "caution", "note"}
RoleWeight(role) ==
    CASE role = "title" -> 135 [] role = "body_section" -> 130 [] role = "warning" -> 125
      [] role = "caution" -> 115 [] role = "note" -> 110 [] role = "paragraph" -> 100
      [] role = "toc_entry" -> 70

\* _score_structure_entry, times 10000; the query has two words.
StructureScore(b) == IF b.words = 0 THEN 0 ELSE b.words * RoleWeight(b.role) * 50 + 200 * (1 + Cardinality(b.tags))

\* item_id is compared as a string: itm-10 comes before itm-2.
IdBefore(i, j) ==
    LET digit(n) == IF n < 10 THEN n ELSE n \div 10
    IN  digit(i) < digit(j) \/ (digit(i) = digit(j) /\ i < j)

\* The places of the hits in blocks.  lead blocks before them match nothing.
StructureHits(blocks, lead, roles, tags, limit) ==
    LET found == {i \in DOMAIN blocks :
                    /\ roles # {} => blocks[i].role \in roles
                    /\ tags # {} => tags \cap (blocks[i].tags \cup {blocks[i].role}) # {}
                    /\ blocks[i].words > 0}
        before(i, j) == \/ StructureScore(blocks[i]) > StructureScore(blocks[j])
                        \/ /\ StructureScore(blocks[i]) = StructureScore(blocks[j])
                           /\ IdBefore(lead + i, lead + j)
        rank(i) == Cardinality({j \in found : before(j, i)}) + 1
        all == [r \in 1..Cardinality(found) |-> CHOOSE i \in found : rank(i) = r]
    IN  SubSeq(all, 1, Smaller(limit, Len(all)))

\* _is_task_like_entry
TaskLike(b) == b.role \in {"warning", "caution", "note"} \/ ("page:toc" \notin b.tags /\ b.task)

Fetched(limit) == IF 3 * limit < MinTasks THEN MinTasks ELSE 3 * limit
TaskHits(blocks, lead, limit) ==
    LET tasks == SelectSeq(StructureHits(blocks, lead, TaskRoles, {}, Fetched(limit)), LAMBDA i : TaskLike(blocks[i]))
    IN  SubSeq(tasks, 1, Smaller(limit, Len(tasks)))

-----------------------------------------------------------------------------
(* What must hold. *)

\* Every chunk keeps its place, has its own vector or none, and the chunks of a
\* batch have vectors of one length or none; max_retries bounds the requests,
\* though both loops use it, so that a batch may take (max_retries + 1)^2.
VectorsBelong(in) ==
    LET out == Embedded(in.answers, in.n)
        batch(i) == (i - 1) \div BatchSize
        batches == (in.n + BatchSize - 1) \div BatchSize
    IN  /\ Len(out.chunks) = in.n
        /\ \A i \in 1..in.n : out.chunks[i].chunk = i /\ out.chunks[i].vector \in {0, i}
        /\ \A i, k \in 1..in.n : batch(i) = batch(k) => out.chunks[i].len = out.chunks[k].len
        /\ out.used <= batches * Attempts * Attempts

\* Whatever the providers answer, a search returns the chunks with a positive
\* score, limit of them or all, each once and of an allowed role; a chunk that
\* contains a word of the query is among them if there is room, with and without
\* vectors; and without a usable rerank the best chunks of retrieval come first.
SearchIsComplete(in) ==
    LET hits == Search(in.query, in.chunks, in.results, in.checked)
        scored == Scored(in.query, in.chunks)
        words == {i \in DOMAIN in.chunks : in.chunks[i].words > 0 /\
                     (in.query.roles # {} => in.chunks[i].role \in in.query.roles)}
    IN  /\ ToSet(hits) \subseteq scored
        /\ Len(hits) = Cardinality(ToSet(hits))
        /\ Len(hits) = Smaller(in.query.limit, Cardinality(scored))
        /\ words \subseteq scored
        /\ Mode(in.query, in.chunks) = "keyword-fallback" => scored = words
        /\ in.results = <<>> =>
             \A i \in ToSet(hits) : \A j \in scored \ ToSet(hits) :
                Score(in.query, in.chunks[i]) >= Score(in.query, in.chunks[j])

\* The best hits are found, without and with roles and tags, and a search for tasks
\* finds the best tasks unless as many other blocks as it looks at are as good; hits
\* of one score are in the order of the document while it has fewer than ten blocks.
BestBlocksAreFound(in) ==
    LET score(i) == StructureScore(in.blocks[i])
        best(hits, all, limit) ==
            /\ Len(hits) = Cardinality(ToSet(hits)) /\ ToSet(hits) \subseteq all
            /\ Len(hits) = Smaller(limit, Cardinality(all))
            /\ \A i \in ToSet(hits) : \A j \in all \ ToSet(hits) : score(i) >= score(j)
            /\ \A m, n \in DOMAIN hits : m < n =>
                 /\ score(hits[m]) >= score(hits[n])
                 /\ (score(hits[m]) = score(hits[n]) /\ in.lead + Len(in.blocks) < 10) => hits[m] < hits[n]
        matching == {i \in DOMAIN in.blocks : in.blocks[i].words > 0}
        eligible == {i \in matching : in.blocks[i].role \in TaskRoles}
        tasks == {i \in eligible : TaskLike(in.blocks[i])}
        hits == TaskHits(in.blocks, in.lead, in.limit)
    IN  /\ best(StructureHits(in.blocks, in.lead, {}, {}, in.limit), matching, in.limit)
        /\ best(StructureHits(in.blocks, in.lead, {"note", "paragraph"}, {"page:toc"}, in.limit),
                {i \in eligible : in.blocks[i].role \in {"note", "paragraph"} /\ "page:toc" \in in.blocks[i].tags},
                in.limit)
        /\ ToSet(hits) \subseteq tasks /\ Len(hits) =< in.limit
        /\ \/ best(hits, tasks, in.limit)
           \/ \E others \in SUBSET (eligible \ tasks) :
                /\ Cardinality(others) + Len(hits) >= Fetched(in.limit)
                /\ \A o \in others : \A i \in tasks \ ToSet(hits) : score(o) >= score(i)
=============================================================================
