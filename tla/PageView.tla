------------------------------ MODULE PageView ------------------------------
(***************************************************************************)
(* The pages of a document as its projections show them (api_payloads.py),  *)
(* the trace of the decisions about OCR (ocr_trace.py), and the measures of  *)
(* quality (quality.py), all of them made of the same blocks.                *)
(*                                                                           *)
(* in.pages[p]: what OCR came to on page p and the time it took; in.blocks:  *)
(* [page, type, role, text, kind, logical, words, short], kind is the type   *)
(* of the page that the parser tells, logical the logical page of a DOCX (0: *)
(* none), words a phrase that gives a page its type.  Titles, which include  *)
(* the headings of a DOCX, carry nothing about OCR.                          *)
(***************************************************************************)
EXTENDS Integers, Sequences, FiniteSets, SequencesExt, FiniteSetsExt

Positions(in, S(_)) == SelectSeq([k \in DOMAIN in.blocks |-> k], LAMBDA k : S(in.blocks[k]))

Artifact(b) == b.role \in {"artifact", "image", "audit"}

PageNumbers(in) == {b.page : b \in ToSet(in.blocks)}

-----------------------------------------------------------------------------
(* What a block tells of the OCR of its page. *)

\* _attach_page_layout_metadata, and the placeholder of a page without text.
OcrOf(in, b) ==
    LET o == IF b.type = "title" THEN "none" ELSE in.pages[b.page].ocr
    IN  [attempted |-> o # "none",
         fallback |-> o \in {"applied", "cached"},
         rejected |-> o \in {"failed", "unchanged"},
         failed |-> o = "failed",
         accepted |-> {o} \cap {"applied", "cached"},
         refused |-> {o} \cap {"failed", "unchanged"}]

TimeOf(in, b) == IF b.type = "title" THEN 0 ELSE in.pages[b.page].time

-----------------------------------------------------------------------------
(* Pages. *)

\* _infer_page_type_with_confidence: the parts of roles are compared in tenths.
InferredType(in, p) ==
    LET on == Positions(in, LAMBDA b : b.page = p)
        n(role) == 10 * Len(SelectSeq(on, LAMBDA k : in.blocks[k].role = role))
        says(w) == \E k \in ToSet(on) : in.blocks[k].text /\ in.blocks[k].words = w
        body == \E k \in ToSet(on) : LET b == in.blocks[k]
                                     IN  b.text /\ b.type \notin {"title", "table"} /\ ~Artifact(b)
        share(role) == IF n(role) >= 7 * Len(on) THEN "high" ELSE "medium"
    IN  IF n("toc") >= 4 * Len(on) THEN <<"toc", share("toc")>>
        ELSE IF n("front") >= 4 * Len(on) THEN <<"front_matter", share("front")>>
        ELSE IF says("signature") THEN <<"signature", "high">>
        ELSE IF says("appendix") THEN <<"appendix", "medium">>
        ELSE IF p = 1 /\ (\E k \in ToSet(on) : in.blocks[k].type = "title") /\ ~body THEN <<"cover", "high">>
        ELSE <<"body", "high">>

\* _project_pages: where the blocks of page p are listed, and what they tell of OCR.
Listed(in, p) ==
    LET of(S(_)) == Positions(in, LAMBDA b : b.page = p /\ b.type # "title" /\ S(b))
    IN  [text |-> of(LAMBDA b : b.type # "table" /\ ~Artifact(b) /\ b.text),
         tables |-> of(LAMBDA b : b.type = "table" /\ ~Artifact(b) /\ b.text),
         artifacts |-> of(Artifact),
         images |-> of(LAMBDA b : b.role = "image" /\ b.text),
         content |-> of(LAMBDA b : b.type # "table" /\ b.text)]

Told(in, p) ==
    LET all == {in.blocks[k] : k \in {j \in DOMAIN in.blocks : in.blocks[j].page = p}}
    IN  [attempted |-> \E b \in all : OcrOf(in, b).attempted,
         fallback |-> \E b \in all : OcrOf(in, b).fallback,
         rejected |-> \E b \in all : OcrOf(in, b).rejected,
         accepted |-> UNION {OcrOf(in, b).accepted : b \in all},
         refused |-> UNION {OcrOf(in, b).refused : b \in all},
         failed |-> \E b \in all : OcrOf(in, b).failed]

\* The type is that which a block tells, if one does; the logical pages of a DOCX
\* stand on its first page.
Page(in, p) ==
    LET kinds == SelectSeq(Positions(in, LAMBDA b : b.page = p),
                           LAMBDA k : in.blocks[k].kind \notin {"none", "body"})
        said == {b \in ToSet(in.blocks) : b.text /\ b.type # "title" /\ b.logical # 0}
    IN  Listed(in, p) @@ Told(in, p) @@
        [type |-> IF kinds # <<>> THEN <<in.blocks[kinds[1]].kind, "high">> ELSE InferredType(in, p),
         logical |-> IF p # Min(PageNumbers(in)) THEN <<>>
                     ELSE [l \in {b.logical : b \in said} |->
                              Positions(in, LAMBDA b : b.logical = l /\ b.text /\ b.type # "title")]]

ProjectedPages(in) == [p \in PageNumbers(in) |-> Page(in, p)]

\* _structured_pages: every table of a page is named, and the codes about it.
\* in.codes: <<page, code>>, page 0 if it is not told.
StructuredPage(in, codes, p) ==
    [text |-> Page(in, p).text,
     tables |-> Positions(in, LAMBDA b : b.page = p /\ b.type = "table"),
     codes |-> {c[2] : c \in {x \in codes : x[1] = p}}]

-----------------------------------------------------------------------------
(* The trace of OCR. *)

\* build_ocr_decision_trace: the first block that gives a reason counts.
Decision(in, p) ==
    LET all == {in.blocks[k] : k \in {j \in DOMAIN in.blocks : in.blocks[j].page = p}}
        attempted == \E b \in all : OcrOf(in, b).attempted
        fallback == \E b \in all : OcrOf(in, b).fallback
    IN  [attempted |-> attempted, fallback |-> fallback, rejected |-> attempted /\ ~fallback,
         failed |-> \E b \in all : OcrOf(in, b).failed,
         accepted |-> UNION {OcrOf(in, b).accepted : b \in all},
         refused |-> UNION {OcrOf(in, b).refused : b \in all}]

Trace(in) ==
    LET d == [p \in PageNumbers(in) |-> Decision(in, p)]
        count(S(_)) == Cardinality({p \in DOMAIN d : S(d[p])})
    IN  [attempted |-> count(LAMBDA x : x.attempted), fallback |-> count(LAMBDA x : x.fallback),
         rejected |-> count(LAMBDA x : x.rejected), failed |-> count(LAMBDA x : x.failed),
         accepted |-> UNION {d[p].accepted : p \in DOMAIN d},
         refused |-> UNION {d[p].refused : p \in DOMAIN d}]

-----------------------------------------------------------------------------
(* Quality.  g: what the text looks like (garble.py), cid and name in levels. *)

GarbleLevels == [cid : 0..2, name : 0..2, control : BOOLEAN, printable : BOOLEAN, repeated : BOOLEAN]
CleanText == [cid |-> 0, name |-> 0, control |-> FALSE, printable |-> TRUE, repeated |-> FALSE]

\* _evaluate_text_quality: the flags with the hundredths that each of them costs.
Penalties(g, c) ==
    {x \in {<<"cid_garble", 35, g.cid = 2>>, <<"cid_warn", 15, g.cid = 1>>,
            <<"pdf_name_garble", 25, g.name = 2>>, <<"pdf_name_warn", 10, g.name = 1>>,
            <<"control_char_dense", 10, g.control>>, <<"low_printable_ratio", 10, ~g.printable>>,
            <<"repeated_short_tokens", 5, g.repeated>>,
            <<"ocr_failed", 10 * Min({c.failed, 3}), c.failed > 0>>,
            <<"suspect_signature_overload", 10, c.signatures >= 5>>,
            <<"empty_output", 50, c.empty>>, <<"docx_single_page", 5, c.single>>} : x[3]}

Severe == {"cid_garble", "pdf_name_garble", "control_char_dense", "low_printable_ratio"}

TextQuality(g, c) ==
    LET flags == {x[1] : x \in Penalties(g, c)}
    IN  [flags |-> flags,
         score |-> Max({0, 100 - MapThenSumSet(LAMBDA x : x[2], Penalties(g, c))}),
         failed |-> c.failed,
         action |-> IF flags \cap Severe # {} /\ "ocr_failed" \notin flags /\ ~c.fallback THEN "retry_with_ocr"
                    ELSE IF "docx_single_page" \in flags THEN "retry_with_vector_refine"
                    ELSE IF "suspect_signature_overload" \in flags THEN "retry_with_llm_refine"
                    ELSE "none"]

\* evaluate_parse_quality; MaxBlocks of one page make a DOCX suspect.
MaxBlocks == 20
RawQuality(in, g) ==
    LET pages(S(_)) == {p \in PageNumbers(in) : \E b \in ToSet(in.blocks) : b.page = p /\ S(b)}
        signed(p) == Len(Positions(in, LAMBDA b : b.page = p /\ (b.role = "signature" \/ b.kind = "signature")))
    IN  TextQuality(g, [failed |-> Cardinality(pages(LAMBDA b : OcrOf(in, b).failed)),
                        fallback |-> pages(LAMBDA b : OcrOf(in, b).fallback) # {},
                        signatures |-> Cardinality({p \in PageNumbers(in) :
                            signed(p) > 0 /\ 2 * signed(p) >= Len(Positions(in, LAMBDA b : b.page = p))}),
                        empty |-> in.blocks = <<>>,
                        single |-> PageNumbers(in) = {1} /\ Len(in.blocks) > MaxBlocks])

\* evaluate_projected_parse_quality
OutputQuality(in, g) ==
    TextQuality(g, [failed |-> 0, fallback |-> FALSE, signatures |-> 0,
                    empty |-> PageNumbers(in) = {}, single |-> FALSE])

\* evaluate_blocks, without the lengths: placeholders are no content.
Structure(in) ==
    LET content(p) == Positions(in, LAMBDA b : b.page = p /\ b.role # "audit")
        short(p) == Positions(in, LAMBDA b : b.page = p /\ b.role # "audit" /\ b.short)
    IN  [pages |-> [p \in PageNumbers(in) |-> [blocks |-> Len(content(p)), short |-> Len(short(p))]],
         blocks |-> Len(Positions(in, LAMBDA b : b.role # "audit")),
         short |-> MapThenSumSet(LAMBDA p : Len(short(p)), PageNumbers(in))]

\* evaluate_layout_signals: a time is that of a page, whatever block tells it.
LayoutSignals(in) ==
    LET pages(S(_)) == {p \in PageNumbers(in) : \E b \in ToSet(in.blocks) : b.page = p /\ S(b)}
        time(p) == Max({TimeOf(in, b) : b \in {x \in ToSet(in.blocks) : x.page = p}})
    IN  [attempted |-> Cardinality(pages(LAMBDA b : OcrOf(in, b).attempted)),
         fallback |-> Cardinality(pages(LAMBDA b : OcrOf(in, b).fallback)),
         failed |-> Cardinality(pages(LAMBDA b : OcrOf(in, b).failed)),
         time |-> MapThenSumSet(time, PageNumbers(in)),
         longest |-> Max({0} \cup {time(p) : p \in PageNumbers(in)})]

\* _aggregate_stage_timings: a time is counted for every block that tells it.
StageTimings(in) == FoldLeft(LAMBDA sum, b : sum + TimeOf(in, b), 0, in.blocks)

-----------------------------------------------------------------------------
(* What must hold. *)

\* Every page that a block is on is shown, and every text but that of a title once, in
\* its order: as text, as a table or as an artifact of its page.  What a page
\* lists in its content is its text and what its artifacts say.
PagesAreComplete(in) ==
    LET pages == ProjectedPages(in)
    IN  /\ \A k \in DOMAIN in.blocks :
             LET b == in.blocks[k]
                 places == {<<p, f>> \in (DOMAIN pages) \X {"text", "tables", "artifacts"} : k \in ToSet(pages[p][f])}
             IN  IF b.type # "title" /\ (b.text \/ Artifact(b))
                 THEN Cardinality(places) = 1 /\ \A x \in places : x[1] = b.page
                 ELSE places = {}
        /\ \A p \in DOMAIN pages :
             /\ \A f \in {"text", "tables", "artifacts", "content"} :
                  \A i, j \in DOMAIN pages[p][f] : i < j => pages[p][f][i] < pages[p][f][j]
             /\ ToSet(pages[p].text) \subseteq ToSet(pages[p].content)
             /\ ToSet(pages[p].content) \subseteq ToSet(pages[p].text) \cup ToSet(pages[p].artifacts)
             /\ ToSet(pages[p].images) \subseteq ToSet(pages[p].artifacts) \cap {k \in DOMAIN in.blocks : in.blocks[k].text}
             /\ ToSet(pages[p].tables) \subseteq ToSet(StructuredPage(in, {}, p).tables)
             /\ pages[p].type[1] = "cover" =>
                  pages[p].text = <<>> \/ \E b \in ToSet(in.blocks) : b.page = p /\ b.kind = "cover"
        /\ \A l \in UNION {DOMAIN pages[p].logical : p \in DOMAIN pages} : \E p \in DOMAIN pages :
             ToSet(pages[p].logical[l]) = {k \in DOMAIN in.blocks : in.blocks[k].logical = l /\ in.blocks[k].text
                                                                     /\ in.blocks[k].type # "title"}

\* The pages, the trace, the raw quality and the signals of the layout tell the same of
\* OCR, and an attempt either changed the page or was rejected.
OcrIsToldAlike(in) ==
    LET t == Trace(in)
        pages == ProjectedPages(in)
        count(f) == Cardinality({p \in DOMAIN pages : pages[p][f]})
        layout == LayoutSignals(in)
    IN  /\ \A f \in {"attempted", "fallback", "rejected", "failed"} : t[f] = count(f)
        /\ t.attempted = t.fallback + t.rejected /\ t.failed =< t.rejected
        /\ \A f \in {"accepted", "refused"} : t[f] = UNION {pages[p][f] : p \in DOMAIN pages}
        /\ (t.fallback > 0 <=> t.accepted # {}) /\ (t.rejected > 0 <=> t.refused # {})
        /\ \A f \in {"attempted", "fallback", "failed"} : layout[f] = t[f]
        /\ RawQuality(in, CleanText).failed = t.failed

\* A page is measured once however many blocks it has; placeholders of empty pages
\* change nothing but the number of pages; and totals are those of the pages.
MeasuresCountPages(in) ==
    LET s == Structure(in)
        l == LayoutSignals(in)
        content == [in EXCEPT !.blocks = SelectSeq(in.blocks, LAMBDA b : b.role # "audit")]
        told == {p \in PageNumbers(in) : \E b \in ToSet(in.blocks) : b.page = p /\ b.type # "title"}
    IN  /\ s.blocks = MapThenSumSet(LAMBDA p : s.pages[p].blocks, DOMAIN s.pages)
        /\ Structure(content).blocks = s.blocks /\ Structure(content).short = s.short
        /\ \A p \in DOMAIN s.pages : s.pages[p].short =< s.pages[p].blocks
        /\ l.time = MapThenSumSet(LAMBDA p : in.pages[p].time, told)
        /\ l.longest =< l.time /\ l.time =< StageTimings(in)

\* A score of one means that nothing was found, each flag costs something, and OCR is
\* advised only for text that is garbled and was not read by OCR.
ScoresTellFlags(in) ==
    LET q == TextQuality(in.g, in.c)
        clean == TextQuality(CleanText, in.c)
    IN  /\ q.score \in 0..100 /\ (q.score = 100 <=> q.flags = {})
        /\ clean.flags \subseteq q.flags /\ q.score =< clean.score
        /\ clean.flags # q.flags => q.score < clean.score \/ q.score = 0
        /\ q.action # "none" => q.flags # {}
=============================================================================
