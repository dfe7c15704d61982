------------------------------ MODULE PdfPages ------------------------------
(***************************************************************************)
(* How PdfTextParser (parsers.py) chooses, for each page of a PDF, where    *)
(* its text and its structure come from: the native text of pypdf, the      *)
(* layout pass of pdfplumber, an OCR engine, or the page cache of OCR       *)
(* results on disk (ocr_cache.py), which outlives the parse.  A behaviour   *)
(* is a series of parses of one file with different requests.               *)
(*                                                                          *)
(* Pages are known by what the detectors see on them.  What a layout pass   *)
(* makes of a page's geometry is left out; the text of a page is "native",  *)
(* or the OCR text that was made of a version of the file.                  *)
(***************************************************************************)
EXTENDS Naturals, FiniteSets

CONSTANTS
    Kinds,          \* the pages a document may have, a subset of PageKinds
    NumPages,       \* pages of a document
    Requests,       \* the requests made, a subset of AllRequests
    BadPages,       \* config: ocr_bad_pages
    Dual,           \* config: dual_channel
    Order,          \* config: layout_reading_order
    Adaptive,       \* config: adaptive dual channel
    MinPages,       \* config: adaptive_dual_channel_min_pages
    MaxSelected,    \* config: the number of pages max_page_ratio allows
    Cache,          \* config: the OCR page cache
    FastPath,       \* config: adaptive_ocr_cache_fast_path
    MaxRuns         \* bound of the model: parses and replacements

Pages == 1..NumPages

\* text: "good", "garbled" (CID tokens), "empty".  images: image objects that
\* pdfplumber sees; shown: those at the top level, which pypdf counts.  layout:
\* a layout marker, two column-like lines or fragmented lines; strong: a strong
\* table marker or four table-like lines; figure: a figure marker; tables: there
\* is a table to be found.
PageKinds == [text : {"good", "garbled", "empty"}, images : {0, 1, 5}, shown : BOOLEAN,
              layout : BOOLEAN, strong : BOOLEAN, figure : BOOLEAN, tables : BOOLEAN]

Override == {"none", "true", "false"}
\* fast: profile large-pdf-catalog or large-pdf-ledger; full: table-heavy or scan-pdf.
AllRequests == [ocr : Override, dual : Override, order : Override, cache : Override,
                profile : {"other", "catalog", "ledger", "full"}]

VARIABLES
    doc,      \* the pages of the file
    version,  \* how often it was replaced
    ocr,      \* the OCR cache: the version of each page's entry, 0 for none
    last,     \* the last request, and what became of each page
    runs

vars == <<doc, version, ocr, last, runs>>

-----------------------------------------------------------------------------
(* _parse_uncached: what a request switches on. *)

Resolve(override, base) == IF override = "none" THEN base ELSE override = "true"
FastText(r) == r.profile \in {"catalog", "ledger"}
Forced(r) == r.ocr = "true"
OcrOn(r) == IF FastText(r) /\ r.ocr = "none" THEN FALSE ELSE Resolve(r.ocr, BadPages)
OrderOn(r) == IF FastText(r) /\ r.order = "none" THEN FALSE ELSE Resolve(r.order, Order)
DualOn(r) ==
    \/ IF FastText(r) /\ r.dual = "none" THEN FALSE ELSE Resolve(r.dual, Dual)
    \/ OcrOn(r) \/ OrderOn(r)
CacheOn(r) == Resolve(r.cache, Cache)
AdaptiveAllowed(r) ==
    /\ Adaptive /\ DualOn(r) /\ ~FastText(r) /\ r.profile # "full"
    /\ "true" \notin {r.dual, r.order, r.ocr}

\* _ocr_fallback_reason_for_page
FallbackReason(k) == CASE k.text = "good" -> "none"
                       [] k.text = "garbled" -> "cid_dense"
                       [] OTHER -> "empty_text"

ImageHint(k) == IF k.shown THEN k.images ELSE 0

\* _select_pdf_layout_work: the pages of the layout pass, of which some are
\* searched for tables and figures.
Selected(k) ==
    \/ k.text = "empty" /\ ImageHint(k) > 0
    \/ FallbackReason(k) \notin {"none", "empty_text"}
    \/ k.layout \/ ImageHint(k) >= 5
FigurePage(k) == k.figure \/ ImageHint(k) >= 5 \/ (k.text = "empty" /\ ImageHint(k) > 0)

LayoutWork(d) ==
    LET chosen == {p \in Pages : Selected(d[p])} IN
    [none |-> NumPages < MinPages \/ Cardinality(chosen) > MaxSelected,
     layout |-> chosen,
     tables |-> {p \in chosen : d[p].strong},
     figures |-> {p \in chosen : FigurePage(d[p])}]

LayoutStrategy(r, d) ==
    IF ~AdaptiveAllowed(r) THEN "full"
    ELSE IF LayoutWork(d).none THEN "full-fallback"
    ELSE IF LayoutWork(d).layout = {} THEN "adaptive-native-text"
    ELSE "adaptive-selective"

\* The pages pdfplumber lays out, and those it searches for tables.
LaidOut(r, d) ==
    CASE ~DualOn(r) \/ LayoutStrategy(r, d) = "adaptive-native-text" -> {}
      [] LayoutStrategy(r, d) = "adaptive-selective" -> LayoutWork(d).layout
      [] OTHER -> Pages
Searched(r, d) ==
    IF LayoutStrategy(r, d) = "adaptive-selective" THEN LayoutWork(d).tables ELSE LaidOut(r, d)

-----------------------------------------------------------------------------
(* _extract_pdfplumber_layout and _maybe_recover_page_with_ocr, for a page. *)

\* Why OCR is tried on a page; "none" when it is not.
AttemptReason(r, k) ==
    LET reason == IF Forced(r) THEN "forced_full_page" ELSE FallbackReason(k) IN
    IF reason \in {"none", "empty_text"} /\ k.text = "empty"
    THEN IF k.images > 0 THEN "native_text_empty" ELSE "none"
    ELSE reason

\* The page is taken from the cache before its tables are looked for.
TakesFastPath(r, d, p) ==
    /\ FastPath /\ LayoutStrategy(r, d) = "adaptive-selective"
    /\ p \notin LayoutWork(d).tables \cup LayoutWork(d).figures

\* The tables of a page are found; hit: its OCR entry is used.
Tables(r, d, p, hit) ==
    d[p].tables /\ p \in Searched(r, d) /\ ~(TakesFastPath(r, d, p) /\ hit)

Untouched == [text |-> "native", of |-> 0, attempt |-> "none", tables |-> FALSE]

\* Cached text is used although OCR is switched off.
BadHit(r, p) == CacheOn(r) /\ ocr[p] # 0

\* The entry of a page is used: OCR is on, whatever the page looks like now.
Hit(r, p) == OcrOn(r) /\ CacheOn(r) /\ ocr[p] # 0

\* What becomes of page p; the engine gives text or not.
PageResult(r, p, engine) ==
    CASE p \notin LaidOut(r, doc) -> Untouched
      [] p \in LaidOut(r, doc) /\ Hit(r, p) ->
            [text |-> "ocr", of |-> ocr[p], attempt |-> "cid_dense",
             tables |-> Tables(r, doc, p, TRUE)]
      [] OTHER ->
            LET reason == IF OcrOn(r) THEN AttemptReason(r, doc[p]) ELSE "none" IN
            [text |-> IF reason # "none" /\ engine THEN "ocr" ELSE "native",
             of |-> IF reason # "none" /\ engine THEN version + 1 ELSE 0,
             attempt |-> reason, tables |-> Tables(r, doc, p, FALSE)]

-----------------------------------------------------------------------------
NoRequest == [ocr |-> "false", dual |-> "false", order |-> "false", cache |-> "none",
              profile |-> "other"]

Init ==
    /\ doc \in [Pages -> Kinds]
    /\ version = 0 /\ runs = 0
    /\ ocr = [p \in Pages |-> 0]
    /\ last = [req |-> NoRequest, pages |-> [p \in Pages |-> Untouched]]

\* One parse; OCR text that the engine gives is put into the cache.
Parse(r) ==
    /\ runs < MaxRuns /\ runs' = runs + 1
    /\ \E engine \in [Pages -> BOOLEAN] :
         LET result == [p \in Pages |-> PageResult(r, p, engine[p])] IN
         /\ \A p \in Pages : result[p].attempt = "none" \/ Hit(r, p) => engine[p]
         /\ last' = [req |-> r, pages |-> result]
         /\ ocr' = [p \in Pages |-> IF CacheOn(r) /\ result[p].text = "ocr"
                                    THEN result[p].of ELSE ocr[p]]
    /\ UNCHANGED <<doc, version>>

\* The file is replaced; its entries are found again if path, size and mtime
\* are the same (_key), otherwise they are lost.
Replace ==
    /\ runs < MaxRuns /\ runs' = runs + 1 /\ version' = version + 1
    /\ doc' \in [Pages -> Kinds]
    /\ ocr' \in {ocr, [p \in Pages |-> 0]}
    /\ last' = [req |-> NoRequest, pages |-> [p \in Pages |-> Untouched]]

Expire(p) ==
    /\ ocr[p] # 0 /\ ocr' = [ocr EXCEPT ![p] = 0]
    /\ UNCHANGED <<doc, version, last, runs>>

Next == Replace \/ (\E r \in Requests : Parse(r)) \/ (\E p \in Pages : Expire(p))

Spec == Init /\ [][Next]_vars

-----------------------------------------------------------------------------
(* Properties. *)

PageResults == [text : {"native", "ocr"}, of : 0..MaxRuns + 1, tables : BOOLEAN,
                attempt : {"none", "forced_full_page", "cid_dense", "empty_text",
                           "native_text_empty"}]

TypeOK ==
    /\ doc \in [Pages -> PageKinds]
    /\ version \in 0..MaxRuns /\ runs \in 0..MaxRuns
    /\ ocr \in [Pages -> 0..MaxRuns + 1]
    /\ last \in [req : AllRequests, pages : [Pages -> PageResults]]

\* The selective pass tries OCR on every page on which the full pass would,
\* provided that the images of a page are visible to pypdf ("retains all pages
\* with OCR/empty-text signals").
SelectionKeepsOcrPages ==
    \A r \in Requests : AdaptiveAllowed(r) /\ OcrOn(r) =>
        \A p \in Pages :
            AttemptReason(r, doc[p]) # "none" /\ doc[p].images = ImageHint(doc[p]) =>
                \/ p \in LaidOut(r, doc)
                \/ LayoutStrategy(r, doc) = "full-fallback"

\* A request that switches OCR off never gets OCR text, not even from an entry
\* that an earlier request has left in the cache.
NoOcrWhenOff ==
    ~OcrOn(last.req) => \A p \in Pages : last.pages[p].text = "native"

\* What the OCR cache holds does not change which tables a parse finds ("the
\* cache cannot hide structured content").
CacheHidesNoTable ==
    \A p \in Pages : p \in Searched(last.req, doc) /\ doc[p].tables => last.pages[p].tables

\* "only obviously broken PDF pages fall back to OCR while healthy digital text
\* pages stay on the native path."
HealthyPagesStayNative ==
    last.req.ocr = "none" => \A p \in Pages : doc[p].text = "good" => last.pages[p].text = "native"
=============================================================================
