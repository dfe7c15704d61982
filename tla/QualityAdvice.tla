---------------------------- MODULE QualityAdvice ----------------------------
(***************************************************************************)
(* What the quality projection of a document says and advises              *)
(* (api_payloads.py, parts.py): the parts with their signals, the gate, the *)
(* comparison of the providers, what needs attention first, the requests    *)
(* that would help, and the comparison of a part with its rerun.            *)
(*                                                                         *)
(* A document is [pages, parts, config], pages is a function on the numbers *)
(* of the pages that were parsed.  A page is [rag, info, order,             *)
(* provider, blocks]: rag holds its gaps, info tells of another signal      *)
(* about it, order is its reading order confidence in per cent, 0 if none   *)
(* was observed.  A part is [first, last, state, able, rerun], state that of *)
(* its job, able if it can be rerun (rerun_supported), rerun what the       *)
(* comparison with the run before it said.  The parts of a partition can be *)
(* rerun; the one unit of another document cannot.                          *)
(***************************************************************************)
EXTENDS Integers, Sequences, FiniteSets, SequencesExt, FiniteSetsExt

Reasons == {"empty", "chunks", "vectors"}      \* missing_reason, one for a page
RagCodes == Reasons \cup {"table", "figure"}   \* rag_table_without_unit, ...

-----------------------------------------------------------------------------
(* Signals of pages and parts. *)

\* The mean reading order of some pages, of those where it was observed.
Order(doc, I) ==
    LET seen == {i \in I : doc.pages[i].order # 0}
    IN  IF seen = {} THEN 100
        ELSE MapThenSumSet(LAMBDA i : doc.pages[i].order, seen) \div Cardinality(seen)

\* _quality_signals and the signals of the coverage, of one page.
Codes(page) ==
    page.rag \cup (IF page.info THEN {"ocr_attempted"} ELSE {})
             \cup (IF page.order \in 1..74 THEN {"order"} ELSE {})

PagesOf(doc, part) == {i \in DOMAIN doc.pages : i \in part.first..part.last}

PartCodes(doc, part) == UNION {Codes(doc.pages[i]) : i \in PagesOf(doc, part)}

SignalCount(doc, part) ==
    MapThenSumSet(LAMBDA i : Cardinality(Codes(doc.pages[i])), PagesOf(doc, part))

Gaps(doc, part) == {i \in PagesOf(doc, part) : doc.pages[i].rag # {}}

\* _effective_part_state
PartState(doc, part) ==
    IF part.state = "done" /\ SignalCount(doc, part) > 0 THEN "warning" ELSE part.state

\* part_summary of document_parts_projection
PartSummary(doc) ==
    LET with(S(_)) == Cardinality({p \in DOMAIN doc.parts : S(doc.parts[p])})
    IN  [total |-> Len(doc.parts),
         states |-> [s \in {PartState(doc, doc.parts[p]) : p \in DOMAIN doc.parts} |->
                       with(LAMBDA part : PartState(doc, part) = s)],
         gaps |-> with(LAMBDA part : Gaps(doc, part) # {}),
         compared |-> with(LAMBDA part : part.rerun # "none")]

-----------------------------------------------------------------------------
(* Advice is a sequence of actions, the first of which counts most. *)

Act(id, part, parts, plan) == [id |-> id, part |-> part, parts |-> parts, plan |-> plan]
Plain(id) == Act(id, 0, {}, {})

If(condition, seq) == IF condition THEN seq ELSE <<>>

\* _merge_action_suggestions: one action for an endpoint, the review last.
Merged(first, second) ==
    LET Step(acc, a) == IF \E i \in DOMAIN acc : acc[i].id = a.id /\ acc[i].part = a.part
                        THEN acc ELSE Append(acc, a)
        once == FoldLeft(Step, <<>>, first \o second)
    IN  SelectSeq(once, LAMBDA a : a.id # "review_quality")
        \o SelectSeq(once, LAMBDA a : a.id = "review_quality")

\* _required_provider_capabilities_for_reason_codes
Capabilities(codes) ==
    (IF codes \cap {"table", "low_tables"} # {} THEN {"tables"} ELSE {})
    \cup (IF "figure" \in codes THEN {"layout", "figures"} ELSE {})
    \cup (IF codes \cap {"order", "low_order"} # {} THEN {"layout"} ELSE {})
    \cup (IF codes \cap {"empty", "low_text"} # {} THEN {"native_text", "ocr"} ELSE {})

\* _rerun_comparison_follow_up_suggestions; the profile of a document is set,
\* so that there is always a route plan.
FollowUps(part, plan) ==
    LET inspect == Act("inspect_provider_route_plan", 0, {}, plan)
    IN  IF part.rerun \in {"unchanged", "provider_changed"}
        THEN <<inspect, Plain("review_parse_ir")>>
        ELSE <<Plain("review_parse_ir"), inspect>>

\* _part_action_suggestions
PartActions(doc, p) ==
    LET part == doc.parts[p]
        codes == PartCodes(doc, part)
        plan == Capabilities(codes)
        rerun == part.able /\ (part.state = "failed" \/ codes \cap {"empty", "table", "figure", "order"} # {})
    IN  If(codes # {} \/ PartState(doc, part) \in {"warning", "failed"},
           If(rerun, IF part.rerun # "none" THEN FollowUps(part, plan)
                     ELSE <<Act("rerun_part", p, {p}, plan)>>)
           \o If("chunks" \in codes, <<Plain("rechunk_document")>>)
           \o If("vectors" \in codes, <<Plain("reembed_document")>>)
           \o If(codes # {}, <<Plain("review_quality")>>))

-----------------------------------------------------------------------------
(* The gate. *)

Flags(doc) == UNION {doc.pages[i].rag : i \in DOMAIN doc.pages}

\* The ratios of a document below the thresholds; a page without units is one of
\* many in a large document, which may stay above them.
LowFlags(doc) ==
    {"low_text" : x \in IF "empty" \in Flags(doc) /\ ~doc.config.large THEN {1} ELSE {}}
    \cup {"low_chunks" : x \in IF "chunks" \in Flags(doc) /\ ~doc.config.large THEN {1} ELSE {}}
    \cup {"low_order" : x \in IF Order(doc, DOMAIN doc.pages) < 75 THEN {1} ELSE {}}

\* rag_coverage_quality_payload: what the coverage recommends.
RagAction(flags) ==
    CASE "empty" \in flags -> "review_parse_ir"
      [] "empty" \notin flags /\ "table" \in flags -> "local_provider_rerun"
      [] flags \cap {"empty", "table"} = {} /\ "figure" \in flags -> "review_parse_ir"
      [] flags \cap {"empty", "table", "figure"} = {} /\ "chunks" \in flags -> "rechunk_document"
      [] flags = {"vectors"} -> "reembed_document"
      [] OTHER -> "none"

\* _quality_gate_projection: the action of the coverage comes before the gate's own.
Gate(doc) ==
    LET flags == Flags(doc)
        all == flags \cup LowFlags(doc)
        some(S) == all \cap S # {}
        act(own) == IF RagAction(flags) # "none" THEN RagAction(flags) ELSE own
        or(allowed, gate) == IF allowed THEN gate ELSE "accept_with_warning"
    IN  IF ~doc.config.enabled THEN [gate |-> "disabled", action |-> "none"]
        ELSE IF some({"empty"})
             THEN [gate |-> or(doc.config.manual, "manual_review"), action |-> act("review_parse_ir")]
        ELSE IF some({"table", "low_order", "low_text", "low_tables"})
             THEN [gate |-> or(doc.config.rerun, "local_rerun"), action |-> act("local_provider_rerun")]
        ELSE IF all # {} THEN [gate |-> "accept_with_warning", action |-> act("none")]
        ELSE [gate |-> "accept", action |-> "none"]

\* _runtime_document_quality_observation: the gate and the action that are recorded as
\* an event when a job is done.
ObservedGate(doc) ==
    LET all == Flags(doc) \cup LowFlags(doc)
        some(S) == all \cap S # {}
        or(allowed, gate) == IF allowed THEN gate ELSE "accept_with_warning"
        put(gate, action) == [gate |-> gate, action |-> action]
    IN  IF ~doc.config.enabled THEN put("disabled", "none")
        ELSE IF some({"empty"}) THEN put(or(doc.config.manual, "manual_review"), "review_parse_ir")
        ELSE IF some({"table", "low_order", "low_text", "low_tables"})
             THEN put(or(doc.config.rerun, "local_rerun"), "local_provider_rerun")
        ELSE IF some({"figure"}) THEN put("accept_with_warning", "review_parse_ir")
        ELSE IF some({"chunks", "low_chunks"}) THEN put("accept_with_warning", "rechunk_document")
        ELSE IF some({"vectors"}) THEN put("accept_with_warning", "reembed_document")
        ELSE put(IF all # {} THEN "accept_with_warning" ELSE "accept", "none")

\* _quality_local_provider_rerun_candidates, which looks at the state of the job.
Candidates(doc) ==
    {p \in DOMAIN doc.parts :
        /\ doc.parts[p].able
        /\ doc.parts[p].state \in {"warning", "failed"} \/ SignalCount(doc, doc.parts[p]) > 0
        /\ doc.parts[p].rerun = "none"}

\* _quality_action_suggestions
GateActions(doc) ==
    LET gate == Gate(doc)
        all == Flags(doc) \cup LowFlags(doc)
        plan == Capabilities(all)
    IN  If(gate.gate \notin {"accept", "disabled"},
           CASE gate.action = "local_provider_rerun" ->
                  If(Candidates(doc) # {}, <<Act("rerun_warning_parts", 0, Candidates(doc), plan)>>)
                  \o <<Act("inspect_provider_route_plan", 0, {}, plan), Act("reparse_document", 0, {}, plan)>>
             [] gate.action = "none" -> <<>>
             [] OTHER -> <<Plain(gate.action)>>
           \o If(all # {}, <<Plain("review_quality")>>))

-----------------------------------------------------------------------------
(* The providers.  The primary one has most blocks. *)

PagesBy(doc, v) == {i \in DOMAIN doc.pages : doc.pages[i].provider = v}
Providers(doc) == {doc.pages[i].provider : i \in DOMAIN doc.pages}
BlocksBy(doc, v) == MapThenSumSet(LAMBDA i : doc.pages[i].blocks, PagesBy(doc, v))
GapsBy(doc, v) == Cardinality({i \in PagesBy(doc, v) : doc.pages[i].rag \cap Reasons # {}})
CodesBy(doc, v) == UNION {doc.pages[i].rag : i \in PagesBy(doc, v)}
OrderBy(doc, v) == Order(doc, PagesBy(doc, v))

\* _provider_comparison_score, in ten thousandths
Score(doc, v) ==
    LET lost(code, points) == IF code \in CodesBy(doc, v) THEN points ELSE 0
        order == OrderBy(doc, v)
    IN  10000 - (5000 * GapsBy(doc, v)) \div Cardinality(PagesBy(doc, v))
              - lost("empty", 2000) - lost("table", 1500) - lost("figure", 1000)
              - lost("chunks", 1000) - lost("vectors", 500)
              - (IF order < 75 THEN Min({1000, (75 - order) * 40}) ELSE 0)

\* The order of the rankings; providers are numbered in the order of their ids.
RanksBefore(doc, v, w) ==
    LET key(x) == <<-Max({0, Score(doc, x)}), GapsBy(doc, x), -BlocksBy(doc, x), x>>
    IN  \E k \in 1..4 : key(v)[k] < key(w)[k] /\ \A j \in 1..(k - 1) : key(v)[j] = key(w)[j]

Primary(doc) == CHOOSE v \in Providers(doc) : \A w \in Providers(doc) \ {v} :
                    BlocksBy(doc, v) > BlocksBy(doc, w) \/ (BlocksBy(doc, v) = BlocksBy(doc, w) /\ v < w)
Best(doc) == CHOOSE v \in Providers(doc) : \A w \in Providers(doc) \ {v} : RanksBefore(doc, v, w)

\* attention_provider_ids of _provider_comparison_report
ProvidersToWatch(doc) ==
    (IF Best(doc) # Primary(doc) THEN {Best(doc), Primary(doc)} ELSE {})
    \cup {v \in Providers(doc) : CodesBy(doc, v) # {} \/ OrderBy(doc, v) < 75}

\* _provider_comparison_actions
ProviderActions(doc) ==
    If(ProvidersToWatch(doc) # {},
       <<Plain("inspect_provider_comparison")>>
       \o If(Best(doc) # Primary(doc), <<Plain("inspect_provider_route_plan")>>))

-----------------------------------------------------------------------------
(* Attention. *)

\* _quality_parts_diagnostics
PartsToWatch(doc) ==
    {p \in DOMAIN doc.parts :
        LET part == doc.parts[p]
        IN  \/ PartState(doc, part) \in {"warning", "failed"}
            \/ part.rerun # "none"
            \/ Gaps(doc, part) # {}}

WatchedParts(doc) == SelectSeq([p \in DOMAIN doc.parts |-> p], LAMBDA p : p \in PartsToWatch(doc))

AllPartActions(doc) ==
    LET Step(acc, p) == acc \o PartActions(doc, p)
    IN  Merged(FoldLeft(Step, <<>>, WatchedParts(doc)), <<>>)

\* _part_recommended_focus; rag_gate is the gate of the part's own coverage.
PartFocus(doc, part) ==
    LET flags == PartCodes(doc, part) \cap RagCodes
    IN  CASE part.rerun \in {"unchanged", "provider_changed"} -> "provider_route_plan"
          [] part.rerun \in {"regressed", "mixed"} -> "parse_ir"
          [] part.rerun = "improved" -> IF flags # {} THEN "coverage_gaps" ELSE "quality_review"
          [] part.rerun = "none" /\ part.able /\ flags # {} -> "local_provider_rerun"
          [] part.rerun = "none" /\ ~(part.able /\ flags # {}) /\ SignalCount(doc, part) > 0 -> "quality_review"
          [] OTHER -> "none"

\* _quality_attention_summary: what to look at first, and in which order, given the
\* gate and the actions of the gate, of the parts and of the providers.
AttentionOf(doc, gate, gates, parts, providers) ==
    LET direct == {PartFocus(doc, doc.parts[p]) : p \in PartsToWatch(doc)}
                    \cap {"local_provider_rerun", "provider_route_plan", "parse_ir", "coverage_gaps"} # {}
        batch == \E i \in DOMAIN gates : gates[i].id = "rerun_warning_parts"
        rerun == gate.action = "local_provider_rerun"
        put(focus, a, b, c) == [focus |-> focus, actions |-> Merged(Merged(a, b), c)]
    IN  IF gate.action \in {"rechunk_document", "reembed_document"}
            THEN put("quality_gate", gates, parts, providers)
        ELSE IF rerun /\ batch THEN put("parts", gates, parts, providers)
        ELSE IF Best(doc) # Primary(doc) THEN put("providers", providers, parts, gates)
        ELSE IF rerun /\ direct THEN put("parts", parts, providers, gates)
        ELSE IF PartsToWatch(doc) # {} /\ (direct \/ ProvidersToWatch(doc) = {})
            THEN put("parts", parts, gates, providers)
        ELSE IF ProvidersToWatch(doc) # {} THEN put("providers", providers, gates, parts)
        ELSE IF gate.gate \notin {"accept", "disabled"} THEN put("quality_gate", gates, providers, parts)
        ELSE [focus |-> "none", actions |-> <<>>]
Attention(doc) == AttentionOf(doc, Gate(doc), GateActions(doc), AllPartActions(doc), ProviderActions(doc))

-----------------------------------------------------------------------------
(* Requests. *)

Posts == {"rerun_part", "rerun_warning_parts", "reparse_document", "rechunk_document",
          "reembed_document", "rerun_attention_parts"}

\* _quality_parts_batch_rerun_contracts: one request for the parts with the
\* same route plan.
Batches(doc) ==
    LET reruns == {p \in PartsToWatch(doc) :
                     \E i \in DOMAIN PartActions(doc, p) : PartActions(doc, p)[i].id = "rerun_part"}
        plan(p) == Capabilities(PartCodes(doc, doc.parts[p]))
    IN  {Act("rerun_attention_parts", 0, {p \in reruns : plan(p) = c}, c) : c \in {plan(p) : p \in reruns}}

\* Requests that rerun a part by itself although a batch has it.
BadExecuteRequests(doc, actions) ==
    LET posts == {a \in ToSet(actions) : a.id \in Posts}
    IN  posts \cup (IF \E a \in posts : a.id = "rerun_warning_parts" THEN {} ELSE Batches(doc))

\* _quality_execute_contracts: the rerun of a part is left out if a batch has it.
ExecuteRequests(doc, actions) ==
    LET posts == {a \in ToSet(actions) : a.id \in Posts}
        advised == {a \in posts : a.id = "rerun_warning_parts"}
        batches == IF advised # {} THEN advised ELSE Batches(doc)
        covered == UNION {a.parts : a \in batches}
    IN  {a \in posts : a.id # "rerun_part" \/ a.part \notin covered} \cup batches

\* The views with an entry point, those that call for attention, and the one
\* that a focus leads to (_quality_diagnostic_entrypoints, _attention_focus_view).
InspectViews == {"quality", "providers", "parts", "coverage"}
Alarms(doc) ==
    {v \in InspectViews : CASE v = "quality" -> Gate(doc).gate \notin {"accept", "disabled"}
                     [] v = "providers" -> ProvidersToWatch(doc) # {}
                     [] v = "parts" -> PartsToWatch(doc) # {}
                     [] v = "coverage" -> Flags(doc) # {}}
ViewOf(focus) == IF focus = "quality_gate" THEN "quality" ELSE focus

\* _quality_contract_workflow: what to inspect, to compare, and to execute.
Workflow(doc, best) ==
    LET gets == {a \in ToSet(best.actions) : a.id \notin Posts}
    IN  [inspect |-> gets, views |-> InspectViews, first |-> ViewOf(best.focus),
         compare |-> {a \in gets : a.id \in {"inspect_provider_comparison", "inspect_provider_route_plan"}},
         execute |-> ExecuteRequests(doc, best.actions)]

\* The requests that the rerun endpoint gets (ParseRuntime.rerun_pdf_parts):
\* the advice about warning parts asks for the state of the job.
Submitted(doc, a) ==
    {p \in a.parts : a.id = "rerun_warning_parts" => doc.parts[p].state = "warning"}

-----------------------------------------------------------------------------
(* The rerun of a part.  An observation is [signals, gaps, units, lost,      *)
(* provider]: counts, of which fewer is better.                              *)

Axes == {"signals", "gaps", "units", "lost"}

\* _part_rerun_comparison
Comparison(before, after) ==
    LET better == {x \in Axes : after[x] < before[x]}
        worse == {x \in Axes : after[x] > before[x]}
    IN  [improved |-> better, regressed |-> worse,
         status |-> CASE better # {} /\ worse # {} -> "mixed"
                      [] better # {} /\ worse = {} -> "improved"
                      [] better = {} /\ worse # {} -> "regressed"
                      [] OTHER -> IF before.provider # after.provider THEN "provider_changed"
                                  ELSE "unchanged"]

-----------------------------------------------------------------------------
(* What must hold. *)

\* Advice is about something and nothing is overlooked.  A focus is set exactly
\* if the gate, a provider or a part needs attention; no part that has gaps, has
\* failed or has signals at its end is left out; all parts together have the signals
\* of the document; a part is rerun by one request at most, only if it can be, before its first
\* comparison, and with a plan that has what its signals require; every part for
\* which a rerun is advised is in one; a recommendation reaches the
\* workflow, which starts with a view that calls for attention.  (The document's plan asks for
\* "layout" by the mean of all pages: a part alone below it does not get it.)
SoundAdvice(doc, gate, best, flow, reruns) ==
    LET rerunnable == {p \in PartsToWatch(doc) :
                         \E i \in DOMAIN PartActions(doc, p) : PartActions(doc, p)[i].id = "rerun_part"}
    IN  /\ (best.focus = "none") = (/\ gate.gate \in {"accept", "disabled"}
                                    /\ ProvidersToWatch(doc) = {}
                                    /\ PartsToWatch(doc) = {})
        /\ best.focus = "quality_gate" \/ best.focus = "providers" => best.actions # <<>>
        /\ \A p \in DOMAIN doc.parts :
             /\ SignalCount(doc, doc.parts[p]) > 0 /\ doc.parts[p].state = "done" => p \in PartsToWatch(doc)
             /\ doc.parts[p].state = "failed" => PartState(doc, doc.parts[p]) = "failed"
             /\ Cardinality({a \in reruns : p \in a.parts}) =< 1
             /\ p \in rerunnable =>
                  \E a \in reruns : p \in a.parts /\ Capabilities(PartCodes(doc, doc.parts[p])) \subseteq a.plan \cup {"layout"}
             /\ ~doc.parts[p].able \/ doc.parts[p].rerun # "none" => \A a \in reruns : p \notin a.parts
        /\ MapThenSumSet(LAMBDA p : SignalCount(doc, doc.parts[p]), DOMAIN doc.parts)
             = MapThenSumSet(LAMBDA i : Cardinality(Codes(doc.pages[i])), DOMAIN doc.pages)
        /\ gate.gate = "accept" => Flags(doc) = {}
        /\ gate.gate \notin {"accept", "disabled"} => GateActions(doc) # <<>>
        /\ \A a \in ToSet(best.actions) :
             \/ a \in flow.inspect \cup flow.execute
             \/ \E b \in reruns : a.parts # {} /\ a.parts \subseteq b.parts
        /\ best.focus # "none" => flow.first \in Alarms(doc)
        /\ Alarms(doc) = {} => best.actions = <<>>
        /\ \A a \in reruns : a.id # "rerun_warning_parts" => Submitted(doc, a) = a.parts
AdviceWithFlow(doc, best, flow) ==
    SoundAdvice(doc, Gate(doc), best, flow, {a \in flow.execute : a.parts # {}})
AdviceWith(doc, best) == AdviceWithFlow(doc, best, Workflow(doc, best))
AdviceIsSound(doc) == AdviceWith(doc, Attention(doc))

\* What is recorded of a document is what its projection says: the same gate, and the
\* same action, except that a recommendation of the coverage goes before the rerun that
\* a low confidence of the reading order asks for.
ObservationAgrees(doc) ==
    LET seen == ObservedGate(doc)
        told == Gate(doc)
    IN  /\ seen.gate = told.gate
        /\ seen.action # told.action =>
             /\ seen.action = "local_provider_rerun" /\ RagAction(Flags(doc)) = told.action
             /\ LowFlags(doc) \cap {"low_order"} # {} /\ Flags(doc) \cap {"empty", "table"} = {}

\* The best provider has a score no lower than the others', and a primary
\* provider that is not the best is reported.
ProvidersAreRanked(doc) ==
    /\ \A v \in Providers(doc) : Max({0, Score(doc, v)}) =< Max({0, Score(doc, Best(doc))})
    /\ \A v \in Providers(doc) : v # Best(doc) => RanksBefore(doc, Best(doc), v) /\ ~RanksBefore(doc, v, Best(doc))
    /\ Best(doc) # Primary(doc) =>
         /\ Primary(doc) \in ProvidersToWatch(doc)
         /\ BlocksBy(doc, Primary(doc)) >= BlocksBy(doc, Best(doc))
    /\ (ProvidersToWatch(doc) = {}) => Flags(doc) = {}

\* A rerun that is advised reruns a part at least.  (It does not: see
\* MCAnswers!AdvisedRerunsRun.)
AdvisedRerunsRun(doc) ==
    \A a \in ExecuteRequests(doc, Attention(doc).actions) : a.parts # {} => Submitted(doc, a) # {}

\* Improvement one way is a regression the other way, and a rerun that changed
\* nothing but its provider says so.
ComparisonIsFair(before, after) ==
    LET there == Comparison(before, after)
        back == Comparison(after, before)
    IN  /\ there.improved = back.regressed /\ there.regressed = back.improved
        /\ (there.status = "improved") = (back.status = "regressed")
        /\ there.status = "unchanged" => before = after
=============================================================================
