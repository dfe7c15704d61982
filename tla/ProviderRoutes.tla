--------------------------- MODULE ProviderRoutes ---------------------------
(***************************************************************************)
(* How a job is parsed: by which parser, and with which profile.             *)
(*                                                                           *)
(* The parser comes from the route plan over the registered providers        *)
(* (local_provider_route_plan_payload of config.py), the decision of an      *)
(* execution, which is kept in the options of the job                        *)
(* (_request_with_local_provider_route), and what follows from it            *)
(* (_resolve_parser, PipelineRegistry.resolve).                              *)
(*                                                                           *)
(* A configuration is [on, fallback, providers, parsers].  A provider is     *)
(* [id, ready, kinds, caps, priority]: ready says why it may not be routed   *)
(* to, kinds are the files and profiles it is for, {} any.  parsers is a     *)
(* sequence of [name, kinds]; a parser serves the provider of its name.  A   *)
(* request is [kind, asked, derived, route]: the file, the capabilities      *)
(* asked for, whether it is a rerun of chunks or embeddings only, and the    *)
(* provider that an earlier execution has chosen.                            *)
(***************************************************************************)
EXTENDS Integers, Sequences, FiniteSets, SequencesExt

NoProvider == 0

-----------------------------------------------------------------------------
(* The plan. *)

\* exclusion_reasons.  include_disabled adds candidates to the plan, none of which is
\* eligible.
Excluded(provider, request) ==
    ({provider.ready} \ {"yes"})
    \cup (IF provider.kinds = {} \/ request.kind \in provider.kinds THEN {} ELSE {"kind"})
    \cup (IF request.asked \subseteq provider.caps THEN {} ELSE {"capability"})

\* eligible_provider_ids: by priority, then by id.
RoutePlan(config, request) ==
    SetToSortSeq({p \in config.providers : Excluded(p, request) = {}},
                 LAMBDA p, q : p.priority > q.priority \/ (p.priority = q.priority /\ p.id < q.id))

-----------------------------------------------------------------------------
(* The decision. *)

Serves(parser, request) == request.kind \in parser.kinds

\* _select_registered_local_provider: a parser is found by its name, the last one of
\* that name.
Usable(config, provider, request) ==
    LET named == {i \in DOMAIN config.parsers : config.parsers[i].name = provider.id}
    IN  \E i \in named : (\A k \in named : k =< i) /\ Serves(config.parsers[i], request)
SelectedAt(config, plan, request) == {i \in DOMAIN plan : Usable(config, plan[i], request)}

Decision(status, provider) == [status |-> status, provider |-> provider]

\* _request_with_local_provider_route: an earlier decision stays unless capabilities
\* are asked for.  Without fallback the first provider is taken whether or not it has
\* a parser.
Decide(config, request) ==
    LET plan == RoutePlan(config, request)
        usable == SelectedAt(config, plan, request)
        first == CHOOSE i \in usable : \A k \in usable : i =< k
    IN  IF request.derived \/ ~config.on \/ (request.asked = {} /\ request.route # NoProvider)
            THEN Decision("kept", request.route)
        ELSE IF usable # {} THEN Decision(IF first = 1 THEN "selected" ELSE "fallback_selected", plan[first].id)
        ELSE IF plan = <<>> THEN Decision("no_eligible_provider", NoProvider)
        ELSE Decision("no_registered_provider", IF config.fallback THEN NoProvider ELSE plan[1].id)

\* The first parser that serves the file, among those of the provider if there is one.
\* NoParser stands for the LookupError.
NoParser == [name |-> NoProvider, kinds |-> {}]
Resolve(config, request, provider) ==
    LET fit == SelectSeq(config.parsers, LAMBDA p : Serves(p, request) /\ provider \in {NoProvider, p.name})
    IN  IF fit = <<>> THEN NoParser ELSE fit[1]

\* execute: update_options keeps the decision; if it fails, that is logged.
Execute(config, request, saved) ==
    LET decision == Decide(config, request)
    IN  [decision |-> decision, parser |-> Resolve(config, request, decision.provider),
         job |-> IF saved THEN [request EXCEPT !.route = decision.provider] ELSE request]

-----------------------------------------------------------------------------
(* The profile of a parse (profiles.py): what the service describes, how it  *)
(* resolves a profile when a document is submitted (api_routes.py), and      *)
(* which one it shows when the document is read (api_payloads.py).           *)
(*                                                                           *)
(* A file is [media, name, size, pages, tables]: name is a hint of its name, *)
(* size and pages tell whether they reach the limits ("none": unknown),      *)
(* tables whether there are many for its pages.                              *)

FileKinds == [media : {"pdf", "excel", "image", "other"}, name : {"none", "catalog", "ledger", "scan"},
          size : {"none", "small", "large"}, pages : {"none", "few", "many"}, tables : {"none", "few", "many"}]

Known == {"default", "large-pdf", "large-pdf-catalog", "large-pdf-ledger", "table-heavy", "ocr-heavy",
          "excel-ledger", "scan-pdf"}
RecommendedAsync == {"large-pdf", "large-pdf-catalog", "large-pdf-ledger", "scan-pdf"}

\* _table_density: unknown unless both numbers are known.
Dense(f) == f.pages # "none" /\ f.tables = "many"

Result(profile, source, async) ==
    [profile |-> profile, source |-> source, async |-> async, known |-> profile \in Known]

\* resolve_parse_profile
Auto(f) ==
    LET pdf == f.media = "pdf"
        large == pdf /\ (f.pages = "many" \/ f.size = "large")
        result(profile, async) == Result(profile, "auto", async)
    IN  IF large /\ f.name = "catalog" THEN result("large-pdf-catalog", TRUE)
        ELSE IF large /\ (f.name = "ledger" \/ Dense(f)) THEN result("large-pdf-ledger", TRUE)
        ELSE IF large THEN result("large-pdf", TRUE)
        ELSE IF f.media = "excel" THEN result("excel-ledger", FALSE)
        ELSE IF Dense(f) THEN result("table-heavy", FALSE)
        ELSE IF f.media = "image" THEN result("ocr-heavy", FALSE)
        ELSE IF pdf /\ f.name = "scan" THEN result("scan-pdf", TRUE)
        ELSE result("default", FALSE)

ResolveProfile(f, requested) ==
    IF requested \notin {"none", "auto"}
    THEN Result(requested, "requested", requested \in RecommendedAsync)
    ELSE Auto(f)

\* describe_parse_profiles: the rules in their order, with what they ask of a file.
AutoRules ==
    LET large(f) == f.media = "pdf" /\ (f.pages = "many" \/ f.size = "large")
    IN  <<[profile |-> "large-pdf-catalog", async |-> TRUE, files |-> {f \in FileKinds : large(f) /\ f.name = "catalog"}],
          [profile |-> "large-pdf-ledger", async |-> TRUE,
           files |-> {f \in FileKinds : large(f) /\ (f.name = "ledger" \/ Dense(f))}],
          [profile |-> "large-pdf", async |-> TRUE, files |-> {f \in FileKinds : large(f)}],
          [profile |-> "excel-ledger", async |-> FALSE, files |-> {f \in FileKinds : f.media = "excel"}],
          [profile |-> "table-heavy", async |-> FALSE, files |-> {f \in FileKinds : Dense(f)}],
          [profile |-> "ocr-heavy", async |-> FALSE, files |-> {f \in FileKinds : f.media = "image"}],
          [profile |-> "scan-pdf", async |-> TRUE, files |-> {f \in FileKinds : f.media = "pdf" /\ f.name = "scan"}],
          [profile |-> "default", async |-> FALSE, files |-> FileKinds]>>

\* _profile_options: the options of the job, which keep all of it.
Submitted(f, requested) == [requested |-> IF requested = "none" THEN "auto" ELSE requested, stored |-> ResolveProfile(f, requested)]

\* _profile_resolution_for_document, _profile_resolution_payload: a job of an older
\* release has no stored resolution and is resolved from what was parsed.
AtRead(job, parsed) ==
    [requested |-> job.requested,
     resolved |-> IF job.stored.source # "none" THEN job.stored
                  ELSE ResolveProfile([parsed EXCEPT !.size = "none"], job.requested)]

-----------------------------------------------------------------------------
(* What must hold. *)

\* A job that is routed is parsed by a provider that its plan admits, the first one
\* that can; with fallback a job fails only if no parser reads its file, without
\* fallback a parser that is not in a plan never takes the place of one that is; and
\* an execution that finds a decision of its own configuration comes to the same.
RoutesAreFollowed(config, request) ==
    LET run == Execute(config, request, TRUE)
        plan == RoutePlan(config, request)
        status == run.decision.status
        reads == \E i \in DOMAIN config.parsers : Serves(config.parsers[i], request)
    IN  config.on /\ request.route = NoProvider /\ ~request.derived =>
          /\ status \in {"selected", "fallback_selected"} =>
               \E i \in DOMAIN plan :
                 /\ run.parser.name = plan[i].id /\ (status = "selected") = (i = 1)
                 /\ \A k \in 1..(i - 1) : ~Usable(config, plan[k], request)
          /\ config.fallback => (run.parser = NoParser) = ~reads
          /\ ~config.fallback /\ plan # <<>> =>
               run.parser = NoParser \/ \E i \in DOMAIN plan : run.parser.name = plan[i].id
          /\ LET again == Execute(config, run.job, TRUE)
             IN  again.parser = run.parser /\ again.job = run.job

\* A retry under another configuration uses the provider of the first execution or
\* none at all, even if that is gone and fallback is allowed, unless the decision was
\* not saved or the request asks for capabilities.  A rerun of chunks or of embeddings
\* has the parser of the parse whose job it copies.
RetriesKeepTheirParser(config, later, request, saved) ==
    LET first == Execute(config, request, saved)
        second == Execute(later, first.job, saved)
        derived == Execute(later, [first.job EXCEPT !.derived = TRUE], saved)
        routed == first.job.route # NoProvider
    IN  /\ routed /\ request.asked = {} => second.parser.name \in {first.decision.provider, NoProvider}
        /\ routed => derived.parser.name \in {first.job.route, NoProvider}

\* A file gets the profile of the first rule described that fits it, a profile
\* recommends the same however it was chosen, and what a reader sees is what was
\* resolved when the document was submitted, whatever the parse has found since.
ProfilesAreAsDescribed(in) ==
    LET first == SelectInSeq(AutoRules, LAMBDA r : in.file \in r.files)
        auto == Auto(in.file)
        resolved == ResolveProfile(in.file, in.requested)
    IN  /\ auto.profile = AutoRules[first].profile /\ auto.async = AutoRules[first].async
        /\ ResolveProfile(in.file, auto.profile).async = auto.async
        /\ resolved.async => resolved.known
        /\ AtRead(Submitted(in.file, in.requested), in.parsed).resolved = resolved
        /\ AtRead([Submitted(in.file, in.requested) EXCEPT !.stored.source = "none"], in.file).resolved.async
             => resolved.async
=============================================================================
