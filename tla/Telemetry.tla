----------------------------- MODULE Telemetry -----------------------------
(***************************************************************************)
(* What ParseRuntime tells of itself: the usage of quotas, the dashboard of  *)
(* a tenant, the effect of searches, and the documents that a reindexing of  *)
(* many starts again.                                                        *)
(*                                                                           *)
(* Jobs are a sequence, the newest first, of [doc, tenant, key, units,       *)
(* state, part, cancelled, retry, age, took]: age is the hours since the job *)
(* was changed, took its duration, -1 if its times cannot be read.           *)
(***************************************************************************)
EXTENDS Integers, Sequences, FiniteSets, SequencesExt, FiniteSetsExt

Active == {"parsing", "structuring", "embedding"}
States == Active \cup {"pending", "partial", "done", "failed"}
Ever == -1     \* since_hours is None

CountOf(jobs, S) == Len(SelectSeq(jobs, LAMBDA j : j.state \in S))

-----------------------------------------------------------------------------
(* Jobs of a tenant and a window. *)

\* _filter_jobs_by_since_hours
InWindow(jobs, hours) ==
    IF hours = Ever THEN jobs ELSE SelectSeq(jobs, LAMBDA j : hours > 0 /\ j.age =< hours)

\* list_jobs
ListJobs(jobs, tenant, hours) ==
    InWindow(SelectSeq(jobs, LAMBDA j : tenant = "all" \/ j.tenant = tenant), hours)

UnitsOf(jobs) == FoldSeq(LAMBDA j, n : n + (IF j.units > 1 THEN j.units ELSE 1), 0, jobs)

\* quota_usage
Bucket(jobs, tenant, key) ==
    LET own == SelectSeq(jobs, LAMBDA j : j.tenant = tenant /\ j.key = key)
    IN  [tenant |-> tenant, key |-> key, jobs |-> Len(own), units |-> UnitsOf(own),
         done |-> CountOf(own, {"done"}), failed |-> CountOf(own, {"failed"})]
QuotaUsage(jobs) == {Bucket(jobs, j.tenant, j.key) : j \in ToSet(jobs)}

\* _check_quota_limit: the bucket of a request.
UsedUnits(jobs, tenant, key, hours) ==
    MapThenSumSet(LAMBDA b : b.units,
                  {b \in QuotaUsage(ListJobs(jobs, tenant, hours)) : b.key = key})

-----------------------------------------------------------------------------
(* Durations. *)

\* round: half to even.
Rounded(n, d) ==
    LET q == n \div d
        rest == 2 * (n % d)
    IN  IF rest > d \/ (rest = d /\ q % 2 = 1) THEN q + 1 ELSE q

\* _percentile
Percentile(ordered, percent) == ordered[Rounded(percent * (Len(ordered) - 1), 100) + 1]

\* _duration_summary, and _job_duration_seconds
Durations(jobs) ==
    LET known == SelectSeq(jobs, LAMBDA j : j.state = "done" /\ j.took >= 0)
    IN  [i \in DOMAIN known |-> known[i].took]
SummaryOf(ordered) ==
    IF ordered = <<>> THEN [count |-> 0, min |-> 0, max |-> 0, p50 |-> 0, p90 |-> 0, p99 |-> 0]
    ELSE [count |-> Len(ordered), min |-> ordered[1], max |-> ordered[Len(ordered)],
          p50 |-> Percentile(ordered, 50), p90 |-> Percentile(ordered, 90), p99 |-> Percentile(ordered, 99)]
DurationSummary(values) == SummaryOf(SortSeq(values, <))

-----------------------------------------------------------------------------
(* Jobs in numbers. *)

\* runtime_metrics and _part_job_metrics, of the newest jobs.
PartMetrics(parts) ==
    LET failed == SelectSeq(parts, LAMBDA j : j.state = "failed")
    IN  [total |-> Len(parts), done |-> CountOf(parts, {"done"}), active |-> CountOf(parts, Active),
         queued |-> CountOf(parts, {"pending"}),
         cancelled |-> Len(SelectSeq(failed, LAMBDA j : j.cancelled)),
         failed |-> Len(SelectSeq(failed, LAMBDA j : ~j.cancelled)),
         retries |-> Len(SelectSeq(parts, LAMBDA j : j.state = "pending" /\ j.retry))]
JobMetrics(jobs) ==
    [total |-> Len(jobs), done |-> CountOf(jobs, {"done"}), failed |-> CountOf(jobs, {"failed"}),
     active |-> CountOf(jobs, Active \cup {"pending"}),
     retries |-> Len(SelectSeq(jobs, LAMBDA j : j.state = "pending" /\ j.retry)),
     parts |-> PartMetrics(SelectSeq(jobs, LAMBDA j : j.part)),
     durations |-> DurationSummary(Durations(jobs))]

Newest(jobs, n) == SubSeq(jobs, 1, IF n < Len(jobs) THEN n ELSE Len(jobs))

\* tenant_dashboard
Dashboard(jobs, tenant, hours, sample, recent) ==
    LET listed == ListJobs(jobs, tenant, hours)
    IN  [usage |-> QuotaUsage(listed), units |-> UnitsOf(listed),
         metrics |-> JobMetrics(Newest(listed, sample)), recent |-> Newest(listed, recent)]

-----------------------------------------------------------------------------
(* Searches: a sequence of [tenant, layer, hits], the newest last. *)

\* _record_search_effectiveness: the latest of a tenant and a layer are kept.
History(searches, tenant, layer, keep) ==
    LET own == SelectSeq(searches, LAMBDA s : s.tenant = tenant /\ s.layer = layer)
    IN  SubSeq(own, IF Len(own) > keep THEN Len(own) - keep + 1 ELSE 1, Len(own))

Measured(own) ==
    [queries |-> Len(own), hitQueries |-> Len(SelectSeq(own, LAMBDA s : s.hits > 0)),
     hits |-> FoldSeq(LAMBDA s, n : n + s.hits, 0, own),
     most |-> FoldSeq(LAMBDA s, n : IF s.hits > n THEN s.hits ELSE n, 0, own)]

\* _aggregate_search_effectiveness_from_memory: of the histories of its tenants.
FromMemory(searches, tenants, layer, keep) ==
    LET each == [t \in tenants |-> Measured(History(searches, t, layer, keep))]
    IN  [queries |-> MapThenSumSet(LAMBDA t : each[t].queries, tenants),
         hitQueries |-> MapThenSumSet(LAMBDA t : each[t].hitQueries, tenants),
         hits |-> MapThenSumSet(LAMBDA t : each[t].hits, tenants),
         most |-> Max({0} \cup {each[t].most : t \in tenants})]

\* aggregate_layer_search_metrics: of the rows of the table.
FromStore(searches, tenants, layer) ==
    Measured(SelectSeq(searches, LAMBDA s : s.tenant \in tenants /\ s.layer = layer))

\* _build_search_effectiveness_snapshot, rates in hundredths.
Effect(bucket) ==
    [queries |-> bucket.queries, zero |-> bucket.queries - bucket.hitQueries,
     rate |-> Rounded(100 * bucket.hitQueries, bucket.queries),
     average |-> Rounded(100 * bucket.hits, bucket.queries), most |-> bucket.most]

-----------------------------------------------------------------------------
(* Reindexing. *)

\* batch_reindex: the newest job of each document of a tenant, and of the documents
\* asked for if any are.
Latest(jobs) ==
    FoldLeft(LAMBDA acc, j : IF \E i \in DOMAIN acc : acc[i].tenant = j.tenant /\ acc[i].doc = j.doc
                             THEN acc ELSE Append(acc, j), <<>>, jobs)
Reindexed(jobs, tenant, hours, docs) ==
    SelectSeq(Latest(ListJobs(jobs, tenant, hours)), LAMBDA j : docs = {} \/ j.doc \in docs)

-----------------------------------------------------------------------------
(* What must hold. *)

\* The units of a tenant's buckets are those of its jobs, tenants add up to all, a
\* longer window never counts less, and the check of the quota sees the bucket that
\* the dashboard shows.
UsageAddsUp(jobs, hours) ==
    LET units(t, h) == UnitsOf(ListJobs(jobs, t, h))
        tenants == {j.tenant : j \in ToSet(jobs)}
    IN  /\ units("all", hours) = MapThenSumSet(LAMBDA t : units(t, hours), tenants)
        /\ \A t \in tenants \cup {"all"} :
             LET d == Dashboard(jobs, t, hours, 9, 1)
             IN  /\ d.units = MapThenSumSet(LAMBDA b : b.units, d.usage)
                 /\ d.metrics.total = MapThenSumSet(LAMBDA b : b.jobs, d.usage)
                 /\ d.metrics.done = MapThenSumSet(LAMBDA b : b.done, d.usage)
                 /\ d.metrics.failed = MapThenSumSet(LAMBDA b : b.failed, d.usage)
                 /\ units(t, hours) =< units(t, Ever)
        /\ \A b \in QuotaUsage(ListJobs(jobs, "all", hours)) :
             UsedUnits(jobs, b.tenant, b.key, hours) = b.units

\* Every job is counted once: done, failed, active, or a partial parent; and every part
\* once, where a cancelled one is no failure.
MetricsAddUp(jobs, tenant, hours, sample) ==
    LET m == Dashboard(jobs, tenant, hours, sample, 1).metrics
        counted == Newest(ListJobs(jobs, tenant, hours), sample)
        p == m.parts
    IN  /\ m.total = m.done + m.failed + m.active + CountOf(counted, {"partial"})
        /\ m.retries =< m.active /\ m.durations.count =< m.done
        /\ p.total = p.done + p.failed + p.cancelled + p.active + p.queued
        /\ p.retries =< p.queued /\ p.queued + p.active =< m.active /\ p.failed + p.cancelled =< m.failed

\* Percentiles are durations that occur, in their order; half of all take no longer
\* than p50 and half no less; and what is above p90 or p99 is over a tenth or a
\* hundredth by less than one.
PercentilesAreRanked(values) ==
    LET s == DurationSummary(values)
        upto(x) == Len(SelectSeq(values, LAMBDA v : v =< x))
        from(x) == Len(SelectSeq(values, LAMBDA v : v >= x))
    IN  values # <<>> =>
          /\ {s.min, s.max, s.p50, s.p90, s.p99} \subseteq ToSet(values)
          /\ s.min =< s.p50 /\ s.p50 =< s.p90 /\ s.p90 =< s.p99 /\ s.p99 =< s.max
          /\ 2 * upto(s.p50) >= Len(values) /\ 2 * from(s.p50) >= Len(values)
          /\ 10 * (upto(s.p90) + 1) > 9 * Len(values) /\ 100 * (upto(s.p99) + 1) > 99 * Len(values)

\* The searches in memory say the same as those in the store until the memory is full,
\* and then no more than they; rates are those of the searches.
SearchesAgree(searches, keep) ==
    \A layer \in {"primary", "high_precision"} :
      \A tenants \in (SUBSET {s.tenant : s \in ToSet(searches)}) \ {{}} :
        LET memory == FromMemory(searches, tenants, layer, keep)
            store == FromStore(searches, tenants, layer)
        IN  /\ Len(searches) =< keep => memory = store
            /\ memory.queries =< store.queries /\ memory.most =< store.most
            /\ memory.queries > 0 =>
                 LET e == Effect(memory)
                 IN  /\ e.zero >= 0 /\ e.rate =< 100 /\ e.average =< 100 * e.most
                     /\ (e.most = 0 <=> e.zero = e.queries) /\ (e.average > 0 => e.most > 0)

\* Every document of the window is reindexed once, as its newest job has it.
ReindexTakesNewest(jobs, tenant, hours, docs) ==
    LET taken == Reindexed(jobs, tenant, hours, docs)
        listed == ListJobs(jobs, tenant, hours)
    IN  /\ \A i, k \in DOMAIN taken : i # k => <<taken[i].tenant, taken[i].doc>> # <<taken[k].tenant, taken[k].doc>>
        /\ \A i \in DOMAIN listed : docs = {} \/ listed[i].doc \in docs =>
             \E k \in DOMAIN taken :
               /\ taken[k].doc = listed[i].doc /\ taken[k].tenant = listed[i].tenant
               /\ \E n \in 1..i : listed[n] = taken[k]
=============================================================================
