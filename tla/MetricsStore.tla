----------------------------- MODULE MetricsStore -----------------------------
(***************************************************************************)
(* MetricsStore (observability/metrics_store.py): the records of the       *)
(* latest requests, in the order of their timestamps, and what the metrics *)
(* handlers of web/server.py answer the dashboard from those of a time     *)
(* range.                                                                  *)
(*                                                                         *)
(* The clock does not step back: a record is stamped when it is made and   *)
(* stored before anything else runs.                                       *)
(***************************************************************************)
EXTENDS Integers, Sequences, FiniteSets, SequencesExt, FiniteSetsExt

CONSTANTS
    LlmProvider,  \* LLM providers
    Skill,        \* skills
    Recordable,   \* what may be recorded of a request, apart from the time
    MAX_EVENTS,   \* how many records are kept
    Minute, Hour, Day, \* how long they are, in steps of the clock
    Window,       \* the range of a query that names no start, 24 hours
    NoParam,      \* no query parameter
    MaxTime,      \* bound: the clock
    MaxRecords    \* bound: how many requests are recorded

CallOf(callee) == [callee : callee, success : BOOLEAN]

ASSUME RecordableAssumption ==
    \A r \in Recordable :
        /\ r.completed \in BOOLEAN
        /\ r.duration \in Nat
        /\ r.llm_calls \in Seq(CallOf(LlmProvider))
        /\ r.skill_calls \in Seq(CallOf(Skill))
ASSUME SizeAssumption == {MAX_EVENTS, Minute, Hour, Day, Window} \subseteq Nat \ {0}
ASSUME DayAssumption == Day % Hour = 0
ASSUME NoParamAssumption == NoParam \notin Int
ASSUME ClockAssumption == {MaxTime, MaxRecords} \subseteq Nat

VARIABLES
    events,   \* self._events
    now,      \* the clock
    log       \* history: every request recorded, the discarded ones included

metricsVars == <<events, now, log>>

RequestEvent == [timestamp : 0..MaxTime, of : Recordable]

-----------------------------------------------------------------------------
(* record_request.                                                         *)

\* Variant: the oldest are kept.
KeptOldest(s) == IF Len(s) > MAX_EVENTS THEN SubSeq(s, 1, MAX_EVENTS) ELSE s

Trimmed(s) ==
    IF Len(s) > MAX_EVENTS THEN SubSeq(s, Len(s) - MAX_EVENTS + 1, Len(s)) ELSE s

RecordRequest(r) ==
    /\ Len(log) < MaxRecords
    /\ LET event == [timestamp |-> now, of |-> r] IN
       /\ events' = Trimmed(Append(events, event))
       /\ log' = Append(log, event)
    /\ UNCHANGED now

Tick ==
    /\ now < MaxTime
    /\ now' = now + 1
    /\ UNCHANGED <<events, log>>

-----------------------------------------------------------------------------
(* Queries.                                                                *)

\* The search of the bisect module, by halving: before is TRUE up to some place
\* and FALSE behind it, and the length of its first part is looked for.
Bisect(before) ==
    LET place[range \in (0..Len(before)) \X (0..Len(before))] ==
            LET lo == range[1]  hi == range[2]  mid == (lo + hi) \div 2 IN
            IF lo >= hi THEN lo
            ELSE IF before[mid + 1] THEN place[<<mid + 1, hi>>]
            ELSE place[<<lo, mid>>]
    IN place[<<0, Len(before)>>]

BisectLeft(ts, x) == Bisect([k \in DOMAIN ts |-> ts[k] < x])
BisectRight(ts, x) == Bisect([k \in DOMAIN ts |-> ts[k] <= x])

Timestamps == [k \in DOMAIN events |-> events[k].timestamp]

FilterByTime(start, end) ==
    SubSeq(events, BisectLeft(Timestamps, start) + 1, BisectRight(Timestamps, end))

Count(s, Test(_)) == Cardinality({k \in DOMAIN s : Test(s[k])})
Completed(event) == event.of.completed
Total(s, Value(_)) == FoldLeft(LAMBDA sum, event : Value(event) + sum, 0, s)

\* The built-in sorted is stable: a value is placed behind those that are less,
\* and behind its equals in front of it.
Place(s, k) == Cardinality({j \in DOMAIN s : s[j] < s[k] \/ (s[j] = s[k] /\ j <= k)})
Sorted(s) == [i \in DOMAIN s |-> s[CHOOSE k \in DOMAIN s : Place(s, k) = i]]

Interpolated(low, high, weight) == (100 - weight) * low + weight * high

\* _percentile, times 100.
Percentile(sorted, p) ==
    LET n == Len(sorted)
        rank == p * (n - 1)
        lower == rank \div 100
    IN IF n = 0 THEN 0
       ELSE IF lower + 1 >= n THEN 100 * sorted[n]
       ELSE Interpolated(sorted[lower + 1], sorted[lower + 2], rank % 100)

QuerySummary(start, end) ==
    LET s == FilterByTime(start, end)
        latencies == Sorted([k \in DOMAIN s |-> s[k].of.duration])
    IN [total_requests |-> Len(s),
        success_count |-> Count(s, Completed),
        failure_count |-> Len(s) - Count(s, Completed),
        p50 |-> Percentile(latencies, 50),
        p95 |-> Percentile(latencies, 95),
        p99 |-> Percentile(latencies, 99),
        total_llm_calls |-> Total(s, LAMBDA e : Len(e.of.llm_calls)),
        total_skill_calls |-> Total(s, LAMBDA e : Len(e.of.skill_calls))]

Bucket == {"minute", "hour", "day", "other"}

\* How far the beginnings of two entries are apart; a bucket nobody knows is
\* taken for an hour.
Delta(bucket) ==
    CASE bucket = "minute" -> Minute [] bucket = "day" -> Day [] OTHER -> Hour

\* A bucket begins on the minute, the hour or the day; one nobody knows on the day.
Unit(bucket) ==
    CASE bucket = "minute" -> Minute [] bucket = "hour" -> Hour [] OTHER -> Day

\* Variant: the seconds are not dropped.
MinutesNotRounded(t, bucket) ==
    IF bucket = "minute" THEN t ELSE t - (t % Unit(bucket))

RoundedDown(t, bucket) == t - (t % Unit(bucket))

\* query_timeline: one entry for each step from the beginning of the range.
QueryTimeline(start, end, bucket) ==
    LET s == FilterByTime(start, end)
        first == RoundedDown(start, bucket)
        within(t) == {k \in DOMAIN s : RoundedDown(s[k].timestamp, bucket) = t}
        size == IF first > end \/ s = <<>> THEN 0 ELSE (end - first) \div Delta(bucket) + 1
    IN [d \in 1..size |->
          LET b == within(first + (d - 1) * Delta(bucket))
              success == {k \in b : Completed(s[k])}
          IN [request_count |-> Cardinality(b), success_count |-> Cardinality(success),
              failure_count |-> Cardinality(b) - Cardinality(success)]]

\* The places of the calls in the lists of calls of some requests.
CallPlaces(lists) == UNION {{k} \X DOMAIN lists[k] : k \in DOMAIN lists}

\* What query_skill_stats and query_llm_stats have in common: the calls by callee.
Stats(lists) ==
    LET call(p) == lists[p[1]][p[2]]
        by(c) == {p \in CallPlaces(lists) : call(p).callee = c}
    IN [c \in {call(p).callee : p \in CallPlaces(lists)} |->
          [call_count |-> Cardinality(by(c)),
           success_count |-> Cardinality({p \in by(c) : call(p).success}),
           error_count |-> Cardinality({p \in by(c) : ~call(p).success})]]

QuerySkillStats(start, end) ==
    LET s == FilterByTime(start, end) IN
    Stats([k \in DOMAIN s |-> s[k].of.skill_calls])

QueryLlmStats(start, end) ==
    LET s == FilterByTime(start, end) IN
    Stats([k \in DOMAIN s |-> s[k].of.llm_calls])

\* query_recent_requests: the slice [-limit:], which is the whole list for 0 and
\* leaves out the oldest for a negative limit, from the latest on.
QueryRecentRequests(limit) ==
    LET first == IF limit > 0 THEN Max({0, Len(events) - limit}) ELSE -limit IN
    Reverse(SubSeq(events, first + 1, Len(events)))

\* _parse_time_params: the range a dashboard request asks for.
ParseTimeParams(start, end) ==
    <<IF start = NoParam THEN now - Window ELSE start, IF end = NoParam THEN now ELSE end>>

-----------------------------------------------------------------------------

MetricsInit ==
    /\ events = <<>>
    /\ now = 0
    /\ log = <<>>

MetricsNext ==
    \/ \E r \in Recordable : RecordRequest(r)
    \/ Tick

MetricsSpec == MetricsInit /\ [][MetricsNext]_metricsVars

-----------------------------------------------------------------------------
(* Properties.                                                             *)

MetricsTypeOK ==
    /\ events \in Seq(RequestEvent) /\ Len(events) <= MAX_EVENTS
    /\ now \in 0..MaxTime
    /\ log \in Seq(RequestEvent) /\ Len(log) <= MaxRecords

TimeRange ==
    LET Param == 0..MaxTime \cup {NoParam} IN
    {ParseTimeParams(start, end) : start \in Param, end \in Param}

\* The records that MAX_EVENTS allows to keep.
Latest == SubSeq(log, Max({0, Len(log) - MAX_EVENTS}) + 1, Len(log))

\* A time range shows every request recorded in it, both ends included, and the
\* latest n requests are the latest n, unless MAX_EVENTS later ones have been
\* recorded.
NothingMissed ==
    /\ \A range \in TimeRange :
          \E first \in 1..Len(Latest) + 1, last \in 0..Len(Latest) :
             /\ FilterByTime(range[1], range[2]) = SubSeq(Latest, first, last)
             /\ \A k \in DOMAIN Latest :
                   k \in first..last <=> /\ range[1] <= Latest[k].timestamp
                                        /\ Latest[k].timestamp <= range[2]
    /\ \A n \in 1..MaxRecords :
          QueryRecentRequests(n) =
              [k \in 1..Min({n, Len(Latest)}) |-> log[Len(log) - k + 1]]

\* The timeline and the summary of one range tell the same numbers: no request
\* falls between two buckets, or before the first or behind the last.
TimelineAddsUp ==
    \A range \in TimeRange, bucket \in Bucket :
        LET summary == QuerySummary(range[1], range[2])
            timeline == QueryTimeline(range[1], range[2], bucket)
        IN /\ summary.total_requests = Total(timeline, LAMBDA b : b.request_count)
           /\ summary.success_count = Total(timeline, LAMBDA b : b.success_count)
           /\ summary.failure_count = Total(timeline, LAMBDA b : b.failure_count)

StatsAddUp(stats, total) ==
    /\ \A c \in DOMAIN stats :
          stats[c].call_count = stats[c].success_count + stats[c].error_count
    /\ total = MapThenSumSet(LAMBDA c : stats[c].call_count, DOMAIN stats)

\* The calls of the providers, and of the skills, add up to those of the summary.
CallsAddUp ==
    \A range \in TimeRange :
        LET summary == QuerySummary(range[1], range[2]) IN
        /\ StatsAddUp(QueryLlmStats(range[1], range[2]), summary.total_llm_calls)
        /\ StatsAddUp(QuerySkillStats(range[1], range[2]), summary.total_skill_calls)

\* The percentiles are ordered and lie within the latencies of the range.
PercentilesOrdered ==
    \A range \in TimeRange :
        LET s == FilterByTime(range[1], range[2])
            q == QuerySummary(range[1], range[2])
        IN s # <<>> =>
              /\ \E k \in DOMAIN s : 100 * s[k].of.duration <= q.p50
              /\ q.p50 <= q.p95 /\ q.p95 <= q.p99
              /\ \E k \in DOMAIN s : q.p99 <= 100 * s[k].of.duration

\* What the dashboard shows of one range in several places agrees.
DashboardAddsUp == TimelineAddsUp /\ CallsAddUp /\ PercentilesOrdered
=============================================================================
