--------------------------- MODULE MetricHistory ----------------------------
(***************************************************************************)
(* The history of a server's samples and the chart the dashboard draws of  *)
(* one of its counters: the metrics case of handleIngest, AppendMetric-    *)
(* Sample of both stores, and historySeries with decimate of               *)
(* httpx/handlers_metrics.go.                                              *)
(*                                                                         *)
(* A handler reads the clock when it starts and appends later, so that     *)
(* handlers that overlap append out of the order of their times, or with   *)
(* the same one.  Samples arrive in any order and any number of times:     *)
(* retries, a backlog behind a fresh sample and late handlers, which       *)
(* module MetricDelivery has.  A point keeps how much the counter rose;    *)
(* the rate is that over the time since the last row.                      *)
(***************************************************************************)
EXTENDS Integers, Sequences, SequencesExt, FiniteSetsExt

CONSTANTS Counter,      \* Counter[s]: the bytes counted when sample s was taken
          MaxRows,      \* maxPoints of the memory store
          MaxChart,     \* what historySeries passes to decimate
          Backends,     \* of {"memory", "postgres"}: which store keeps the history
          Ingesters,    \* handler goroutines
          MaxInstant,   \* bound: when the clock stops
          MaxArrivals   \* bound: how many requests arrive

ASSUME HistoryAssumption ==
    /\ Counter \in Seq(Nat)
    /\ MaxRows \in Nat \ {0}
    /\ MaxChart \in Nat \ {0, 1}
    /\ MaxInstant \in Nat /\ MaxArrivals \in Nat

\* Samples, in the order the agent took them.
Taken == 1..Len(Counter)

Row == [sample : Taken, ts : 0..MaxInstant]

NoRow == [sample |-> 0, ts |-> 0]

VARIABLES backend,    \* the store
          instant,    \* the clock of the API
          ingesting,  \* what each handler is between its clock read and its append with
          rows,       \* metric_history, in the order QueryMetricHistory returns it in
          arrivals    \* bound bookkeeping: requests so far

historyVars == <<backend, instant, ingesting, rows, arrivals>>

HistoryTypeOK ==
    /\ backend \in Backends
    /\ instant \in 0..MaxInstant
    /\ ingesting \in [Ingesters -> Row \cup {NoRow}]
    /\ rows \in Seq(Row)
    /\ arrivals \in 0..MaxArrivals

-----------------------------------------------------------------------------
(* The chart. *)

\* Mutant of RateStep: a counter that fell is not the new base.
RateStepFromHighest(table, acc, i) ==
    LET bytes == Counter[table[i].sample]
    IN  IF bytes < acc.prev THEN acc
        ELSE [prev |-> bytes, prevT |-> table[i].ts,
              points |-> IF table[i].ts > acc.prevT
                         THEN Append(acc.points, [at |-> i, rise |-> bytes - acc.prev])
                         ELSE acc.points]

\* A counter that fell has been reset, and a time that did not rise gives no rate:
\* no point, and a new base.
RateStep(table, acc, i) ==
    LET bytes == Counter[table[i].sample]
    IN  [prev |-> bytes, prevT |-> table[i].ts,
         points |-> IF table[i].ts > acc.prevT /\ bytes >= acc.prev
                    THEN Append(acc.points, [at |-> i, rise |-> bytes - acc.prev])
                    ELSE acc.points]

\* The loop of historySeries for a counter: what it has after each of the rows.
RateLoop(table) ==
    LET after[i \in 1..Len(table)] ==
            IF i = 1 THEN [prev |-> Counter[table[1].sample], prevT |-> table[1].ts,
                           points |-> << >>]
            ELSE RateStep(table, after[i - 1], i)
    IN  after

\* historySeries for a counter, before it is thinned out.
RateSeries(table) == IF table = << >> THEN << >> ELSE RateLoop(table)[Len(table)].points

\* Mutant of StrideIndex: the stride is the length over max.
StrideIndexShort(n, max, i) == (i * n) \div max

\* The index int(i * stride + 0.5) for stride = (n - 1) / (max - 1), from zero.
StrideIndex(n, max, i) ==
    LET rounded == (2 * i * (n - 1) + (max - 1)) \div (2 * (max - 1))
    IN  IF rounded >= n THEN n - 1 ELSE rounded

Decimate(points, max) ==
    IF Len(points) <= max THEN points
    ELSE [k \in 1..max |-> points[1 + StrideIndex(Len(points), max, k - 1)]]

Chart(table) == Decimate(RateSeries(table), MaxChart)

-----------------------------------------------------------------------------
(* The stores. *)

\* The memory store appends; the oldest rows go when there are too many.
AppendInMemory(table, row) ==
    LET h == Append(table, row)
    IN  SubSeq(h, 1 + IF Len(h) > MaxRows THEN Len(h) - MaxRows ELSE 0, Len(h))

\* Postgres keeps one row for a time, the first ("ON CONFLICT ... DO NOTHING"), and
\* returns rows by their time.  The seven days it keeps rows for are longer than
\* all the model's instants.
AppendInPostgres(table, row) ==
    IF \E i \in 1..Len(table) : table[i].ts = row.ts THEN table
    ELSE InsertAt(table, 1 + Cardinality({i \in 1..Len(table) : table[i].ts < row.ts}), row)

AppendMetricSample(table, row) ==
    IF backend = "memory" THEN AppendInMemory(table, row) ELSE AppendInPostgres(table, row)

\* handleIngest has a metrics message and reads the clock.
IngestBegins(h, s) ==
    /\ ingesting[h] = NoRow
    /\ arrivals < MaxArrivals
    /\ arrivals' = arrivals + 1
    /\ ingesting' = [ingesting EXCEPT ![h] = [sample |-> s, ts |-> instant]]
    /\ UNCHANGED <<backend, instant, rows>>

\* It appends the sample under that time, or the store fails, which nobody hears of.
IngestAppends(h) ==
    /\ ingesting[h] # NoRow
    /\ rows' \in {AppendMetricSample(rows, ingesting[h]), rows}
    /\ ingesting' = [ingesting EXCEPT ![h] = NoRow]
    /\ UNCHANGED <<backend, instant, arrivals>>

InstantPasses ==
    /\ instant < MaxInstant
    /\ instant' = instant + 1
    /\ UNCHANGED <<backend, ingesting, rows, arrivals>>

HistoryInit ==
    /\ backend \in Backends
    /\ instant = 0
    /\ ingesting = [h \in Ingesters |-> NoRow]
    /\ rows = << >>
    /\ arrivals = 0

HistoryNext ==
    \/ \E h \in Ingesters : IngestAppends(h) \/ \E s \in Taken : IngestBegins(h, s)
    \/ InstantPasses

HistorySpec == HistoryInit /\ [][HistoryNext]_historyVars

-----------------------------------------------------------------------------
(* Properties. *)

\* f[1] + ... + f[n].
SumTo(f, n) ==
    LET sum[k \in 0..n] == IF k = 0 THEN 0 ELSE sum[k - 1] + f[k]
    IN  sum[n]

\* What the counter rose by from one sample of a set to the next: where it fell it
\* was reset, and nothing is known.
Rise(samples) ==
    [s \in Taken |->
        LET before == {r \in samples : r < s}
        IN  IF s \in samples /\ before # {} /\ Counter[s] >= Counter[Max(before)]
            THEN Counter[s] - Counter[Max(before)]
            ELSE 0]

Traffic(samples) == SumTo(Rise(samples), Len(Counter))

\* As long as the rows are in the order the samples were taken in, the chart counts
\* no traffic twice, however often a sample was delivered and wherever a counter
\* was reset; it shows all the traffic of the stored samples when no two rows
\* share a time or come before their elders.  Rows out of the order of sampling
\* are outside: there the chart does count traffic twice (a backlog sent after a
\* fresh sample rises a second time to where it was).
ChartCountsOnce ==
    LET points == RateSeries(rows)
        total == SumTo([k \in 1..Len(points) |-> points[k].rise], Len(points))
        traffic == Traffic({rows[i].sample : i \in 1..Len(rows)})
    IN  (\A i, j \in 1..Len(rows) : i < j => rows[i].sample <= rows[j].sample) =>
            /\ total <= traffic
            /\ (\A i, j \in 1..Len(rows) : i < j => rows[i].ts < rows[j].ts) => total = traffic

\* A chart that is thinned out ("reduces points to at most max by even striding,
\* keeping first & last") has as many points as it may, its ends and its order,
\* however the history has grown.
ChartKeepsItsEnds ==
    LET points == RateSeries(rows)
        chart == Chart(rows)
    IN  /\ Len(chart) = Min({Len(points), MaxChart})
        /\ points # << >> => chart[1] = points[1] /\ Last(chart) = Last(points)
        /\ \A i, j \in 1..Len(chart) : i < j => chart[i].at < chart[j].at
        /\ ToSet(chart) \subseteq ToSet(points)
=============================================================================
