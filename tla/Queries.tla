-------------------------------- MODULE Queries --------------------------------
(***************************************************************************)
(* The read side, twice: over the trace catalog and the batch files         *)
(* (services/trace_query.py, analytics.py), and as SQL over the Parquet     *)
(* files (query_engine.py, trace_query_duckdb.py, analytics_duckdb.py).     *)
(* Settings choose which of the two answers the same routes.                *)
(*                                                                         *)
(* A store is a set of spans; each trace came in one export.  Times are     *)
(* ticks, prices go with the tokens, percentiles and the order of rows are  *)
(* left out.                                                                *)
(***************************************************************************)
EXTENDS Integers, FiniteSets, FiniteSetsExt

CONSTANTS Default,      \* the ticks a list goes back when it is not told
          Day,          \* those an overview goes back
          Cap,          \* the rows the catalog is asked for before they are filtered
          TopLines,     \* the lines of a top list
          TopServices,  \* those of the list of services
          None          \* an attribute a span does not carry, an end a range does not have

Tokens(S) == MapThenSumSet(LAMBDA s : s.tokens, S)
TracesOf(S) == {s.trace : s \in S}
Failing(S) == {s \in S : s.status = "ERROR"}
Values(S, attr) == {s[attr] : s \in S} \ {None}

\* How often each value of an attribute occurs.
CountBy(S, attr) == {<<v, Cardinality({s \in S : s[attr] = v})>> : v \in Values(S, attr)}

\* ORDER BY key DESC LIMIT limit: the answers there may be, as equal keys come in
\* any order.
First(rows, limit, key) ==
    {U \in kSubset(Min({limit, Cardinality(rows)}), rows) : \A x \in U, y \in rows \ U : x[key] >= y[key]}

\* resolve_range: explicit ends over a rolling window over no filter.
Absolute(q) ==
    IF q.from # None \/ q.to # None THEN <<q.from, q.to>>
    ELSE IF q.window # None THEN <<q.now - q.window, None>> ELSE <<None, None>>

\* The route of the overview fills in a window.
OfOverview(q) == [q EXCEPT !.window = IF @ = None THEN Day ELSE @]

InRange(x, r) == (r[1] = None \/ x >= r[1]) /\ (r[2] = None \/ x <= r[2])

Bands == <<0, 1, 3, 8, 20, 50>>     \* lower ends of the latency bands, in 100 ms
Band(d) == Max({i \in DOMAIN Bands : Bands[i] <= d})
-------------------------------------------------------------------------------
(* Catalog and batches.                                                    *)

Batch(S, t) == {s \in S : s.trace = t}

\* The summary of flatten_otlp_payload, which the catalog keeps.
Summary(S, t) ==
    LET B == Batch(S, t)
        first == CHOOSE s \in B : \A x \in B : (s.root /\ ~x.root) \/ (s.root = x.root /\ s.start <= x.start)
    IN [trace |-> t, start |-> Min({s.start : s \in B}), finish |-> Max({s.finish : s \in B}),
        name |-> first.name, service |-> (CHOOSE s \in B : \A x \in B : s.id <= x.id).service,
        status |-> IF Failing(B) # {} THEN "ERROR"
                   ELSE IF \E s \in B : s.status = "OK" THEN "OK" ELSE "UNSET"]

\* The rows of the catalog; a read is given First(Index(S, scope), limit, "start").
Index(S, scope) == {row \in {Summary(S, t) : t \in TracesOf(S)} : scope = None \/ row.service \in scope}

\* The range filters the rows C that were read.
Recent(C, r) == {row \in C : InRange(row.start, r)}

\* The spans of the batches of rows.
SpansOf(S, rows) == UNION {Batch(S, row.trace) : row \in rows}

\* The first value a span of the batch carries.
Carried(B, attr) ==
    IF Values(B, attr) = {} THEN None
    ELSE (CHOOSE s \in B : s[attr] # None /\ \A x \in B : x[attr] # None => s.id <= x.id)[attr]

\* A list that filters reads more rows than it shows.
Fetched(r, session, user, limit) ==
    IF r # <<None, None>> \/ session # None \/ user # None THEN Max({limit, Cap}) ELSE limit

ListTraces(S, C, r, session, user) ==
    {row \in Recent(C, r) :
        LET B == Batch(S, row.trace)
        IN  /\ session = None \/ Carried(B, "session") = session
            /\ user = None \/ Carried(B, "user") = user}

Overview(S, C, r) ==
    LET rows == Recent(C, r)
        spans == SpansOf(S, rows)
        With(st) == Cardinality({x \in rows : x.status = st})
    IN [total |-> Cardinality(rows), errors |-> With("ERROR"), ok |-> With("OK"), unset |-> With("UNSET"),
        bands |-> [b \in DOMAIN Bands |-> Cardinality({x \in rows : Band(x.finish - x.start) = b})],
        services |-> First(CountBy(rows, "service"), TopServices, 2),
        operations |-> First(CountBy(rows, "name"), TopLines, 2),
        tokens |-> Tokens(spans), models |-> First(CountBy(spans, "model"), TopLines, 2),
        llmCalls |-> Cardinality({s \in spans : s.kind = "llm"}),
        toolCalls |-> Cardinality({s \in spans : s.kind = "tool"}),
        retrieveCalls |-> Cardinality({s \in spans : s.kind = "retrieve"}),
        sessions |-> Cardinality(Values(spans, "session"))]

\* Rows that share the value their batches carry; a trace without is not there.
Grouped(S, rows, attr) ==
    LET Of(v) == {row \in rows : Carried(Batch(S, row.trace), attr) = v}
    IN {[key |-> v, traces |-> Cardinality(Of(v)),
         errors |-> Cardinality({x \in Of(v) : x.status = "ERROR"}),
         tokens |-> Tokens(SpansOf(S, Of(v))),
         from |-> Min({x.start : x \in Of(v)}), to |-> Max({x.finish : x \in Of(v)}),
         sessions |-> Cardinality({Carried(Batch(S, x.trace), "session") : x \in Of(v)} \ {None})]
        : v \in {Carried(Batch(S, row.trace), attr) : row \in rows} \ {None}}

Sessions(S, C, r) == Grouped(S, Recent(C, r), "session")
Users(S, C, r)    == Grouped(S, Recent(C, r), "user")

\* Batch after batch, that of the newest row first, until limit spans are there.
Spans(S, C, r, limit) ==
    LET all == SpansOf(S, Recent(C, r))
        StartOf(s) == Summary(S, s.trace).start
    IN {T \in kSubset(Min({limit, Cardinality(all)}), all) : \A s \in T, x \in all \ T :
          IF s.trace = x.trace THEN s.id < x.id
          ELSE StartOf(s) >= StartOf(x) /\ (Batch(S, s.trace) \subseteq T \/ Batch(S, x.trace) \cap T = {})}
-------------------------------------------------------------------------------
(* SQL over the files.                                                     *)

\* Mutant: the upper end is excluded.
Where_Half(S, names, r) ==
    {s \in S : (r[1] = None \/ s.start >= r[1]) /\ (r[2] = None \/ s.start < r[2])
               /\ (names = None \/ s.service \in names)}

\* _build_where; the range and the services are those of each span.
Where(S, names, r) == {s \in S : InRange(s.start, r) /\ (names = None \/ s.service \in names)}

\* What stands in for the ends that resolve_range leaves open: in the lists, and
\* in the overview, where a window ends at the end of the series.
Effective(window, r, now) ==
    <<IF r[1] # None THEN r[1] ELSE now - (IF window # None THEN window ELSE Default), IF r[2] # None THEN r[2] ELSE now>>
Series(window, r, now) ==
    LET end == IF r[2] # None THEN r[2] ELSE now
    IN <<IF r[1] # None THEN r[1] ELSE end - (IF window # None THEN window ELSE Day), end>>

\* _select_engine: the archive answers a range that begins before the hot window,
\* unless there is a window.
FromArchive(hasArchive, window, r, cutoff) == hasArchive /\ window = None /\ r[1] # None /\ r[1] < cutoff

\* max() over the names of the statuses of a trace: "UNSET" > "OK" > "ERROR".
SqlStatus(B) ==
    IF \E s \in B : s.status = "UNSET" THEN "UNSET"
    ELSE IF \E s \in B : s.status = "OK" THEN "OK" ELSE "ERROR"

SqlListTraces(S, names, r, session, user) ==
    LET M == {s \in Where(S, names, r) : (session = None \/ s.session = session) /\ (user = None \/ s.user = user)}
    IN {[trace |-> t, start |-> Min({s.start : s \in Batch(M, t)}), finish |-> Max({s.finish : s \in Batch(M, t)}),
         status |-> SqlStatus(Batch(M, t)), spans |-> Cardinality(Batch(M, t))] : t \in TracesOf(M)}

\* The services and models of an overview are those of everybody.
SqlOverview(S, names, r) ==
    LET M == Where(S, names, r)
        everybody == Where(S, None, r)
        total == Cardinality(TracesOf(M))
        errors == Cardinality(TracesOf(Failing(M)))
        models == First(CountBy(everybody, "model"), TopLines, 2)
    IN [total |-> total, errors |-> errors, ok |-> total - errors, unset |-> 0,
        bands |-> [b \in DOMAIN Bands |-> Cardinality({s \in M : s.finish > s.start /\ Band(s.finish - s.start) = b})],
        services |-> First({<<v, Cardinality(TracesOf({s \in everybody : s.service = v}))>> : v \in Values(everybody, "service")},
                           TopServices, 2),
        operations |-> First(CountBy({s \in M : s.root}, "name"), TopLines, 2),
        tokens |-> Tokens(M), models |-> models,
        llmCalls |-> MapThenSumSet(LAMBDA line : line[2], CHOOSE list \in models : TRUE),
        toolCalls |-> 0, retrieveCalls |-> 0, sessions |-> 0]

\* GROUP BY an attribute of the span.
SqlGrouped(S, r, attr) ==
    LET M == Where(S, None, r)
        Of(v) == {s \in M : s[attr] = v}
    IN {[key |-> v, traces |-> Cardinality(TracesOf(Of(v))), errors |-> Cardinality(Failing(Of(v))),
         tokens |-> Tokens(Of(v)), from |-> Min({s.start : s \in Of(v)}), to |-> Max({s.finish : s \in Of(v)}),
         sessions |-> Cardinality(Values(Of(v), "session"))]
        : v \in Values(M, attr)}

SqlSessions(S, r) == SqlGrouped(S, r, "session")
SqlUsers(S, r)    == SqlGrouped(S, r, "user")

\* Only a single service filters the spans.
SqlSpans(S, names, r, limit) ==
    First(Where(S, IF names # None /\ Cardinality(names) = 1 THEN names ELSE None, r), limit, "start")

-------------------------------------------------------------------------------
(* Where the two must answer alike.                                        *)

\* The files a request reads: the archive lacks the traces whose write failed.
Source(S, archived, q) ==
    IF FromArchive(q.archive, q.window, Absolute(q), q.cutoff) THEN {s \in S : s.trace \in archived} ELSE S

\* The spans of a trace are in the range or out of it together, and carry the
\* same session and user.
Whole(S, r) ==
    \A s, x \in S : s.trace = x.trace =>
        (InRange(s.start, r) <=> InRange(x.start, r)) /\ s.session = x.session /\ s.user = x.user

\* The rows C that were read are all that the range has.
Kept(S, C, r) == Recent(Index(S, None), r) \subseteq C

\* The range r of a request cuts no trace, and where it is open its spans are
\* within the ends e that the SQL engine fills in.
Fits(S, r, e) ==
    /\ Whole(S, r)
    /\ \A s \in S : InRange(s.start, r) => (r[1] = None => s.start >= e[1]) /\ (r[2] = None => s.start <= e[2])

Common(o) == <<o.total, o.errors, o.tokens, o.models>>
Rows(G) == {<<g.key, g.traces, g.tokens, g.from, g.to, g.sessions>> : g \in G}
Lines(rows) == {<<x.trace, x.start>> : x \in rows}

\* Overviews of a range that fits count the same traces, failed traces, tokens and
\* models as long as the catalog was asked for enough rows; if it was not, the
\* file engine counts less.
OverviewsAgree(S, archived, q) ==
    LET r == Absolute(OfOverview(q))
        e == Series(OfOverview(q).window, r, q.now)
        sql == SqlOverview(Source(S, archived, OfOverview(q)), None, e)
    IN Fits(S, r, e) => \A C \in First(Index(S, None), Cap, "start") :
        /\ Overview(S, C, r).total <= sql.total /\ Overview(S, C, r).errors <= sql.errors
        /\ Kept(S, C, r) => Common(Overview(S, C, r)) = Common(sql)

\* Lists of such a range agree, if the files are those of the hot store or the
\* archive has no gap: they show the same sessions and users with their ends, the
\* same traces whatever session is asked for, and the same spans if all fit on
\* the page. Traces need enough rows only where the list filters them. The statuses
\* of a list and the errors of a session are not compared: the two count them
\* differently.
ListsAgree(S, archived, q) ==
    LET r == Absolute(q)
        e == Effective(q.window, r, q.now)
        D == Source(S, archived, q)
        fetched == Fetched(r, q.session, None, q.limit)
        complete == archived = TracesOf(S) \/ q.window # None \/ r[1] = None \/ r[1] >= q.cutoff
    IN (Fits(S, r, e) /\ complete) =>
        /\ \A C \in First(Index(S, None), Cap, "start") : Kept(S, C, r) =>
            /\ {Rows(U) : U \in First(Sessions(S, C, r), q.limit, "to")}
                  = {Rows(U) : U \in First(SqlSessions(D, e), q.limit, "to")}
            /\ {Rows(U) : U \in First(Users(S, C, r), q.limit, "to")}
                  = {Rows(U) : U \in First(SqlUsers(D, e), q.limit, "to")}
            /\ Cardinality(Where(D, None, e)) <= q.limit => Spans(S, C, r, q.limit) = SqlSpans(D, None, e, q.limit)
        /\ \A C \in First(Index(S, None), fetched, "start") :
             (Kept(S, C, r) \/ Cardinality(Index(S, None)) <= Cap \/ (r = <<None, None>> /\ q.session = None)) =>
               {Lines(U) : U \in First(ListTraces(S, C, r, q.session, None), q.limit, "start")}
                  \subseteq {Lines(U) : U \in First(SqlListTraces(D, None, e, q.session, None), q.limit, "start")}

Agree(S, archived, q) == OverviewsAgree(S, archived, q) /\ ListsAgree(S, archived, q)
===============================================================================
