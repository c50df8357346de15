------------------------------ MODULE Console ------------------------------
(***************************************************************************)
(* The console's pages that read: the dashboard with its store, the events *)
(* page and the executions page, their requests, and the services that     *)
(* answer them.  A report runs its queries in parallel, each at a moment   *)
(* of its own (a list and its total are one step: nothing compares them),  *)
(* and answers arrive in any order.                                        *)
(*                                                                         *)
(* A request is sent by an instance of a view.  Once that is unmounted     *)
(* nothing shows what its answer writes, so only requests that still reach *)
(* the dashboard store or the database are kept.                           *)
(***************************************************************************)
EXTENDS Integers, Sequences, FiniteSets

CONSTANTS
    None,
    Filters,    \* the status filters that the user tries: "" is no filter
    Limit,      \* rows of a page
    MaxFlight,  \* bound: requests on their way
    MaxInserts, \* bound: rows inserted
    MaxVisits,  \* bound: pages opened
    MaxClicks,  \* bound: uses of the pager, the filter and Retry
    MaxFaults   \* bound: lost requests and answers

ASSUME ConsoleAssumption ==
    /\ None \notin Nat /\ "" \in Filters /\ Filters \subseteq STRING
    /\ Limit \in Nat \ {0} /\ MaxFlight \in Nat \ {0, 1}
    /\ {MaxInserts, MaxVisits, MaxClicks, MaxFaults} \subseteq Nat

VARIABLES
    rows,    \* the tables events and executions: statuses, the newest row last
    view,    \* the mounted view
    store,   \* the dashboard store
    flight,  \* requests on their way
    inserts, clicks, faults

bounds == <<inserts, clicks, faults>>
vars == <<rows, view, store, flight, bounds>>

Lists == {"events", "executions"}

\* The routes whose pages read; the others are left out.
Pages == Lists \cup {"dashboard"}

Working(l) == IF l = "events" THEN "PROCESSING" ELSE "PENDING"
Settled(l) == IF l = "events" THEN {"MATCHED"} ELSE {"SUCCESS", "FAILED"}
Statuses(l) == {Working(l)} \cup Settled(l)

\* At most so many requests are on their way; each has a slot.
Slots == 1..MaxFlight

-----------------------------------------------------------------------------
(* The services: what one query returns *)

\* Rows of a table that pass a filter, by number.
Matching(l, f) == {n \in 1..Len(rows[l]) : f \in {"", rows[l][n]}}

\* findMany of listEvents and listExecutions: newest first, Limit to a page.
PageOf(l, f, page) ==
    LET Newer(n) == Cardinality({m \in Matching(l, f) : m > n})
    IN  {<<n, rows[l][n]>> : n \in
            {m \in Matching(l, f) : Newer(m) \in (page - 1) * Limit .. page * Limit - 1}}

CountOf(l, f) == Cardinality(Matching(l, f))

\* Mutant: only rows that are settled are counted.
CountSettled(l) == [s \in Statuses(l) |-> IF s = Working(l) THEN 0 ELSE CountOf(l, s)]

\* groupBy of getCountByStatus and of getStats.
CountByStatus(l) == [s \in Statuses(l) |-> CountOf(l, s)]

Result(r, query) ==
    CASE query = "page"   -> [data |-> PageOf(r.of, r.filter, r.page),
                              count |-> CountOf(r.of, r.filter)]
      [] query = "count"  -> CountOf(r.of, "")
      [] query = "groups" -> CountByStatus(r.of)
      [] query = "failed" -> CountOf(r.of, "FAILED")
      [] query = "update" -> TRUE

\* QueryEventsDto takes a status of the EventStatus enum only, while the page
\* offers PENDING, FAILED and DUPLICATE as well: a 400 before any query.
Refused(r) == r.kind = "list" /\ r.filter \notin {""} \cup Statuses("events")

-----------------------------------------------------------------------------
(* The requests of the views *)

Queries == {"page", "count", "groups", "failed", "update"}

Request(kind, table, v, queries) ==
    [kind |-> kind, of |-> table, by |-> v.id, page |-> 1, filter |-> "", slot |-> 1,
     todo |-> queries, got |-> [query \in Queries |-> None],
     since |-> IF kind \in {"summary", "dashboard"} THEN Len(rows[table]) ELSE 0]

ListRequest(v) ==
    [Request("list", v.name, v, {"page"}) EXCEPT !.page = v.page, !.filter = v.filter]
SummaryRequest(v)   == Request("summary", v.name, v, {"count", "groups"})
DashboardRequest(v) == Request("dashboard", "executions", v, {"count", "failed"})
RecentRequest(v)    == Request("recent", "events", v, {"page"})
RetryRequest(v, row) == [Request("retry", "executions", v, {"update"}) EXCEPT !.page = row]

Room(left, n) == Cardinality(left) + n <= MaxFlight

\* The requests on their way once one more has been sent.
Send(left, r) ==
    left \cup {[r EXCEPT !.slot = CHOOSE n \in Slots : \A q \in left : q.slot # n]}

\* Mutant: the timer brings the statistics up to date and not the list.
RefreshSummary(v, left) ==
    IF v.name = "dashboard" THEN Send(left, DashboardRequest(v)) ELSE Send(left, SummaryRequest(v))

\* refreshEvents, refreshExecutions, and refreshData up to its first await.
RefreshOf(v, left) ==
    IF v.name = "dashboard" THEN Send(left, DashboardRequest(v))
    ELSE Send(Send(left, ListRequest(v)), SummaryRequest(v))

\* How many requests that takes.
RoomToRefresh(name, left) == Room(left, IF name = "dashboard" THEN 1 ELSE 2)

Blank(name, id) ==
    [name |-> name, id |-> id, page |-> 1, filter |-> "", list |-> {}, total |-> 0,
     loading |-> name \in Lists, stats |-> None, chart |-> None]

\* The database is new, or holds something.
Init ==
    /\ rows \in {[l \in Lists |-> <<>>],
                [l \in Lists |-> IF l = "events" THEN <<"MATCHED">> ELSE <<"FAILED">>]}
    /\ view = Blank("dashboard", 1) /\ flight = RefreshOf(view, {})
    /\ store = [stats |-> None, loading |-> TRUE, by |-> None]
    /\ inserts = 0 /\ clicks = 0 /\ faults = 0

-----------------------------------------------------------------------------
(* The pipeline, and the queries of the requests *)

Insert(l) ==
    /\ inserts < MaxInserts /\ inserts' = inserts + 1
    /\ rows' = [rows EXCEPT ![l] = Append(@, Working(l))]
    /\ UNCHANGED <<view, store, flight, clicks, faults>>

Finish(l) ==
    /\ \E n \in 1..Len(rows[l]), s \in Settled(l) :
          /\ rows[l][n] = Working(l)
          /\ rows' = [rows EXCEPT ![l] = [@ EXCEPT ![n] = s]]
    /\ UNCHANGED <<view, store, flight, bounds>>

\* One query of one request; retryExecution updates the row.
Query(r) ==
    /\ ~Refused(r)
    /\ \E query \in r.todo :
          flight' = (flight \ {r}) \cup
              {[r EXCEPT !.todo = @ \ {query}, !.got = [@ EXCEPT ![query] = Result(r, query)]]}
    /\ rows' = IF r.kind # "retry" THEN rows
               ELSE [rows EXCEPT !["executions"] = [@ EXCEPT ![r.page] = "PENDING"]]
    /\ UNCHANGED <<view, store, bounds>>

-----------------------------------------------------------------------------
(* The views *)

\* The timer of 30 seconds, or the Refresh button.
Refresh ==
    /\ RoomToRefresh(view.name, flight) /\ flight' = RefreshOf(view, flight)
    /\ view' = [view EXCEPT !.loading = view.name \in Lists]
    /\ store' = [store EXCEPT !.loading = @ \/ view.name = "dashboard"]
    /\ UNCHANGED <<rows, bounds>>

\* The user opens a page; pages that are not modelled may lie in between.
Visit(name) ==
    /\ view.id < MaxVisits
    /\ LET left == {r \in flight : r.kind \in {"dashboard", "retry"}}
       IN  /\ RoomToRefresh(name, left)
           /\ view' = Blank(name, view.id + 1)
           /\ flight' = RefreshOf(view', left)
    /\ store' = [store EXCEPT !.loading = @ \/ name = "dashboard"]
    /\ UNCHANGED <<rows, bounds>>

Click ==
    /\ view.name \in Lists /\ clicks < MaxClicks /\ clicks' = clicks + 1
    /\ UNCHANGED <<rows, store, inserts, faults>>

\* loadEvents and loadExecutions, with the page and the filter of now.
Load(page, filter) ==
    /\ view' = [view EXCEPT !.page = page, !.filter = filter, !.loading = TRUE]
    /\ Room(flight, 1) /\ flight' = Send(flight, ListRequest(view'))

NextPage == Click /\ Cardinality(view.list) = Limit /\ Load(view.page + 1, view.filter)
PrevPage == Click /\ view.page > 1 /\ Load(view.page - 1, view.filter)

HandleFilter(f) == Click /\ view.name = "events" /\ f # view.filter /\ Load(1, f)

\* The Retry button of a row shown as FAILED, whatever the row is by now.
Retry ==
    /\ Click /\ view.name = "executions" /\ Room(flight, 1)
    /\ \E row \in view.list :
          row[2] = "FAILED" /\ flight' = Send(flight, RetryRequest(view, row[1]))
    /\ UNCHANGED view

-----------------------------------------------------------------------------
(* What the views do with an answer, and with a failure *)

Mounted(r) == r.by = view.id

\* Mutant: loading is only reset after an answer.
ListDoneNoFinally(r, ok, rest) ==
    /\ view' = IF ok THEN [view EXCEPT !.loading = FALSE,
                                       !.list = r.got["page"].data, !.total = r.got["page"].count]
               ELSE view
    /\ flight' = rest /\ UNCHANGED store

\* The last answer wins, whichever request was sent last.
ListDone(r, ok, rest) ==
    /\ view' = IF ok THEN [view EXCEPT !.loading = FALSE,
                                       !.list = r.got["page"].data, !.total = r.got["page"].count]
               ELSE [view EXCEPT !.loading = FALSE]
    /\ flight' = rest /\ UNCHANGED store

Report(r) ==
    [count |-> r.got["count"], groups |-> r.got["groups"], failed |-> r.got["failed"],
     missed |-> Len(rows[r.of]) - r.since]

SummaryDone(r, ok, rest) ==
    /\ view' = IF ok THEN [view EXCEPT !.stats = Report(r)] ELSE view
    /\ flight' = rest /\ UNCHANGED store

\* Two numbers of the dashboard's statistics, 0 as long as there are none.
Total(stats)  == IF stats = None THEN 0 ELSE stats.count
Failed(stats) == IF stats = None THEN 0 ELSE stats.failed

\* The cards of the dashboard: whatever has not failed counts as successful.
Cards == [successful |-> Total(store.stats) - Failed(store.stats), failed |-> Failed(store.stats)]

\* The doughnut of generateChartData, whose total is at least 1.
ChartOf(stats) ==
    LET total == IF Total(stats) = 0 THEN 1 ELSE Total(stats)
    IN  [successful |-> total - Failed(stats), failed |-> Failed(stats)]

\* fetchStats, then refreshData goes on to loadRecentEvents.
DashboardDone(r, ok, rest) ==
    /\ store' = IF ok THEN [stats |-> Report(r), loading |-> FALSE, by |-> r.by]
                ELSE [store EXCEPT !.loading = FALSE]
    /\ flight' = IF Mounted(r) THEN Send(rest, RecentRequest(view)) ELSE rest
    /\ UNCHANGED view

\* Mutant: an error of loadRecentEvents ends refreshData.
RecentDoneOrThrow(r, ok, rest) ==
    /\ view' = IF ok THEN [view EXCEPT !.list = r.got["page"].data, !.chart = ChartOf(store.stats)]
               ELSE view
    /\ flight' = rest /\ UNCHANGED store

\* loadRecentEvents, then generateChartData with the stats of the store.
RecentDone(r, ok, rest) ==
    /\ view' = IF ok THEN [view EXCEPT !.list = r.got["page"].data, !.chart = ChartOf(store.stats)]
               ELSE [view EXCEPT !.chart = ChartOf(store.stats)]
    /\ flight' = rest /\ UNCHANGED store

\* retryExecution loads the list again after an answer only.
RetryDone(r, ok, rest) ==
    /\ IF ok /\ Mounted(r)
       THEN /\ view' = [view EXCEPT !.loading = TRUE]
            /\ flight' = Send(rest, ListRequest(view))
       ELSE UNCHANGED view /\ flight' = rest
    /\ UNCHANGED store

Done(r, ok) ==
    /\ LET rest == flight \ {r}
       IN  \/ r.kind = "list"      /\ ListDone(r, ok, rest)
           \/ r.kind = "summary"   /\ SummaryDone(r, ok, rest)
           \/ r.kind = "dashboard" /\ DashboardDone(r, ok, rest)
           \/ r.kind = "recent"    /\ RecentDone(r, ok, rest)
           \/ r.kind = "retry"     /\ RetryDone(r, ok, rest)
    /\ UNCHANGED <<rows, inserts, clicks>>

Answer(r) == r.todo = {} /\ Done(r, TRUE) /\ UNCHANGED faults

Refuse(r) == Refused(r) /\ Done(r, FALSE) /\ UNCHANGED faults

\* The request or its answer is lost, a query fails, or 30 seconds pass.
Lose(r) == faults < MaxFaults /\ faults' = faults + 1 /\ Done(r, FALSE)

-----------------------------------------------------------------------------
Serve(r) == Query(r) \/ Answer(r) \/ Refuse(r)

Next ==
    \/ \E l \in Lists : Insert(l) \/ Finish(l)
    \/ \E r \in flight : Serve(r) \/ Lose(r)
    \/ Refresh \/ NextPage \/ PrevPage \/ Retry
    \/ \E name \in Pages : Visit(name)
    \/ \E f \in Filters : HandleFilter(f)

Spec == Init /\ [][Next]_vars

\* The timer of a mounted view fires, and a request that is not lost is answered.
FairSpec ==
    /\ Spec /\ WF_vars(Refresh)
    /\ \A n \in Slots : WF_vars(\E r \in flight : r.slot = n /\ Serve(r))

-----------------------------------------------------------------------------
(* Properties *)

\* The Refresh button is disabled, and spins, only while an answer is awaited:
\* a failed or a refused request does not leave it so.
LoadingMeansWaiting ==
    /\ view.loading => \E r \in flight : r.kind = "list" /\ Mounted(r)
    /\ store.loading => \E r \in flight : r.kind = "dashboard"

\* What the groups of a report add up to.
Parts(l, groups) ==
    IF l = "events" THEN groups["PROCESSING"] + groups["MATCHED"]
    ELSE groups["PENDING"] + groups["SUCCESS"] + groups["FAILED"]

\* A report is no snapshot: its counts may differ, but by no more rows than
\* were inserted between the request and the answer.  The dashboard can show a
\* negative number of successful executions, within that margin.
ReportsNearlyAdd ==
    /\ (view.stats # None) =>
          view.stats.count - Parts(view.name, view.stats.groups)
             \in (-view.stats.missed)..view.stats.missed
    /\ (store.stats # None) => Cards.successful >= -store.stats.missed

\* When no refresh of the dashboard is under way its chart shows the numbers of
\* its cards, even if there are none because the first request was lost, except
\* that an empty database has one success on the chart and none on the card, and
\* that an earlier visit's refresh may have written the cards since.
ChartFollowsStats ==
    (/\ view.name = "dashboard" /\ store.by \in {None, view.id}
     /\ ~\E r \in flight : r.kind \in {"dashboard", "recent"} /\ Mounted(r)) =>
        view.chart = [Cards EXCEPT !.successful = IF Total(store.stats) = 0 THEN @ + 1 ELSE @]

Shown ==
    IF view.name = "dashboard"
    THEN /\ view.list = PageOf("events", "", 1)
         /\ store.stats # None /\ view.chart = ChartOf(store.stats)
         /\ store.stats.count = CountOf("executions", "")
         /\ store.stats.failed = CountOf("executions", "FAILED")
    ELSE /\ view.list = PageOf(view.name, view.filter, view.page)
         /\ view.total = CountOf(view.name, view.filter)

\* However late and out of order the answers come, once the user and the
\* pipeline rest the page ends up showing the database under its filter and
\* page number, unless the API refuses that filter.
ConsoleSettles ==
    <>[](Shown \/ Refused(ListRequest(view)))
=============================================================================
