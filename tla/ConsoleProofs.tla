---------------------------- MODULE ConsoleProofs ----------------------------
(***************************************************************************)
(* Theorems about Console, for every set of filters, page length and all   *)
(* bounds.                                                                 *)
(***************************************************************************)
EXTENDS Console, FiniteSetTheorems, TLAPS

Kinds == {"list", "summary", "dashboard", "recent", "retry"}

AllStatuses == {"PROCESSING", "MATCHED", "PENDING", "SUCCESS", "FAILED"}

Groups  == [Statuses("events") -> Nat] \cup [Statuses("executions") -> Nat]
Listing == SUBSET (Nat \X AllStatuses)
Found   == [data : Listing, count : Nat]
Results == {None, TRUE} \cup Nat \cup Groups \cup Found
Reports == [count : Results, groups : Results, failed : Results, missed : Int]

\* A report of the dashboard has both its counts, and its chart two numbers.
Counted == {report \in Reports : report.count \in Nat /\ report.failed \in Nat}
Charts  == [successful : Int, failed : Int]

Requests ==
    [kind : Kinds, of : Lists, by : Nat, page : Nat, filter : Filters, slot : Slots,
     todo : SUBSET Queries, got : [Queries -> Results], since : Nat]

Views ==
    [name : Pages, id : Nat, page : Nat, filter : Filters, list : Listing, total : Nat,
     loading : BOOLEAN, stats : Reports \cup {None}, chart : Charts \cup {None}]

Stores == [stats : Counted \cup {None}, loading : BOOLEAN, by : Nat \cup {None}]

TypeOK ==
    /\ rows \in [Lists -> Seq(AllStatuses)]
    /\ \A l \in Lists : \A n \in 1..Len(rows[l]) : rows[l][n] \in Statuses(l)
    /\ view \in Views /\ store \in Stores
    /\ flight \subseteq Requests /\ IsFiniteSet(flight) /\ Cardinality(flight) <= MaxFlight
    /\ inserts \in Nat /\ clicks \in Nat /\ faults \in Nat

\* A count lies between what was there when the request was sent and what is
\* there now.
CountOK(r, count) == count \in r.since .. Len(rows[r.of])

\* What the queries of a request that have run have found.
GotOK(r) ==
    /\ r.kind \in {"list", "recent"} =>
          /\ r.todo \subseteq {"page"}
          /\ "page" \in r.todo \/ r.got["page"] \in Found
    /\ r.kind = "summary" =>
          /\ r.todo \subseteq {"count", "groups"}
          /\ "count" \in r.todo \/ CountOK(r, r.got["count"])
          /\ \/ "groups" \in r.todo
             \/ /\ r.got["groups"] \in [Statuses(r.of) -> Nat]
                /\ CountOK(r, Parts(r.of, r.got["groups"]))
    /\ r.kind = "dashboard" =>
          /\ r.todo \subseteq {"count", "failed"}
          /\ "count" \in r.todo \/ CountOK(r, r.got["count"])
          /\ "failed" \in r.todo \/ r.got["failed"] \in 0 .. Len(rows[r.of])
    /\ r.kind = "retry" => r.todo \subseteq {"update"}

\* Requests of an unmounted view are dropped, unless they reach the store of
\* the dashboard or the database.
SentOK(r) ==
    /\ r.since <= Len(rows[r.of])
    /\ r.kind \in {"list", "summary", "recent"} => Mounted(r)
    /\ r.kind = "summary" => r.of = view.name
    /\ r.by <= view.id
    /\ r.kind = "retry" /\ Mounted(r) => view.name = "executions"

FlightInv == \A r \in flight : GotOK(r) /\ SentOK(r)

\* Only the lists' pages have statistics of their own.
ReportInv == (view.stats # None => view.name \in Lists) /\ ReportsNearlyAdd

\* The chart is that of the store, unless one of the dashboard's own requests is
\* on its way or an earlier visit's request wrote the store.
ChartInv ==
    (/\ view.name = "dashboard" /\ store.by \in {None, view.id}
     /\ ~\E r \in flight : r.kind \in {"dashboard", "recent"} /\ Mounted(r)) =>
        view.chart = ChartOf(store.stats)

PageInv == FlightInv /\ ReportInv /\ LoadingMeansWaiting /\ ChartInv

IInv == TypeOK /\ PageInv

-----------------------------------------------------------------------------
(* Counting rows *)

LEMMA RowTypes ==
  ASSUME TypeOK, NEW l \in Lists
  PROVE  /\ rows[l] \in Seq(AllStatuses) /\ Len(rows[l]) \in Nat
         /\ IsFiniteSet(1..Len(rows[l])) /\ Cardinality(1..Len(rows[l])) = Len(rows[l])
<1>1. rows[l] \in Seq(AllStatuses) /\ Len(rows[l]) \in Nat
  BY DEF TypeOK
<1>2. IsFiniteSet(1..Len(rows[l])) /\ Cardinality(1..Len(rows[l])) = Len(rows[l])
  BY <1>1, FS_Interval
<1> QED
  BY <1>1, <1>2

\* A query under a filter counts no more rows than there are; without one, all.
LEMMA CountBounds ==
  ASSUME TypeOK, NEW l \in Lists, NEW f
  PROVE  /\ IsFiniteSet(Matching(l, f)) /\ CountOf(l, f) \in Nat
         /\ CountOf(l, f) \in 0 .. Len(rows[l]) /\ CountOf(l, "") = Len(rows[l])
<1>1. Matching(l, f) \subseteq 1..Len(rows[l])
  BY DEF Matching
<1>2. /\ IsFiniteSet(Matching(l, f))
      /\ Cardinality(Matching(l, f)) <= Cardinality(1..Len(rows[l]))
  BY <1>1, RowTypes, FS_Subset
<1>3. Cardinality(Matching(l, f)) \in Nat
  BY <1>2, FS_CardinalityType
<1>4. Matching(l, "") = 1..Len(rows[l])
  BY DEF Matching
<1>5. Len(rows[l]) \in Nat /\ Cardinality(1..Len(rows[l])) = Len(rows[l])
  BY RowTypes
<1>6. CountOf(l, f) \in 0 .. Len(rows[l])
  BY <1>2, <1>3, <1>5 DEF CountOf
<1>7. CountOf(l, "") = Len(rows[l])
  BY <1>4, <1>5 DEF CountOf
<1> QED
  BY <1>2, <1>3, <1>6, <1>7 DEF CountOf

\* Rows of two statuses are counted apart.
LEMMA CountsAdd ==
  ASSUME NEW S, NEW T, IsFiniteSet(S), IsFiniteSet(T), S \cap T = {}
  PROVE  IsFiniteSet(S \cup T) /\ Cardinality(S \cup T) = Cardinality(S) + Cardinality(T)
<1>1. Cardinality(S \cap T) = 0
  BY FS_EmptySet
<1>2. Cardinality(S) \in Nat /\ Cardinality(T) \in Nat
  BY FS_CardinalityType
<1>3. Cardinality(S \cup T) = Cardinality(S) + Cardinality(T) - Cardinality(S \cap T)
  BY FS_Union
<1>4. Cardinality(S \cup T) = Cardinality(S) + Cardinality(T)
  BY <1>1, <1>2, <1>3
<1> QED
  BY <1>4, FS_Union

\* The groups of one query add up to the rows that are there when it runs.
LEMMA GroupsAdd ==
  ASSUME TypeOK, NEW l \in Lists
  PROVE  /\ CountByStatus(l) \in [Statuses(l) -> Nat]
         /\ Parts(l, CountByStatus(l)) = Len(rows[l])
<1>1. CountByStatus(l) \in [Statuses(l) -> Nat]
  <2>1. \A s : CountOf(l, s) \in Nat
    BY CountBounds
  <2> QED
    BY <2>1 DEF CountByStatus
<1>2. \A s \in Statuses(l) : CountByStatus(l)[s] = Cardinality(Matching(l, s))
  BY DEF CountByStatus, CountOf
<1>3. \A s : IsFiniteSet(Matching(l, s))
  BY CountBounds
<1>4. \A n \in 1..Len(rows[l]) : rows[l][n] \in Statuses(l)
  BY DEF TypeOK
<1>5. Cardinality(1..Len(rows[l])) = Len(rows[l])
  BY RowTypes
<1>6. CASE l = "events"
  <2>1. Matching(l, "PROCESSING") \cup Matching(l, "MATCHED") = 1..Len(rows[l])
        /\ Matching(l, "PROCESSING") \cap Matching(l, "MATCHED") = {}
    BY <1>4, <1>6 DEF Matching, Statuses, Working, Settled
  <2>2. Cardinality(Matching(l, "PROCESSING")) + Cardinality(Matching(l, "MATCHED"))
          = Len(rows[l])
    BY <1>3, <1>5, <2>1, CountsAdd
  <2>3. CountByStatus(l)["PROCESSING"] = Cardinality(Matching(l, "PROCESSING"))
        /\ CountByStatus(l)["MATCHED"] = Cardinality(Matching(l, "MATCHED"))
    BY <1>2, <1>6 DEF Statuses, Working, Settled
  <2> QED
    BY <1>1, <1>6, <2>2, <2>3 DEF Parts
<1>7. CASE l # "events"
  <2> DEFINE P == Matching(l, "PENDING")
             S == Matching(l, "SUCCESS")
             F == Matching(l, "FAILED")
  <2>1. (P \cup S) \cup F = 1..Len(rows[l]) /\ P \cap S = {} /\ (P \cup S) \cap F = {}
    BY <1>4, <1>7 DEF Matching, Statuses, Working, Settled
  <2>2. IsFiniteSet(P) /\ IsFiniteSet(S) /\ IsFiniteSet(F)
    BY <1>3
  <2>3. /\ CountByStatus(l)["PENDING"] = Cardinality(P)
        /\ CountByStatus(l)["SUCCESS"] = Cardinality(S)
        /\ CountByStatus(l)["FAILED"] = Cardinality(F)
    BY <1>2, <1>7 DEF Statuses, Working, Settled
  <2> HIDE DEF P, S, F
  <2>4. IsFiniteSet(P \cup S) /\ Cardinality(P \cup S) = Cardinality(P) + Cardinality(S)
    BY <2>1, <2>2, CountsAdd
  <2>5. Cardinality((P \cup S) \cup F) = Cardinality(P \cup S) + Cardinality(F)
    BY <2>1, <2>2, <2>4, CountsAdd
  <2>6. Cardinality(P) + Cardinality(S) + Cardinality(F) = Len(rows[l])
    BY <1>5, <2>1, <2>4, <2>5
  <2> QED
    BY <1>1, <1>7, <2>3, <2>6 DEF Parts
<1> QED
  BY <1>6, <1>7

\* What one query finds.
LEMMA ResultTypes ==
  ASSUME TypeOK, NEW r \in Requests, NEW query \in Queries
  PROVE  /\ Result(r, query) \in Results
         /\ query = "page" => Result(r, query) \in Found
<1>l. r.of \in Lists
  BY DEF Requests
<1>c. \A f : CountOf(r.of, f) \in Nat
  BY <1>l, CountBounds
<1>1. CASE query = "page"
  <2>1. \A n \in Matching(r.of, r.filter) : n \in Nat /\ rows[r.of][n] \in AllStatuses
    <3>1. rows[r.of] \in Seq(AllStatuses) /\ Len(rows[r.of]) \in Nat
      BY <1>l, RowTypes
    <3>2. \A n \in 1..Len(rows[r.of]) : n \in Nat /\ rows[r.of][n] \in AllStatuses
      BY <3>1
    <3> QED
      BY <3>2 DEF Matching
  <2>2. PageOf(r.of, r.filter, r.page) \in Listing
    <3> DEFINE On == PageOf(r.of, r.filter, r.page)
    <3>1. \A row \in On : \E n \in Matching(r.of, r.filter) : row = <<n, rows[r.of][n]>>
      BY DEF PageOf
    <3>2. \A row \in On : row \in Nat \X AllStatuses
      BY <2>1, <3>1
    <3> QED
      BY <3>2 DEF Listing
  <2>3. CountOf(r.of, r.filter) \in Nat
    BY <1>c
  <2> QED
    BY <1>1, <2>2, <2>3 DEF Result, Results, Found
<1>2. CASE query = "groups"
  <2>1. CountByStatus(r.of) \in [Statuses(r.of) -> Nat]
    BY <1>l, GroupsAdd
  <2>2. CountByStatus(r.of) \in Groups
    BY <1>l, <2>1 DEF Groups, Lists
  <2> QED
    BY <1>2, <2>2 DEF Result, Results
<1>3. CASE query \in {"count", "failed"}
  BY <1>c, <1>3 DEF Result, Results
<1>4. CASE query = "update"
  BY <1>4 DEF Result, Results
<1> QED
  BY <1>1, <1>2, <1>3, <1>4 DEF Queries

-----------------------------------------------------------------------------
(* Sending *)

\* The same request in some slot.
Alike(q, r) ==
    /\ q \in Requests
    /\ q.kind = r.kind /\ q.of = r.of /\ q.by = r.by /\ q.page = r.page
    /\ q.filter = r.filter /\ q.todo = r.todo /\ q.got = r.got /\ q.since = r.since

Flights(F) == F \subseteq Requests /\ IsFiniteSet(F) /\ Cardinality(F) <= MaxFlight

LEMMA SlotTypes == MaxFlight \in Nat /\ 1 < MaxFlight /\ 1 \in Slots
<1>1. MaxFlight \in Nat \ {0, 1}
  BY ConsoleAssumption
<1> QED
  BY <1>1 DEF Slots

\* While fewer requests are on their way than there are slots, one is free.
LEMMA FreeSlot ==
  ASSUME NEW left \in SUBSET Requests, IsFiniteSet(left), Cardinality(left) < MaxFlight
  PROVE  \E n \in Slots : \A q \in left : q.slot # n
<1> SUFFICES ASSUME \A n \in Slots : \E q \in left : q.slot = n
             PROVE  FALSE
  OBVIOUS
<1> DEFINE f == [q \in left |-> q.slot]
<1>1. f \in Surjection(left, Slots)
  <2>1. f \in [left -> Slots]
    BY DEF Requests
  <2> QED
    BY <2>1 DEF Surjection
<1>2. Cardinality(Slots) <= Cardinality(left)
  BY <1>1, FS_Surjection
<1>3. Cardinality(Slots) = MaxFlight
  BY SlotTypes, FS_Interval DEF Slots
<1>4. Cardinality(left) \in Nat
  BY FS_CardinalityType
<1> QED
  BY <1>2, <1>3, <1>4, SlotTypes

LEMMA Sends ==
  ASSUME NEW left, Flights(left), Room(left, 1), NEW r \in Requests
  PROVE  /\ \E q : Alike(q, r) /\ Send(left, r) = left \cup {q}
         /\ Flights(Send(left, r))
         /\ Cardinality(Send(left, r)) <= Cardinality(left) + 1
<1>n. Cardinality(left) \in Nat /\ MaxFlight \in Nat
  BY SlotTypes, FS_CardinalityType DEF Flights
<1>1. Cardinality(left) + 1 <= MaxFlight
  BY DEF Room
<1> DEFINE n == CHOOSE n \in Slots : \A q \in left : q.slot # n
           q == [r EXCEPT !.slot = n]
<1>2. n \in Slots
  BY <1>n, <1>1, FreeSlot DEF Flights
<1>3. Send(left, r) = left \cup {q}
  BY DEF Send
<1>4. Alike(q, r)
  <2> HIDE DEF n
  <2> QED
    BY <1>2 DEF Alike, Requests
<1> HIDE DEF q
<1>5. /\ IsFiniteSet(left \cup {q}) /\ Cardinality(left \cup {q}) \in Nat
      /\ Cardinality(left \cup {q}) <= Cardinality(left) + 1
  <2>1. IsFiniteSet(left \cup {q})
        /\ Cardinality(left \cup {q}) = IF q \in left THEN Cardinality(left) ELSE Cardinality(left) + 1
    BY FS_AddElement DEF Flights
  <2> QED
    BY <1>n, <2>1
<1>6. Flights(left \cup {q})
  BY <1>n, <1>1, <1>4, <1>5 DEF Flights, Alike
<1> QED
  BY <1>3, <1>4, <1>5, <1>6

LEMMA RequestTypes ==
  ASSUME TypeOK, NEW v \in Views
  PROVE  /\ v.name \in Lists => ListRequest(v) \in Requests /\ SummaryRequest(v) \in Requests
         /\ DashboardRequest(v) \in Requests /\ RecentRequest(v) \in Requests
         /\ \A row \in Nat : RetryRequest(v, row) \in Requests
<1>1. "" \in Filters /\ 1 \in Slots
  BY ConsoleAssumption, SlotTypes
<1>2. ASSUME NEW kind \in Kinds, NEW l \in Lists, NEW queries \in SUBSET Queries
      PROVE  Request(kind, l, v, queries) \in Requests
  <2>1. (IF kind \in {"summary", "dashboard"} THEN Len(rows[l]) ELSE 0) \in Nat
    BY RowTypes
  <2>2. [query \in Queries |-> None] \in [Queries -> Results]
    BY DEF Results
  <2> QED
    BY <1>1, <2>1, <2>2 DEF Request, Requests, Views
<1>3. v.page \in Nat /\ v.filter \in Filters
  BY DEF Views
<1>4. v.name \in Lists => ListRequest(v) \in Requests
  <2> SUFFICES ASSUME v.name \in Lists
               PROVE  ListRequest(v) \in Requests
    OBVIOUS
  <2> DEFINE r == Request("list", v.name, v, {"page"})
  <2>1. r \in Requests
    BY <1>2 DEF Kinds, Queries
  <2>2. ListRequest(v) = [r EXCEPT !.page = v.page, !.filter = v.filter]
    BY DEF ListRequest
  <2> HIDE DEF r
  <2> QED
    BY <1>3, <2>1, <2>2 DEF Requests
<1>5. v.name \in Lists => SummaryRequest(v) \in Requests
  BY <1>2 DEF SummaryRequest, Kinds, Queries
<1>6. DashboardRequest(v) \in Requests /\ RecentRequest(v) \in Requests
  BY <1>2 DEF DashboardRequest, RecentRequest, Kinds, Queries, Lists
<1>7. ASSUME NEW row \in Nat
      PROVE  RetryRequest(v, row) \in Requests
  <2> DEFINE r == Request("retry", "executions", v, {"update"})
  <2>1. r \in Requests
    BY <1>2 DEF Kinds, Queries, Lists
  <2>2. RetryRequest(v, row) = [r EXCEPT !.page = row]
    BY DEF RetryRequest
  <2> HIDE DEF r
  <2> QED
    BY <2>1, <2>2 DEF Requests
<1> QED
  BY <1>4, <1>5, <1>6, <1>7

\* What a request asks for and whose it is.
LEMMA RequestFields ==
  ASSUME NEW v, NEW row
  PROVE  /\ /\ ListRequest(v).kind = "list" /\ ListRequest(v).of = v.name
            /\ ListRequest(v).by = v.id /\ ListRequest(v).todo = {"page"}
            /\ ListRequest(v).since = 0
         /\ /\ SummaryRequest(v).kind = "summary" /\ SummaryRequest(v).of = v.name
            /\ SummaryRequest(v).by = v.id /\ SummaryRequest(v).todo = {"count", "groups"}
            /\ SummaryRequest(v).since = Len(rows[v.name])
         /\ /\ DashboardRequest(v).kind = "dashboard" /\ DashboardRequest(v).of = "executions"
            /\ DashboardRequest(v).by = v.id /\ DashboardRequest(v).todo = {"count", "failed"}
            /\ DashboardRequest(v).since = Len(rows["executions"])
         /\ /\ RecentRequest(v).kind = "recent" /\ RecentRequest(v).of = "events"
            /\ RecentRequest(v).by = v.id /\ RecentRequest(v).todo = {"page"}
            /\ RecentRequest(v).since = 0
         /\ /\ RetryRequest(v, row).kind = "retry" /\ RetryRequest(v, row).of = "executions"
            /\ RetryRequest(v, row).by = v.id /\ RetryRequest(v, row).todo = {"update"}
            /\ RetryRequest(v, row).since = 0
<1>1. /\ SummaryRequest(v).kind = "summary" /\ SummaryRequest(v).of = v.name
      /\ SummaryRequest(v).by = v.id /\ SummaryRequest(v).todo = {"count", "groups"}
      /\ SummaryRequest(v).since = Len(rows[v.name])
  BY DEF SummaryRequest, Request
<1>2. /\ DashboardRequest(v).kind = "dashboard" /\ DashboardRequest(v).of = "executions"
      /\ DashboardRequest(v).by = v.id /\ DashboardRequest(v).todo = {"count", "failed"}
      /\ DashboardRequest(v).since = Len(rows["executions"])
  BY DEF DashboardRequest, Request
<1>3. /\ RecentRequest(v).kind = "recent" /\ RecentRequest(v).of = "events"
      /\ RecentRequest(v).by = v.id /\ RecentRequest(v).todo = {"page"}
      /\ RecentRequest(v).since = 0
  BY DEF RecentRequest, Request
<1>4. /\ ListRequest(v).kind = "list" /\ ListRequest(v).of = v.name
      /\ ListRequest(v).by = v.id /\ ListRequest(v).todo = {"page"}
      /\ ListRequest(v).since = 0
  BY DEF ListRequest, Request
<1>5. /\ RetryRequest(v, row).kind = "retry" /\ RetryRequest(v, row).of = "executions"
      /\ RetryRequest(v, row).by = v.id /\ RetryRequest(v, row).todo = {"update"}
      /\ RetryRequest(v, row).since = 0
  BY DEF RetryRequest, Request
<1> QED
  BY <1>1, <1>2, <1>3, <1>4, <1>5

\* A refresh of the dashboard sends one request, one of a list page two.
LEMMA RefreshSends ==
  ASSUME TypeOK, NEW v \in Views, NEW left, Flights(left), RoomToRefresh(v.name, left)
  PROVE  /\ Flights(RefreshOf(v, left))
         /\ v.name = "dashboard" =>
               \E q : Alike(q, DashboardRequest(v)) /\ RefreshOf(v, left) = left \cup {q}
         /\ v.name # "dashboard" =>
               \E q, p : /\ Alike(q, ListRequest(v)) /\ Alike(p, SummaryRequest(v))
                         /\ RefreshOf(v, left) = left \cup {q, p}
<1>1. CASE v.name = "dashboard"
  <2>1. Room(left, 1)
    BY <1>1 DEF RoomToRefresh
  <2> QED
    BY <1>1, <2>1, Sends, RequestTypes DEF RefreshOf
<1>2. CASE v.name # "dashboard"
  <2>0. v.name \in Lists
    BY <1>2 DEF Views, Pages
  <2> DEFINE L == ListRequest(v)
             S == SummaryRequest(v)
             F == Send(left, L)
  <2>1. L \in Requests /\ S \in Requests
    BY <2>0, RequestTypes
  <2>2. Cardinality(left) + 2 <= MaxFlight /\ Cardinality(left) \in Nat
    BY <1>2, FS_CardinalityType DEF RoomToRefresh, Room, Flights
  <2>3. Room(left, 1)
    BY <2>2, SlotTypes DEF Room
  <2>4. Flights(F) /\ Cardinality(F) <= Cardinality(left) + 1
        /\ \E q : Alike(q, L) /\ F = left \cup {q}
    BY <2>1, <2>3, Sends
  <2>5. Room(F, 1)
    <3>1. Cardinality(F) \in Nat
      BY <2>4, FS_CardinalityType DEF Flights
    <3> QED
      BY <2>2, <2>4, <3>1, SlotTypes DEF Room
  <2>6. RefreshOf(v, left) = Send(F, S)
    BY <1>2 DEF RefreshOf
  <2> HIDE DEF F, L, S
  <2>7. Flights(Send(F, S)) /\ \E p : Alike(p, S) /\ Send(F, S) = F \cup {p}
    BY <2>1, <2>4, <2>5, Sends
  <2>8. \E q, p : Alike(q, L) /\ Alike(p, S) /\ Send(F, S) = left \cup {q, p}
    BY <2>4, <2>7
  <2> QED
    BY <1>2, <2>6, <2>7, <2>8 DEF L, S
<1> QED
  BY <1>1, <1>2

-----------------------------------------------------------------------------
(* What is known of the requests on their way *)

OK(r) == GotOK(r) /\ SentOK(r)

\* Tables only grow.
Grown == \A l \in Lists : Len(rows[l]) \in Nat /\ Len(rows'[l]) \in Nat /\ Len(rows[l]) <= Len(rows'[l])

\* More rows do not disprove a count, another view does not reach the store's requests.
LEMMA OldRequest ==
  ASSUME Grown, NEW r \in Requests, OK(r), view.id \in Nat,
         \/ view'.id = view.id /\ view'.name = view.name
         \/ r.kind \in {"dashboard", "retry"} /\ view'.id = view.id + 1
  PROVE  OK(r)'
<1>1. r.of \in Lists /\ r.since \in Nat /\ r.by \in Nat
  BY DEF Requests
<1>2. Len(rows[r.of]) \in Nat /\ Len(rows'[r.of]) \in Nat /\ Len(rows[r.of]) <= Len(rows'[r.of])
  BY <1>1 DEF Grown
<1>3. \A n : CountOK(r, n) => CountOK(r, n)'
  BY <1>1, <1>2 DEF CountOK
<1>4. r.got["failed"] \in 0 .. Len(rows[r.of]) => r.got["failed"] \in 0 .. Len(rows'[r.of])
  BY <1>2
<1>5. GotOK(r)'
  BY <1>3, <1>4 DEF OK, GotOK
<1>6. r.since <= Len(rows'[r.of])
  BY <1>1, <1>2 DEF OK, SentOK
<1>7. SentOK(r)'
  <2>1. CASE view'.id = view.id /\ view'.name = view.name
    BY <1>6, <2>1 DEF OK, SentOK, Mounted
  <2>2. CASE r.kind \in {"dashboard", "retry"} /\ view'.id = view.id + 1
    <3>1. r.by <= view'.id /\ r.by # view'.id
      BY <1>1, <2>2 DEF OK, SentOK
    <3> QED
      BY <1>6, <2>2, <3>1 DEF SentOK, Mounted
  <2> QED
    BY <2>1, <2>2
<1> QED
  BY <1>5, <1>7 DEF OK

\* A request of the view that is mounted now, none of whose queries has run.
LEMMA NewRequest ==
  ASSUME TypeOK, TypeOK', UNCHANGED rows, NEW row, NEW q,
         NEW v, v.id = view'.id, v.name = view'.name,
         \/ Alike(q, ListRequest(v)) \/ Alike(q, RecentRequest(v))
         \/ Alike(q, DashboardRequest(v))
         \/ Alike(q, RetryRequest(v, row)) /\ v.name = "executions"
         \/ Alike(q, SummaryRequest(v)) /\ v.name \in Lists
  PROVE  OK(q)'
<1>1. \A l \in Lists : Len(rows[l]) \in Nat
  BY RowTypes
<1>2. view'.id \in Nat /\ view'.id <= view'.id
  BY DEF TypeOK, Views
<1>3. CASE Alike(q, SummaryRequest(v)) /\ v.name \in Lists
  <2>1. /\ q.kind = "summary" /\ q.of = view'.name /\ q.by = view'.id
        /\ q.todo = {"count", "groups"} /\ q.since = SummaryRequest(v).since
    <3>1. /\ SummaryRequest(v).kind = "summary" /\ SummaryRequest(v).of = v.name
          /\ SummaryRequest(v).by = v.id /\ SummaryRequest(v).todo = {"count", "groups"}
      BY RequestFields
    <3> QED
      BY <1>3, <3>1 DEF Alike
  <2>2. SummaryRequest(v).since = Len(rows[v.name])
    BY RequestFields
  <2>3. q.since <= Len(rows'[q.of])
    BY <1>1, <1>3, <2>1, <2>2
  <2> QED
    BY <1>2, <2>1, <2>3 DEF OK, GotOK, SentOK, Mounted
<1>4. CASE Alike(q, DashboardRequest(v))
  <2>1. /\ q.kind = "dashboard" /\ q.of = "executions"
        /\ q.by = view'.id /\ q.todo = {"count", "failed"} /\ q.since = DashboardRequest(v).since
    <3>1. /\ DashboardRequest(v).kind = "dashboard" /\ DashboardRequest(v).of = "executions"
          /\ DashboardRequest(v).by = v.id /\ DashboardRequest(v).todo = {"count", "failed"}
      BY RequestFields
    <3> QED
      BY <1>4, <3>1 DEF Alike
  <2>2. DashboardRequest(v).since = Len(rows["executions"])
    BY RequestFields
  <2>3. q.since <= Len(rows'[q.of])
    BY <1>1, <2>1, <2>2 DEF Lists
  <2> QED
    BY <1>2, <2>1, <2>3 DEF OK, GotOK, SentOK, Mounted
<1>5. ASSUME q \in Requests, q.since = 0, q.by = view'.id,
             \/ q.kind = "list" /\ q.todo = {"page"}
             \/ q.kind = "recent" /\ q.todo = {"page"}
             \/ q.kind = "retry" /\ q.todo = {"update"} /\ view'.name = "executions"
      PROVE  OK(q)'
  <2>1. q.since <= Len(rows'[q.of])
    BY <1>1, <1>5 DEF Requests
  <2> QED
    BY <1>2, <1>5, <2>1 DEF OK, GotOK, SentOK, Mounted
<1>6. CASE Alike(q, ListRequest(v))
  <2>1. q \in Requests /\ q.since = 0 /\ q.by = v.id /\ q.kind = "list" /\ q.todo = {"page"}
    BY <1>6, RequestFields DEF Alike
  <2> QED
    BY <1>5, <2>1
<1>7. CASE Alike(q, RecentRequest(v))
  <2>1. /\ RecentRequest(v).kind = "recent" /\ RecentRequest(v).by = v.id
        /\ RecentRequest(v).todo = {"page"} /\ RecentRequest(v).since = 0
    BY RequestFields
  <2> QED
    BY <1>5, <1>7, <2>1 DEF Alike
<1>8. CASE Alike(q, RetryRequest(v, row)) /\ v.name = "executions"
  BY <1>5, <1>8, RequestFields DEF Alike
<1> QED
  BY <1>3, <1>4, <1>6, <1>7, <1>8

-----------------------------------------------------------------------------
(* The pipeline and the queries *)

\* A status changes or a row comes.
LEMMA RowsStep ==
  ASSUME TypeOK,
         \/ \E l \in Lists : Insert(l) \/ Finish(l)
         \/ rows' = rows
         \/ \E n \in Nat : rows' = [rows EXCEPT !["executions"] = [@ EXCEPT ![n] = "PENDING"]]
  PROVE  /\ rows' \in [Lists -> Seq(AllStatuses)]
         /\ \A l \in Lists : \A n \in 1..Len(rows'[l]) : rows'[l][n] \in Statuses(l)
         /\ Grown
<1>t. /\ rows \in [Lists -> Seq(AllStatuses)]
      /\ \A l \in Lists : rows[l] \in Seq(AllStatuses) /\ Len(rows[l]) \in Nat
      /\ \A l \in Lists : \A n \in 1..Len(rows[l]) : rows[l][n] \in Statuses(l)
  BY DEF TypeOK
<1>s. \A l \in Lists : Statuses(l) \subseteq AllStatuses
  BY DEF Statuses, Working, Settled, AllStatuses
<1>w. \A l \in Lists : Working(l) \in Statuses(l) /\ Settled(l) \subseteq Statuses(l)
  BY DEF Statuses
<1>1. ASSUME NEW l \in Lists, Insert(l)
      PROVE  /\ rows' \in [Lists -> Seq(AllStatuses)]
             /\ \A k \in Lists : \A n \in 1..Len(rows'[k]) : rows'[k][n] \in Statuses(k)
             /\ Grown
  <2> DEFINE a == Append(rows[l], Working(l))
  <2>0. Working(l) \in AllStatuses
    BY <1>s, <1>w
  <2>1. /\ a \in Seq(AllStatuses) /\ Len(a) = Len(rows[l]) + 1
        /\ \A n \in 1..Len(a) : a[n] \in Statuses(l)
    BY <1>t, <1>w, <2>0
  <2>2. rows' = [rows EXCEPT ![l] = a]
    BY <1>1 DEF Insert
  <2> HIDE DEF a
  <2>3. rows' \in [Lists -> Seq(AllStatuses)] /\ rows'[l] = a
        /\ \A k \in Lists : k # l => rows'[k] = rows[k]
    BY <1>t, <2>1, <2>2
  <2>4. \A k \in Lists : \A n \in 1..Len(rows'[k]) : rows'[k][n] \in Statuses(k)
    BY <1>t, <2>1, <2>3
  <2>5. \A k \in Lists : Len(rows'[k]) \in Nat /\ Len(rows[k]) <= Len(rows'[k])
    <3>1. Len(a) \in Nat /\ Len(rows[l]) <= Len(a)
      BY <1>t, <2>1
    <3>2. ASSUME NEW k \in Lists, k # l
          PROVE  Len(rows'[k]) \in Nat /\ Len(rows[k]) <= Len(rows'[k])
      <4>1. rows'[k] = rows[k] /\ Len(rows[k]) \in Nat
        BY <1>t, <2>3, <3>2
      <4> QED
        BY <4>1
    <3> QED
      BY <2>3, <3>1, <3>2
  <2> QED
    BY <1>t, <2>3, <2>4, <2>5 DEF Grown
<1>2. ASSUME NEW l \in Lists, NEW n \in Nat, NEW s \in Statuses(l),
             rows' = [rows EXCEPT ![l] = [@ EXCEPT ![n] = s]]
      PROVE  /\ rows' \in [Lists -> Seq(AllStatuses)]
             /\ \A k \in Lists : \A m \in 1..Len(rows'[k]) : rows'[k][m] \in Statuses(k)
             /\ Grown
  <2> DEFINE a == [rows[l] EXCEPT ![n] = s]
  <2>0. s \in AllStatuses /\ rows[l] \in [1..Len(rows[l]) -> AllStatuses]
    BY <1>s, <1>t
  <2>1. /\ a \in [1..Len(rows[l]) -> AllStatuses]
        /\ \A m \in 1..Len(rows[l]) : a[m] \in Statuses(l)
    BY <1>t, <2>0
  <2>6. a \in Seq(AllStatuses) /\ Len(a) = Len(rows[l])
    BY <1>t, <2>1
  <2>2. rows' = [rows EXCEPT ![l] = a]
    BY <1>2
  <2> HIDE DEF a
  <2>3. rows' \in [Lists -> Seq(AllStatuses)] /\ rows'[l] = a
        /\ \A k \in Lists : k # l => rows'[k] = rows[k]
    BY <1>t, <2>1, <2>2, <2>6
  <2>4. \A k \in Lists : \A m \in 1..Len(rows'[k]) : rows'[k][m] \in Statuses(k)
    BY <1>t, <2>1, <2>3, <2>6
  <2>5. \A k \in Lists : Len(rows'[k]) \in Nat /\ Len(rows[k]) <= Len(rows'[k])
    <3>1. Len(a) \in Nat /\ Len(rows[l]) <= Len(a)
      BY <1>t, <2>1, <2>6
    <3>2. ASSUME NEW k \in Lists, k # l
          PROVE  Len(rows'[k]) \in Nat /\ Len(rows[k]) <= Len(rows'[k])
      <4>1. rows'[k] = rows[k] /\ Len(rows[k]) \in Nat
        BY <1>t, <2>3, <3>2
      <4> QED
        BY <4>1
    <3> QED
      BY <2>3, <3>1, <3>2
  <2> QED
    BY <1>t, <2>3, <2>4, <2>5 DEF Grown
<1>3. ASSUME NEW l \in Lists, Finish(l)
      PROVE  \E n \in Nat, s \in Statuses(l) : rows' = [rows EXCEPT ![l] = [@ EXCEPT ![n] = s]]
  <2>1. PICK n \in 1..Len(rows[l]), s \in Settled(l) :
           rows' = [rows EXCEPT ![l] = [@ EXCEPT ![n] = s]]
    BY <1>3 DEF Finish
  <2>2. n \in Nat /\ s \in Statuses(l)
    BY <1>t, <1>w
  <2> QED
    BY <2>1, <2>2
<1>4. "PENDING" \in Statuses("executions") /\ "executions" \in Lists
  BY DEF Statuses, Working, Lists
<1>5. CASE rows' = rows
  BY <1>5, <1>t DEF Grown
<1> QED
  BY <1>1, <1>2, <1>3, <1>4, <1>5

LEMMA PipelineStep ==
  ASSUME IInv, NEW l \in Lists, Insert(l) \/ Finish(l)
  PROVE  IInv'
<1>1. UNCHANGED <<view, store, flight, clicks, faults>> /\ inserts' \in Nat
  BY DEF Insert, Finish, IInv, TypeOK, bounds
<1>2. TypeOK'
  BY <1>1, RowsStep DEF IInv, TypeOK
<1>3. FlightInv'
  <2>1. Grown
    BY RowsStep DEF IInv
  <2>2. \A r \in flight : r \in Requests /\ OK(r)
    BY DEF IInv, TypeOK, PageInv, FlightInv, OK
  <2>3. view.id \in Nat
    BY DEF IInv, TypeOK, Views
  <2> QED
    BY <1>1, <2>1, <2>2, <2>3, OldRequest DEF FlightInv, OK
<1>4. ReportInv' /\ LoadingMeansWaiting' /\ ChartInv'
  BY <1>1 DEF IInv, PageInv, ReportInv, ReportsNearlyAdd, Cards, Total, Failed, LoadingMeansWaiting,
              ChartInv, Mounted
<1> QED
  BY <1>2, <1>3, <1>4 DEF IInv, PageInv

\* A request one of whose queries has run.
LEMMA QueryOK ==
  ASSUME TypeOK, TypeOK', Grown, UNCHANGED view, NEW r \in Requests, OK(r),
         NEW query \in r.todo, NEW q \in Requests,
         q.kind = r.kind, q.of = r.of, q.by = r.by, q.since = r.since,
         q.todo = r.todo \ {query}, q.got = [r.got EXCEPT ![query] = Result(r, query)],
         \A l \in Lists : Len(rows'[l]) = Len(rows[l])
  PROVE  OK(q)'
<1>t. r.of \in Lists /\ r.todo \subseteq Queries /\ r.got \in [Queries -> Results]
      /\ r.since \in Nat
  BY DEF Requests
<1>l. Len(rows[r.of]) \in Nat /\ Len(rows'[r.of]) = Len(rows[r.of])
  BY <1>t DEF Grown
<1>g. q.got[query] = Result(r, query) /\ \A p \in Queries : p # query => q.got[p] = r.got[p]
  BY <1>t
<1>c. \A f : CountOf(r.of, "") = Len(rows[r.of]) /\ CountOf(r.of, f) \in 0 .. Len(rows[r.of])
  BY <1>t, CountBounds
<1>s. SentOK(q)'
  BY <1>t, <1>l DEF OK, SentOK, Mounted
<1>1. CASE r.kind \in {"list", "recent"}
  <2>1. query = "page" /\ Result(r, query) \in Found
    BY <1>1, <1>t, ResultTypes DEF OK, GotOK
  <2> QED
    BY <1>1, <1>s, <1>g, <2>1 DEF OK, GotOK
<1>2. CASE r.kind = "summary"
  <2>0. r.todo \subseteq {"count", "groups"} /\ r.since <= Len(rows[r.of])
    BY <1>2 DEF OK, GotOK, SentOK
  <2>1. query = "count" => CountOK(q, q.got["count"])'
    <3> SUFFICES ASSUME query = "count"
                 PROVE  CountOK(q, q.got["count"])'
      OBVIOUS
    <3>1. Result(r, query) = Len(rows[r.of])
      BY <1>c DEF Result
    <3> QED
      BY <1>t, <1>l, <1>g, <2>0, <3>1 DEF CountOK
  <2>2. query = "groups" => /\ q.got["groups"] \in [Statuses(q.of) -> Nat]
                            /\ CountOK(q, Parts(q.of, q.got["groups"]))'
    BY <1>t, <1>l, <1>g, <2>0, GroupsAdd DEF Result, CountOK
  <2>3. "count" \in q.todo \/ CountOK(q, q.got["count"])'
    BY <1>2, <1>t, <1>l, <1>g, <2>0, <2>1 DEF OK, GotOK, CountOK, Queries
  <2>4. \/ "groups" \in q.todo
        \/ /\ q.got["groups"] \in [Statuses(q.of) -> Nat]
           /\ CountOK(q, Parts(q.of, q.got["groups"]))'
    BY <1>2, <1>t, <1>l, <1>g, <2>0, <2>2 DEF OK, GotOK, CountOK, Queries
  <2>5. GotOK(q)'
    BY <1>2, <2>0, <2>3, <2>4 DEF GotOK
  <2> QED
    BY <1>s, <2>5 DEF OK
<1>3. CASE r.kind = "dashboard"
  <2>0. r.todo \subseteq {"count", "failed"} /\ r.since <= Len(rows[r.of])
    BY <1>3 DEF OK, GotOK, SentOK
  <2>1. query = "count" => CountOK(q, q.got["count"])'
    <3> SUFFICES ASSUME query = "count"
                 PROVE  CountOK(q, q.got["count"])'
      OBVIOUS
    <3>1. Result(r, query) = Len(rows[r.of])
      BY <1>c DEF Result
    <3> QED
      BY <1>t, <1>l, <1>g, <2>0, <3>1 DEF CountOK
  <2>2. query = "failed" => q.got["failed"] \in 0 .. Len(rows[r.of])
    <3> SUFFICES ASSUME query = "failed"
                 PROVE  q.got["failed"] \in 0 .. Len(rows[r.of])
      OBVIOUS
    <3>1. Result(r, query) = CountOf(r.of, "FAILED")
      BY DEF Result
    <3>2. CountOf(r.of, "FAILED") \in 0 .. Len(rows[r.of])
      BY <1>c
    <3> QED
      BY <1>g, <3>1, <3>2
  <2>3. "count" \in q.todo \/ CountOK(q, q.got["count"])'
    BY <1>3, <1>t, <1>l, <1>g, <2>0, <2>1 DEF OK, GotOK, CountOK, Queries
  <2>4. "failed" \in q.todo \/ q.got["failed"] \in 0 .. Len(rows'[q.of])
    BY <1>3, <1>t, <1>l, <1>g, <2>0, <2>2 DEF OK, GotOK, Queries
  <2>5. GotOK(q)'
    BY <1>3, <2>0, <2>3, <2>4 DEF GotOK
  <2> QED
    BY <1>s, <2>5 DEF OK
<1>4. CASE r.kind = "retry"
  BY <1>4, <1>s DEF OK, GotOK
<1> QED
  BY <1>1, <1>2, <1>3, <1>4 DEF Requests, Kinds

\* What holds of the requests that stay and of those that are new holds of all.
LEMMA FlightStep ==
  ASSUME IInv, Grown, NEW left \in SUBSET flight, NEW new, flight' = left \cup new,
         \A q \in new : OK(q)',
         \/ view'.id = view.id /\ view'.name = view.name
         \/ view'.id = view.id + 1 /\ \A r \in left : r.kind \in {"dashboard", "retry"}
  PROVE  FlightInv'
<1>0. view.id \in Nat
  BY DEF IInv, TypeOK, Views
<1>1. \A r \in left : r \in Requests /\ OK(r)
  BY DEF IInv, TypeOK, PageInv, FlightInv, OK
<1>2. \A r \in left : OK(r)'
  BY <1>0, <1>1, OldRequest
<1> QED
  BY <1>2 DEF FlightInv, OK

\* One request is replaced, or goes.
LEMMA FlightTypes ==
  ASSUME TypeOK, NEW r \in flight
  PROVE  /\ Flights(flight) /\ Flights(flight \ {r}) /\ Room(flight \ {r}, 1)
         /\ \A q \in Requests : Flights((flight \ {r}) \cup {q})
<1>0. IsFiniteSet(flight) /\ Cardinality(flight) <= MaxFlight /\ flight \subseteq Requests
  BY DEF TypeOK
<1>1. /\ IsFiniteSet(flight \ {r}) /\ Cardinality(flight) \in Nat
      /\ Cardinality(flight \ {r}) = Cardinality(flight) - 1
  BY <1>0, FS_RemoveElement, FS_CardinalityType
<1>2. Cardinality(flight \ {r}) \in Nat
  BY <1>1, FS_CardinalityType
<1>3. Flights(flight \ {r}) /\ Room(flight \ {r}, 1)
  BY <1>0, <1>1, <1>2, SlotTypes DEF Flights, Room
<1>4. ASSUME NEW q \in Requests
      PROVE  Flights((flight \ {r}) \cup {q})
  <2>1. /\ IsFiniteSet((flight \ {r}) \cup {q})
        /\ Cardinality((flight \ {r}) \cup {q}) \in {Cardinality(flight \ {r}), Cardinality(flight \ {r}) + 1}
    BY <1>1, FS_AddElement
  <2>2. Cardinality((flight \ {r}) \cup {q}) <= MaxFlight
    BY <1>0, <1>1, <1>2, <2>1, SlotTypes
  <2> QED
    BY <1>0, <2>1, <2>2 DEF Flights
<1> QED
  BY <1>0, <1>3, <1>4 DEF Flights

LEMMA QueryStep ==
  ASSUME IInv, NEW r \in flight, Query(r)
  PROVE  IInv'
<1>i. TypeOK /\ r \in Requests /\ OK(r)
  BY DEF IInv, TypeOK, PageInv, FlightInv, OK
<1>t. r.todo \subseteq Queries /\ r.got \in [Queries -> Results] /\ r.page \in Nat
  BY <1>i DEF Requests
<1>u. UNCHANGED <<view, store, bounds>>
  BY DEF Query
<1>1. PICK query \in r.todo :
         flight' = (flight \ {r}) \cup
            {[r EXCEPT !.todo = @ \ {query}, !.got = [@ EXCEPT ![query] = Result(r, query)]]}
  BY DEF Query
<1>g. PICK got : got = [r.got EXCEPT ![query] = Result(r, query)]
  OBVIOUS
<1>q. PICK q : q = [r EXCEPT !.todo = r.todo \ {query}, !.got = got]
  OBVIOUS
<1>2. flight' = (flight \ {r}) \cup {q}
  BY <1>1, <1>g, <1>q
<1>3. got \in [Queries -> Results]
  BY <1>i, <1>t, <1>g, ResultTypes
<1>4. /\ q \in Requests /\ q.kind = r.kind /\ q.of = r.of /\ q.by = r.by /\ q.since = r.since
      /\ q.todo = r.todo \ {query} /\ q.got = got
  BY <1>i, <1>t, <1>3, <1>q DEF Requests
<1>5. \/ rows' = rows
      \/ \E n \in Nat : rows' = [rows EXCEPT !["executions"] = [@ EXCEPT ![n] = "PENDING"]]
  BY <1>t DEF Query
<1>6. /\ rows' \in [Lists -> Seq(AllStatuses)] /\ Grown
      /\ \A l \in Lists : \A n \in 1..Len(rows'[l]) : rows'[l][n] \in Statuses(l)
  BY <1>i, <1>5, RowsStep
<1>7. \A l \in Lists : Len(rows'[l]) = Len(rows[l])
  <2>1. ASSUME NEW n \in Nat, NEW l \in Lists,
               rows' = [rows EXCEPT !["executions"] = [@ EXCEPT ![n] = "PENDING"]]
        PROVE  Len(rows'[l]) = Len(rows[l])
    <3> DEFINE a == [rows["executions"] EXCEPT ![n] = "PENDING"]
    <3>1. \A k \in Lists : rows[k] \in Seq(AllStatuses) /\ Len(rows[k]) \in Nat
          /\ rows[k] \in [1..Len(rows[k]) -> AllStatuses]
      BY <1>i, RowTypes
    <3>2. "executions" \in Lists /\ "PENDING" \in AllStatuses
      BY DEF Lists, AllStatuses
    <3>3. a \in [1..Len(rows["executions"]) -> AllStatuses]
      BY <3>1, <3>2
    <3>4. Len(a) = Len(rows["executions"])
      BY <3>1, <3>2, <3>3
    <3>5. rows' = [rows EXCEPT !["executions"] = a]
      BY <2>1
    <3> HIDE DEF a
    <3> QED
      BY <1>i, <3>2, <3>4, <3>5 DEF TypeOK
  <2> QED
    BY <1>5, <2>1
<1>8. TypeOK'
  <2>1. Flights(flight')
    BY <1>i, <1>2, <1>4, FlightTypes
  <2> QED
    BY <1>i, <1>u, <1>6, <2>1 DEF TypeOK, Flights, bounds
<1>9. FlightInv'
  <2>1. OK(q)'
    BY <1>i, <1>g, <1>u, <1>4, <1>6, <1>7, <1>8, QueryOK
  <2>2. \A p \in {q} : OK(p)'
    BY <2>1
  <2>3. flight \ {r} \in SUBSET flight /\ view'.id = view.id /\ view'.name = view.name
    BY <1>u
  <2> QED
    BY <1>2, <1>6, <2>2, <2>3, FlightStep
<1>10. ReportInv'
  BY <1>u DEF IInv, PageInv, ReportInv, ReportsNearlyAdd, Cards, Total, Failed
<1>11. \A p \in flight : \E o \in flight' : o.kind = p.kind /\ o.by = p.by
  BY <1>2, <1>4
<1>12. LoadingMeansWaiting' /\ ChartInv'
  BY <1>u, <1>11 DEF IInv, PageInv, LoadingMeansWaiting, ChartInv, Mounted
<1> QED
  BY <1>8, <1>9, <1>10, <1>12 DEF IInv, PageInv

-----------------------------------------------------------------------------
(* The views *)

LEMMA StillRows ==
  ASSUME TypeOK, UNCHANGED rows
  PROVE  Grown
<1>1. \A l \in Lists : Len(rows[l]) \in Nat /\ rows'[l] = rows[l]
  BY RowTypes
<1> QED
  BY <1>1 DEF Grown

\* A view that goes on: what it is and whose requests are its own.
LEMMA ViewTypes ==
  ASSUME TypeOK
  PROVE  /\ view.name \in Pages /\ view.id \in Nat /\ view.page \in Nat
         /\ view.filter \in Filters /\ view.list \in Listing /\ view.total \in Nat
         /\ view.loading \in BOOLEAN /\ view.stats \in Reports \cup {None}
         /\ view.chart \in Charts \cup {None}
         /\ store.stats \in Counted \cup {None} /\ store.loading \in BOOLEAN
         /\ store.by \in Nat \cup {None}
  BY DEF TypeOK, Views, Stores

\* The requests of a refresh are new, and its own.
LEMMA RefreshRequests ==
  ASSUME IInv, TypeOK', UNCHANGED rows, NEW left \in SUBSET flight,
         NEW v \in Views, v.id = view'.id, v.name = view'.name,
         RoomToRefresh(v.name, left), Flights(left), flight' = RefreshOf(v, left),
         \/ view'.id = view.id /\ view'.name = view.name
         \/ view'.id = view.id + 1 /\ \A r \in left : r.kind \in {"dashboard", "retry"}
  PROVE  /\ FlightInv' /\ left \subseteq flight'
         /\ v.name = "dashboard" => \E r \in flight' : r.kind = "dashboard" /\ r.by = v.id
         /\ v.name # "dashboard" => \E r \in flight' : r.kind = "list" /\ r.by = v.id
<1>i. TypeOK /\ Grown
  BY StillRows DEF IInv
<1>1. CASE v.name = "dashboard"
  <2>1. PICK q : Alike(q, DashboardRequest(v)) /\ flight' = left \cup {q}
    BY <1>1, <1>i, RefreshSends
  <2>2. \A p \in {q} : OK(p)'
    BY <1>i, <2>1, NewRequest
  <2>3. q.kind = "dashboard" /\ q.by = v.id
    BY <2>1, RequestFields DEF Alike
  <2>4. FlightInv'
    BY <1>i, <2>1, <2>2, FlightStep
  <2> QED
    BY <1>1, <2>1, <2>3, <2>4
<1>2. CASE v.name # "dashboard"
  <2>0. v.name \in Lists
    BY <1>2 DEF Views, Pages
  <2>1. PICK q, p : /\ Alike(q, ListRequest(v)) /\ Alike(p, SummaryRequest(v))
                    /\ flight' = left \cup {q, p}
    BY <1>2, <1>i, RefreshSends
  <2>2. OK(q)' /\ OK(p)'
    BY <1>i, <2>0, <2>1, NewRequest
  <2>3. \A o \in {q, p} : OK(o)'
    BY <2>2
  <2>4. q.kind = "list" /\ q.by = v.id
    BY <2>1, RequestFields DEF Alike
  <2>5. FlightInv'
    BY <1>i, <2>1, <2>3, FlightStep
  <2> QED
    BY <1>2, <2>1, <2>4, <2>5
<1> QED
  BY <1>1, <1>2

LEMMA RefreshStep ==
  ASSUME IInv, Refresh
  PROVE  IInv'
<1>i. TypeOK /\ view \in Views /\ store \in Stores
  BY DEF IInv, TypeOK
<1>1. /\ RoomToRefresh(view.name, flight) /\ flight' = RefreshOf(view, flight)
      /\ view' = [view EXCEPT !.loading = view.name \in Lists]
      /\ store' = [store EXCEPT !.loading = @ \/ view.name = "dashboard"]
      /\ UNCHANGED <<rows, bounds>>
  BY DEF Refresh
<1>2. /\ view' \in Views /\ view'.name = view.name /\ view'.id = view.id
      /\ view'.stats = view.stats /\ view'.chart = view.chart
      /\ view'.loading => view.name \in Lists
  <2>1. PICK b \in BOOLEAN : b <=> view.name \in Lists
    OBVIOUS
  <2>2. view' = [view EXCEPT !.loading = b]
    BY <1>1, <2>1
  <2> QED
    BY <1>i, <2>1, <2>2 DEF Views
<1>3. /\ store' \in Stores /\ store'.stats = store.stats /\ store'.by = store.by
      /\ store'.loading => store.loading \/ view.name = "dashboard"
  BY <1>1, <1>i, ViewTypes DEF Stores
<1>4. Flights(flight)
  BY <1>i DEF TypeOK, Flights
<1>5. TypeOK'
  <2>1. Flights(flight')
    BY <1>i, <1>1, <1>4, RefreshSends
  <2> QED
    BY <1>i, <1>1, <1>2, <1>3, <2>1 DEF TypeOK, Flights, bounds
<1>6. /\ FlightInv' /\ flight \subseteq flight'
      /\ view.name = "dashboard" => \E r \in flight' : r.kind = "dashboard" /\ r.by = view.id
      /\ view.name # "dashboard" => \E r \in flight' : r.kind = "list" /\ r.by = view.id
  BY <1>i, <1>1, <1>2, <1>4, <1>5, RefreshRequests
<1>7. ReportInv'
  BY <1>2, <1>3 DEF IInv, PageInv, ReportInv, ReportsNearlyAdd, Cards, Total, Failed
<1>8. LoadingMeansWaiting'
  <2>1. view'.loading => \E r \in flight' : r.kind = "list" /\ r.by = view'.id
    BY <1>2, <1>6 DEF Lists
  <2>2. store'.loading => \E r \in flight' : r.kind = "dashboard"
    BY <1>3, <1>6 DEF IInv, PageInv, LoadingMeansWaiting
  <2> QED
    BY <2>1, <2>2 DEF LoadingMeansWaiting, Mounted
<1>9. ChartInv'
  BY <1>2, <1>6 DEF ChartInv, Mounted
<1> QED
  BY <1>5, <1>6, <1>7, <1>8, <1>9 DEF IInv, PageInv

LEMMA VisitStep ==
  ASSUME IInv, NEW name \in Pages, Visit(name)
  PROVE  IInv'
<1>i. TypeOK /\ view \in Views /\ store \in Stores
  BY DEF IInv, TypeOK
<1> DEFINE left == {r \in flight : r.kind \in {"dashboard", "retry"}}
<1>1. /\ RoomToRefresh(name, left) /\ view' = Blank(name, view.id + 1)
      /\ flight' = RefreshOf(view', left)
      /\ store' = [store EXCEPT !.loading = @ \/ name = "dashboard"]
      /\ UNCHANGED <<rows, bounds>>
  BY DEF Visit
<1>2. /\ view' \in Views /\ view'.name = name /\ view'.stats = None
      /\ view'.loading => name \in Lists
      /\ view'.id = view.id + 1
  <2>1. "" \in Filters /\ {} \in Listing
    BY ConsoleAssumption DEF Listing
  <2>2. PICK id \in Nat : id = view.id + 1
    <3>1. view.id \in Nat
      BY <1>i, ViewTypes
    <3> QED
      BY <3>1
  <2>3. PICK b \in BOOLEAN : b <=> name \in Lists
    OBVIOUS
  <2>4. view' = [name |-> name, id |-> id, page |-> 1, filter |-> "", list |-> {},
                 total |-> 0, loading |-> b, stats |-> None, chart |-> None]
    BY <1>1, <2>2, <2>3 DEF Blank
  <2>5. view' \in Views
    <3>1. name \in Pages /\ id \in Nat /\ 1 \in Nat /\ 0 \in Nat /\ b \in BOOLEAN
      BY <2>2, <2>3
    <3> QED
      BY <2>1, <2>4, <3>1 DEF Views
  <2>6. view'.name = name /\ view'.stats = None /\ view'.loading = b /\ view'.id = id
    BY <2>4
  <2> QED
    BY <2>2, <2>3, <2>5, <2>6
<1>3. /\ store' \in Stores /\ store'.stats = store.stats /\ store'.by = store.by
      /\ store'.loading => store.loading \/ name = "dashboard"
  BY <1>1, <1>i, ViewTypes DEF Stores
<1>4. Flights(left)
  <2>1. left \subseteq flight /\ left \subseteq Requests
    BY <1>i DEF TypeOK
  <2>2. IsFiniteSet(left) /\ Cardinality(left) <= Cardinality(flight)
    BY <1>i, <2>1, FS_Subset DEF TypeOK
  <2>3. Cardinality(left) \in Nat /\ Cardinality(flight) \in Nat
        /\ Cardinality(flight) <= MaxFlight
    BY <1>i, <2>2, FS_CardinalityType DEF TypeOK
  <2> HIDE DEF left
  <2> QED
    BY <2>1, <2>2, <2>3, SlotTypes DEF Flights
<1>5. TypeOK'
  <2>1. Flights(flight')
    BY <1>i, <1>1, <1>2, <1>4, RefreshSends
  <2> QED
    BY <1>i, <1>1, <1>2, <1>3, <2>1 DEF TypeOK, Flights, bounds
<1>6. /\ FlightInv' /\ left \subseteq flight'
      /\ name = "dashboard" => \E r \in flight' : r.kind = "dashboard" /\ r.by = view'.id
      /\ name # "dashboard" => \E r \in flight' : r.kind = "list" /\ r.by = view'.id
  <2>1. left \in SUBSET flight /\ \A r \in left : r.kind \in {"dashboard", "retry"}
    OBVIOUS
  <2> HIDE DEF left
  <2> QED
    BY <1>i, <1>1, <1>2, <1>4, <1>5, <2>1, RefreshRequests
<1>7. ReportInv'
  BY <1>2, <1>3 DEF IInv, PageInv, ReportInv, ReportsNearlyAdd, Cards, Total, Failed
<1>8. LoadingMeansWaiting'
  <2>1. view'.loading => \E r \in flight' : r.kind = "list" /\ r.by = view'.id
    BY <1>2, <1>6 DEF Lists
  <2>2. store'.loading => \E r \in flight' : r.kind = "dashboard"
    BY <1>3, <1>6 DEF IInv, PageInv, LoadingMeansWaiting
  <2> QED
    BY <2>1, <2>2 DEF LoadingMeansWaiting, Mounted
<1>9. ChartInv'
  BY <1>2, <1>6 DEF ChartInv, Mounted
<1> QED
  BY <1>5, <1>6, <1>7, <1>8, <1>9 DEF IInv, PageInv

\* The pager and the filter ask for another page of the list.
LEMMA LoadStep ==
  ASSUME IInv, NextPage \/ PrevPage \/ (\E f \in Filters : HandleFilter(f))
  PROVE  IInv'
<1>i. TypeOK /\ view \in Views
  BY DEF IInv, TypeOK
<1>0. /\ Click /\ view.name \in Lists
      /\ \E page \in Nat, f \in Filters : Load(page, f)
  <2>1. view.page \in Nat /\ view.filter \in Filters
    BY <1>i, ViewTypes
  <2>2. view.page + 1 \in Nat /\ (view.page > 1 => view.page - 1 \in Nat) /\ 1 \in Nat
    BY <2>1
  <2> QED
    BY <2>1, <2>2 DEF NextPage, PrevPage, HandleFilter, Click
<1>1. PICK page \in Nat, f \in Filters : Load(page, f)
  BY <1>0
<1>2. /\ view' = [view EXCEPT !.page = page, !.filter = f, !.loading = TRUE]
      /\ Room(flight, 1) /\ flight' = Send(flight, ListRequest(view'))
  BY <1>1 DEF Load
<1>3. UNCHANGED <<rows, store, inserts, faults>> /\ clicks' = clicks + 1
  BY <1>0 DEF Click
<1>4. /\ view' \in Views /\ view'.name = view.name /\ view'.id = view.id
      /\ view'.stats = view.stats /\ view'.chart = view.chart
  BY <1>i, <1>2 DEF Views
<1>5. PICK q : /\ Alike(q, ListRequest(view')) /\ flight' = flight \cup {q}
               /\ Flights(flight')
  <2>1. Flights(flight) /\ ListRequest(view') \in Requests
    BY <1>0, <1>i, <1>4, RequestTypes DEF TypeOK, Flights
  <2> QED
    BY <1>2, <2>1, Sends
<1>6. TypeOK'
  BY <1>i, <1>3, <1>4, <1>5 DEF TypeOK, Flights
<1>7. q.kind = "list" /\ q.by = view'.id
  BY <1>5, RequestFields DEF Alike
<1>8. FlightInv'
  <2>1. \A p \in {q} : OK(p)'
    BY <1>i, <1>3, <1>5, <1>6, NewRequest
  <2>2. Grown
    BY <1>i, <1>3, StillRows
  <2> QED
    BY <1>4, <1>5, <2>1, <2>2, FlightStep
<1>9. ReportInv'
  BY <1>3, <1>4 DEF IInv, PageInv, ReportInv, ReportsNearlyAdd, Cards, Total, Failed
<1>10. LoadingMeansWaiting' /\ ChartInv'
  BY <1>0, <1>3, <1>4, <1>5, <1>7
     DEF IInv, PageInv, LoadingMeansWaiting, ChartInv, Mounted, Lists
<1> QED
  BY <1>6, <1>8, <1>9, <1>10 DEF IInv, PageInv

\* A click on Retry sends the number of a row.
LEMMA RetryStep ==
  ASSUME IInv, Retry
  PROVE  IInv'
<1>i. TypeOK /\ view \in Views
  BY DEF IInv, TypeOK
<1>1. PICK row \in view.list : flight' = Send(flight, RetryRequest(view, row[1]))
  BY DEF Retry
<1>2. /\ UNCHANGED <<rows, store, inserts, faults, view>> /\ clicks' = clicks + 1 /\ Room(flight, 1)
      /\ view.name = "executions"
  BY DEF Retry, Click
<1>3. row[1] \in Nat
  BY <1>i, ViewTypes DEF Listing
<1>4. PICK q : /\ Alike(q, RetryRequest(view, row[1])) /\ flight' = flight \cup {q}
               /\ Flights(flight')
  <2>1. Flights(flight) /\ RetryRequest(view, row[1]) \in Requests
    BY <1>i, <1>3, RequestTypes DEF TypeOK, Flights
  <2> QED
    BY <1>1, <1>2, <2>1, Sends
<1>5. TypeOK'
  BY <1>i, <1>2, <1>4 DEF TypeOK, Flights
<1>6. FlightInv'
  <2>1. \A p \in {q} : OK(p)'
    BY <1>i, <1>2, <1>4, <1>5, NewRequest
  <2>2. Grown
    BY <1>i, <1>2, StillRows
  <2> QED
    BY <1>2, <1>4, <2>1, <2>2, FlightStep
<1>7. ReportInv'
  BY <1>2 DEF IInv, PageInv, ReportInv, ReportsNearlyAdd, Cards, Total, Failed
<1>8. LoadingMeansWaiting' /\ ChartInv'
  BY <1>2, <1>4 DEF IInv, PageInv, LoadingMeansWaiting, ChartInv, Mounted
<1> QED
  BY <1>5, <1>6, <1>7, <1>8 DEF IInv, PageInv

-----------------------------------------------------------------------------
(* Answers and failures *)

\* A request that is done goes.
LEMMA Drops ==
  ASSUME IInv, NEW r \in flight, UNCHANGED <<rows, inserts>>, clicks' \in Nat, faults' \in Nat,
         view' \in Views, view'.id = view.id, view'.name = view.name, store' \in Stores,
         flight' = flight \ {r}
  PROVE  TypeOK' /\ FlightInv'
<1>i. TypeOK /\ Grown
  BY StillRows DEF IInv
<1>1. TypeOK'
  <2>1. Flights(flight')
    BY <1>i, FlightTypes
  <2> QED
    BY <1>i, <2>1 DEF TypeOK, Flights
<1>2. FlightInv'
  <2>1. PICK new : new = {}
    OBVIOUS
  <2>2. PICK left \in SUBSET flight : left = flight \ {r}
    OBVIOUS
  <2>3. flight' = left \cup new /\ (\A q \in new : OK(q)')
    BY <2>1, <2>2
  <2> QED
    BY <1>i, <2>3, FlightStep
<1> QED
  BY <1>1, <1>2

\* A request that is done goes and its view sends another one.
LEMMA DropsAndSends ==
  ASSUME IInv, NEW r \in flight, UNCHANGED <<rows, inserts>>, clicks' \in Nat, faults' \in Nat,
         view' \in Views, view'.id = view.id, view'.name = view.name, store' \in Stores,
         NEW request, flight' = Send(flight \ {r}, request),
         \/ request = RecentRequest(view)
         \/ request = ListRequest(view) /\ view.name \in Lists
  PROVE  /\ TypeOK' /\ FlightInv' /\ flight \ {r} \subseteq flight'
         /\ \E q \in flight' : q.kind = request.kind /\ q.by = view.id
<1>i. TypeOK /\ view \in Views /\ Grown
  BY StillRows DEF IInv, TypeOK
<1>1. PICK left \in SUBSET flight : left = flight \ {r}
  OBVIOUS
<1>2. Flights(left) /\ Room(left, 1)
  BY <1>i, <1>1, FlightTypes
<1>3. request \in Requests
  BY <1>i, RequestTypes
<1>4. PICK q : Alike(q, request) /\ flight' = left \cup {q} /\ Flights(flight')
  BY <1>1, <1>2, <1>3, Sends
<1>5. TypeOK'
  BY <1>i, <1>4 DEF TypeOK, Flights
<1>6. OK(q)'
  <2>1. Alike(q, RecentRequest(view)) \/ Alike(q, ListRequest(view))
    BY <1>4
  <2> QED
    BY <1>i, <1>5, <2>1, NewRequest
<1>7. FlightInv'
  <2>1. \A p \in {q} : OK(p)'
    BY <1>6
  <2> QED
    BY <1>i, <1>4, <2>1, FlightStep
<1>8. q.kind = request.kind /\ q.by = view.id
  <2>1. RecentRequest(view).by = view.id /\ ListRequest(view).by = view.id
    BY RequestFields
  <2>2. q.kind = request.kind /\ q.by = request.by
    BY <1>4 DEF Alike
  <2>3. request.by = view.id
    BY <2>1
  <2> QED
    BY <2>2, <2>3
<1> QED
  BY <1>1, <1>4, <1>5, <1>7, <1>8

LEMMA ListDoneStep ==
  ASSUME IInv, NEW r \in flight, NEW ok \in BOOLEAN, ok => r.todo = {}, faults' \in Nat,
         UNCHANGED <<rows, inserts, clicks>>, r.kind = "list", ListDone(r, ok, flight \ {r})
  PROVE  IInv'
<1>i. /\ TypeOK /\ r \in Requests /\ view \in Views /\ store \in Stores /\ clicks \in Nat
      /\ GotOK(r)
  BY DEF IInv, TypeOK, PageInv, FlightInv
<1>1. /\ flight' = flight \ {r} /\ store' = store
      /\ view' = IF ok THEN [view EXCEPT !.loading = FALSE,
                                       !.list = r.got["page"].data, !.total = r.got["page"].count]
                 ELSE [view EXCEPT !.loading = FALSE]
  BY DEF ListDone
<1>2. ok => r.got["page"].data \in Listing /\ r.got["page"].count \in Nat
  BY <1>i DEF GotOK, Found
<1>3. /\ view' \in Views /\ view'.name = view.name /\ view'.id = view.id
      /\ view'.stats = view.stats /\ view'.chart = view.chart /\ view'.loading = FALSE
  BY <1>i, <1>1, <1>2 DEF Views
<1>4. TypeOK' /\ FlightInv'
  BY <1>i, <1>1, <1>3, Drops
<1>5. ReportInv'
  BY <1>1, <1>3 DEF IInv, PageInv, ReportInv, ReportsNearlyAdd, Cards, Total, Failed
<1>6. LoadingMeansWaiting' /\ ChartInv'
  BY <1>1, <1>3 DEF IInv, PageInv, LoadingMeansWaiting, ChartInv, Mounted
<1> QED
  BY <1>4, <1>5, <1>6 DEF IInv, PageInv

\* A report is kept with how many rows came while it was made.
LEMMA ReportTypes ==
  ASSUME TypeOK, NEW r \in Requests
  PROVE  /\ Report(r) \in Reports
         /\ Report(r).count = r.got["count"] /\ Report(r).groups = r.got["groups"]
         /\ Report(r).failed = r.got["failed"]
         /\ Report(r).missed = Len(rows[r.of]) - r.since
<1>1. r.of \in Lists /\ r.got \in [Queries -> Results] /\ r.since \in Nat
  BY DEF Requests
<1>2. PICK missed \in Int : missed = Len(rows[r.of]) - r.since
  BY <1>1, RowTypes
<1>3. r.got["count"] \in Results /\ r.got["groups"] \in Results /\ r.got["failed"] \in Results
  BY <1>1 DEF Queries
<1> QED
  BY <1>2, <1>3 DEF Report, Reports

\* Two numbers between before and now differ by no more than came in between.
LEMMA Margins ==
  ASSUME NEW before \in Nat, NEW after \in Nat, NEW missed, missed = after - before,
         NEW count, count \in before .. after
  PROVE  /\ \A parts \in before .. after : count - parts \in (-missed) .. missed
         /\ \A part \in 0 .. after : count - part >= -missed
  OBVIOUS

LEMMA SummaryDoneStep ==
  ASSUME IInv, NEW r \in flight, NEW ok \in BOOLEAN, ok => r.todo = {}, faults' \in Nat,
         UNCHANGED <<rows, inserts, clicks>>, r.kind = "summary", SummaryDone(r, ok, flight \ {r})
  PROVE  IInv'
<1>i. /\ TypeOK /\ r \in Requests /\ view \in Views /\ store \in Stores /\ clicks \in Nat
      /\ GotOK(r) /\ SentOK(r)
  BY DEF IInv, TypeOK, PageInv, FlightInv
<1>1. PICK report : report = Report(r)
  OBVIOUS
<1>2. /\ report \in Reports /\ report.count = r.got["count"]
      /\ report.groups = r.got["groups"] /\ report.missed = Len(rows[r.of]) - r.since
  BY <1>i, <1>1, ReportTypes
<1>3. /\ flight' = flight \ {r} /\ store' = store
      /\ view' = IF ok THEN [view EXCEPT !.stats = report] ELSE view
  BY <1>1 DEF SummaryDone
<1>4. /\ view' \in Views /\ view'.name = view.name /\ view'.id = view.id
      /\ view'.chart = view.chart /\ view'.loading = view.loading
      /\ view'.stats = IF ok THEN report ELSE view.stats
  BY <1>i, <1>2, <1>3 DEF Views
<1>5. TypeOK' /\ FlightInv'
  BY <1>i, <1>3, <1>4, Drops
<1>6. ReportInv'
  <2>1. store'.stats # None =>
           store'.stats.count - store'.stats.failed >= -store'.stats.missed
    BY <1>3 DEF IInv, PageInv, ReportInv, ReportsNearlyAdd, Cards, Total, Failed
  <2>2. CASE ok
    <3>1. r.of = view.name /\ r.of \in Lists /\ r.since \in Nat /\ Len(rows[r.of]) \in Nat
          /\ r.since <= Len(rows[r.of])
      BY <1>i, RowTypes DEF SentOK, Requests
    <3>2. CountOK(r, r.got["count"]) /\ CountOK(r, Parts(r.of, r.got["groups"]))
      BY <1>i, <2>2 DEF GotOK
    <3>3. report.count - Parts(view.name, report.groups) \in (-report.missed)..report.missed
      <4>1. /\ report.count \in r.since .. Len(rows[r.of])
            /\ Parts(view.name, report.groups) \in r.since .. Len(rows[r.of])
        BY <1>2, <3>1, <3>2 DEF CountOK
      <4> QED
        BY <1>2, <3>1, <4>1, Margins
    <3> QED
      BY <1>4, <2>1, <2>2, <3>1, <3>3 DEF ReportInv, ReportsNearlyAdd, Cards, Total, Failed
  <2>3. CASE ~ok
    BY <1>3, <2>3 DEF IInv, PageInv, ReportInv, ReportsNearlyAdd, Cards, Total, Failed
  <2> QED
    BY <2>2, <2>3
<1>7. LoadingMeansWaiting' /\ ChartInv'
  BY <1>3, <1>4 DEF IInv, PageInv, LoadingMeansWaiting, ChartInv, Mounted
<1> QED
  BY <1>5, <1>6, <1>7 DEF IInv, PageInv

LEMMA DashboardDoneStep ==
  ASSUME IInv, NEW r \in flight, NEW ok \in BOOLEAN, ok => r.todo = {}, faults' \in Nat,
         UNCHANGED <<rows, inserts, clicks>>, r.kind = "dashboard", DashboardDone(r, ok, flight \ {r})
  PROVE  IInv'
<1>i. /\ TypeOK /\ r \in Requests /\ view \in Views /\ store \in Stores /\ clicks \in Nat
      /\ GotOK(r) /\ SentOK(r)
  BY DEF IInv, TypeOK, PageInv, FlightInv
<1>1. PICK report : report = Report(r)
  OBVIOUS
<1>2. /\ report \in Reports /\ report.count = r.got["count"]
      /\ report.failed = r.got["failed"] /\ report.missed = Len(rows[r.of]) - r.since
  BY <1>i, <1>1, ReportTypes
<1>3. /\ view' = view
      /\ store' = IF ok THEN [stats |-> report, loading |-> FALSE, by |-> r.by]
                  ELSE [store EXCEPT !.loading = FALSE]
      /\ flight' = IF Mounted(r) THEN Send(flight \ {r}, RecentRequest(view)) ELSE flight \ {r}
  BY <1>1 DEF DashboardDone
<1>4. /\ store' \in Stores /\ store'.loading = FALSE
      /\ store'.stats = IF ok THEN report ELSE store.stats
      /\ store'.by = IF ok THEN r.by ELSE store.by
  <2>1. r.by \in Nat
    BY <1>i DEF Requests
  <2>2. ok => report \in Counted
    <3>1. r.of \in Lists /\ r.since \in Nat /\ Len(rows[r.of]) \in Nat
      BY <1>i, RowTypes DEF Requests
    <3>2. ok => /\ r.got["count"] \in r.since .. Len(rows[r.of])
                /\ r.got["failed"] \in 0 .. Len(rows[r.of])
      BY <1>i DEF GotOK, CountOK
    <3> QED
      BY <1>2, <3>1, <3>2 DEF Counted
  <2> QED
    BY <1>i, <1>2, <1>3, <2>1, <2>2 DEF Stores
<1>5. /\ TypeOK' /\ FlightInv' /\ flight \ {r} \subseteq flight'
      /\ Mounted(r) => \E q \in flight' : q.kind = "recent" /\ q.by = view.id
  <2>1. CASE Mounted(r)
    <3>1. view' = view /\ flight' = Send(flight \ {r}, RecentRequest(view))
      BY <1>3, <2>1
    <3>2. RecentRequest(view).kind = "recent"
      BY RequestFields
    <3>3. TypeOK' /\ FlightInv' /\ flight \ {r} \subseteq flight'
          /\ \E q \in flight' : q.kind = RecentRequest(view).kind /\ q.by = view.id
      BY <1>i, <1>4, <3>1, DropsAndSends
    <3> QED
      BY <3>2, <3>3
  <2>2. CASE ~Mounted(r)
    BY <1>i, <1>3, <1>4, <2>2, Drops
  <2> QED
    BY <2>1, <2>2
<1>6. ReportInv'
  <2>1. CASE ok
    <3>1. r.of \in Lists /\ r.since \in Nat /\ Len(rows[r.of]) \in Nat
      BY <1>i, RowTypes DEF Requests
    <3>2. CountOK(r, r.got["count"]) /\ r.got["failed"] \in 0 .. Len(rows[r.of])
      BY <1>i, <2>1 DEF GotOK
    <3>3. report.count - report.failed >= -report.missed
      <4>1. /\ report.count \in r.since .. Len(rows[r.of])
            /\ report.failed \in 0 .. Len(rows[r.of])
        BY <1>2, <3>2 DEF CountOK
      <4> QED
        BY <1>2, <3>1, <4>1, Margins
    <3> QED
      BY <1>3, <1>4, <2>1, <3>3 DEF IInv, PageInv, ReportInv, ReportsNearlyAdd, Cards, Total, Failed
  <2>2. CASE ~ok
    BY <1>3, <1>4, <2>2 DEF IInv, PageInv, ReportInv, ReportsNearlyAdd, Cards, Total, Failed
  <2> QED
    BY <2>1, <2>2
<1>7. LoadingMeansWaiting'
  <2>1. view.loading => \E q \in flight \ {r} : q.kind = "list" /\ q.by = view.id
    BY DEF IInv, PageInv, LoadingMeansWaiting, Mounted
  <2> QED
    BY <1>3, <1>4, <1>5, <2>1 DEF LoadingMeansWaiting, Mounted
<1>8. ChartInv'
  <2>1. CASE Mounted(r)
    BY <1>3, <1>5, <2>1 DEF ChartInv, Mounted
  <2>2. CASE ~Mounted(r) /\ ok
    <3>1. store'.by \in Nat /\ store'.by # view'.id
      BY <1>i, <1>3, <1>4, <2>2 DEF Requests, Mounted
    <3> QED
      BY <3>1, ConsoleAssumption DEF ChartInv
  <2>3. CASE ~Mounted(r) /\ ~ok
    BY <1>3, <1>4, <1>5, <2>3 DEF IInv, PageInv, ChartInv, Mounted
  <2> QED
    BY <2>1, <2>2, <2>3
<1> QED
  BY <1>5, <1>6, <1>7, <1>8 DEF IInv, PageInv

\* The chart of any statistics the store may hold.
LEMMA ChartTypes ==
  ASSUME NEW stats \in Counted \cup {None}
  PROVE  ChartOf(stats) \in Charts
<1>1. Total(stats) \in Nat /\ Failed(stats) \in Nat
  BY DEF Total, Failed, Counted
<1>2. PICK total \in Nat : total = IF Total(stats) = 0 THEN 1 ELSE Total(stats)
  BY <1>1
<1>3. ChartOf(stats) = [successful |-> total - Failed(stats), failed |-> Failed(stats)]
  BY <1>2 DEF ChartOf
<1>4. total - Failed(stats) \in Int /\ Failed(stats) \in Int
  BY <1>1
<1> QED
  BY <1>3, <1>4 DEF Charts

LEMMA RecentDoneStep ==
  ASSUME IInv, NEW r \in flight, NEW ok \in BOOLEAN, ok => r.todo = {}, faults' \in Nat,
         UNCHANGED <<rows, inserts, clicks>>, r.kind = "recent", RecentDone(r, ok, flight \ {r})
  PROVE  IInv'
<1>i. /\ TypeOK /\ r \in Requests /\ view \in Views /\ store \in Stores /\ clicks \in Nat
      /\ GotOK(r)
  BY DEF IInv, TypeOK, PageInv, FlightInv
<1>1. /\ flight' = flight \ {r} /\ store' = store
      /\ view' = IF ok THEN [view EXCEPT !.list = r.got["page"].data, !.chart = ChartOf(store.stats)]
                 ELSE [view EXCEPT !.chart = ChartOf(store.stats)]
  BY DEF RecentDone
<1>2. (ok => r.got["page"].data \in Listing) /\ ChartOf(store.stats) \in Charts
  BY <1>i, ViewTypes, ChartTypes DEF GotOK, Found
<1>3. /\ view' \in Views /\ view'.name = view.name /\ view'.id = view.id
      /\ view'.stats = view.stats /\ view'.chart = ChartOf(store.stats) /\ view'.loading = view.loading
  BY <1>i, <1>1, <1>2 DEF Views
<1>4. TypeOK' /\ FlightInv'
  BY <1>i, <1>1, <1>3, Drops
<1>5. ReportInv'
  BY <1>1, <1>3 DEF IInv, PageInv, ReportInv, ReportsNearlyAdd, Cards, Total, Failed
<1>6. LoadingMeansWaiting' /\ ChartInv'
  BY <1>1, <1>3 DEF IInv, PageInv, LoadingMeansWaiting, ChartInv, Mounted
<1> QED
  BY <1>4, <1>5, <1>6 DEF IInv, PageInv

LEMMA RetryDoneStep ==
  ASSUME IInv, NEW r \in flight, NEW ok \in BOOLEAN, faults' \in Nat,
         UNCHANGED <<rows, inserts, clicks>>, r.kind = "retry", RetryDone(r, ok, flight \ {r})
  PROVE  IInv'
<1>i. /\ TypeOK /\ r \in Requests /\ view \in Views /\ store \in Stores /\ clicks \in Nat
      /\ SentOK(r)
  BY DEF IInv, TypeOK, PageInv, FlightInv
<1>s. store' = store
  BY DEF RetryDone
<1>1. CASE ok /\ Mounted(r)
  <2>1. view' = [view EXCEPT !.loading = TRUE] /\ flight' = Send(flight \ {r}, ListRequest(view))
    BY <1>1 DEF RetryDone
  <2>2. /\ view' \in Views /\ view'.name = view.name /\ view'.id = view.id
        /\ view'.stats = view.stats /\ view'.chart = view.chart
    BY <1>i, <2>1 DEF Views
  <2>3. view.name \in Lists
    BY <1>1, <1>i DEF SentOK, Lists
  <2>4. /\ TypeOK' /\ FlightInv' /\ flight \ {r} \subseteq flight'
        /\ \E q \in flight' : q.kind = "list" /\ q.by = view.id
    <3>1. ListRequest(view).kind = "list"
      BY RequestFields
    <3>2. TypeOK' /\ FlightInv' /\ flight \ {r} \subseteq flight'
          /\ \E q \in flight' : q.kind = ListRequest(view).kind /\ q.by = view.id
      BY <1>i, <1>s, <2>1, <2>2, <2>3, DropsAndSends
    <3> QED
      BY <3>1, <3>2
  <2>5. ReportInv'
    BY <1>s, <2>2 DEF IInv, PageInv, ReportInv, ReportsNearlyAdd, Cards, Total, Failed
  <2>6. LoadingMeansWaiting'
    <3>1. store.loading => \E q \in flight \ {r} : q.kind = "dashboard"
      BY DEF IInv, PageInv, LoadingMeansWaiting
    <3> QED
      BY <1>s, <2>2, <2>4, <3>1 DEF LoadingMeansWaiting, Mounted
  <2>7. ChartInv'
    BY <2>2, <2>3 DEF ChartInv, Lists
  <2> QED
    BY <2>4, <2>5, <2>6, <2>7 DEF IInv, PageInv
<1>2. CASE ~(ok /\ Mounted(r))
  <2>1. view' = view /\ flight' = flight \ {r}
    BY <1>2 DEF RetryDone
  <2>2. TypeOK' /\ FlightInv'
    BY <1>i, <1>s, <2>1, Drops
  <2>3. ReportInv'
    BY <1>s, <2>1 DEF IInv, PageInv, ReportInv, ReportsNearlyAdd, Cards, Total, Failed
  <2>4. LoadingMeansWaiting' /\ ChartInv'
    BY <1>s, <2>1 DEF IInv, PageInv, LoadingMeansWaiting, ChartInv, Mounted
  <2> QED
    BY <2>2, <2>3, <2>4 DEF IInv, PageInv
<1> QED
  BY <1>1, <1>2

\* An answer comes when every query has run, a failure at any time.
LEMMA ServeStep ==
  ASSUME IInv, NEW r \in flight, Serve(r) \/ Lose(r)
  PROVE  IInv'
<1>1. ASSUME NEW ok \in BOOLEAN, ok => r.todo = {}, faults' \in Nat, Done(r, ok)
      PROVE  IInv'
  <2>1. UNCHANGED <<rows, inserts, clicks>>
    BY <1>1 DEF Done
  <2>2. CASE r.kind = "list" /\ ListDone(r, ok, flight \ {r})
    BY <1>1, <2>1, <2>2, ListDoneStep
  <2>3. CASE r.kind = "summary" /\ SummaryDone(r, ok, flight \ {r})
    BY <1>1, <2>1, <2>3, SummaryDoneStep
  <2>4. CASE r.kind = "dashboard" /\ DashboardDone(r, ok, flight \ {r})
    BY <1>1, <2>1, <2>4, DashboardDoneStep
  <2>5. CASE r.kind = "recent" /\ RecentDone(r, ok, flight \ {r})
    BY <1>1, <2>1, <2>5, RecentDoneStep
  <2>6. CASE r.kind = "retry" /\ RetryDone(r, ok, flight \ {r})
    BY <1>1, <2>1, <2>6, RetryDoneStep
  <2> QED
    BY <1>1, <2>2, <2>3, <2>4, <2>5, <2>6 DEF Done
<1>f. faults \in Nat
  BY DEF IInv, TypeOK
<1>2. CASE Answer(r)
  BY <1>1, <1>2, <1>f DEF Answer
<1>3. CASE Refuse(r)
  BY <1>1, <1>3, <1>f DEF Refuse
<1>4. CASE Lose(r)
  <2>1. Done(r, FALSE) /\ faults' = faults + 1
    BY <1>4 DEF Lose
  <2>2. faults' \in Nat
    BY <1>f, <2>1
  <2> QED
    BY <1>1, <2>1, <2>2
<1>5. CASE Query(r)
  BY <1>5, QueryStep
<1> QED
  BY <1>2, <1>3, <1>4, <1>5 DEF Serve

-----------------------------------------------------------------------------
(* The invariant *)

\* The chart of the store's statistics shows what the cards show, and one more
\* success if that is nothing.
LEMMA ChartMeans ==
  ASSUME TypeOK, ChartInv
  PROVE  ChartFollowsStats
<1> SUFFICES ASSUME view.name = "dashboard", store.by \in {None, view.id},
                    ~\E r \in flight : r.kind \in {"dashboard", "recent"} /\ Mounted(r)
             PROVE  view.chart = [Cards EXCEPT !.successful =
                                     IF Total(store.stats) = 0 THEN @ + 1 ELSE @]
  BY DEF ChartFollowsStats
<1>1. view.chart = ChartOf(store.stats)
  BY DEF ChartInv
<1>2. Total(store.stats) \in Nat /\ Failed(store.stats) \in Nat
  BY ViewTypes DEF Total, Failed, Counted
<1> QED
  BY <1>1, <1>2 DEF ChartOf, Cards

LEMMA InitInv ==
  ASSUME Init
  PROVE  IInv
<1>1. /\ rows \in {[l \in Lists |-> <<>>],
                   [l \in Lists |-> IF l = "events" THEN <<"MATCHED">> ELSE <<"FAILED">>]}
      /\ view = Blank("dashboard", 1) /\ flight = RefreshOf(view, {})
      /\ store = [stats |-> None, loading |-> TRUE, by |-> None]
      /\ inserts = 0 /\ clicks = 0 /\ faults = 0
  BY DEF Init
<1>2. /\ rows \in [Lists -> Seq(AllStatuses)]
      /\ \A l \in Lists : \A n \in 1..Len(rows[l]) : rows[l][n] \in Statuses(l)
  <2>1. \/ rows["events"] = <<>> /\ rows["executions"] = <<>>
        \/ rows["events"] = <<"MATCHED">> /\ rows["executions"] = <<"FAILED">>
    BY <1>1 DEF Lists
  <2>2. /\ <<>> \in Seq(AllStatuses)
        /\ <<"MATCHED">> \in Seq(AllStatuses) /\ <<"FAILED">> \in Seq(AllStatuses)
    BY DEF AllStatuses
  <2>3. rows \in [Lists -> Seq(AllStatuses)]
    BY <1>1, <2>2 DEF Lists
  <2>4. \A l \in Lists : \A n \in 1..Len(rows[l]) : rows[l][n] \in Statuses(l)
    BY <2>1 DEF Lists, Statuses, Settled
  <2> QED
    BY <2>3, <2>4
<1>3. /\ view \in Views /\ view.name = "dashboard" /\ view.id = 1 /\ view.loading = FALSE
      /\ view.stats = None
  <2>1. "" \in Filters /\ {} \in Listing
    BY ConsoleAssumption DEF Listing
  <2>2. PICK b \in BOOLEAN : b <=> "dashboard" \in Lists
    OBVIOUS
  <2>3. view = [name |-> "dashboard", id |-> 1, page |-> 1, filter |-> "", list |-> {},
                 total |-> 0, loading |-> b, stats |-> None, chart |-> None]
    BY <1>1, <2>2 DEF Blank
  <2>4. b = FALSE
    BY <2>2 DEF Lists
  <2> QED
    BY <2>1, <2>3, <2>4 DEF Views, Pages
<1>4. store \in Stores /\ store.stats = None
  BY <1>1 DEF Stores
<1>5. flight = Send({}, DashboardRequest(view))
  BY <1>1, <1>3 DEF RefreshOf
<1>6. DashboardRequest(view) \in Requests
  <2>1. "" \in Filters /\ 1 \in Slots
    BY ConsoleAssumption, SlotTypes
  <2>2. [query \in Queries |-> None] \in [Queries -> Results]
    BY DEF Results
  <2>3. PICK since \in Nat : since = Len(rows["executions"])
    BY <1>2 DEF Lists
  <2>4. PICK got \in [Queries -> Results] : got = [query \in Queries |-> None]
    BY <2>2
  <2>5. DashboardRequest(view) =
           [kind |-> "dashboard", of |-> "executions", by |-> view.id, page |-> 1,
            filter |-> "", slot |-> 1, todo |-> {"count", "failed"}, got |-> got,
            since |-> since]
    BY <2>3, <2>4 DEF DashboardRequest, Request
  <2>6. view.id \in Nat /\ 1 \in Nat
    BY <1>3
  <2>7. PICK todo \in SUBSET Queries : todo = {"count", "failed"}
    BY DEF Queries
  <2>8. DashboardRequest(view) =
           [kind |-> "dashboard", of |-> "executions", by |-> view.id, page |-> 1,
            filter |-> "", slot |-> 1, todo |-> todo, got |-> got, since |-> since]
    BY <2>5, <2>7
  <2>9. "dashboard" \in Kinds /\ "executions" \in Lists
    BY DEF Kinds, Lists
  <2>10. [kind |-> "dashboard", of |-> "executions", by |-> view.id, page |-> 1,
            filter |-> "", slot |-> 1, todo |-> todo, got |-> got, since |-> since] \in Requests
    <3>1. since \in Nat /\ got \in [Queries -> Results] /\ todo \in SUBSET Queries
      OBVIOUS
    <3> QED
      BY <2>1, <2>6, <2>9, <3>1 DEF Requests
  <2> QED
    BY <2>8, <2>10
<1>7. Flights({}) /\ Room({}, 1)
  BY FS_EmptySet, SlotTypes DEF Flights, Room
<1>8. PICK q : Alike(q, DashboardRequest(view)) /\ flight = {q} /\ Flights(flight)
  <2>1. \E q : Alike(q, DashboardRequest(view)) /\ flight = {} \cup {q}
    BY <1>5, <1>6, <1>7, Sends
  <2>2. Flights(flight)
    BY <1>5, <1>6, <1>7, Sends
  <2> QED
    BY <2>1, <2>2
<1>9. TypeOK
  BY <1>1, <1>2, <1>3, <1>4, <1>8 DEF TypeOK, Flights
<1>10. /\ q.kind = "dashboard" /\ q.of = "executions" /\ q.by = 1
       /\ q.todo = {"count", "failed"} /\ q.since = DashboardRequest(view).since
  <2>1. /\ DashboardRequest(view).kind = "dashboard"
        /\ DashboardRequest(view).of = "executions" /\ DashboardRequest(view).by = view.id
        /\ DashboardRequest(view).todo = {"count", "failed"}
    BY RequestFields
  <2> QED
    BY <1>3, <1>8, <2>1 DEF Alike
<1>11. DashboardRequest(view).since = Len(rows["executions"]) /\ Len(rows["executions"]) \in Nat
  BY <1>9, RequestFields, RowTypes DEF Lists
<1>12. FlightInv
  BY <1>3, <1>8, <1>10, <1>11 DEF FlightInv, GotOK, SentOK, Mounted
<1>13. ReportInv /\ LoadingMeansWaiting /\ ChartInv
  BY <1>3, <1>4, <1>8, <1>10
     DEF ReportInv, ReportsNearlyAdd, LoadingMeansWaiting, ChartInv, Mounted
<1> QED
  BY <1>9, <1>12, <1>13 DEF IInv, PageInv

LEMMA NextInv ==
  ASSUME IInv, [Next]_vars
  PROVE  IInv'
<1>1. ASSUME NEW l \in Lists, Insert(l) \/ Finish(l)
      PROVE  IInv'
  BY <1>1, PipelineStep
<1>2. ASSUME NEW r \in flight, Serve(r) \/ Lose(r)
      PROVE  IInv'
  BY <1>2, ServeStep
<1>3. CASE Refresh
  BY <1>3, RefreshStep
<1>4. CASE NextPage \/ PrevPage \/ (\E f \in Filters : HandleFilter(f))
  BY <1>4, LoadStep
<1>5. CASE Retry
  BY <1>5, RetryStep
<1>6. ASSUME NEW name \in Pages, Visit(name)
      PROVE  IInv'
  BY <1>6, VisitStep
<1>7. CASE UNCHANGED vars
  BY <1>7 DEF vars, bounds, IInv, PageInv, TypeOK, FlightInv, GotOK, CountOK, SentOK, Mounted,
              ReportInv, ReportsNearlyAdd, Cards, Total, Failed, LoadingMeansWaiting,
              ChartInv
<1> QED
  BY <1>1, <1>2, <1>3, <1>4, <1>5, <1>6, <1>7 DEF Next

\* Of every request on its way it is known what its queries have found so far,
\* between which numbers of rows, and whose it is; with that the properties of
\* the pages are preserved by every step.
THEOREM ConsoleInductive == Spec => []IInv
<1>1. Init => IInv
  BY InitInv
<1>2. IInv /\ [Next]_vars => IInv'
  BY NextInv
<1> QED
  BY <1>1, <1>2, PTL DEF Spec

\* Every variable keeps its type, and no table holds a status of the other.
THEOREM ConsoleTyped == Spec => []TypeOK
<1>1. IInv => TypeOK
  BY DEF IInv
<1> QED
  BY <1>1, ConsoleInductive, PTL

\* loading of a page and of the store are reset by every end of every request,
\* in the order in which views, timers and answers interleave.
THEOREM LoadingEnds == Spec => []LoadingMeansWaiting
<1>1. IInv => LoadingMeansWaiting
  BY DEF IInv, PageInv
<1> QED
  BY <1>1, ConsoleInductive, PTL

\* The counts of getEventStats, getStats and getDashboardStats disagree by no
\* more rows than were inserted while the report was made.
THEOREM ReportsAgree == Spec => []ReportsNearlyAdd
<1>1. IInv => ReportsNearlyAdd
  BY DEF IInv, PageInv, ReportInv
<1> QED
  BY <1>1, ConsoleInductive, PTL

\* refreshData ends with the chart showing what the cards show, unless the
\* refresh of an earlier visit wrote the store since.
THEOREM ChartIsOfTheCards == Spec => []ChartFollowsStats
<1>1. IInv => ChartFollowsStats
  BY ChartMeans DEF IInv, PageInv
<1> QED
  BY <1>1, ConsoleInductive, PTL
=============================================================================
