---------------------------- MODULE StoreQueries ----------------------------
(***************************************************************************)
(* What is read from the tables of module StoreRows (store/query/): the    *)
(* request log with its filters and pages, statistics per tool, the usage  *)
(* of tools the server lists, and the counts "mcpr store" prints.          *)
(*                                                                         *)
(* Each operator is one SELECT: it sees one state.  What a call is for is  *)
(* a function of its id here.  No query has an effect.                     *)
(***************************************************************************)
EXTENDS StoreRows

CONSTANT ToolOf   \* ToolOf[text]: the item a call with this id is of, or None

ASSUME QueriesAssumption ==
  /\ \A i \in Ids : Text[i] \in DOMAIN ToolOf /\ ToolOf[Text[i]] \in Items \cup {None}
  /\ None \notin Items

-----------------------------------------------------------------------------
(* The request_log view is a LEFT JOIN: a request with each response of    *)
(* its key, or alone.  Every response row there is says "ok".              *)
RequestLog ==
  UNION {IF Answers(r) = {} THEN {[request |-> r, response |-> None]}
         ELSE {[request |-> r, response |-> q] : q \in Answers(r)} : r \in requests}

Status(l) == IF l.response = None THEN "pending" ELSE "ok"
LatencyUs(l) == (l.response.ts - l.request.ts) * 1000
Label(l) == ToolOf[l.request.id]

(* The WHERE clause the queries share; None is no filter. *)
Matching(f) ==
  {l \in RequestLog : /\ f.proxy \in {None, l.request.proxy}
                      /\ f.tool \in {None, Label(l)}
                      /\ f.status \in {None, Status(l)}
                      /\ f.session \in {None, l.request.session}}

NoFilter == [proxy |-> None, tool |-> None, status |-> None, session |-> None]

Since(rows, ts) == {l \in rows : l.request.ts >= ts}

(* ORDER BY ... LIMIT: a page may leave out only what comes later in the   *)
(* order; ties are broken as SQLite likes.                                 *)
IsPage(page, rows, limit, Before(_, _)) ==
  /\ page \subseteq rows
  /\ Cardinality(page) = IF Cardinality(rows) < limit THEN Cardinality(rows) ELSE limit
  /\ \A l \in page, m \in rows \ page : ~Before(m, l)

Newer(l, m) == l.request.ts > m.request.ts
IsLogs(page, f, since, limit) == IsPage(page, Since(Matching(f), since), limit, Newer)
LogsSince(f, after) == Since(Matching(f), after + 1)

(* A NULL latency is above no threshold. *)
AboveThreshold(f, threshold) ==
  {l \in Matching(f) : l.response # None /\ LatencyUs(l) >= threshold}
Slower(l, m) == LatencyUs(l) > LatencyUs(m)
IsSlow(page, f, threshold, since, limit) ==
  IsPage(page, Since(AboveThreshold(f, threshold), since), limit, Slower)
SlowSince(f, threshold, after) == Since(AboveThreshold(f, threshold), after + 1)

(* sessions_view: a session's end is the last time it was heard of.        *)
SessionView(s) ==
  [session |-> s, proxy |-> sessions[s].proxy, lastSeen |-> sessions[s].last,
   ended |-> IF sessions[s].state = "closed" THEN sessions[s].last ELSE None]

(* session_detail: a session's row and, from a second SELECT, its calls.   *)
Detail(s) == IF sessions[s] = None THEN None
             ELSE [row |-> SessionView(s),
                   requests |-> {l \in RequestLog : l.request.session = s}]

-----------------------------------------------------------------------------
(* stats: a row per label, with the nearest-rank percentile.  The latency  *)
(* of a pending request is NULL, which is no number: the query fails.      *)
Percentile(rows, pct) ==
  LET upTo(v) == Cardinality({l \in rows : LatencyUs(l) <= v})
      enough(v) == 100 * upTo(v) >= pct * Cardinality(rows)
      values == {LatencyUs(l) : l \in rows}
  IN  CHOOSE v \in values : enough(v) /\ \A w \in values : enough(w) => v <= w

Stats(p, since) ==
  LET rows == Since(Matching([NoFilter EXCEPT !.proxy = p]), since)
      group(t) == {l \in rows : Label(l) = t}
  IN  IF \E l \in rows : l.response = None THEN None
      ELSE [t \in {Label(l) : l \in rows} |->
              [calls |-> Cardinality(group(t)), p95 |-> Percentile(group(t), 95)]]

TotalCalls(stats) ==
  LET labels == SetToSeq(DOMAIN stats)
      sum[n \in 0 .. Len(labels)] ==
        IF n = 0 THEN 0 ELSE sum[n - 1] + stats[labels[n]].calls
  IN  sum[Len(labels)]

(* schema, schema_changes, schema_status, schema_unused.                   *)
Schema(p) == {k \in Keys : items[k] # None /\ p \in {None, k[1]}}
ChangesOf(p) == {c \in Keys \X (1 .. MaxEvents) :
                   c[2] <= Len(changes[c[1]]) /\ p \in {None, c[1][1]}}
ItemsCaptured == {k[2] : k \in Schema(None)}

Usage(p, since) ==
  [t \in {k[2] : k \in Schema(p)} |->
     LET calls == Since(Matching([NoFilter EXCEPT !.proxy = p, !.tool = t]), since)
     IN  [calls |-> Cardinality(calls), last |-> {l.request.ts : l \in calls}]]

(* store_stats. *)
StoreStats == [requests |-> Cardinality(requests),
               sessions |-> Cardinality({s \in Sessions : sessions[s] # None}),
               stamps |-> {r.ts : r \in requests},
               proxies |-> Cardinality({r.proxy : r \in requests})]

(* The dry run of a vacuum: each count is a query over what is there now.  *)
(* The deviation is one a careless edit could introduce.                   *)
CountRequestsUpTo(before, p) ==
  Cardinality({r \in requests : r.ts <= before /\ p \in {r.proxy, AllProxies}})

CountMatchingRequests(before, p) ==
  Cardinality({r \in requests : r.ts < before /\ p \in {r.proxy, AllProxies}})
CountOrphanedSessions(before) == Cardinality({s \in Sessions : Orphaned(s, before)})

-----------------------------------------------------------------------------
(* The view has one row for every request, whatever keys were used twice.  *)
OneRowEach == Cardinality(RequestLog) = StoreStats.requests

(* No statistic counts a call twice or misses one: where there are         *)
(* statistics, their calls add up to what "mcpr store stats" prints        *)
(* (stats.rs:118 against store_ops.rs:75), and a tool that the schema      *)
(* lists was called as often as they say (query/schema.rs:228).            *)
LogCountsOnce ==
  LET stats == Stats(None, 0)
      usage == Usage(None, 0)
  IN  /\ OneRowEach
      /\ stats # None =>
           /\ TotalCalls(stats) = StoreStats.requests
           /\ \A t \in ItemsCaptured :
                usage[t].calls = IF t \in DOMAIN stats THEN stats[t].calls ELSE 0

(* The number of requests a dry run announces is the number a vacuum run   *)
(* in its place deletes; of sessions it announces no more than go          *)
(* (store_ops.rs:112), for it counts before the requests are deleted.      *)
DryRunForetells ==
  [][\A before \in 2 .. MaxEvents + 1, p \in Proxies \cup {AllProxies} :
       vacuum = None /\ vacuum' = [before |-> before, proxy |-> p] =>
         /\ Cardinality(requests) - Cardinality(requests') = CountMatchingRequests(before, p)
         /\ CountOrphanedSessions(before) <= CountOrphanedSessions(before)']_vars
=============================================================================
