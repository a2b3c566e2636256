----------------------------- MODULE StoreRows -----------------------------
(***************************************************************************)
(* The tables of the request store: what the writer makes of the events    *)
(* (store/writer.rs), what the unique keys and upserts of store/schema.rs  *)
(* do to it, how the request_log view reads it back, and the vacuum of     *)
(* store/query/store_ops.rs.  Every gateway of a machine writes into one   *)
(* database, each under the name of its proxy; vacuum is another process.  *)
(*                                                                         *)
(* now is the time stamp of the last event: it counts events.  exchanges,  *)
(* latest and torn are history variables: the code keeps none of them.     *)
(***************************************************************************)
EXTENDS Naturals, FiniteSets, Sequences, SequencesExt

CONSTANTS Proxies,    \* gateways that share the database
          Sessions,   \* session ids
          Ids,        \* JSON-RPC ids
          Text,       \* Text[i]: the id as the tables keep it
          Batches,    \* the ids a request may carry, in order
          Delays,     \* how long an upstream may take
          Items,      \* items of an upstream's lists, by kind and key
          Hashes,     \* what an item's payload may hash to
          NoSession,  \* no mcp-session-id header: NULL in the tables
          None,       \* no row, no hash, no vacuum
          AllProxies, \* a vacuum that is not scoped to a proxy
          MaxFailures, \* bound on the statements SQLite fails
          MaxEvents,  \* bound on the events ever written
          MaxWork,    \* bound on them, exchanges counted twice
          MaxVacuums    \* bound on the vacuums

ASSUME RowsAssumption ==
  /\ DOMAIN Text = Ids
  /\ Batches \subseteq Seq(Ids) \ {<<>>}
  /\ Delays \subseteq Nat
  /\ NoSession \notin Sessions
  /\ None \notin Hashes
  /\ None \notin [proxy : Proxies, state : {"active", "closed"}, last : Nat]
  /\ None \notin [before : Nat, proxy : Proxies \cup {AllProxies}]
  /\ AllProxies \notin Proxies
  /\ MaxFailures \in Nat
  /\ MaxEvents \in Nat
  /\ MaxWork \in Nat
  /\ MaxVacuums \in Nat

VARIABLES now,
          requests,   \* the table of requests
          responses,  \* the table of responses
          sessions,   \* sessions[s]: its row in the table of sessions
          items,      \* items[k]: the hash schema_items has for item k
          changes,    \* changes[k]: the rows schema_changes has for item k
          vacuum,     \* the vacuum between its two deletions
          vacuums,    \* how many vacuums were begun
          exchanges,  \* the exchanges the writer was handed
          latest,     \* latest[k]: the hash of the last event about item k
          torn        \* items of which a log row failed, or the read of the old hash

logVars == <<requests, responses, exchanges>>
schemaVars == <<items, changes, latest, torn>>
vacuumVars == <<vacuum, vacuums>>
vars == <<now, logVars, sessions, schemaVars, vacuumVars>>

Keys == Proxies \X Items

Init == /\ now = 0
        /\ requests = {} /\ responses = {} /\ exchanges = {}
        /\ sessions = [s \in Sessions |-> None]
        /\ items = [k \in Keys |-> None]
        /\ changes = [k \in Keys |-> <<>>]
        /\ latest = [k \in Keys |-> None]
        /\ torn = {}
        /\ vacuum = None /\ vacuums = 0

(* Events so far, an exchange counted twice; for the bounds only. *)
Work == now + Cardinality(exchanges)

-----------------------------------------------------------------------------
(* Deviations a careless edit could introduce; not part of the             *)
(* specification.                                                          *)

(* The response row gets the request's session header. *)
ResponseRowsOfRequest(e, ids, ts) ==
  {[ts |-> ts, session |-> e.session, id |-> Text[i]] : i \in ids}

(* The keys are not unique. *)
InsertAlways(table, rows) == table \cup rows

(* The upsert comes before the hash it replaces is read. *)
WriteSchemaReadingLate(p) ==
  /\ now < MaxEvents
  /\ Work + 1 <= MaxWork
  /\ now' = now + 1
  /\ \E i \in Items, h \in Hashes :
       LET k == <<p, i>> IN
       /\ latest' = [latest EXCEPT ![k] = h]
       /\ items' = [items EXCEPT ![k] = h]
       /\ changes' = [changes EXCEPT ![k] = Append(@, [old |-> h, new |-> h])]
  /\ UNCHANGED <<torn, logVars, sessions, vacuumVars>>

(* The orphan test forgets the requests that remain. *)
OrphanedWhenOld(s, before) ==
  /\ sessions[s] # None
  /\ sessions[s].state = "closed"
  /\ sessions[s].last < before

-----------------------------------------------------------------------------
(* An exchange as the pipeline reports it: the ids asked for, those that   *)
(* came back with a result, and the session header on either side.  The    *)
(* writer takes both sides as they are: an upstream may answer ids nobody  *)
(* asked, under the header of any session, and send JSON-RPC to a plain    *)
(* HTTP request, which has no ids.  A side without rows has no use for its *)
(* header.                                                                 *)
ExchangesOf(p) ==
  {e \in [proxy : {p}, ids : Batches \cup {<<>>}, oks : SUBSET Ids, took : Delays,
          session : Sessions \cup {NoSession}, rsession : Sessions \cup {NoSession}] :
     /\ e.ids = <<>> => e.session = NoSession
     /\ e.oks = {} => e.rsession = NoSession}

(* INSERT OR IGNORE under UNIQUE (session_id, request_id).  SQLite's       *)
(* unique index takes any two NULLs to be different.                       *)
Insert(table, rows) ==
  table \cup {r \in rows :
                r.session # NoSession =>
                  \A q \in table : q.session = r.session => q.id # r.id}

RequestRows(e, ids, ts) ==
  {[ts |-> ts, proxy |-> e.proxy, session |-> e.session, id |-> Text[i]] : i \in ids}

ResponseRows(e, ids, ts) ==
  {[ts |-> ts, session |-> e.rsession, id |-> Text[i]] : i \in ids}

(* Statements that failed so far. *)
Failures == Cardinality({x \in exchanges : ~x.whole}) + Cardinality(torn)

(* write_transaction: the request rows, then the response rows, all with   *)
(* the one time stamp of the event.  A statement that fails ends it; what  *)
(* was written before is committed.                                        *)
WriteExchange(p) ==
  /\ now < MaxEvents
  /\ Work + 2 <= MaxWork
  /\ now' = now + 1
  /\ \E e \in ExchangesOf(p) :
       \E n \in 0 .. Len(e.ids), answered \in SUBSET e.oks :
         LET whole == n = Len(e.ids) /\ answered = e.oks IN
         /\ answered # {} => n = Len(e.ids)
         /\ whole \/ Failures < MaxFailures
         /\ requests' = Insert(requests, RequestRows(e, ToSet(SubSeq(e.ids, 1, n)), now'))
         /\ responses' = Insert(responses, ResponseRows(e, answered, now'))
         /\ exchanges' = exchanges \cup {[event |-> e, at |-> now', whole |-> whole]}
  /\ UNCHANGED <<sessions, schemaVars, vacuumVars>>

(* write_session: the upsert leaves the row's proxy as it was. *)
WriteSession(p) ==
  /\ now < MaxEvents
  /\ Work + 1 <= MaxWork
  /\ now' = now + 1
  /\ \E s \in Sessions, state \in {"active", "closed"} :
       sessions' = [sessions EXCEPT ![s] =
         [proxy |-> IF @ = None THEN p ELSE @.proxy, state |-> state, last |-> now']]
  /\ UNCHANGED <<logVars, schemaVars, vacuumVars>>

-----------------------------------------------------------------------------
(* write_schema_change.  The same hash again writes nothing; another one   *)
(* updates the item and then appends to the log, which may fail alone.  A  *)
(* read of the old hash that fails looks like an item not seen before.     *)
WriteSchema(p) ==
  /\ now < MaxEvents
  /\ Work + 1 <= MaxWork
  /\ now' = now + 1
  /\ \E i \in Items, h \in Hashes :
       LET k == <<p, i>> IN
       /\ latest' = [latest EXCEPT ![k] = h]
       /\ \E old \in {items[k], None} :
            /\ old # items[k] => Failures < MaxFailures
            /\ \/ /\ old = h
                  /\ UNCHANGED <<items, changes, torn>>
               \/ /\ old # h
                  /\ items' = [items EXCEPT ![k] = h]
                  /\ \/ /\ changes' = [changes EXCEPT ![k] =
                                         Append(@, [old |-> old, new |-> h])]
                        /\ torn' = torn \cup {x \in {k} : old # items[k]}
                     \/ /\ Failures < MaxFailures
                        /\ torn' = torn \cup {k}
                        /\ UNCHANGED changes
  /\ UNCHANGED <<logVars, sessions, vacuumVars>>

(* vacuum's first statement: old requests, of one proxy or of all. *)
VacuumRequests ==
  /\ vacuum = None
  /\ vacuums < MaxVacuums
  /\ vacuums' = vacuums + 1
  /\ \E before \in 2 .. now + 1, p \in Proxies \cup {AllProxies} :
       /\ requests' = {r \in requests :
                         ~(r.ts < before /\ p \in {r.proxy, AllProxies})}
       /\ vacuum' = [before |-> before, proxy |-> p]
  /\ UNCHANGED <<now, responses, exchanges, sessions, schemaVars>>

(* Sessions the second statement takes for orphans. *)
Orphaned(s, before) ==
  /\ sessions[s] # None
  /\ sessions[s].state = "closed"
  /\ sessions[s].last < before
  /\ \A r \in requests : r.session # s

VacuumSessions ==
  /\ vacuum # None
  /\ sessions' = [s \in Sessions |->
       IF Orphaned(s, vacuum.before) THEN None ELSE sessions[s]]
  /\ vacuum' = None
  /\ UNCHANGED <<now, vacuums, logVars, schemaVars>>

(* The first statement is committed whatever becomes of the second. *)
VacuumStops ==
  /\ vacuum # None
  /\ vacuum' = None
  /\ UNCHANGED <<now, vacuums, logVars, sessions, schemaVars>>

Next == \/ \E p \in Proxies : WriteExchange(p) \/ WriteSession(p) \/ WriteSchema(p)
        \/ VacuumRequests \/ VacuumSessions \/ VacuumStops

Spec == Init /\ [][Next]_vars

-----------------------------------------------------------------------------
(* The request_log view: a request with the responses it is joined to.     *)
(* NULL is not equal to NULL.                                              *)
Answers(r) == {q \in responses : /\ r.session # NoSession
                                 /\ q.session = r.session
                                 /\ q.id = r.id}

(* Who asked under the key of row r, and who had an answer for it. *)
Askers(r) == {x \in exchanges : /\ x.event.session = r.session
                                /\ \E i \in ToSet(x.event.ids) : Text[i] = r.id}
Answerers(r) == {x \in exchanges : /\ x.event.rsession = r.session
                                   /\ \E i \in x.event.oks : Text[i] = r.id}

RowsTypeOK ==
  /\ now \in 0 .. MaxEvents
  /\ \A r \in requests : /\ r.ts \in 1 .. now
                         /\ r.proxy \in Proxies
                         /\ r.session \in Sessions \cup {NoSession}
  /\ \A q \in responses : q.ts \in 1 .. now /\ q.session \in Sessions \cup {NoSession}
  /\ \A s \in Sessions : sessions[s] = None \/ sessions[s].last \in 1 .. now
  /\ items \in [Keys -> Hashes \cup {None}]
  /\ torn \subseteq Keys
  /\ vacuums \in 0 .. MaxVacuums
  /\ vacuum = None \/ vacuum.before \in 1 .. MaxEvents + 1

(* The log joins a request that names a session to the first answer that   *)
(* any exchange brought for its id in that session, and to that one alone, *)
(* however often the key was used, whatever was vacuumed and whichever     *)
(* statements failed; when there was none, it joins the request to none.   *)
AnswersPairUp ==
  \A r \in requests :
    r.session # NoSession =>
      LET written == {x \in Answerers(r) : x.whole} IN
      /\ written # {} => Answers(r) # {}
      /\ \A q \in Answers(r) :
           /\ Answers(r) = {q}
           /\ \E x \in Answerers(r) : x.at = q.ts
           /\ \A x \in written : q.ts <= x.at

(* For an item of which no statement failed, the change log is a chain     *)
(* without repetition from nothing to the hash that was seen last.         *)
ChangeLogExact ==
  \A k \in Keys \ torn :
    LET log == changes[k]
        n == Len(log)
    IN  /\ items[k] = latest[k]
        /\ latest[k] = IF n = 0 THEN None ELSE log[n].new
        /\ \A i \in 1 .. n :
             /\ log[i].new # log[i].old
             /\ log[i].old = IF i = 1 THEN None ELSE log[i - 1].new

(* A vacuum never takes the row of a session that is not closed or that    *)
(* still has requests in the log, those included that came in after it     *)
(* deleted the old ones.                                                   *)
VacuumSparesLogged ==
  [][\A s \in Sessions :
       sessions[s] # None /\ sessions'[s] = None =>
         /\ sessions[s].state = "closed"
         /\ \A r \in requests' : r.session # s]_vars

(* The join recovers the latency (schema.rs): not so, since both rows of   *)
(* an exchange carry the time stamp of the one event that reports it.      *)
LatencyRecovered ==
  \A r \in requests : \A q \in Answers(r) : \A x \in exchanges :
    Askers(r) \cup Answerers(r) = {x} => q.ts - r.ts = x.event.took
=============================================================================
