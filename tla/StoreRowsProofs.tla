-------------------------- MODULE StoreRowsProofs --------------------------
(***************************************************************************)
(* Proofs about the tables of the request store, for any gateways,         *)
(* sessions, ids, items and hashes, and however often statements fail:     *)
(* the types, the change log, the join of requests and responses, what     *)
(* vacuum leaves alone, and what the queries make of it all.               *)
(***************************************************************************)
EXTENDS StoreQueries, ListProofs, FunctionTheorems

(* What one row of the change log, of the sessions and of the history is. *)
Change == [old : Hashes \cup {None}, new : Hashes]
SessionRow == [proxy : Proxies, state : {"active", "closed"}, last : Nat]

TablesTyped ==
  /\ sessions \in [Sessions -> SessionRow \cup {None}]
  /\ changes \in [Keys -> Seq(Change)]
  /\ latest \in [Keys -> Hashes \cup {None}]
  /\ \A x \in exchanges : x.at \in 1 .. now

(* Every response row stems from the exchange of its time stamp. *)
ResponsesHaveSource ==
  \A q \in responses : \E x \in exchanges : \E i \in x.event.oks :
    q.session = x.event.rsession /\ q.id = Text[i] /\ q.ts = x.at

(* Every result of an exchange that was written whole has a row, unless    *)
(* its key had one before.                                                 *)
ResultsKept ==
  \A x \in exchanges : x.whole =>
    \A i \in x.event.oks :
      \E q \in responses : /\ q.session = x.event.rsession
                           /\ q.id = Text[i]
                           /\ q.ts <= x.at

(* The key of a response row that has a session is unique. *)
ResponsesUnique ==
  \A q1, q2 \in responses :
    q1.session # NoSession /\ q1.session = q2.session /\ q1.id = q2.id => q1 = q2

RowsInv == /\ RowsTypeOK
           /\ TablesTyped
           /\ ChangeLogExact
           /\ ResponsesHaveSource
           /\ ResultsKept
           /\ ResponsesUnique

-----------------------------------------------------------------------------
(* INSERT OR IGNORE keeps the table and adds some of the rows. *)
LEMMA InsertAdds ==
  ASSUME NEW table, NEW rows
  PROVE  /\ table \subseteq Insert(table, rows)
         /\ Insert(table, rows) \subseteq table \cup rows
BY DEF Insert

(* After it, every row that was to be added is in the table, or its key    *)
(* was there before.                                                       *)
LEMMA InsertHasKey ==
  ASSUME NEW table, NEW rows, NEW r \in rows
  PROVE  \E q \in Insert(table, rows) : /\ q = r \/ q \in table
                                        /\ q.session = r.session
                                        /\ q.id = r.id
<1>1. CASE r \in Insert(table, rows)
  BY <1>1
<1>2. CASE r \notin Insert(table, rows)
  <2>1. PICK q \in table : q.session = r.session /\ q.id = r.id
    BY <1>2 DEF Insert
  <2> QED BY <2>1, InsertAdds
<1> QED BY <1>1, <1>2

(* What an exchange asks for is a list of ids, the empty one for HTTP. *)
LEMMA AskedListed ==
  ASSUME RowsAssumption, NEW p, NEW e \in ExchangesOf(p)
  PROVE  e.ids \in Seq(Ids)
<1>1. e.ids \in Batches \/ e.ids = <<>>
  BY DEF ExchangesOf
<1>2. CASE e.ids \in Batches
  BY <1>2 DEF RowsAssumption
<1>3. CASE e.ids = <<>>
  BY <1>3
<1> QED BY <1>1, <1>2, <1>3

(* The empty tables satisfy the invariant. *)
LEMMA RowsInvInit == RowsAssumption /\ Init => RowsInv
<1> SUFFICES ASSUME RowsAssumption, Init PROVE RowsInv
  OBVIOUS
<1>1. RowsTypeOK
  BY DEF RowsAssumption, Init, RowsTypeOK
<1>2. TablesTyped
  BY DEF RowsAssumption, Init, TablesTyped
<1>3. ChangeLogExact
  BY DEF Init, ChangeLogExact
<1>4. ResponsesHaveSource /\ ResultsKept /\ ResponsesUnique
  BY DEF Init, ResponsesHaveSource, ResultsKept, ResponsesUnique
<1> QED BY <1>1, <1>2, <1>3, <1>4 DEF RowsInv

-----------------------------------------------------------------------------
(* An exchange adds rows under its own keys only. *)
LEMMA ExchangePreserves ==
  ASSUME RowsAssumption, RowsInv, NEW p \in Proxies, WriteExchange(p)
  PROVE  RowsInv'
<1> USE DEF RowsInv
<1>1. /\ now < MaxEvents
      /\ now' = now + 1
      /\ UNCHANGED <<sessions, schemaVars, vacuumVars>>
  BY DEF WriteExchange
<1> DEFINE Wrote(e, n, answered) ==
      LET whole == n = Len(e.ids) /\ answered = e.oks IN
      /\ requests' = Insert(requests, RequestRows(e, ToSet(SubSeq(e.ids, 1, n)), now'))
      /\ responses' = Insert(responses, ResponseRows(e, answered, now'))
      /\ exchanges' = exchanges \cup {[event |-> e, at |-> now', whole |-> whole]}
<1>16. PICK e \in ExchangesOf(p) :
        \E n \in 0 .. Len(e.ids), answered \in SUBSET e.oks : Wrote(e, n, answered)
  BY DEF WriteExchange
<1>17. PICK n \in 0 .. Len(e.ids) : \E answered \in SUBSET e.oks : Wrote(e, n, answered)
  BY <1>16
<1>2. PICK answered \in SUBSET e.oks : Wrote(e, n, answered)
  BY <1>17
<1> DEFINE whole == n = Len(e.ids) /\ answered = e.oks
           x0 == [event |-> e, at |-> now', whole |-> whole]
           asked == ToSet(SubSeq(e.ids, 1, n))
<1>3. /\ x0.event = e
      /\ x0.at = now'
      /\ x0.whole = whole
      /\ exchanges' = exchanges \cup {x0}
  BY <1>2
<1>4. /\ e.proxy = p
      /\ e.session \in Sessions \cup {NoSession}
      /\ e.rsession \in Sessions \cup {NoSession}
  BY DEF ExchangesOf
<1>6. now \in Nat /\ now' \in 1 .. MaxEvents /\ MaxEvents \in Nat
  BY <1>1 DEF RowsTypeOK, RowsAssumption
<1>7. /\ \A r \in RequestRows(e, asked, now') :
           r.ts = now' /\ r.proxy = p /\ r.session = e.session
      /\ \A q \in ResponseRows(e, answered, now') :
           q.ts = now' /\ q.session = e.rsession
  BY <1>4 DEF RequestRows, ResponseRows
<1>8. \A q \in ResponseRows(e, answered, now') : \E i \in answered : q.id = Text[i]
  BY DEF ResponseRows
<1>9. \A i \in answered : \E r \in ResponseRows(e, answered, now') :
        r.session = e.rsession /\ r.id = Text[i] /\ r.ts = now'
  <2> TAKE i \in answered
  <2> DEFINE r == [ts |-> now', session |-> e.rsession, id |-> Text[i]]
  <2>1. r \in ResponseRows(e, answered, now')
    BY DEF ResponseRows
  <2> QED BY <2>1
<1> HIDE DEF x0, whole, asked
<1>10. RowsTypeOK'
  <2>1. \A r \in requests' : /\ r.ts \in 1 .. now'
                             /\ r.proxy \in Proxies
                             /\ r.session \in Sessions \cup {NoSession}
    <3> SUFFICES ASSUME NEW r \in requests'
                 PROVE  /\ r.ts \in 1 .. now'
                        /\ r.proxy \in Proxies
                        /\ r.session \in Sessions \cup {NoSession}
      OBVIOUS
    <3>1. CASE r \in requests
      BY <3>1, <1>1, <1>6 DEF RowsTypeOK
    <3>2. CASE r \in RequestRows(e, asked, now')
      BY <3>2, <1>4, <1>6, <1>7
    <3> QED BY <3>1, <3>2, <1>2, InsertAdds DEF asked
  <2>2. \A q \in responses' : q.ts \in 1 .. now' /\ q.session \in Sessions \cup {NoSession}
    <3> SUFFICES ASSUME NEW q \in responses'
                 PROVE  q.ts \in 1 .. now' /\ q.session \in Sessions \cup {NoSession}
      OBVIOUS
    <3>1. CASE q \in responses
      BY <3>1, <1>1, <1>6 DEF RowsTypeOK
    <3>2. CASE q \in ResponseRows(e, answered, now')
      BY <3>2, <1>4, <1>6, <1>7
    <3> QED BY <3>1, <3>2, <1>2, InsertAdds
  <2>3. /\ \A s \in Sessions : sessions'[s] = None \/ sessions'[s].last \in 1 .. now'
        /\ items' \in [Keys -> Hashes \cup {None}]
        /\ torn' \subseteq Keys
        /\ vacuums' \in 0 .. MaxVacuums
        /\ vacuum' = None \/ vacuum'.before \in 1 .. MaxEvents + 1
    BY <1>1, <1>6 DEF RowsTypeOK, schemaVars, vacuumVars
  <2>4. now' \in 0 .. MaxEvents
    BY <1>6
  <2> QED BY <2>1, <2>2, <2>3, <2>4 DEF RowsTypeOK
<1>11. TablesTyped'
  <2>1. \A x \in exchanges' : x.at \in 1 .. now'
    BY <1>1, <1>3, <1>6 DEF TablesTyped
  <2> QED BY <2>1, <1>1 DEF TablesTyped, schemaVars
<1>12. ChangeLogExact'
  <2>1. items' = items /\ changes' = changes /\ latest' = latest /\ torn' = torn
    BY <1>1 DEF schemaVars
  <2> QED BY <2>1 DEF ChangeLogExact
<1>13. ResponsesHaveSource'
  <2> SUFFICES ASSUME NEW q \in responses'
               PROVE  \E x \in exchanges' : \E i \in x.event.oks :
                        q.session = x.event.rsession /\ q.id = Text[i] /\ q.ts = x.at
    BY DEF ResponsesHaveSource
  <2>1. CASE q \in responses
    BY <2>1, <1>3 DEF ResponsesHaveSource
  <2>2. CASE q \in ResponseRows(e, answered, now')
    BY <2>2, <1>3, <1>7, <1>8
  <2> QED BY <2>1, <2>2, <1>2, InsertAdds
<1>14. ResultsKept'
  <2> SUFFICES ASSUME NEW x \in exchanges', x.whole, NEW i \in x.event.oks
               PROVE  \E q \in responses' : /\ q.session = x.event.rsession
                                             /\ q.id = Text[i]
                                             /\ q.ts <= x.at
    BY DEF ResultsKept
  <2>1. CASE x \in exchanges
    <3>1. PICK q \in responses : q.session = x.event.rsession /\ q.id = Text[i] /\ q.ts <= x.at
      BY <2>1 DEF ResultsKept
    <3>2. q \in responses'
      BY <1>2, InsertAdds
    <3> QED BY <3>1, <3>2
  <2>2. CASE x = x0
    <3>1. i \in answered
      BY <2>2, <1>3 DEF whole
    <3>2. PICK r \in ResponseRows(e, answered, now') :
            r.session = e.rsession /\ r.id = Text[i] /\ r.ts = now'
      BY <3>1, <1>9
    <3>3. PICK q \in responses' : /\ q = r \/ q \in responses
                                  /\ q.session = r.session
                                  /\ q.id = r.id
      BY <1>2, InsertHasKey
    <3>4. q.ts <= now'
      BY <1>1, <1>6, <3>2, <3>3 DEF RowsTypeOK
    <3> QED BY <2>2, <1>3, <3>2, <3>3, <3>4
  <2> QED BY <2>1, <2>2, <1>3
<1>15. ResponsesUnique'
  <2> SUFFICES ASSUME NEW q1 \in responses', NEW q2 \in responses',
                      q1.session # NoSession, q1.session = q2.session, q1.id = q2.id
               PROVE  q1 = q2
    BY DEF ResponsesUnique
  <2> DEFINE rows == ResponseRows(e, answered, now')
  <2>1. \A q \in responses' : \/ q \in responses
                              \/ /\ q \in rows
                                 /\ q.session # NoSession =>
                                      \A r \in responses : r.session = q.session => r.id # q.id
    BY <1>2 DEF Insert
  <2>2. CASE q1 \in responses /\ q2 \in responses
    BY <2>2 DEF ResponsesUnique
  <2>3. CASE q1 \in rows /\ q2 \in rows
    BY <2>3 DEF ResponseRows
  <2> QED BY <2>1, <2>2, <2>3
<1> QED BY <1>10, <1>11, <1>12, <1>13, <1>14, <1>15

-----------------------------------------------------------------------------
(* The upsert of a session disturbs nothing but the sessions. *)
LEMMA SessionPreserves ==
  ASSUME RowsAssumption, RowsInv, NEW p \in Proxies, WriteSession(p)
  PROVE  RowsInv'
<1> USE DEF RowsInv
<1>1. PICK s \in Sessions, state \in {"active", "closed"} :
        sessions' = [sessions EXCEPT ![s] =
          [proxy |-> IF @ = None THEN p ELSE @.proxy, state |-> state, last |-> now']]
  BY DEF WriteSession
<1>2. /\ now < MaxEvents
      /\ now' = now + 1
      /\ UNCHANGED <<logVars, schemaVars, vacuumVars>>
  BY DEF WriteSession
<1>3. now \in Nat /\ now' \in 1 .. MaxEvents /\ MaxEvents \in Nat
  BY <1>2 DEF RowsTypeOK, RowsAssumption
<1>4. s \in Sessions /\ sessions \in [Sessions -> SessionRow \cup {None}]
  BY DEF TablesTyped
<1>5. sessions'[s] \in SessionRow /\ sessions'[s].last = now'
  BY <1>1, <1>3, <1>4 DEF SessionRow
<1>6. \A t \in Sessions \ {s} : sessions'[t] = sessions[t]
  BY <1>1, <1>4
<1>7. sessions' \in [Sessions -> SessionRow \cup {None}]
  BY <1>1, <1>3, <1>4, <1>5, <1>6
<1>8. RowsTypeOK'
  <2>1. \A t \in Sessions : sessions'[t] = None \/ sessions'[t].last \in 1 .. now'
    BY <1>2, <1>3, <1>5, <1>6 DEF RowsTypeOK
  <2>2. /\ \A r \in requests' : /\ r.ts \in 1 .. now'
                                /\ r.proxy \in Proxies
                                /\ r.session \in Sessions \cup {NoSession}
        /\ \A q \in responses' : q.ts \in 1 .. now' /\ q.session \in Sessions \cup {NoSession}
    BY <1>2, <1>3 DEF RowsTypeOK, logVars
  <2> QED BY <1>2, <1>3, <2>1, <2>2 DEF RowsTypeOK, schemaVars, vacuumVars
<1>9. TablesTyped'
  <2>1. \A x \in exchanges' : x.at \in 1 .. now'
    BY <1>2, <1>3 DEF TablesTyped, logVars
  <2> QED BY <1>2, <1>7, <2>1 DEF TablesTyped, schemaVars
<1>10. ChangeLogExact' /\ ResponsesHaveSource' /\ ResultsKept' /\ ResponsesUnique'
  BY <1>2 DEF ChangeLogExact, ResponsesHaveSource, ResultsKept, ResponsesUnique,
              logVars, schemaVars
<1> QED BY <1>8, <1>9, <1>10

(* A change of an item extends its log by one link, or tears it. *)
LEMMA SchemaPreserves ==
  ASSUME RowsAssumption, RowsInv, NEW p \in Proxies, WriteSchema(p)
  PROVE  RowsInv'
<1> USE DEF RowsInv
<1>1. /\ now < MaxEvents
      /\ now' = now + 1
      /\ UNCHANGED <<logVars, sessions, vacuumVars>>
  BY DEF WriteSchema
<1>2. now \in Nat /\ now' \in 1 .. MaxEvents /\ MaxEvents \in Nat
  BY <1>1 DEF RowsTypeOK, RowsAssumption
<1> DEFINE Changed(k, h, old) ==
      /\ latest' = [latest EXCEPT ![k] = h]
      /\ old \in {items[k], None}
      /\ \/ old = h /\ UNCHANGED <<items, changes, torn>>
         \/ /\ old # h
            /\ items' = [items EXCEPT ![k] = h]
            /\ \/ /\ changes' = [changes EXCEPT ![k] = Append(@, [old |-> old, new |-> h])]
                  /\ torn' = torn \cup {x \in {k} : old # items[k]}
               \/ torn' = torn \cup {k} /\ UNCHANGED changes
<1>3. PICK k \in Keys, h \in Hashes, old \in Hashes \cup {None} : Changed(k, h, old)
  <2>1. PICK i \in Items, h \in Hashes :
          \E old \in {items[<<p, i>>], None} : Changed(<<p, i>>, h, old)
    BY ZenonT(30) DEF WriteSchema
  <2>2. PICK old \in {items[<<p, i>>], None} : Changed(<<p, i>>, h, old)
    BY <2>1
  <2>3. <<p, i>> \in Keys
    BY DEF Keys
  <2>4. old \in Hashes \cup {None}
    BY <2>3 DEF RowsTypeOK
  <2> HIDE DEF Changed
  <2> QED BY <2>2, <2>3, <2>4
<1>4. /\ items \in [Keys -> Hashes \cup {None}]
      /\ latest \in [Keys -> Hashes \cup {None}]
      /\ changes \in [Keys -> Seq(Change)]
      /\ torn \subseteq Keys
      /\ None \notin Hashes
  BY DEF RowsTypeOK, TablesTyped, RowsAssumption
<1>5. /\ items' \in [Keys -> Hashes \cup {None}]
      /\ latest' \in [Keys -> Hashes \cup {None}]
      /\ torn' \subseteq Keys
  <2>1. latest' \in [Keys -> Hashes \cup {None}]
    BY <1>3, <1>4
  <2>2. items' \in [Keys -> Hashes \cup {None}]
    <3>1. CASE old = h
      BY <1>3, <1>4, <3>1
    <3>2. CASE old # h
      <4>1. items' = [items EXCEPT ![k] = h]
        BY <1>3, <3>2
      <4> QED BY <1>3, <1>4, <4>1
    <3> QED BY <3>1, <3>2
  <2>3. torn' \subseteq Keys
    <3>1. torn' \subseteq torn \cup {k}
      BY <1>3, <1>4
    <3> QED BY <1>3, <1>4, <3>1
  <2> QED BY <2>1, <2>2, <2>3
<1>6. changes' \in [Keys -> Seq(Change)]
  <2>1. [old |-> old, new |-> h] \in Change
    BY DEF Change
  <2>2. Append(changes[k], [old |-> old, new |-> h]) \in Seq(Change)
    BY <1>4, <2>1, AppendProperties
  <2> QED BY <1>3, <1>4, <2>2
<1>7. RowsTypeOK'
  <2>1. /\ \A r \in requests' : /\ r.ts \in 1 .. now'
                                /\ r.proxy \in Proxies
                                /\ r.session \in Sessions \cup {NoSession}
        /\ \A q \in responses' : q.ts \in 1 .. now' /\ q.session \in Sessions \cup {NoSession}
        /\ \A t \in Sessions : sessions'[t] = None \/ sessions'[t].last \in 1 .. now'
    BY <1>1, <1>2 DEF RowsTypeOK, logVars
  <2> QED BY <1>1, <1>2, <1>5, <2>1 DEF RowsTypeOK, vacuumVars
<1>8. TablesTyped'
  <2>1. \A x \in exchanges' : x.at \in 1 .. now'
    BY <1>1, <1>2 DEF TablesTyped, logVars
  <2> QED BY <1>1, <1>5, <1>6, <2>1 DEF TablesTyped
<1>9. ChangeLogExact'
  <2> DEFINE Chain(log, seen) ==
        /\ seen = IF Len(log) = 0 THEN None ELSE log[Len(log)].new
        /\ \A i \in 1 .. Len(log) :
             /\ log[i].new # log[i].old
             /\ log[i].old = IF i = 1 THEN None ELSE log[i - 1].new
  <2>1. \A j \in Keys \ torn : items[j] = latest[j] /\ Chain(changes[j], latest[j])
    BY DEF ChangeLogExact
  <2>2. SUFFICES ASSUME NEW j \in Keys \ torn'
                 PROVE  items'[j] = latest'[j] /\ Chain(changes'[j], latest'[j])
    BY DEF ChangeLogExact
  <2>3. j \notin torn
    BY <1>3, <2>2
  <2>4. CASE j # k
    <3>1. items'[j] = items[j] /\ latest'[j] = latest[j] /\ changes'[j] = changes[j]
      BY <1>3, <1>4, <2>2, <2>4
    <3> QED BY <2>1, <2>2, <2>3, <3>1
  <2>5. CASE j = k /\ old = h
    <3>1. items[k] = h
      BY <1>3, <1>4, <2>5
    <3>2. items'[j] = h /\ latest'[j] = h /\ latest[j] = h /\ changes'[j] = changes[j]
      BY <1>3, <1>4, <2>1, <2>3, <2>5, <3>1
    <3>3. Chain(changes[j], h)
      BY <2>1, <2>2, <2>3, <3>2
    <3> QED BY <3>2, <3>3
  <2>6. CASE j = k /\ old # h
    <3> DEFINE log == changes[k]
               row == [old |-> old, new |-> h]
    <3>1. /\ items' = [items EXCEPT ![k] = h]
          /\ changes' = [changes EXCEPT ![k] = Append(@, row)]
          /\ old = items[k]
      BY <1>3, <2>2, <2>6
    <3>2. items'[j] = h /\ latest'[j] = h /\ changes'[j] = Append(log, row)
      BY <1>3, <1>4, <2>6, <3>1
    <3>3. Chain(log, old)
      BY <2>1, <2>2, <2>3, <2>6, <3>1
    <3>4. log \in Seq(Change) /\ row \in Change
      BY <1>4 DEF Change
    <3>5. /\ Len(log) \in Nat
          /\ Len(Append(log, row)) = Len(log) + 1
          /\ Append(log, row)[Len(log) + 1] = row
          /\ \A i \in 1 .. Len(log) : Append(log, row)[i] = log[i]
      BY <3>4, AppendProperties, LenProperties
    <3>6. row.old = old /\ row.new = h
      OBVIOUS
    <3> HIDE DEF log, row
    <3>7. Chain(Append(log, row), h)
      BY <2>6, <3>3, <3>5, <3>6
    <3> QED BY <3>2, <3>7
  <2> QED BY <2>4, <2>5, <2>6
<1>10. ResponsesHaveSource' /\ ResultsKept' /\ ResponsesUnique'
  BY <1>1 DEF ResponsesHaveSource, ResultsKept, ResponsesUnique, logVars
<1> QED BY <1>7, <1>8, <1>9, <1>10

-----------------------------------------------------------------------------
(* A vacuum only takes rows away, and none of the responses. *)
LEMMA VacuumPreserves ==
  ASSUME RowsAssumption, RowsInv, VacuumRequests \/ VacuumSessions \/ VacuumStops
  PROVE  RowsInv'
<1> USE DEF RowsInv
<1>1. UNCHANGED <<now, responses, exchanges, schemaVars>>
  BY DEF VacuumRequests, VacuumSessions, VacuumStops, logVars
<1>2. requests' \subseteq requests
  BY DEF VacuumRequests, VacuumSessions, VacuumStops, logVars
<1>3. /\ sessions' \in [Sessions -> SessionRow \cup {None}]
      /\ \A s \in Sessions : sessions'[s] \in {sessions[s], None}
  BY DEF TablesTyped, VacuumRequests, VacuumSessions, VacuumStops
<1>4. now \in 0 .. MaxEvents /\ MaxEvents \in Nat /\ MaxVacuums \in Nat
  BY DEF RowsTypeOK, RowsAssumption
<1>5. vacuums' \in 0 .. MaxVacuums /\ (vacuum' = None \/ vacuum'.before \in 1 .. MaxEvents + 1)
  <2>1. CASE VacuumRequests
    <3>1. PICK before \in 2 .. now + 1, p \in Proxies \cup {AllProxies} :
            vacuum' = [before |-> before, proxy |-> p]
      BY <2>1 DEF VacuumRequests
    <3>2. vacuum'.before \in 1 .. MaxEvents + 1
      BY <1>4, <3>1
    <3>3. vacuums' \in 0 .. MaxVacuums
      BY <1>4, <2>1 DEF VacuumRequests, RowsTypeOK
    <3> QED BY <3>2, <3>3
  <2>2. CASE VacuumSessions \/ VacuumStops
    BY <2>2 DEF VacuumSessions, VacuumStops, RowsTypeOK
  <2> QED BY <2>1, <2>2
<1>6. RowsTypeOK'
  <2>1. /\ \A r \in requests' : /\ r.ts \in 1 .. now'
                                /\ r.proxy \in Proxies
                                /\ r.session \in Sessions \cup {NoSession}
        /\ \A q \in responses' : q.ts \in 1 .. now' /\ q.session \in Sessions \cup {NoSession}
    BY <1>1, <1>2 DEF RowsTypeOK
  <2>2. \A s \in Sessions : sessions'[s] = None \/ sessions'[s].last \in 1 .. now'
    BY <1>1, <1>3 DEF RowsTypeOK
  <2> QED BY <1>1, <1>5, <2>1, <2>2 DEF RowsTypeOK, schemaVars
<1>7. TablesTyped'
  BY <1>1, <1>3 DEF TablesTyped, schemaVars
<1>8. ChangeLogExact' /\ ResponsesHaveSource' /\ ResultsKept' /\ ResponsesUnique'
  BY <1>1 DEF ChangeLogExact, ResponsesHaveSource, ResultsKept, ResponsesUnique, schemaVars
<1> QED BY <1>6, <1>7, <1>8

(* A step that changes nothing. *)
LEMMA RowsStutter == ASSUME RowsInv, UNCHANGED vars PROVE RowsInv'
<1>1. RowsTypeOK'
  BY DEF RowsInv, RowsTypeOK, vars, logVars, schemaVars, vacuumVars
<1>2. TablesTyped'
  BY DEF RowsInv, TablesTyped, vars, logVars, schemaVars, vacuumVars
<1>3. ChangeLogExact' /\ ResponsesHaveSource' /\ ResultsKept' /\ ResponsesUnique'
  BY DEF RowsInv, ChangeLogExact, ResponsesHaveSource, ResultsKept, ResponsesUnique,
         vars, logVars, schemaVars, vacuumVars
<1> QED BY <1>1, <1>2, <1>3 DEF RowsInv

(* The inductive invariant holds in every reachable state. *)
THEOREM RowsInvariant == Spec => []RowsInv
<1>1. Init => RowsInv
  BY RowsInvInit, RowsAssumption
<1>2. RowsInv /\ [Next]_vars => RowsInv'
  <2> SUFFICES ASSUME RowsInv, [Next]_vars PROVE RowsInv'
    OBVIOUS
  <2>1. ASSUME NEW p \in Proxies, WriteExchange(p) PROVE RowsInv'
    BY <2>1, ExchangePreserves, RowsAssumption
  <2>2. ASSUME NEW p \in Proxies, WriteSession(p) PROVE RowsInv'
    BY <2>2, SessionPreserves, RowsAssumption
  <2>3. ASSUME NEW p \in Proxies, WriteSchema(p) PROVE RowsInv'
    BY <2>3, SchemaPreserves, RowsAssumption
  <2>4. CASE VacuumRequests \/ VacuumSessions \/ VacuumStops
    BY <2>4, VacuumPreserves, RowsAssumption
  <2>5. CASE UNCHANGED vars
    BY <2>5, RowsStutter
  <2> QED BY <2>1, <2>2, <2>3, <2>4, <2>5 DEF Next
<1> QED BY <1>1, <1>2, PTL DEF Spec

(* Type correctness, for every value of the constants. *)
THEOREM RowsTypeCorrect == Spec => []RowsTypeOK
<1>1. RowsInv => RowsTypeOK
  BY DEF RowsInv
<1> QED BY <1>1, RowsInvariant, PTL

(* write_schema_change: for every item of which no statement failed, the   *)
(* change log leads from nothing, by changes only, to the hash seen last.  *)
THEOREM RowsChangeLogExact == Spec => []ChangeLogExact
<1>1. RowsInv => ChangeLogExact
  BY DEF RowsInv
<1> QED BY <1>1, RowsInvariant, PTL

-----------------------------------------------------------------------------
(* The join of the request_log view: a request is joined to the first      *)
(* answer anyone brought for its key, to that one alone, and to none when  *)
(* there is none, whichever ids and sessions the upstreams answered.       *)
THEOREM RowsAnswersPairUp == Spec => []AnswersPairUp
<1>1. RowsInv => AnswersPairUp
  <2> SUFFICES ASSUME RowsInv, NEW r \in requests, r.session # NoSession
               PROVE  LET written == {x \in Answerers(r) : x.whole} IN
                      /\ written # {} => Answers(r) # {}
                      /\ \A q \in Answers(r) :
                           /\ Answers(r) = {q}
                           /\ \E x \in Answerers(r) : x.at = q.ts
                           /\ \A x \in written : q.ts <= x.at
    BY DEF AnswersPairUp
  <2>1. ASSUME NEW x \in Answerers(r), x.whole
        PROVE  \E q \in Answers(r) : q.ts <= x.at
    <3>1. PICK i \in x.event.oks : Text[i] = r.id
      BY DEF Answerers
    <3>2. x \in exchanges /\ x.event.rsession = r.session
      BY DEF Answerers
    <3>3. PICK q \in responses : q.session = x.event.rsession /\ q.id = Text[i] /\ q.ts <= x.at
      BY <2>1, <3>2 DEF RowsInv, ResultsKept
    <3> QED BY <3>1, <3>2, <3>3 DEF Answers
  <2>2. ASSUME NEW q \in Answers(r)
        PROVE  Answers(r) = {q} /\ \E x \in Answerers(r) : x.at = q.ts
    <3>1. q \in responses /\ q.session = r.session /\ q.id = r.id
      BY DEF Answers
    <3>2. \A p \in Answers(r) : p = q
      BY <3>1 DEF Answers, RowsInv, ResponsesUnique
    <3>3. PICK x \in exchanges : \E i \in x.event.oks :
            q.session = x.event.rsession /\ q.id = Text[i] /\ q.ts = x.at
      BY <3>1 DEF RowsInv, ResponsesHaveSource
    <3>4. x \in Answerers(r)
      BY <3>1, <3>3 DEF Answerers
    <3> QED BY <3>2, <3>3, <3>4
  <2> QED BY <2>1, <2>2
<1> QED BY <1>1, RowsInvariant, PTL

(* QueryEngine::vacuum never takes the row of a session that is not closed *)
(* or still has requests, whatever was written between its two statements. *)
THEOREM RowsVacuumSpares == Spec => VacuumSparesLogged
<1> DEFINE Spared == \A s \in Sessions :
             sessions[s] # None /\ sessions'[s] = None =>
               /\ sessions[s].state = "closed"
               /\ \A r \in requests' : r.session # s
<1>1. RowsInv /\ [Next]_vars => [Spared]_vars
  <2> SUFFICES ASSUME RowsInv, Next, NEW s \in Sessions,
                      sessions[s] # None, sessions'[s] = None
               PROVE  /\ sessions[s].state = "closed"
                      /\ \A r \in requests' : r.session # s
    OBVIOUS
  <2>1. ASSUME NEW p \in Proxies, WriteSession(p) PROVE FALSE
    <3>1. PICK t \in Sessions, state \in {"active", "closed"} :
            sessions' = [sessions EXCEPT ![t] =
              [proxy |-> IF @ = None THEN p ELSE @.proxy, state |-> state, last |-> now']]
      BY <2>1 DEF WriteSession
    <3>2. t \in Sessions /\ sessions \in [Sessions -> SessionRow \cup {None}] /\ now' \in Nat
      BY <2>1 DEF WriteSession, RowsInv, TablesTyped, RowsTypeOK
    <3>3. s # t => sessions'[s] = sessions[s]
      BY <3>1, <3>2
    <3>4. sessions'[t] \in SessionRow
      BY <3>1, <3>2 DEF SessionRow
    <3> QED BY <3>3, <3>4, RowsAssumption DEF SessionRow
  <2>2. CASE VacuumSessions
    BY <2>2 DEF VacuumSessions, Orphaned, logVars
  <2>3. ASSUME NEW p \in Proxies, WriteExchange(p) \/ WriteSchema(p) PROVE FALSE
    BY <2>3 DEF WriteExchange, WriteSchema
  <2>4. CASE VacuumRequests \/ VacuumStops
    BY <2>4 DEF VacuumRequests, VacuumStops
  <2> QED BY <2>1, <2>2, <2>3, <2>4 DEF Next
<1> QED BY <1>1, RowsInvariant, PTL DEF Spec, VacuumSparesLogged

-----------------------------------------------------------------------------
(* What is read from the tables, whatever the writers and a vacuum do to   *)
(* them.  Queries count, so that the tables must be known to be finite; no *)
(* bound on sessions, ids or items is assumed.                             *)
KnownSessions == {s \in Sessions : sessions[s] # None}

Finite == IsFiniteSet(requests) /\ IsFiniteSet(KnownSessions)

-----------------------------------------------------------------------------
(* An exchange asks for finitely many ids. *)
LEMMA RowsOfExchangeFinite ==
  ASSUME NEW e, NEW ids \in Seq(Ids), NEW ts
  PROVE  IsFiniteSet(RequestRows(e, ToSet(ids), ts))
<1> DEFINE Row(i) == [ts |-> ts, proxy |-> e.proxy, session |-> e.session, id |-> Text[i]]
           rows == RequestRows(e, ToSet(ids), ts)
           f == [j \in 1 .. Len(ids) |-> Row(ids[j])]
<1>1. Len(ids) \in Nat /\ DOMAIN ids = 1 .. Len(ids)
  BY LenProperties
<1>2. rows = {Row(i) : i \in ToSet(ids)} /\ ToSet(ids) = {ids[j] : j \in 1 .. Len(ids)}
  BY <1>1 DEF RequestRows, ToSet
<1> HIDE DEF Row, rows
<1>3. f \in [1 .. Len(ids) -> rows]
  BY <1>1, <1>2
<1>4. \A r \in rows : \E j \in 1 .. Len(ids) : f[j] = r
  BY <1>2
<1>5. f \in Surjection(1 .. Len(ids), rows)
  BY <1>3, <1>4 DEF Surjection
<1>6. IsFiniteSet(1 .. Len(ids))
  BY <1>1, FS_Interval
<1> HIDE DEF f
<1>7. IsFiniteSet(rows)
  BY <1>5, <1>6, FS_Surjection
<1> QED BY <1>7 DEF rows

LEMMA FiniteInit == Init => Finite
<1> SUFFICES ASSUME Init PROVE Finite
  OBVIOUS
<1>1. requests = {} /\ KnownSessions = {}
  BY DEF Init, KnownSessions
<1> QED BY <1>1, FS_EmptySet DEF Finite

LEMMA FiniteNext == RowsInv /\ Finite /\ [Next]_vars => Finite'
<1> SUFFICES ASSUME RowsInv, Finite, [Next]_vars
             PROVE  IsFiniteSet(requests') /\ IsFiniteSet(KnownSessions')
  BY DEF Finite
<1>1. ASSUME NEW p \in Proxies, WriteExchange(p)
      PROVE  IsFiniteSet(requests') /\ IsFiniteSet(KnownSessions')
  <2>0. PICK e \in ExchangesOf(p) : \E n \in 0 .. Len(e.ids) :
          requests' = Insert(requests, RequestRows(e, ToSet(SubSeq(e.ids, 1, n)), now'))
    BY <1>1 DEF WriteExchange
  <2>1. PICK n \in 0 .. Len(e.ids) :
          requests' = Insert(requests, RequestRows(e, ToSet(SubSeq(e.ids, 1, n)), now'))
    BY <2>0
  <2>2. e.ids \in Seq(Ids)
    BY RowsAssumption, AskedListed
  <2>3. SubSeq(e.ids, 1, n) \in Seq(Ids)
    BY <2>2, LenProperties
  <2> DEFINE rows == RequestRows(e, ToSet(SubSeq(e.ids, 1, n)), now')
  <2>4. IsFiniteSet(rows)
    BY <2>3, RowsOfExchangeFinite
  <2>5. requests' = Insert(requests, rows)
    BY <2>1
  <2> HIDE DEF rows
  <2>6. IsFiniteSet(requests \cup rows) /\ requests' \subseteq requests \cup rows
    BY <2>4, <2>5, FS_Union, InsertAdds DEF Finite
  <2>7. KnownSessions' = KnownSessions
    BY <1>1 DEF WriteExchange, KnownSessions
  <2> QED BY <2>6, <2>7, FS_Subset DEF Finite
<1>2. ASSUME NEW p \in Proxies, WriteSession(p)
      PROVE  IsFiniteSet(requests') /\ IsFiniteSet(KnownSessions')
  <2>1. PICK s \in Sessions, state \in {"active", "closed"} :
          sessions' = [sessions EXCEPT ![s] =
            [proxy |-> IF @ = None THEN p ELSE @.proxy, state |-> state, last |-> now']]
    BY <1>2 DEF WriteSession
  <2>2. \A t \in Sessions : t # s => sessions'[t] = sessions[t]
    BY <2>1 DEF RowsInv, TablesTyped
  <2>3. KnownSessions' \subseteq KnownSessions \cup {s}
    BY <2>2 DEF KnownSessions
  <2>4. IsFiniteSet(KnownSessions \cup {s}) /\ requests' = requests
    BY <1>2, FS_AddElement DEF Finite, WriteSession, logVars
  <2> QED BY <2>3, <2>4, FS_Subset DEF Finite
<1>3. CASE VacuumRequests
  <2>1. requests' \subseteq requests /\ KnownSessions' = KnownSessions
    BY <1>3 DEF VacuumRequests, KnownSessions
  <2> QED BY <2>1, FS_Subset DEF Finite
<1>4. CASE VacuumSessions
  <2>1. \A s \in Sessions : sessions'[s] = None \/ sessions'[s] = sessions[s]
    BY <1>4 DEF VacuumSessions
  <2>2. KnownSessions' \subseteq KnownSessions /\ requests' = requests
    BY <1>4, <2>1 DEF VacuumSessions, KnownSessions, logVars
  <2> QED BY <2>2, FS_Subset DEF Finite
<1>5. CASE \/ \E p \in Proxies : WriteSchema(p)
           \/ VacuumStops
           \/ UNCHANGED vars
  <2>1. requests' = requests /\ sessions' = sessions
    BY <1>5 DEF WriteSchema, VacuumStops, vars, logVars
  <2> QED BY <2>1 DEF Finite, KnownSessions
<1> QED BY <1>1, <1>2, <1>3, <1>4, <1>5 DEF Next

LEMMA QueriesInvariant == Spec => [](RowsInv /\ Finite)
BY FiniteInit, FiniteNext, RowsInvariant, PTL DEF Spec

-----------------------------------------------------------------------------
(* LEFT JOIN in request_log: since the key of a response with a session is *)
(* unique, and NULL joins nothing, the join repeats no request.            *)
LEMMA LogRows ==
  ASSUME RowsInv, Finite
  PROVE  IsFiniteSet(RequestLog) /\ OneRowEach
<1> DEFINE answer(r) == IF Answers(r) = {} THEN None ELSE CHOOSE q \in Answers(r) : TRUE
           row(r) == [request |-> r, response |-> answer(r)]
           rowsOf(r) == IF Answers(r) = {} THEN {[request |-> r, response |-> None]}
                        ELSE {[request |-> r, response |-> q] : q \in Answers(r)}
           f == [r \in requests |-> row(r)]
<1>1. ASSUME NEW r \in requests
      PROVE  rowsOf(r) = {row(r)}
  <2>1. CASE Answers(r) = {}
    BY <2>1
  <2>2. CASE Answers(r) # {}
    <3>1. answer(r) \in Answers(r)
      BY <2>2
    <3>2. \A q \in Answers(r) : q = answer(r)
      BY <3>1 DEF Answers, RowsInv, ResponsesUnique
    <3>3. Answers(r) = {answer(r)}
      BY <3>1, <3>2
    <3> HIDE DEF answer
    <3> QED BY <2>2, <3>3
  <2> QED BY <2>1, <2>2
<1>2. RequestLog = UNION {rowsOf(r) : r \in requests}
  BY DEF RequestLog
<1> HIDE DEF rowsOf
<1>3. RequestLog = {row(r) : r \in requests}
  BY <1>1, <1>2
<1>4. \A r \in requests : row(r).request = r
  OBVIOUS
<1> HIDE DEF row
<1>5. f \in [requests -> RequestLog]
  BY <1>3
<1>6. \A r1, r2 \in requests : f[r1] = f[r2] => r1 = r2
  BY <1>4
<1>7. \A l \in RequestLog : \E r \in requests : f[r] = l
  BY <1>3
<1> HIDE DEF f
<1>8. f \in Bijection(requests, RequestLog)
  BY <1>5, <1>6, <1>7 DEF Bijection, Injection, Surjection, IsInjective
<1>9. IsFiniteSet(RequestLog) /\ Cardinality(RequestLog) = Cardinality(requests)
  BY <1>8, FS_Bijection DEF Finite, ExistsBijection
<1> QED BY <1>9 DEF OneRowEach, StoreStats

(* The request_log view has one row for every request, whatever keys were  *)
(* used twice, however often statements failed and whatever was vacuumed.  *)
THEOREM QueriesOneRowEach == Spec => []OneRowEach
BY LogRows, QueriesInvariant, PTL

-----------------------------------------------------------------------------
(* A set listed: every element once. *)
LEMMA SetListed ==
  ASSUME NEW S, IsFiniteSet(S)
  PROVE  /\ SetToSeq(S) \in Seq(S)
         /\ \A i, j \in 1 .. Len(SetToSeq(S)) : SetToSeq(S)[i] = SetToSeq(S)[j] => i = j
         /\ \A x \in S : \E i \in 1 .. Len(SetToSeq(S)) : SetToSeq(S)[i] = x
<1> DEFINE n == Cardinality(S)
           s == SetToSeq(S)
<1>1. n \in Nat /\ IsFiniteSet(1 .. n) /\ Cardinality(1 .. n) = n
  BY FS_CardinalityType, UpToFinite
<1>2. PICK g \in [1 .. n -> S] : IsInjective(g)
  <2>1. ExistsBijection(1 .. n, S)
    BY FS_CardinalityType
  <2> QED BY <2>1 DEF ExistsBijection, Bijection, Injection
<1>3. s \in [1 .. n -> S] /\ IsInjective(s)
  BY <1>2 DEF SetToSeq
<1> HIDE DEF s, n
<1>4. s \in Seq(S) /\ Len(s) = n /\ DOMAIN s = 1 .. n
  BY <1>1, <1>3, FunctionIsList
<1>5. \A i, j \in 1 .. n : s[i] = s[j] => i = j
  BY <1>3, <1>4 DEF IsInjective
<1>6. s \in Surjection(1 .. n, S)
  <2>1. s \in Injection(1 .. n, S)
    BY <1>3 DEF Injection
  <2>2. Cardinality(1 .. n) = Cardinality(S)
    BY <1>1 DEF n
  <2> QED BY <1>1, <2>1, <2>2, FS_Injection
<1>7. \A x \in S : \E i \in 1 .. n : s[i] = x
  BY <1>6 DEF Surjection
<1> QED BY <1>4, <1>5, <1>7 DEF s

(* What the recursion of TotalCalls does, step by step. *)
LEMMA TotalUnfolds ==
  ASSUME NEW stats, IsFiniteSet(DOMAIN stats), \A t \in DOMAIN stats : stats[t].calls \in Nat
  PROVE  \E f : /\ f[0] = 0
                /\ \A n \in 1 .. Len(SetToSeq(DOMAIN stats)) :
                     f[n] = f[n - 1] + stats[SetToSeq(DOMAIN stats)[n]].calls
                /\ TotalCalls(stats) = f[Len(SetToSeq(DOMAIN stats))]
<1> DEFINE labels == SetToSeq(DOMAIN stats)
           N == Len(labels)
           next(h) == [n \in 0 .. N |-> IF n = 0 THEN 0 ELSE h[n - 1] + stats[labels[n]].calls]
           f == CHOOSE h : h = next(h)
           step == [n \in 1 .. N |-> [x \in Nat |-> x + stats[labels[n]].calls]]
<1>1. N \in Nat /\ \A n \in 1 .. N : stats[labels[n]].calls \in Nat
  <2> DEFINE S == DOMAIN stats
  <2>1. labels \in Seq(S)
    BY SetListed
  <2> HIDE DEF labels
  <2>2. N \in Nat /\ \A n \in 1 .. N : labels[n] \in S
    BY <2>1, LenProperties
  <2> QED BY <2>2
<1>2. TotalCalls(stats) = f[N]
  BY DEF TotalCalls
<1> HIDE DEF labels, N
<1>3. step \in [1 .. N -> [Nat -> Nat]]
  BY <1>1
<1>4. PICK g \in [0 .. N -> Nat] : g[0] = 0 /\ \A n \in 1 .. N : g[n] = step[n][g[n - 1]]
  <2> DEFINE L == Nat
             zero == 0
  <2>1. N \in Nat /\ zero \in L /\ step \in [1 .. N -> [L -> L]]
    BY <1>1, <1>3
  <2> HIDE DEF step, L, zero
  <2>2. CanIterate(N, L, zero, step)
    BY <2>1, Iteration
  <2> QED BY <2>2 DEF L, zero, CanIterate, Iterates
<1>5. g = next(g)
  <2> SUFFICES ASSUME NEW n \in 0 .. N
               PROVE  g[n] = next(g)[n]
    OBVIOUS
  <2>1. CASE n = 0
    BY <1>4, <2>1
  <2>2. CASE n # 0
    <3>1. n \in 1 .. N /\ n - 1 \in 0 .. N
      BY <1>1, <2>2
    <3>2. g[n] = step[n][g[n - 1]] /\ g[n - 1] \in Nat
      BY <1>4, <3>1
    <3>3. g[n] = g[n - 1] + stats[labels[n]].calls
      BY <3>1, <3>2
    <3> QED BY <2>2, <3>3
  <2> QED BY <2>1, <2>2
<1>6. f = next(f)
  <2> HIDE DEF next
  <2> QED BY <1>5
<1> HIDE DEF f
<1>7. f[0] = 0 /\ \A n \in 1 .. N : f[n] = f[n - 1] + stats[labels[n]].calls
  <2>1. f[0] = 0
    BY <1>1, <1>6
  <2>2. ASSUME NEW n \in 1 .. N
        PROVE  f[n] = f[n - 1] + stats[labels[n]].calls
    <3>1. n \in 0 .. N /\ n # 0
      BY <1>1
    <3>2. next(f)[n] = f[n - 1] + stats[labels[n]].calls
      BY <3>1
    <3> HIDE DEF next
    <3> QED BY <1>6, <3>2
  <2> QED BY <2>1, <2>2
<1> QED BY <1>2, <1>7 DEF labels, N

(* Groups of a set by label have together as many elements as it has. *)
LEMMA GroupsAddUp ==
  ASSUME NEW rows, IsFiniteSet(rows), NEW label, DOMAIN label = rows,
         NEW stats, DOMAIN stats = {label[l] : l \in rows},
         \A t \in DOMAIN stats : stats[t].calls = Cardinality({l \in rows : label[l] = t})
  PROVE  TotalCalls(stats) = Cardinality(rows)
<1> DEFINE S == DOMAIN stats
           labels == SetToSeq(S)
           N == Len(labels)
           group(t) == {l \in rows : label[l] = t}
           upTo(n) == {l \in rows : \E i \in 1 .. n : label[l] = labels[i]}
<1>1. \A t : IsFiniteSet(group(t)) /\ Cardinality(group(t)) \in Nat
  BY FS_Subset, FS_CardinalityType
<1>2. IsFiniteSet(S)
  <2> DEFINE f == [l \in rows |-> label[l]]
  <2>1. f \in Surjection(rows, S)
    BY DEF Surjection
  <2> HIDE DEF f, S
  <2> QED BY <2>1, FS_Surjection
<1>3. /\ labels \in Seq(S)
      /\ \A i, j \in 1 .. N : labels[i] = labels[j] => i = j
      /\ \A t \in S : \E i \in 1 .. N : labels[i] = t
  <2> HIDE DEF S
  <2> QED BY <1>2, SetListed
<1>4. N \in Nat /\ \A n \in 1 .. N : labels[n] \in S
  <2> HIDE DEF S, labels
  <2> QED BY <1>3, LenProperties
<1>5. \A t \in S : stats[t].calls = Cardinality(group(t))
  OBVIOUS
<1>6. PICK f : /\ f[0] = 0
               /\ \A n \in 1 .. N : f[n] = f[n - 1] + stats[labels[n]].calls
               /\ TotalCalls(stats) = f[N]
  <2>1. ASSUME NEW t \in DOMAIN stats
        PROVE  stats[t].calls \in Nat
    <3>1. stats[t].calls = Cardinality(group(t))
      BY <1>5
    <3>2. Cardinality(group(t)) \in Nat
      BY <1>1
    <3> HIDE DEF group
    <3> QED BY <3>1, <3>2
  <2> QED BY <1>2, <2>1, TotalUnfolds
<1> DEFINE T == {n \in Nat : n <= N => f[n] = Cardinality(upTo(n))}
<1>7. 0 \in T
  <2>1. upTo(0) = {}
    OBVIOUS
  <2> HIDE DEF upTo
  <2> QED BY <1>6, <2>1, FS_EmptySet
<1>8. \A n \in Nat : n \in T => n + 1 \in T
  <2> SUFFICES ASSUME NEW n \in Nat, n \in T, n + 1 <= N
               PROVE  f[n + 1] = Cardinality(upTo(n + 1))
    <3> HIDE DEF upTo, N
    <3> QED OBVIOUS
  <2> DEFINE t == labels[n + 1]
  <2>1. n + 1 \in 1 .. N /\ n <= N /\ t \in S /\ (n + 1) - 1 = n
    <3> HIDE DEF labels, N, S, upTo, T
    <3> QED BY <1>4
  <2>2. upTo(n + 1) = upTo(n) \cup group(t)
    <3>1. \A i \in 1 .. n + 1 : i \in 1 .. n \/ i = n + 1
      OBVIOUS
    <3>2. \A i \in 1 .. n : i \in 1 .. n + 1
      OBVIOUS
    <3>3. n + 1 \in 1 .. n + 1
      OBVIOUS
    <3> HIDE DEF labels
    <3> QED BY <3>1, <3>2, <3>3
  <2>3. upTo(n) \cap group(t) = {}
    <3>1. \A i \in 1 .. n : i \in 1 .. N /\ i # n + 1
      BY <2>1, <1>4
    <3>2. \A i \in 1 .. n : labels[i] # t
      BY <1>3, <2>1, <3>1
    <3> HIDE DEF labels, t
    <3> QED BY <3>2
  <2>4. IsFiniteSet(upTo(n)) /\ Cardinality(upTo(n)) \in Nat
    BY FS_Subset, FS_CardinalityType
  <2>5. f[n + 1] = f[n] + Cardinality(group(t))
    BY <1>5, <1>6, <2>1
  <2> HIDE DEF upTo, group, t
  <2>6. Cardinality(upTo(n) \cup group(t))
          = Cardinality(upTo(n)) + Cardinality(group(t)) - Cardinality({})
    BY <1>1, <2>3, <2>4, FS_Union
  <2>7. f[n] = Cardinality(upTo(n))
    BY <2>1
  <2>8. Cardinality({}) = 0
    BY FS_EmptySet
  <2>9. Cardinality(upTo(n + 1)) = Cardinality(upTo(n) \cup group(t))
    BY <2>2
  <2> DEFINE before == Cardinality(upTo(n))
             more == Cardinality(group(t))
             after == Cardinality(upTo(n + 1))
  <2>10. before \in Nat /\ more \in Nat
    BY <1>1, <2>4
  <2>11. after = before + more - 0
    BY <2>6, <2>8, <2>9
  <2>12. f[n + 1] = before + more
    BY <2>5, <2>7
  <2> HIDE DEF before, more
  <2>13. f[n + 1] = after
    BY <2>10, <2>11, <2>12
  <2> QED BY <2>13
<1>9. f[N] = Cardinality(upTo(N))
  <2>1. N \in T
    <3> HIDE DEF T
    <3> QED BY <1>4, <1>7, <1>8, Induction
  <2> HIDE DEF N, upTo
  <2>2. N <= N
    BY <1>4
  <2> QED BY <2>1, <2>2
<1>10. upTo(N) = rows
  <2>1. \A l \in rows : \E i \in 1 .. N : label[l] = labels[i]
    BY <1>3
  <2> HIDE DEF labels, N
  <2> QED BY <2>1
<1> QED BY <1>6, <1>9, <1>10

(* Without a filter on anything but the tool, the queries see the whole    *)
(* log, and of it the calls of the tool.                                   *)
LEMMA WholeLog ==
  ASSUME RowsInv
  PROVE  /\ Since(Matching([NoFilter EXCEPT !.proxy = None]), 0) = RequestLog
         /\ \A t \in Items :
              Since(Matching([NoFilter EXCEPT !.proxy = None, !.tool = t]), 0)
                = {l \in RequestLog : Label(l) = t}
<1>1. \A l \in RequestLog : l.request.ts >= 0
  <2>1. ASSUME NEW l \in RequestLog
        PROVE  l.request.ts >= 0
    <3>1. PICK r \in requests : l \in IF Answers(r) = {} THEN {[request |-> r, response |-> None]}
                                      ELSE {[request |-> r, response |-> q] : q \in Answers(r)}
      BY DEF RequestLog
    <3>2. l.request = r
      BY <3>1
    <3>3. r.ts \in 1 .. now
      BY DEF RowsInv, RowsTypeOK
    <3> QED BY <3>2, <3>3
  <2> QED BY <2>1
<1> DEFINE all == [NoFilter EXCEPT !.proxy = None]
<1>2. all = [proxy |-> None, tool |-> None, status |-> None, session |-> None]
  BY DEF NoFilter
<1>3. Matching(all) = RequestLog
  <2> HIDE DEF all
  <2> QED BY <1>2 DEF Matching
<1>4. ASSUME NEW t \in Items
      PROVE  Matching([NoFilter EXCEPT !.proxy = None, !.tool = t])
               = {l \in RequestLog : Label(l) = t}
  <2> DEFINE f == [NoFilter EXCEPT !.proxy = None, !.tool = t]
  <2>1. f.proxy = None /\ f.tool = t /\ f.status = None /\ f.session = None /\ t # None
    BY QueriesAssumption DEF NoFilter
  <2> HIDE DEF f
  <2>2. Matching(f) = {l \in RequestLog : Label(l) = t}
    BY <2>1 DEF Matching
  <2> QED BY <2>2 DEF f
<1> HIDE DEF all
<1>5. Since(Matching(all), 0) = RequestLog
  BY <1>1, <1>3 DEF Since
<1>6. ASSUME NEW t \in Items
      PROVE  Since(Matching([NoFilter EXCEPT !.proxy = None, !.tool = t]), 0)
               = {l \in RequestLog : Label(l) = t}
  BY <1>1, <1>4 DEF Since
<1> QED BY <1>5, <1>6 DEF all

(* Statistics count every call once and miss none, and the usage of a tool *)
(* the schema lists is what they say: whatever keys were used twice,       *)
(* however often statements failed and whatever was vacuumed.              *)
THEOREM QueriesCountOnce == Spec => []LogCountsOnce
<1>1. ASSUME RowsInv, Finite
      PROVE  LogCountsOnce
  <2> DEFINE stats == Stats(None, 0)
             usage == Usage(None, 0)
             rows == Since(Matching([NoFilter EXCEPT !.proxy = None]), 0)
             group(t) == {l \in RequestLog : Label(l) = t}
             label == [l \in RequestLog |-> Label(l)]
             labels == {Label(l) : l \in RequestLog}
  <2>1. IsFiniteSet(RequestLog) /\ OneRowEach
    BY <1>1, LogRows
  <2>2. rows = RequestLog
    BY <1>1, WholeLog
  <2>3. ASSUME stats # None
        PROVE  /\ DOMAIN stats = labels
               /\ \A t \in labels : stats[t].calls = Cardinality(group(t))
    <3>1. ~\E l \in rows : l.response = None
      BY <2>3 DEF Stats
    <3>2. stats = [t \in {Label(l) : l \in rows} |->
                     [calls |-> Cardinality({l \in rows : Label(l) = t}),
                      p95 |-> Percentile({l \in rows : Label(l) = t}, 95)]]
      BY <3>1 DEF Stats
    <3> HIDE DEF rows, stats
    <3> QED BY <2>2, <3>2
  <2>4. ASSUME NEW t \in ItemsCaptured
        PROVE  usage[t].calls = Cardinality(group(t))
    <3>1. t \in {k[2] : k \in Schema(None)} /\ t \in Items
      BY DEF ItemsCaptured, Schema, Keys
    <3>2. usage[t].calls = Cardinality(Since(Matching([NoFilter EXCEPT !.proxy = None, !.tool = t]), 0))
      BY <3>1 DEF Usage
    <3> QED BY <1>1, <3>1, <3>2, WholeLog
  <2> HIDE DEF stats, usage
  <2>5. ASSUME stats # None
        PROVE  TotalCalls(stats) = Cardinality(RequestLog)
    <3>1. DOMAIN label = RequestLog /\ DOMAIN stats = {label[l] : l \in RequestLog}
      BY <2>3, <2>5
    <3>2. \A t \in DOMAIN stats :
            stats[t].calls = Cardinality({l \in RequestLog : label[l] = t})
      BY <2>3, <2>5
    <3> HIDE DEF label
    <3> QED BY <2>1, <3>1, <3>2, GroupsAddUp
  <2>6. ASSUME stats # None, NEW t \in ItemsCaptured
        PROVE  usage[t].calls = IF t \in DOMAIN stats THEN stats[t].calls ELSE 0
    <3>1. CASE t \in DOMAIN stats
      BY <2>3, <2>4, <2>6, <3>1
    <3>2. CASE t \notin DOMAIN stats
      <4>1. group(t) = {}
        BY <2>3, <2>6, <3>2
      <4> QED BY <2>4, <3>2, <4>1, FS_EmptySet
    <3> QED BY <3>1, <3>2
  <2>7. Cardinality(RequestLog) = StoreStats.requests
    BY <2>1 DEF OneRowEach
  <2> QED BY <2>1, <2>5, <2>6, <2>7 DEF LogCountsOnce, stats, usage
<1> QED BY <1>1, QueriesInvariant, PTL

(* vacuum with dry_run: its first count is exactly what the first DELETE   *)
(* takes, and its second is no more than what the second may take.         *)
THEOREM QueriesDryRunForetells == Spec => DryRunForetells
<1> DEFINE Foretold == \A before \in 2 .. MaxEvents + 1, p \in Proxies \cup {AllProxies} :
             vacuum = None /\ vacuum' = [before |-> before, proxy |-> p] =>
               /\ Cardinality(requests) - Cardinality(requests')
                    = CountMatchingRequests(before, p)
               /\ CountOrphanedSessions(before) <= CountOrphanedSessions(before)'
<1>1. RowsInv /\ Finite /\ [Next]_vars => [Foretold]_vars
  <2> SUFFICES ASSUME RowsInv, Finite, Next,
                      NEW before \in 2 .. MaxEvents + 1, NEW p \in Proxies \cup {AllProxies},
                      vacuum = None, vacuum' = [before |-> before, proxy |-> p]
               PROVE  /\ Cardinality(requests) - Cardinality(requests')
                           = CountMatchingRequests(before, p)
                      /\ CountOrphanedSessions(before) <= CountOrphanedSessions(before)'
    OBVIOUS
  <2>1. VacuumRequests
    <3>1. MaxEvents \in Nat /\ before \in Nat
      BY RowsAssumption
    <3>2. vacuum' # None
      BY <3>1, RowsAssumption
    <3> QED BY <3>2 DEF Next, WriteExchange, WriteSession, WriteSchema, VacuumSessions,
                        VacuumStops, vacuumVars
  <2> DEFINE old == {r \in requests : r.ts < before /\ p \in {r.proxy, AllProxies}}
  <2>2. requests' = requests \ old /\ sessions' = sessions
    <3>1. PICK b \in 2 .. now + 1, q \in Proxies \cup {AllProxies} :
            /\ requests' = {r \in requests : ~(r.ts < b /\ q \in {r.proxy, AllProxies})}
            /\ vacuum' = [before |-> b, proxy |-> q]
      BY <2>1 DEF VacuumRequests
    <3>2. b = before /\ q = p
      BY <3>1
    <3> QED BY <2>1, <3>1, <3>2 DEF VacuumRequests
  <2>3. Cardinality(requests') = Cardinality(requests) - CountMatchingRequests(before, p)
    <3>1. requests \cap old = old
      OBVIOUS
    <3>2. Cardinality(old) = CountMatchingRequests(before, p)
      BY DEF CountMatchingRequests
    <3> HIDE DEF old
    <3>3. Cardinality(requests \ old) = Cardinality(requests) - Cardinality(requests \cap old)
      BY FS_Difference DEF Finite
    <3> QED BY <2>2, <3>1, <3>2, <3>3
  <2>4. Cardinality(requests) \in Int /\ CountMatchingRequests(before, p) \in Int
    <3>1. IsFiniteSet(old)
      BY FS_Subset DEF Finite
    <3> QED BY <3>1, FS_CardinalityType DEF Finite, CountMatchingRequests
  <2> DEFINE orphans == {s \in Sessions : Orphaned(s, before)}
  <2>5. orphans \subseteq orphans'
    BY <2>2 DEF Orphaned
  <2>6. orphans' \subseteq KnownSessions
    BY <2>2 DEF Orphaned, KnownSessions
  <2>7. IsFiniteSet(orphans')
    BY <2>6, FS_Subset DEF Finite
  <2>8. Cardinality(orphans) <= Cardinality(orphans')
    BY <2>5, <2>7, FS_Subset
  <2> QED BY <2>3, <2>4, <2>8 DEF CountOrphanedSessions
<1> QED BY <1>1, QueriesInvariant, PTL DEF Spec, DryRunForetells
=============================================================================
