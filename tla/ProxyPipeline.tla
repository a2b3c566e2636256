--------------------------- MODULE ProxyPipeline ---------------------------
(***************************************************************************)
(* The stage pipeline (proxy2/mod.rs, proxy2/stage/): every HTTP request   *)
(* is a task of its own that calls the upstream server, runs the response  *)
(* stages over what comes back, and answers the client.  The tasks run on  *)
(* several threads and share the session store and the event bus.  A stage *)
(* changes the store under its lock but emits the resulting snapshot after *)
(* releasing it, so other tasks run in between.                            *)
(*                                                                         *)
(* A GET for an event stream bypasses all this and is not a task here.     *)
(* The schema and CSP stages touch no shared state and are left out.       *)
(* The bus is seen through what it promises (OrderedBroadcast): an event   *)
(* is dropped or takes effect in the order of emission; row is the         *)
(* sessions table that the SQLite sink derives from the session events.    *)
(***************************************************************************)
EXTENDS SessionStore, SequencesExt

CONSTANTS NumTasks,    \* bound on the HTTP requests that ever arrive
          Requests,    \* Requests[t]: what the t-th of them may be
          MaxFrames,   \* bounds on the results of their event streams, and
                       \* of the documents that answer plain HTTP requests
          BusDrops,    \* whether the bus channel may be full
          NoRequest, NoSnapshot, NoRow

(* rpcs is the JSON-RPC ids of the body, in order; initialize says that it *)
(* is a single initialize with client info; close, that it is a DELETE.    *)
Request == [kind : {"mcp", "batch", "http"},
            rpcs : Seq(RequestIds),
            session : SessionIds \cup {NoSession},
            initialize : BOOLEAN,
            close : BOOLEAN]

ASSUME PipelineAssumption ==
  /\ NumTasks \in Nat
  /\ Requests \in [1 .. NumTasks -> SUBSET Request]
  /\ \A t \in 1 .. NumTasks : \A q \in Requests[t] :
       /\ q.kind = "http" <=> q.rpcs = <<>>
       /\ q.kind = "mcp" => Len(q.rpcs) = 1
       /\ q.initialize => q.kind = "mcp"
       /\ q.close => q.kind = "http"
  /\ MaxFrames \in [1 .. NumTasks -> Nat]
  /\ BusDrops \in BOOLEAN
  /\ NoRequest \notin Request

Tasks == 1 .. NumTasks   \* in the order in which they arrive

VARIABLES task,       \* the state of each task
          row,        \* sessions table: session id -> last upserted snapshot
          overtaken,  \* sessions two tasks had snapshots of at the same time
          dropped     \* sessions the bus dropped a snapshot of

vars == <<storeVars, task, row, overtaken, dropped>>

-----------------------------------------------------------------------------
Snapshot == [id : SessionIds, state : {"active", "closed"}, count : Nat \ {0}]

ASSUME SnapshotAssumption == NoSnapshot \notin Snapshot

(* A JSON-RPC result: a response, or an error.  The server writes the id   *)
(* into it, and nothing holds it to the id it was asked under.             *)
Answer == [ok : BOOLEAN, id : RequestIds]

Idle == [pc |-> "idle",
         req |-> NoRequest,
         answers |-> <<>>,        \* results not yet through the stages
         issued |-> NoSession,    \* mcp-session-id of the upstream's reply
         inHand |-> NoSnapshot,   \* a store change not yet emitted
         frames |-> 0,            \* results of its event stream so far
         reply |-> "none",        \* what the client was sent
         logged |-> 0,            \* Request events emitted with a response
         orphans |-> 0,           \* Request events emitted without
         counted |-> {},          \* history: ids that changed the store
         succeeded |-> {}]        \* history: ids the upstream answered well

Init == /\ StoreInit
        /\ task = [t \in Tasks |-> Idle]
        /\ row = [s \in SessionIds |-> NoRow]
        /\ overtaken = {}
        /\ dropped = {}

At(t, where) == task[t].pc = where
Req(t) == task[t].req

(* Task t takes a snapshot of session s out of the store's lock. *)
Take(t, s, state, count) ==
  /\ task' = [task EXCEPT ![t].pc = "publish",
                          ![t].inHand = [id |-> s, state |-> state, count |-> count],
                          ![t].answers = IF @ = <<>> THEN <<>> ELSE Tail(@),
                          ![t].counted = IF task[t].answers = <<>> THEN @
                                         ELSE @ \cup {Head(task[t].answers).id}]
  /\ overtaken' = IF \E u \in Tasks \ {t} : /\ task[u].inHand # NoSnapshot
                                            /\ task[u].inHand.id = s
                  THEN overtaken \cup {s} ELSE overtaken
  /\ UNCHANGED <<row, dropped>>

-----------------------------------------------------------------------------
(* handle_request parses the body and process builds the context. *)
Arrive(t) ==
  /\ At(t, "idle")
  /\ \A u \in 1 .. t - 1 : ~At(u, "idle")
  /\ \E q \in Requests[t] :
       task' = [task EXCEPT ![t].pc = "upstream", ![t].req = q]
  /\ UNCHANGED <<storeVars, row, overtaken, dropped>>

(* Deviations a careless edit of the pipeline could introduce, here and    *)
(* below; not part of the specification.                                   *)

UpstreamAnswersCountingAtOnce(t) ==
  /\ At(t, "upstream")
  /\ Req(t).kind \in {"mcp", "batch"}
  /\ \E id \in RequestIds :
     LET n == Len(task[t].answers) + 1
     IN  /\ IF Req(t).session = NoSession \/ TrackIsDuplicate(id)
            THEN UNCHANGED storeVars ELSE TrackRequest(Req(t).session, id)
         /\ task' = [task EXCEPT
              ![t].answers = Append(@, [ok |-> FALSE, id |-> id]),
              ![t].succeeded = @ \cup {id},
              ![t].counted = @ \cup {id},
              ![t].pc = IF n = Len(Req(t).rpcs) THEN "track" ELSE "upstream"]
  /\ UNCHANGED <<row, overtaken, dropped>>

(* A batch goes upstream one call at a time; a single call is a batch of   *)
(* one here.  The stages run when the last result is in.  The header with  *)
(* a session id is looked at in answers to an initialize only.             *)
UpstreamAnswers(t) ==
  /\ At(t, "upstream")
  /\ Req(t).kind \in {"mcp", "batch"}
  /\ \E ok \in BOOLEAN, id \in RequestIds, s \in SessionIds \cup {NoSession} :
       /\ s # NoSession => Req(t).initialize
       /\ task' = [task EXCEPT
            ![t].answers = Append(@, [ok |-> ok, id |-> id]),
            ![t].succeeded = IF ok THEN @ \cup {id} ELSE @,
            ![t].issued = s,
            ![t].pc = IF Len(task[t].answers) + 1 = Len(Req(t).rpcs)
                      THEN "track" ELSE "upstream"]
  /\ UNCHANGED <<storeVars, row, overtaken, dropped>>

(* Anything that is not MCP is passed on with whatever status it has; no   *)
(* stage looks at the status.                                              *)
UpstreamAnswersHttp(t) ==
  /\ At(t, "upstream")
  /\ Req(t).kind = "http"
  /\ task' = [task EXCEPT ![t].pc = "close"]
  /\ UNCHANGED <<storeVars, row, overtaken, dropped>>

(* The answer to an HTTP request is read without regard to the request: a  *)
(* JSON-RPC document, an array of them or a buffered stream of them goes   *)
(* the way of the calls, and a DELETE so answered ends no session.         *)
UpstreamAnswersHttpWithRpc(t) ==
  /\ At(t, "upstream")
  /\ Req(t).kind = "http"
  /\ \E results \in SeqOf(Answer, MaxFrames[t]) :
       task' = [task EXCEPT ![t].answers = results,
                            ![t].succeeded = {a.id : a \in {b \in Range(results) : b.ok}},
                            ![t].pc = "track"]
  /\ UNCHANGED <<storeVars, row, overtaken, dropped>>

(* The upstream cannot be reached, or its body is not a JSON-RPC result.   *)
(* The stages never run; an orphan event and a 502 are all that is left.   *)
UpstreamFails(t) ==
  /\ At(t, "upstream")
  /\ task' = [task EXCEPT ![t].pc = "done", ![t].reply = "bad_gateway",
                          ![t].answers = <<>>, ![t].orphans = @ + 1]
  /\ UNCHANGED <<storeVars, row, overtaken, dropped>>

(* The upstream answers a single call with an event stream: the client     *)
(* gets the headers at once and the stages run for every frame.            *)
UpstreamStreams(t) ==
  /\ At(t, "upstream")
  /\ Req(t).kind = "mcp"
  /\ \E s \in SessionIds \cup {NoSession} :
       /\ s # NoSession => Req(t).initialize
       /\ task' = [task EXCEPT ![t].pc = "stream", ![t].issued = s,
                               ![t].reply = "stream"]
  /\ UNCHANGED <<storeVars, row, overtaken, dropped>>

Frame(t) ==
  /\ At(t, "stream")
  /\ task[t].frames < MaxFrames[t]
  /\ \E ok \in BOOLEAN, id \in RequestIds :
       task' = [task EXCEPT ![t].answers = <<[ok |-> ok, id |-> id]>>,
                            ![t].succeeded = IF ok THEN @ \cup {id} ELSE @,
                            ![t].frames = @ + 1,
                            ![t].pc = "track"]
  /\ UNCHANGED <<storeVars, row, overtaken, dropped>>

(* The upstream closes the stream, or fails in the middle of it. *)
StreamEnds(t) ==
  /\ At(t, "stream")
  /\ task' = [task EXCEPT ![t].pc = "done"]
  /\ UNCHANGED <<storeVars, row, overtaken, dropped>>

(* The client goes away while its task waits for the upstream: the task is *)
(* dropped where it stands.                                                *)
Disconnect(t) ==
  /\ At(t, "upstream") \/ At(t, "stream")
  /\ task' = [task EXCEPT ![t].pc = "gone", ![t].answers = <<>>]
  /\ UNCHANGED <<storeVars, row, overtaken, dropped>>

-----------------------------------------------------------------------------
(* handle_mcp_result, for the next result of the response. *)
HasResult(t) == At(t, "track") /\ task[t].answers # <<>>

Result(t) == Head(task[t].answers)

(* The result answers the task's own initialize. *)
AnswersInitialize(t) == Req(t).initialize /\ Result(t).id = Req(t).rpcs[1]

(* The upstream gave the new session an id that is not yet known. *)
Starts(t) == task[t].issued # NoSession /\ ~Live(task[t].issued)

(* The client named a session, and the result's id is not yet known. *)
Counts(t) == Req(t).session # NoSession /\ ~TrackIsDuplicate(Result(t).id)

RecordsEvenErrors(t) == IF AnswersInitialize(t) THEN Starts(t) ELSE Counts(t)

(* Whether the result changes the session store. *)
Records(t) == /\ Result(t).ok
              /\ IF AnswersInitialize(t) THEN Starts(t) ELSE Counts(t)

SkipResult(t) ==
  /\ HasResult(t)
  /\ ~Records(t)
  /\ task' = [task EXCEPT ![t].answers = Tail(@)]
  /\ UNCHANGED <<storeVars, row, overtaken, dropped>>

RegisterSession(t) ==
  /\ HasResult(t)
  /\ Records(t)
  /\ AnswersInitialize(t)
  /\ \E meta \in Metas : StartSession(task[t].issued, Result(t).id, meta)
  /\ Take(t, task[t].issued, "active", sessions'[task[t].issued].requestCount)

CountRequest(t) ==
  /\ HasResult(t)
  /\ Records(t)
  /\ ~AnswersInitialize(t)
  /\ TrackRequest(Req(t).session, Result(t).id)
  /\ Take(t, Req(t).session, "active", sessions'[Req(t).session].requestCount)

(* end_session_if_close: every DELETE that was not answered with JSON-RPC  *)
(* ends its session, whatever its status.                                  *)
Closes(t) ==
  Req(t).close /\ Req(t).session # NoSession /\ Live(Req(t).session)

CloseSession(t) ==
  /\ At(t, "close")
  /\ Closes(t)
  /\ EndSession(Req(t).session)
  /\ Take(t, Req(t).session, "closed", sessions[Req(t).session].requestCount)

NothingToClose(t) ==
  /\ At(t, "close")
  /\ ~Closes(t)
  /\ task' = [task EXCEPT ![t].pc = "log"]
  /\ UNCHANGED <<storeVars, row, overtaken, dropped>>

PublishOnlyActive(t) ==
  /\ At(t, "publish")
  /\ row' = IF task[t].inHand.state = "closed" THEN row
            ELSE [row EXCEPT ![task[t].inHand.id] = task[t].inHand]
  /\ task' = [task EXCEPT ![t].inHand = NoSnapshot,
                          ![t].pc = IF task[t].inHand.state = "closed"
                                   THEN "log" ELSE "track"]
  /\ UNCHANGED <<storeVars, overtaken, dropped>>

(* event_bus.emit of the snapshot, after the lock was released. *)
Publish(t) ==
  /\ At(t, "publish")
  /\ LET snapshot == task[t].inHand
     IN  \/ /\ row' = [row EXCEPT ![snapshot.id] = snapshot]
            /\ UNCHANGED dropped
         \/ /\ BusDrops
            /\ dropped' = dropped \cup {snapshot.id}
            /\ UNCHANGED row
  /\ task' = [task EXCEPT ![t].inHand = NoSnapshot,
                          ![t].pc = IF task[t].inHand.state = "closed"
                                   THEN "log" ELSE "track"]
  /\ UNCHANGED <<storeVars, overtaken>>

LogOnlySingles(t) ==
  /\ At(t, "log") \/ (At(t, "track") /\ task[t].answers = <<>>)
  /\ task' = [task EXCEPT ![t].logged = IF Req(t).kind = "batch" THEN @ ELSE @ + 1,
                          ![t].pc = IF task[t].reply = "stream" THEN "stream" ELSE "done",
                          ![t].reply = IF @ = "stream" THEN @ ELSE "answer"]
  /\ UNCHANGED <<storeVars, row, overtaken, dropped>>

(* ResponseLogStage, and then the reply or the next frame. *)
Log(t) ==
  /\ At(t, "log") \/ (At(t, "track") /\ task[t].answers = <<>>)
  /\ task' = [task EXCEPT ![t].logged = @ + 1,
                          ![t].pc = IF task[t].reply = "stream" THEN "stream" ELSE "done",
                          ![t].reply = IF @ = "stream" THEN @ ELSE "answer"]
  /\ UNCHANGED <<storeVars, row, overtaken, dropped>>

(* What the pipeline does once the upstream has spoken. *)
Stages(t) == \/ SkipResult(t) \/ RegisterSession(t) \/ CountRequest(t)
             \/ CloseSession(t) \/ NothingToClose(t)
             \/ Publish(t) \/ Log(t)

Next == \E t \in Tasks :
          \/ Arrive(t)
          \/ UpstreamAnswers(t)
          \/ UpstreamAnswersHttp(t) \/ UpstreamAnswersHttpWithRpc(t)
          \/ UpstreamFails(t) \/ UpstreamStreams(t)
          \/ Frame(t) \/ StreamEnds(t) \/ Disconnect(t)
          \/ Stages(t)

Spec == Init /\ [][Next]_vars

-----------------------------------------------------------------------------
Task == [pc : {"idle", "upstream", "stream", "track", "close", "publish", "log",
               "done", "gone"},
         req : Request \cup {NoRequest},
         answers : Seq(Answer),
         issued : SessionIds \cup {NoSession},
         inHand : Snapshot \cup {NoSnapshot},
         frames : Nat,
         reply : {"none", "answer", "stream", "bad_gateway"},
         logged : Nat,
         orphans : Nat,
         counted : SUBSET RequestIds,
         succeeded : SUBSET RequestIds]

PipelineTypeOK ==
  /\ StoreTypeOK
  /\ task \in [Tasks -> Task]
  /\ \A t \in Tasks : At(t, "publish") <=> task[t].inHand # NoSnapshot
  /\ row \in [SessionIds -> Snapshot \cup {NoRow}]
  /\ overtaken \subseteq SessionIds
  /\ dropped \subseteq SessionIds

(* A reply and the Request events of its request agree: a plain answer has *)
(* one event with its response, a 502 has one orphan, a stream has one     *)
(* event for each frame that went out, and a task that was dropped before  *)
(* its reply has none.                                                     *)
EventsMatchReply ==
  \A t \in Tasks :
    LET events == <<task[t].logged, task[t].orphans>>
    IN  CASE task[t].reply = "answer"      -> events = <<1, 0>>
          [] task[t].reply = "bad_gateway" -> events = <<0, 1>>
          [] task[t].reply = "none"        -> events = <<0, 0>>
          [] task[t].reply = "stream"      ->
               /\ At(t, "stream") \/ At(t, "done") \/ At(t, "gone") =>
                    events = <<task[t].frames, 0>>
               /\ task[t].orphans = 0

(* A request that is answered with 502 has left no trace in the session    *)
(* store, even when it was a batch whose first calls the upstream carried  *)
(* out.                                                                    *)
FailureLeavesNoTrace ==
  \A t \in Tasks : task[t].reply = "bad_gateway" => task[t].counted = {}

(* Every request id a live session lists came in a successful response     *)
(* that a task took through the stages, and that task's client named the   *)
(* session or was just given it: never an id of another session's answers, *)
(* of an error or of a batch that failed halfway.  Whether the client had  *)
(* asked under that id is up to the server.                                *)
CountedRequestsSucceeded ==
  \A s \in SessionIds :
    Live(s) =>
      \A r \in IdsOf(s) :
        \E t \in Tasks : /\ r \in task[t].counted \cap task[t].succeeded
                         /\ Req(t).session = s \/ task[t].issued = s

InHand(s) == \E t \in Tasks : /\ task[t].inHand # NoSnapshot
                              /\ task[t].inHand.id = s

Mirrored(s) ==
  IF Live(s)
  THEN row[s] = [id |-> s, state |-> "active", count |-> sessions[s].requestCount]
  ELSE row[s] = NoRow \/ row[s].state = "closed"

(* As long as no two tasks held snapshots of a session at the same time    *)
(* and none was dropped, its row in the database equals the session in     *)
(* memory whenever no snapshot of it is on its way.                        *)
MirroredUnlessOvertaken ==
  \A s \in SessionIds :
    s \notin overtaken \cup dropped /\ ~InHand(s) => Mirrored(s)
=============================================================================
