------------------------ MODULE ProxyPipelineProofs ------------------------
(***************************************************************************)
(* Proofs about the session store and the stage pipeline that writes it.   *)
(* The store keeps its two maps consistent, for any number of sessions,    *)
(* request ids and calls.  In the pipeline, for any number of tasks,       *)
(* sessions and request ids, whatever the upstream answers and wherever a  *)
(* client goes away, the events of a request agree with its reply, a       *)
(* failure leaves no trace, and the sessions table mirrors the store as    *)
(* far as it can.                                                          *)
(***************************************************************************)
EXTENDS ProxyPipeline, FiniteSetTheorems, SequenceTheorems, TLAPS

(* The session store by itself. *)

(* Appending an id to a list adds that id to the ids the list holds. *)
LEMMA RangeAppend ==
  ASSUME NEW S, NEW q \in Seq(S), NEW e \in S
  PROVE  Range(Append(q, e)) = Range(q) \cup {e}
<1>1. /\ DOMAIN q = 1 .. Len(q)
      /\ DOMAIN Append(q, e) = 1 .. Len(q) + 1
      /\ Len(q) \in Nat
  OBVIOUS
<1>2. ASSUME NEW i \in 1 .. Len(q)
      PROVE  Append(q, e)[i] = q[i]
  OBVIOUS
<1>3. Append(q, e)[Len(q) + 1] = e
  OBVIOUS
<1>4. Range(Append(q, e)) \subseteq Range(q) \cup {e}
  <2> SUFFICES ASSUME NEW i \in 1 .. Len(q) + 1
               PROVE  Append(q, e)[i] \in Range(q) \cup {e}
    BY <1>1 DEF Range
  <2>1. CASE i \in 1 .. Len(q)
    BY <2>1, <1>1, <1>2 DEF Range
  <2>2. CASE i = Len(q) + 1
    BY <2>2, <1>3
  <2> QED BY <2>1, <2>2, <1>1
<1>5. Range(q) \subseteq Range(Append(q, e))
  BY <1>1, <1>2 DEF Range
<1>6. e \in Range(Append(q, e))
  BY <1>1, <1>3 DEF Range
<1> QED BY <1>4, <1>5, <1>6

(* A fresh SessionInfo lists exactly the request it was created for. *)
LEMMA NewInfoFacts ==
  ASSUME NEW meta \in Metas \cup {NoMeta}, NEW r \in RequestIds
  PROVE  /\ NewInfo(meta, r) \in SessionInfo
         /\ NewInfo(meta, r) # Absent
         /\ NewInfo(meta, r).requestCount = 1
         /\ NewInfo(meta, r).meta = meta
         /\ Range(NewInfo(meta, r).requestIds) = {r}
<1>1. <<r>> \in Seq(RequestIds) /\ Range(<<r>>) = {r}
  BY DEF Range
<1>2. /\ NewInfo(meta, r) \in SessionInfo
      /\ NewInfo(meta, r).requestIds = <<r>>
      /\ NewInfo(meta, r).requestCount = 1
      /\ NewInfo(meta, r).meta = meta
  BY <1>1 DEF NewInfo, SessionInfo
<1> QED BY <1>1, <1>2, AbsentAssumption

(* Bumping a SessionInfo counts and lists one more request. *)
LEMMA BumpFacts ==
  ASSUME NEW info \in SessionInfo, NEW r \in RequestIds
  PROVE  /\ Bump(info, r) \in SessionInfo
         /\ Bump(info, r) # Absent
         /\ Bump(info, r).requestCount = info.requestCount + 1
         /\ Bump(info, r).meta = info.meta
         /\ Range(Bump(info, r).requestIds) = Range(info.requestIds) \cup {r}
<1>1. /\ info.requestIds \in Seq(RequestIds)
      /\ info.requestCount + 1 \in Nat \ {0}
      /\ Append(info.requestIds, r) \in Seq(RequestIds)
  BY DEF SessionInfo
<1>2. /\ Bump(info, r) \in SessionInfo
      /\ Bump(info, r).requestIds = Append(info.requestIds, r)
      /\ Bump(info, r).requestCount = info.requestCount + 1
      /\ Bump(info, r).meta = info.meta
  BY <1>1, Zenon DEF Bump, SessionInfo
<1> QED BY <1>1, <1>2, RangeAppend, AbsentAssumption

-----------------------------------------------------------------------------
(* Every session lists only ids that responses in it carry. *)
ListsOwnIds ==
  \A s \in SessionIds : Live(s) => IdsOf(s) \subseteq UsesId[s]

ListsFinite == \A s \in SessionIds : Live(s) => IsFiniteSet(IdsOf(s))

(* The inductive invariant: IndexComplete needs to know whose ids a        *)
(* session lists, and the count is a cardinality only of a finite set.     *)
StoreInv == /\ StoreTypeOK
            /\ IndexSound
            /\ ListsOwnIds
            /\ ListsFinite
            /\ IndexComplete
            /\ CountsDistinctRequests

LEMMA StoreInitInv == StoreInit => StoreInv
BY StoreAssumption
   DEF StoreInit, StoreInv, StoreTypeOK, IndexSound, ListsOwnIds, ListsFinite,
       IndexComplete, CountsDistinctRequests, Live

(* What a call that records r under s leaves true, whether it created the  *)
(* session or bumped it: StartSession and both cases of TrackRequest.      *)
LEMMA RecordStep ==
  ASSUME StoreInv,
         NEW s \in SessionIds, NEW r \in UsesId[s], NEW info \in SessionInfo,
         sessions' = [sessions EXCEPT ![s] = info],
         requestIds' = [requestIds EXCEPT ![r] = s],
         Range(info.requestIds) = (IF Live(s) THEN IdsOf(s) ELSE {}) \cup {r},
         IF Live(s) THEN /\ info.requestCount = sessions[s].requestCount + 1
                         /\ requestIds[r] = NoSession
                    ELSE info.requestCount = 1
  PROVE  StoreInv'
<1> USE StoreAssumption
<1>1. r \in RequestIds
  OBVIOUS
<1>2. /\ sessions'[s] = info
      /\ \A t \in SessionIds \ {s} : sessions'[t] = sessions[t]
      /\ requestIds'[r] = s
      /\ \A q \in RequestIds \ {r} : requestIds'[q] = requestIds[q]
  BY <1>1 DEF StoreInv, StoreTypeOK
<1>3. /\ Live(s)'
      /\ IdsOf(s)' = (IF Live(s) THEN IdsOf(s) ELSE {}) \cup {r}
      /\ \A t \in SessionIds \ {s} : Live(t)' <=> Live(t)
      /\ \A t \in SessionIds \ {s} : IdsOf(t)' = IdsOf(t)
  BY <1>2, AbsentAssumption DEF Live, IdsOf
<1>4. StoreTypeOK'
  BY <1>1 DEF StoreInv, StoreTypeOK
<1>5. IndexSound'
  <2> SUFFICES ASSUME NEW q \in RequestIds, requestIds'[q] # NoSession
               PROVE  Live(requestIds[q])' /\ q \in IdsOf(requestIds[q])'
    BY DEF IndexSound, Live, IdsOf
  <2>1. CASE q = r
    BY <2>1, <1>2, <1>3
  <2>2. CASE q # r
    <3>1. requestIds'[q] = requestIds[q] /\ requestIds[q] \in SessionIds
      BY <2>2, <1>2 DEF StoreInv, StoreTypeOK
    <3>2. Live(requestIds[q]) /\ q \in IdsOf(requestIds[q])
      BY <3>1 DEF StoreInv, IndexSound
    <3> QED BY <3>1, <3>2, <1>3
  <2> QED BY <2>1, <2>2
<1>6. ListsOwnIds'
  BY <1>3 DEF StoreInv, ListsOwnIds
<1>7. ListsFinite'
  <2>1. IsFiniteSet(IdsOf(s)')
    BY <1>3, FS_AddElement, FS_EmptySet DEF StoreInv, ListsFinite
  <2> QED BY <2>1, <1>3 DEF StoreInv, ListsFinite
<1>8. IndexComplete'
  <2> SUFFICES ASSUME NEW t \in SessionIds, PrivateIds(t), Live(t)',
                      NEW q \in IdsOf(t)'
               PROVE  requestIds'[q] = t
    BY DEF IndexComplete, PrivateIds, Live, IdsOf
  <2>1. CASE t = s
    BY <2>1, <1>2, <1>3 DEF StoreInv, IndexComplete, ListsOwnIds
  <2>2. CASE t # s
    <3>1. q \in IdsOf(t) /\ Live(t) /\ q \in UsesId[t]
      BY <2>2, <1>3 DEF StoreInv, ListsOwnIds
    <3>2. q # r
      BY <2>2, <3>1 DEF PrivateIds
    <3> QED BY <3>1, <3>2, <1>2 DEF StoreInv, IndexComplete
  <2> QED BY <2>1, <2>2
<1>9. CountsDistinctRequests'
  <2> SUFFICES ASSUME NEW t \in SessionIds, PrivateIds(t), Live(t)'
               PROVE  sessions'[t].requestCount = Cardinality(IdsOf(t)')
    BY DEF CountsDistinctRequests, PrivateIds, Live, IdsOf
  <2>1. CASE t # s
    BY <2>1, <1>2, <1>3 DEF StoreInv, CountsDistinctRequests
  <2>2. CASE t = s /\ ~Live(s)
    <3>1. Cardinality({r}) = 1
      BY FS_Singleton
    <3>2. IdsOf(s)' = {r} /\ sessions'[s].requestCount = 1
      BY <2>2, <1>2, <1>3
    <3> QED BY <2>2, <3>1, <3>2
  <2>3. CASE t = s /\ Live(s)
    <3>1. r \notin IdsOf(s)
      BY <2>3 DEF StoreInv, IndexComplete
    <3>2. IsFiniteSet(IdsOf(s)) /\ sessions[s].requestCount = Cardinality(IdsOf(s))
      BY <2>3 DEF StoreInv, ListsFinite, CountsDistinctRequests
    <3>3. Cardinality(IdsOf(s) \cup {r}) = Cardinality(IdsOf(s)) + 1
      BY <3>1, <3>2, FS_AddElement
    <3> QED BY <2>3, <3>2, <3>3, <1>2, <1>3
  <2> QED BY <2>1, <2>2, <2>3
<1> QED BY <1>4, <1>5, <1>6, <1>7, <1>8, <1>9 DEF StoreInv

LEMMA StartSessionStep ==
  ASSUME StoreInv, NEW s \in SessionIds, NEW r \in UsesId[s], NEW m \in Metas,
         StartSession(s, r, m)
  PROVE  StoreInv'
<1>1. r \in RequestIds
  BY StoreAssumption
<1>2. /\ NewInfo(m, r) \in SessionInfo
      /\ NewInfo(m, r).requestCount = 1
      /\ Range(NewInfo(m, r).requestIds) = {r}
  BY <1>1, NewInfoFacts
<1>3. ~Live(s) /\ {} \cup {r} = {r}
  BY DEF StartSession
<1> QED BY <1>2, <1>3, RecordStep DEF StartSession

LEMMA TrackRequestStep ==
  ASSUME StoreInv, NEW s \in SessionIds, NEW r \in UsesId[s],
         TrackRequest(s, r)
  PROVE  StoreInv'
<1>1. r \in RequestIds
  BY StoreAssumption
<1>2. CASE Live(s)
  <2>1. sessions[s] \in SessionInfo
    BY <1>2 DEF StoreInv, StoreTypeOK, Live
  <2>2. sessions' = [sessions EXCEPT ![s] = Bump(sessions[s], r)]
    BY <1>2 DEF TrackRequest
  <2> QED BY <1>1, <1>2, <2>1, <2>2, RecordStep, BumpFacts
       DEF TrackRequest, TrackIsDuplicate, IdsOf
<1>3. CASE ~Live(s)
  <2>1. sessions' = [sessions EXCEPT ![s] = NewInfo(NoMeta, r)]
    BY <1>3 DEF TrackRequest
  <2>2. /\ NewInfo(NoMeta, r) \in SessionInfo
        /\ NewInfo(NoMeta, r).requestCount = 1
        /\ Range(NewInfo(NoMeta, r).requestIds) = {r}
    BY <1>1, NewInfoFacts
  <2>3. {} \cup {r} = {r}
    OBVIOUS
  <2> QED BY <1>3, <2>1, <2>2, <2>3, RecordStep DEF TrackRequest
<1> QED BY <1>2, <1>3

LEMMA EndSessionStep ==
  ASSUME StoreInv, NEW s \in SessionIds, EndSession(s)
  PROVE  StoreInv'
<1> USE StoreAssumption
<1>1. /\ sessions'[s] = Absent
      /\ \A t \in SessionIds \ {s} : sessions'[t] = sessions[t]
  BY DEF EndSession, StoreInv, StoreTypeOK
<1>2. \A q \in RequestIds :
        requestIds'[q] = IF q \in IdsOf(s) THEN NoSession ELSE requestIds[q]
  BY DEF EndSession
<1>3. /\ ~Live(s)'
      /\ \A t \in SessionIds \ {s} : (Live(t)' <=> Live(t)) /\ IdsOf(t)' = IdsOf(t)
  BY <1>1 DEF Live, IdsOf
<1>4. StoreTypeOK'
  BY DEF EndSession, StoreInv, StoreTypeOK
<1>5. IndexSound'
  <2> SUFFICES ASSUME NEW q \in RequestIds, requestIds'[q] # NoSession
               PROVE  Live(requestIds[q])' /\ q \in IdsOf(requestIds[q])'
    BY DEF IndexSound, Live, IdsOf
  <2>1. q \notin IdsOf(s) /\ requestIds'[q] = requestIds[q]
    BY <1>2
  <2>2. /\ requestIds[q] \in SessionIds
        /\ Live(requestIds[q])
        /\ q \in IdsOf(requestIds[q])
    BY <2>1 DEF StoreInv, StoreTypeOK, IndexSound
  <2>3. requestIds[q] # s
    BY <2>1, <2>2
  <2> QED BY <2>1, <2>2, <2>3, <1>3
<1>6. ListsOwnIds' /\ ListsFinite'
  BY <1>3 DEF StoreInv, ListsOwnIds, ListsFinite
<1>7. IndexComplete'
  <2> SUFFICES ASSUME NEW t \in SessionIds, PrivateIds(t), Live(t)',
                      NEW q \in IdsOf(t)'
               PROVE  requestIds'[q] = t
    BY DEF IndexComplete, PrivateIds, Live, IdsOf
  <2>1. t # s /\ Live(t) /\ q \in IdsOf(t)
    BY <1>3
  <2>2. q \in UsesId[t] /\ q \in RequestIds
    BY <2>1 DEF StoreInv, ListsOwnIds
  <2>3. IdsOf(s) \subseteq UsesId[s]
    BY DEF StoreInv, ListsOwnIds, EndSession
  <2>4. q \notin IdsOf(s)
    BY <2>1, <2>2, <2>3 DEF PrivateIds
  <2> QED BY <2>1, <2>2, <2>4, <1>2 DEF StoreInv, IndexComplete
<1>8. CountsDistinctRequests'
  <2> SUFFICES ASSUME NEW t \in SessionIds, PrivateIds(t), Live(t)'
               PROVE  sessions'[t].requestCount = Cardinality(IdsOf(t)')
    BY DEF CountsDistinctRequests, PrivateIds, Live, IdsOf
  <2> QED BY <1>1, <1>3 DEF StoreInv, CountsDistinctRequests
<1> QED BY <1>4, <1>5, <1>6, <1>7, <1>8 DEF StoreInv

LEMMA StoreNextInv == StoreInv /\ [StoreNext]_storeVars => StoreInv'
<1> SUFFICES ASSUME StoreInv, [StoreNext]_storeVars
             PROVE  StoreInv'
  OBVIOUS
<1>1. ASSUME NEW s \in SessionIds, NEW r \in UsesId[s], NEW m \in Metas,
             StartSession(s, r, m)
      PROVE  StoreInv'
  BY <1>1, StartSessionStep
<1>2. ASSUME NEW s \in SessionIds, NEW r \in UsesId[s], TrackRequest(s, r)
      PROVE  StoreInv'
  BY <1>2, TrackRequestStep
<1>3. ASSUME NEW s \in SessionIds, EndSession(s)
      PROVE  StoreInv'
  BY <1>3, EndSessionStep
<1>4. CASE UNCHANGED storeVars
  BY <1>4 DEF storeVars, StoreInv, StoreTypeOK, IndexSound, ListsOwnIds,
              ListsFinite, IndexComplete, CountsDistinctRequests, Live, IdsOf
<1> QED BY <1>1, <1>2, <1>3, <1>4 DEF StoreNext

LEMMA StoreInvariant == StoreSpec => []StoreInv
BY StoreInitInv, StoreNextInv, PTL DEF StoreSpec

-----------------------------------------------------------------------------
(* Type correctness of the two maps. *)
THEOREM StoreTypeCorrect == StoreSpec => []StoreTypeOK
<1>1. StoreInv => StoreTypeOK
  BY DEF StoreInv
<1> QED BY <1>1, StoreInvariant, PTL

(* get_session_by_request never resolves to a session that is gone, even   *)
(* when sessions share request ids.                                        *)
THEOREM StoreIndexSound == StoreSpec => []IndexSound
<1>1. StoreInv => IndexSound
  BY DEF StoreInv
<1> QED BY <1>1, StoreInvariant, PTL

(* The index of a session with private request ids is exact. *)
THEOREM StoreIndexComplete == StoreSpec => []IndexComplete
<1>1. StoreInv => IndexComplete
  BY DEF StoreInv
<1> QED BY <1>1, StoreInvariant, PTL

(* request_count of a session with private request ids counts each request *)
(* once.                                                                   *)
THEOREM StoreCountsDistinct == StoreSpec => []CountsDistinctRequests
<1>1. StoreInv => CountsDistinctRequests
  BY DEF StoreInv
<1> QED BY <1>1, StoreInvariant, PTL

-----------------------------------------------------------------------------
(* What FirstCallWins says of one session in one step. *)
KeptBy(s) ==
  Live(s) /\ Live(s)' =>
    /\ sessions'[s].meta = sessions[s].meta
    /\ sessions'[s].requestCount >= sessions[s].requestCount
    /\ IdsOf(s) \subseteq IdsOf(s)'

LEMMA UntouchedKept ==
  ASSUME StoreTypeOK, NEW s \in SessionIds, sessions'[s] = sessions[s]
  PROVE  KeptBy(s)
BY DEF KeptBy, StoreTypeOK, SessionInfo, IdsOf, Live

LEMMA StepKeeps ==
  ASSUME StoreTypeOK, [StoreNext]_storeVars, NEW s \in SessionIds
  PROVE  KeptBy(s)
<1>1. ASSUME NEW t \in SessionIds, NEW r \in UsesId[t], NEW m \in Metas,
             StartSession(t, r, m)
      PROVE  KeptBy(s)
  <2>1. CASE t = s
    BY <1>1, <2>1 DEF StartSession, KeptBy
  <2>2. CASE t # s
    BY <1>1, <2>2, UntouchedKept DEF StartSession, StoreTypeOK
  <2> QED BY <2>1, <2>2
<1>2. ASSUME NEW t \in SessionIds, NEW r \in UsesId[t], TrackRequest(t, r)
      PROVE  KeptBy(s)
  <2>1. CASE t = s /\ Live(s)
    <3>1. r \in RequestIds
      BY StoreAssumption
    <3>2. sessions[s] \in SessionInfo
      BY <2>1 DEF StoreTypeOK, Live
    <3>3. sessions'[s] = Bump(sessions[s], r)
      BY <1>2, <2>1 DEF TrackRequest, StoreTypeOK
    <3>4. /\ sessions'[s].meta = sessions[s].meta
          /\ sessions'[s].requestCount = sessions[s].requestCount + 1
          /\ Range(sessions'[s].requestIds) = Range(sessions[s].requestIds) \cup {r}
      BY <3>1, <3>2, <3>3, BumpFacts
    <3>5. sessions[s].requestCount \in Nat
      BY <3>2 DEF SessionInfo
    <3> QED BY <3>4, <3>5 DEF KeptBy, IdsOf
  <2>2. CASE t = s /\ ~Live(s)
    BY <2>2 DEF KeptBy
  <2>3. CASE t # s
    BY <1>2, <2>3, UntouchedKept DEF TrackRequest, StoreTypeOK
  <2> QED BY <2>1, <2>2, <2>3
<1>3. ASSUME NEW t \in SessionIds, EndSession(t)
      PROVE  KeptBy(s)
  <2>1. CASE t = s
    BY <1>3, <2>1 DEF EndSession, KeptBy, StoreTypeOK, Live
  <2>2. CASE t # s
    BY <1>3, <2>2, UntouchedKept DEF EndSession, StoreTypeOK
  <2> QED BY <2>1, <2>2
<1>4. CASE UNCHANGED storeVars
  BY <1>4, UntouchedKept DEF storeVars
<1> QED BY <1>1, <1>2, <1>3, <1>4 DEF StoreNext

(* While a session lives, its metadata is fixed and its count and request  *)
(* list only grow.                                                         *)
THEOREM StoreFirstCallWins == StoreSpec => FirstCallWins
<1>1. StoreTypeOK /\ [StoreNext]_storeVars =>
        [\A s \in SessionIds :
           Live(s) /\ Live(s)' =>
             /\ sessions'[s].meta = sessions[s].meta
             /\ sessions'[s].requestCount >= sessions[s].requestCount
             /\ IdsOf(s) \subseteq IdsOf(s)']_storeVars
  BY StepKeeps DEF KeptBy
<1> QED BY <1>1, StoreTypeCorrect, PTL DEF StoreSpec, FirstCallWins

-----------------------------------------------------------------------------
(* What a task's record looks like by itself: its fields are typed, and    *)
(* where it stands says which of them are still, or no longer, blank.      *)
Fits(q) == /\ q.kind = "http" <=> q.rpcs = <<>>
           /\ q.kind = "mcp" => Len(q.rpcs) = 1

AskedSo(k) ==
  /\ k.pc # "idle" => k.req \in Request /\ Fits(k.req)
  /\ k.pc \in {"close", "log"} => k.req.kind = "http"

(* Results wait only between the upstream and the stages, and where a      *)
(* session was closed there are none.                                      *)
AnsweredSo(k) ==
  /\ k.answers # <<>> => k.pc \in {"upstream", "track", "publish"}
  /\ k.pc = "upstream" => IF k.req.kind = "http" THEN k.answers = <<>>
                          ELSE Len(k.answers) < Len(k.req.rpcs)
  /\ k.pc = "publish" /\ k.inHand.state = "closed" =>
       k.answers = <<>> /\ k.reply = "none" /\ k.req.kind = "http"
  /\ \A i \in 1 .. Len(k.answers) : k.answers[i].ok => k.answers[i].id \in k.succeeded

RepliedSo(k) ==
  /\ k.pc \in {"idle", "upstream", "close", "log"} => k.reply = "none"
  /\ k.pc = "stream" => k.reply = "stream"
  /\ k.reply = "none" => k.logged = 0 /\ k.orphans = 0 /\ k.frames = 0
  /\ k.reply = "answer" => k.pc = "done" /\ k.logged = 1 /\ k.orphans = 0
  /\ k.reply = "bad_gateway" => k.pc = "done" /\ k.logged = 0 /\ k.orphans = 1
  /\ k.reply = "stream" =>
       /\ k.pc \in {"stream", "track", "publish", "done", "gone"}
       /\ k.req.kind = "mcp"
       /\ k.orphans = 0
       /\ k.frames = IF k.pc \in {"track", "publish"} THEN k.logged + 1 ELSE k.logged

TracedSo(k) ==
  /\ k.pc \in {"idle", "upstream"} => k.counted = {}
  /\ k.pc = "idle" => k.succeeded = {}
  /\ k.pc = "upstream" /\ k.req.kind = "http" => k.succeeded = {}
  /\ k.reply = "bad_gateway" => k.counted = {}

TaskOK(k) == /\ k \in Task
             /\ k.pc = "publish" <=> k.inHand # NoSnapshot
             /\ AskedSo(k)
             /\ AnsweredSo(k)
             /\ RepliedSo(k)
             /\ TracedSo(k)

TasksOK == \A t \in Tasks : TaskOK(task[t])

(* What a snapshot of s would say if it were taken now. *)
Current(s, snapshot) ==
  IF Live(s) THEN snapshot = [id |-> s, state |-> "active", count |-> sessions[s].requestCount]
             ELSE snapshot.state = "closed"

Holds(t, s) == task[t].inHand # NoSnapshot /\ task[t].inHand.id = s

(* A session that was not overtaken has one snapshot on its way at most,   *)
(* and that one is up to date.                                             *)
HeldOnce ==
  \A s \in SessionIds \ overtaken : \A t \in Tasks :
    Holds(t, s) => /\ Current(s, task[t].inHand)
                   /\ \A u \in Tasks : Holds(u, s) => u = t

PipelineInv == /\ StoreTypeOK
               /\ task \in [Tasks -> Task]
               /\ row \in [SessionIds -> Snapshot \cup {NoRow}]
               /\ overtaken \subseteq SessionIds
               /\ dropped \subseteq SessionIds
               /\ TasksOK
               /\ HeldOnce
               /\ MirroredUnlessOvertaken
               /\ CountedRequestsSucceeded

-----------------------------------------------------------------------------
(* A step of one task, seen through that task's record. *)
LEMMA OneTask ==
  ASSUME task \in [Tasks -> Task], TasksOK,
         NEW t \in Tasks, NEW k, TaskOK(k), task' = [task EXCEPT ![t] = k]
  PROVE  /\ task' \in [Tasks -> Task]
         /\ TasksOK'
         /\ task'[t] = k
         /\ \A u \in Tasks \ {t} : task'[u] = task[u]
<1>1. k \in Task
  BY DEF TaskOK
<1>2. /\ task' \in [Tasks -> Task]
      /\ task'[t] = k
      /\ \A u \in Tasks \ {t} : task'[u] = task[u]
  BY <1>1
<1>3. \A u \in Tasks : TaskOK(task'[u])
  BY <1>2 DEF TasksOK
<1> QED BY <1>2, <1>3 DEF TasksOK

(* The steps of a task that wait for the upstream or the client, as        *)
(* changes of its record.                                                  *)
LEMMA ArriveRecord ==
  ASSUME NEW k, TaskOK(k), k.pc = "idle", NEW q \in Request, Fits(q)
  PROVE  TaskOK([k EXCEPT !.pc = "upstream", !.req = q])
<1> DEFINE n == [k EXCEPT !.pc = "upstream", !.req = q]
<1>1. k \in Task
  BY DEF TaskOK
<1>2. /\ n \in Task
      /\ n.pc = "upstream" /\ n.req = q
      /\ n.answers = k.answers /\ n.inHand = k.inHand /\ n.frames = k.frames
      /\ n.reply = k.reply /\ n.logged = k.logged /\ n.orphans = k.orphans
      /\ n.counted = k.counted /\ n.succeeded = k.succeeded
  BY <1>1 DEF Task
<1> HIDE DEF n
<1>3. k.answers = <<>> /\ Len(k.answers) = 0
  BY DEF TaskOK, AnsweredSo
<1>4. AskedSo(n)
  BY <1>2 DEF AskedSo
<1>5. AnsweredSo(n)
  <2>1. q.kind # "http" => q.rpcs # <<>> /\ Len(q.rpcs) > 0
    BY DEF Fits, Request
  <2> QED BY <1>2, <1>3, <2>1 DEF AnsweredSo
<1>6. RepliedSo(n)
  BY <1>2 DEF TaskOK, RepliedSo
<1>7. TracedSo(n)
  BY <1>2 DEF TaskOK, TracedSo, RepliedSo
<1> QED BY <1>2, <1>4, <1>5, <1>6, <1>7 DEF TaskOK, n
(* The next result of a call or a batch is in. *)
LEMMA AnswerRecord ==
  ASSUME NEW k, TaskOK(k), k.pc = "upstream", k.req.kind # "http",
         NEW ok \in BOOLEAN, NEW id \in RequestIds,
         NEW s \in SessionIds \cup {NoSession}
  PROVE  TaskOK([k EXCEPT
           !.answers = Append(@, [ok |-> ok, id |-> id]),
           !.succeeded = IF ok THEN @ \cup {id} ELSE @,
           !.issued = s,
           !.pc = IF Len(k.answers) + 1 = Len(k.req.rpcs) THEN "track" ELSE "upstream"])
<1> DEFINE n == [k EXCEPT
           !.answers = Append(@, [ok |-> ok, id |-> id]),
           !.succeeded = IF ok THEN @ \cup {id} ELSE @,
           !.issued = s,
           !.pc = IF Len(k.answers) + 1 = Len(k.req.rpcs) THEN "track" ELSE "upstream"]
<1>1. /\ k \in Task /\ k.req \in Request /\ k.req.rpcs \in Seq(RequestIds)
      /\ k.answers \in Seq(Answer)
      /\ Len(k.answers) < Len(k.req.rpcs)
  BY DEF TaskOK, AskedSo, AnsweredSo, Task, Request
<1>2. [ok |-> ok, id |-> id] \in Answer
  BY DEF Answer
<1>3. /\ Append(k.answers, [ok |-> ok, id |-> id]) \in Seq(Answer)
      /\ Len(Append(k.answers, [ok |-> ok, id |-> id])) = Len(k.answers) + 1
      /\ \A i \in 1 .. Len(k.answers) :
           Append(k.answers, [ok |-> ok, id |-> id])[i] = k.answers[i]
      /\ Append(k.answers, [ok |-> ok, id |-> id])[Len(k.answers) + 1] = [ok |-> ok, id |-> id]
  BY <1>1, <1>2
<1>4. /\ n \in Task
      /\ n.pc = IF Len(k.answers) + 1 = Len(k.req.rpcs) THEN "track" ELSE "upstream"
      /\ n.answers = Append(k.answers, [ok |-> ok, id |-> id])
      /\ n.succeeded = IF ok THEN k.succeeded \cup {id} ELSE k.succeeded
      /\ n.req = k.req /\ n.inHand = k.inHand /\ n.frames = k.frames
      /\ n.reply = k.reply /\ n.logged = k.logged /\ n.orphans = k.orphans
      /\ n.counted = k.counted
  BY ZenonT(30), <1>1, <1>2, <1>3 DEF Task
<1> HIDE DEF n
<1>5. AskedSo(n)
  BY <1>4 DEF TaskOK, AskedSo
<1>6. AnsweredSo(n)
  <2>1. n.pc \in {"upstream", "track"} /\ n.req.kind # "http"
    BY <1>4
  <2>2. n.pc = "upstream" => Len(n.answers) < Len(n.req.rpcs)
    BY <1>1, <1>3, <1>4
  <2>3. ASSUME NEW i \in 1 .. Len(n.answers), n.answers[i].ok
        PROVE  n.answers[i].id \in n.succeeded
    <3>1. CASE i \in 1 .. Len(k.answers)
      BY <2>3, <3>1, <1>3, <1>4 DEF TaskOK, AnsweredSo
    <3>2. CASE i = Len(k.answers) + 1
      BY <2>3, <3>2, <1>3, <1>4
    <3> QED BY <3>1, <3>2, <1>1, <1>3, <1>4
  <2> QED BY <2>1, <2>2, <2>3 DEF AnsweredSo
<1>7. RepliedSo(n)
  BY <1>4 DEF TaskOK, RepliedSo
<1>8. TracedSo(n)
  BY <1>4 DEF TaskOK, TracedSo, RepliedSo
<1> QED BY <1>4, <1>5, <1>6, <1>7, <1>8 DEF TaskOK, n

LEMMA AnswerHttpRecord ==
  ASSUME NEW k, TaskOK(k), k.pc = "upstream", k.req.kind = "http"
  PROVE  TaskOK([k EXCEPT !.pc = "close"])
<1> DEFINE n == [k EXCEPT !.pc = "close"]
<1>1. k \in Task
  BY DEF TaskOK
<1>2. /\ n \in Task
      /\ n.pc = "close"
      /\ n.req = k.req /\ n.answers = k.answers /\ n.inHand = k.inHand
      /\ n.frames = k.frames /\ n.reply = k.reply /\ n.logged = k.logged
      /\ n.orphans = k.orphans /\ n.counted = k.counted /\ n.succeeded = k.succeeded
  BY <1>1 DEF Task
<1> HIDE DEF n
<1>3. AskedSo(n)
  BY <1>2 DEF TaskOK, AskedSo
<1>4. AnsweredSo(n)
  BY <1>2 DEF TaskOK, AnsweredSo
<1>5. RepliedSo(n)
  BY <1>2 DEF TaskOK, RepliedSo
<1>6. TracedSo(n)
  BY <1>2 DEF TaskOK, TracedSo, RepliedSo
<1> QED BY <1>2, <1>3, <1>4, <1>5, <1>6 DEF TaskOK, n

(* A plain HTTP request answered with results. *)
LEMMA AnswerRpcRecord ==
  ASSUME NEW k, TaskOK(k), k.pc = "upstream", k.req.kind = "http",
         NEW results \in Seq(Answer)
  PROVE  TaskOK([k EXCEPT !.answers = results,
                          !.succeeded = {a.id : a \in {b \in Range(results) : b.ok}},
                          !.pc = "track"])
<1> DEFINE good == {a.id : a \in {b \in Range(results) : b.ok}}
           n == [k EXCEPT !.answers = results, !.succeeded = good, !.pc = "track"]
<1>1. /\ k \in Task
      /\ \A i \in 1 .. Len(results) : results[i] \in Range(results) /\ results[i] \in Answer
      /\ Range(results) \subseteq Answer
  BY DEF TaskOK, Range
<1>2. /\ good \subseteq RequestIds
      /\ \A i \in 1 .. Len(results) : results[i].ok => results[i].id \in good
  BY <1>1 DEF Answer
<1> HIDE DEF good
<1>3. /\ n \in Task
      /\ n.pc = "track" /\ n.answers = results /\ n.succeeded = good
      /\ n.req = k.req /\ n.inHand = k.inHand
      /\ n.frames = k.frames /\ n.reply = k.reply /\ n.logged = k.logged
      /\ n.orphans = k.orphans /\ n.counted = k.counted
  BY <1>1, <1>2 DEF Task
<1> HIDE DEF n
<1>4. AskedSo(n)
  BY <1>3 DEF TaskOK, AskedSo
<1>5. AnsweredSo(n)
  BY <1>2, <1>3 DEF AnsweredSo
<1>6. RepliedSo(n)
  BY <1>3 DEF TaskOK, RepliedSo
<1>7. TracedSo(n)
  BY <1>3 DEF TaskOK, TracedSo, RepliedSo
<1>8. n.pc = "publish" <=> n.inHand # NoSnapshot
  BY <1>3 DEF TaskOK
<1> QED BY <1>3, <1>4, <1>5, <1>6, <1>7, <1>8 DEF TaskOK, n, good

(* The answer is a 502: no stage ran, so nothing was counted. *)
LEMMA FailRecord ==
  ASSUME NEW k, TaskOK(k), k.pc = "upstream"
  PROVE  TaskOK([k EXCEPT !.pc = "done", !.reply = "bad_gateway",
                          !.answers = <<>>, !.orphans = @ + 1])
<1> DEFINE n == [k EXCEPT !.pc = "done", !.reply = "bad_gateway",
                          !.answers = <<>>, !.orphans = @ + 1]
<1>1. k \in Task /\ <<>> \in Seq(Answer) /\ k.orphans + 1 \in Nat
  BY EmptySeq DEF TaskOK, Task
<1>2. /\ n \in Task
      /\ n.pc = "done" /\ n.reply = "bad_gateway" /\ n.answers = <<>>
      /\ n.orphans = k.orphans + 1
      /\ n.req = k.req /\ n.inHand = k.inHand /\ n.frames = k.frames
      /\ n.logged = k.logged /\ n.counted = k.counted /\ n.succeeded = k.succeeded
  BY <1>1 DEF Task
<1> HIDE DEF n
<1>3. AskedSo(n)
  BY <1>2 DEF TaskOK, AskedSo
<1>4. AnsweredSo(n)
  BY <1>2 DEF AnsweredSo
<1>5. RepliedSo(n)
  BY <1>2 DEF TaskOK, RepliedSo
<1>6. TracedSo(n)
  BY <1>2 DEF TaskOK, TracedSo
<1> QED BY <1>2, <1>3, <1>4, <1>5, <1>6 DEF TaskOK, n

LEMMA StreamRecord ==
  ASSUME NEW k, TaskOK(k), k.pc = "upstream", k.req.kind = "mcp",
         NEW s \in SessionIds \cup {NoSession}
  PROVE  TaskOK([k EXCEPT !.pc = "stream", !.issued = s, !.reply = "stream"])
<1> DEFINE n == [k EXCEPT !.pc = "stream", !.issued = s, !.reply = "stream"]
<1>1. k \in Task
  BY DEF TaskOK
<1>2. /\ n \in Task
      /\ n.pc = "stream" /\ n.reply = "stream"
      /\ n.req = k.req /\ n.answers = k.answers /\ n.inHand = k.inHand
      /\ n.frames = k.frames /\ n.logged = k.logged
      /\ n.orphans = k.orphans /\ n.counted = k.counted /\ n.succeeded = k.succeeded
  BY <1>1 DEF Task
<1> HIDE DEF n
<1>3. AskedSo(n)
  BY <1>2 DEF TaskOK, AskedSo
<1>4. AnsweredSo(n)
  <2>1. k.answers \in Seq(Answer) /\ Len(k.answers) \in Nat
    BY <1>1 DEF Task
  <2>2. Len(k.answers) < Len(k.req.rpcs) /\ Len(k.req.rpcs) = 1
    BY DEF TaskOK, AskedSo, AnsweredSo, Fits
  <2>3. k.answers = <<>>
    BY <2>1, <2>2, EmptySeq
  <2> QED BY <2>3, <1>2 DEF AnsweredSo
<1>5. RepliedSo(n)
  BY <1>2 DEF TaskOK, RepliedSo
<1>6. TracedSo(n)
  BY <1>2 DEF TracedSo
<1> QED BY <1>2, <1>3, <1>4, <1>5, <1>6 DEF TaskOK, n
LEMMA FrameRecord ==
  ASSUME NEW k, TaskOK(k), k.pc = "stream", NEW ok \in BOOLEAN, NEW id \in RequestIds
  PROVE  TaskOK([k EXCEPT !.answers = <<[ok |-> ok, id |-> id]>>,
                          !.succeeded = IF ok THEN @ \cup {id} ELSE @,
                          !.frames = @ + 1,
                          !.pc = "track"])
<1> DEFINE answer == [ok |-> ok, id |-> id]
           n == [k EXCEPT !.answers = <<answer>>,
                          !.succeeded = IF ok THEN @ \cup {id} ELSE @,
                          !.frames = @ + 1,
                          !.pc = "track"]
<1>1. /\ k \in Task /\ k.frames + 1 \in Nat
      /\ k.reply = "stream" /\ k.req.kind = "mcp"
  BY DEF TaskOK, RepliedSo, Task
<1>2. answer \in Answer
  BY DEF Answer
<1>3. answer.ok = ok /\ answer.id = id
  OBVIOUS
<1> HIDE DEF answer
<1>4. <<answer>> \in Seq(Answer) /\ Len(<<answer>>) = 1 /\ <<answer>>[1] = answer
  BY <1>2
<1>5. /\ n \in Task
      /\ n.pc = "track" /\ n.answers = <<answer>> /\ n.frames = k.frames + 1
      /\ n.succeeded = IF ok THEN k.succeeded \cup {id} ELSE k.succeeded
      /\ n.req = k.req /\ n.inHand = k.inHand /\ n.reply = k.reply
      /\ n.logged = k.logged /\ n.orphans = k.orphans /\ n.counted = k.counted
  BY <1>1, <1>2, <1>4 DEF Task
<1> HIDE DEF n
<1>6. AskedSo(n)
  BY <1>5 DEF TaskOK, AskedSo
<1>7. AnsweredSo(n)
  <2>1. \A i \in 1 .. Len(n.answers) : i = 1 /\ n.answers[i] = answer
    BY <1>4, <1>5
  <2> QED BY <1>1, <1>3, <1>5, <2>1 DEF AnsweredSo
<1>8. RepliedSo(n)
  BY <1>1, <1>5 DEF TaskOK, RepliedSo
<1>9. TracedSo(n)
  BY <1>1, <1>5 DEF TracedSo
<1>10. n.pc = "publish" <=> n.inHand # NoSnapshot
  BY <1>5 DEF TaskOK
<1> QED BY <1>5, <1>6, <1>7, <1>8, <1>9, <1>10 DEF TaskOK, n, answer

(* A stream that ends, well or badly. *)
LEMMA StreamEndRecord ==
  ASSUME NEW k, TaskOK(k), k.pc = "stream"
  PROVE  TaskOK([k EXCEPT !.pc = "done"])
<1> DEFINE n == [k EXCEPT !.pc = "done"]
<1>1. k \in Task /\ k.reply = "stream"
  BY DEF TaskOK, RepliedSo
<1>2. /\ n \in Task
      /\ n.pc = "done"
      /\ n.req = k.req /\ n.answers = k.answers /\ n.inHand = k.inHand
      /\ n.frames = k.frames /\ n.reply = k.reply /\ n.logged = k.logged
      /\ n.orphans = k.orphans /\ n.counted = k.counted /\ n.succeeded = k.succeeded
  BY <1>1 DEF Task
<1> HIDE DEF n
<1>3. AskedSo(n)
  BY <1>2 DEF TaskOK, AskedSo
<1>4. AnsweredSo(n)
  BY <1>2 DEF TaskOK, AnsweredSo
<1>5. RepliedSo(n)
  BY <1>1, <1>2 DEF TaskOK, RepliedSo
<1>6. TracedSo(n)
  BY <1>1, <1>2 DEF TracedSo
<1> QED BY <1>2, <1>3, <1>4, <1>5, <1>6 DEF TaskOK, n

(* A client that goes away leaves the events as they are. *)
LEMMA DisconnectRecord ==
  ASSUME NEW k, TaskOK(k), k.pc \in {"upstream", "stream"}
  PROVE  TaskOK([k EXCEPT !.pc = "gone", !.answers = <<>>])
<1> DEFINE n == [k EXCEPT !.pc = "gone", !.answers = <<>>]
<1>1. k \in Task /\ <<>> \in Seq(Answer)
  BY EmptySeq DEF TaskOK
<1>2. /\ n \in Task
      /\ n.pc = "gone" /\ n.answers = <<>>
      /\ n.req = k.req /\ n.inHand = k.inHand
      /\ n.frames = k.frames /\ n.reply = k.reply /\ n.logged = k.logged
      /\ n.orphans = k.orphans /\ n.counted = k.counted /\ n.succeeded = k.succeeded
  BY <1>1 DEF Task
<1> HIDE DEF n
<1>3. AskedSo(n)
  BY <1>2 DEF TaskOK, AskedSo
<1>4. AnsweredSo(n)
  BY <1>2 DEF AnsweredSo
<1>5. RepliedSo(n)
  BY <1>2 DEF TaskOK, RepliedSo
<1>6. TracedSo(n)
  BY <1>2 DEF TaskOK, TracedSo, RepliedSo
<1> QED BY <1>2, <1>3, <1>4, <1>5, <1>6 DEF TaskOK, n

-----------------------------------------------------------------------------
(* The stages: results are taken one by one from the front. *)
LEMMA RestAnswered ==
  ASSUME NEW answers \in Seq(Answer), answers # <<>>, NEW succeeded,
         \A i \in 1 .. Len(answers) : answers[i].ok => answers[i].id \in succeeded
  PROVE  /\ Tail(answers) \in Seq(Answer)
         /\ \A i \in 1 .. Len(Tail(answers)) :
              Tail(answers)[i].ok => Tail(answers)[i].id \in succeeded
         /\ Head(answers) \in Answer
         /\ Head(answers).ok => Head(answers).id \in succeeded
<1>1. /\ Len(answers) \in Nat /\ Len(answers) >= 1
      /\ Head(answers) = answers[1] /\ Head(answers) \in Answer
      /\ Tail(answers) \in Seq(Answer)
      /\ Len(Tail(answers)) = Len(answers) - 1
      /\ \A i \in 1 .. Len(Tail(answers)) : Tail(answers)[i] = answers[i + 1]
  BY HeadTailProperties, EmptySeq, LenProperties
<1>2. \A i \in 1 .. Len(Tail(answers)) : i + 1 \in 1 .. Len(answers)
  BY <1>1
<1>3. 1 \in 1 .. Len(answers)
  BY <1>1
<1> QED BY <1>1, <1>2, <1>3

LEMMA SkipRecord ==
  ASSUME NEW k, TaskOK(k), k.pc = "track", k.answers # <<>>
  PROVE  TaskOK([k EXCEPT !.answers = Tail(@)])
<1> DEFINE n == [k EXCEPT !.answers = Tail(@)]
<1>1. k \in Task /\ k.answers \in Seq(Answer)
  BY DEF TaskOK, Task
<1>2. /\ Tail(k.answers) \in Seq(Answer)
      /\ \A i \in 1 .. Len(Tail(k.answers)) :
           Tail(k.answers)[i].ok => Tail(k.answers)[i].id \in k.succeeded
  BY <1>1, RestAnswered DEF TaskOK, AnsweredSo
<1>3. /\ n \in Task
      /\ n.answers = Tail(k.answers)
      /\ n.pc = k.pc /\ n.req = k.req /\ n.inHand = k.inHand
      /\ n.frames = k.frames /\ n.reply = k.reply /\ n.logged = k.logged
      /\ n.orphans = k.orphans /\ n.counted = k.counted /\ n.succeeded = k.succeeded
  BY <1>1, <1>2 DEF Task
<1> HIDE DEF n
<1>4. AskedSo(n)
  BY <1>3 DEF TaskOK, AskedSo
<1>5. AnsweredSo(n)
  BY <1>2, <1>3 DEF TaskOK, AnsweredSo
<1>6. RepliedSo(n)
  BY <1>3 DEF TaskOK, RepliedSo
<1>7. TracedSo(n)
  BY <1>3 DEF TaskOK, TracedSo
<1> QED BY <1>3, <1>4, <1>5, <1>6, <1>7 DEF TaskOK, n
(* A result or a DELETE that changes the store leaves a snapshot in hand. *)
LEMMA TakeRecord ==
  ASSUME NEW k, TaskOK(k), NEW snapshot \in Snapshot,
         \/ k.pc = "track" /\ k.answers # <<>> /\ snapshot.state = "active"
         \/ k.pc = "close"
  PROVE  TaskOK([k EXCEPT !.pc = "publish",
                          !.inHand = snapshot,
                          !.answers = IF @ = <<>> THEN <<>> ELSE Tail(@),
                          !.counted = IF k.answers = <<>> THEN @
                                      ELSE @ \cup {Head(k.answers).id}])
<1> DEFINE rest == IF k.answers = <<>> THEN <<>> ELSE Tail(k.answers)
           more == IF k.answers = <<>> THEN k.counted
                   ELSE k.counted \cup {Head(k.answers).id}
           n == [k EXCEPT !.pc = "publish",
                          !.inHand = snapshot,
                          !.answers = IF @ = <<>> THEN <<>> ELSE Tail(@),
                          !.counted = IF k.answers = <<>> THEN @
                                      ELSE @ \cup {Head(k.answers).id}]
<1>1. k \in Task /\ k.answers \in Seq(Answer) /\ k.counted \subseteq RequestIds
  BY DEF TaskOK, Task
<1>2. /\ rest \in Seq(Answer)
      /\ \A i \in 1 .. Len(rest) : rest[i].ok => rest[i].id \in k.succeeded
      /\ k.answers = <<>> => rest = <<>>
      /\ more \subseteq RequestIds
  <2>1. CASE k.answers = <<>>
    BY <2>1, <1>1, EmptySeq
  <2>2. CASE k.answers # <<>>
    <3>1. /\ Tail(k.answers) \in Seq(Answer)
          /\ \A i \in 1 .. Len(Tail(k.answers)) :
               Tail(k.answers)[i].ok => Tail(k.answers)[i].id \in k.succeeded
          /\ Head(k.answers).id \in RequestIds
      BY <2>2, <1>1, RestAnswered DEF TaskOK, AnsweredSo, Answer
    <3> QED BY <2>2, <3>1, <1>1
  <2> QED BY <2>1, <2>2
<1>3. /\ n.pc = "publish" /\ n.inHand = snapshot
      /\ n.answers = rest /\ n.counted = more
      /\ n.req = k.req /\ n.frames = k.frames /\ n.reply = k.reply
      /\ n.logged = k.logged /\ n.orphans = k.orphans /\ n.succeeded = k.succeeded
  BY <1>1 DEF Task
<1>4. n = [k EXCEPT !.pc = "publish", !.inHand = snapshot,
                    !.answers = rest, !.counted = more]
  OBVIOUS
<1> HIDE DEF n, rest, more
<1>5. n \in Task
  BY <1>1, <1>2, <1>4 DEF Task
<1>6. AskedSo(n)
  BY <1>3 DEF TaskOK, AskedSo
<1>7. AnsweredSo(n)
  BY <1>2, <1>3 DEF TaskOK, AnsweredSo, AskedSo, RepliedSo
<1>8. RepliedSo(n)
  BY <1>3 DEF TaskOK, RepliedSo
<1>9. TracedSo(n)
  BY <1>3 DEF TaskOK, TracedSo, RepliedSo
<1>10. n.inHand # NoSnapshot
  BY <1>3, SnapshotAssumption
<1> QED BY <1>3, <1>5, <1>6, <1>7, <1>8, <1>9, <1>10 DEF TaskOK, n

LEMMA NothingToCloseRecord ==
  ASSUME NEW k, TaskOK(k), k.pc = "close"
  PROVE  TaskOK([k EXCEPT !.pc = "log"])
<1> DEFINE n == [k EXCEPT !.pc = "log"]
<1>1. k \in Task
  BY DEF TaskOK
<1>2. /\ n \in Task
      /\ n.pc = "log"
      /\ n.req = k.req /\ n.answers = k.answers /\ n.inHand = k.inHand
      /\ n.frames = k.frames /\ n.reply = k.reply /\ n.logged = k.logged
      /\ n.orphans = k.orphans /\ n.counted = k.counted /\ n.succeeded = k.succeeded
  BY <1>1 DEF Task
<1> HIDE DEF n
<1>3. AskedSo(n)
  BY <1>2 DEF TaskOK, AskedSo
<1>4. AnsweredSo(n)
  BY <1>2 DEF TaskOK, AnsweredSo
<1>5. RepliedSo(n)
  BY <1>2 DEF TaskOK, RepliedSo
<1>6. TracedSo(n)
  BY <1>2 DEF TaskOK, TracedSo, RepliedSo
<1> QED BY <1>2, <1>3, <1>4, <1>5, <1>6 DEF TaskOK, n

LEMMA PublishRecord ==
  ASSUME NEW k, TaskOK(k), k.pc = "publish"
  PROVE  TaskOK([k EXCEPT !.inHand = NoSnapshot,
                          !.pc = IF k.inHand.state = "closed" THEN "log" ELSE "track"])
<1> DEFINE n == [k EXCEPT !.inHand = NoSnapshot,
                          !.pc = IF k.inHand.state = "closed" THEN "log" ELSE "track"]
<1>1. k \in Task
  BY DEF TaskOK
<1>2. /\ n \in Task
      /\ n.pc = IF k.inHand.state = "closed" THEN "log" ELSE "track"
      /\ n.inHand = NoSnapshot
      /\ n.req = k.req /\ n.answers = k.answers
      /\ n.frames = k.frames /\ n.reply = k.reply /\ n.logged = k.logged
      /\ n.orphans = k.orphans /\ n.counted = k.counted /\ n.succeeded = k.succeeded
  BY <1>1 DEF Task
<1> HIDE DEF n
<1>3. AskedSo(n)
  BY <1>2 DEF TaskOK, AskedSo, AnsweredSo
<1>4. AnsweredSo(n)
  BY <1>2 DEF TaskOK, AnsweredSo
<1>5. RepliedSo(n)
  <2>1. k.reply \in {"none", "stream"}
    BY <1>1 DEF TaskOK, RepliedSo, Task
  <2>2. n.pc \in {"log", "track"} /\ (n.pc = "log" => k.reply = "none")
    BY <1>2 DEF TaskOK, AnsweredSo
  <2> QED BY <2>1, <2>2, <1>2 DEF TaskOK, RepliedSo
<1>6. TracedSo(n)
  BY <1>2 DEF TaskOK, TracedSo, RepliedSo
<1> QED BY <1>2, <1>3, <1>4, <1>5, <1>6 DEF TaskOK, n

(* One event for an answer, and one for each frame. *)
LEMMA LogRecord ==
  ASSUME NEW k, TaskOK(k), k.pc = "log" \/ (k.pc = "track" /\ k.answers = <<>>)
  PROVE  TaskOK([k EXCEPT !.logged = @ + 1,
                          !.pc = IF k.reply = "stream" THEN "stream" ELSE "done",
                          !.reply = IF @ = "stream" THEN @ ELSE "answer"])
<1> DEFINE n == [k EXCEPT !.logged = @ + 1,
                          !.pc = IF k.reply = "stream" THEN "stream" ELSE "done",
                          !.reply = IF @ = "stream" THEN @ ELSE "answer"]
<1>1. /\ k \in Task /\ k.logged \in Nat /\ k.logged + 1 \in Nat
      /\ k.answers = <<>>
      /\ k.reply \in {"none", "stream"}
  BY DEF TaskOK, AnsweredSo, RepliedSo, Task
<1>2. /\ n.pc = IF k.reply = "stream" THEN "stream" ELSE "done"
      /\ n.reply = IF k.reply = "stream" THEN "stream" ELSE "answer"
      /\ n.logged = k.logged + 1
      /\ n.req = k.req /\ n.answers = k.answers /\ n.inHand = k.inHand
      /\ n.frames = k.frames
      /\ n.orphans = k.orphans /\ n.counted = k.counted /\ n.succeeded = k.succeeded
  BY <1>1 DEF Task
<1>3. n \in Task
  BY <1>1 DEF Task
<1> HIDE DEF n
<1>4. AskedSo(n)
  BY <1>2 DEF TaskOK, AskedSo
<1>5. AnsweredSo(n)
  BY <1>1, <1>2 DEF TaskOK, AnsweredSo
<1>6. RepliedSo(n)
  BY <1>1, <1>2 DEF TaskOK, RepliedSo
<1>7. TracedSo(n)
  BY <1>2 DEF TaskOK, TracedSo, RepliedSo
<1>8. n.pc # "publish" /\ n.inHand = NoSnapshot
  BY <1>2 DEF TaskOK
<1> QED BY <1>3, <1>4, <1>5, <1>6, <1>7, <1>8 DEF TaskOK, n
-----------------------------------------------------------------------------
(* A step that changes neither the store nor what is in hand disturbs      *)
(* neither the mirror nor the witnesses of what was counted.               *)
LEMMA QuietStep ==
  ASSUME PipelineInv, UNCHANGED <<storeVars, row, overtaken, dropped>>,
         NEW t \in Tasks, NEW k, TaskOK(k), task' = [task EXCEPT ![t] = k],
         k.inHand = task[t].inHand,
         k.counted = task[t].counted, task[t].succeeded \subseteq k.succeeded,
         task[t].counted # {} => k.req = task[t].req /\ k.issued = task[t].issued
  PROVE  PipelineInv'
<1>1. /\ task' \in [Tasks -> Task]
      /\ TasksOK'
      /\ task'[t] = k
      /\ \A u \in Tasks \ {t} : task'[u] = task[u]
  BY OneTask DEF PipelineInv
<1>2. \A u \in Tasks : task'[u].inHand = task[u].inHand
  BY <1>1
<1>3. sessions' = sessions /\ requestIds' = requestIds
  BY DEF storeVars
<1>4. HeldOnce'
  BY <1>2, <1>3 DEF PipelineInv, HeldOnce, Holds, Current, Live
<1>5. MirroredUnlessOvertaken'
  BY <1>2, <1>3 DEF PipelineInv, MirroredUnlessOvertaken, InHand, Mirrored, Live
<1>6. \A u \in Tasks, r \in RequestIds :
        r \in task[u].counted \cap task[u].succeeded =>
          /\ r \in task'[u].counted \cap task'[u].succeeded
          /\ task'[u].req = task[u].req /\ task'[u].issued = task[u].issued
  BY <1>1
<1>7. CountedRequestsSucceeded'
  <2> SUFFICES ASSUME NEW s \in SessionIds, Live(s), NEW r \in IdsOf(s)
               PROVE  \E u \in Tasks :
                        /\ r \in task'[u].counted \cap task'[u].succeeded
                        /\ task'[u].req.session = s \/ task'[u].issued = s
    BY <1>3 DEF CountedRequestsSucceeded, Live, IdsOf, Req
  <2>1. PICK u \in Tasks : /\ r \in task[u].counted \cap task[u].succeeded
                           /\ task[u].req.session = s \/ task[u].issued = s
    BY DEF PipelineInv, CountedRequestsSucceeded, Req
  <2>2. r \in RequestIds
    BY <2>1 DEF PipelineInv, Task
  <2> QED BY <1>6, <2>1, <2>2
<1>8. StoreTypeOK' /\ row' \in [SessionIds -> Snapshot \cup {NoRow}]
      /\ overtaken' \subseteq SessionIds /\ dropped' \subseteq SessionIds
  BY <1>3 DEF PipelineInv, StoreTypeOK
<1> QED BY <1>1, <1>4, <1>5, <1>7, <1>8 DEF PipelineInv

(* What a stage that changes session s in the store leaves true: info is   *)
(* what becomes of s, and every id it lists was listed before or is that   *)
(* of the result at hand.                                                  *)
LEMMA StoreStep ==
  ASSUME PipelineInv, NEW t \in Tasks, NEW s \in SessionIds, NEW state, NEW count,
         NEW info \in SessionInfo \cup {Absent},
         \/ At(t, "track") /\ task[t].answers # <<>> /\ info # Absent
         \/ At(t, "close"),
         Take(t, s, state, count),
         sessions' = [sessions EXCEPT ![s] = info],
         requestIds' \in [RequestIds -> SessionIds \cup {NoSession}],
         count \in Nat \ {0},
         IF info = Absent THEN state = "closed"
                          ELSE state = "active" /\ count = info.requestCount,
         info # Absent =>
           \A r \in Range(info.requestIds) :
             \/ Live(s) /\ r \in IdsOf(s)
             \/ /\ task[t].answers # <<>>
                /\ Result(t).ok /\ r = Result(t).id
                /\ Req(t).session = s \/ task[t].issued = s
  PROVE  PipelineInv'
<1> DEFINE snapshot == [id |-> s, state |-> state, count |-> count]
           k == [task[t] EXCEPT !.pc = "publish",
                   !.inHand = snapshot,
                   !.answers = IF @ = <<>> THEN <<>> ELSE Tail(@),
                   !.counted = IF task[t].answers = <<>> THEN @
                               ELSE @ \cup {Head(task[t].answers).id}]
<1>1. snapshot \in Snapshot /\ snapshot.id = s /\ snapshot.state = state
      /\ snapshot.count = count
  BY DEF Snapshot
<1>2. TaskOK(task[t]) /\ task[t] \in Task
  BY DEF PipelineInv, TasksOK, TaskOK
<1>3. TaskOK(k)
  BY <1>1, <1>2, TakeRecord DEF At
<1>4. task' = [task EXCEPT ![t] = k]
  BY DEF Take
<1>5. /\ k.inHand = snapshot /\ k.req = task[t].req /\ k.issued = task[t].issued
      /\ k.succeeded = task[t].succeeded /\ task[t].counted \subseteq k.counted
      /\ task[t].answers # <<>> => Head(task[t].answers).id \in k.counted
  BY <1>2 DEF Task
<1> HIDE DEF k
<1>6. /\ task' \in [Tasks -> Task]
      /\ TasksOK'
      /\ task'[t] = k
      /\ \A u \in Tasks \ {t} : task'[u] = task[u]
  BY <1>3, <1>4, OneTask DEF PipelineInv
<1>7. /\ task[t].inHand = NoSnapshot
      /\ snapshot # NoSnapshot
  BY <1>1, <1>2, SnapshotAssumption DEF TaskOK, At
<1>8. /\ row' = row /\ dropped' = dropped
      /\ overtaken \subseteq overtaken' /\ overtaken' \subseteq overtaken \cup {s}
      /\ s \notin overtaken' => \A u \in Tasks \ {t} : ~Holds(u, s)
  BY DEF Take, Holds
<1>9. /\ sessions'[s] = info
      /\ \A r \in SessionIds \ {s} : sessions'[r] = sessions[r]
  BY DEF PipelineInv, StoreTypeOK
<1> HIDE DEF snapshot
<1>10. /\ Holds(t, s)'
       /\ \A r \in SessionIds \ {s} : ~Holds(t, r)' /\ ~Holds(t, r)
       /\ \A r \in SessionIds, u \in Tasks \ {t} : Holds(u, r)' <=> Holds(u, r)
  BY <1>1, <1>5, <1>6, <1>7 DEF Holds
<1>11. Current(s, snapshot)'
  BY <1>1, <1>9 DEF Current, Live, snapshot
<1>12. HeldOnce'
  <2> SUFFICES ASSUME NEW r \in SessionIds, r \notin overtaken',
                      NEW v \in Tasks, Holds(v, r)'
               PROVE  /\ Current(r, task[v].inHand)'
                      /\ \A u \in Tasks : Holds(u, r)' => u = v
    BY DEF HeldOnce
  <2>1. CASE r = s
    <3>1. \A u \in Tasks : Holds(u, s)' => u = t
      BY <2>1, <1>8, <1>10
    <3>2. v = t
      BY <2>1, <3>1
    <3> QED BY <2>1, <3>1, <3>2, <1>5, <1>6, <1>11
  <2>2. CASE r # s
    <3>1. r \notin overtaken /\ v # t /\ Holds(v, r)
      BY <2>2, <1>8, <1>10
    <3>2. /\ Current(r, task[v].inHand)
          /\ \A u \in Tasks : Holds(u, r) => u = v
      BY <3>1 DEF PipelineInv, HeldOnce
    <3>3. Current(r, task[v].inHand)'
      BY <2>2, <3>1, <3>2, <1>6, <1>9 DEF Current, Live
    <3> QED BY <2>2, <3>1, <3>2, <3>3, <1>10
  <2> QED BY <2>1, <2>2
<1>13. MirroredUnlessOvertaken'
  <2> SUFFICES ASSUME NEW r \in SessionIds, r \notin overtaken' \cup dropped', ~InHand(r)'
               PROVE  Mirrored(r)'
    BY DEF MirroredUnlessOvertaken
  <2>1. r # s
    BY <1>10 DEF InHand, Holds
  <2>2. ~InHand(r) /\ r \notin overtaken \cup dropped
    BY <2>1, <1>8, <1>10 DEF InHand, Holds
  <2>3. Mirrored(r)
    BY <2>2 DEF PipelineInv, MirroredUnlessOvertaken
  <2> QED BY <2>1, <2>3, <1>8, <1>9 DEF Mirrored, Live
<1>14. CountedRequestsSucceeded'
  <2> SUFFICES ASSUME NEW r \in SessionIds, Live(r)', NEW i \in IdsOf(r)'
               PROVE  \E u \in Tasks :
                        /\ i \in task'[u].counted \cap task'[u].succeeded
                        /\ task'[u].req.session = r \/ task'[u].issued = r
    BY DEF CountedRequestsSucceeded, Live, IdsOf, Req
  <2>1. CASE Live(r) /\ i \in IdsOf(r)
    <3>1. PICK u \in Tasks : /\ i \in task[u].counted \cap task[u].succeeded
                             /\ task[u].req.session = r \/ task[u].issued = r
      BY <2>1 DEF PipelineInv, CountedRequestsSucceeded, Req
    <3>2. /\ task[u].counted \subseteq task'[u].counted
          /\ task'[u].succeeded = task[u].succeeded
          /\ task'[u].req = task[u].req /\ task'[u].issued = task[u].issued
      BY <1>5, <1>6
    <3> QED BY <3>1, <3>2
  <2>2. CASE ~(Live(r) /\ i \in IdsOf(r))
    <3>1. r = s /\ info # Absent /\ i \in Range(info.requestIds)
      BY <2>2, <1>9 DEF Live, IdsOf
    <3>2. /\ task[t].answers # <<>>
          /\ Result(t).ok /\ i = Result(t).id
          /\ Req(t).session = s \/ task[t].issued = s
      BY <2>2, <3>1
    <3>3. i \in task[t].succeeded
      BY <3>2, <1>2, RestAnswered DEF TaskOK, AnsweredSo, Task, Result
    <3> QED BY <3>1, <3>2, <3>3, <1>5, <1>6 DEF Req, Result
  <2> QED BY <2>1, <2>2
<1>15. StoreTypeOK' /\ row' \in [SessionIds -> Snapshot \cup {NoRow}]
       /\ overtaken' \subseteq SessionIds /\ dropped' \subseteq SessionIds
  BY <1>8 DEF PipelineInv, StoreTypeOK
<1> QED BY <1>6, <1>12, <1>13, <1>14, <1>15 DEF PipelineInv
(* The snapshot reaches the table, or is dropped: when the session was not *)
(* overtaken it was the only one on its way, and up to date.               *)
LEMMA PublishStep ==
  ASSUME PipelineInv, NEW t \in Tasks, Publish(t)
  PROVE  PipelineInv'
<1> DEFINE k == [task[t] EXCEPT !.inHand = NoSnapshot,
                   !.pc = IF task[t].inHand.state = "closed" THEN "log" ELSE "track"]
           s == task[t].inHand.id
<1>1. TaskOK(task[t]) /\ task[t] \in Task /\ task[t].pc = "publish"
  BY DEF PipelineInv, TasksOK, TaskOK, Publish, At
<1>2. TaskOK(k)
  BY <1>1, PublishRecord
<1>3. task' = [task EXCEPT ![t] = k]
  BY DEF Publish, Req
<1>4. /\ k.inHand = NoSnapshot /\ k.req = task[t].req /\ k.issued = task[t].issued
      /\ k.counted = task[t].counted /\ k.succeeded = task[t].succeeded
  BY <1>1 DEF Task
<1> HIDE DEF k
<1>5. /\ task' \in [Tasks -> Task]
      /\ TasksOK'
      /\ task'[t] = k
      /\ \A u \in Tasks \ {t} : task'[u] = task[u]
  BY <1>2, <1>3, OneTask DEF PipelineInv
<1>6. task[t].inHand \in Snapshot /\ s \in SessionIds /\ Holds(t, s)
  BY <1>1 DEF TaskOK, Task, Snapshot, Holds
<1>7. /\ sessions' = sessions /\ requestIds' = requestIds /\ overtaken' = overtaken
      /\ dropped \subseteq dropped' /\ dropped' \subseteq SessionIds
      /\ \/ row' = [row EXCEPT ![s] = task[t].inHand]
         \/ row' = row /\ s \in dropped'
  BY <1>6 DEF Publish, storeVars, PipelineInv
<1>8. \A r \in SessionIds, u \in Tasks : Holds(u, r)' <=> u # t /\ Holds(u, r)
  BY <1>4, <1>5 DEF Holds
<1>9. HeldOnce'
  <2> SUFFICES ASSUME NEW r \in SessionIds, r \notin overtaken,
                      NEW v \in Tasks, Holds(v, r)'
               PROVE  /\ Current(r, task[v].inHand)'
                      /\ \A u \in Tasks : Holds(u, r)' => u = v
    BY <1>7 DEF HeldOnce
  <2>1. v # t /\ Holds(v, r) /\ task'[v] = task[v]
    BY <1>5, <1>8
  <2>2. Current(r, task[v].inHand) /\ \A u \in Tasks : Holds(u, r) => u = v
    BY <2>1 DEF PipelineInv, HeldOnce
  <2> QED BY <2>1, <2>2, <1>7, <1>8 DEF Current, Live
<1>10. MirroredUnlessOvertaken'
  <2> SUFFICES ASSUME NEW r \in SessionIds, r \notin overtaken \cup dropped', ~InHand(r)'
               PROVE  Mirrored(r)'
    BY <1>7 DEF MirroredUnlessOvertaken
  <2>1. CASE r = s
    <3>1. row'[s] = task[t].inHand
      BY <2>1, <1>6, <1>7 DEF PipelineInv
    <3>2. Current(s, task[t].inHand)
      BY <2>1, <1>6 DEF PipelineInv, HeldOnce
    <3> QED BY <2>1, <3>1, <3>2, <1>7 DEF Mirrored, Current, Live
  <2>2. CASE r # s
    <3>1. row'[r] = row[r] /\ r \notin dropped
      BY <2>2, <1>7 DEF PipelineInv
    <3>2. ~Holds(t, r)
      BY <2>2 DEF Holds
    <3>3. ~InHand(r)
      BY <3>2, <1>8 DEF InHand, Holds
    <3>4. Mirrored(r)
      BY <3>1, <3>3 DEF PipelineInv, MirroredUnlessOvertaken
    <3> QED BY <3>1, <3>4, <1>7 DEF Mirrored, Live
  <2> QED BY <2>1, <2>2
<1>11. CountedRequestsSucceeded'
  <2>1. \A u \in Tasks : /\ task'[u].counted = task[u].counted
                         /\ task'[u].succeeded = task[u].succeeded
                         /\ task'[u].req = task[u].req
                         /\ task'[u].issued = task[u].issued
    BY <1>4, <1>5
  <2> QED BY <2>1, <1>7 DEF PipelineInv, CountedRequestsSucceeded, Live, IdsOf, Req
<1>12. StoreTypeOK' /\ row' \in [SessionIds -> Snapshot \cup {NoRow}]
  BY <1>6, <1>7 DEF PipelineInv, StoreTypeOK
<1> QED BY <1>5, <1>7, <1>9, <1>10, <1>11, <1>12 DEF PipelineInv

-----------------------------------------------------------------------------
(* One lemma per group of actions. *)
LEMMA UpstreamSteps ==
  ASSUME PipelineInv, NEW t \in Tasks,
         \/ Arrive(t) \/ UpstreamAnswers(t)
         \/ UpstreamAnswersHttp(t) \/ UpstreamAnswersHttpWithRpc(t)
         \/ UpstreamFails(t) \/ UpstreamStreams(t)
         \/ Frame(t) \/ StreamEnds(t) \/ Disconnect(t)
  PROVE  PipelineInv'
<1>1. TaskOK(task[t]) /\ task[t] \in Task
  BY DEF PipelineInv, TasksOK, TaskOK
<1>2. task[t].pc \in {"idle", "upstream"} => task[t].counted = {}
  BY <1>1 DEF TaskOK, TracedSo
<1>3. CASE Arrive(t)
  <2>1. PICK q \in Requests[t] :
          task' = [task EXCEPT ![t] = [task[t] EXCEPT !.pc = "upstream", !.req = q]]
    BY <1>3 DEF Arrive
  <2>2. q \in Request /\ Fits(q)
    BY PipelineAssumption DEF Tasks, Fits
  <2> DEFINE k == [task[t] EXCEPT !.pc = "upstream", !.req = q]
  <2>3. TaskOK(k)
    BY <1>1, <1>3, <2>2, ArriveRecord DEF Arrive, At
  <2>4. /\ k.inHand = task[t].inHand /\ k.counted = task[t].counted
        /\ k.succeeded = task[t].succeeded
    BY <1>1 DEF Task
  <2>5. task[t].counted = {} /\ UNCHANGED <<storeVars, row, overtaken, dropped>>
    BY <1>2, <1>3 DEF Arrive, At
  <2> HIDE DEF k
  <2>6. task' = [task EXCEPT ![t] = k]
    BY <2>1 DEF k
  <2> QED BY <2>3, <2>4, <2>5, <2>6, QuietStep
<1>4. CASE UpstreamAnswers(t)
  <2> DEFINE K(ok, id, s) == [task[t] EXCEPT
               !.answers = Append(@, [ok |-> ok, id |-> id]),
               !.succeeded = IF ok THEN @ \cup {id} ELSE @,
               !.issued = s,
               !.pc = IF Len(task[t].answers) + 1 = Len(task[t].req.rpcs)
                      THEN "track" ELSE "upstream"]
  <2>1. PICK ok \in BOOLEAN, id \in RequestIds, s \in SessionIds \cup {NoSession} :
          task' = [task EXCEPT
            ![t].answers = Append(@, [ok |-> ok, id |-> id]),
            ![t].succeeded = IF ok THEN @ \cup {id} ELSE @,
            ![t].issued = s,
            ![t].pc = IF Len(task[t].answers) + 1 = Len(Req(t).rpcs)
                      THEN "track" ELSE "upstream"]
    BY <1>4, ZenonT(30) DEF UpstreamAnswers
  <2>2. TaskOK(K(ok, id, s))
    BY <1>1, <1>4, AnswerRecord DEF UpstreamAnswers, At, Req
  <2>3. /\ K(ok, id, s).inHand = task[t].inHand /\ K(ok, id, s).counted = task[t].counted
        /\ task[t].succeeded \subseteq K(ok, id, s).succeeded
    BY <1>1 DEF Task
  <2>4. task[t].counted = {} /\ UNCHANGED <<storeVars, row, overtaken, dropped>>
    BY <1>2, <1>4 DEF UpstreamAnswers, At
  <2> HIDE DEF K
  <2>5. task' = [task EXCEPT ![t] = K(ok, id, s)]
    BY <2>1 DEF K, Req
  <2> QED BY <2>2, <2>3, <2>4, <2>5, QuietStep
<1>5. CASE UpstreamAnswersHttp(t)
  <2> DEFINE k == [task[t] EXCEPT !.pc = "close"]
  <2>2. TaskOK(k)
    BY <1>1, <1>5, AnswerHttpRecord DEF UpstreamAnswersHttp, At, Req
  <2>3. /\ k.inHand = task[t].inHand /\ k.counted = task[t].counted
        /\ k.succeeded = task[t].succeeded
        /\ k.req = task[t].req /\ k.issued = task[t].issued
    BY <1>1 DEF Task
  <2>4. /\ task' = [task EXCEPT ![t] = k]
        /\ UNCHANGED <<storeVars, row, overtaken, dropped>>
    BY <1>5 DEF UpstreamAnswersHttp
  <2> HIDE DEF k
  <2> QED BY <2>2, <2>3, <2>4, QuietStep
<1>11. CASE UpstreamAnswersHttpWithRpc(t)
  <2> DEFINE Good(q) == {a.id : a \in {b \in Range(q) : b.ok}}
             K(q) == [task[t] EXCEPT !.answers = q, !.succeeded = Good(q), !.pc = "track"]
  <2>1. PICK results \in SeqOf(Answer, MaxFrames[t]) : task' = [task EXCEPT ![t] = K(results)]
    BY <1>11 DEF UpstreamAnswersHttpWithRpc
  <2>2. results \in Seq(Answer)
    <3>1. MaxFrames[t] \in Nat
      BY PipelineAssumption DEF Tasks
    <3>2. PICK m \in 0 .. MaxFrames[t] : results \in [1 .. m -> Answer]
      BY <2>1 DEF SeqOf
    <3> QED BY <3>1, <3>2
  <2>3. TaskOK(K(results))
    BY <1>1, <1>11, <2>2, AnswerRpcRecord DEF UpstreamAnswersHttpWithRpc, At, Req
  <2>4. /\ K(results).inHand = task[t].inHand /\ K(results).counted = task[t].counted
    BY <1>1 DEF Task
  <2>5. task[t].counted = {} /\ UNCHANGED <<storeVars, row, overtaken, dropped>>
    BY <1>2, <1>11 DEF UpstreamAnswersHttpWithRpc, At
  <2>6. task[t].succeeded = {}
    BY <1>1, <1>11 DEF UpstreamAnswersHttpWithRpc, At, Req, TaskOK, TracedSo
  <2> HIDE DEF K
  <2> QED BY <2>1, <2>3, <2>4, <2>5, <2>6, QuietStep
<1>6. CASE UpstreamFails(t)
  <2> DEFINE k == [task[t] EXCEPT !.pc = "done", !.reply = "bad_gateway",
                                  !.answers = <<>>, !.orphans = @ + 1]
  <2>1. TaskOK(k)
    BY <1>1, <1>6, FailRecord DEF UpstreamFails, At
  <2>2. /\ k.inHand = task[t].inHand /\ k.counted = task[t].counted
        /\ k.succeeded = task[t].succeeded
        /\ k.req = task[t].req /\ k.issued = task[t].issued
    BY <1>1 DEF Task
  <2>3. /\ task' = [task EXCEPT ![t] = k]
        /\ UNCHANGED <<storeVars, row, overtaken, dropped>>
    BY <1>6 DEF UpstreamFails
  <2> HIDE DEF k
  <2> QED BY <2>1, <2>2, <2>3, QuietStep
<1>7. CASE UpstreamStreams(t)
  <2>1. PICK s \in SessionIds \cup {NoSession} :
          task' = [task EXCEPT ![t] =
                     [task[t] EXCEPT !.pc = "stream", !.issued = s, !.reply = "stream"]]
    BY <1>7 DEF UpstreamStreams
  <2> DEFINE k == [task[t] EXCEPT !.pc = "stream", !.issued = s, !.reply = "stream"]
  <2>2. TaskOK(k)
    BY <1>1, <1>7, StreamRecord DEF UpstreamStreams, At, Req
  <2>3. /\ k.inHand = task[t].inHand /\ k.counted = task[t].counted
        /\ k.succeeded = task[t].succeeded
    BY <1>1 DEF Task
  <2>4. task[t].counted = {} /\ UNCHANGED <<storeVars, row, overtaken, dropped>>
    BY <1>2, <1>7 DEF UpstreamStreams, At
  <2> HIDE DEF k
  <2>5. task' = [task EXCEPT ![t] = k]
    BY <2>1 DEF k
  <2> QED BY <2>2, <2>3, <2>4, <2>5, QuietStep
<1>8. CASE Frame(t)
  <2> DEFINE K(ok, id) == [task[t] EXCEPT
                         !.answers = <<[ok |-> ok, id |-> id]>>,
                         !.succeeded = IF ok THEN @ \cup {id} ELSE @,
                         !.frames = @ + 1,
                         !.pc = "track"]
  <2>1. PICK ok \in BOOLEAN, id \in RequestIds :
          task' = [task EXCEPT ![t].answers = <<[ok |-> ok, id |-> id]>>,
                               ![t].succeeded = IF ok THEN @ \cup {id} ELSE @,
                               ![t].frames = @ + 1,
                               ![t].pc = "track"]
    BY <1>8 DEF Frame
  <2>2. TaskOK(K(ok, id))
    BY <1>1, <1>8, FrameRecord DEF Frame, At
  <2>3. /\ K(ok, id).inHand = task[t].inHand /\ K(ok, id).counted = task[t].counted
        /\ task[t].succeeded \subseteq K(ok, id).succeeded
        /\ K(ok, id).req = task[t].req /\ K(ok, id).issued = task[t].issued
    BY <1>1 DEF Task
  <2>4. task' = [task EXCEPT ![t] = K(ok, id)]
    BY <2>1
  <2>5. UNCHANGED <<storeVars, row, overtaken, dropped>>
    BY <1>8 DEF Frame
  <2> HIDE DEF K
  <2> QED BY <2>2, <2>3, <2>4, <2>5, QuietStep
<1>9. CASE StreamEnds(t)
  <2> DEFINE k == [task[t] EXCEPT !.pc = "done"]
  <2>1. TaskOK(k)
    BY <1>1, <1>9, StreamEndRecord DEF StreamEnds, At
  <2>2. /\ k.inHand = task[t].inHand /\ k.counted = task[t].counted
        /\ k.succeeded = task[t].succeeded
        /\ k.req = task[t].req /\ k.issued = task[t].issued
    BY <1>1 DEF Task
  <2>3. /\ task' = [task EXCEPT ![t] = k]
        /\ UNCHANGED <<storeVars, row, overtaken, dropped>>
    BY <1>9 DEF StreamEnds
  <2> HIDE DEF k
  <2> QED BY <2>1, <2>2, <2>3, QuietStep
<1>10. CASE Disconnect(t)
  <2> DEFINE k == [task[t] EXCEPT !.pc = "gone", !.answers = <<>>]
  <2>1. TaskOK(k)
    BY <1>1, <1>10, DisconnectRecord DEF Disconnect, At
  <2>2. /\ k.inHand = task[t].inHand /\ k.counted = task[t].counted
        /\ k.succeeded = task[t].succeeded
        /\ k.req = task[t].req /\ k.issued = task[t].issued
    BY <1>1 DEF Task
  <2>3. /\ task' = [task EXCEPT ![t] = k]
        /\ UNCHANGED <<storeVars, row, overtaken, dropped>>
    BY <1>10 DEF Disconnect
  <2> HIDE DEF k
  <2> QED BY <2>1, <2>2, <2>3, QuietStep
<1> QED BY <1>3, <1>4, <1>5, <1>6, <1>7, <1>8, <1>9, <1>10, <1>11
LEMMA StageSteps ==
  ASSUME PipelineInv, NEW t \in Tasks, Stages(t)
  PROVE  PipelineInv'
<1>1. TaskOK(task[t]) /\ task[t] \in Task
  BY DEF PipelineInv, TasksOK, TaskOK
<1>2. ASSUME HasResult(t)
      PROVE  /\ At(t, "track") /\ task[t].answers # <<>>
             /\ Result(t) \in Answer /\ Result(t).id \in RequestIds
             /\ Req(t) \in Request
  <2>1. task[t].answers \in Seq(Answer)
    BY <1>1 DEF Task
  <2>2. Result(t) \in Answer
    BY <1>2, <2>1, HeadTailProperties DEF HasResult, Result
  <2> QED BY <1>1, <1>2, <2>2 DEF HasResult, At, TaskOK, AskedSo, Answer, Req
<1>3. CASE SkipResult(t)
  <2> DEFINE k == [task[t] EXCEPT !.answers = Tail(@)]
  <2>1. TaskOK(k)
    BY <1>1, <1>3, SkipRecord DEF SkipResult, HasResult, At
  <2>2. /\ k.inHand = task[t].inHand /\ k.counted = task[t].counted
        /\ k.succeeded = task[t].succeeded
        /\ k.req = task[t].req /\ k.issued = task[t].issued
    BY <1>1 DEF Task
  <2>3. /\ task' = [task EXCEPT ![t] = k]
        /\ UNCHANGED <<storeVars, row, overtaken, dropped>>
    BY <1>3 DEF SkipResult
  <2> HIDE DEF k
  <2> QED BY <2>1, <2>2, <2>3, QuietStep
<1>4. CASE RegisterSession(t)
  <2> DEFINE s == task[t].issued
  <2>1. /\ HasResult(t) /\ Result(t).ok /\ s # NoSession /\ ~Live(s)
    BY <1>4 DEF RegisterSession, Records, Starts
  <2>2. s \in SessionIds
    BY <1>1, <2>1 DEF Task
  <2>3. PICK meta \in Metas : StartSession(s, Result(t).id, meta)
    BY <1>4 DEF RegisterSession
  <2> DEFINE info == NewInfo(meta, Result(t).id)
  <2>4. /\ info \in SessionInfo /\ info # Absent
        /\ info.requestCount = 1
        /\ Range(info.requestIds) = {Result(t).id}
    <3> DEFINE id == Result(t).id
    <3>1. meta \in Metas \cup {NoMeta} /\ id \in RequestIds
      BY <1>2, <2>1
    <3> HIDE DEF id
    <3>2. /\ NewInfo(meta, id) \in SessionInfo /\ NewInfo(meta, id) # Absent
          /\ NewInfo(meta, id).requestCount = 1
          /\ Range(NewInfo(meta, id).requestIds) = {id}
      BY <3>1, NewInfoFacts
    <3> QED BY <3>2 DEF id
  <2>5. sessions' = [sessions EXCEPT ![s] = info]
    BY <2>3 DEF StartSession
  <2>6. requestIds' \in [RequestIds -> SessionIds \cup {NoSession}]
    BY <2>2, <2>3 DEF StartSession, PipelineInv, StoreTypeOK
  <2>7. sessions'[s] = info
    BY <2>2, <2>5 DEF PipelineInv, StoreTypeOK
  <2>8. Take(t, s, "active", info.requestCount)
    BY <1>4, <2>7 DEF RegisterSession
  <2>9. info.requestCount \in Nat \ {0}
    BY <2>4
  <2> HIDE DEF info, s
  <2>10. \A r \in Range(info.requestIds) :
           /\ task[t].answers # <<>>
           /\ Result(t).ok /\ r = Result(t).id
           /\ Req(t).session = s \/ task[t].issued = s
    BY <1>2, <2>1, <2>4 DEF s
  <2> QED BY <1>2, <2>1, <2>2, <2>4, <2>5, <2>6, <2>8, <2>9, <2>10, StoreStep
<1>5. CASE CountRequest(t)
  <2> DEFINE s == Req(t).session
             id == Result(t).id
  <2>1. /\ HasResult(t) /\ Result(t).ok /\ s # NoSession /\ TrackRequest(s, id)
    BY <1>5 DEF CountRequest, Records, Counts
  <2>2. s \in SessionIds
    BY <1>2, <2>1 DEF Request
  <2>3. id \in RequestIds
    BY <1>2, <2>1
  <2> DEFINE info == IF Live(s) THEN Bump(sessions[s], id) ELSE NewInfo(NoMeta, id)
  <2>4. /\ info \in SessionInfo /\ info # Absent
        /\ info.requestCount \in Nat \ {0}
        /\ \A r \in Range(info.requestIds) : (Live(s) /\ r \in IdsOf(s)) \/ r = id
    <3>1. CASE Live(s)
      <4>1. sessions[s] \in SessionInfo
        BY <2>2, <3>1 DEF PipelineInv, StoreTypeOK, Live
      <4>2. /\ Bump(sessions[s], id) \in SessionInfo
            /\ Bump(sessions[s], id) # Absent
            /\ Range(Bump(sessions[s], id).requestIds) = IdsOf(s) \cup {id}
        BY <2>3, <4>1, BumpFacts DEF IdsOf
      <4> QED BY <3>1, <4>2 DEF SessionInfo
    <3>2. CASE ~Live(s)
      <4>1. /\ NewInfo(NoMeta, id) \in SessionInfo
            /\ NewInfo(NoMeta, id) # Absent
            /\ NewInfo(NoMeta, id).requestCount = 1
            /\ Range(NewInfo(NoMeta, id).requestIds) = {id}
        BY ZenonT(30), <2>3, NewInfoFacts
      <4> QED BY <3>2, <4>1
    <3> QED BY <3>1, <3>2
  <2>5. sessions' = [sessions EXCEPT ![s] = info]
    BY <2>1 DEF TrackRequest
  <2>6. requestIds' \in [RequestIds -> SessionIds \cup {NoSession}]
    BY <2>1, <2>2 DEF TrackRequest, PipelineInv, StoreTypeOK
  <2>7. sessions'[s] = info
    BY <2>2, <2>5 DEF PipelineInv, StoreTypeOK
  <2>8. Take(t, s, "active", info.requestCount)
    BY <1>5, <2>7 DEF CountRequest
  <2> HIDE DEF info, s, id
  <2>9. \A r \in Range(info.requestIds) :
          \/ Live(s) /\ r \in IdsOf(s)
          \/ /\ task[t].answers # <<>>
             /\ Result(t).ok /\ r = Result(t).id
             /\ Req(t).session = s \/ task[t].issued = s
    BY <1>2, <2>1, <2>4 DEF s, id
  <2>10. /\ At(t, "track") /\ task[t].answers # <<>>
         /\ info \in SessionInfo /\ info # Absent /\ info.requestCount \in Nat \ {0}
    BY <1>2, <2>1, <2>4
  <2> QED BY <2>2, <2>5, <2>6, <2>8, <2>9, <2>10, StoreStep
<1>6. CASE CloseSession(t)
  <2> DEFINE s == Req(t).session
             count == sessions[s].requestCount
  <2>1. /\ At(t, "close") /\ s # NoSession /\ Live(s)
        /\ EndSession(s) /\ Take(t, s, "closed", count)
    BY <1>6 DEF CloseSession, Closes
  <2>2. s \in SessionIds
    BY <1>1, <2>1 DEF TaskOK, AskedSo, At, Req, Request
  <2>3. count \in Nat \ {0}
    BY <2>1, <2>2 DEF PipelineInv, StoreTypeOK, Live, SessionInfo
  <2>4. sessions' = [sessions EXCEPT ![s] = Absent]
    BY <2>1 DEF EndSession
  <2>5. requestIds' \in [RequestIds -> SessionIds \cup {NoSession}]
    BY <2>1 DEF EndSession, PipelineInv, StoreTypeOK
  <2> HIDE DEF s, count
  <2> QED BY <2>1, <2>2, <2>3, <2>4, <2>5, StoreStep
<1>7. CASE NothingToClose(t)
  <2> DEFINE k == [task[t] EXCEPT !.pc = "log"]
  <2>1. TaskOK(k)
    BY <1>1, <1>7, NothingToCloseRecord DEF NothingToClose, At
  <2>2. /\ k.inHand = task[t].inHand /\ k.counted = task[t].counted
        /\ k.succeeded = task[t].succeeded
        /\ k.req = task[t].req /\ k.issued = task[t].issued
    BY <1>1 DEF Task
  <2>3. /\ task' = [task EXCEPT ![t] = k]
        /\ UNCHANGED <<storeVars, row, overtaken, dropped>>
    BY <1>7 DEF NothingToClose
  <2> HIDE DEF k
  <2> QED BY <2>1, <2>2, <2>3, QuietStep
<1>8. CASE Log(t)
  <2> DEFINE k == [task[t] EXCEPT
               !.logged = @ + 1,
               !.pc = IF task[t].reply = "stream" THEN "stream" ELSE "done",
               !.reply = IF @ = "stream" THEN @ ELSE "answer"]
  <2>1. TaskOK(k)
    BY <1>1, <1>8, LogRecord DEF Log, At
  <2>2. /\ k.inHand = task[t].inHand /\ k.counted = task[t].counted
        /\ k.succeeded = task[t].succeeded
        /\ k.req = task[t].req /\ k.issued = task[t].issued
    BY <1>1 DEF Task
  <2>3. /\ task' = [task EXCEPT ![t] = k]
        /\ UNCHANGED <<storeVars, row, overtaken, dropped>>
    BY <1>8 DEF Log
  <2> HIDE DEF k
  <2> QED BY <2>1, <2>2, <2>3, QuietStep
<1> QED BY <1>3, <1>4, <1>5, <1>6, <1>7, <1>8, PublishStep DEF Stages

LEMMA PipelineInitInv == Init => PipelineInv
<1> SUFFICES ASSUME Init
             PROVE  PipelineInv
  OBVIOUS
<1>1. TaskOK(Idle)
  <2>1. /\ Idle \in Task
        /\ Idle.pc = "idle" /\ Idle.answers = <<>> /\ Idle.reply = "none"
        /\ Idle.inHand = NoSnapshot
        /\ Idle.logged = 0 /\ Idle.orphans = 0 /\ Idle.frames = 0
        /\ Idle.counted = {} /\ Idle.succeeded = {}
    BY EmptySeq DEF Idle, Task
  <2>2. AskedSo(Idle) /\ RepliedSo(Idle) /\ TracedSo(Idle)
    BY <2>1 DEF AskedSo, RepliedSo, TracedSo
  <2>3. AnsweredSo(Idle)
    BY <2>1 DEF AnsweredSo
  <2> QED BY <2>1, <2>2, <2>3 DEF TaskOK
<1>2. \A t \in Tasks : task[t] = Idle
  BY DEF Init
<1>3. TasksOK /\ task \in [Tasks -> Task]
  BY <1>1, <1>2 DEF TasksOK, TaskOK, Init
<1>4. StoreTypeOK /\ \A s \in SessionIds : ~Live(s) /\ row[s] = NoRow
  BY DEF Init, StoreInit, StoreTypeOK, Live
<1>5. HeldOnce
  BY <1>1, <1>2 DEF HeldOnce, Holds, Idle
<1>6. MirroredUnlessOvertaken /\ CountedRequestsSucceeded
  BY <1>4 DEF MirroredUnlessOvertaken, Mirrored, CountedRequestsSucceeded
<1> QED BY <1>3, <1>4, <1>5, <1>6 DEF PipelineInv, Init

LEMMA PipelineNextInv == PipelineInv /\ [Next]_vars => PipelineInv'
<1> SUFFICES ASSUME PipelineInv, [Next]_vars
             PROVE  PipelineInv'
  OBVIOUS
<1>1. CASE Next
  BY <1>1, UpstreamSteps, StageSteps DEF Next
<1>2. CASE UNCHANGED vars
  <2>1. /\ task' = task /\ sessions' = sessions /\ requestIds' = requestIds
        /\ row' = row /\ overtaken' = overtaken /\ dropped' = dropped
    BY <1>2 DEF vars, storeVars
  <2>2. StoreTypeOK' /\ TasksOK' /\ HeldOnce'
    BY <2>1 DEF PipelineInv, StoreTypeOK, TasksOK, HeldOnce, Holds, Current, Live
  <2>3. MirroredUnlessOvertaken' /\ CountedRequestsSucceeded'
    BY <2>1 DEF PipelineInv, MirroredUnlessOvertaken, InHand, Mirrored, Live,
                CountedRequestsSucceeded, IdsOf, Req
  <2> QED BY <2>1, <2>2, <2>3 DEF PipelineInv
<1> QED BY <1>1, <1>2

LEMMA PipelineInvariant == Spec => []PipelineInv
BY PipelineInitInv, PipelineNextInv, PTL DEF Spec

-----------------------------------------------------------------------------
(* Type correctness of tasks, store and table, and that a task holds a     *)
(* snapshot exactly between the store's lock and the bus.                  *)
THEOREM PipelineTypeCorrect == Spec => []PipelineTypeOK
<1>1. PipelineInv => PipelineTypeOK
  BY DEF PipelineInv, PipelineTypeOK, TasksOK, TaskOK, At
<1> QED BY <1>1, PipelineInvariant, PTL

(* Whatever the upstream does and wherever the client goes away, the       *)
(* Request events of a request say what its client was sent.               *)
THEOREM PipelineEventsMatch == Spec => []EventsMatchReply
<1>1. PipelineInv => EventsMatchReply
  <2> SUFFICES ASSUME PipelineInv, NEW t \in Tasks
               PROVE  LET events == <<task[t].logged, task[t].orphans>>
                      IN  CASE task[t].reply = "answer"      -> events = <<1, 0>>
                            [] task[t].reply = "bad_gateway" -> events = <<0, 1>>
                            [] task[t].reply = "none"        -> events = <<0, 0>>
                            [] task[t].reply = "stream"      ->
                                 /\ At(t, "stream") \/ At(t, "done") \/ At(t, "gone") =>
                                      events = <<task[t].frames, 0>>
                                 /\ task[t].orphans = 0
    BY DEF EventsMatchReply
  <2>1. /\ RepliedSo(task[t])
        /\ task[t].reply \in {"none", "answer", "stream", "bad_gateway"}
    BY DEF PipelineInv, TasksOK, TaskOK, Task
  <2> QED BY <2>1 DEF RepliedSo, At
<1> QED BY <1>1, PipelineInvariant, PTL

(* A request that was answered with 502 changed nothing in the store.      *)
THEOREM PipelineFailureLeavesNoTrace == Spec => []FailureLeavesNoTrace
<1>1. PipelineInv => FailureLeavesNoTrace
  BY DEF PipelineInv, TasksOK, TaskOK, TracedSo, FailureLeavesNoTrace
<1> QED BY <1>1, PipelineInvariant, PTL

(* What a live session lists came in a successful response to a task of    *)
(* that session, under whatever ids the server answers.                    *)
THEOREM PipelineCountsSuccesses == Spec => []CountedRequestsSucceeded
<1>1. PipelineInv => CountedRequestsSucceeded
  BY DEF PipelineInv
<1> QED BY <1>1, PipelineInvariant, PTL

(* The row of a session that was never overtaken, and of which nothing was *)
(* dropped, equals the session as soon as no snapshot of it is on its way. *)
THEOREM PipelineMirrors == Spec => []MirroredUnlessOvertaken
<1>1. PipelineInv => MirroredUnlessOvertaken
  BY DEF PipelineInv
<1> QED BY <1>1, PipelineInvariant, PTL
=============================================================================
