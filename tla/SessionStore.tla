---------------------------- MODULE SessionStore ----------------------------
(***************************************************************************)
(* The in-memory session store (protocol/session.rs): every MCP session    *)
(* the proxy has observed, and a reverse index from JSON-RPC request id to *)
(* session.  Both maps live behind one Mutex, so each method is one action.*)
(*                                                                         *)
(* A HashMap is a total function with a distinguished value for "no entry".*)
(* Clock fields (created_at, last_active) are left out: nothing in the     *)
(* program branches on them.  client_info and server_info are one value,   *)
(* the session's metadata.                                                 *)
(*                                                                         *)
(* The store is handed the ids that responses carry.  A client chooses the *)
(* ids of its requests and a server is to repeat them, so two sessions may *)
(* have the same one, and a server may answer under an id nobody asked     *)
(* with; UsesId says which ids the responses to a session's client carry.  *)
(***************************************************************************)
EXTENDS Naturals, Sequences, FiniteSets, Functions

CONSTANTS SessionIds,   \* ids the upstream servers issue
          RequestIds,   \* JSON-RPC ids of requests and responses
          Metas,        \* what initialize says of client and server
          UsesId,       \* UsesId[s]: the ids of the responses in session s
          MaxRequests,  \* bound on one session's request_count
          Absent,       \* "no entry" in sessions
          NoSession,    \* "no entry" in requestIds
          NoMeta        \* metadata of a session first seen mid-conversation

ASSUME StoreAssumption ==
  /\ UsesId \in [SessionIds -> SUBSET RequestIds]
  /\ MaxRequests \in Nat \ {0}
  /\ NoSession \notin SessionIds
  /\ NoMeta \notin Metas

VARIABLES sessions,     \* session id -> SessionInfo
          requestIds    \* JSON-RPC request id -> session id

storeVars == <<sessions, requestIds>>

-----------------------------------------------------------------------------
SessionInfo == [meta : Metas \cup {NoMeta},
                requestCount : Nat \ {0},
                requestIds : Seq(RequestIds)]

ASSUME AbsentAssumption == Absent \notin SessionInfo

(* SessionInfo::new: the request that creates the session is its first. *)
NewInfo(meta, r) == [meta |-> meta, requestCount |-> 1, requestIds |-> <<r>>]

Bump(info, r) == [info EXCEPT !.requestCount = @ + 1,
                              !.requestIds = Append(@, r)]

Live(s) == sessions[s] # Absent

IdsOf(s) == Range(sessions[s].requestIds)

StoreInit == /\ sessions = [s \in SessionIds |-> Absent]
             /\ requestIds = [r \in RequestIds |-> NoSession]

-----------------------------------------------------------------------------
(* Deviations a careless edit of the store could introduce.  They are used *)
(* nowhere in the specification; they document what each property rejects. *)

StartSessionOverwriting(s, r, meta) ==
  /\ sessions' = [sessions EXCEPT ![s] = NewInfo(meta, r)]
  /\ requestIds' = [requestIds EXCEPT ![r] = s]

TrackRequestUnchecked(s, r) ==
  /\ Live(s) => sessions[s].requestCount < MaxRequests
  /\ sessions' = [sessions EXCEPT ![s] = IF Live(s) THEN Bump(@, r)
                                                    ELSE NewInfo(NoMeta, r)]
  /\ requestIds' = [requestIds EXCEPT ![r] = s]

TrackRequestUnindexed(s, r) ==
  /\ requestIds[r] = NoSession
  /\ Live(s) => sessions[s].requestCount < MaxRequests
  /\ sessions' = [sessions EXCEPT ![s] = IF Live(s) THEN Bump(@, r)
                                                    ELSE NewInfo(NoMeta, r)]
  /\ requestIds' = requestIds

EndSessionKeepingIndex(s) ==
  /\ Live(s)
  /\ sessions' = [sessions EXCEPT ![s] = Absent]
  /\ requestIds' = requestIds

-----------------------------------------------------------------------------
(* start_session: first call wins.  The index entry of r is written        *)
(* whether or not another session already owns it.                         *)
StartSession(s, r, meta) ==
  /\ ~Live(s)
  /\ sessions' = [sessions EXCEPT ![s] = NewInfo(meta, r)]
  /\ requestIds' = [requestIds EXCEPT ![r] = s]

(* track_request, when it returns Some: an unknown session gets a stub.    *)
(* When r is in the index, under whatever session, it returns None and     *)
(* changes nothing: TrackIsDuplicate.                                      *)
TrackIsDuplicate(r) == requestIds[r] # NoSession

TrackRequest(s, r) ==
  /\ ~TrackIsDuplicate(r)
  /\ Live(s) => sessions[s].requestCount < MaxRequests
  /\ sessions' = [sessions EXCEPT ![s] = IF Live(s) THEN Bump(@, r)
                                                    ELSE NewInfo(NoMeta, r)]
  /\ requestIds' = [requestIds EXCEPT ![r] = s]

(* end_session: drops the session and the index entry of every id in its   *)
(* list, whichever session the entry points at.                            *)
EndSession(s) ==
  /\ Live(s)
  /\ sessions' = [sessions EXCEPT ![s] = Absent]
  /\ requestIds' = [r \in RequestIds |-> IF r \in IdsOf(s) THEN NoSession
                                                           ELSE requestIds[r]]

(* get_session_by_request: the session the index names, if it is there. *)
SessionByRequest(r) ==
  IF requestIds[r] = NoSession THEN Absent ELSE sessions[requestIds[r]]

StoreNext ==
  \E s \in SessionIds :
    \/ \E r \in UsesId[s], meta \in Metas : StartSession(s, r, meta)
    \/ \E r \in UsesId[s] : TrackRequest(s, r)
    \/ EndSession(s)

StoreSpec == StoreInit /\ [][StoreNext]_storeVars

-----------------------------------------------------------------------------
StoreTypeOK ==
  /\ sessions \in [SessionIds -> SessionInfo \cup {Absent}]
  /\ requestIds \in [RequestIds -> SessionIds \cup {NoSession}]

(* An index entry always names a live session that lists the request, so   *)
(* get_session_by_request never follows an entry into a session that is    *)
(* gone, however starts, tracks and ends of sessions sharing ids mix.      *)
IndexSound ==
  \A r \in RequestIds :
    requestIds[r] # NoSession => /\ Live(requestIds[r])
                                 /\ r \in IdsOf(requestIds[r])

(* No other session uses a request id of s. *)
PrivateIds(s) ==
  \A t \in SessionIds \ {s} : UsesId[s] \cap UsesId[t] = {}

(* For a session that shares no request id with another, the index is the  *)
(* exact inverse of its id list, whatever the other sessions do: every id  *)
(* it recorded resolves to it while it lives.                              *)
IndexComplete ==
  \A s \in SessionIds :
    PrivateIds(s) /\ Live(s) => \A r \in IdsOf(s) : requestIds[r] = s

(* The request_count the proxy publishes for such a session is the number  *)
(* of distinct requests it saw on it: no response is counted twice.        *)
CountsDistinctRequests ==
  \A s \in SessionIds :
    PrivateIds(s) /\ Live(s) =>
      sessions[s].requestCount = Cardinality(IdsOf(s))

(* First call wins: while a session lives, no step replaces its metadata,  *)
(* lowers its request_count or forgets a request it recorded.              *)
FirstCallWins ==
  [][\A s \in SessionIds :
       Live(s) /\ Live(s)' =>
         /\ sessions'[s].meta = sessions[s].meta
         /\ sessions'[s].requestCount >= sessions[s].requestCount
         /\ IdsOf(s) \subseteq IdsOf(s)']_storeVars

(* What end_session's comment promises: it clears the index entries that   *)
(* point at the session it ends, and no others.                            *)
EndClearsOnlyOwnEntries ==
  [][\A s \in SessionIds :
       Live(s) /\ ~Live(s)' =>
         \A r \in RequestIds :
           requestIds[r] # s => requestIds'[r] = requestIds[r]]_storeVars
=============================================================================
