-------------------------- MODULE GatewayShutdown --------------------------
(***************************************************************************)
(* The life of one proxy process (mcpr-cli/src/main.rs): the server task   *)
(* answers requests, each of which leaves one event on the bus; the bus    *)
(* thread and the store's writer thread carry the events to the database;  *)
(* SIGTERM or ctrl-c sets a watch channel that the server and main both    *)
(* wait on.                                                                *)
(*                                                                         *)
(* main is an async function: when it returns, the runtime is dropped with *)
(* every task that is not finished, and then the process ends with every   *)
(* thread it has.  The bus and the writer are modelled in their own        *)
(* modules; here an event is on the bus, in the store, or in the database. *)
(***************************************************************************)
EXTENDS Naturals

CONSTANT NumRequests   \* bound on the requests that ever arrive

Requests == 1 .. NumRequests

VARIABLES request,    \* the state of each request
          event,      \* where the event of each request is
          shutdown,   \* the watch channel's value
          server,     \* the server task
          process     \* main: waiting, returned, and the process gone

vars == <<request, event, shutdown, server, process>>

Init == /\ request = [r \in Requests |-> "none"]
        /\ event = [r \in Requests |-> "none"]
        /\ shutdown = FALSE
        /\ server = "serving"
        /\ process = "running"

-----------------------------------------------------------------------------
(* axum accepts and handles a request, and at last answers it: the log     *)
(* stage puts its event on the bus.                                        *)
Accept(r) == /\ process = "running" /\ server = "serving"
             /\ request[r] = "none"
             /\ request' = [request EXCEPT ![r] = "in_flight"]
             /\ UNCHANGED <<event, shutdown, server, process>>

Answer(r) == /\ process = "running"
             /\ request[r] = "in_flight"
             /\ request' = [request EXCEPT ![r] = "answered"]
             /\ event' = [event EXCEPT ![r] = "bus"]
             /\ UNCHANGED <<shutdown, server, process>>

(* The graceful shutdown of the server: it accepts no more, and its task   *)
(* ends when every request it had accepted is answered.                    *)
StopAccepting == /\ process = "running" /\ server = "serving"
                 /\ shutdown
                 /\ server' = "draining"
                 /\ UNCHANGED <<request, event, shutdown, process>>

ServerEnds == /\ process = "running" /\ server = "draining"
              /\ \A r \in Requests : request[r] # "in_flight"
              /\ server' = "ended"
              /\ UNCHANGED <<request, event, shutdown, process>>

(* The signal task: the first SIGTERM or ctrl-c. *)
Signal == /\ process = "running"
          /\ ~shutdown
          /\ shutdown' = TRUE
          /\ UNCHANGED <<request, event, server, process>>

(* main saw the signal: it returns at once, and joins neither the server   *)
(* task nor the bus.  The runtime drops the tasks of open requests.        *)
MainReturns == /\ process = "running"
               /\ shutdown
               /\ process' = "returned"
               /\ request' = [r \in Requests |-> IF request[r] = "in_flight"
                                                 THEN "cancelled" ELSE request[r]]
               /\ UNCHANGED <<event, shutdown, server>>

(* The two threads run until the process is gone. *)
BusDelivers(r) == /\ process # "exited"
                  /\ event[r] = "bus"
                  /\ event' = [event EXCEPT ![r] = "store"]
                  /\ UNCHANGED <<request, shutdown, server, process>>

WriterWrites(r) == /\ process # "exited"
                   /\ event[r] = "store"
                   /\ event' = [event EXCEPT ![r] = "database"]
                   /\ UNCHANGED <<request, shutdown, server, process>>

Exit == /\ process = "returned"
        /\ process' = "exited"
        /\ UNCHANGED <<request, event, shutdown, server>>

Next == \/ \E r \in Requests : \/ Accept(r) \/ Answer(r)
                               \/ BusDelivers(r) \/ WriterWrites(r)
        \/ StopAccepting \/ ServerEnds
        \/ Signal \/ MainReturns \/ Exit

Spec == Init /\ [][Next]_vars

-----------------------------------------------------------------------------
(* "stops accepting new requests and finishes in-flight ones up to         *)
(* runtime.drain_timeout" (docs/DOCKER.md): main does not wait for them,   *)
(* however soon they would have been answered.                             *)
InFlightFinish == \A r \in Requests : request[r] # "cancelled"
=============================================================================
