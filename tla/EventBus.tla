------------------------------ MODULE EventBus ------------------------------
(***************************************************************************)
(* The event bus (event/bus.rs, event/manager.rs).  Emitters put events    *)
(* into a bounded channel without ever blocking; one OS thread takes them  *)
(* out in batches and hands each batch to the registered sinks, one after  *)
(* the other.  The thread selects between the channel, a flush tick and    *)
(* the shutdown signal; time is abstract, so the tick may come at any      *)
(* moment.                                                                 *)
(*                                                                         *)
(* Events are numbered by emission.  accepted, emitted and asked are       *)
(* history variables: the code keeps none of them.                         *)
(***************************************************************************)
EXTENDS Naturals, Sequences, SequencesExt

CONSTANTS NumSinks,    \* sinks registered before the bus starts
          Capacity,    \* CHANNEL_CAPACITY
          BatchSize,   \* BATCH_SIZE
          MaxEvents,   \* bound on the events ever emitted
          NotAsked     \* nobody signalled shutdown yet

ASSUME BusAssumption ==
  /\ NumSinks \in Nat
  /\ Capacity \in Nat \ {0}
  /\ BatchSize \in Nat \ {0}
  /\ MaxEvents \in Nat
  /\ NotAsked \notin Nat

Sinks == 1 .. NumSinks      \* in registration order
Events == 1 .. MaxEvents

VARIABLES channel,     \* the mpsc channel between emitters and the thread
          batch,       \* the thread's batch
          pc,          \* where the thread is
          stopping,    \* the thread took the shutdown branch
          next,        \* the next sink of the loop the thread is in
          got,         \* got[s]: the events sink s was handed
          flushed,     \* flushed[s]: how many of them a flush followed
          handle,      \* the EventBusHandle
          emitted,     \* how many events were emitted
          accepted,    \* the events the channel accepted, in order
          asked        \* how many of them when shutdown was signalled

threadVars == <<batch, pc, stopping, next, got, flushed>>
vars == <<channel, threadVars, handle, emitted, accepted, asked>>

-----------------------------------------------------------------------------
Init == /\ channel = <<>>
        /\ batch = <<>>
        /\ pc = "select"
        /\ stopping = FALSE
        /\ next = 1
        /\ got = [s \in Sinks |-> <<>>]
        /\ flushed = [s \in Sinks |-> 0]
        /\ handle = "held"
        /\ emitted = 0
        /\ accepted = <<>>
        /\ asked = NotAsked

(* The receiver is dropped when the thread's task returns. *)
HasRoom == pc # "exited" /\ Len(channel) < Capacity

(* emit: try_send; the event is dropped when there is no room. *)
Emit == /\ emitted < MaxEvents
        /\ emitted' = emitted + 1
        /\ \/ /\ HasRoom
              /\ channel' = Append(channel, emitted')
              /\ accepted' = Append(accepted, emitted')
           \/ /\ ~HasRoom
              /\ UNCHANGED <<channel, accepted>>
        /\ UNCHANGED <<threadVars, handle, asked>>

-----------------------------------------------------------------------------
(* Deviations a careless edit of the bus could introduce; not part of the  *)
(* specification.                                                          *)

TakeShutdownWithoutDrain ==
  /\ pc = "select"
  /\ handle # "held"
  /\ stopping' = TRUE
  /\ pc' = "flush"
  /\ next' = 1
  /\ UNCHANGED <<channel, batch, got, flushed, handle, emitted, accepted, asked>>

DispatchDoneKeepingBatch ==
  /\ pc = "dispatch"
  /\ next > NumSinks
  /\ next' = 1
  /\ pc' = IF stopping THEN "flush" ELSE "select"
  /\ UNCHANGED <<channel, batch, stopping, got, flushed, handle, emitted,
                 accepted, asked>>

DispatchDoneReturning ==
  /\ pc = "dispatch"
  /\ next > NumSinks
  /\ batch' = <<>>
  /\ next' = 1
  /\ pc' = IF stopping THEN "exited" ELSE "select"
  /\ UNCHANGED <<channel, stopping, got, flushed, handle, emitted, accepted, asked>>

FlushDoneForgettingStop ==
  /\ pc = "flush"
  /\ next > NumSinks
  /\ pc' = "select"
  /\ next' = 1
  /\ UNCHANGED <<channel, batch, stopping, got, flushed, handle, emitted,
                 accepted, asked>>

DispatchInReverse ==
  /\ pc = "dispatch"
  /\ next <= NumSinks
  /\ got' = [got EXCEPT ![next] = @ \o Reverse(batch)]
  /\ next' = next + 1
  /\ UNCHANGED <<channel, batch, pc, stopping, flushed, handle, emitted,
                 accepted, asked>>

-----------------------------------------------------------------------------
(* select!, first branch: one event was received. *)
Recv == /\ pc = "select"
        /\ channel # <<>>
        /\ batch' = Append(batch, Head(channel))
        /\ channel' = Tail(channel)
        /\ pc' = "drain"
        /\ UNCHANGED <<stopping, next, got, flushed, handle, emitted, accepted,
                       asked>>

(* One try_recv that finds an event: up to BatchSize of them after a       *)
(* receive, without limit while stopping.                                  *)
DrainMore == /\ pc = "drain"
             /\ stopping \/ Len(batch) < BatchSize
             /\ channel # <<>>
             /\ batch' = Append(batch, Head(channel))
             /\ channel' = Tail(channel)
             /\ UNCHANGED <<pc, stopping, next, got, flushed, handle, emitted,
                            accepted, asked>>

(* The drain loop ends: batch full, or nothing left in the channel.  Only  *)
(* the last drain can end with an empty batch, which is not dispatched.    *)
DrainStop == /\ pc = "drain"
             /\ channel = <<>> \/ (~stopping /\ Len(batch) >= BatchSize)
             /\ pc' = IF batch = <<>> THEN "flush" ELSE "dispatch"
             /\ next' = 1
             /\ UNCHANGED <<channel, batch, stopping, got, flushed, handle,
                            emitted, accepted, asked>>

(* dispatch_batch: on_event or on_batch of the next sink. *)
Dispatch == /\ pc = "dispatch"
            /\ next <= NumSinks
            /\ got' = [got EXCEPT ![next] = @ \o batch]
            /\ next' = next + 1
            /\ UNCHANGED <<channel, batch, pc, stopping, flushed, handle,
                           emitted, accepted, asked>>

DispatchDone == /\ pc = "dispatch"
                /\ next > NumSinks
                /\ batch' = <<>>
                /\ next' = 1
                /\ pc' = IF stopping THEN "flush" ELSE "select"
                /\ UNCHANGED <<channel, stopping, got, flushed, handle,
                               emitted, accepted, asked>>

(* select!, second branch: the flush interval ticked. *)
Tick == /\ pc = "select"
        /\ pc' = "flush"
        /\ next' = 1
        /\ UNCHANGED <<channel, batch, stopping, got, flushed, handle, emitted,
                       accepted, asked>>

FlushSink == /\ pc = "flush"
             /\ next <= NumSinks
             /\ flushed' = [flushed EXCEPT ![next] = Len(got[next])]
             /\ next' = next + 1
             /\ UNCHANGED <<channel, batch, pc, stopping, got, handle, emitted,
                            accepted, asked>>

(* After the flush of the shutdown branch the task returns. *)
FlushDone == /\ pc = "flush"
             /\ next > NumSinks
             /\ pc' = IF stopping THEN "exited" ELSE "select"
             /\ next' = 1
             /\ UNCHANGED <<channel, batch, stopping, got, flushed, handle,
                            emitted, accepted, asked>>

(* select!, third branch: a signal arrived, or the handle is gone. *)
TakeShutdown == /\ pc = "select"
                /\ handle # "held"
                /\ stopping' = TRUE
                /\ pc' = "drain"
                /\ UNCHANGED <<channel, batch, next, got, flushed, handle,
                               emitted, accepted, asked>>

-----------------------------------------------------------------------------
(* EventBusHandle::shutdown sends the signal and then joins the thread; a  *)
(* handle that is dropped instead closes the signal channel, which wakes   *)
(* the same branch, and nobody joins.                                      *)
Signal == /\ handle = "held"
          /\ handle' \in {"joining", "dropped"}
          /\ asked' = Len(accepted)
          /\ UNCHANGED <<channel, threadVars, emitted, accepted>>

Join == /\ handle = "joining"
        /\ pc = "exited"
        /\ handle' = "joined"
        /\ UNCHANGED <<channel, threadVars, emitted, accepted, asked>>

Next == \/ Emit
        \/ Recv \/ DrainMore \/ DrainStop \/ Dispatch \/ DispatchDone
        \/ Tick \/ FlushSink \/ FlushDone \/ TakeShutdown
        \/ Signal \/ Join

(* The thread never stops between two awaits (weak fairness).  tokio's     *)
(* select! polls its branches in random order, so a branch that is ready   *)
(* again and again is taken (strong fairness).  Nothing makes emitters     *)
(* emit or the owner shut down.                                            *)
Fairness == /\ WF_vars(DrainMore) /\ WF_vars(DrainStop)
            /\ WF_vars(Dispatch) /\ WF_vars(DispatchDone)
            /\ WF_vars(FlushSink) /\ WF_vars(FlushDone)
            /\ WF_vars(Join)
            /\ SF_vars(Recv) /\ SF_vars(Tick) /\ SF_vars(TakeShutdown)

SafetySpec == Init /\ [][Next]_vars
Spec == SafetySpec /\ Fairness

-----------------------------------------------------------------------------
BusTypeOK ==
  /\ channel \in Seq(Events)
  /\ batch \in Seq(Events)
  /\ pc \in {"select", "drain", "dispatch", "flush", "exited"}
  /\ stopping \in BOOLEAN
  /\ next \in Nat \ {0}
  /\ got \in [Sinks -> Seq(Events)]
  /\ flushed \in [Sinks -> Nat]
  /\ handle \in {"held", "joining", "dropped", "joined"}
  /\ emitted \in 0 .. MaxEvents
  /\ accepted \in Seq(Events)
  /\ asked \in Nat \cup {NotAsked}

(* The part of the batch sink s was not handed yet: all of it, except      *)
(* while the thread is past s in its dispatch loop.                        *)
InHand(s) == IF pc = "dispatch" /\ s < next THEN <<>> ELSE batch

(* No accepted event is lost, duplicated or reordered for any sink: what   *)
(* the sink got, then the batch in flight unless it was already handed     *)
(* over, then the channel, is exactly the sequence of accepted events.     *)
DeliveryExact ==
  \A s \in Sinks : accepted = got[s] \o (InHand(s) \o channel)

(* shutdown() returns only after every event accepted before the call has  *)
(* reached every sink and every sink was flushed after its last event.     *)
ShutdownDrains ==
  handle = "joined" =>
    \A s \in Sinks : /\ Len(got[s]) >= asked
                     /\ flushed[s] = Len(got[s])

(* shutdown() returns, whatever the thread was doing when it was called    *)
(* (emission is bounded here; the last drain does not end while emitters   *)
(* outrun it).                                                             *)
ShutdownReturns == handle = "joining" ~> handle = "joined"

(* An accepted event reaches every sink and is followed by a flush of the  *)
(* sink, even when no other event comes; only one that was accepted after  *)
(* the call of shutdown may be left when the thread exits.                 *)
AcceptedIsFlushed ==
  \A n \in Events :
    Len(accepted) >= n ~>
      \/ pc = "exited" /\ n > asked
      \/ \A s \in Sinks : flushed[s] >= n

(* The bus implements the ordered broadcast it promises. *)
Broadcast == INSTANCE OrderedBroadcast WITH done <- (pc = "exited")

BroadcastSpec == Broadcast!Spec
=============================================================================
