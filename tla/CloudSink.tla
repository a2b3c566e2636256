----------------------------- MODULE CloudSink -----------------------------
(***************************************************************************)
(* The cloud sink (sinks/cloud_sink.rs): the event bus hands it events,    *)
(* which it queues without blocking; a task of its own collects them in a  *)
(* buffer and posts the buffer to the cloud when it is full, on an         *)
(* interval, and when the sink is dropped.  A post is tried three times    *)
(* and then its events are given up.                                       *)
(*                                                                         *)
(* The cloud is what the sink's code assumes of it: a post that looks      *)
(* failed to the sink, because its answer was late, lost or not 200 or     *)
(* 202, may be lost, or be taken in at once or at any later time.  stored, *)
(* late, acked and reported are history variables.                         *)
(***************************************************************************)
EXTENDS Naturals, Sequences, FiniteSets, Bags, SequencesExt

CONSTANTS Capacity,    \* of the mpsc channel
          BatchSize,   \* config.batch_size
          Attempts,    \* posts of one batch at most
          MaxEvents    \* bound on the events ever handed to the sink

ASSUME CloudAssumption ==
  /\ Capacity \in Nat \ {0}
  /\ BatchSize \in Nat \ {0}
  /\ Attempts \in Nat \ {0}
  /\ MaxEvents \in Nat

Events == 1 .. MaxEvents

VARIABLES channel,    \* between the bus and the task
          sink,       \* the CloudSink that owns the sender
          buffer,     \* events received and not yet posted
          batch,      \* the events being posted
          attempt,    \* failed posts of this batch
          pc,         \* where the task is
          offered,    \* how many events the bus handed over
          accepted,   \* those the channel took
          stored,     \* bag of the batches the cloud took in
          late,       \* bag of the failed posts the cloud may yet take in
          acked,      \* events the sink knows to be stored
          givenUp,    \* events the sink stopped posting
          reported    \* sum of the counts reported by SyncStatus::Ok

taskVars == <<buffer, batch, attempt, pc, stored, late, acked, givenUp, reported>>
vars == <<channel, sink, offered, accepted, taskVars>>

-----------------------------------------------------------------------------
Init == /\ channel = <<>>
        /\ sink = "held"
        /\ buffer = <<>>
        /\ batch = <<>>
        /\ attempt = 0
        /\ pc = "select"
        /\ offered = 0
        /\ accepted = {}
        /\ stored = EmptyBag
        /\ late = EmptyBag
        /\ acked = {}
        /\ givenUp = {}
        /\ reported = 0

(* on_event: try_send, dropping the event when the channel is full. *)
OnEvent == /\ sink = "held"
           /\ offered < MaxEvents
           /\ offered' = offered + 1
           /\ IF Len(channel) < Capacity
              THEN /\ channel' = Append(channel, offered')
                   /\ accepted' = accepted \cup {offered'}
              ELSE UNCHANGED <<channel, accepted>>
           /\ UNCHANGED <<sink, taskVars>>

(* The bus thread returns and drops its sinks. *)
DropSink == /\ sink = "held"
            /\ sink' = "dropped"
            /\ UNCHANGED <<channel, offered, accepted, taskVars>>

(* flush_batch takes the buffer and tries it from the first attempt on. *)
TakeBuffer(events, where) ==
  /\ batch' = events
  /\ buffer' = <<>>
  /\ attempt' = 0
  /\ pc' = where

(* flush_batch returns to the branch of the loop that called it. *)
BackFromFlush == /\ batch' = <<>>
                 /\ attempt' = 0
                 /\ pc' = IF pc = "post" THEN "select" ELSE "exited"

-----------------------------------------------------------------------------
(* Deviations a careless edit of the sink could introduce; not part of the *)
(* specification.                                                          *)

RecvKeepingBuffer ==
  /\ pc = "select"
  /\ channel # <<>>
  /\ LET filled == Append(buffer, Head(channel))
     IN IF Len(filled) >= BatchSize
        THEN /\ batch' = filled
             /\ buffer' = filled
             /\ attempt' = 0
             /\ pc' = "post"
        ELSE /\ buffer' = filled
             /\ UNCHANGED <<batch, attempt, pc>>
  /\ channel' = Tail(channel)
  /\ UNCHANGED <<sink, offered, accepted, stored, late, acked, givenUp,
                 reported>>

ClosedWithoutFlush ==
  /\ pc = "select"
  /\ sink = "dropped" /\ channel = <<>>
  /\ pc' = "exited"
  /\ UNCHANGED <<channel, sink, buffer, batch, attempt, offered, accepted,
                 stored, late, acked, givenUp, reported>>

TickOnlyFullBuffer ==
  /\ pc = "select"
  /\ Len(buffer) >= BatchSize
  /\ TakeBuffer(buffer, "post")
  /\ UNCHANGED <<channel, sink, offered, accepted, stored, late, acked,
                 givenUp, reported>>

PostSucceedsUnread ==
  /\ pc \in {"post", "lastPost"}
  /\ stored' \in {stored, stored (+) SetToBag({batch})}
  /\ acked' = acked \cup ToSet(batch)
  /\ reported' = reported + Len(batch)
  /\ BackFromFlush
  /\ UNCHANGED <<channel, sink, buffer, offered, accepted, late, givenUp>>

PostFailsCountingLate ==
  /\ pc \in {"post", "lastPost"}
  /\ late' \in {late, late (+) SetToBag({batch})}
  /\ IF attempt < Attempts
     THEN /\ attempt' = attempt + 1
          /\ UNCHANGED <<batch, pc, givenUp>>
     ELSE /\ givenUp' = givenUp \cup ToSet(batch)
          /\ batch' = <<>>
          /\ attempt' = 0
          /\ pc' = IF pc = "post" THEN "select" ELSE "exited"
  /\ UNCHANGED <<channel, sink, buffer, offered, accepted, stored, acked,
                 reported>>

-----------------------------------------------------------------------------
(* select!, first branch: an event, and a flush when it fills the buffer. *)
Recv == /\ pc = "select"
        /\ channel # <<>>
        /\ LET filled == Append(buffer, Head(channel))
           IN IF Len(filled) >= BatchSize
              THEN TakeBuffer(filled, "post")
              ELSE /\ buffer' = filled
                   /\ UNCHANGED <<batch, attempt, pc>>
        /\ channel' = Tail(channel)
        /\ UNCHANGED <<sink, offered, accepted, stored, late, acked, givenUp,
                 reported>>

(* The same branch when the sender is gone: flush what is left, and stop. *)
Closed == /\ pc = "select"
          /\ sink = "dropped" /\ channel = <<>>
          /\ IF buffer = <<>>
             THEN pc' = "exited" /\ UNCHANGED <<buffer, batch, attempt>>
             ELSE TakeBuffer(buffer, "lastPost")
          /\ UNCHANGED <<channel, sink, offered, accepted, stored, late,
                         acked, givenUp, reported>>

(* select!, second branch: the interval ticks (with an empty buffer it     *)
(* does nothing).                                                          *)
Tick == /\ pc = "select"
        /\ buffer # <<>>
        /\ TakeBuffer(buffer, "post")
        /\ UNCHANGED <<channel, sink, offered, accepted, stored, late,
                       acked, givenUp, reported>>

(* A post is answered with 200 or 202 in time. *)
PostSucceeds == /\ pc \in {"post", "lastPost"}
                /\ stored' = stored (+) SetToBag({batch})
                /\ acked' = acked \cup ToSet(batch)
                /\ reported' = reported + Len(batch)
                /\ BackFromFlush
                /\ UNCHANGED <<channel, sink, buffer, offered, accepted, late,
                               givenUp>>

(* A post that times out, cannot be sent or gets another status; the cloud *)
(* may take it in all the same.  After a pause it is repeated, or given up.*)
PostFails == /\ pc \in {"post", "lastPost"}
             /\ late' \in {late, late (+) SetToBag({batch})}
             /\ IF attempt + 1 < Attempts
                THEN /\ attempt' = attempt + 1
                     /\ UNCHANGED <<batch, pc, givenUp>>
                ELSE /\ givenUp' = givenUp \cup ToSet(batch)
                     /\ BackFromFlush
             /\ UNCHANGED <<channel, sink, buffer, offered, accepted, stored,
                            acked, reported>>

(* The cloud takes in a post the sink counted as failed. *)
LateArrival == \E b \in BagToSet(late) :
                 /\ stored' = stored (+) SetToBag({b})
                 /\ late' = late (-) SetToBag({b})
                 /\ UNCHANGED <<channel, sink, buffer, batch, attempt, pc,
                                offered, accepted, acked, givenUp, reported>>

Next == \/ OnEvent \/ DropSink
        \/ Recv \/ Closed \/ Tick \/ PostSucceeds \/ PostFails
        \/ LateArrival

(* The HTTP client times out after ten seconds, so every post comes to an  *)
(* end one way or the other, and the interval ticks again and again.  Weak *)
(* fairness is enough: a branch of select! that is ready stays ready until *)
(* it is taken or a post empties the buffer.                               *)
Fairness == /\ WF_vars(Recv) /\ WF_vars(Closed) /\ WF_vars(Tick)
            /\ WF_vars(PostSucceeds \/ PostFails)

SafetySpec == Init /\ [][Next]_vars
Spec == SafetySpec /\ Fairness

-----------------------------------------------------------------------------
CloudTypeOK ==
  /\ channel \in Seq(Events) /\ Len(channel) <= Capacity
  /\ sink \in {"held", "dropped"}
  /\ buffer \in Seq(Events) /\ Len(buffer) < BatchSize
  /\ batch \in Seq(Events) /\ Len(batch) <= BatchSize
  /\ attempt \in 0 .. Attempts - 1
  /\ pc \in {"select", "post", "lastPost", "exited"}
  /\ pc \in {"post", "lastPost"} <=> batch # <<>>
  /\ offered \in 0 .. MaxEvents
  /\ IsABag(stored) /\ IsABag(late)
  /\ BagToSet(stored) \cup BagToSet(late) \subseteq Seq(Events)
  /\ accepted \subseteq Events /\ acked \subseteq Events /\ givenUp \subseteq Events
  /\ reported \in Nat

(* Every accepted event is in exactly one place: queued, buffered, being   *)
(* posted, acknowledged or given up.                                       *)
AccountedFor ==
  LET places == <<ToSet(channel), ToSet(buffer), ToSet(batch), acked, givenUp>>
  IN /\ accepted = UNION ToSet(places)
     /\ \A i, j \in 1 .. 5 : i # j => places[i] \cap places[j] = {}

(* However often posts are repeated and however late they arrive, the      *)
(* cloud sees an event again only as a repeat of the whole batch it was    *)
(* first posted in, at most Attempts times, and a batch is a run of events *)
(* in the order the channel took them: no event of it is missing.          *)
RepeatsAreWhole ==
  LET posts == stored (+) late
  IN \A b \in BagToSet(posts) :
       /\ posts[b] <= Attempts
       /\ \A c \in BagToSet(posts) \ {b} : ToSet(b) \cap ToSet(c) = {}
       /\ ToSet(b) = accepted \cap (Head(b) .. Last(b))

(* What the sink reports as synced is in the cloud, and is reported once;  *)
(* an event given up may be there all the same.                            *)
ReportsAreTrue ==
  /\ reported = Cardinality(acked)
  /\ acked \subseteq UNION {ToSet(b) : b \in BagToSet(stored)}

(* An accepted event is eventually acknowledged or given up: it waits for  *)
(* no other event, and a cloud that never answers holds nothing up.        *)
EventuallySettled ==
  \A e \in Events : e \in accepted ~> e \in acked \cup givenUp

(* Once the bus drops the sink, its task posts what is left and ends. *)
SinkStops == sink = "dropped" ~> pc = "exited" /\ accepted = acked \cup givenUp
=============================================================================
