---------------------------- MODULE StoreWriter ----------------------------
(***************************************************************************)
(* The request store's writer thread (store/writer.rs) behind the Store    *)
(* handle (store/engine.rs).  The event bus records events into a bounded  *)
(* channel; the writer moves them into a batch and writes a batch in one   *)
(* transaction when it is full, when BATCH_INTERVAL has passed since the   *)
(* last flush, or when nothing more can come.                              *)
(*                                                                         *)
(* The clock is one bit: due says that BATCH_INTERVAL has passed since     *)
(* last_flush.  recorded, accepted, lost and discarded are history         *)
(* variables: the code keeps none of them.                                 *)
(***************************************************************************)
EXTENDS Naturals, Sequences, SequencesExt

CONSTANTS Capacity,     \* CHANNEL_CAPACITY
          MaxBatchSize, \* MAX_BATCH_SIZE
          MaxEvents,    \* bound on the events ever recorded
          DbFails       \* whether SQLite may fail a transaction

ASSUME WriterAssumption ==
  /\ Capacity \in Nat \ {0}
  /\ MaxBatchSize \in Nat \ {0}
  /\ MaxEvents \in Nat
  /\ DbFails \in BOOLEAN

Events == 1 .. MaxEvents

VARIABLES queue,      \* the mpsc channel between Store::record and the writer
          store,      \* the Store handle: open, its sender dropped, joined
          batch,      \* the writer's batch
          pc,         \* where the writer is in its loop
          due,        \* BATCH_INTERVAL has passed since last_flush
          written,    \* the events committed to the database, in order
          recorded,   \* how many events were recorded
          accepted,   \* those the channel accepted
          lost,       \* those a failed transaction lost
          discarded   \* those the writer received and threw away

writerVars == <<batch, pc, due, written, lost, discarded>>
vars == <<queue, store, writerVars, recorded, accepted>>

-----------------------------------------------------------------------------
Init == /\ queue = <<>>
        /\ store = "open"
        /\ batch = <<>>
        /\ pc = "receive"
        /\ due = FALSE
        /\ written = <<>>
        /\ recorded = 0
        /\ accepted = {}
        /\ lost = {}
        /\ discarded = {}

HasRoom == store = "open" /\ Len(queue) < Capacity

(* Store::record: try_send.  A full channel drops the event, and so does   *)
(* the dead sender that shutdown leaves behind.                            *)
Record == /\ recorded < MaxEvents
          /\ recorded' = recorded + 1
          /\ \/ /\ HasRoom
                /\ queue' = Append(queue, recorded')
                /\ accepted' = accepted \cup {recorded'}
             \/ /\ ~HasRoom
                /\ UNCHANGED <<queue, accepted>>
          /\ UNCHANGED <<store, writerVars>>

(* Store::shutdown, called or from Drop: drop the sender, join the writer. *)
CloseSender == /\ store = "open"
               /\ store' = "closing"
               /\ UNCHANGED <<queue, writerVars, recorded, accepted>>

JoinWriter == /\ store = "closing"
              /\ pc = "exited"
              /\ store' = "joined"
              /\ UNCHANGED <<queue, writerVars, recorded, accepted>>

(* tokio's Receiver::is_closed: no sender is left, whatever is queued. *)
IsClosed == store # "open"

-----------------------------------------------------------------------------
(* Deviations a careless edit of the writer could introduce; not part of   *)
(* the specification.                                                      *)

FillNewestFirst ==
  /\ pc = "fill"
  /\ Len(batch) < MaxBatchSize
  /\ queue # <<>>
  /\ batch' = <<Head(queue)>> \o batch
  /\ queue' = Tail(queue)
  /\ UNCHANGED <<store, pc, due, written, recorded, accepted, lost, discarded>>

GiveUpOnlyWhenClosed ==
  /\ pc = "receive"
  /\ queue = <<>>
  /\ IsClosed
  /\ pc' = IF batch = <<>> THEN "check" ELSE "flushIdle"
  /\ UNCHANGED <<queue, store, batch, due, written, recorded, accepted, lost, discarded>>

GiveUpWithoutFlush ==
  /\ pc = "receive"
  /\ queue = <<>>
  /\ due \/ IsClosed
  /\ pc' = "check"
  /\ UNCHANGED <<queue, store, batch, due, written, recorded, accepted, lost, discarded>>

CheckIgnoringClose ==
  /\ pc = "check"
  /\ \/ /\ IsClosed
        /\ queue # <<>>
        /\ discarded' = discarded \cup {Head(queue)}
        /\ queue' = Tail(queue)
     \/ UNCHANGED <<queue, discarded>>
  /\ pc' = "tail"
  /\ UNCHANGED <<store, batch, due, written, recorded, accepted, lost>>

CheckReceivingWhileOpen ==
  /\ pc = "check"
  /\ \/ /\ queue # <<>>
        /\ discarded' = discarded \cup {Head(queue)}
        /\ queue' = Tail(queue)
        /\ pc' = "tail"
     \/ /\ queue = <<>>
        /\ pc' = IF IsClosed THEN "exited" ELSE "tail"
        /\ UNCHANGED <<queue, discarded>>
  /\ UNCHANGED <<store, batch, due, written, recorded, accepted, lost>>

-----------------------------------------------------------------------------
(* Time passes on its own; only a flush resets it. *)
Elapse == /\ ~due
          /\ due' = TRUE
          /\ UNCHANGED <<queue, store, batch, pc, written, recorded, accepted,
                         lost, discarded>>

(* The loop's receive finds an event. *)
Receive == /\ pc = "receive"
           /\ queue # <<>>
           /\ batch' = Append(batch, Head(queue))
           /\ queue' = Tail(queue)
           /\ pc' = "fill"
           /\ UNCHANGED <<store, due, written, recorded, accepted, lost, discarded>>

(* Having one event the loop takes what else is there, up to a full batch. *)
Fill == /\ pc = "fill"
        /\ Len(batch) < MaxBatchSize
        /\ queue # <<>>
        /\ batch' = Append(batch, Head(queue))
        /\ queue' = Tail(queue)
        /\ UNCHANGED <<store, pc, due, written, recorded, accepted, lost, discarded>>

FillDone == /\ pc = "fill"
            /\ queue = <<>> \/ Len(batch) >= MaxBatchSize
            /\ pc' = IF Len(batch) >= MaxBatchSize THEN "flush" ELSE "tail"
            /\ UNCHANGED <<queue, store, batch, due, written, recorded,
                           accepted, lost, discarded>>

(* The receive returns None: the interval is over (recv_with_timeout's     *)
(* deadline is the time due turns true) or no event can come any more.     *)
GiveUp == /\ pc = "receive"
          /\ queue = <<>>
          /\ due \/ IsClosed
          /\ pc' = IF batch = <<>> THEN "check" ELSE "flushIdle"
          /\ UNCHANGED <<queue, store, batch, due, written, recorded, accepted,
                         lost, discarded>>

(* Leave the loop when closed and drained.  The test receives: an event    *)
(* that was queued since the receive gave up is taken out and dropped.     *)
Check == /\ pc = "check"
         /\ \/ /\ IsClosed
               /\ queue = <<>>
               /\ pc' = "exited"
               /\ UNCHANGED <<queue, discarded>>
            \/ /\ IsClosed
               /\ queue # <<>>
               /\ discarded' = discarded \cup {Head(queue)}
               /\ queue' = Tail(queue)
               /\ pc' = "tail"
            \/ /\ ~IsClosed
               /\ pc' = "tail"
               /\ UNCHANGED <<queue, discarded>>
         /\ UNCHANGED <<store, batch, due, written, recorded, accepted, lost>>

(* The end of the loop body: a batch that has waited long enough is due. *)
LoopEnd == /\ pc = "tail"
           /\ pc' = IF batch # <<>> /\ due THEN "flush" ELSE "receive"
           /\ UNCHANGED <<queue, store, batch, due, written, recorded,
                          accepted, lost, discarded>>

(* flush_batch.  The batch is gone whatever happens.  If the transaction   *)
(* cannot begin or cannot commit nothing is written; if an event cannot be *)
(* written those before it are committed all the same.                     *)
Flush == /\ pc \in {"flush", "flushIdle"}
         /\ \E n \in IF DbFails THEN 0 .. Len(batch) ELSE {Len(batch)} :
              /\ written' = written \o SubSeq(batch, 1, n)
              /\ lost' = lost \cup {batch[i] : i \in n + 1 .. Len(batch)}
         /\ batch' = <<>>
         /\ due' = FALSE
         /\ pc' = IF pc = "flushIdle" THEN "check" ELSE "tail"
         /\ UNCHANGED <<queue, store, recorded, accepted, discarded>>

Writer == Receive \/ Fill \/ FillDone \/ GiveUp \/ Check \/ LoopEnd \/ Flush

Next == Record \/ CloseSender \/ JoinWriter \/ Elapse \/ Writer

(* The writer thread runs, time passes, and a caller of shutdown waits for *)
(* the writer; nobody has to record anything or to shut down.              *)
Fairness == WF_vars(Writer) /\ WF_vars(Elapse) /\ WF_vars(JoinWriter)

SafetySpec == Init /\ [][Next]_vars
Spec == SafetySpec /\ Fairness

-----------------------------------------------------------------------------
WriterTypeOK ==
  /\ queue \in Seq(Events) /\ Len(queue) <= Capacity
  /\ store \in {"open", "closing", "joined"}
  /\ batch \in Seq(Events) /\ Len(batch) <= MaxBatchSize
  /\ pc \in {"receive", "fill", "tail", "flush", "flushIdle", "check", "exited"}
  /\ due \in BOOLEAN
  /\ written \in Seq(Events)
  /\ recorded \in 0 .. MaxEvents
  /\ accepted \subseteq Events
  /\ lost \subseteq Events
  /\ discarded \subseteq Events

(* Events reach the database in the order they were recorded, none twice:  *)
(* what is written, batched and queued, in this order, is increasing.      *)
Pending == written \o (batch \o queue)

WrittenInOrder ==
  \A i, j \in 1 .. Len(Pending) : i < j => Pending[i] < Pending[j]

(* Every accepted event is written, or on its way, or was lost by a failed *)
(* transaction, or is the one event that the test for the end of the loop  *)
(* may throw away, and that only once the sender is gone.                  *)
EveryEventAccountedFor ==
  /\ accepted = ToSet(Pending) \cup lost \cup discarded
  /\ \A d, e \in discarded : d = e
  /\ discarded # {} => IsClosed

(* When shutdown() returns, the writer has dealt with all that was         *)
(* accepted: but for failed transactions and the thrown-away event, it is  *)
(* all in the database.                                                    *)
ShutdownFlushes ==
  store = "joined" => accepted = ToSet(written) \cup lost \cup discarded

(* shutdown() returns. *)
WriterStops == store = "closing" ~> store = "joined"

(* No event waits for ever in the channel or in the batch, even when no    *)
(* other event follows it and nobody shuts down.                           *)
AcceptedIsWritten ==
  \A e \in Events :
    e \in accepted ~> e \in ToSet(written) \cup lost \cup discarded
=============================================================================
