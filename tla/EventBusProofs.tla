-------------------------- MODULE EventBusProofs ---------------------------
(***************************************************************************)
(* Proofs about the event bus, for any number of sinks, any channel and    *)
(* batch size and any number of events: exact delivery, draining shutdown, *)
(* and that the bus implements OrderedBroadcast.                           *)
(***************************************************************************)
EXTENDS EventBus, SequenceTheorems, TLAPS

(* Moving the head of one queue to the end of another changes nothing for  *)
(* a reader of both.                                                       *)
LEMMA MoveHead ==
  ASSUME NEW b \in Seq(Events), NEW c \in Seq(Events), c # <<>>
  PROVE  /\ Append(b, Head(c)) \in Seq(Events)
         /\ Tail(c) \in Seq(Events)
         /\ Len(Tail(c)) = Len(c) - 1
         /\ Append(b, Head(c)) \o Tail(c) = b \o c
<1>1. Head(c) \in Events /\ Tail(c) \in Seq(Events) /\ Len(Tail(c)) = Len(c) - 1
  BY HeadTailProperties
<1>2. Append(b, Head(c)) \in Seq(Events) /\ Append(b, Head(c)) = b \o <<Head(c)>>
  BY <1>1, AppendProperties, AppendIsConcat
<1>3. <<Head(c)>> \in Seq(Events) /\ <<Head(c)>> \o Tail(c) = c
  BY <1>1
<1>4. (b \o <<Head(c)>>) \o Tail(c) = b \o (<<Head(c)>> \o Tail(c))
  BY <1>1, <1>3, ConcatAssociative
<1> QED BY <1>1, <1>2, <1>3, <1>4

(* A concatenation, and its length. *)
LEMMA ConcatLen ==
  ASSUME NEW s \in Seq(Events), NEW t \in Seq(Events)
  PROVE  /\ s \o t \in Seq(Events)
         /\ Len(s) \in Nat
         /\ Len(t) \in Nat
         /\ Len(s \o t) = Len(s) + Len(t)
BY ConcatProperties, LenProperties

(* Concatenation is associative; with an empty first part it is nothing. *)
LEMMA ConcatRegroup ==
  ASSUME NEW g \in Seq(Events), NEW b \in Seq(Events), NEW c \in Seq(Events)
  PROVE  /\ (g \o b) \o c = g \o (b \o c)
         /\ <<>> \o c = c
BY SMTT(30), ConcatAssociative, ConcatEmptySeq

(* Accepting an event at the end of the channel extends the whole. *)
LEMMA AppendToLast ==
  ASSUME NEW g \in Seq(Events), NEW b \in Seq(Events), NEW c \in Seq(Events), NEW e \in Events
  PROVE  Append(g \o (b \o c), e) = g \o (b \o Append(c, e))
<1> DEFINE d == <<e>>
<1>1. d \in Seq(Events) /\ b \o c \in Seq(Events) /\ g \o (b \o c) \in Seq(Events)
  BY ConcatProperties
<1>2. /\ Append(c, e) = c \o d
      /\ Append(g \o (b \o c), e) = (g \o (b \o c)) \o d
  BY <1>1, AppendIsConcat
<1> HIDE DEF d
<1>3. b \o (c \o d) = (b \o c) \o d
  BY SMTT(30), <1>1, ConcatAssociative
<1>4. (g \o (b \o c)) \o d = g \o ((b \o c) \o d)
  <2> DEFINE bc == b \o c
  <2>1. bc \in Seq(Events)
    BY <1>1
  <2> HIDE DEF bc
  <2>2. (g \o bc) \o d = g \o (bc \o d)
    BY SMTT(30), <1>1, <2>1, ConcatAssociative
  <2> QED BY <2>2 DEF bc
<1> QED BY <1>2, <1>3, <1>4

(* The first part of a concatenation is what its length cuts off. *)
LEMMA FirstPart ==
  ASSUME NEW s \in Seq(Events), NEW t \in Seq(Events)
  PROVE  SubSeq(s \o t, 1, Len(s)) = s
<1>1. CASE s = <<>>
  <2>1. Len(s) = 0
    BY <1>1
  <2> QED BY <1>1, <2>1, SubSeqEmpty
<1>2. CASE s # <<>>
  <2>1. Len(s) \in Nat \ {0}
    BY <1>2, EmptySeq
  <2>2. SubSeq(s \o t, 1, Len(s)) = SubSeq(s, 1, Len(s))
    BY <2>1, SubSeqOfConcat1
  <2> QED BY <2>2, SubSeqFull
<1> QED BY <1>1, <1>2

-----------------------------------------------------------------------------
(* Where the batch is empty, and where it is not. *)
BatchPlace ==
  /\ pc \in {"select", "flush", "exited"} => batch = <<>>
  /\ pc = "dispatch" => batch # <<>>
  /\ pc = "drain" /\ ~stopping => batch # <<>>

(* The last drain starts after the signal, and what it leaves behind was   *)
(* accepted after the signal.                                              *)
StopAfterSignal ==
  /\ handle = "held" <=> asked = NotAsked
  /\ handle # "held" => asked \in Nat /\ asked <= Len(accepted)
  /\ stopping => handle # "held"
  /\ pc = "exited" => stopping
  /\ stopping => pc # "select"
  /\ handle = "joined" => pc = "exited"
  /\ stopping /\ pc # "drain" => asked + Len(channel) <= Len(accepted)

(* The last flush covers the sinks it has passed, and all once exited. *)
LastFlush ==
  /\ stopping /\ pc = "flush" =>
       \A s \in Sinks : s < next => flushed[s] = Len(got[s])
  /\ pc = "exited" => \A s \in Sinks : flushed[s] = Len(got[s])

(* The inductive invariant. *)
BusInv == BusTypeOK /\ DeliveryExact /\ BatchPlace /\ StopAfterSignal /\ LastFlush

LEMMA BusInitInv == Init => BusInv
<1> SUFFICES ASSUME Init
             PROVE  BusInv
  OBVIOUS
<1>1. BusTypeOK
  <2>1. <<>> \in Seq(Events) /\ 0 \in 0 .. MaxEvents
    BY BusAssumption
  <2>2. got \in [Sinks -> Seq(Events)] /\ flushed \in [Sinks -> Nat]
    BY <2>1 DEF Init
  <2>3. /\ channel \in Seq(Events)
        /\ batch \in Seq(Events)
        /\ accepted \in Seq(Events)
        /\ emitted \in 0 .. MaxEvents
    BY <2>1 DEF Init
  <2>4. /\ pc \in {"select", "drain", "dispatch", "flush", "exited"}
        /\ next \in Nat \ {0}
        /\ handle \in {"held", "joining", "dropped", "joined"}
        /\ asked \in Nat \cup {NotAsked}
    BY DEF Init
  <2>5. stopping \in BOOLEAN
    BY Zenon DEF Init
  <2> QED BY <2>2, <2>3, <2>4, <2>5 DEF BusTypeOK
<1>2. DeliveryExact
  <2>1. <<>> \o (<<>> \o <<>>) = <<>>
    OBVIOUS
  <2> QED BY <2>1 DEF Init, DeliveryExact, InHand
<1>3. BatchPlace /\ StopAfterSignal /\ LastFlush
  BY DEF Init, BatchPlace, StopAfterSignal, LastFlush
<1> QED BY <1>1, <1>2, <1>3 DEF BusInv

LEMMA InHandType ==
  ASSUME BusTypeOK, NEW s \in Sinks
  PROVE  InHand(s) \in Seq(Events)
<1>1. <<>> \in Seq(Events) /\ batch \in Seq(Events)
  BY DEF BusTypeOK
<1> QED BY <1>1 DEF InHand

LEMMA EmitStep == BusInv /\ Emit => BusInv'
<1> SUFFICES ASSUME BusInv, Emit
             PROVE  BusInv'
  OBVIOUS
<1> USE BusAssumption DEF BusInv
<1>1. CASE ~HasRoom
  <2>1. /\ UNCHANGED <<channel, accepted, threadVars, handle, asked>>
        /\ emitted < MaxEvents
        /\ emitted' = emitted + 1
    BY <1>1 DEF Emit
  <2>2. BusTypeOK'
    BY <2>1 DEF threadVars, BusTypeOK
  <2>3. DeliveryExact' /\ BatchPlace' /\ StopAfterSignal' /\ LastFlush'
    BY <2>1 DEF threadVars, DeliveryExact, InHand, BatchPlace, StopAfterSignal,
                LastFlush
  <2> QED BY <2>2, <2>3
<1>2. CASE HasRoom
  <2> DEFINE e == emitted + 1
  <2>1. /\ e \in Events
        /\ emitted' = e
        /\ channel' = Append(channel, e)
        /\ accepted' = Append(accepted, e)
        /\ UNCHANGED <<threadVars, handle, asked>>
    BY <1>2 DEF Emit, BusTypeOK, Events
  <2>2. /\ channel' \in Seq(Events)
        /\ accepted' \in Seq(Events)
        /\ Len(channel') = Len(channel) + 1
        /\ Len(accepted') = Len(accepted) + 1
        /\ Len(channel) \in Nat
        /\ Len(accepted) \in Nat
    BY <2>1, AppendProperties, LenProperties DEF BusTypeOK
  <2>3. BusTypeOK'
    BY <2>1, <2>2 DEF BusTypeOK, threadVars, Events
  <2>4. DeliveryExact'
    <3> SUFFICES ASSUME NEW s \in Sinks
                 PROVE  accepted' = got[s] \o (InHand(s) \o channel')
      BY <2>1 DEF DeliveryExact, threadVars, InHand
    <3>1. accepted = got[s] \o (InHand(s) \o channel)
      BY DEF DeliveryExact
    <3>2. /\ got[s] \in Seq(Events)
          /\ channel \in Seq(Events)
          /\ InHand(s) \in Seq(Events)
          /\ e \in Events
      BY <2>1, InHandType DEF BusTypeOK
    <3> HIDE DEF e
    <3>3. Append(got[s] \o (InHand(s) \o channel), e)
            = got[s] \o (InHand(s) \o Append(channel, e))
      BY ZenonT(30), <3>2, AppendToLast
    <3> QED BY <2>1, <3>1, <3>3
  <2>5. BatchPlace' /\ LastFlush'
    BY <2>1 DEF BatchPlace, LastFlush, threadVars
  <2>6. StopAfterSignal'
    BY <2>1, <2>2 DEF StopAfterSignal, threadVars
  <2> QED BY <2>3, <2>4, <2>5, <2>6
<1> QED BY <1>1, <1>2

(* Both ways of taking an event out of the channel.  In each the thread is *)
(* not in its dispatch loop, before or after, so every sink is owed the    *)
(* whole batch.                                                            *)
LEMMA TakeOneStep ==
  ASSUME BusInv,
         channel # <<>>,
         batch' = Append(batch, Head(channel)),
         channel' = Tail(channel),
         pc \in {"select", "drain"}, pc' = "drain",
         UNCHANGED <<stopping, next, got, flushed, handle, emitted, accepted, asked>>
  PROVE  BusInv'
<1> USE BusAssumption DEF BusInv
<1>1. /\ batch' \in Seq(Events)
      /\ channel' \in Seq(Events)
      /\ batch' # <<>>
      /\ batch' \o channel' = batch \o channel
      /\ Len(channel') = Len(channel) - 1
      /\ Len(channel) \in Nat
  <2>1. batch \in Seq(Events) /\ channel \in Seq(Events)
    BY DEF BusTypeOK
  <2>2. Head(channel) \in Events
    BY <2>1, HeadTailProperties
  <2>3. Append(batch, Head(channel)) # <<>>
    BY <2>1, <2>2, AppendProperties
  <2> QED BY <2>1, <2>3, MoveHead, LenProperties
<1>2. BusTypeOK'
  BY <1>1 DEF BusTypeOK
<1>3. DeliveryExact'
  <2>1. \A s \in Sinks : InHand(s) = batch /\ InHand(s)' = batch'
    BY DEF InHand
  <2> QED BY <1>1, <2>1 DEF DeliveryExact
<1>4. BatchPlace'
  BY <1>1 DEF BatchPlace
<1>5. StopAfterSignal'
  BY <1>1 DEF StopAfterSignal
<1>6. LastFlush'
  BY DEF LastFlush
<1> QED BY <1>2, <1>3, <1>4, <1>5, <1>6

LEMMA DrainStopStep == BusInv /\ DrainStop => BusInv'
<1> SUFFICES ASSUME BusInv, DrainStop
             PROVE  BusInv'
  OBVIOUS
<1> USE BusAssumption DEF BusInv, DrainStop
<1>1. pc' = IF batch = <<>> THEN "flush" ELSE "dispatch"
  OBVIOUS
<1>2. BusTypeOK'
  BY DEF BusTypeOK
<1>3. DeliveryExact'
  <2>1. \A s \in Sinks : InHand(s) = batch /\ InHand(s)' = batch
    BY DEF InHand, Sinks
  <2> QED BY <2>1 DEF DeliveryExact
<1>4. BatchPlace'
  BY DEF BatchPlace
<1>5. StopAfterSignal'
  <2>1. stopping => channel = <<>> /\ Len(channel) = 0
    OBVIOUS
  <2>2. stopping => asked \in Nat /\ asked <= Len(accepted)
    BY DEF StopAfterSignal
  <2> QED BY <1>1, <2>1, <2>2 DEF StopAfterSignal
<1>6. LastFlush'
  BY DEF LastFlush, Sinks
<1> QED BY <1>2, <1>3, <1>4, <1>5, <1>6

LEMMA DispatchStep == BusInv /\ Dispatch => BusInv'
<1> SUFFICES ASSUME BusInv, Dispatch
             PROVE  BusInv'
  OBVIOUS
<1> USE BusAssumption DEF BusInv, Dispatch
<1>1. /\ next \in Sinks
      /\ got[next] \in Seq(Events)
      /\ batch \in Seq(Events)
      /\ channel \in Seq(Events)
  BY DEF BusTypeOK, Sinks
<1>2. got[next] \o batch \in Seq(Events)
  BY <1>1, ConcatProperties
<1>3. /\ got'[next] = got[next] \o batch
      /\ \A s \in Sinks \ {next} : got'[s] = got[s]
  BY <1>1 DEF BusTypeOK
<1>4. BusTypeOK'
  <2>1. got' \in [Sinks -> Seq(Events)]
    BY <1>2 DEF BusTypeOK
  <2>2. next' \in Nat \ {0}
    BY DEF BusTypeOK
  <2>3. stopping' \in BOOLEAN
    BY Zenon DEF BusTypeOK
  <2>4. UNCHANGED <<channel, batch, pc, flushed, handle, emitted, accepted, asked>>
    OBVIOUS
  <2> QED BY <2>1, <2>2, <2>3, <2>4 DEF BusTypeOK
<1>5. DeliveryExact'
  <2> SUFFICES ASSUME NEW s \in Sinks
               PROVE  accepted = got'[s] \o (InHand(s)' \o channel)
    BY DEF DeliveryExact
  <2>1. CASE s = next
    <3>1. InHand(s) = batch /\ InHand(s)' = <<>>
      BY <2>1 DEF InHand, BusTypeOK
    <3>2. accepted = got[s] \o (batch \o channel)
      BY <3>1 DEF DeliveryExact
    <3>3. (got[s] \o batch) \o channel = got[s] \o (batch \o channel)
      BY <2>1, <1>1, ConcatRegroup
    <3>4. <<>> \o channel = channel
      BY <1>1, ConcatRegroup
    <3> QED BY <2>1, <1>3, <3>1, <3>2, <3>3, <3>4
  <2>2. CASE s # next
    <3>1. InHand(s)' = InHand(s)
      BY <2>2 DEF InHand, BusTypeOK, Sinks
    <3> QED BY <2>2, <1>3, <3>1 DEF DeliveryExact
  <2> QED BY <2>1, <2>2
<1>6. BatchPlace' /\ StopAfterSignal' /\ LastFlush'
  BY DEF BatchPlace, StopAfterSignal, LastFlush
<1> QED BY <1>4, <1>5, <1>6

LEMMA DispatchDoneStep == BusInv /\ DispatchDone => BusInv'
<1> SUFFICES ASSUME BusInv, DispatchDone
             PROVE  BusInv'
  OBVIOUS
<1> USE BusAssumption DEF BusInv, DispatchDone
<1>1. BusTypeOK'
  <2>1. <<>> \in Seq(Events)
    OBVIOUS
  <2> QED BY <2>1 DEF BusTypeOK
<1>2. DeliveryExact'
  <2>1. \A s \in Sinks : InHand(s) = <<>> /\ InHand(s)' = <<>>
    BY DEF InHand, Sinks, BusTypeOK
  <2> QED BY <2>1 DEF DeliveryExact
<1>3. BatchPlace'
  BY DEF BatchPlace
<1>4. StopAfterSignal'
  BY DEF StopAfterSignal
<1>5. LastFlush'
  BY DEF LastFlush, Sinks
<1> QED BY <1>1, <1>2, <1>3, <1>4, <1>5

(* Tick and TakeShutdown leave the select with an empty batch. *)
LEMMA LeaveSelectStep ==
  ASSUME BusInv, pc = "select", Tick \/ TakeShutdown
  PROVE  BusInv'
<1> USE BusAssumption DEF BusInv, Tick, TakeShutdown
<1>1. BusTypeOK'
  <2>1. stopping' \in BOOLEAN
    BY Zenon DEF BusTypeOK
  <2>2. /\ pc' \in {"select", "drain", "dispatch", "flush", "exited"}
        /\ next' \in Nat \ {0}
        /\ UNCHANGED <<channel, batch, got, flushed, handle, emitted, accepted, asked>>
    BY DEF BusTypeOK
  <2> QED BY <2>1, <2>2 DEF BusTypeOK
<1>2. DeliveryExact'
  <2>1. \A s \in Sinks : InHand(s) = batch /\ InHand(s)' = batch
    BY DEF InHand
  <2> QED BY <2>1 DEF DeliveryExact
<1>3. BatchPlace'
  BY DEF BatchPlace, StopAfterSignal
<1>4. StopAfterSignal'
  BY DEF StopAfterSignal
<1>5. LastFlush'
  BY DEF LastFlush, Sinks, StopAfterSignal
<1> QED BY <1>1, <1>2, <1>3, <1>4, <1>5

LEMMA FlushSinkStep == BusInv /\ FlushSink => BusInv'
<1> SUFFICES ASSUME BusInv, FlushSink
             PROVE  BusInv'
  OBVIOUS
<1> USE BusAssumption DEF BusInv, FlushSink
<1>1. next \in Sinks /\ Len(got[next]) \in Nat
  BY LenProperties DEF BusTypeOK, Sinks
<1>2. BusTypeOK'
  BY <1>1 DEF BusTypeOK
<1>3. DeliveryExact'
  <2>1. \A s \in Sinks : InHand(s) = batch /\ InHand(s)' = batch
    BY DEF InHand
  <2> QED BY <2>1 DEF DeliveryExact
<1>4. BatchPlace' /\ StopAfterSignal'
  BY DEF BatchPlace, StopAfterSignal
<1>5. LastFlush'
  BY <1>1 DEF LastFlush, Sinks, BusTypeOK
<1> QED BY <1>2, <1>3, <1>4, <1>5

LEMMA FlushDoneStep == BusInv /\ FlushDone => BusInv'
<1> SUFFICES ASSUME BusInv, FlushDone
             PROVE  BusInv'
  OBVIOUS
<1> USE BusAssumption DEF BusInv, FlushDone
<1>1. BusTypeOK'
  BY DEF BusTypeOK
<1>2. DeliveryExact'
  <2>1. \A s \in Sinks : InHand(s) = batch /\ InHand(s)' = batch
    BY DEF InHand
  <2> QED BY <2>1 DEF DeliveryExact
<1>3. BatchPlace' /\ StopAfterSignal'
  BY DEF BatchPlace, StopAfterSignal
<1>4. LastFlush'
  <2>1. pc' # "flush"
    OBVIOUS
  <2>2. pc' = "exited" => stopping
    OBVIOUS
  <2>3. \A s \in Sinks : s < next
    BY DEF Sinks, BusTypeOK
  <2>4. stopping => \A s \in Sinks : flushed[s] = Len(got[s])
    BY <2>3 DEF LastFlush
  <2> QED BY <2>1, <2>2, <2>4 DEF LastFlush
<1> QED BY <1>1, <1>2, <1>3, <1>4

LEMMA HandleStep == BusInv /\ (Signal \/ Join) => BusInv'
<1> SUFFICES ASSUME BusInv, Signal \/ Join
             PROVE  BusInv'
  OBVIOUS
<1> USE BusAssumption DEF BusInv, Signal, Join, threadVars
<1>1. Len(accepted) \in Nat /\ Len(channel) \in Nat
  BY LenProperties DEF BusTypeOK
<1>2. BusTypeOK'
  BY <1>1 DEF BusTypeOK
<1>3. UNCHANGED <<channel, threadVars, accepted>>
  OBVIOUS
<1>4. DeliveryExact'
  BY <1>3 DEF DeliveryExact, InHand
<1>5. BatchPlace'
  BY <1>3 DEF BatchPlace
<1>6. LastFlush'
  BY <1>3 DEF LastFlush
<1>7. StopAfterSignal'
  BY <1>1 DEF StopAfterSignal
<1> QED BY <1>2, <1>4, <1>5, <1>6, <1>7

LEMMA BusNextInv == BusInv /\ [Next]_vars => BusInv'
<1> SUFFICES ASSUME BusInv, [Next]_vars
             PROVE  BusInv'
  OBVIOUS
<1>1. CASE Emit
  BY <1>1, EmitStep
<1>2. CASE Recv
  BY <1>2, TakeOneStep DEF Recv
<1>3. CASE DrainMore
  BY <1>3, TakeOneStep DEF DrainMore
<1>4. CASE DrainStop
  BY <1>4, DrainStopStep
<1>5. CASE Dispatch
  BY <1>5, DispatchStep
<1>6. CASE DispatchDone
  BY <1>6, DispatchDoneStep
<1>7. CASE Tick \/ TakeShutdown
  BY <1>7, LeaveSelectStep DEF Tick, TakeShutdown
<1>8. CASE FlushSink
  BY <1>8, FlushSinkStep
<1>9. CASE FlushDone
  BY <1>9, FlushDoneStep
<1>10. CASE Signal \/ Join
  BY <1>10, HandleStep
<1>11. CASE UNCHANGED vars
  BY <1>11 DEF vars, threadVars, BusInv, BusTypeOK, DeliveryExact, InHand,
               BatchPlace, StopAfterSignal, LastFlush
<1> QED BY <1>1, <1>2, <1>3, <1>4, <1>5, <1>6, <1>7, <1>8, <1>9, <1>10, <1>11
        DEF Next

LEMMA BusInvariant == SafetySpec => []BusInv
BY BusInitInv, BusNextInv, PTL DEF SafetySpec

-----------------------------------------------------------------------------
(* Type correctness of the bus. *)
THEOREM BusTypeCorrect == SafetySpec => []BusTypeOK
<1>1. BusInv => BusTypeOK
  BY DEF BusInv
<1> QED BY <1>1, BusInvariant, PTL

(* Every sink receives the accepted events exactly once, in order. *)
THEOREM BusDeliveryExact == SafetySpec => []DeliveryExact
<1>1. BusInv => DeliveryExact
  BY DEF BusInv
<1> QED BY <1>1, BusInvariant, PTL

(* shutdown() returns only when all that was accepted before the call was  *)
(* delivered to, and flushed by, every sink.                               *)
THEOREM BusShutdownDrains == SafetySpec => []ShutdownDrains
<1>1. BusInv => ShutdownDrains
  <2> SUFFICES ASSUME BusInv, handle = "joined", NEW s \in Sinks
               PROVE  Len(got[s]) >= asked /\ flushed[s] = Len(got[s])
    BY DEF ShutdownDrains
  <2>1. pc = "exited" /\ stopping /\ batch = <<>>
    BY DEF BusInv, StopAfterSignal, BatchPlace
  <2>2. InHand(s) = <<>>
    BY <2>1 DEF InHand
  <2>3. got[s] \in Seq(Events) /\ channel \in Seq(Events)
    BY DEF BusInv, BusTypeOK
  <2>4. accepted = got[s] \o channel
    BY <2>2, <2>3, ConcatEmptySeq DEF BusInv, DeliveryExact
  <2>5. Len(accepted) = Len(got[s]) + Len(channel)
    BY <2>3, <2>4, ConcatLen
  <2>6. Len(got[s]) \in Nat /\ Len(channel) \in Nat
    BY <2>3, LenProperties
  <2>7. asked \in Nat /\ asked + Len(channel) <= Len(accepted)
    BY <2>1 DEF BusInv, StopAfterSignal
  <2> QED BY <2>1, <2>5, <2>6, <2>7 DEF BusInv, LastFlush
<1> QED BY <1>1, BusInvariant, PTL

-----------------------------------------------------------------------------
(* Between two steps of the abstract broadcast the bus only moves events   *)
(* about: what it accepted, handed over and promised stays.                *)
Silent == UNCHANGED <<accepted, got, asked>> /\ (pc = "exited" <=> pc' = "exited")

LEMMA SilentStep == Silent => UNCHANGED Broadcast!broadcastVars
<1> SUFFICES ASSUME Silent
             PROVE  UNCHANGED Broadcast!broadcastVars
  OBVIOUS
<1>1. (pc = "exited") = (pc' = "exited")
  BY DEF Silent
<1> QED BY <1>1 DEF Silent, Broadcast!broadcastVars

(* Handing the batch to a sink delivers the next accepted events to it. *)
LEMMA DispatchDelivers ==
  BusInv /\ Dispatch => Broadcast!Deliver(next) /\ next \in Sinks
<1> SUFFICES ASSUME BusInv, Dispatch
             PROVE  Broadcast!Deliver(next) /\ next \in Sinks
  OBVIOUS
<1> DEFINE g == got[next]
           n == Len(g \o batch)
<1>1. /\ next \in Sinks
      /\ g \in Seq(Events)
      /\ batch \in Seq(Events)
      /\ channel \in Seq(Events)
      /\ got \in [Sinks -> Seq(Events)]
      /\ pc = "dispatch" /\ pc' = "dispatch"
      /\ UNCHANGED <<accepted, asked>>
  <2>1. next \in Sinks
    BY BusAssumption DEF Dispatch, BusInv, BusTypeOK, Sinks
  <2>2. g \in Seq(Events)
    BY <2>1 DEF BusInv, BusTypeOK
  <2> QED BY <2>1, <2>2 DEF Dispatch, BusInv, BusTypeOK
<1>2. got' = [got EXCEPT ![next] = g \o batch]
  BY DEF Dispatch
<1>3. InHand(next) = batch
  BY <1>1 DEF InHand, BusInv, BusTypeOK
<1>4. accepted = g \o (batch \o channel)
  BY <1>1, <1>3 DEF BusInv, DeliveryExact
<1>5. batch # <<>> /\ Len(batch) \in Nat \ {0}
  BY <1>1, EmptySeq, LenProperties DEF BusInv, BatchPlace
<1> HIDE DEF g
<1>6. accepted = (g \o batch) \o channel
  BY <1>1, <1>4, ConcatRegroup
<1>7. g \o batch \in Seq(Events) /\ n = Len(g) + Len(batch) /\ Len(g) \in Nat
  BY <1>1, ConcatLen
<1>8. Len(accepted) = n + Len(channel) /\ Len(channel) \in Nat
  BY <1>1, <1>6, <1>7, ConcatLen
<1>9. SubSeq(accepted, 1, n) = g \o batch
  BY <1>1, <1>6, <1>7, FirstPart
<1>10. n \in Len(g) + 1 .. Len(accepted)
  BY <1>5, <1>7, <1>8
<1> HIDE DEF n
<1>11. got' = [got EXCEPT ![next] = SubSeq(accepted, 1, n)]
  BY <1>2, <1>9
<1>12. \E m \in Len(got[next]) + 1 .. Len(accepted) :
         got' = [got EXCEPT ![next] = SubSeq(accepted, 1, m)]
  BY <1>10, <1>11 DEF g
<1> QED BY <1>1, <1>12 DEF Broadcast!Deliver

(* The thread returns only after the last drain has handed everything on. *)
LEMMA ExitFinishes ==
  BusInv /\ FlushDone /\ stopping => Broadcast!Finish
<1> SUFFICES ASSUME BusInv, FlushDone, stopping
             PROVE  Broadcast!Finish
  OBVIOUS
<1>1. /\ pc = "flush" /\ pc' = "exited"
      /\ UNCHANGED <<accepted, got, asked>>
  BY DEF FlushDone
<1>2. batch = <<>>
  BY <1>1 DEF BusInv, BatchPlace
<1>3. asked # NotAsked /\ asked \in Nat /\ asked + Len(channel) <= Len(accepted)
  BY <1>1 DEF BusInv, StopAfterSignal
<1>4. ASSUME NEW s \in Sinks
      PROVE  Len(got[s]) >= asked
  <2>1. got[s] \in Seq(Events) /\ channel \in Seq(Events)
    BY DEF BusInv, BusTypeOK
  <2>2. accepted = got[s] \o channel
    <3>1. InHand(s) = <<>>
      BY <1>1, <1>2 DEF InHand
    <3>2. <<>> \o channel = channel
      BY <2>1, ConcatRegroup
    <3> QED BY <3>1, <3>2 DEF BusInv, DeliveryExact
  <2>3. Len(accepted) = Len(got[s]) + Len(channel)
    BY <2>1, <2>2, ConcatLen
  <2> QED BY <1>3, <2>1, <2>3, LenProperties
<1> QED BY <1>1, <1>3, <1>4 DEF Broadcast!Finish

LEMMA BroadcastStep ==
  BusInv /\ [Next]_vars => [Broadcast!Next]_(Broadcast!broadcastVars)
<1> SUFFICES ASSUME BusInv, [Next]_vars
             PROVE  Broadcast!Next \/ UNCHANGED Broadcast!broadcastVars
  OBVIOUS
<1>1. CASE Emit /\ HasRoom
  <2>1. /\ pc # "exited" /\ pc' = pc
        /\ accepted' = Append(accepted, emitted + 1)
        /\ UNCHANGED <<got, asked>>
        /\ emitted + 1 \in Events
    BY <1>1, BusAssumption DEF Emit, HasRoom, threadVars, BusInv, BusTypeOK, Events
  <2>2. Broadcast!Accept
    BY <2>1 DEF Broadcast!Accept
  <2> QED BY <2>2 DEF Broadcast!Next
<1>2. CASE Emit /\ ~HasRoom
  <2>1. Silent
    BY <1>2 DEF Emit, Silent, threadVars
  <2> QED BY <2>1, SilentStep
<1>3. CASE Dispatch
  BY <1>3, DispatchDelivers DEF Broadcast!Next
<1>4. CASE FlushDone /\ stopping
  BY <1>4, ExitFinishes DEF Broadcast!Next
<1>5. CASE FlushDone /\ ~stopping
  <2>1. Silent
    BY <1>5 DEF FlushDone, Silent
  <2> QED BY <2>1, SilentStep
<1>6. CASE Recv \/ DrainMore \/ DrainStop \/ DispatchDone \/ Tick \/ FlushSink
             \/ TakeShutdown \/ Join
  <2>1. Silent
    BY <1>6 DEF Recv, DrainMore, DrainStop, DispatchDone, Tick, FlushSink,
                TakeShutdown, Join, Silent, threadVars
  <2> QED BY <2>1, SilentStep
<1>7. CASE Signal
  <2>1. /\ asked = NotAsked
        /\ asked' = Len(accepted)
        /\ UNCHANGED <<accepted, got, pc>>
    BY <1>7 DEF Signal, threadVars, BusInv, StopAfterSignal
  <2>2. Broadcast!AskClose
    BY <2>1 DEF Broadcast!AskClose
  <2> QED BY <2>2 DEF Broadcast!Next
<1>8. CASE UNCHANGED vars
  <2>1. Silent
    BY <1>8 DEF vars, threadVars, Silent
  <2> QED BY <2>1, SilentStep
<1> QED BY <1>1, <1>2, <1>3, <1>4, <1>5, <1>6, <1>7, <1>8 DEF Next

(* The bus implements the ordered broadcast: an accepted event goes to     *)
(* every sink once and in order, and the bus finishes only when all that   *)
(* was accepted before the close has arrived.                              *)
THEOREM BusImplementsBroadcast == SafetySpec => BroadcastSpec
<1>1. Init => Broadcast!Init
  BY DEF Init, Broadcast!Init
<1> QED BY <1>1, BroadcastStep, BusInvariant, PTL
        DEF SafetySpec, BroadcastSpec, Broadcast!Spec
=============================================================================
