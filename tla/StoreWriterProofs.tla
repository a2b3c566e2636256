------------------------- MODULE StoreWriterProofs -------------------------
(***************************************************************************)
(* Proofs about the store's writer thread, for any channel and batch size  *)
(* and any number of events: events are written in order, none twice, and  *)
(* each accepted one is written, lost with a failed transaction, or is the *)
(* single event the test for the end of the loop throws away.              *)
(***************************************************************************)
EXTENDS StoreWriter, SequenceTheorems, TLAPS

(* The elements of a sequence, and how they are ordered. *)
Increasing(s) == \A i, j \in 1 .. Len(s) : i < j => s[i] < s[j]
Below(s, t) == \A i \in 1 .. Len(s) : \A j \in 1 .. Len(t) : s[i] < t[j]

(* A concatenation increases when its parts do, the first below the second. *)
LEMMA ConcatIncreasing ==
  ASSUME NEW s \in Seq(Events), NEW t \in Seq(Events),
         Increasing(s), Increasing(t), Below(s, t)
  PROVE  Increasing(s \o t)
<1>1. /\ Len(s) \in Nat /\ Len(t) \in Nat
      /\ Len(s \o t) = Len(s) + Len(t)
      /\ \A i \in 1 .. Len(s) + Len(t) :
           (s \o t)[i] = IF i <= Len(s) THEN s[i] ELSE t[i - Len(s)]
  BY ConcatProperties, LenProperties
<1> SUFFICES ASSUME NEW i \in 1 .. Len(s \o t), NEW j \in 1 .. Len(s \o t), i < j
             PROVE  (s \o t)[i] < (s \o t)[j]
  BY DEF Increasing
<1>2. CASE j <= Len(s)
  BY <1>1, <1>2 DEF Increasing
<1>3. CASE i <= Len(s) /\ Len(s) < j
  BY <1>1, <1>3 DEF Below
<1>4. CASE Len(s) < i
  <2>1. /\ i - Len(s) \in 1 .. Len(t)
        /\ j - Len(s) \in 1 .. Len(t)
        /\ i - Len(s) < j - Len(s)
    BY <1>1, <1>4
  <2>2. t[i - Len(s)] < t[j - Len(s)]
    BY <2>1 DEF Increasing
  <2> QED BY <1>1, <1>4, <2>2
<1> QED BY <1>1, <1>2, <1>3, <1>4

(* What is below two sequences, or above two, is so for their concatenation. *)
LEMMA BelowConcat ==
  ASSUME NEW s \in Seq(Events), NEW t \in Seq(Events), NEW u \in Seq(Events)
  PROVE  /\ Below(u, s) /\ Below(u, t) => Below(u, s \o t)
         /\ Below(s, u) /\ Below(t, u) => Below(s \o t, u)
<1>1. /\ Len(s) \in Nat /\ Len(t) \in Nat /\ Len(u) \in Nat
      /\ Len(s \o t) = Len(s) + Len(t)
      /\ \A i \in 1 .. Len(s) + Len(t) :
           (s \o t)[i] = IF i <= Len(s) THEN s[i] ELSE t[i - Len(s)]
  BY ConcatProperties, LenProperties
<1>2. \A i \in 1 .. Len(s) + Len(t) :
        \/ i \in 1 .. Len(s) /\ (s \o t)[i] = s[i]
        \/ i - Len(s) \in 1 .. Len(t) /\ (s \o t)[i] = t[i - Len(s)]
  BY <1>1
<1> QED BY <1>1, <1>2 DEF Below

(* The elements of a concatenation. *)
LEMMA ConcatElements ==
  ASSUME NEW s \in Seq(Events), NEW t \in Seq(Events)
  PROVE  ToSet(s \o t) = ToSet(s) \cup ToSet(t)
<1>1. /\ Len(s) \in Nat /\ Len(t) \in Nat
      /\ s \o t \in Seq(Events)
      /\ Len(s \o t) = Len(s) + Len(t)
      /\ \A i \in 1 .. Len(s) + Len(t) :
           (s \o t)[i] = IF i <= Len(s) THEN s[i] ELSE t[i - Len(s)]
  BY ConcatProperties, LenProperties
<1>2. /\ DOMAIN s = 1 .. Len(s)
      /\ DOMAIN t = 1 .. Len(t)
      /\ DOMAIN (s \o t) = 1 .. Len(s) + Len(t)
  BY <1>1, LenProperties
<1>3. ASSUME NEW e \in ToSet(s \o t)
      PROVE  e \in ToSet(s) \cup ToSet(t)
  <2>1. PICK i \in 1 .. Len(s) + Len(t) : e = (s \o t)[i]
    BY <1>2 DEF ToSet
  <2>2. CASE i <= Len(s)
    BY <1>1, <1>2, <2>1, <2>2 DEF ToSet
  <2>3. CASE Len(s) < i
    <3>1. i - Len(s) \in 1 .. Len(t) /\ e = t[i - Len(s)]
      BY <1>1, <2>1, <2>3
    <3> QED BY <1>2, <3>1 DEF ToSet
  <2> QED BY <1>1, <2>2, <2>3
<1>4. ASSUME NEW e \in ToSet(s)
      PROVE  e \in ToSet(s \o t)
  <2>1. PICK i \in 1 .. Len(s) : e = s[i]
    BY <1>2 DEF ToSet
  <2>2. i \in 1 .. Len(s) + Len(t) /\ (s \o t)[i] = e
    BY <1>1, <2>1
  <2> QED BY <1>2, <2>2 DEF ToSet
<1>5. ASSUME NEW e \in ToSet(t)
      PROVE  e \in ToSet(s \o t)
  <2>1. PICK i \in 1 .. Len(t) : e = t[i]
    BY <1>2 DEF ToSet
  <2>2. /\ Len(s) + i \in 1 .. Len(s) + Len(t)
        /\ (s \o t)[Len(s) + i] = e
    BY <1>1, <2>1
  <2> QED BY <1>2, <2>2 DEF ToSet
<1> QED BY <1>3, <1>4, <1>5

(* The elements of a sequence are those of its first n and the others. *)
LEMMA SplitElements ==
  ASSUME NEW s \in Seq(Events), NEW n \in 0 .. Len(s)
  PROVE  ToSet(s) = ToSet(SubSeq(s, 1, n)) \cup {s[i] : i \in n + 1 .. Len(s)}
<1>1. /\ Len(s) \in Nat
      /\ DOMAIN s = 1 .. Len(s)
      /\ DOMAIN SubSeq(s, 1, n) = 1 .. n
      /\ \A i \in 1 .. n : SubSeq(s, 1, n)[i] = s[i]
  BY LenProperties
<1>2. ToSet(s) = {s[i] : i \in 1 .. Len(s)}
  BY <1>1 DEF ToSet
<1>3. ToSet(SubSeq(s, 1, n)) = {s[i] : i \in 1 .. n}
  BY <1>1 DEF ToSet
<1>4. 1 .. Len(s) = (1 .. n) \cup (n + 1 .. Len(s))
  BY <1>1
<1> QED BY <1>2, <1>3, <1>4

-----------------------------------------------------------------------------
(* What is written, batched and queued is one increasing sequence. *)
Ordered(w, b, q) ==
  /\ Increasing(w) /\ Increasing(b) /\ Increasing(q)
  /\ Below(w, b) /\ Below(w, q) /\ Below(b, q)

LEMMA OrderedPending ==
  ASSUME NEW w \in Seq(Events), NEW b \in Seq(Events), NEW q \in Seq(Events),
         Ordered(w, b, q)
  PROVE  Increasing(w \o (b \o q))
<1>1. b \o q \in Seq(Events)
  BY ConcatProperties
<1>2. Increasing(b \o q)
  BY ConcatIncreasing DEF Ordered
<1>3. Below(w, b \o q)
  BY BelowConcat DEF Ordered
<1> QED BY <1>1, <1>2, <1>3, ConcatIncreasing DEF Ordered

(* The writer takes the next event out of the channel. *)
LEMMA TakeHead ==
  ASSUME NEW w \in Seq(Events), NEW b \in Seq(Events), NEW q \in Seq(Events),
         q # <<>>
  PROVE  /\ Head(q) \in Events
         /\ Tail(q) \in Seq(Events)
         /\ Append(b, Head(q)) \in Seq(Events)
         /\ Len(b) \in Nat
         /\ Len(q) \in Nat \ {0}
         /\ Len(Tail(q)) = Len(q) - 1
         /\ Len(Append(b, Head(q))) = Len(b) + 1
         /\ ToSet(q) = {Head(q)} \cup ToSet(Tail(q))
         /\ ToSet(Append(b, Head(q))) = ToSet(b) \cup {Head(q)}
         /\ Ordered(w, b, q) => Ordered(w, Append(b, Head(q)), Tail(q))
<1> DEFINE h == Head(q)
           t == Tail(q)
           a == Append(b, h)
<1>1. /\ h \in Events /\ t \in Seq(Events)
      /\ Len(t) = Len(q) - 1
      /\ h = q[1]
      /\ \A i \in 1 .. Len(t) : t[i] = q[i + 1]
      /\ Len(q) \in Nat \ {0}
  BY HeadTailProperties, EmptySeq, LenProperties
<1>2. /\ a \in Seq(Events)
      /\ Len(b) \in Nat
      /\ Len(a) = Len(b) + 1
      /\ \A i \in 1 .. Len(b) : a[i] = b[i]
      /\ a[Len(b) + 1] = h
  BY <1>1, AppendProperties, LenProperties
<1>3. /\ DOMAIN q = 1 .. Len(q)
      /\ DOMAIN t = 1 .. Len(t)
      /\ DOMAIN a = 1 .. Len(b) + 1
      /\ DOMAIN b = 1 .. Len(b)
  BY <1>1, <1>2, LenProperties
<1> HIDE DEF h, t, a
<1>4. ToSet(q) = {h} \cup ToSet(t)
  <2>1. {h} \cup ToSet(t) \subseteq ToSet(q)
    <3>1. h \in ToSet(q)
      <4>1. 1 \in 1 .. Len(q)
        BY <1>1
      <4> QED BY <1>1, <1>3, <4>1 DEF ToSet
    <3>2. ASSUME NEW i \in 1 .. Len(t)
          PROVE  t[i] \in ToSet(q)
      <4>1. i + 1 \in 1 .. Len(q) /\ t[i] = q[i + 1]
        BY <1>1
      <4> QED BY <1>3, <4>1 DEF ToSet
    <3>3. ToSet(t) = {t[i] : i \in 1 .. Len(t)}
      BY <1>3 DEF ToSet
    <3> QED BY <3>1, <3>2, <3>3
  <2>2. ASSUME NEW i \in 1 .. Len(q)
        PROVE  q[i] \in {h} \cup ToSet(t)
    <3>1. CASE i = 1
      BY <1>1, <3>1
    <3>2. CASE i # 1
      <4>1. i - 1 \in 1 .. Len(t) /\ t[i - 1] = q[i]
        BY <1>1, <3>2
      <4> QED BY <1>3, <4>1 DEF ToSet
    <3> QED BY <3>1, <3>2
  <2> QED BY <1>3, <2>1, <2>2 DEF ToSet
<1>5. ToSet(a) = ToSet(b) \cup {h}
  <2>1. /\ ToSet(a) = {a[i] : i \in 1 .. Len(b) + 1}
        /\ ToSet(b) = {b[i] : i \in 1 .. Len(b)}
    BY <1>3 DEF ToSet
  <2>2. h \in ToSet(a)
    <3>1. Len(b) + 1 \in 1 .. Len(b) + 1
      BY <1>2
    <3> QED BY <1>2, <2>1, <3>1
  <2>3. ASSUME NEW i \in 1 .. Len(b)
        PROVE  b[i] \in ToSet(a)
    <3>1. i \in 1 .. Len(b) + 1 /\ a[i] = b[i]
      BY <1>2
    <3> QED BY <2>1, <3>1
  <2>4. ASSUME NEW i \in 1 .. Len(b) + 1
        PROVE  a[i] \in ToSet(b) \cup {h}
    <3>1. CASE i = Len(b) + 1
      BY <1>2, <3>1
    <3>2. CASE i # Len(b) + 1
      <4>1. i \in 1 .. Len(b) /\ a[i] = b[i]
        BY <1>2, <3>2
      <4> QED BY <2>1, <4>1
    <3> QED BY <3>1, <3>2
  <2>5. ToSet(b) \subseteq ToSet(a)
    BY <2>1, <2>3
  <2>6. ToSet(a) \subseteq ToSet(b) \cup {h}
    BY <2>1, <2>4
  <2> QED BY <2>2, <2>5, <2>6
<1>6. ASSUME Ordered(w, b, q)
      PROVE  Ordered(w, a, t)
  <2>1. Len(w) \in Nat
    BY LenProperties
  <2>2. \A i \in 1 .. Len(t) : i + 1 \in 1 .. Len(q) /\ h < t[i]
    <3> SUFFICES ASSUME NEW i \in 1 .. Len(t)
                 PROVE  i + 1 \in 1 .. Len(q) /\ h < t[i]
      OBVIOUS
    <3>1. 1 \in 1 .. Len(q) /\ i + 1 \in 1 .. Len(q) /\ 1 < i + 1
      BY <1>1
    <3>2. q[1] < q[i + 1]
      BY <1>6, <3>1 DEF Ordered, Increasing
    <3> QED BY <1>1, <3>1, <3>2
  <2>3. \A i \in 1 .. Len(b) : b[i] < h
    <3>1. 1 \in 1 .. Len(q)
      BY <1>1
    <3> QED BY <1>1, <1>6, <3>1 DEF Ordered, Below
  <2>4. \A i \in 1 .. Len(w) : w[i] < h
    <3>1. 1 \in 1 .. Len(q)
      BY <1>1
    <3> QED BY <1>1, <1>6, <3>1 DEF Ordered, Below
  <2>5. Increasing(t)
    <3> SUFFICES ASSUME NEW i \in 1 .. Len(t), NEW j \in 1 .. Len(t), i < j
                 PROVE  t[i] < t[j]
      BY DEF Increasing
    <3>1. i + 1 \in 1 .. Len(q) /\ j + 1 \in 1 .. Len(q) /\ i + 1 < j + 1
      BY <2>2
    <3>2. q[i + 1] < q[j + 1]
      BY <1>6, <3>1 DEF Ordered, Increasing
    <3> QED BY <1>1, <3>2
  <2>6. Increasing(a)
    <3> SUFFICES ASSUME NEW i \in 1 .. Len(b) + 1, NEW j \in 1 .. Len(b) + 1, i < j
                 PROVE  a[i] < a[j]
      BY <1>2 DEF Increasing
    <3>1. i \in 1 .. Len(b) /\ a[i] = b[i]
      BY <1>2
    <3>2. CASE j = Len(b) + 1
      BY <1>2, <2>3, <3>1, <3>2
    <3>3. CASE j \in 1 .. Len(b)
      BY <1>2, <1>6, <3>1, <3>3 DEF Ordered, Increasing
    <3> QED BY <1>2, <3>2, <3>3
  <2>7. Below(w, a)
    <3> SUFFICES ASSUME NEW i \in 1 .. Len(w), NEW j \in 1 .. Len(b) + 1
                 PROVE  w[i] < a[j]
      BY <1>2 DEF Below
    <3>1. CASE j = Len(b) + 1
      BY <1>2, <2>4, <3>1
    <3>2. CASE j \in 1 .. Len(b)
      BY <1>2, <1>6, <3>2 DEF Ordered, Below
    <3> QED BY <1>2, <3>1, <3>2
  <2>8. Below(w, t)
    BY <1>1, <1>6, <2>2 DEF Ordered, Below
  <2>9. Below(a, t)
    <3> SUFFICES ASSUME NEW i \in 1 .. Len(b) + 1, NEW j \in 1 .. Len(t)
                 PROVE  a[i] < t[j]
      BY <1>2 DEF Below
    <3>1. CASE i = Len(b) + 1
      BY <1>2, <2>2, <3>1
    <3>2. CASE i \in 1 .. Len(b)
      <4>1. b[i] < q[j + 1]
        BY <1>6, <2>2, <3>2 DEF Ordered, Below
      <4> QED BY <1>1, <1>2, <3>2, <4>1
    <3> QED BY <1>2, <3>1, <3>2
  <2> QED BY <1>6, <2>5, <2>6, <2>7, <2>8, <2>9 DEF Ordered
<1> QED BY <1>1, <1>2, <1>4, <1>5, <1>6 DEF h, t, a

(* An event above all the others joins the end of the channel. *)
LEMMA AddLast ==
  ASSUME NEW w \in Seq(Events), NEW b \in Seq(Events), NEW q \in Seq(Events),
         NEW e \in Events,
         Ordered(w, b, q),
         Below(w, <<e>>), Below(b, <<e>>), Below(q, <<e>>)
  PROVE  /\ Append(q, e) \in Seq(Events)
         /\ Len(Append(q, e)) = Len(q) + 1
         /\ ToSet(Append(q, e)) = ToSet(q) \cup {e}
         /\ Ordered(w, b, Append(q, e))
<1> DEFINE d == <<e>>
<1>1. d \in Seq(Events) /\ Append(q, e) = q \o d /\ Len(d) = 1 /\ d[1] = e
  BY AppendIsConcat
<1>2. Increasing(d) /\ ToSet(d) = {e}
  BY <1>1 DEF Increasing, ToSet
<1>3. Below(w, d) /\ Below(b, d) /\ Below(q, d)
  OBVIOUS
<1> HIDE DEF d
<1>4. Append(q, e) \in Seq(Events) /\ Len(Append(q, e)) = Len(q) + 1
  BY AppendProperties
<1>5. ToSet(q \o d) = ToSet(q) \cup {e}
  BY <1>1, <1>2, ConcatElements
<1>6. Increasing(q \o d)
  BY <1>1, <1>2, <1>3, ConcatIncreasing DEF Ordered
<1>7. Below(w, q \o d) /\ Below(b, q \o d)
  BY <1>1, <1>3, BelowConcat DEF Ordered
<1> QED BY <1>1, <1>4, <1>5, <1>6, <1>7 DEF Ordered

(* A flush writes the first n events of the batch and drops the others. *)
LEMMA WriteFirst ==
  ASSUME NEW w \in Seq(Events), NEW b \in Seq(Events), NEW q \in Seq(Events),
         NEW n \in 0 .. Len(b)
  PROVE  /\ w \o SubSeq(b, 1, n) \in Seq(Events)
         /\ ToSet(w) \cup ToSet(b)
              = ToSet(w \o SubSeq(b, 1, n)) \cup {b[i] : i \in n + 1 .. Len(b)}
         /\ Ordered(w, b, q) => Ordered(w \o SubSeq(b, 1, n), <<>>, q)
<1> DEFINE p == SubSeq(b, 1, n)
<1>1. /\ Len(b) \in Nat
      /\ n \in Nat
      /\ p \in Seq(Events)
      /\ Len(p) = n
      /\ \A i \in 1 .. n : i \in 1 .. Len(b) /\ p[i] = b[i]
  BY LenProperties, SubSeqProperties
<1>2. ToSet(b) = ToSet(p) \cup {b[i] : i \in n + 1 .. Len(b)}
  BY SplitElements
<1> HIDE DEF p
<1>3. w \o p \in Seq(Events) /\ ToSet(w \o p) = ToSet(w) \cup ToSet(p)
  BY <1>1, ConcatProperties, ConcatElements
<1>4. ASSUME Ordered(w, b, q)
      PROVE  Ordered(w \o p, <<>>, q)
  <2>1. Increasing(p)
    <3> SUFFICES ASSUME NEW i \in 1 .. n, NEW j \in 1 .. n, i < j
                 PROVE  p[i] < p[j]
      BY <1>1 DEF Increasing
    <3>1. b[i] < b[j]
      BY <1>1, <1>4 DEF Ordered, Increasing
    <3> QED BY <1>1, <3>1
  <2>2. Below(w, p) /\ Below(p, q)
    BY <1>1, <1>4 DEF Ordered, Below
  <2>3. Increasing(w \o p)
    BY <1>1, <1>4, <2>1, <2>2, ConcatIncreasing DEF Ordered
  <2>4. Below(w \o p, q)
    BY <1>1, <1>4, <2>2, BelowConcat DEF Ordered
  <2>5. Increasing(<<>>) /\ Below(w \o p, <<>>) /\ Below(<<>>, q)
    BY DEF Increasing, Below
  <2> QED BY <1>4, <2>3, <2>4, <2>5 DEF Ordered
<1> QED BY <1>2, <1>3, <1>4 DEF p

-----------------------------------------------------------------------------
(* How large the batch may be where the writer is. *)
BatchSpace ==
  /\ pc \in {"receive", "tail"} => Len(batch) < MaxBatchSize
  /\ pc \in {"check", "exited"} => batch = <<>>

(* Nothing that was recorded so far is above the next number. *)
NoneAbove(s) == \A i \in 1 .. Len(s) : s[i] <= recorded

InOrder == /\ Ordered(written, batch, queue)
           /\ NoneAbove(written) /\ NoneAbove(batch) /\ NoneAbove(queue)

Accounted ==
  accepted = ToSet(written) \cup ToSet(batch) \cup ToSet(queue) \cup lost \cup discarded

(* An event can be thrown away only if it was queued between the failed    *)
(* receive and the test, and the sender went after it: nothing can be      *)
(* queued then, and the next failed receive finds the channel empty for    *)
(* good.                                                                   *)
AtMostOneDiscarded ==
  /\ \A d, e \in discarded : d = e
  /\ discarded # {} => store # "open"
  /\ discarded # {} /\ pc \in {"flushIdle", "check"} => queue = <<>>

ExitedDone ==
  /\ pc = "exited" => store # "open" /\ queue = <<>>
  /\ store = "joined" => pc = "exited"

(* The inductive invariant. *)
WriterInv == /\ WriterTypeOK /\ BatchSpace /\ InOrder /\ Accounted
             /\ AtMostOneDiscarded /\ ExitedDone

LEMMA WriterInitInv == Init => WriterInv
<1> SUFFICES ASSUME Init
             PROVE  WriterInv
  OBVIOUS
<1>1. /\ queue = <<>> /\ batch = <<>> /\ written = <<>>
      /\ recorded = 0 /\ accepted = {} /\ lost = {} /\ discarded = {}
      /\ store = "open" /\ pc = "receive"
  BY DEF Init
<1>2. WriterTypeOK
  <2>1. due \in BOOLEAN
    BY Zenon DEF Init
  <2>2. <<>> \in Seq(Events) /\ Len(<<>>) = 0 /\ 0 \in 0 .. MaxEvents
    BY WriterAssumption
  <2> QED BY <1>1, <2>1, <2>2, WriterAssumption DEF WriterTypeOK
<1>3. InOrder
  BY <1>1 DEF InOrder, Ordered, Increasing, Below, NoneAbove
<1>4. Accounted
  BY <1>1 DEF Accounted, ToSet
<1>5. BatchSpace /\ AtMostOneDiscarded /\ ExitedDone
  BY <1>1, WriterAssumption DEF BatchSpace, AtMostOneDiscarded, ExitedDone
<1> QED BY <1>2, <1>3, <1>4, <1>5 DEF WriterInv

LEMMA RecordStep == WriterInv /\ Record => WriterInv'
<1> SUFFICES ASSUME WriterInv, Record
             PROVE  WriterInv'
  OBVIOUS
<1> USE WriterAssumption DEF WriterInv
<1> DEFINE e == recorded + 1
<1>1. /\ recorded \in Nat
      /\ e \in Events
      /\ recorded' = e
      /\ recorded' \in 0 .. MaxEvents
      /\ UNCHANGED <<store, batch, pc, due, written, lost, discarded>>
  BY DEF Record, writerVars, WriterTypeOK, Events
<1>2. due' \in BOOLEAN
  BY Zenon, <1>1 DEF WriterTypeOK
<1>3. NoneAbove(written)' /\ NoneAbove(batch)'
  <2>1. NoneAbove(written) /\ NoneAbove(batch)
    BY DEF InOrder
  <2>2. \A i \in 1 .. Len(written) : written[i] \in Nat
    BY DEF WriterTypeOK, Events
  <2>3. \A i \in 1 .. Len(batch) : batch[i] \in Nat
    BY DEF WriterTypeOK, Events
  <2> QED BY <1>1, <2>1, <2>2, <2>3 DEF NoneAbove
<1>4. /\ written \in Seq(Events) /\ batch \in Seq(Events) /\ queue \in Seq(Events)
      /\ Len(queue) \in Nat
      /\ \A i \in 1 .. Len(queue) : queue[i] \in Nat
      /\ accepted \subseteq Events
  BY LenProperties DEF WriterTypeOK, Events
<1>5. NoneAbove(written) /\ NoneAbove(batch) /\ NoneAbove(queue)
      /\ Ordered(written, batch, queue)
  BY DEF InOrder
<1>6. BatchSpace'
  BY <1>1 DEF BatchSpace
<1>7. CASE ~HasRoom
  <2>1. queue' = queue /\ accepted' = accepted
    BY <1>7 DEF Record
  <2>2. WriterTypeOK'
    BY <1>1, <1>2, <2>1 DEF WriterTypeOK
  <2>3. NoneAbove(queue)'
    BY <1>1, <1>4, <1>5, <2>1 DEF NoneAbove
  <2>4. InOrder'
    BY <1>1, <1>3, <1>5, <2>1, <2>3 DEF InOrder
  <2>5. Accounted' /\ AtMostOneDiscarded' /\ ExitedDone'
    BY <1>1, <2>1 DEF Accounted, AtMostOneDiscarded, ExitedDone
  <2> QED BY <1>6, <2>2, <2>4, <2>5
<1>8. CASE HasRoom
  <2>1. /\ queue' = Append(queue, e)
        /\ accepted' = accepted \cup {e}
        /\ store = "open"
        /\ Len(queue) < Capacity
    BY <1>1, <1>8 DEF Record, HasRoom
  <2>2. Below(written, <<e>>) /\ Below(batch, <<e>>) /\ Below(queue, <<e>>)
    <3>1. \A i \in 1 .. Len(written) : written[i] < e
      BY <1>1, <1>5 DEF NoneAbove, WriterTypeOK, Events
    <3>2. \A i \in 1 .. Len(batch) : batch[i] < e
      BY <1>1, <1>5 DEF NoneAbove, WriterTypeOK, Events
    <3>3. \A i \in 1 .. Len(queue) : queue[i] < e
      BY <1>1, <1>4, <1>5 DEF NoneAbove
    <3>4. Len(<<e>>) = 1 /\ <<e>>[1] = e
      OBVIOUS
    <3> QED BY <3>1, <3>2, <3>3, <3>4 DEF Below
  <2> HIDE DEF e
  <2>3. /\ queue' \in Seq(Events)
        /\ Len(queue') = Len(queue) + 1
        /\ ToSet(queue') = ToSet(queue) \cup {e}
        /\ Ordered(written, batch, queue')
    BY <1>1, <1>4, <1>5, <2>1, <2>2, AddLast
  <2>4. WriterTypeOK'
    <3>1. Len(queue') <= Capacity
      BY <1>4, <2>1, <2>3
    <3> QED BY <1>1, <1>2, <1>4, <2>1, <2>3, <3>1 DEF WriterTypeOK
  <2>5. NoneAbove(queue)'
    <3> SUFFICES ASSUME NEW i \in 1 .. Len(queue) + 1
                 PROVE  queue'[i] <= e
      BY <1>1, <2>3 DEF NoneAbove
    <3>1. i \in 1 .. Len(queue) => queue'[i] = queue[i]
      BY <1>4, <2>1
    <3>2. i = Len(queue) + 1 => queue'[i] = e
      BY <1>4, <2>1
    <3>3. i \in 1 .. Len(queue) => queue[i] <= e
      BY <1>1, <1>4, <1>5 DEF NoneAbove, e
    <3>4. e <= e
      BY <1>1 DEF Events
    <3>5. i \in 1 .. Len(queue) \/ i = Len(queue) + 1
      BY <1>4
    <3> QED BY <3>1, <3>2, <3>3, <3>4, <3>5
  <2>6. InOrder'
    BY <1>1, <1>3, <2>3, <2>5 DEF InOrder
  <2>7. Accounted'
    BY <1>1, <2>1, <2>3 DEF Accounted
  <2>8. AtMostOneDiscarded' /\ ExitedDone'
    BY <1>1, <2>1 DEF AtMostOneDiscarded, ExitedDone
  <2> QED BY <1>6, <2>4, <2>6, <2>7, <2>8
<1> QED BY <1>7, <1>8

(* Both ways of taking an event out of the channel into the batch. *)
LEMMA TakeStep ==
  ASSUME WriterInv,
         queue # <<>>,
         Len(batch) < MaxBatchSize,
         batch' = Append(batch, Head(queue)),
         queue' = Tail(queue),
         pc \in {"receive", "fill"}, pc' = "fill",
         UNCHANGED <<store, due, written, recorded, accepted, lost, discarded>>
  PROVE  WriterInv'
<1> USE WriterAssumption DEF WriterInv
<1>1. /\ written \in Seq(Events) /\ batch \in Seq(Events) /\ queue \in Seq(Events)
      /\ Ordered(written, batch, queue)
  BY DEF WriterTypeOK, InOrder
<1>2. /\ Head(queue) \in Events
      /\ queue' \in Seq(Events)
      /\ batch' \in Seq(Events)
      /\ Len(batch) \in Nat
      /\ Len(queue) \in Nat \ {0}
      /\ Len(queue') = Len(queue) - 1
      /\ Len(batch') = Len(batch) + 1
      /\ ToSet(queue) = {Head(queue)} \cup ToSet(queue')
      /\ ToSet(batch') = ToSet(batch) \cup {Head(queue)}
      /\ Ordered(written, batch', queue')
  BY <1>1, TakeHead
<1>3. due' \in BOOLEAN
  BY Zenon DEF WriterTypeOK
<1>4. WriterTypeOK'
  BY <1>2, <1>3 DEF WriterTypeOK
<1>5. BatchSpace'
  BY DEF BatchSpace
<1>6. InOrder'
  <2>1. NoneAbove(written)'
    BY DEF InOrder, NoneAbove
  <2>2. NoneAbove(queue)'
    <3> SUFFICES ASSUME NEW i \in 1 .. Len(queue')
                 PROVE  queue'[i] <= recorded
      BY DEF NoneAbove
    <3>1. i + 1 \in 1 .. Len(queue) /\ queue'[i] = queue[i + 1]
      BY <1>1, <1>2
    <3> QED BY <3>1 DEF InOrder, NoneAbove
  <2>3. NoneAbove(batch)'
    <3> SUFFICES ASSUME NEW i \in 1 .. Len(batch) + 1
                 PROVE  batch'[i] <= recorded
      BY <1>2 DEF NoneAbove
    <3>1. Head(queue) <= recorded
      <4>1. 1 \in 1 .. Len(queue) /\ Head(queue) = queue[1]
        BY <1>1, <1>2
      <4> QED BY <4>1 DEF InOrder, NoneAbove
    <3>2. i \in 1 .. Len(batch) => batch'[i] = batch[i]
      BY <1>1, <1>2
    <3>3. i = Len(batch) + 1 => batch'[i] = Head(queue)
      BY <1>1, <1>2
    <3> QED BY <1>2, <3>1, <3>2, <3>3 DEF InOrder, NoneAbove
  <2> QED BY <1>2, <2>1, <2>2, <2>3 DEF InOrder
<1>7. Accounted'
  BY <1>2 DEF Accounted
<1>8. AtMostOneDiscarded' /\ ExitedDone'
  BY DEF AtMostOneDiscarded, ExitedDone
<1> QED BY <1>4, <1>5, <1>6, <1>7, <1>8

(* The steps that move no event: the thread passes a test, or time passes. *)
LEMMA MoveOnStep ==
  ASSUME WriterInv, FillDone \/ GiveUp \/ LoopEnd \/ Elapse
  PROVE  WriterInv'
<1> USE WriterAssumption DEF WriterInv
<1>1. UNCHANGED <<queue, store, batch, written, recorded, accepted, lost, discarded>>
  BY DEF FillDone, GiveUp, LoopEnd, Elapse
<1>2. due' \in BOOLEAN
  BY Zenon DEF FillDone, GiveUp, LoopEnd, Elapse, WriterTypeOK
<1>3. Len(batch) \in Nat /\ batch \in Seq(Events)
  BY LenProperties DEF WriterTypeOK
<1>4. /\ pc' \in {"receive", "fill", "tail", "flush", "flushIdle", "check", "exited"}
      /\ pc' = "exited" <=> pc = "exited"
      /\ pc' \in {"receive", "tail"} => Len(batch) < MaxBatchSize
      /\ pc' \in {"check", "exited"} => batch = <<>>
      /\ pc' \in {"flushIdle", "check"} => pc = pc' \/ queue = <<>>
  <2>1. CASE FillDone
    BY <1>3, <2>1 DEF FillDone
  <2>2. CASE GiveUp
    BY <1>3, <2>2 DEF GiveUp
  <2>3. CASE LoopEnd
    BY <1>3, <2>3 DEF LoopEnd, BatchSpace
  <2>4. CASE Elapse
    BY <1>3, <2>4 DEF Elapse, BatchSpace, WriterTypeOK
  <2> QED BY <2>1, <2>2, <2>3, <2>4
<1>5. WriterTypeOK'
  BY <1>1, <1>2, <1>4 DEF WriterTypeOK
<1>6. BatchSpace'
  BY <1>1, <1>4 DEF BatchSpace
<1>7. InOrder' /\ Accounted'
  BY <1>1 DEF InOrder, NoneAbove, Accounted
<1>8. AtMostOneDiscarded' /\ ExitedDone'
  BY <1>1, <1>4 DEF AtMostOneDiscarded, ExitedDone
<1> QED BY <1>5, <1>6, <1>7, <1>8

LEMMA CheckStep == WriterInv /\ Check => WriterInv'
<1> SUFFICES ASSUME WriterInv, Check
             PROVE  WriterInv'
  OBVIOUS
<1> USE WriterAssumption DEF WriterInv
<1>1. /\ pc = "check" /\ batch = <<>>
      /\ UNCHANGED <<store, batch, due, written, recorded, accepted, lost>>
  BY DEF Check, BatchSpace
<1>2. due' \in BOOLEAN
  BY Zenon, <1>1 DEF WriterTypeOK
<1>3. Len(batch) = 0
  BY <1>1
<1>4. CASE IsClosed /\ queue # <<>>
  <2>1. /\ store # "open" /\ pc' = "tail"
        /\ queue' = Tail(queue)
        /\ discarded' = discarded \cup {Head(queue)}
    BY <1>4 DEF Check, IsClosed
  <2>2. /\ written \in Seq(Events) /\ batch \in Seq(Events) /\ queue \in Seq(Events)
        /\ Ordered(written, batch, queue)
    BY DEF WriterTypeOK, InOrder
  <2>3. /\ Head(queue) \in Events
        /\ queue' \in Seq(Events)
        /\ Len(queue) \in Nat \ {0}
        /\ Len(queue') = Len(queue) - 1
        /\ ToSet(queue) = {Head(queue)} \cup ToSet(queue')
        /\ Ordered(written, Append(batch, Head(queue)), queue')
    BY <1>4, <2>1, <2>2, TakeHead
  <2>4. WriterTypeOK'
    BY <1>1, <1>2, <2>1, <2>3 DEF WriterTypeOK
  <2>5. BatchSpace'
    BY <1>1, <1>3, <2>1 DEF BatchSpace
  <2>6. Ordered(written, batch, queue')
    BY <1>3, <2>2, <2>3 DEF Ordered, Increasing, Below
  <2>7. NoneAbove(queue)'
    <3> SUFFICES ASSUME NEW i \in 1 .. Len(queue')
                 PROVE  queue'[i] <= recorded
      BY <1>1 DEF NoneAbove
    <3>1. i + 1 \in 1 .. Len(queue) /\ queue'[i] = queue[i + 1]
      BY <2>1, <2>2, <2>3
    <3> QED BY <3>1 DEF InOrder, NoneAbove
  <2>8. InOrder'
    BY <1>1, <2>6, <2>7 DEF InOrder, NoneAbove
  <2>9. Accounted'
    BY <1>1, <2>1, <2>3 DEF Accounted
  <2>10. AtMostOneDiscarded'
    <3>1. discarded = {}
      BY <1>1, <1>4 DEF AtMostOneDiscarded
    <3> QED BY <1>1, <2>1, <3>1 DEF AtMostOneDiscarded
  <2>11. ExitedDone'
    BY <1>1, <2>1 DEF ExitedDone
  <2> QED BY <2>4, <2>5, <2>8, <2>9, <2>10, <2>11
<1>5. CASE ~(IsClosed /\ queue # <<>>)
  <2>1. /\ queue' = queue /\ discarded' = discarded
        /\ pc' = "tail" \/ (pc' = "exited" /\ store # "open" /\ queue = <<>>)
    BY <1>5 DEF Check, IsClosed
  <2>2. WriterTypeOK'
    BY <1>1, <1>2, <2>1 DEF WriterTypeOK
  <2>3. BatchSpace'
    BY <1>1, <1>3, <2>1 DEF BatchSpace
  <2>4. InOrder' /\ Accounted'
    BY <1>1, <2>1 DEF InOrder, NoneAbove, Accounted
  <2>5. AtMostOneDiscarded' /\ ExitedDone'
    BY <1>1, <2>1 DEF AtMostOneDiscarded, ExitedDone
  <2> QED BY <2>2, <2>3, <2>4, <2>5
<1> QED BY <1>4, <1>5

LEMMA FlushStep == WriterInv /\ Flush => WriterInv'
<1> SUFFICES ASSUME WriterInv, Flush
             PROVE  WriterInv'
  OBVIOUS
<1> USE WriterAssumption DEF WriterInv
<1>1. /\ written \in Seq(Events) /\ batch \in Seq(Events) /\ queue \in Seq(Events)
      /\ Len(batch) \in Nat
      /\ Ordered(written, batch, queue)
  BY LenProperties DEF WriterTypeOK, InOrder
<1>2. PICK n \in 0 .. Len(batch) :
        /\ written' = written \o SubSeq(batch, 1, n)
        /\ lost' = lost \cup {batch[i] : i \in n + 1 .. Len(batch)}
  <2>1. (IF DbFails THEN 0 .. Len(batch) ELSE {Len(batch)}) \subseteq 0 .. Len(batch)
    BY <1>1
  <2> QED BY <2>1, Zenon DEF Flush
<1>3. /\ batch' = <<>>
      /\ pc \in {"flush", "flushIdle"}
      /\ pc' = IF pc = "flushIdle" THEN "check" ELSE "tail"
      /\ UNCHANGED <<queue, store, recorded, accepted, discarded>>
  BY DEF Flush
<1>4. /\ written' \in Seq(Events)
      /\ ToSet(written) \cup ToSet(batch)
           = ToSet(written') \cup {batch[i] : i \in n + 1 .. Len(batch)}
      /\ Ordered(written', <<>>, queue)
  BY <1>1, <1>2, WriteFirst
<1>5. due' \in BOOLEAN
  BY Zenon DEF Flush
<1>6. ToSet(<<>>) = {} /\ Len(<<>>) = 0 /\ <<>> \in Seq(Events)
  BY DEF ToSet
<1>7. WriterTypeOK'
  <2>1. lost' \subseteq Events
    <3>1. \A i \in n + 1 .. Len(batch) : batch[i] \in Events
      BY <1>1, <1>2
    <3> QED BY <1>2, <3>1 DEF WriterTypeOK
  <2> QED BY <1>3, <1>4, <1>5, <1>6, <2>1 DEF WriterTypeOK
<1>8. BatchSpace'
  BY <1>3, <1>6 DEF BatchSpace
<1>9. InOrder'
  <2>1. NoneAbove(queue)' /\ NoneAbove(batch)'
    BY <1>3, <1>6 DEF InOrder, NoneAbove
  <2>2. NoneAbove(written)'
    <3> DEFINE p == SubSeq(batch, 1, n)
    <3>1. /\ p \in Seq(Events) /\ Len(p) = n
          /\ \A i \in 1 .. n : i \in 1 .. Len(batch) /\ p[i] = batch[i]
      BY <1>1, SubSeqProperties
    <3>2. written' = written \o p
      BY <1>2
    <3> HIDE DEF p
    <3>3. /\ Len(written') = Len(written) + n
          /\ \A i \in 1 .. Len(written) + n :
               written'[i] = IF i <= Len(written) THEN written[i] ELSE p[i - Len(written)]
          /\ Len(written) \in Nat
      BY ZenonT(30), <1>1, <3>1, <3>2, ConcatProperties, LenProperties
    <3> SUFFICES ASSUME NEW i \in 1 .. Len(written) + n
                 PROVE  written'[i] <= recorded
      BY <1>3, <3>3 DEF NoneAbove
    <3>4. CASE i <= Len(written)
      BY <3>3, <3>4 DEF InOrder, NoneAbove
    <3>5. CASE Len(written) < i
      <4>1. i - Len(written) \in 1 .. n /\ written'[i] = p[i - Len(written)]
        BY <3>3, <3>5
      <4>2. p[i - Len(written)] <= recorded
        BY <3>1, <4>1 DEF InOrder, NoneAbove
      <4> QED BY <4>1, <4>2
    <3> QED BY <3>3, <3>4, <3>5
  <2> QED BY <1>3, <1>4, <2>1, <2>2 DEF InOrder
<1>10. Accounted'
  BY <1>2, <1>3, <1>4, <1>6 DEF Accounted
<1>11. AtMostOneDiscarded' /\ ExitedDone'
  BY <1>3 DEF AtMostOneDiscarded, ExitedDone
<1> QED BY <1>7, <1>8, <1>9, <1>10, <1>11

LEMMA StoreStep == WriterInv /\ (CloseSender \/ JoinWriter) => WriterInv'
<1> SUFFICES ASSUME WriterInv, CloseSender \/ JoinWriter
             PROVE  WriterInv'
  OBVIOUS
<1> USE WriterAssumption DEF WriterInv
<1>1. UNCHANGED <<queue, writerVars, recorded, accepted>>
  BY DEF CloseSender, JoinWriter
<1>2. due' \in BOOLEAN
  BY Zenon, <1>1 DEF writerVars, WriterTypeOK
<1>3. /\ store' \in {"closing", "joined"}
      /\ store = "joined" => store' = "joined"
      /\ store' = "joined" => pc = "exited"
  BY DEF CloseSender, JoinWriter
<1>4. WriterTypeOK'
  BY <1>1, <1>2, <1>3 DEF writerVars, WriterTypeOK
<1>5. BatchSpace' /\ InOrder' /\ Accounted'
  BY <1>1 DEF writerVars, BatchSpace, InOrder, NoneAbove, Accounted
<1>6. AtMostOneDiscarded' /\ ExitedDone'
  BY <1>1, <1>3 DEF writerVars, AtMostOneDiscarded, ExitedDone
<1> QED BY <1>4, <1>5, <1>6

LEMMA WriterNextInv == WriterInv /\ [Next]_vars => WriterInv'
<1> SUFFICES ASSUME WriterInv, [Next]_vars
             PROVE  WriterInv'
  OBVIOUS
<1>1. CASE Record
  BY <1>1, RecordStep
<1>2. CASE Receive
  <2>1. Len(batch) < MaxBatchSize
    BY <1>2 DEF Receive, WriterInv, BatchSpace
  <2> QED BY <1>2, <2>1, TakeStep DEF Receive
<1>3. CASE Fill
  BY <1>3, TakeStep DEF Fill
<1>4. CASE FillDone \/ GiveUp \/ LoopEnd \/ Elapse
  BY <1>4, MoveOnStep
<1>5. CASE Check
  BY <1>5, CheckStep
<1>6. CASE Flush
  BY <1>6, FlushStep
<1>7. CASE CloseSender \/ JoinWriter
  BY <1>7, StoreStep
<1>8. CASE UNCHANGED vars
  <2>1. UNCHANGED <<queue, store, batch, pc, due, written, recorded, accepted,
                    lost, discarded>>
    BY <1>8 DEF vars, writerVars
  <2>2. due' \in BOOLEAN
    BY Zenon, <2>1 DEF WriterInv, WriterTypeOK
  <2> QED BY <2>1, <2>2 DEF WriterInv, WriterTypeOK, BatchSpace, InOrder, NoneAbove,
             Accounted, AtMostOneDiscarded, ExitedDone
<1> QED BY <1>1, <1>2, <1>3, <1>4, <1>5, <1>6, <1>7, <1>8 DEF Next, Writer

LEMMA WriterInvariant == SafetySpec => []WriterInv
BY WriterInitInv, WriterNextInv, PTL DEF SafetySpec

-----------------------------------------------------------------------------
(* Type correctness: the channel and the batch keep their limits. *)
THEOREM WriterTypeCorrect == SafetySpec => []WriterTypeOK
<1>1. WriterInv => WriterTypeOK
  BY DEF WriterInv
<1> QED BY <1>1, WriterInvariant, PTL

(* Events reach the database in the order they were recorded, none twice. *)
THEOREM WriterKeepsOrder == SafetySpec => []WrittenInOrder
<1>1. WriterInv => WrittenInOrder
  <2> SUFFICES ASSUME WriterInv
               PROVE  WrittenInOrder
    OBVIOUS
  <2>1. Increasing(Pending)
    BY OrderedPending DEF WriterInv, WriterTypeOK, InOrder, Pending
  <2>2. Pending \in Seq(Events) /\ Len(Pending) \in Nat
    BY ConcatProperties, LenProperties DEF WriterInv, WriterTypeOK, Pending
  <2> QED BY <2>1, <2>2 DEF Increasing, WrittenInOrder
<1> QED BY <1>1, WriterInvariant, PTL

(* Every accepted event is written, on its way, lost with a failed         *)
(* transaction, or the one event the test for the loop's end throws away.  *)
THEOREM WriterAccounts == SafetySpec => []EveryEventAccountedFor
<1>1. WriterInv => EveryEventAccountedFor
  <2> SUFFICES ASSUME WriterInv
               PROVE  EveryEventAccountedFor
    OBVIOUS
  <2>1. batch \o queue \in Seq(Events)
    BY ConcatProperties DEF WriterInv, WriterTypeOK
  <2>2. ToSet(Pending) = ToSet(written) \cup ToSet(batch \o queue)
    BY <2>1, ConcatElements DEF WriterInv, WriterTypeOK, Pending
  <2>3. ToSet(batch \o queue) = ToSet(batch) \cup ToSet(queue)
    BY ConcatElements DEF WriterInv, WriterTypeOK
  <2>4. accepted = ToSet(Pending) \cup lost \cup discarded
    BY <2>2, <2>3 DEF WriterInv, Accounted
  <2> QED BY <2>4 DEF EveryEventAccountedFor, IsClosed, WriterInv, AtMostOneDiscarded
<1> QED BY <1>1, WriterInvariant, PTL

(* When Store::shutdown returns nothing accepted is left in the channel or *)
(* in the batch.                                                           *)
THEOREM WriterShutdownFlushes == SafetySpec => []ShutdownFlushes
<1>1. WriterInv => ShutdownFlushes
  <2> SUFFICES ASSUME WriterInv, store = "joined"
               PROVE  accepted = ToSet(written) \cup lost \cup discarded
    BY DEF ShutdownFlushes
  <2>1. batch = <<>> /\ queue = <<>>
    BY DEF WriterInv, ExitedDone, BatchSpace
  <2>2. ToSet(<<>>) = {}
    BY DEF ToSet
  <2> QED BY <2>1, <2>2 DEF WriterInv, Accounted
<1> QED BY <1>1, WriterInvariant, PTL
=============================================================================
