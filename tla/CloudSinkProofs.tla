-------------------------- MODULE CloudSinkProofs --------------------------
(***************************************************************************)
(* Proofs about the cloud sink, for any channel, batch size and number of  *)
(* attempts, however many posts fail and however late they arrive: no      *)
(* accepted event goes missing, the cloud sees repeats of whole batches    *)
(* only, and what is reported as synced is in the cloud.                   *)
(***************************************************************************)
EXTENDS CloudSink, FiniteSetTheorems, FunctionTheorems, SequenceTheorems, TLAPS

Increasing(s) == \A i, j \in 1 .. Len(s) : i < j => s[i] < s[j]
Below(S, T) == \A x \in S : \A y \in T : x < y
Settled == acked \cup givenUp

(* Events move through the places in the order they were accepted in. *)
InOrder ==
  /\ Increasing(channel) /\ Increasing(buffer) /\ Increasing(batch)
  /\ Below(Settled, ToSet(batch))
  /\ Below(Settled, ToSet(buffer))
  /\ Below(Settled, ToSet(channel))
  /\ Below(ToSet(batch), ToSet(buffer))
  /\ Below(ToSet(batch), ToSet(channel))
  /\ Below(ToSet(buffer), ToSet(channel))
  /\ accepted \subseteq 1 .. offered

Held == accepted = ToSet(channel) \cup ToSet(buffer) \cup ToSet(batch) \cup Settled

-----------------------------------------------------------------------------
(* Sequences of events and their elements. *)
LEMMA Elements ==
  ASSUME NEW s \in Seq(Events)
  PROVE  /\ Len(s) \in Nat
         /\ DOMAIN s = 1 .. Len(s)
         /\ ToSet(s) = {s[i] : i \in 1 .. Len(s)}
         /\ ToSet(s) \subseteq Events
         /\ s = <<>> <=> ToSet(s) = {}
<1>1. /\ Len(s) \in Nat
      /\ DOMAIN s = 1 .. Len(s)
      /\ \A i \in 1 .. Len(s) : s[i] \in Events
  BY LenProperties, ElementOfSeq
<1>2. ToSet(s) = {s[i] : i \in 1 .. Len(s)}
  BY <1>1 DEF ToSet
<1>3. s # <<>> => Len(s) >= 1
  BY <1>1, EmptySeq
<1>4. s # <<>> => s[1] \in ToSet(s)
  BY <1>1, <1>2, <1>3
<1>5. s = <<>> => ToSet(s) = {}
  BY <1>2, EmptySeq
<1> QED BY <1>1, <1>2, <1>4, <1>5

(* The empty sequence. *)
LEMMA EmptyOrdered ==
  /\ <<>> \in Seq(Events) /\ Len(<<>>) = 0
  /\ ToSet(<<>>) = {} /\ Increasing(<<>>)
<1>1. <<>> \in Seq(Events) /\ Len(<<>>) = 0
  BY EmptySeq
<1>2. ToSet(<<>>) = {}
  BY <1>1, Elements
<1> QED BY <1>1, <1>2 DEF Increasing

(* A greater event at the end. *)
LEMMA AppendOrdered ==
  ASSUME NEW s \in Seq(Events), NEW e \in Events,
         Increasing(s), Below(ToSet(s), {e})
  PROVE  /\ Append(s, e) \in Seq(Events)
         /\ Len(Append(s, e)) = Len(s) + 1
         /\ ToSet(Append(s, e)) = ToSet(s) \cup {e}
         /\ Increasing(Append(s, e))
<1> DEFINE t == Append(s, e)
<1>1. /\ t \in Seq(Events)
      /\ Len(t) = Len(s) + 1
      /\ \A i \in 1 .. Len(s) : t[i] = s[i]
      /\ t[Len(s) + 1] = e
  BY AppendProperties
<1> HIDE DEF t
<1>2. /\ Len(s) \in Nat
      /\ ToSet(s) = {s[i] : i \in 1 .. Len(s)}
      /\ ToSet(t) = {t[i] : i \in 1 .. Len(s) + 1}
  BY <1>1, Elements
<1>3. ToSet(t) = ToSet(s) \cup {e}
  BY <1>1, <1>2
<1>4. Increasing(t)
  <2> SUFFICES ASSUME NEW i \in 1 .. Len(s) + 1, NEW j \in 1 .. Len(s) + 1, i < j
               PROVE  t[i] < t[j]
    BY <1>1 DEF Increasing
  <2>1. i \in 1 .. Len(s)
    BY <1>2
  <2>2. CASE j = Len(s) + 1
    BY <1>1, <1>2, <2>1, <2>2 DEF Below
  <2>3. CASE j \in 1 .. Len(s)
    BY <1>1, <2>1, <2>3 DEF Increasing
  <2> QED BY <1>2, <2>2, <2>3
<1> QED BY <1>1, <1>3, <1>4 DEF t

(* The head of an increasing sequence, and the rest. *)
LEMMA TailOrdered ==
  ASSUME NEW s \in Seq(Events), s # <<>>, Increasing(s)
  PROVE  /\ Head(s) \in Events
         /\ Tail(s) \in Seq(Events)
         /\ Len(Tail(s)) = Len(s) - 1
         /\ ToSet(s) = {Head(s)} \cup ToSet(Tail(s))
         /\ Increasing(Tail(s))
         /\ Below({Head(s)}, ToSet(Tail(s)))
<1> DEFINE t == Tail(s)
<1>1. /\ Head(s) = s[1] /\ Head(s) \in Events
      /\ t \in Seq(Events)
      /\ Len(t) = Len(s) - 1
      /\ \A i \in 1 .. Len(t) : t[i] = s[i + 1]
  BY HeadTailProperties
<1> HIDE DEF t
<1>2. /\ Len(s) \in Nat /\ Len(s) >= 1
      /\ ToSet(s) = {s[i] : i \in 1 .. Len(s)}
      /\ ToSet(t) = {t[i] : i \in 1 .. Len(t)}
  BY <1>1, Elements, EmptySeq
<1>3. ToSet(s) = {Head(s)} \cup ToSet(t)
  <2>1. \A i \in 1 .. Len(s) : i = 1 \/ (i - 1 \in 1 .. Len(t) /\ s[i] = t[i - 1])
    BY <1>1, <1>2
  <2>2. \A i \in 1 .. Len(t) : i + 1 \in 1 .. Len(s)
    BY <1>1, <1>2
  <2>3. ToSet(s) \subseteq {Head(s)} \cup ToSet(t)
    BY <1>1, <1>2, <2>1
  <2>4. {Head(s)} \cup ToSet(t) \subseteq ToSet(s)
    BY <1>1, <1>2, <2>2
  <2> QED BY <2>3, <2>4
<1>4. Increasing(t)
  BY <1>1, <1>2 DEF Increasing
<1>5. Below({Head(s)}, ToSet(t))
  BY <1>1, <1>2 DEF Increasing, Below
<1> QED BY <1>1, <1>3, <1>4, <1>5 DEF t

(* The first and the last element are the least and the greatest. *)
LEMMA Ends ==
  ASSUME NEW s \in Seq(Events), s # <<>>, Increasing(s)
  PROVE  /\ Head(s) \in ToSet(s) /\ Last(s) \in ToSet(s)
         /\ \A x \in ToSet(s) : Head(s) <= x /\ x <= Last(s)
<1>1. /\ Len(s) \in Nat /\ Len(s) >= 1
      /\ ToSet(s) = {s[i] : i \in 1 .. Len(s)}
      /\ ToSet(s) \subseteq Events
      /\ Head(s) = s[1]
      /\ Last(s) = s[Len(s)]
  BY Elements, EmptySeq, HeadTailProperties DEF Last
<1>2. Head(s) \in ToSet(s) /\ Last(s) \in ToSet(s)
  BY <1>1
<1>3. \A i \in 1 .. Len(s) : s[1] <= s[i] /\ s[i] <= s[Len(s)]
  <2>1. \A i \in 1 .. Len(s) : s[i] \in Nat
    <3>1. s \in [1 .. Len(s) -> Events]
      BY LenProperties
    <3> QED BY <3>1 DEF Events
  <2>2. \A i \in 1 .. Len(s) : (i = 1 \/ 1 < i) /\ (i = Len(s) \/ i < Len(s))
    BY <1>1
  <2> QED BY <1>1, <2>1, <2>2 DEF Increasing
<1> QED BY <1>1, <1>2, <1>3

(* It has as many elements as it is long. *)
LEMMA IncreasingLength ==
  ASSUME NEW s \in Seq(Events), Increasing(s)
  PROVE  IsFiniteSet(ToSet(s)) /\ Cardinality(ToSet(s)) = Len(s)
<1>1. /\ Len(s) \in Nat
      /\ ToSet(s) = {s[i] : i \in 1 .. Len(s)}
      /\ s \in [1 .. Len(s) -> Events]
  BY Elements, LenProperties
<1>2. s \in Bijection(1 .. Len(s), ToSet(s))
  <2>1. \A i \in 1 .. Len(s) : s[i] \in Nat
    BY <1>1 DEF Events
  <2>2. ASSUME NEW i \in 1 .. Len(s), NEW j \in 1 .. Len(s), s[i] = s[j] PROVE i = j
    <3>1. ~(i < j) /\ ~(j < i)
      BY <2>1, <2>2 DEF Increasing
    <3> QED BY <1>1, <3>1
  <2>3. s \in [1 .. Len(s) -> ToSet(s)]
    BY <1>1
  <2>4. \A x \in ToSet(s) : \E i \in 1 .. Len(s) : s[i] = x
    BY <1>1
  <2> QED BY <2>2, <2>3, <2>4, Fun_IsBij
<1>3. IsFiniteSet(1 .. Len(s)) /\ Cardinality(1 .. Len(s)) = Len(s)
  <2> DEFINE n == Len(s)
  <2>1. 1 \in Int /\ n \in Int /\ n >= 0
    BY <1>1
  <2> HIDE DEF n
  <2>2. IsFiniteSet(1 .. n) /\ Cardinality(1 .. n) = IF 1 > n THEN 0 ELSE n - 1 + 1
    BY <2>1, FS_Interval
  <2> QED BY <2>1, <2>2 DEF n
<1> QED BY <1>2, <1>3, FS_Bijection DEF ExistsBijection

-----------------------------------------------------------------------------
(* One more copy of an element in a bag. *)
LEMMA AddCopy ==
  ASSUME NEW B, IsABag(B), NEW e
  PROVE  /\ IsABag(B (+) SetToBag({e}))
         /\ DOMAIN (B (+) SetToBag({e})) = DOMAIN B \cup {e}
         /\ (B (+) SetToBag({e}))[e] = (IF e \in DOMAIN B THEN B[e] ELSE 0) + 1
         /\ \A x \in DOMAIN B \ {e} : (B (+) SetToBag({e}))[x] = B[x]
<1> DEFINE C == B (+) SetToBag({e})
<1>1. C = [x \in DOMAIN B \cup {e} |->
             (IF x \in DOMAIN B THEN B[x] ELSE 0) + (IF x \in {e} THEN 1 ELSE 0)]
  BY DEF (+), SetToBag
<1>2. \A x \in DOMAIN B : B[x] \in Nat /\ B[x] > 0
  BY DEF IsABag
<1> HIDE DEF C
<1>3. /\ DOMAIN C = DOMAIN B \cup {e}
      /\ C[e] = (IF e \in DOMAIN B THEN B[e] ELSE 0) + 1
      /\ \A x \in DOMAIN B \ {e} : C[x] = B[x]
  BY <1>1, <1>2
<1>4. \A x \in DOMAIN B \cup {e} : C[x] \in Nat /\ C[x] > 0
  BY <1>2, <1>3
<1>5. IsABag(C)
  BY <1>1, <1>3, <1>4 DEF IsABag
<1> QED BY <1>3, <1>5 DEF C

(* The union of two bags, copy by copy. *)
LEMMA UnionCopies ==
  ASSUME NEW A, IsABag(A), NEW B, IsABag(B)
  PROVE  /\ IsABag(A (+) B)
         /\ DOMAIN (A (+) B) = DOMAIN A \cup DOMAIN B
         /\ \A x \in DOMAIN A \cup DOMAIN B :
              (A (+) B)[x] = (IF x \in DOMAIN A THEN A[x] ELSE 0)
                             + (IF x \in DOMAIN B THEN B[x] ELSE 0)
<1>1. A (+) B = [x \in DOMAIN A \cup DOMAIN B |->
                   (IF x \in DOMAIN A THEN A[x] ELSE 0)
                   + (IF x \in DOMAIN B THEN B[x] ELSE 0)]
  BY DEF (+)
<1>2. /\ \A x \in DOMAIN A : A[x] \in Nat /\ A[x] > 0
      /\ \A x \in DOMAIN B : B[x] \in Nat /\ B[x] > 0
  BY DEF IsABag
<1> DEFINE C == A (+) B
<1> HIDE DEF C
<1>3. /\ DOMAIN C = DOMAIN A \cup DOMAIN B
      /\ \A x \in DOMAIN A \cup DOMAIN B :
              C[x] = (IF x \in DOMAIN A THEN A[x] ELSE 0)
                     + (IF x \in DOMAIN B THEN B[x] ELSE 0)
  BY <1>1 DEF C
<1>4. \A x \in DOMAIN A \cup DOMAIN B : C[x] \in Nat /\ C[x] > 0
  BY <1>2, <1>3
<1>5. C = [x \in DOMAIN C |-> C[x]]
  BY <1>1 DEF C
<1>6. IsABag(C)
  BY <1>3, <1>4, <1>5 DEF IsABag
<1> QED BY <1>3, <1>6 DEF C

(* A copy moved from one bag to another. *)
LEMMA MoveCopy ==
  ASSUME NEW L, IsABag(L), NEW S, IsABag(S), NEW e \in DOMAIN L
  PROVE  /\ IsABag(L (-) SetToBag({e}))
         /\ DOMAIN (L (-) SetToBag({e})) \subseteq DOMAIN L
         /\ (S (+) SetToBag({e})) (+) (L (-) SetToBag({e})) = S (+) L
<1> DEFINE M == L (-) SetToBag({e})
           D == [x \in DOMAIN L |-> IF x \in {e} THEN L[x] - 1 ELSE L[x]]
           R == S (+) SetToBag({e})
<1>1. M = [x \in {d \in DOMAIN D : D[d] > 0} |-> D[x]]
  BY DEF (-), SetToBag
<1>2. \A x \in DOMAIN L : L[x] \in Nat /\ L[x] > 0
  BY DEF IsABag
<1>3. \A x \in DOMAIN S : S[x] \in Nat /\ S[x] > 0
  BY DEF IsABag
<1> HIDE DEF M
<1>4. DOMAIN M \subseteq DOMAIN L
  BY <1>1
<1>5. /\ \A x \in DOMAIN M : M[x] = D[x] /\ D[x] \in Nat /\ D[x] > 0
      /\ \A x \in DOMAIN L \ DOMAIN M : x = e /\ L[x] = 1
  BY <1>1, <1>2
<1>6. IsABag(M)
  <2>1. M = [x \in DOMAIN M |-> M[x]]
    BY <1>1
  <2> QED BY <1>5, <2>1 DEF IsABag
<1>7. /\ IsABag(R)
      /\ DOMAIN R = DOMAIN S \cup {e}
      /\ R[e] = (IF e \in DOMAIN S THEN S[e] ELSE 0) + 1
      /\ \A x \in DOMAIN S \ {e} : R[x] = S[x]
  BY AddCopy
<1> HIDE DEF R
<1>8. R (+) M = S (+) L
  <2>1. R (+) M = [x \in DOMAIN R \cup DOMAIN M |->
                     (IF x \in DOMAIN R THEN R[x] ELSE 0)
                     + (IF x \in DOMAIN M THEN M[x] ELSE 0)]
    BY DEF (+)
  <2>2. S (+) L = [x \in DOMAIN S \cup DOMAIN L |->
                     (IF x \in DOMAIN S THEN S[x] ELSE 0)
                     + (IF x \in DOMAIN L THEN L[x] ELSE 0)]
    BY DEF (+)
  <2>3. DOMAIN R \cup DOMAIN M = DOMAIN S \cup DOMAIN L
    BY <1>4, <1>5, <1>7
  <2>4. ASSUME NEW x \in DOMAIN S \cup DOMAIN L
        PROVE  (IF x \in DOMAIN R THEN R[x] ELSE 0) + (IF x \in DOMAIN M THEN M[x] ELSE 0)
               = (IF x \in DOMAIN S THEN S[x] ELSE 0) + (IF x \in DOMAIN L THEN L[x] ELSE 0)
    <3>1. CASE x = e
      <4>1. (IF e \in DOMAIN M THEN M[e] ELSE 0) = L[e] - 1
        <5>1. CASE e \in DOMAIN M
          BY <1>4, <1>5, <5>1
        <5>2. CASE e \notin DOMAIN M
          BY <1>5, <5>2
        <5> QED BY <5>1, <5>2
      <4>2. L[e] \in Nat /\ (e \in DOMAIN S => S[e] \in Nat)
        BY <1>2, <1>3
      <4>3. e \in DOMAIN R /\ R[e] = (IF e \in DOMAIN S THEN S[e] ELSE 0) + 1
        BY <1>7
      <4> HIDE DEF D
      <4> QED BY <3>1, <4>1, <4>2, <4>3
    <3>2. CASE x # e
      BY <1>2, <1>3, <1>4, <1>5, <1>7, <3>2
    <3> QED BY <3>1, <3>2
  <2> QED BY <2>1, <2>2, <2>3, <2>4
<1> QED BY <1>4, <1>6, <1>8 DEF M, R

(* What is added to either of two bags is added to their union. *)
LEMMA AddToUnion ==
  ASSUME NEW A, IsABag(A), NEW B, IsABag(B), NEW one, IsABag(one)
  PROVE  /\ (A (+) one) (+) B = (A (+) B) (+) one
         /\ A (+) (B (+) one) = (A (+) B) (+) one
<1> DEFINE n(C, x) == IF x \in DOMAIN C THEN C[x] ELSE 0
<1>1. \A C, D : C (+) D = [x \in DOMAIN C \cup DOMAIN D |-> n(C, x) + n(D, x)]
  BY DEF (+)
<1>2. ASSUME NEW C, IsABag(C), NEW D, IsABag(D)
      PROVE  /\ DOMAIN (C (+) D) = DOMAIN C \cup DOMAIN D
             /\ \A x : n(C, x) \in Nat /\ n(C (+) D, x) = n(C, x) + n(D, x)
             /\ IsABag(C (+) D)
  <2>1. /\ IsABag(C (+) D)
        /\ DOMAIN (C (+) D) = DOMAIN C \cup DOMAIN D
        /\ \A x \in DOMAIN C \cup DOMAIN D : (C (+) D)[x] = n(C, x) + n(D, x)
    BY <1>2, UnionCopies
  <2>2. \A x : n(C, x) \in Nat
    BY <1>2 DEF IsABag
  <2> QED BY <2>1, <2>2
<1>3. /\ IsABag(A (+) one) /\ DOMAIN (A (+) one) = DOMAIN A \cup DOMAIN one
      /\ \A x : n(A (+) one, x) = n(A, x) + n(one, x)
  BY <1>2
<1>4. /\ IsABag(B (+) one) /\ DOMAIN (B (+) one) = DOMAIN B \cup DOMAIN one
      /\ \A x : n(B (+) one, x) = n(B, x) + n(one, x)
  BY <1>2
<1>5. /\ IsABag(A (+) B) /\ DOMAIN (A (+) B) = DOMAIN A \cup DOMAIN B
      /\ \A x : n(A (+) B, x) = n(A, x) + n(B, x)
  BY <1>2
<1>6. \A x : n(A, x) \in Nat /\ n(B, x) \in Nat /\ n(one, x) \in Nat
  BY <1>2
<1> HIDE DEF n
<1>7. (A (+) one) (+) B = (A (+) B) (+) one
  <2>1. DOMAIN (A (+) one) \cup DOMAIN B = DOMAIN (A (+) B) \cup DOMAIN one
    BY <1>3, <1>5
  <2>2. \A x : n(A (+) one, x) + n(B, x) = n(A (+) B, x) + n(one, x)
    BY <1>3, <1>5, <1>6
  <2> QED BY <1>1, <2>1, <2>2
<1>8. A (+) (B (+) one) = (A (+) B) (+) one
  <2>1. DOMAIN A \cup DOMAIN (B (+) one) = DOMAIN (A (+) B) \cup DOMAIN one
    BY <1>4, <1>5
  <2>2. \A x : n(A, x) + n(B (+) one, x) = n(A (+) B, x) + n(one, x)
    BY <1>4, <1>5, <1>6
  <2> QED BY <1>1, <2>1, <2>2
<1> QED BY <1>7, <1>8

(* One copy of one element is a bag. *)
LEMMA OneCopy == ASSUME NEW e PROVE IsABag(SetToBag({e}))
BY DEF IsABag, SetToBag

-----------------------------------------------------------------------------
(* The bags of the cloud, apart from the rest of the types. *)
BagsOK == /\ IsABag(stored) /\ IsABag(late)
          /\ BagToSet(stored) \cup BagToSet(late) \subseteq Seq(Events)

PlacesOK ==
  /\ channel \in Seq(Events) /\ Len(channel) <= Capacity
  /\ sink \in {"held", "dropped"}
  /\ buffer \in Seq(Events) /\ Len(buffer) < BatchSize
  /\ batch \in Seq(Events) /\ Len(batch) <= BatchSize
  /\ attempt \in 0 .. Attempts - 1
  /\ pc \in {"select", "post", "lastPost", "exited"}
  /\ pc \in {"post", "lastPost"} <=> batch # <<>>
  /\ offered \in 0 .. MaxEvents
  /\ accepted \subseteq Events /\ acked \subseteq Events /\ givenUp \subseteq Events
  /\ reported \in Nat

(* The inductive invariant of the events' way through the sink. *)
SinkInv == /\ PlacesOK
           /\ InOrder
           /\ Held
           /\ acked \cap givenUp = {}

(* Nothing is in the sink at first. *)
LEMMA SinkInvInit == Init => SinkInv
<1> SUFFICES ASSUME Init PROVE SinkInv
  OBVIOUS
<1>1. <<>> \in Seq(Events) /\ Len(<<>>) = 0
  BY EmptyOrdered
<1>2. ToSet(<<>>) = {}
  BY EmptyOrdered
<1>3. PlacesOK
  BY <1>1, CloudAssumption DEF Init, PlacesOK
<1>4. InOrder
  BY <1>1, <1>2 DEF Init, InOrder, Increasing, Below, Settled
<1> QED BY <1>2, <1>3, <1>4 DEF Init, SinkInv, Held, Settled

(* A new event is greater than all before it. *)
LEMMA OnEventPreserves == ASSUME SinkInv, OnEvent PROVE SinkInv'
<1> USE DEF SinkInv
<1>1. /\ offered < MaxEvents
      /\ offered' = offered + 1
      /\ UNCHANGED <<sink, buffer, batch, attempt, pc, acked, givenUp, reported>>
  BY DEF OnEvent, taskVars
<1>2. offered \in Nat /\ offered' \in 0 .. MaxEvents /\ offered' \in Events
  BY <1>1, CloudAssumption DEF PlacesOK, Events
<1>3. accepted \subseteq 1 .. offered /\ Settled' = Settled
  BY <1>1 DEF InOrder, Settled
<1>4. CASE UNCHANGED <<channel, accepted>>
  <2>1. PlacesOK'
    BY <1>1, <1>2, <1>4 DEF PlacesOK
  <2>2. accepted' \subseteq 1 .. offered'
    BY <1>1, <1>2, <1>3, <1>4
  <2>3. InOrder'
    BY <1>1, <1>3, <1>4, <2>2 DEF InOrder
  <2> QED BY <1>1, <1>3, <1>4, <2>1, <2>3 DEF Held
<1>5. CASE /\ Len(channel) < Capacity
           /\ channel' = Append(channel, offered')
           /\ accepted' = accepted \cup {offered'}
  <2>1. Below(accepted, {offered'})
    BY <1>1, <1>2, <1>3 DEF Below
  <2>2. /\ Below(ToSet(channel), {offered'})
        /\ Below(ToSet(buffer), {offered'})
        /\ Below(ToSet(batch), {offered'})
        /\ Below(Settled, {offered'})
    BY <2>1 DEF Below, Held
  <2>3. /\ channel' \in Seq(Events)
        /\ Len(channel') = Len(channel) + 1
        /\ ToSet(channel') = ToSet(channel) \cup {offered'}
        /\ Increasing(channel')
    BY <1>2, <1>5, <2>2, AppendOrdered DEF PlacesOK, InOrder
  <2>4. PlacesOK'
    <3>1. Len(channel') <= Capacity
      BY <1>5, <2>3, CloudAssumption, LenProperties DEF PlacesOK
    <3>2. accepted' \subseteq Events
      BY <1>2, <1>5 DEF PlacesOK
    <3> QED BY <1>1, <1>2, <2>3, <3>1, <3>2 DEF PlacesOK
  <2>5. InOrder'
    <3>1. accepted' \subseteq 1 .. offered'
      BY <1>1, <1>2, <1>3, <1>5
    <3>2. /\ Below(Settled', ToSet(channel'))
          /\ Below(ToSet(batch'), ToSet(channel'))
          /\ Below(ToSet(buffer'), ToSet(channel'))
      BY <1>1, <1>3, <2>2, <2>3 DEF InOrder, Below
    <3> QED BY <1>1, <1>3, <2>3, <3>1, <3>2 DEF InOrder
  <2>6. Held'
    BY <1>1, <1>3, <1>5, <2>3 DEF Held
  <2> QED BY <1>1, <2>4, <2>5, <2>6
<1> QED BY <1>4, <1>5 DEF OnEvent

(* The head of the channel goes to the end of the buffer. *)
LEMMA RecvPreserves == ASSUME SinkInv, Recv PROVE SinkInv'
<1> USE DEF SinkInv
<1> DEFINE h == Head(channel)
           filled == Append(buffer, h)
<1>1. /\ pc = "select" /\ channel # <<>>
      /\ channel' = Tail(channel)
      /\ UNCHANGED <<sink, offered, accepted, acked, givenUp, reported>>
      /\ \/ /\ Len(filled) >= BatchSize
            /\ batch' = filled /\ buffer' = <<>> /\ attempt' = 0 /\ pc' = "post"
         \/ /\ Len(filled) < BatchSize
            /\ buffer' = filled /\ UNCHANGED <<batch, attempt, pc>>
  <2>1. Len(filled) \in Nat /\ BatchSize \in Nat
    <3>1. h \in Events /\ buffer \in Seq(Events)
      BY HeadTailProperties DEF Recv, PlacesOK
    <3> QED BY <3>1, AppendProperties, LenProperties, CloudAssumption
  <2> HIDE DEF filled
  <2> QED BY <2>1 DEF Recv, TakeBuffer, filled
<1>2. /\ channel \in Seq(Events) /\ buffer \in Seq(Events) /\ batch = <<>>
      /\ Len(channel) \in Nat /\ Len(buffer) \in Nat
      /\ Len(channel) <= Capacity /\ Len(buffer) < BatchSize
      /\ Capacity \in Nat /\ BatchSize \in Nat \ {0} /\ Attempts \in Nat \ {0}
  BY <1>1, LenProperties, CloudAssumption DEF PlacesOK
<1>3. /\ <<>> \in Seq(Events) /\ Len(<<>>) = 0 /\ ToSet(<<>>) = {}
      /\ Increasing(<<>>)
  BY EmptyOrdered
<1>4. /\ h \in Events
      /\ channel' \in Seq(Events)
      /\ Len(channel') = Len(channel) - 1
      /\ ToSet(channel) = {h} \cup ToSet(channel')
      /\ Increasing(channel')
      /\ Below({h}, ToSet(channel'))
  BY <1>1, <1>2, TailOrdered DEF InOrder
<1>5. Below(ToSet(buffer), {h}) /\ Below(Settled, {h})
  BY <1>4 DEF InOrder, Below
<1>6. /\ filled \in Seq(Events)
      /\ Len(filled) = Len(buffer) + 1
      /\ ToSet(filled) = ToSet(buffer) \cup {h}
      /\ Increasing(filled)
  BY <1>2, <1>4, <1>5, AppendOrdered DEF InOrder
<1>7. filled # <<>> /\ Len(filled) <= BatchSize
  BY <1>2, <1>3, <1>6
<1> HIDE DEF filled, h
<1>8. PlacesOK'
  <2>1. /\ channel' \in Seq(Events) /\ Len(channel') <= Capacity
        /\ UNCHANGED <<sink, offered, accepted, acked, givenUp, reported>>
    BY <1>1, <1>2, <1>4
  <2>2. CASE batch' = filled /\ buffer' = <<>> /\ attempt' = 0 /\ pc' = "post"
    BY <1>2, <1>3, <1>6, <1>7, <2>1, <2>2 DEF PlacesOK
  <2>3. CASE Len(filled) < BatchSize /\ buffer' = filled /\ UNCHANGED <<batch, attempt, pc>>
    BY <1>6, <2>1, <2>3 DEF PlacesOK
  <2> QED BY <1>1, <2>2, <2>3
<1>9. /\ Below(Settled', ToSet(filled))
      /\ Below(Settled', ToSet(channel'))
      /\ Below(ToSet(filled), ToSet(channel'))
  BY <1>1, <1>4, <1>5, <1>6 DEF InOrder, Below, Settled
<1>10. Held'
  <2>1. ToSet(buffer') \cup ToSet(batch') = ToSet(filled)
    BY <1>1, <1>2, <1>3
  <2> QED BY <1>1, <1>2, <1>3, <1>4, <1>6, <2>1 DEF Held, Settled
<1>11. InOrder'
  <2>1. \A S : Below(S, {}) /\ Below({}, S)
    BY DEF Below
  <2>2. CASE batch' = filled /\ buffer' = <<>>
    BY <1>1, <1>3, <1>4, <1>6, <1>9, <2>1, <2>2 DEF InOrder
  <2>3. CASE batch' = <<>> /\ buffer' = filled
    BY <1>1, <1>3, <1>4, <1>6, <1>9, <2>1, <2>3 DEF InOrder
  <2> QED BY <1>1, <1>2, <2>2, <2>3
<1> QED BY <1>1, <1>8, <1>10, <1>11

(* The buffer becomes the batch. *)
LEMMA FlushPreserves ==
  ASSUME SinkInv, pc = "select", buffer # <<>>,
         NEW where \in {"post", "lastPost"}, TakeBuffer(buffer, where),
         UNCHANGED <<channel, sink, offered, accepted, acked, givenUp, reported>>
  PROVE  SinkInv'
<1> USE DEF SinkInv
<1>1. batch' = buffer /\ buffer' = <<>> /\ attempt' = 0 /\ pc' = where
  BY DEF TakeBuffer
<1>2. batch = <<>> /\ Len(buffer) \in Nat /\ BatchSize \in Nat \ {0} /\ Attempts \in Nat \ {0}
  BY LenProperties, CloudAssumption DEF PlacesOK
<1>3. <<>> \in Seq(Events) /\ Len(<<>>) = 0
  BY EmptyOrdered
<1>4. ToSet(<<>>) = {} /\ Increasing(<<>>)
  BY EmptyOrdered
<1>5. PlacesOK'
  BY <1>1, <1>2, <1>3 DEF PlacesOK
<1>6. InOrder'
  <2>1. \A S : Below(S, {}) /\ Below({}, S)
    BY DEF Below
  <2> QED BY <1>1, <1>4, <2>1 DEF InOrder, Settled
<1>7. Held'
  BY <1>1, <1>2, <1>4 DEF Held, Settled
<1> QED BY <1>5, <1>6, <1>7

(* The events of the batch are settled, one way or the other. *)
LEMMA SettlePreserves ==
  ASSUME SinkInv, pc \in {"post", "lastPost"}, BackFromFlush,
         UNCHANGED <<channel, sink, buffer, offered, accepted>>,
         \/ acked' = acked \cup ToSet(batch) /\ UNCHANGED givenUp
         \/ givenUp' = givenUp \cup ToSet(batch) /\ UNCHANGED acked,
         reported' \in Nat
  PROVE  SinkInv'
<1> USE DEF SinkInv
<1>1. batch' = <<>> /\ attempt' = 0 /\ pc' \in {"select", "exited"}
  BY DEF BackFromFlush
<1>2. <<>> \in Seq(Events) /\ Len(<<>>) = 0 /\ BatchSize \in Nat \ {0} /\ Attempts \in Nat \ {0}
  BY EmptyOrdered, CloudAssumption
<1>3. ToSet(<<>>) = {} /\ Increasing(<<>>)
  BY EmptyOrdered
<1>4. ToSet(batch) \subseteq Events /\ Settled' = Settled \cup ToSet(batch)
  BY Elements DEF PlacesOK, Settled
<1>5. ToSet(batch) \cap Settled = {}
  BY <1>4 DEF InOrder, Below, Events
<1>6. PlacesOK'
  BY <1>1, <1>2, <1>4 DEF PlacesOK
<1>7. InOrder'
  <2>1. \A S : Below(S, {}) /\ Below({}, S)
    BY DEF Below
  <2>2. Below(Settled', ToSet(buffer)) /\ Below(Settled', ToSet(channel))
    BY <1>4 DEF InOrder, Below
  <2> QED BY <1>1, <1>3, <2>1, <2>2 DEF InOrder
<1>8. Held'
  BY <1>1, <1>3, <1>4 DEF Held
<1>9. acked' \cap givenUp' = {}
  BY <1>5 DEF Settled
<1> QED BY <1>6, <1>7, <1>8, <1>9

(* Every step of the sink keeps the invariant. *)
LEMMA SinkInvStep == ASSUME SinkInv, [Next]_vars PROVE SinkInv'
<1>1. CASE OnEvent
  BY <1>1, OnEventPreserves
<1>2. CASE Recv
  BY <1>2, RecvPreserves
<1>3. CASE Tick
  BY <1>3, FlushPreserves DEF Tick
<1>4. CASE Closed
  <2>1. CASE buffer # <<>>
    BY <1>4, <2>1, FlushPreserves DEF Closed
  <2>2. CASE buffer = <<>>
    <3>1. /\ pc = "select" /\ pc' = "exited"
          /\ UNCHANGED <<channel, sink, buffer, batch, attempt, offered, accepted,
                         acked, givenUp, reported>>
      BY <1>4, <2>2 DEF Closed
    <3> QED BY <3>1 DEF SinkInv, PlacesOK, InOrder, Held, Settled
  <2> QED BY <2>1, <2>2
<1>5. CASE PostSucceeds
  <2>1. reported' \in Nat
    BY <1>5, LenProperties DEF PostSucceeds, SinkInv, PlacesOK
  <2> QED BY <1>5, <2>1, SettlePreserves DEF PostSucceeds
<1>6. CASE PostFails
  <2>1. CASE attempt + 1 < Attempts
    <3>1. attempt' \in 0 .. Attempts - 1
      BY <1>6, <2>1, CloudAssumption DEF PostFails, SinkInv, PlacesOK
    <3>2. UNCHANGED <<channel, sink, buffer, batch, pc, offered, accepted, acked, givenUp, reported>>
      BY <1>6, <2>1 DEF PostFails
    <3> QED BY <3>1, <3>2 DEF SinkInv, PlacesOK, InOrder, Held, Settled
  <2>2. CASE ~(attempt + 1 < Attempts)
    BY <1>6, <2>2, SettlePreserves DEF PostFails, SinkInv, PlacesOK
  <2> QED BY <2>1, <2>2
<1>7. CASE DropSink \/ LateArrival \/ UNCHANGED vars
  <2>1. /\ UNCHANGED <<channel, buffer, batch, attempt, pc, offered, accepted,
                       acked, givenUp, reported>>
        /\ sink' \in {sink, "dropped"}
    BY <1>7 DEF DropSink, LateArrival, vars, taskVars
  <2> QED BY <2>1 DEF SinkInv, PlacesOK, InOrder, Held, Settled
<1> QED BY <1>1, <1>2, <1>3, <1>4, <1>5, <1>6, <1>7 DEF Next

(* Every accepted event is in one place: queued, buffered, being posted,   *)
(* acknowledged or given up, whatever the cloud does.                      *)
THEOREM CloudAccounts == Spec => []AccountedFor
<1>1. SinkInv => AccountedFor
  <2> SUFFICES ASSUME SinkInv PROVE AccountedFor
    OBVIOUS
  <2> DEFINE places == <<ToSet(channel), ToSet(buffer), ToSet(batch), acked, givenUp>>
  <2>1. ToSet(places) = {ToSet(channel), ToSet(buffer), ToSet(batch), acked, givenUp}
    BY DEF ToSet
  <2>2. accepted = UNION ToSet(places)
    <3> HIDE DEF places
    <3> QED BY <2>1 DEF SinkInv, Held, Settled
  <2>3. /\ ToSet(channel) \subseteq Int /\ ToSet(buffer) \subseteq Int
        /\ ToSet(batch) \subseteq Int /\ Settled \subseteq Int
    BY Elements DEF SinkInv, PlacesOK, Events, Settled
  <2>4. \A S, T : S \subseteq Int /\ T \subseteq Int /\ Below(S, T) => S \cap T = {}
    BY DEF Below
  <2>5. /\ Settled \cap ToSet(batch) = {} /\ Settled \cap ToSet(buffer) = {}
        /\ Settled \cap ToSet(channel) = {} /\ ToSet(batch) \cap ToSet(buffer) = {}
        /\ ToSet(batch) \cap ToSet(channel) = {} /\ ToSet(buffer) \cap ToSet(channel) = {}
    BY <2>3, <2>4 DEF SinkInv, InOrder
  <2>6. ASSUME NEW i \in 1 .. 5, NEW j \in 1 .. 5, i # j PROVE places[i] \cap places[j] = {}
    BY <2>5, <2>6 DEF SinkInv, Settled
  <2> QED BY <2>2, <2>6 DEF AccountedFor
<1>2. Init => SinkInv
  BY SinkInvInit
<1>3. SinkInv /\ [Next]_vars => SinkInv'
  BY SinkInvStep
<1> QED BY <1>1, <1>2, <1>3, PTL DEF Spec, SafetySpec

-----------------------------------------------------------------------------
(* Posts the cloud has taken in or may yet take in. *)
Posts == stored (+) late

(* A post is of the current batch, at most once for each attempt so far,   *)
(* or of a batch that is settled; and it is a run of accepted events.      *)
PostsInv ==
  /\ \A b \in DOMAIN Posts :
       /\ b # <<>>
       /\ ToSet(b) = accepted \cap (Head(b) .. Last(b))
       /\ \/ b = batch /\ Posts[b] <= attempt
          \/ ToSet(b) \subseteq Settled /\ Posts[b] <= Attempts
  /\ \A b, c \in DOMAIN Posts : b # c => ToSet(b) \cap ToSet(c) = {}

(* The posts as a bag of sequences of events. *)
LEMMA PostsBag ==
  ASSUME BagsOK
  PROVE  /\ IsABag(Posts)
         /\ DOMAIN Posts = DOMAIN stored \cup DOMAIN late
         /\ DOMAIN Posts \subseteq Seq(Events)
         /\ \A b \in DOMAIN Posts : Posts[b] \in Nat
<1>1. /\ IsABag(Posts)
      /\ DOMAIN Posts = DOMAIN stored \cup DOMAIN late
  BY UnionCopies DEF BagsOK, Posts
<1>2. DOMAIN Posts \subseteq Seq(Events)
  BY <1>1 DEF BagsOK, BagToSet
<1> HIDE DEF Posts
<1> QED BY <1>1, <1>2 DEF IsABag

(* A step that posts nothing and settles nothing. *)
LEMMA PostsKept ==
  ASSUME SinkInv, BagsOK, PostsInv, Posts' = Posts, Settled' = Settled,
         accepted' \subseteq accepted \cup {offered + 1}, accepted \subseteq accepted',
         batch = <<>> \/ (batch' = batch /\ attempt' = attempt)
  PROVE  PostsInv'
<1>1. ASSUME NEW b \in DOMAIN Posts'
      PROVE  /\ b # <<>>
             /\ ToSet(b) = accepted' \cap (Head(b) .. Last(b))
             /\ \/ b = batch' /\ Posts'[b] <= attempt'
                \/ ToSet(b) \subseteq Settled' /\ Posts'[b] <= Attempts
  <2>1. /\ b # <<>>
        /\ ToSet(b) = accepted \cap (Head(b) .. Last(b))
        /\ \/ b = batch /\ Posts[b] <= attempt
           \/ ToSet(b) \subseteq Settled /\ Posts[b] <= Attempts
    BY <1>1 DEF PostsInv
  <2>2. Last(b) \in ToSet(b)
    <3>1. b \in Seq(Events)
      BY <1>1, PostsBag
    <3>2. Len(b) \in Nat \ {0}
      BY <2>1, <3>1, EmptySeq
    <3>3. ToSet(b) = {b[i] : i \in 1 .. Len(b)}
      BY <3>1, Elements
    <3>4. b[Len(b)] \in ToSet(b)
      BY <3>2, <3>3
    <3> QED BY <3>4 DEF Last
  <2>3. accepted \subseteq 1 .. offered /\ offered \in Nat
    BY DEF SinkInv, InOrder, PlacesOK
  <2>4. Last(b) \in 1 .. offered
    BY <2>1, <2>2, <2>3
  <2>5. offered + 1 \notin Head(b) .. Last(b)
    BY <2>3, <2>4
  <2>6. ToSet(b) = accepted' \cap (Head(b) .. Last(b))
    BY <2>1, <2>5
  <2> QED BY <2>1, <2>6
<1>2. \A b, c \in DOMAIN Posts' : b # c => ToSet(b) \cap ToSet(c) = {}
  BY DEF PostsInv
<1> QED BY <1>1, <1>2 DEF PostsInv

(* A post of the batch: it may be repeated, or its events are settled. *)
LEMMA PostsMade ==
  ASSUME SinkInv, BagsOK, PostsInv, pc \in {"post", "lastPost"},
         Posts' = Posts \/ Posts' = Posts (+) SetToBag({batch}),
         accepted' = accepted,
         \/ batch' = batch /\ attempt' = attempt + 1 /\ Settled' = Settled
         \/ Settled' = Settled \cup ToSet(batch)
  PROVE  PostsInv'
<1>1. /\ batch \in Seq(Events) /\ batch # <<>> /\ Increasing(batch)
      /\ attempt \in Nat /\ attempt + 1 <= Attempts /\ Attempts \in Nat
  BY CloudAssumption DEF SinkInv, PlacesOK, InOrder
<1>2. /\ ToSet(batch) # {} /\ ToSet(batch) \subseteq Events
      /\ ToSet(batch) \cap Settled = {}
  <2>1. ToSet(batch) # {} /\ ToSet(batch) \subseteq Events
    BY <1>1, Elements
  <2> QED BY <2>1 DEF SinkInv, InOrder, Below, Events
<1>3. /\ IsABag(Posts)
      /\ \A b \in DOMAIN Posts : Posts[b] \in Nat
  BY PostsBag
<1>4. /\ DOMAIN Posts' \subseteq DOMAIN Posts \cup {batch}
      /\ \A b \in DOMAIN Posts' \ {batch} : Posts'[b] = Posts[b]
      /\ batch \in DOMAIN Posts' =>
           /\ Posts'[batch] \in Nat
           /\ Posts'[batch] <= (IF batch \in DOMAIN Posts THEN Posts[batch] ELSE 0) + 1
  <2>1. CASE Posts' = Posts
    BY <1>3, <2>1
  <2>2. CASE Posts' = Posts (+) SetToBag({batch})
    <3> DEFINE P == Posts (+) SetToBag({batch})
    <3>1. /\ DOMAIN P = DOMAIN Posts \cup {batch}
          /\ P[batch] = (IF batch \in DOMAIN Posts THEN Posts[batch] ELSE 0) + 1
          /\ \A b \in DOMAIN Posts \ {batch} : P[b] = Posts[b]
      BY <1>3, AddCopy
    <3>2. Posts' = P
      BY <2>2
    <3> HIDE DEF P
    <3> QED BY <1>3, <3>1, <3>2
  <2> QED BY <2>1, <2>2
<1>5. (IF batch \in DOMAIN Posts THEN Posts[batch] ELSE 0) <= attempt
  BY <1>1, <1>2 DEF PostsInv
<1>6. batch \in DOMAIN Posts' => Posts'[batch] <= attempt + 1
  <2>1. (IF batch \in DOMAIN Posts THEN Posts[batch] ELSE 0) \in Nat
    BY <1>3
  <2> QED BY <1>1, <1>4, <1>5, <2>1
<1>7. \A b \in DOMAIN Posts : b # batch => ToSet(b) \subseteq Settled /\ Posts[b] <= Attempts
  BY DEF PostsInv
<1>8. ToSet(batch) = accepted \cap (Head(batch) .. Last(batch))
  <2>1. /\ Head(batch) \in ToSet(batch) /\ Last(batch) \in ToSet(batch)
        /\ \A x \in ToSet(batch) : Head(batch) <= x /\ x <= Last(batch)
    BY <1>1, Ends
  <2>2. accepted = ToSet(channel) \cup ToSet(buffer) \cup ToSet(batch) \cup Settled
    BY DEF SinkInv, Held
  <2>3. accepted \subseteq Nat
    BY DEF SinkInv, PlacesOK, Events
  <2>4. ASSUME NEW x \in accepted, Head(batch) <= x, x <= Last(batch) PROVE x \in ToSet(batch)
    <3>1. x \notin Settled
      BY <2>1, <2>2, <2>3, <2>4 DEF SinkInv, InOrder, Below
    <3>2. x \notin ToSet(buffer)
      BY <2>1, <2>2, <2>3, <2>4 DEF SinkInv, InOrder, Below
    <3>3. x \notin ToSet(channel)
      BY <2>1, <2>2, <2>3, <2>4 DEF SinkInv, InOrder, Below
    <3> QED BY <2>2, <3>1, <3>2, <3>3
  <2>5. ToSet(batch) \subseteq Int /\ accepted \subseteq Int
    BY <2>2, <2>3
  <2> QED BY <2>1, <2>2, <2>4, <2>5
<1>9. ASSUME NEW b \in DOMAIN Posts'
      PROVE  /\ b # <<>>
             /\ ToSet(b) = accepted' \cap (Head(b) .. Last(b))
             /\ \/ b = batch' /\ Posts'[b] <= attempt'
                \/ ToSet(b) \subseteq Settled' /\ Posts'[b] <= Attempts
  <2>1. CASE b = batch
    <3>1. Posts'[b] <= attempt + 1
      BY <1>6, <1>9, <2>1
    <3>2. CASE batch' = batch /\ attempt' = attempt + 1
      BY <1>1, <1>8, <2>1, <3>1, <3>2
    <3>3. CASE Settled' = Settled \cup ToSet(batch)
      <4>1. Posts'[b] <= Attempts
        BY <1>1, <1>4, <1>9, <2>1, <3>1
      <4> QED BY <1>1, <1>8, <2>1, <3>3, <4>1
    <3> QED BY <3>2, <3>3
  <2>2. CASE b # batch
    <3>1. b \in DOMAIN Posts /\ Posts'[b] = Posts[b]
      BY <1>4, <1>9, <2>2
    <3> QED BY <1>7, <2>2, <3>1 DEF PostsInv
  <2> QED BY <2>1, <2>2
<1>10. ASSUME NEW b \in DOMAIN Posts', NEW c \in DOMAIN Posts', b # c
       PROVE  ToSet(b) \cap ToSet(c) = {}
  <2>1. CASE b # batch /\ c # batch
    BY <1>4, <1>10, <2>1 DEF PostsInv
  <2>2. CASE b = batch \/ c = batch
    BY <1>2, <1>4, <1>7, <1>10, <2>2
  <2> QED BY <2>1, <2>2
<1> QED BY <1>9, <1>10 DEF PostsInv

(* What is reported is acknowledged, once, and in the cloud. *)
ReportsInv == /\ IsFiniteSet(acked)
              /\ ReportsAreTrue

CloudInv == SinkInv /\ BagsOK /\ PostsInv /\ ReportsInv

(* Nothing is in the cloud at first. *)
LEMMA CloudInvInit == Init => CloudInv
<1> SUFFICES ASSUME Init PROVE CloudInv
  OBVIOUS
<1>1. IsABag(EmptyBag) /\ DOMAIN EmptyBag = {}
  BY DEF EmptyBag, SetToBag, IsABag
<1>2. BagsOK
  BY <1>1 DEF Init, BagsOK, BagToSet
<1>3. DOMAIN Posts = {}
  BY <1>1, <1>2, PostsBag DEF Init
<1>4. PostsInv
  BY <1>3 DEF PostsInv
<1>5. ReportsInv
  BY <1>1, FS_EmptySet DEF Init, ReportsInv, ReportsAreTrue
<1> QED BY <1>2, <1>4, <1>5, SinkInvInit DEF CloudInv

(* Steps that do not touch the cloud. *)
LEMMA CloudUntouched ==
  ASSUME CloudInv, SinkInv', UNCHANGED <<stored, late, acked, givenUp, reported>>,
         accepted' \subseteq accepted \cup {offered + 1}, accepted \subseteq accepted',
         batch = <<>> \/ (batch' = batch /\ attempt' = attempt)
  PROVE  CloudInv'
<1>1. Posts' = Posts /\ Settled' = Settled
  BY DEF Posts, Settled
<1>2. PostsInv'
  BY <1>1, PostsKept DEF CloudInv
<1>3. BagsOK' /\ ReportsInv'
  BY DEF CloudInv, BagsOK, ReportsInv, ReportsAreTrue
<1> QED BY <1>2, <1>3 DEF CloudInv

(* A post that succeeds: its events are reported, each once. *)
LEMMA PostSucceedsKeeps == ASSUME CloudInv, PostSucceeds, SinkInv' PROVE CloudInv'
<1> USE DEF CloudInv
<1>1. /\ pc \in {"post", "lastPost"}
      /\ stored' = stored (+) SetToBag({batch})
      /\ acked' = acked \cup ToSet(batch)
      /\ reported' = reported + Len(batch)
      /\ UNCHANGED <<accepted, late, givenUp>>
  BY DEF PostSucceeds
<1>2. batch \in Seq(Events) /\ Increasing(batch)
  BY DEF SinkInv, PlacesOK, InOrder
<1>3. IsABag(stored) /\ IsABag(late)
  BY DEF BagsOK
<1>4. IsABag(stored') /\ DOMAIN stored' = DOMAIN stored \cup {batch}
  BY <1>1, <1>3, AddCopy
<1>5. BagsOK'
  BY <1>1, <1>2, <1>3, <1>4 DEF BagsOK, BagToSet
<1>6. Posts' = Posts (+) SetToBag({batch})
  <2>1. (stored (+) SetToBag({batch})) (+) late = (stored (+) late) (+) SetToBag({batch})
    <3> DEFINE one == SetToBag({batch})
    <3>1. IsABag(one)
      BY OneCopy
    <3> HIDE DEF one
    <3>2. (stored (+) one) (+) late = (stored (+) late) (+) one
      BY <1>3, <3>1, AddToUnion
    <3> QED BY <3>2 DEF one
  <2>2. Posts' = (stored (+) SetToBag({batch})) (+) late
    BY <1>1 DEF Posts
  <2> QED BY <2>1, <2>2 DEF Posts
<1>7. Settled' = Settled \cup ToSet(batch)
  BY <1>1 DEF Settled
<1>8. PostsInv'
  BY <1>1, <1>6, <1>7, PostsMade
<1>9. ReportsInv'
  <2>1. ToSet(batch) \cap acked = {}
    <3>1. ToSet(batch) \subseteq Events
      BY <1>2, Elements
    <3> QED BY <3>1 DEF SinkInv, InOrder, Below, Settled, Events
  <2>2. IsFiniteSet(ToSet(batch)) /\ Cardinality(ToSet(batch)) = Len(batch)
    BY <1>2, IncreasingLength
  <2>3. /\ IsFiniteSet(acked)
        /\ Cardinality(acked) = reported
        /\ reported \in Nat
    BY DEF ReportsInv, ReportsAreTrue, SinkInv, PlacesOK
  <2>4. IsFiniteSet(acked') /\ Cardinality(acked') = reported + Len(batch)
    <3>1. /\ IsFiniteSet(acked \cup ToSet(batch))
          /\ Cardinality(acked \cup ToSet(batch)) =
               Cardinality(acked) + Cardinality(ToSet(batch)) - Cardinality(acked \cap ToSet(batch))
      BY <2>2, <2>3, FS_Union
    <3>2. acked \cap ToSet(batch) = {} /\ Len(batch) \in Nat
      BY <1>2, <2>1, LenProperties
    <3>3. Cardinality(acked \cap ToSet(batch)) = 0
      BY <3>2, FS_EmptySet
    <3>4. Cardinality(acked \cup ToSet(batch)) = reported + Len(batch)
      BY <2>2, <2>3, <3>1, <3>2, <3>3
    <3> QED BY <1>1, <3>1, <3>4
  <2>5. acked' \subseteq UNION {ToSet(b) : b \in BagToSet(stored')}
    BY <1>1, <1>4 DEF ReportsInv, ReportsAreTrue, BagToSet
  <2> QED BY <1>1, <2>4, <2>5 DEF ReportsInv, ReportsAreTrue
<1> QED BY <1>5, <1>8, <1>9

(* A post that fails, and may have been taken in, or may yet be. *)
LEMMA PostFailsKeeps == ASSUME CloudInv, PostFails, SinkInv' PROVE CloudInv'
<1> USE DEF CloudInv
<1>1. /\ pc \in {"post", "lastPost"}
      /\ late' \in {late, late (+) SetToBag({batch})}
      /\ UNCHANGED <<accepted, stored, acked, reported>>
  BY DEF PostFails
<1>2. IsABag(stored) /\ IsABag(late) /\ batch \in Seq(Events)
  BY DEF BagsOK, SinkInv, PlacesOK
<1>3. BagsOK'
  <2>1. CASE late' = late
    BY <1>1, <2>1 DEF BagsOK
  <2>2. CASE late' = late (+) SetToBag({batch})
    <3>1. IsABag(late') /\ DOMAIN late' = DOMAIN late \cup {batch}
      BY <1>2, <2>2, AddCopy
    <3> QED BY <1>1, <1>2, <3>1 DEF BagsOK, BagToSet
  <2> QED BY <1>1, <2>1, <2>2
<1>4. Posts' = Posts \/ Posts' = Posts (+) SetToBag({batch})
  <2>1. stored (+) (late (+) SetToBag({batch})) = (stored (+) late) (+) SetToBag({batch})
    <3> DEFINE one == SetToBag({batch})
    <3>1. IsABag(one)
      BY OneCopy
    <3> HIDE DEF one
    <3>2. stored (+) (late (+) one) = (stored (+) late) (+) one
      BY <1>2, <3>1, AddToUnion
    <3> QED BY <3>2 DEF one
  <2>2. Posts' = stored (+) late'
    BY <1>1 DEF Posts
  <2>3. CASE late' = late
    BY <2>2, <2>3 DEF Posts
  <2>4. CASE late' = late (+) SetToBag({batch})
    BY <2>1, <2>2, <2>4 DEF Posts
  <2> QED BY <1>1, <2>3, <2>4
<1>5. \/ batch' = batch /\ attempt' = attempt + 1 /\ Settled' = Settled
      \/ Settled' = Settled \cup ToSet(batch)
  BY DEF PostFails, Settled
<1>6. PostsInv'
  BY <1>1, <1>4, <1>5, PostsMade
<1>7. ReportsInv'
  BY <1>1 DEF ReportsInv, ReportsAreTrue
<1> QED BY <1>3, <1>6, <1>7

(* A late post arrives: it was counted already. *)
LEMMA LateArrivalKeeps == ASSUME CloudInv, LateArrival, SinkInv' PROVE CloudInv'
<1> USE DEF CloudInv
<1>1. PICK b \in BagToSet(late) : /\ stored' = stored (+) SetToBag({b})
                                  /\ late' = late (-) SetToBag({b})
  BY DEF LateArrival
<1>2. UNCHANGED <<batch, attempt, accepted, acked, givenUp, reported>>
  BY DEF LateArrival
<1>3. IsABag(stored) /\ IsABag(late) /\ b \in DOMAIN late /\ b \in Seq(Events)
  BY DEF BagsOK, BagToSet
<1>4. IsABag(stored') /\ DOMAIN stored' = DOMAIN stored \cup {b}
  BY <1>1, <1>3, AddCopy
<1>5. IsABag(late') /\ DOMAIN late' \subseteq DOMAIN late
  BY <1>1, <1>3, MoveCopy
<1>6. Posts' = Posts
  BY <1>1, <1>3, MoveCopy DEF Posts
<1>7. BagsOK'
  BY <1>3, <1>4, <1>5 DEF BagsOK, BagToSet
<1>8. PostsInv'
  BY <1>2, <1>6, PostsKept DEF Settled
<1>9. ReportsInv'
  BY <1>2, <1>4 DEF ReportsInv, ReportsAreTrue, BagToSet
<1> QED BY <1>7, <1>8, <1>9

(* The inductive invariant of the sink and the cloud together. *)
THEOREM CloudInvariant == Spec => []CloudInv
<1>1. CloudInv /\ [Next]_vars => CloudInv'
  <2> SUFFICES ASSUME CloudInv, [Next]_vars PROVE CloudInv'
    OBVIOUS
  <2>1. SinkInv'
    BY SinkInvStep DEF CloudInv
  <2>2. CASE OnEvent
    BY <2>1, <2>2, CloudUntouched DEF OnEvent, taskVars
  <2>3. CASE Recv \/ Closed \/ Tick
    <3>1. batch = <<>>
      BY <2>3 DEF Recv, Closed, Tick, CloudInv, SinkInv, PlacesOK
    <3> QED BY <2>1, <2>3, <3>1, CloudUntouched DEF Recv, Closed, Tick
  <2>4. CASE DropSink \/ UNCHANGED vars
    BY <2>1, <2>4, CloudUntouched DEF DropSink, vars, taskVars
  <2>5. CASE PostSucceeds
    BY <2>1, <2>5, PostSucceedsKeeps
  <2>6. CASE PostFails
    BY <2>1, <2>6, PostFailsKeeps
  <2>7. CASE LateArrival
    BY <2>1, <2>7, LateArrivalKeeps
  <2> QED BY <2>2, <2>3, <2>4, <2>5, <2>6, <2>7 DEF Next
<1> QED BY <1>1, CloudInvInit, PTL DEF Spec, SafetySpec

(* Type correctness, for every value of the constants. *)
THEOREM CloudTypeCorrect == Spec => []CloudTypeOK
<1>1. CloudInv => CloudTypeOK
  BY DEF CloudInv, SinkInv, PlacesOK, BagsOK, CloudTypeOK
<1> QED BY <1>1, CloudInvariant, PTL

(* flush_batch: the cloud sees an event again only as a repeat of a whole  *)
(* batch, at most as often as there are attempts, however late posts come. *)
THEOREM CloudRepeatsWhole == Spec => []RepeatsAreWhole
<1>1. CloudInv => RepeatsAreWhole
  <2> SUFFICES ASSUME CloudInv PROVE RepeatsAreWhole
    OBVIOUS
  <2>1. attempt <= Attempts
    BY CloudAssumption DEF CloudInv, SinkInv, PlacesOK
  <2>2. \A b \in DOMAIN Posts : Posts[b] \in Nat
    BY PostsBag DEF CloudInv
  <2>3. ASSUME NEW b \in DOMAIN Posts
        PROVE  /\ Posts[b] <= Attempts
               /\ \A c \in DOMAIN Posts \ {b} : ToSet(b) \cap ToSet(c) = {}
               /\ ToSet(b) = accepted \cap (Head(b) .. Last(b))
    <3>1. Posts[b] <= Attempts
      BY <2>1, <2>2, CloudAssumption DEF CloudInv, PostsInv, SinkInv, PlacesOK
    <3> QED BY <3>1 DEF CloudInv, PostsInv
  <2> QED BY <2>3 DEF RepeatsAreWhole, Posts, BagToSet
<1> QED BY <1>1, CloudInvariant, PTL

(* SyncStatus::Ok: what the sink reports as synced is in the cloud, and is *)
(* reported once.                                                          *)
THEOREM CloudReportsTrue == Spec => []ReportsAreTrue
<1>1. CloudInv => ReportsAreTrue
  BY DEF CloudInv, ReportsInv
<1> QED BY <1>1, CloudInvariant, PTL

=============================================================================
