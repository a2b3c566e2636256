----------------------------- MODULE ListProofs -----------------------------
(***************************************************************************)
(* Facts about numbers, recursive functions and the operators of module    *)
(* Lists, for the proofs about policies, exchanges, configurations and     *)
(* rows.  Induction is over a set of numbers, since the provers cannot     *)
(* instantiate a theorem about predicates.                                 *)
(***************************************************************************)
EXTENDS Lists, FiniteSetTheorems, SequenceTheorems, TLAPS

-----------------------------------------------------------------------------
(* The first n numbers are n. *)
LEMMA UpToFinite ==
  \A n \in Nat : IsFiniteSet(1 .. n) /\ Cardinality(1 .. n) = n
<1>1. SUFFICES ASSUME NEW n \in Nat
               PROVE  IsFiniteSet(1 .. n) /\ Cardinality(1 .. n) = n
  OBVIOUS
<1>2. 1 \in Int /\ n \in Int
  OBVIOUS
<1>3. IsFiniteSet(1 .. n) /\ Cardinality(1 .. n) = IF 1 > n THEN 0 ELSE n - 1 + 1
  BY <1>2, FS_Interval
<1> QED BY <1>3

(* A set of numbers that is finite and not empty has a least one: if it    *)
(* had none, each of its k numbers would have 1 to k - 1 below it, two of  *)
(* them equally many.                                                      *)
LEMMA LeastNumber ==
  ASSUME NEW S \in SUBSET Nat, IsFiniteSet(S), S # {}
  PROVE  \E i \in S : \A j \in S : i <= j
<1> DEFINE Below(i) == {j \in S : j < i}
           below == [i \in S |-> Cardinality(Below(i))]
           k == Cardinality(S)
<1>1. SUFFICES ASSUME \A i \in S : \E j \in S : ~(i <= j)
               PROVE  FALSE
  OBVIOUS
<1>2. k \in Nat
  BY FS_CardinalityType
<1>3. ASSUME NEW i \in S
      PROVE  IsFiniteSet(Below(i)) /\ Cardinality(Below(i)) \in 1 .. k - 1
  <2>1. IsFiniteSet(Below(i)) /\ Cardinality(Below(i)) <= k
    BY FS_Subset
  <2>2. Cardinality(Below(i)) \in Nat
    BY <2>1, FS_CardinalityType
  <2>3. Cardinality(Below(i)) # k
    <3>1. Below(i) # S
      OBVIOUS
    <3> QED BY <3>1, FS_Subset
  <2>4. Cardinality(Below(i)) # 0
    <3>1. Below(i) # {}
      BY <1>1
    <3> QED BY <2>1, <3>1, FS_EmptySet
  <2> HIDE DEF Below, k
  <2> QED BY <1>2, <2>1, <2>2, <2>3, <2>4
<1>4. ASSUME NEW i \in S, NEW j \in S, i < j
      PROVE  below[i] # below[j]
  <2>1. Below(i) \subseteq Below(j) /\ Below(i) # Below(j)
    <3>1. ASSUME NEW x \in S, x < i
          PROVE  x < j
      <4>1. x \in Nat /\ i \in Nat /\ j \in Nat
        OBVIOUS
      <4> QED BY <1>4, <3>1, <4>1
    <3>2. i \in Below(j) /\ i \notin Below(i)
      BY <1>4
    <3> QED BY <3>1, <3>2
  <2>2. Cardinality(Below(i)) # Cardinality(Below(j))
    BY <1>3, <2>1, FS_Subset
  <2> QED BY <2>2
<1>5. below \in [S -> 1 .. k - 1]
  BY <1>3
<1>6. IsFiniteSet(1 .. k - 1) /\ Cardinality(1 .. k - 1) < k
  <2>1. k # 0
    BY FS_EmptySet
  <2> HIDE DEF k
  <2> QED BY <1>2, <2>1, UpToFinite
<1>7. \E i, j \in S : i # j /\ below[i] = below[j]
  <2> HIDE DEF below
  <2> QED BY <1>5, <1>6, FS_PigeonHole
<1>8. PICK i \in S, j \in S : i # j /\ below[i] = below[j]
  BY <1>7
<1> HIDE DEF below
<1> QED BY <1>4, <1>8

(* Induction, over a set of numbers. *)
LEMMA Induction ==
  ASSUME NEW T, 0 \in T, \A n \in Nat : n \in T => n + 1 \in T
  PROVE  Nat \subseteq T
<1>1. SUFFICES ASSUME NEW n \in Nat, n \notin T
               PROVE  FALSE
  OBVIOUS
<1> DEFINE missing == {k \in 0 .. n : k \notin T}
<1>2. missing \in SUBSET Nat /\ missing # {}
  BY <1>1
<1>3. IsFiniteSet(missing)
  <2>1. 0 \in Int /\ n \in Int
    OBVIOUS
  <2>2. IsFiniteSet(0 .. n)
    BY <2>1, FS_Interval
  <2> QED BY <2>2, FS_Subset
<1>4. PICK m \in missing : \A k \in missing : m <= k
  <2> HIDE DEF missing
  <2> QED BY <1>2, <1>3, LeastNumber
<1>5. m - 1 \in 0 .. n /\ m - 1 \notin missing
  <2>1. m \in Nat /\ m # 0 /\ m <= n
    OBVIOUS
  <2>2. m - 1 \in 0 .. n /\ ~(m <= m - 1)
    BY <2>1
  <2> HIDE DEF missing
  <2> QED BY <2>2, <1>4
<1>6. m - 1 \in Nat /\ (m - 1) + 1 = m
  BY <1>5
<1>7. m \in T
  BY <1>5, <1>6
<1> QED BY <1>7

(* A step that can always be taken can be taken N times. *)
Iterates(f, N, base, step) ==
  f[0] = base /\ \A n \in 1 .. N : f[n] = step[n][f[n - 1]]

CanIterate(N, S, base, step) == \E f \in [0 .. N -> S] : Iterates(f, N, base, step)

LEMMA Iteration ==
  ASSUME NEW N \in Nat, NEW S, NEW base \in S, NEW step \in [1 .. N -> [S -> S]]
  PROVE  CanIterate(N, S, base, step)
<1> DEFINE Reaches(m, f) == f[0] = base /\ \A n \in 1 .. m : f[n] = step[n][f[n - 1]]
           Can(m) == \E f \in [0 .. m -> S] : Reaches(m, f)
           T == {m \in Nat : m <= N => Can(m)}
<1>1. Can(0)
  <2> DEFINE f == [k \in 0 .. 0 |-> base]
  <2>1. f \in [0 .. 0 -> S] /\ f[0] = base
    OBVIOUS
  <2>2. \A n \in 1 .. 0 : FALSE
    OBVIOUS
  <2> HIDE DEF f
  <2>3. Reaches(0, f)
    BY <2>1, <2>2
  <2> HIDE DEF Reaches
  <2> QED BY <2>1, <2>3
<1>2. ASSUME NEW m \in Nat, Can(m), m + 1 <= N
      PROVE  Can(m + 1)
  <2>1. PICK f \in [0 .. m -> S] : Reaches(m, f)
    <3> HIDE DEF Reaches
    <3> QED BY <1>2
  <2> DEFINE g == [k \in 0 .. m + 1 |-> IF k = m + 1 THEN step[m + 1][f[m]] ELSE f[k]]
  <2>2. f[m] \in S /\ m + 1 \in 1 .. N
    BY <1>2
  <2>3. step[m + 1][f[m]] \in S
    BY <2>2
  <2>4. g \in [0 .. m + 1 -> S]
    <3> SUFFICES ASSUME NEW k \in 0 .. m + 1
                 PROVE  (IF k = m + 1 THEN step[m + 1][f[m]] ELSE f[k]) \in S
      OBVIOUS
    <3>1. k # m + 1 => k \in 0 .. m
      OBVIOUS
    <3> QED BY <2>3, <3>1
  <2>5. \A k \in 0 .. m : g[k] = f[k]
    OBVIOUS
  <2>6. g[m + 1] = step[m + 1][f[m]]
    OBVIOUS
  <2> HIDE DEF g
  <2>7. g[0] = base
    BY <2>1, <2>5
  <2>8. ASSUME NEW n \in 1 .. m + 1
        PROVE  g[n] = step[n][g[n - 1]]
    <3>1. CASE n \in 1 .. m
      <4>1. n \in 0 .. m /\ n - 1 \in 0 .. m
        BY <3>1
      <4> QED BY <2>1, <2>5, <3>1, <4>1
    <3>2. CASE n = m + 1
      <4>1. n - 1 = m /\ m \in 0 .. m
        BY <3>2
      <4> QED BY <2>5, <2>6, <3>2, <4>1
    <3> QED BY <3>1, <3>2
  <2>9. Reaches(m + 1, g)
    BY <2>7, <2>8
  <2> HIDE DEF Reaches
  <2> QED BY <2>4, <2>9
<1>3. Can(N)
  <2> HIDE DEF Can
  <2>1. 0 \in T
    BY <1>1
  <2>2. \A m \in Nat : m \in T => m + 1 \in T
    BY <1>2
  <2> HIDE DEF T
  <2>3. N \in T
    BY <2>1, <2>2, Induction
  <2> QED BY <2>3 DEF T
<1> QED BY <1>3 DEF CanIterate, Iterates

-----------------------------------------------------------------------------
(* Lists (module Lists). *)
LEMMA AppendAdds ==
  ASSUME NEW D, NEW list \in Seq(D), NEW d \in D
  PROVE  ToSet(Append(list, d)) = ToSet(list) \cup {d}
<1> DEFINE more == Append(list, d)
<1>1. /\ Len(list) \in Nat /\ DOMAIN list = 1 .. Len(list)
      /\ DOMAIN more = 1 .. Len(list) + 1
      /\ \A i \in 1 .. Len(list) : more[i] = list[i]
      /\ more[Len(list) + 1] = d
  BY AppendProperties
<1> HIDE DEF more
<1>2. \A x \in ToSet(more) : x \in ToSet(list) \cup {d}
  <2> SUFFICES ASSUME NEW i \in 1 .. Len(list) + 1
               PROVE  more[i] \in ToSet(list) \cup {d}
    BY <1>1 DEF ToSet
  <2>1. i \in 1 .. Len(list) \/ i = Len(list) + 1
    BY <1>1
  <2> QED BY <1>1, <2>1 DEF ToSet
<1>3. ToSet(list) \subseteq ToSet(more)
  <2> SUFFICES ASSUME NEW i \in 1 .. Len(list)
               PROVE  list[i] \in ToSet(more)
    BY <1>1 DEF ToSet
  <2>1. i \in 1 .. Len(list) + 1
    BY <1>1
  <2> QED BY <1>1, <2>1 DEF ToSet
<1>4. d \in ToSet(more)
  <2>1. Len(list) + 1 \in 1 .. Len(list) + 1
    BY <1>1
  <2> QED BY <1>1, <2>1 DEF ToSet
<1> QED BY <1>2, <1>3, <1>4 DEF more

LEMMA PushUniqueAdds ==
  ASSUME NEW D, NEW list \in Seq(D), NEW d \in D
  PROVE  /\ PushUnique(list, d) \in Seq(D)
         /\ ToSet(PushUnique(list, d)) = ToSet(list) \cup {d}
         /\ IsInjective(list) => IsInjective(PushUnique(list, d))
         /\ list # <<>> => PushUnique(list, d) # <<>> /\ Head(PushUnique(list, d)) = Head(list)
<1>0. Len(list) \in Nat /\ DOMAIN list = 1 .. Len(list)
  OBVIOUS
<1>1. CASE Contains(list, d)
  <2>1. d \in ToSet(list)
    BY <1>0, <1>1 DEF Contains, ToSet
  <2> QED BY <1>1, <2>1 DEF PushUnique
<1>2. CASE ~Contains(list, d)
  <2> DEFINE more == Append(list, d)
  <2>1. /\ more \in Seq(D) /\ DOMAIN more = 1 .. Len(list) + 1
        /\ \A i \in 1 .. Len(list) : more[i] = list[i]
        /\ more[Len(list) + 1] = d
        /\ list # <<>> => Len(list) # 0
    BY AppendProperties
  <2>2. PushUnique(list, d) = more
    BY <1>2 DEF PushUnique
  <2>3. \A i \in 1 .. Len(list) : list[i] # d
    BY <1>2 DEF Contains
  <2> HIDE DEF more
  <2>4. ToSet(more) = ToSet(list) \cup {d}
    BY AppendAdds DEF more
  <2>5. ASSUME IsInjective(list)
        PROVE  IsInjective(more)
    <3> SUFFICES ASSUME NEW i \in 1 .. Len(list) + 1, NEW j \in 1 .. Len(list) + 1,
                        more[i] = more[j]
                 PROVE  i = j
      BY <2>1 DEF IsInjective
    <3>1. CASE i \in 1 .. Len(list) /\ j \in 1 .. Len(list)
      BY <1>0, <2>1, <2>5, <3>1 DEF IsInjective
    <3>2. CASE i = Len(list) + 1 \/ j = Len(list) + 1
      <4>1. i \in 1 .. Len(list) \/ i = Len(list) + 1
        BY <1>0
      <4>2. j \in 1 .. Len(list) \/ j = Len(list) + 1
        BY <1>0
      <4> QED BY <2>1, <2>3, <3>2, <4>1, <4>2
    <3> QED BY <1>0, <3>1, <3>2
  <2>6. ASSUME list # <<>>
        PROVE  more # <<>> /\ Head(more) = Head(list)
    BY <2>6 DEF more
  <2> QED BY <2>1, <2>2, <2>4, <2>5, <2>6
<1> QED BY <1>1, <1>2

(* What the recursion of PushAll does, step by step. *)
LEMMA PushAllUnfolds ==
  ASSUME NEW D, NEW list \in Seq(D), NEW ds \in Seq(D)
  PROVE  \E f : /\ f[0] = list
                /\ \A n \in 1 .. Len(ds) : f[n] = PushUnique(f[n - 1], ds[n])
                /\ PushAll(list, ds) = f[Len(ds)]
<1> DEFINE N == Len(ds)
           next(h) == [n \in 0 .. N |-> IF n = 0 THEN list ELSE PushUnique(h[n - 1], ds[n])]
           f == CHOOSE h : h = next(h)
           step == [n \in 1 .. N |-> [x \in Seq(D) |-> PushUnique(x, ds[n])]]
<1>1. N \in Nat /\ \A n \in 1 .. N : ds[n] \in D
  OBVIOUS
<1>2. step \in [1 .. N -> [Seq(D) -> Seq(D)]]
  <2> SUFFICES ASSUME NEW n \in 1 .. N, NEW x \in Seq(D)
               PROVE  PushUnique(x, ds[n]) \in Seq(D)
    OBVIOUS
  <2> QED BY <1>1, PushUniqueAdds
<1>3. PICK g \in [0 .. N -> Seq(D)] :
        g[0] = list /\ \A n \in 1 .. N : g[n] = step[n][g[n - 1]]
  <2> DEFINE L == Seq(D)
  <2>1. N \in Nat /\ list \in L /\ step \in [1 .. N -> [L -> L]]
    BY <1>1, <1>2
  <2> HIDE DEF N, step, L
  <2>2. CanIterate(N, L, list, step)
    BY <2>1, Iteration
  <2> QED BY <2>2 DEF L, CanIterate, Iterates
<1>4. g = next(g)
  <2> SUFFICES ASSUME NEW n \in 0 .. N
               PROVE  g[n] = next(g)[n]
    OBVIOUS
  <2>1. CASE n = 0
    BY <1>3, <2>1
  <2>2. CASE n # 0
    <3>1. n \in 1 .. N /\ n - 1 \in 0 .. N
      BY <2>2
    <3>2. g[n] = step[n][g[n - 1]] /\ g[n - 1] \in Seq(D)
      BY <1>3, <3>1
    <3>3. g[n] = PushUnique(g[n - 1], ds[n])
      BY <3>1, <3>2
    <3> QED BY <2>2, <3>3
  <2> QED BY <2>1, <2>2
<1>5. f = next(f)
  <2> HIDE DEF next
  <2> QED BY <1>4
<1>6. PushAll(list, ds) = f[N]
  BY DEF PushAll
<1> HIDE DEF f
<1>7. f[0] = list /\ \A n \in 1 .. N : f[n] = PushUnique(f[n - 1], ds[n])
  <2>1. f[0] = list
    BY <1>1, <1>5
  <2>2. ASSUME NEW n \in 1 .. N
        PROVE  f[n] = PushUnique(f[n - 1], ds[n])
    <3>1. n \in 0 .. N /\ n # 0
      OBVIOUS
    <3>2. next(f)[n] = PushUnique(f[n - 1], ds[n])
      BY <3>1
    <3> HIDE DEF next
    <3> QED BY <1>5, <3>2
  <2> QED BY <2>1, <2>2
<1> QED BY <1>6, <1>7

(* All of the list and of what is pushed is there, nothing else is, no     *)
(* element comes to be there twice, and the first one stays in front.      *)
LEMMA PushAllAdds ==
  ASSUME NEW D, NEW list \in Seq(D), NEW ds \in Seq(D)
  PROVE  /\ PushAll(list, ds) \in Seq(D)
         /\ ToSet(PushAll(list, ds)) = ToSet(list) \cup ToSet(ds)
         /\ IsInjective(list) => IsInjective(PushAll(list, ds))
         /\ list # <<>> => PushAll(list, ds) # <<>> /\ Head(PushAll(list, ds)) = Head(list)
<1> DEFINE N == Len(ds)
           upTo(n) == {ds[i] : i \in 1 .. n}
<1>1. PICK f : /\ f[0] = list
               /\ \A n \in 1 .. N : f[n] = PushUnique(f[n - 1], ds[n])
               /\ PushAll(list, ds) = f[N]
  BY PushAllUnfolds
<1> DEFINE Good(n) == /\ f[n] \in Seq(D)
                      /\ ToSet(f[n]) = ToSet(list) \cup upTo(n)
                      /\ IsInjective(list) => IsInjective(f[n])
                      /\ list # <<>> => f[n] # <<>> /\ Head(f[n]) = Head(list)
           T == {n \in Nat : n <= N => Good(n)}
<1>2. N \in Nat /\ \A n \in 1 .. N : ds[n] \in D
  OBVIOUS
<1>3. Good(0)
  <2>1. upTo(0) = {}
    OBVIOUS
  <2> HIDE DEF upTo
  <2> QED BY <1>1, <2>1
<1>4. ASSUME NEW n \in Nat, Good(n), n + 1 <= N
      PROVE  Good(n + 1)
  <2>1. n + 1 \in 1 .. N /\ (n + 1) - 1 = n
    BY <1>4
  <2>2. f[n + 1] = PushUnique(f[n], ds[n + 1]) /\ ds[n + 1] \in D
    BY <1>1, <1>2, <2>1
  <2>3. upTo(n + 1) = upTo(n) \cup {ds[n + 1]}
    <3>1. \A i \in 1 .. n + 1 : i \in 1 .. n \/ i = n + 1
      OBVIOUS
    <3>2. 1 .. n \subseteq 1 .. n + 1 /\ n + 1 \in 1 .. n + 1
      OBVIOUS
    <3> QED BY <3>1, <3>2
  <2> HIDE DEF upTo, N
  <2> DEFINE now == f[n]
             then == PushUnique(now, ds[n + 1])
  <2>4. /\ now \in Seq(D)
        /\ ToSet(now) = ToSet(list) \cup upTo(n)
        /\ IsInjective(list) => IsInjective(now)
        /\ list # <<>> => now # <<>> /\ Head(now) = Head(list)
    BY <1>4
  <2> HIDE DEF now
  <2>5. /\ then \in Seq(D)
        /\ ToSet(then) = ToSet(now) \cup {ds[n + 1]}
        /\ IsInjective(now) => IsInjective(then)
        /\ now # <<>> => then # <<>> /\ Head(then) = Head(now)
    BY <2>2, <2>4, PushUniqueAdds
  <2>6. f[n + 1] = then
    BY <2>2 DEF now
  <2> HIDE DEF then
  <2> QED BY <2>3, <2>4, <2>5, <2>6
<1>5. Good(N)
  <2> HIDE DEF Good
  <2>1. 0 \in T /\ \A n \in Nat : n \in T => n + 1 \in T
    BY <1>3, <1>4
  <2> HIDE DEF T, N
  <2>2. N \in T
    BY <1>2, <2>1, Induction
  <2> QED BY <2>2 DEF T
<1>6. ToSet(ds) = upTo(N)
  BY DEF ToSet
<1> HIDE DEF N, upTo
<1> QED BY <1>1, <1>5, <1>6

(* The same for the filter: of the list, what is in the set. *)
LEMMA OnlyUnfolds ==
  ASSUME NEW D, NEW s \in Seq(D), NEW S
  PROVE  \E f : /\ f[0] = <<>>
                /\ \A n \in 1 .. Len(s) :
                     f[n] = IF s[n] \in S THEN Append(f[n - 1], s[n]) ELSE f[n - 1]
                /\ Only(s, S) = f[Len(s)]
<1> DEFINE N == Len(s)
           keep(x, n) == IF s[n] \in S THEN Append(x, s[n]) ELSE x
           next(h) == [n \in 0 .. N |-> IF n = 0 THEN <<>> ELSE keep(h[n - 1], n)]
           f == CHOOSE h : h = next(h)
           L == Seq(D)
           step == [n \in 1 .. N |-> [x \in L |-> keep(x, n)]]
<1>1. N \in Nat /\ \A n \in 1 .. N : s[n] \in D
  OBVIOUS
<1>2. <<>> \in L /\ step \in [1 .. N -> [L -> L]]
  <2> SUFFICES ASSUME NEW n \in 1 .. N, NEW x \in L
               PROVE  keep(x, n) \in L
    OBVIOUS
  <2> QED BY <1>1
<1>3. PICK g \in [0 .. N -> L] :
        g[0] = <<>> /\ \A n \in 1 .. N : g[n] = step[n][g[n - 1]]
  <2> HIDE DEF N, step, L
  <2>1. CanIterate(N, L, <<>>, step)
    BY <1>1, <1>2, Iteration
  <2> QED BY <2>1 DEF CanIterate, Iterates
<1> HIDE DEF L
<1>4. g = next(g)
  <2> SUFFICES ASSUME NEW n \in 0 .. N
               PROVE  g[n] = next(g)[n]
    BY <1>3
  <2>1. CASE n = 0
    BY <1>3, <2>1
  <2>2. CASE n # 0
    <3>1. n \in 1 .. N /\ n - 1 \in 0 .. N
      BY <2>2
    <3> HIDE DEF keep
    <3>2. g[n] = step[n][g[n - 1]] /\ g[n - 1] \in L
      BY <1>3, <3>1
    <3>3. g[n] = keep(g[n - 1], n)
      BY <3>1, <3>2
    <3> QED BY <2>2, <3>3
  <2> QED BY <2>1, <2>2
<1>5. f = next(f)
  <2> HIDE DEF next
  <2> QED BY <1>4
<1>6. Only(s, S) = f[N]
  BY DEF Only
<1> HIDE DEF f
<1>7. f[0] = <<>> /\ \A n \in 1 .. N : f[n] = keep(f[n - 1], n)
  <2> HIDE DEF keep
  <2>1. f[0] = <<>>
    BY <1>1, <1>5
  <2>2. ASSUME NEW n \in 1 .. N
        PROVE  f[n] = keep(f[n - 1], n)
    <3>1. n \in 0 .. N /\ n # 0
      OBVIOUS
    <3>2. next(f)[n] = keep(f[n - 1], n)
      BY <3>1
    <3> HIDE DEF next
    <3> QED BY <1>5, <3>2
  <2> QED BY <2>1, <2>2
<1> QED BY <1>6, <1>7

LEMMA OnlyKeeps ==
  ASSUME NEW D, NEW s \in Seq(D), NEW S
  PROVE  /\ Only(s, S) \in Seq(D \cap S)
         /\ ToSet(Only(s, S)) = ToSet(s) \cap S
         /\ Len(Only(s, S)) <= Len(s)
<1> DEFINE N == Len(s)
           K == D \cap S
           upTo(n) == {s[i] : i \in {i \in 1 .. n : s[i] \in S}}
<1>1. PICK f : /\ f[0] = <<>>
               /\ \A n \in 1 .. N :
                     f[n] = IF s[n] \in S THEN Append(f[n - 1], s[n]) ELSE f[n - 1]
               /\ Only(s, S) = f[N]
  BY OnlyUnfolds
<1> DEFINE Good(n) == /\ f[n] \in Seq(K)
                      /\ ToSet(f[n]) = upTo(n)
                      /\ Len(f[n]) <= n
           T == {n \in Nat : n <= N => Good(n)}
<1>2. N \in Nat /\ \A n \in 1 .. N : s[n] \in D
  OBVIOUS
<1>3. Good(0)
  <2>1. upTo(0) = {} /\ ToSet(<<>>) = {}
    BY DEF ToSet
  <2>2. <<>> \in Seq(K) /\ Len(<<>>) <= 0
    OBVIOUS
  <2> HIDE DEF upTo, K
  <2> QED BY <1>1, <2>1, <2>2
<1>4. ASSUME NEW n \in Nat, Good(n), n + 1 <= N
      PROVE  Good(n + 1)
  <2>1. n + 1 \in 1 .. N /\ (n + 1) - 1 = n
    BY <1>4
  <2>2. f[n + 1] = IF s[n + 1] \in S THEN Append(f[n], s[n + 1]) ELSE f[n]
    BY <1>1, <2>1
  <2>3. s[n + 1] \in D
    BY <1>2, <2>1
  <2>4. upTo(n + 1) = upTo(n) \cup (IF s[n + 1] \in S THEN {s[n + 1]} ELSE {})
    <3>1. \A i \in 1 .. n + 1 : i \in 1 .. n \/ i = n + 1
      OBVIOUS
    <3>2. 1 .. n \subseteq 1 .. n + 1 /\ n + 1 \in 1 .. n + 1
      OBVIOUS
    <3> QED BY <3>1, <3>2
  <2> HIDE DEF upTo, N
  <2> DEFINE now == f[n]
  <2>5. now \in Seq(K) /\ ToSet(now) = upTo(n) /\ Len(now) <= n /\ Len(now) \in Nat
    BY <1>4
  <2>6. f[n + 1] = IF s[n + 1] \in S THEN Append(now, s[n + 1]) ELSE now
    BY <2>2
  <2> HIDE DEF now
  <2>7. CASE s[n + 1] \in S
    <3> DEFINE e == s[n + 1]
               more == Append(now, e)
    <3>1. e \in K /\ f[n + 1] = more /\ upTo(n + 1) = upTo(n) \cup {e}
      BY <2>3, <2>4, <2>6, <2>7
    <3> HIDE DEF e, K
    <3>2. more \in Seq(K) /\ Len(more) = Len(now) + 1
      BY <2>5, <3>1
    <3>3. ToSet(more) = ToSet(now) \cup {e}
      BY <2>5, <3>1, AppendAdds
    <3>4. Len(more) <= n + 1
      BY <2>5, <3>2
    <3> HIDE DEF more
    <3> QED BY <2>5, <3>1, <3>2, <3>3, <3>4
  <2>8. CASE s[n + 1] \notin S
    <3>1. f[n + 1] = now /\ upTo(n + 1) = upTo(n)
      BY <2>4, <2>6, <2>8
    <3>2. Len(now) <= n + 1
      BY <2>5
    <3> HIDE DEF K
    <3> QED BY <2>5, <3>1, <3>2
  <2> QED BY <2>7, <2>8
<1>5. Good(N)
  <2> HIDE DEF Good
  <2>1. 0 \in T /\ \A n \in Nat : n \in T => n + 1 \in T
    BY <1>3, <1>4
  <2> HIDE DEF T, N
  <2>2. N \in T
    BY <1>2, <2>1, Induction
  <2> QED BY <2>2 DEF T
<1>6. ToSet(s) \cap S = upTo(N)
  BY DEF ToSet
<1> HIDE DEF upTo
<1> QED BY <1>1, <1>5, <1>6

LEMMA ListOfItself ==
  ASSUME NEW D, NEW s \in Seq(D)
  PROVE  s \in Seq(ToSet(s))
<1> DEFINE S == ToSet(s)
<1>1. Len(s) \in Nat /\ s \in [1 .. Len(s) -> D] /\ DOMAIN s = 1 .. Len(s)
  BY LenProperties
<1>2. \A i \in 1 .. Len(s) : s[i] \in S
  BY <1>1 DEF ToSet
<1> HIDE DEF S
<1>3. s \in [1 .. Len(s) -> S]
  BY <1>1, <1>2
<1> QED BY <1>1, <1>3, SeqDef DEF S

LEMMA FunctionIsList ==
  ASSUME NEW n \in Nat, NEW D, NEW f \in [1 .. n -> D]
  PROVE  f \in Seq(D) /\ Len(f) = n /\ DOMAIN f = 1 .. n
<1>1. f \in Seq(D)
  BY SeqDef
<1> QED BY <1>1, LenProperties

(* Induction over lists that grow at the end, over a set of lists. *)
LEMMA ListInduction ==
  ASSUME NEW D, NEW T, <<>> \in T,
         \A s \in Seq(D), e \in D : s \in T => Append(s, e) \in T
  PROVE  Seq(D) \subseteq T
<1> DEFINE K == {n \in Nat : \A s \in Seq(D) : Len(s) = n => s \in T}
<1>1. 0 \in K
  <2>1. \A s \in Seq(D) : Len(s) = 0 => s = <<>>
    BY EmptySeq
  <2> QED BY <2>1
<1>2. ASSUME NEW n \in Nat, n \in K
      PROVE  n + 1 \in K
  <2> SUFFICES ASSUME NEW s \in Seq(D), Len(s) = n + 1
               PROVE  s \in T
    OBVIOUS
  <2>1. s # <<>>
    BY EmptySeq
  <2>2. PICK f \in Seq(D), e \in D : s = Append(f, e)
    BY <2>1, SequenceEmptyOrAppend
  <2>3. Len(f) \in Nat /\ Len(s) = Len(f) + 1
    BY <2>2, AppendProperties, LenProperties
  <2>4. Len(f) = n
    BY <2>3
  <2>5. f \in T
    BY <1>2, <2>4
  <2> QED BY <2>2, <2>5
<1>3. Nat \subseteq K
  <2> HIDE DEF K
  <2> QED BY <1>1, <1>2, Induction
<1> QED BY <1>3, LenProperties

(* A recursion over a list from its front is a function of the list: what  *)
(* it makes of one more element depends on the element and on what it made *)
(* of the others.                                                          *)
Follows(g, s, base, step) ==
  g[0] = base /\ \A n \in 1 .. Len(s) : g[n] = step[g[n - 1]][s[n]]

FoldsTo(F, D, S, base, step) ==
  /\ F \in [Seq(D) -> S]
  /\ F[<<>>] = base
  /\ \A s \in Seq(D), e \in D : F[Append(s, e)] = step[F[s]][e]
  /\ \A s \in Seq(D) : \A g : Follows(g, s, base, step) => g[Len(s)] = F[s]

(* The recursion over one list. *)
LEMMA FoldRuns ==
  ASSUME NEW D, NEW S, NEW base \in S, NEW step \in [S -> [D -> S]], NEW s \in Seq(D)
  PROVE  \E g \in [0 .. Len(s) -> S] : Follows(g, s, base, step)
<1> DEFINE N == Len(s)
           move == [n \in 1 .. N |-> [x \in S |-> step[x][s[n]]]]
<1>1. N \in Nat /\ \A n \in 1 .. N : s[n] \in D
  BY LenProperties
<1>2. move \in [1 .. N -> [S -> S]]
  BY <1>1
<1>3. PICK g \in [0 .. N -> S] : g[0] = base /\ \A n \in 1 .. N : g[n] = move[n][g[n - 1]]
  <2> HIDE DEF N, move
  <2>1. CanIterate(N, S, base, move)
    BY <1>1, <1>2, Iteration
  <2> QED BY <2>1 DEF CanIterate, Iterates
<1>4. ASSUME NEW n \in 1 .. N
      PROVE  g[n] = step[g[n - 1]][s[n]]
  <2>1. n - 1 \in 0 .. N
    BY <1>1
  <2>2. g[n - 1] \in S
    BY <2>1
  <2>3. g[n] = move[n][g[n - 1]]
    BY <1>3
  <2> QED BY <2>2, <2>3
<1>5. Follows(g, s, base, step)
  BY <1>3, <1>4 DEF Follows
<1> QED BY <1>5

(* Two functions of a number that begin alike and go on alike.             *)
Alike(f, g, N) == f[0] = g[0] /\ \A n \in 1 .. N : f[n - 1] = g[n - 1] => f[n] = g[n]

LEMMA GoOnAlike ==
  ASSUME NEW N \in Nat, NEW f, NEW g, Alike(f, g, N)
  PROVE  f[N] = g[N]
<1> DEFINE T == {n \in Nat : n <= N => f[n] = g[n]}
<1>1. 0 \in T
  BY DEF Alike
<1>2. ASSUME NEW n \in Nat, n \in T
      PROVE  n + 1 \in T
  <2> SUFFICES ASSUME n + 1 <= N
               PROVE  f[n + 1] = g[n + 1]
    OBVIOUS
  <2>1. n + 1 \in 1 .. N /\ (n + 1) - 1 = n /\ n <= N
    OBVIOUS
  <2> QED BY <1>2, <2>1 DEF Alike
<1>3. Nat \subseteq T
  <2> HIDE DEF T
  <2> QED BY <1>1, <1>2, Induction
<1> QED BY <1>3

(* The recursion over all lists. *)
LEMMA FoldOverList ==
  ASSUME NEW D, NEW S, NEW base \in S, NEW step \in [S -> [D -> S]]
  PROVE  \E F : FoldsTo(F, D, S, base, step)
<1> DEFINE Run(s) == CHOOSE g : g \in [0 .. Len(s) -> S] /\ Follows(g, s, base, step)
           F == [s \in Seq(D) |-> Run(s)[Len(s)]]
<1>1. ASSUME NEW s \in Seq(D)
      PROVE  Run(s) \in [0 .. Len(s) -> S] /\ Follows(Run(s), s, base, step)
  <2>1. \E g : g \in [0 .. Len(s) -> S] /\ Follows(g, s, base, step)
    BY FoldRuns
  <2> QED BY <2>1
<1>2. ASSUME NEW s \in Seq(D), NEW g, NEW h,
             Follows(g, s, base, step), Follows(h, s, base, step)
      PROVE  g[Len(s)] = h[Len(s)]
  <2> DEFINE N == Len(s)
  <2>1. N \in Nat
    BY LenProperties
  <2>2. Alike(g, h, N)
    BY <1>2 DEF Follows, Alike
  <2> HIDE DEF N
  <2>3. g[N] = h[N]
    BY <2>1, <2>2, GoOnAlike
  <2> QED BY <2>3 DEF N
<1> HIDE DEF Run
<1>3. F \in [Seq(D) -> S]
  <2> SUFFICES ASSUME NEW s \in Seq(D)
               PROVE  Run(s)[Len(s)] \in S
    OBVIOUS
  <2>1. Len(s) \in 0 .. Len(s)
    BY LenProperties
  <2> QED BY <1>1, <2>1
<1>4. ASSUME NEW s \in Seq(D), NEW g, Follows(g, s, base, step)
      PROVE  g[Len(s)] = F[s]
  BY <1>1, <1>2, <1>4
<1>5. F[<<>>] = base
  <2>1. <<>> \in Seq(D) /\ Len(<<>>) = 0
    OBVIOUS
  <2> QED BY <1>1, <2>1 DEF Follows
<1>6. ASSUME NEW s \in Seq(D), NEW e \in D
      PROVE  F[Append(s, e)] = step[F[s]][e]
  <2> DEFINE t == Append(s, e)
             N == Len(s)
             g == Run(t)
  <2>1. /\ N \in Nat /\ t \in Seq(D) /\ Len(t) = N + 1 /\ t[N + 1] = e
        /\ \A n \in 1 .. N : t[n] = s[n]
    BY AppendProperties, LenProperties
  <2> HIDE DEF t
  <2>2. Follows(g, t, base, step)
    BY <1>1, <2>1
  <2>3. F[t] = g[N + 1]
    BY <2>1
  <2> HIDE DEF g
  <2>4. Follows(g, s, base, step)
    <3>1. g[0] = base
      BY <2>2 DEF Follows
    <3>2. ASSUME NEW n \in 1 .. N
          PROVE  g[n] = step[g[n - 1]][s[n]]
      <4>1. n \in 1 .. Len(t) /\ t[n] = s[n]
        <5>1. t[n] = s[n]
          BY <2>1
        <5> HIDE DEF N
        <5>2. N \in Nat /\ Len(t) = N + 1
          BY <2>1
        <5>3. n \in 1 .. N + 1
          BY <5>2
        <5> QED BY <5>1, <5>2, <5>3
      <4> QED BY <2>2, <4>1 DEF Follows
    <3> QED BY <3>1, <3>2 DEF Follows
  <2>5. g[N] = F[s]
    BY <1>4, <2>4
  <2>6. N + 1 \in 1 .. Len(t) /\ (N + 1) - 1 = N
    BY <2>1
  <2>7. g[N + 1] = step[g[N]][e]
    BY <2>1, <2>2, <2>6 DEF Follows
  <2> QED BY <2>3, <2>5, <2>7 DEF t
<1>7. FoldsTo(F, D, S, base, step)
  BY <1>3, <1>4, <1>5, <1>6 DEF FoldsTo
<1> QED BY <1>7

(* Concatenation is associative. *)
Regroups(a, b, c) == a \o (b \o c) = (a \o b) \o c

LEMMA Regroup ==
  ASSUME NEW D, NEW a \in Seq(D), NEW b \in Seq(D), NEW c \in Seq(D)
  PROVE  Regroups(a, b, c)
<1>1. (a \o b) \o c = a \o (b \o c)
  BY ConcatAssociative
<1> QED BY <1>1 DEF Regroups

(* An element after two lists is one after the second of them. *)
LEMMA AppendAfter ==
  ASSUME NEW D, NEW s \in Seq(D), NEW t \in Seq(D), NEW d \in D
  PROVE  s \o t \in Seq(D) /\ s \o Append(t, d) = Append(s \o t, d)
<1> DEFINE one == <<d>>
           st == s \o t
<1>1. one \in Seq(D) /\ st \in Seq(D)
  BY ConcatProperties
<1>2. Append(t, d) = t \o one /\ Append(st, d) = st \o one
  BY <1>1, AppendIsConcat
<1> HIDE DEF one
<1>3. Regroups(s, t, one)
  BY <1>1, Regroup
<1> QED BY <1>1, <1>2, <1>3 DEF Regroups

(* The list of what a function makes of the elements.                      *)
Mapped(s, F) == [i \in DOMAIN s |-> F[s[i]]]

MapsTo(s, F, R, m) ==
  /\ m \in Seq(R) /\ Len(m) = Len(s) /\ DOMAIN m = 1 .. Len(s)
  /\ \A i \in 1 .. Len(s) : m[i] = F[s[i]]

LEMMA MappedList ==
  ASSUME NEW D, NEW R, NEW F \in [D -> R], NEW s \in Seq(D)
  PROVE  MapsTo(s, F, R, Mapped(s, F))
<1>1. Len(s) \in Nat /\ DOMAIN s = 1 .. Len(s) /\ \A i \in 1 .. Len(s) : s[i] \in D
  BY LenProperties
<1> DEFINE m == Mapped(s, F)
<1>2. m \in [1 .. Len(s) -> R] /\ \A i \in 1 .. Len(s) : m[i] = F[s[i]]
  BY <1>1 DEF Mapped
<1> HIDE DEF m
<1>3. m \in Seq(R) /\ Len(m) = Len(s) /\ DOMAIN m = 1 .. Len(s)
  BY <1>1, <1>2, FunctionIsList
<1> QED BY <1>2, <1>3 DEF m, MapsTo

Joins(D, s, t, st) ==
  /\ st \in Seq(D) /\ Len(st) = Len(s) + Len(t)
  /\ \A i \in 1 .. Len(s) + Len(t) : st[i] = IF i <= Len(s) THEN s[i] ELSE t[i - Len(s)]

(* A concatenation, element by element. *)
LEMMA ConcatJoins ==
  ASSUME NEW D, NEW s \in Seq(D), NEW t \in Seq(D)
  PROVE  Joins(D, s, t, s \o t)
BY ConcatProperties DEF Joins

(* Mapping, filtering and flattening go through a concatenation. *)
Mapping(D, R) == [D -> R]

LEMMA MappedConcat ==
  ASSUME NEW D, NEW R, NEW F \in Mapping(D, R), NEW s \in Seq(D), NEW t \in Seq(D)
  PROVE  Mapped(s \o t, F) = Mapped(s, F) \o Mapped(t, F)
<1> DEFINE st == s \o t
           ms == Mapped(s, F)
           mt == Mapped(t, F)
           both == Mapped(st, F)
           m == ms \o mt
<1>1. Len(s) \in Nat /\ Len(t) \in Nat /\ st \in Seq(D) /\ Joins(D, s, t, st)
  BY ConcatJoins, LenProperties DEF Joins
<1> HIDE DEF st
<1>7. F \in [D -> R]
  BY DEF Mapping
<1>2. MapsTo(s, F, R, ms) /\ MapsTo(t, F, R, mt) /\ MapsTo(st, F, R, both)
  BY <1>1, <1>7, MappedList
<1> HIDE DEF ms, mt, both
<1>3. Joins(R, ms, mt, m)
  <2>1. ms \in Seq(R) /\ mt \in Seq(R)
    BY <1>2 DEF MapsTo
  <2> QED BY <2>1, ConcatJoins
<1> HIDE DEF m
<1>4. /\ both \in Seq(R) /\ Len(both) = Len(s) + Len(t)
      /\ m \in Seq(R) /\ Len(m) = Len(s) + Len(t)
  BY <1>1, <1>2, <1>3 DEF Joins, MapsTo
<1>5. ASSUME NEW i \in 1 .. Len(s) + Len(t)
      PROVE  both[i] = m[i]
  <2>0. both[i] = F[st[i]]
    BY <1>1, <1>2 DEF Joins, MapsTo
  <2>1. CASE i <= Len(s)
    <3>1. i \in 1 .. Len(s)
      BY <1>1, <2>1
    <3>2. st[i] = s[i] /\ ms[i] = F[s[i]] /\ m[i] = ms[i]
      BY <1>1, <1>2, <1>3, <2>1, <3>1 DEF Joins, MapsTo
    <3> QED BY <2>0, <3>2
  <2>2. CASE ~(i <= Len(s))
    <3>1. i - Len(s) \in 1 .. Len(t)
      BY <1>1, <2>2
    <3>2. /\ st[i] = t[i - Len(s)] /\ mt[i - Len(s)] = F[t[i - Len(s)]]
          /\ m[i] = mt[i - Len(s)]
      BY <1>1, <1>2, <1>3, <2>2, <3>1 DEF Joins, MapsTo
    <3> QED BY <2>0, <3>2
  <2> QED BY <2>1, <2>2
<1>6. both = m
  BY <1>4, <1>5, SeqEqual
<1> QED BY <1>6 DEF both, m, ms, mt, st

LEMMA MappedGrows ==
  ASSUME NEW D, NEW R, NEW F \in [D -> R], NEW s \in Seq(D), NEW d \in D
  PROVE  Mapped(<<>>, F) = <<>> /\ Mapped(Append(s, d), F) = Append(Mapped(s, F), F[d])
<1> DEFINE one == <<d>>
           m == Mapped(one, F)
           ms == Mapped(s, F)
<1>1. one \in Seq(D) /\ Len(one) = 1 /\ one[1] = d /\ Append(s, d) = s \o one
  BY AppendIsConcat
<1>2. Mapped(<<>>, F) = <<>>
  <2> DEFINE e == <<>>
             me == Mapped(e, F)
  <2>1. e \in Seq(D) /\ Len(e) = 0
    OBVIOUS
  <2> HIDE DEF e
  <2>2. MapsTo(e, F, R, me)
    BY <2>1, MappedList
  <2> HIDE DEF me
  <2>3. me = <<>>
    BY <2>1, <2>2, EmptySeq DEF MapsTo
  <2> QED BY <2>3 DEF me, e
<1> HIDE DEF one
<1>3. MapsTo(one, F, R, m) /\ MapsTo(s, F, R, ms)
  BY <1>1, MappedList
<1>4. Mapped(s \o one, F) = ms \o m
  <2>1. F \in Mapping(D, R)
    BY <1>1 DEF Mapping
  <2> QED BY <1>1, <2>1, MappedConcat
<1> HIDE DEF m, ms
<1>5. m = <<F[d]>>
  <2>1. m \in Seq(R) /\ Len(m) = 1 /\ m[1] = F[d] /\ F[d] \in R
    BY <1>1, <1>3 DEF MapsTo
  <2> DEFINE one_ == <<F[d]>>
  <2>2. one_ \in Seq(R) /\ Len(one_) = 1 /\ one_[1] = F[d]
    BY <2>1
  <2> HIDE DEF one_
  <2>3. \A i \in 1 .. Len(m) : m[i] = one_[i]
    BY <2>1, <2>2
  <2>4. m = one_
    BY <2>1, <2>2, <2>3, SeqEqual
  <2> QED BY <2>4 DEF one_
<1>6. ms \o <<F[d]>> = Append(ms, F[d])
  BY <1>3, AppendIsConcat DEF MapsTo
<1> QED BY <1>1, <1>2, <1>4, <1>5, <1>6 DEF ms

(* What is kept of a list that grows.                                      *)
KeepsGrowing(D, S) ==
  /\ Only(<<>>, S) = <<>>
  /\ \A s \in Seq(D), d \in D :
       Only(Append(s, d), S) = IF d \in S THEN Append(Only(s, S), d) ELSE Only(s, S)

LEMMA OnlyGrows ==
  ASSUME NEW D, NEW S
  PROVE  KeepsGrowing(D, S)
<1>1. Only(<<>>, S) = <<>>
  <2> DEFINE e == <<>>
  <2>1. e \in Seq(D) /\ Len(e) = 0
    OBVIOUS
  <2> HIDE DEF e
  <2>2. PICK f : /\ f[0] = <<>>
                 /\ \A n \in 1 .. Len(e) : f[n] = IF e[n] \in S THEN Append(f[n - 1], e[n]) ELSE f[n - 1]
                 /\ Only(e, S) = f[Len(e)]
    BY <2>1, OnlyUnfolds
  <2> QED BY <2>1, <2>2 DEF e
<1>2. ASSUME NEW s \in Seq(D), NEW d \in D
      PROVE  Only(Append(s, d), S) = IF d \in S THEN Append(Only(s, S), d) ELSE Only(s, S)
  <2> DEFINE t == Append(s, d)
             N == Len(s)
  <2>1. /\ N \in Nat /\ t \in Seq(D) /\ Len(t) = N + 1 /\ t[N + 1] = d
        /\ \A n \in 1 .. N : t[n] = s[n]
    BY AppendProperties, LenProperties
  <2> HIDE DEF t
  <2>2. PICK f : /\ f[0] = <<>>
                 /\ \A n \in 1 .. N : f[n] = IF s[n] \in S THEN Append(f[n - 1], s[n]) ELSE f[n - 1]
                 /\ Only(s, S) = f[N]
    BY OnlyUnfolds
  <2>3. PICK g : /\ g[0] = <<>>
                 /\ \A n \in 1 .. Len(t) : g[n] = IF t[n] \in S THEN Append(g[n - 1], t[n]) ELSE g[n - 1]
                 /\ Only(t, S) = g[Len(t)]
    BY <2>1, OnlyUnfolds
  <2> HIDE DEF N
  <2>4. \A n \in 1 .. N : n \in 1 .. Len(t)
    BY <2>1
  <2>5. Alike(f, g, N)
    BY <2>1, <2>2, <2>3, <2>4 DEF Alike
  <2>6. g[N] = f[N]
    BY <2>1, <2>5, GoOnAlike
  <2>7. N + 1 \in 1 .. Len(t) /\ (N + 1) - 1 = N
    BY <2>1
  <2>8. g[N + 1] = IF d \in S THEN Append(g[N], d) ELSE g[N]
    BY <2>1, <2>3, <2>7
  <2>9. Only(t, S) = g[N + 1]
    BY <2>1, <2>3
  <2> QED BY <2>2, <2>6, <2>8, <2>9 DEF t
<1> QED BY <1>1, <1>2 DEF KeepsGrowing

LEMMA OnlyTyped ==
  ASSUME NEW D, NEW s \in Seq(D), NEW S
  PROVE  Only(s, S) \in Seq(D)
<1>1. Only(s, S) \in Seq(D \cap S)
  BY OnlyKeeps
<1>2. D \cap S \subseteq D
  OBVIOUS
<1> QED BY <1>1, <1>2, SeqMonotonic

(* The filter of a concatenation. *)
LEMMA OnlyConcat ==
  ASSUME NEW D, NEW S, NEW s \in Seq(D), NEW t \in Seq(D)
  PROVE  Only(s \o t, S) = Only(s, S) \o Only(t, S)
<1> DEFINE T == {x \in Seq(D) : Only(s \o x, S) = Only(s, S) \o Only(x, S)}
           os == Only(s, S)
<1>0. KeepsGrowing(D, S)
  BY OnlyGrows
<1>1. os \in Seq(D)
  BY OnlyTyped
<1>2. <<>> \in T
  <2>1. Only(<<>>, S) = <<>>
    BY <1>0 DEF KeepsGrowing
  <2>2. s \o <<>> = s /\ os \o <<>> = os /\ <<>> \in Seq(D)
    BY <1>1, ConcatEmptySeq
  <2> QED BY <2>1, <2>2
<1>3. ASSUME NEW x \in Seq(D), NEW d \in D, x \in T
      PROVE  Append(x, d) \in T
  <2> DEFINE ox == Only(x, S)
             sx == s \o x
  <2>1. ox \in Seq(D) /\ sx \in Seq(D) /\ s \o Append(x, d) = Append(sx, d)
    BY OnlyTyped, AppendAfter
  <2>2. Only(sx, S) = os \o ox
    BY <1>3
  <2>3. Only(Append(x, d), S) = IF d \in S THEN Append(ox, d) ELSE ox
    BY <1>0 DEF KeepsGrowing
  <2>4. Only(Append(sx, d), S) = IF d \in S THEN Append(Only(sx, S), d) ELSE Only(sx, S)
    BY <1>0, <2>1 DEF KeepsGrowing
  <2>5. Append(x, d) \in Seq(D)
    BY AppendProperties
  <2> HIDE DEF ox, sx, os
  <2>6. os \o Append(ox, d) = Append(os \o ox, d)
    BY <1>1, <2>1, AppendAfter
  <2>7. Only(s \o Append(x, d), S) = os \o Only(Append(x, d), S)
    BY <2>1, <2>2, <2>3, <2>4, <2>6
  <2> QED BY <2>5, <2>7 DEF os
<1>4. t \in T
  <2> HIDE DEF T
  <2> QED BY <1>2, <1>3, ListInduction
<1> QED BY <1>4

(* What is kept depends on which elements of the list are in the set.      *)
LEMMA OnlyAgrees ==
  ASSUME NEW D, NEW S, NEW R, NEW s \in Seq(D),
         \A d \in ToSet(s) : d \in S <=> d \in R
  PROVE  Only(s, S) = Only(s, R)
<1> DEFINE N == Len(s)
<1>1. N \in Nat /\ DOMAIN s = 1 .. N
  BY LenProperties
<1>2. PICK f : /\ f[0] = <<>>
               /\ \A n \in 1 .. N : f[n] = IF s[n] \in S THEN Append(f[n - 1], s[n]) ELSE f[n - 1]
               /\ Only(s, S) = f[N]
  BY OnlyUnfolds
<1>3. PICK g : /\ g[0] = <<>>
               /\ \A n \in 1 .. N : g[n] = IF s[n] \in R THEN Append(g[n - 1], s[n]) ELSE g[n - 1]
               /\ Only(s, R) = g[N]
  BY OnlyUnfolds
<1>4. \A n \in 1 .. N : s[n] \in S <=> s[n] \in R
  BY <1>1 DEF ToSet
<1> HIDE DEF N
<1>5. Alike(f, g, N)
  BY <1>2, <1>3, <1>4 DEF Alike
<1> QED BY <1>1, <1>2, <1>3, <1>5, GoOnAlike

(* Lists in a row, one more at a time.                                     *)
LEMMA FlattenUnfolds ==
  ASSUME NEW D, NEW seqs \in Seq(Seq(D))
  PROVE  \E f : /\ f[0] = <<>>
                /\ \A n \in 1 .. Len(seqs) : f[n] = f[n - 1] \o seqs[n]
                /\ FlattenSeq(seqs) = f[Len(seqs)]
<1> DEFINE N == Len(seqs)
           L == Seq(D)
           step == [n \in 1 .. N |-> [x \in L |-> x \o seqs[n]]]
           next(h) == [i \in 1 .. N |-> IF i = 1 THEN seqs[i] ELSE h[i - 1] \o seqs[i]]
           f == CHOOSE h : h = next(h)
<1>1. N \in Nat /\ \A n \in 1 .. N : seqs[n] \in Seq(D)
  BY LenProperties
<1>2. CASE N = 0
  <2> DEFINE e == [n \in 0 .. 0 |-> <<>>]
  <2>1. FlattenSeq(seqs) = seqs /\ seqs = <<>>
    BY <1>2 DEF FlattenSeq
  <2>2. e[0] = <<>> /\ 1 .. 0 = {}
    OBVIOUS
  <2> HIDE DEF e
  <2> QED BY <1>2, <2>1, <2>2
<1>3. CASE N # 0
  <2>1. <<>> \in L /\ step \in [1 .. N -> [L -> L]]
    <3> SUFFICES ASSUME NEW n \in 1 .. N, NEW x \in L
                 PROVE  x \o seqs[n] \in L
      OBVIOUS
    <3> QED BY <1>1, ConcatProperties
  <2>2. PICK g \in [0 .. N -> L] :
          g[0] = <<>> /\ \A n \in 1 .. N : g[n] = step[n][g[n - 1]]
    <3> HIDE DEF N, step, L
    <3>1. CanIterate(N, L, <<>>, step)
      BY <1>1, <2>1, Iteration
    <3> QED BY <3>1 DEF CanIterate, Iterates
  <2>3. \A n \in 1 .. N : n - 1 \in 0 .. N /\ g[n - 1] \in L /\ g[n] = g[n - 1] \o seqs[n]
    <3> SUFFICES ASSUME NEW n \in 1 .. N
                 PROVE  n - 1 \in 0 .. N /\ g[n - 1] \in L /\ g[n] = g[n - 1] \o seqs[n]
      OBVIOUS
    <3>1. n - 1 \in 0 .. N
      BY <1>1
    <3>2. g[n - 1] \in L
      BY <3>1
    <3> HIDE DEF L
    <3> QED BY <2>2, <3>1, <3>2
  <2>4. 1 \in 1 .. N /\ N \in 1 .. N /\ N \in 0 .. N
    BY <1>1, <1>3
  <2>5. g[1] = seqs[1]
    <3>1. 1 - 1 = 0
      OBVIOUS
    <3>2. g[1] = g[1 - 1] \o seqs[1]
      BY <2>3, <2>4
    <3>3. g[1] = <<>> \o seqs[1]
      BY <2>2, <3>1, <3>2
    <3> QED BY <1>1, <2>4, <3>3, ConcatEmptySeq
  <2> DEFINE k == [i \in 1 .. N |-> g[i]]
  <2>6. k = next(k)
    <3> SUFFICES ASSUME NEW i \in 1 .. N
                 PROVE  g[i] = IF i = 1 THEN seqs[i] ELSE k[i - 1] \o seqs[i]
      OBVIOUS
    <3>1. CASE i = 1
      BY <2>5, <3>1
    <3>2. CASE i # 1
      <4>1. i - 1 \in 1 .. N
        BY <1>1, <3>2
      <4>2. k[i - 1] = g[i - 1]
        BY <4>1
      <4> QED BY <2>3, <3>2, <4>2
    <3> QED BY <3>1, <3>2
  <2>7. f = next(f)
    <3> HIDE DEF next, k
    <3> QED BY <2>6
  <2>8. FlattenSeq(seqs) = f[N]
    BY <1>3 DEF FlattenSeq
  <2> HIDE DEF f
  <2>9. \A i \in 1 .. N : f[i] = IF i = 1 THEN seqs[i] ELSE f[i - 1] \o seqs[i]
    <3> SUFFICES ASSUME NEW i \in 1 .. N
                 PROVE  f[i] = IF i = 1 THEN seqs[i] ELSE f[i - 1] \o seqs[i]
      OBVIOUS
    <3>1. next(f)[i] = IF i = 1 THEN seqs[i] ELSE f[i - 1] \o seqs[i]
      OBVIOUS
    <3> HIDE DEF next
    <3> QED BY <2>7, <3>1
  <2> DEFINE e == [n \in 0 .. N |-> IF n = 0 THEN <<>> ELSE f[n]]
  <2>10. e[0] = <<>> /\ e[N] = f[N]
    BY <1>1, <1>3
  <2>11. ASSUME NEW n \in 1 .. N
         PROVE  e[n] = e[n - 1] \o seqs[n]
    <3>1. n \in 0 .. N /\ n - 1 \in 0 .. N /\ n # 0
      BY <1>1
    <3>2. e[n] = f[n]
      BY <3>1
    <3>3. CASE n = 1
      <4>1. e[n - 1] = <<>> /\ f[n] = seqs[n] /\ seqs[n] \in Seq(D)
        BY <1>1, <2>9, <2>10, <3>3
      <4> HIDE DEF e
      <4> QED BY <3>2, <4>1, ConcatEmptySeq
    <3>4. CASE n # 1
      <4>1. e[n - 1] = f[n - 1]
        BY <3>1, <3>4
      <4> HIDE DEF e
      <4> QED BY <2>9, <3>2, <3>4, <4>1
    <3> QED BY <3>3, <3>4
  <2> HIDE DEF e
  <2> QED BY <2>8, <2>10, <2>11
<1> QED BY <1>2, <1>3

FlatGrowing(D) ==
  /\ FlattenSeq(<<>>) = <<>>
  /\ \A ss \in Seq(Seq(D)), s \in Seq(D) : FlattenSeq(Append(ss, s)) = FlattenSeq(ss) \o s

LEMMA FlattenGrows ==
  ASSUME NEW D
  PROVE  FlatGrowing(D)
<1>1. FlattenSeq(<<>>) = <<>>
  BY DEF FlattenSeq
<1>2. ASSUME NEW ss \in Seq(Seq(D)), NEW s \in Seq(D)
      PROVE  FlattenSeq(Append(ss, s)) = FlattenSeq(ss) \o s
  <2> DEFINE L == Seq(D)
             t == Append(ss, s)
             N == Len(ss)
  <2>1. /\ N \in Nat /\ t \in Seq(L) /\ Len(t) = N + 1 /\ t[N + 1] = s
        /\ \A n \in 1 .. N : t[n] = ss[n]
    <3>1. ss \in Seq(L) /\ s \in L
      OBVIOUS
    <3> HIDE DEF L
    <3> QED BY <3>1, AppendProperties, LenProperties
  <2> HIDE DEF t
  <2>2. PICK f : /\ f[0] = <<>>
                 /\ \A n \in 1 .. N : f[n] = f[n - 1] \o ss[n]
                 /\ FlattenSeq(ss) = f[N]
    BY FlattenUnfolds
  <2>3. PICK g : /\ g[0] = <<>>
                 /\ \A n \in 1 .. Len(t) : g[n] = g[n - 1] \o t[n]
                 /\ FlattenSeq(t) = g[Len(t)]
    BY <2>1, FlattenUnfolds
  <2> HIDE DEF N
  <2>4. \A n \in 1 .. N : n \in 1 .. Len(t)
    BY <2>1
  <2>5. Alike(f, g, N)
    BY <2>1, <2>2, <2>3, <2>4 DEF Alike
  <2>6. g[N] = f[N]
    BY <2>1, <2>5, GoOnAlike
  <2>7. N + 1 \in 1 .. Len(t) /\ (N + 1) - 1 = N
    BY <2>1
  <2>8. g[N + 1] = g[N] \o s
    BY <2>1, <2>3, <2>7
  <2>9. FlattenSeq(t) = g[N + 1]
    BY <2>1, <2>3
  <2> QED BY <2>2, <2>6, <2>8, <2>9 DEF t
<1> QED BY <1>1, <1>2 DEF FlatGrowing

LEMMA FlattenTyped ==
  ASSUME NEW D, NEW seqs \in Seq(Seq(D))
  PROVE  FlattenSeq(seqs) \in Seq(D)
<1> DEFINE L == Seq(D)
           T == {ss \in Seq(L) : FlattenSeq(ss) \in Seq(D)}
<1>0. FlatGrowing(D)
  BY FlattenGrows
<1>1. <<>> \in T
  <2>1. <<>> \in Seq(D) /\ <<>> \in Seq(L)
    OBVIOUS
  <2> QED BY <1>0, <2>1 DEF FlatGrowing
<1>2. ASSUME NEW ss \in Seq(L), NEW s \in L, ss \in T
      PROVE  Append(ss, s) \in T
  <2>1. FlattenSeq(Append(ss, s)) = FlattenSeq(ss) \o s
    BY <1>0 DEF FlatGrowing
  <2>2. FlattenSeq(ss) \o s \in Seq(D)
    BY <1>2, ConcatProperties
  <2>3. Append(ss, s) \in Seq(L)
    <3> HIDE DEF L
    <3> QED BY AppendProperties
  <2> QED BY <2>1, <2>2, <2>3
<1>3. seqs \in T
  <2> HIDE DEF T, L
  <2>1. seqs \in Seq(L)
    BY DEF L
  <2> QED BY <1>1, <1>2, <2>1, ListInduction
<1> QED BY <1>3

(* Flattening a concatenation. *)
LEMMA FlattenConcat ==
  ASSUME NEW D, NEW ss \in Seq(Seq(D)), NEW tt \in Seq(Seq(D))
  PROVE  FlattenSeq(ss \o tt) = FlattenSeq(ss) \o FlattenSeq(tt)
<1> DEFINE L == Seq(D)
           fs == FlattenSeq(ss)
           T == {x \in Seq(L) : FlattenSeq(ss \o x) = fs \o FlattenSeq(x)}
<1>0. FlatGrowing(D)
  BY FlattenGrows
<1>1. fs \in Seq(D) /\ ss \in Seq(L) /\ tt \in Seq(L)
  BY FlattenTyped
<1>2. <<>> \in T
  <2>1. <<>> \in Seq(L) /\ ss \o <<>> = ss
    <3> HIDE DEF L
    <3> QED BY <1>1, ConcatEmptySeq
  <2>2. fs \o <<>> = fs
    <3> HIDE DEF fs
    <3> QED BY <1>1, ConcatEmptySeq
  <2> QED BY <1>0, <2>1, <2>2 DEF FlatGrowing
<1>3. ASSUME NEW x \in Seq(L), NEW s \in L, x \in T
      PROVE  Append(x, s) \in T
  <2> DEFINE sx == ss \o x
             fx == FlattenSeq(x)
  <2>1. Append(x, s) \in Seq(L) /\ sx \in Seq(L) /\ ss \o Append(x, s) = Append(sx, s)
    <3> HIDE DEF L
    <3> QED BY <1>1, AppendProperties, AppendAfter
  <2>2. fx \in Seq(D) /\ s \in Seq(D)
    BY FlattenTyped
  <2>3. FlattenSeq(sx) = fs \o fx
    BY <1>3
  <2>4. FlattenSeq(Append(x, s)) = fx \o s
    BY <1>0 DEF FlatGrowing
  <2>5. FlattenSeq(Append(sx, s)) = FlattenSeq(sx) \o s
    BY <1>0, <2>1 DEF FlatGrowing
  <2> HIDE DEF fx, sx, fs
  <2>6. Regroups(fs, fx, s)
    BY <1>1, <2>2, Regroup
  <2>7. FlattenSeq(ss \o Append(x, s)) = fs \o FlattenSeq(Append(x, s))
    BY <2>1, <2>3, <2>4, <2>5, <2>6 DEF Regroups
  <2> HIDE DEF L
  <2> QED BY <2>1, <2>7
<1>4. tt \in T
  <2> HIDE DEF T, L
  <2> QED BY <1>1, <1>2, <1>3, ListInduction
<1> QED BY <1>4

-----------------------------------------------------------------------------
(* A filter that nothing passes, and one that everything does. *)
LEMMA OnlyNone ==
  ASSUME NEW D, NEW S, NEW s \in Seq(D), \A d \in D : d \notin S
  PROVE  Only(s, S) = <<>>
<1> DEFINE o == Only(s, S)
<1>1. o \in Seq(D \cap S) /\ D \cap S = {}
  BY OnlyKeeps
<1> HIDE DEF o
<1>2. o \in Seq({})
  BY <1>1
<1>3. Len(o) = 0
  <2>1. Len(o) \in Nat /\ \A i \in 1 .. Len(o) : o[i] \in {}
    BY <1>2, LenProperties
  <2> QED BY <2>1
<1> QED BY <1>2, <1>3, EmptySeq DEF o

LEMMA OnlyAll ==
  ASSUME NEW D, NEW S, NEW s \in Seq(D), D \subseteq S
  PROVE  Only(s, S) = s
<1> DEFINE T == {x \in Seq(D) : Only(x, S) = x}
<1>1. KeepsGrowing(D, S)
  BY OnlyGrows
<1>2. <<>> \in T
  BY <1>1 DEF KeepsGrowing
<1>3. ASSUME NEW x \in Seq(D), NEW d \in D, x \in T
      PROVE  Append(x, d) \in T
  <2>1. Only(Append(x, d), S) = Append(Only(x, S), d)
    BY <1>1 DEF KeepsGrowing
  <2>2. Append(x, d) \in Seq(D)
    BY AppendProperties
  <2> QED BY <1>3, <2>1, <2>2
<1> HIDE DEF T
<1>4. Seq(D) \subseteq T
  BY <1>2, <1>3, ListInduction
<1> QED BY <1>4 DEF T

(* What a function makes of each element, one after the other. *)
Spreading(D, S) == [D -> Seq(S)]
Spread(s, G) == FlattenSeq(Mapped(s, G))

LEMMA SpreadConcat ==
  ASSUME NEW D, NEW S, NEW G \in Spreading(D, S), NEW s \in Seq(D), NEW t \in Seq(D)
  PROVE  /\ Spread(s, G) \in Seq(S)
         /\ Spread(s \o t, G) = Spread(s, G) \o Spread(t, G)
<1> DEFINE L == Seq(S)
           ms == Mapped(s, G)
           mt == Mapped(t, G)
<1>1. G \in [D -> L]
  BY DEF Spreading
<1> HIDE DEF L
<1>2. MapsTo(s, G, L, ms) /\ MapsTo(t, G, L, mt)
  BY <1>1, MappedList
<1>3. Mapped(s \o t, G) = ms \o mt
  <2>1. G \in Mapping(D, L)
    BY <1>1 DEF Mapping
  <2> QED BY <1>1, <2>1, MappedConcat
<1>4. ms \in Seq(L) /\ mt \in Seq(L)
  BY <1>2 DEF MapsTo
<1> HIDE DEF ms, mt
<1>5. FlattenSeq(ms) \in Seq(S) /\ FlattenSeq(ms \o mt) = FlattenSeq(ms) \o FlattenSeq(mt)
  BY <1>4, FlattenTyped, FlattenConcat DEF L
<1> QED BY <1>3, <1>5 DEF Spread, ms, mt

LEMMA SpreadGrows ==
  ASSUME NEW D, NEW S, NEW G \in [D -> Seq(S)], NEW s \in Seq(D), NEW d \in D
  PROVE  Spread(<<>>, G) = <<>> /\ Spread(Append(s, d), G) = Spread(s, G) \o G[d]
<1> DEFINE L == Seq(S)
           ms == Mapped(s, G)
           x == G[d]
<1>1. G \in [D -> L] /\ x \in L /\ FlatGrowing(S)
  BY FlattenGrows
<1> HIDE DEF L
<1>2. Mapped(<<>>, G) = <<>> /\ Mapped(Append(s, d), G) = Append(ms, x)
  BY <1>1, MappedGrows
<1>3. ms \in Seq(L)
  BY <1>1, MappedList DEF MapsTo
<1> HIDE DEF ms, x
<1> QED BY <1>1, <1>2, <1>3 DEF FlatGrowing, Spread, L, ms, x

(* Two lists filtered in step. *)
InStep(s, t, os, ot) ==
  /\ Len(os) = Len(ot)
  /\ \A k \in 1 .. Len(os) : \E i \in DOMAIN s : os[k] = s[i] /\ ot[k] = t[i]

LEMMA InStepGrows ==
  ASSUME NEW D, NEW E, NEW s, NEW t, NEW os \in Seq(D), NEW ot \in Seq(E), InStep(s, t, os, ot),
         NEW i \in DOMAIN s, s[i] \in D, t[i] \in E
  PROVE  InStep(s, t, Append(os, s[i]), Append(ot, t[i]))
<1> DEFINE n == Len(os)
           ps == Append(os, s[i])
           pt == Append(ot, t[i])
<1>1. n \in Nat /\ Len(ot) = n
  BY LenProperties DEF InStep
<1>2. /\ Len(ps) = n + 1 /\ ps[n + 1] = s[i] /\ \A k \in 1 .. n : ps[k] = os[k]
      /\ Len(pt) = n + 1 /\ pt[n + 1] = t[i] /\ \A k \in 1 .. n : pt[k] = ot[k]
  BY <1>1, AppendProperties
<1> HIDE DEF n, ps, pt
<1>3. ASSUME NEW k \in 1 .. n + 1
      PROVE  \E j \in DOMAIN s : ps[k] = s[j] /\ pt[k] = t[j]
  <2>1. CASE k = n + 1
    BY <1>2, <2>1
  <2>2. CASE k \in 1 .. n
    <3>1. PICK j \in DOMAIN s : os[k] = s[j] /\ ot[k] = t[j]
      BY <2>2 DEF InStep, n
    <3> QED BY <1>2, <2>2, <3>1
  <2> QED BY <1>1, <2>1, <2>2
<1> QED BY <1>2, <1>3 DEF InStep, ps, pt

LEMMA OnlyInStep ==
  ASSUME NEW D, NEW E, NEW s \in Seq(D), NEW t \in Seq(E), DOMAIN t = DOMAIN s,
         NEW S, NEW T, \A i \in DOMAIN s : s[i] \in S <=> t[i] \in T
  PROVE  InStep(s, t, Only(s, S), Only(t, T))
<1> DEFINE N == Len(s)
<1>1. /\ N \in Nat /\ DOMAIN s = 1 .. N /\ Len(t) = N
      /\ \A i \in 1 .. N : s[i] \in D /\ t[i] \in E
  <2>1. N \in Nat /\ DOMAIN s = 1 .. N /\ \A i \in 1 .. N : s[i] \in D
    BY LenProperties
  <2>2. Len(t) \in Nat /\ DOMAIN t = 1 .. Len(t) /\ \A i \in 1 .. Len(t) : t[i] \in E
    BY LenProperties
  <2>3. Len(t) = N
    BY <2>1, <2>2
  <2> QED BY <2>1, <2>2, <2>3
<1>2. PICK f : /\ f[0] = <<>>
               /\ \A n \in 1 .. N :
                    f[n] = IF s[n] \in S THEN Append(f[n - 1], s[n]) ELSE f[n - 1]
               /\ Only(s, S) = f[N]
  BY OnlyUnfolds
<1>0. PICK g : /\ g[0] = <<>>
               /\ \A n \in 1 .. Len(t) :
                    g[n] = IF t[n] \in T THEN Append(g[n - 1], t[n]) ELSE g[n - 1]
               /\ Only(t, T) = g[Len(t)]
  BY OnlyUnfolds
<1>3. /\ g[0] = <<>>
      /\ \A n \in 1 .. N :
           g[n] = IF t[n] \in T THEN Append(g[n - 1], t[n]) ELSE g[n - 1]
      /\ Only(t, T) = g[N]
  BY <1>0, <1>1
<1> HIDE DEF N
<1> DEFINE Good(n) == f[n] \in Seq(D) /\ g[n] \in Seq(E) /\ InStep(s, t, f[n], g[n])
           K == {n \in Nat : n <= N => Good(n)}
<1>4. 0 \in K
  <2> DEFINE e == <<>>
  <2>1. e \in Seq(D) /\ e \in Seq(E) /\ Len(e) = 0
    OBVIOUS
  <2> HIDE DEF e
  <2>2. InStep(s, t, e, e)
    BY <2>1 DEF InStep
  <2> QED BY <1>2, <1>3, <2>1, <2>2 DEF e
<1>5. ASSUME NEW n \in Nat, n \in K
      PROVE  n + 1 \in K
  <2> SUFFICES ASSUME n + 1 <= N
               PROVE  Good(n + 1)
    OBVIOUS
  <2> DEFINE i == n + 1
  <2>1. i \in 1 .. N /\ Good(n) /\ i - 1 = n
    BY <1>1, <1>5
  <2>2. /\ f[i] = IF s[i] \in S THEN Append(f[n], s[i]) ELSE f[n]
        /\ g[i] = IF t[i] \in T THEN Append(g[n], t[i]) ELSE g[n]
        /\ s[i] \in D /\ t[i] \in E /\ i \in DOMAIN s /\ (s[i] \in S <=> t[i] \in T)
    BY <1>1, <1>2, <1>3, <2>1
  <2> HIDE DEF i
  <2>3. CASE s[i] \in S
    <3>1. InStep(s, t, Append(f[n], s[i]), Append(g[n], t[i]))
      BY <2>1, <2>2, InStepGrows
    <3>2. Append(f[n], s[i]) \in Seq(D) /\ Append(g[n], t[i]) \in Seq(E)
      BY <2>1, <2>2, AppendProperties
    <3> QED BY <2>2, <2>3, <3>1, <3>2 DEF i
  <2>4. CASE s[i] \notin S
    BY <2>1, <2>2, <2>4 DEF i
  <2> QED BY <2>3, <2>4
<1> HIDE DEF K
<1>6. Nat \subseteq K
  BY <1>4, <1>5, Induction
<1>7. Good(N)
  BY <1>1, <1>6 DEF K
<1> QED BY <1>2, <1>3, <1>7
=============================================================================
