------------------------ MODULE SessionHistory_proofs -----------------------
(***************************************************************************)
(* The properties of a session's history, for every value of the           *)
(* constants: its graph stays valid through operations, drains, forks and  *)
(* restarts, its events repeat it, a request has the call of each result   *)
(* it shows, and a drain leaves less to send.                              *)
(*                                                                         *)
(* The invariant is HistoryOK, of the graph and of the one a fork returned.*)
(* The lineage, the replay and the walk back of a watermark are recursive  *)
(* functions; what they return is found by the first place where it would  *)
(* be something else (Smallest).                                           *)
(***************************************************************************)
EXTENDS SessionHistory, FiniteSetTheorems, WellFoundedInduction, TLAPS

-----------------------------------------------------------------------------
(* Numbers and lists *)

HasMinimal(R, S) == \E x \in S : \A y \in S : ~ (<<y, x>> \in R)

LEMMA Minimal ==
  ASSUME NEW R, NEW N, IsWellFoundedOn(R, N), NEW S, S \subseteq N, S # {}
  PROVE  HasMinimal(R, S)
  BY WFMin DEF HasMinimal

LEMMA SmallestBy ==
  ASSUME NEW R, NEW S, HasMinimal(R, S), S \subseteq Int,
         \A m, n \in S : m < n => <<m, n>> \in R
  PROVE  \E n \in S : \A m \in S : n <= m
<1>1. PICK x \in S : \A y \in S : ~ (<<y, x>> \in R)
  BY DEF HasMinimal
<1>2. ASSUME NEW y \in S PROVE x <= y
  <2>1. x \in Int /\ y \in Int
    OBVIOUS
  <2>2. ~ (y < x)
    BY <1>1
  <2> QED  BY <2>1, <2>2
<1> QED  BY <1>2

\* Every set of numbers has a least element.
LEMMA Smallest ==
  ASSUME NEW S, S \subseteq Nat, S # {}
  PROVE  \E n \in S : \A m \in S : n <= m
<1> DEFINE R == OpToRel(<, Nat)
           N == Nat
<1>0. S \subseteq N /\ S \subseteq Int
  OBVIOUS
<1>1. IsWellFoundedOn(R, N)
  BY NatLessThanWellFounded
<1>2. \A m, n \in S : m < n => <<m, n>> \in R
  BY DEF OpToRel
<1> HIDE DEF R, N
<1>3. HasMinimal(R, S)
  BY <1>0, <1>1, Minimal
<1> QED  BY <1>0, <1>2, <1>3, SmallestBy

\* A set of numbers below a bound has a largest.
LEMMA MaxIs ==
  ASSUME NEW N \in Nat, NEW S, S \subseteq 0..N, S # {}
  PROVE  Max(S) \in S /\ \A n \in S : n <= Max(S)
<1>0. \A n \in S : n \in Nat /\ n \in Int /\ n <= N
  OBVIOUS
<1> DEFINE D == {N - n : n \in S}
<1>1. D \subseteq Nat /\ D # {}
  <2>1. \A n \in S : N - n \in Nat
    BY <1>0
  <2> QED  BY <2>1
<1>2. PICK d \in D : \A e \in D : d <= e
  BY <1>1, Smallest
<1>3. PICK x \in S : d = N - x
  BY <1>2
<1>4. ASSUME NEW n \in S PROVE x >= n
  <2>1. d <= N - n
    BY <1>2
  <2>2. n \in Nat /\ x \in Nat
    BY <1>0
  <2> QED  BY <1>3, <2>1, <2>2
<1> HIDE DEF D
<1>5. \E y \in S : \A n \in S : y >= n
  BY <1>4
<1>6. Max(S) \in S /\ \A n \in S : Max(S) >= n
  BY <1>5 DEF Max
<1> QED  BY <1>0, <1>6

-----------------------------------------------------------------------------
(* Replaying a list of events *)

\* The graphs a replay of the first k of the events goes through.
Course(f, start, es, k, making) ==
  f = [i \in 0..k |-> IF i = 0 THEN start ELSE Replayed(f[i - 1], es[i], making)]

LEMMA CourseSteps ==
  ASSUME NEW f, NEW start, NEW es, NEW k \in Nat, NEW making,
         f = [i \in 0..k |-> f[i]], f[0] = start,
         \A i \in 1..k : f[i] = Replayed(f[i - 1], es[i], making)
  PROVE  Course(f, start, es, k, making)
<1>1. ASSUME NEW i \in 0..k
      PROVE  f[i] = IF i = 0 THEN start ELSE Replayed(f[i - 1], es[i], making)
  <2>1. CASE i = 0
    BY <2>1
  <2>2. CASE i # 0
    <3>1. i \in 1..k
      BY <2>2
    <3> QED  BY <2>2, <3>1
  <2> QED  BY <2>1, <2>2
<1>2. f = [i \in 0..k |-> IF i = 0 THEN start ELSE Replayed(f[i - 1], es[i], making)]
  BY <1>1
<1> QED  BY <1>2 DEF Course

LEMMA CourseExists ==
  ASSUME NEW start, NEW es, NEW k \in Nat, NEW making
  PROVE  \E f : Course(f, start, es, k, making)
<1> DEFINE Bad == {n \in Nat : ~ \E f : Course(f, start, es, n, making)}
<1> SUFFICES ASSUME Bad # {} PROVE FALSE
  OBVIOUS
<1>1. PICK n \in Bad : \A m \in Bad : n <= m
  BY Smallest
<1>2. CASE n = 0
  <2> DEFINE f == [i \in 0..n |-> start]
  <2>1. Course(f, start, es, n, making)
    BY <1>2 DEF Course
  <2> HIDE DEF f
  <2> QED  BY <2>1
<1>3. CASE n # 0
  <2>1. n - 1 \in Nat /\ n - 1 \notin Bad
    BY <1>1, <1>3
  <2>2. PICK p : Course(p, start, es, n - 1, making)
    BY <2>1
  <2> DEFINE f == [i \in 0..n |-> IF i = n THEN Replayed(p[n - 1], es[n], making) ELSE p[i]]
  <2>3. Course(f, start, es, n, making)
    <3>1. ASSUME NEW i \in 0..n
          PROVE  f[i] = IF i = 0 THEN start ELSE Replayed(f[i - 1], es[i], making)
      BY <2>1, <2>2, <1>3 DEF Course
    <3> QED  BY <3>1 DEF Course
  <2> HIDE DEF f
  <2> QED  BY <2>3
<1> QED  BY <1>2, <1>3

LEMMA CourseUnique ==
  ASSUME NEW start, NEW es, NEW k \in Nat, NEW making, NEW p, NEW f,
         Course(p, start, es, k, making), Course(f, start, es, k, making)
  PROVE  p[k] = f[k]
<1> DEFINE Bad == {i \in 0..k : p[i] # f[i]}
<1> SUFFICES ASSUME Bad # {} PROVE FALSE
  OBVIOUS
<1>1. PICK n \in Bad : \A m \in Bad : n <= m
  <2>1. Bad \subseteq Nat
    OBVIOUS
  <2> QED  BY <2>1, Smallest
<1>2. n \in Nat /\ n <= k /\ p[n] # f[n]
  OBVIOUS
<1>3. CASE n = 0
  BY <1>2, <1>3 DEF Course
<1>4. CASE n # 0
  <2>1. n - 1 \in 0..k /\ n - 1 \notin Bad
    BY <1>1, <1>2, <1>4
  <2>2. p[n - 1] = f[n - 1]
    BY <2>1
  <2>3. /\ p[n] = Replayed(p[n - 1], es[n], making)
        /\ f[n] = Replayed(f[n - 1], es[n], making)
    BY <1>2, <1>4 DEF Course
  <2> QED  BY <1>2, <2>2, <2>3
<1> QED  BY <1>3, <1>4

\* The replay ends where any course of it ends.
LEMMA RebuiltIs ==
  ASSUME NEW start, NEW es, Len(es) \in Nat, NEW making, NEW f,
         Course(f, start, es, Len(es), making)
  PROVE  Rebuilt(start, es, making) = f[Len(es)]
<1> DEFINE p == CHOOSE p : Course(p, start, es, Len(es), making)
<1>1. Course(p, start, es, Len(es), making)
  OBVIOUS
<1>2. Rebuilt(start, es, making) = p[Len(es)]
  BY DEF Rebuilt, Course
<1> HIDE DEF p
<1> QED  BY <1>1, <1>2, CourseUnique

IsList(es) == es \in Seq({es[i] : i \in DOMAIN es})

\* One event more.
LEMMA ListMore ==
  ASSUME NEW es, IsList(es), NEW e
  PROVE  /\ IsList(Append(es, e)) /\ Len(es) \in Nat
         /\ Len(Append(es, e)) = Len(es) + 1
         /\ Append(es, e)[Len(es) + 1] = e
         /\ \A i \in 1..Len(es) : Append(es, e)[i] = es[i]
<1> DEFINE S == {es[i] : i \in DOMAIN es} \cup {e}
<1>1. es \in Seq(S)
  BY DEF IsList
<1> HIDE DEF S
<1> DEFINE t == Append(es, e)
<1>2. /\ t \in Seq(S) /\ Len(es) \in Nat /\ Len(t) = Len(es) + 1
      /\ t[Len(es) + 1] = e /\ \A i \in 1..Len(es) : t[i] = es[i]
  <2>1. e \in S
    BY DEF S
  <2> QED  BY <1>1, <2>1
<1> HIDE DEF t
<1>3. \A i \in DOMAIN t : t[i] \in {t[j] : j \in DOMAIN t}
  OBVIOUS
<1> DEFINE R == {t[j] : j \in DOMAIN t}
<1>4. DOMAIN t = 1..Len(t) /\ Len(t) \in Nat /\ t = [i \in 1..Len(t) |-> t[i]]
  BY <1>2
<1> HIDE DEF R
<1>5. t \in Seq(R)
  <2>1. \A i \in 1..Len(t) : t[i] \in R
    BY <1>3, <1>4 DEF R
  <2> QED  BY <1>4, <2>1
<1> QED  BY <1>2, <1>5 DEF IsList, R, t

\* The replay of one event more is one step more.
LEMMA RebuiltMore ==
  ASSUME NEW start, NEW es, IsList(es), NEW e, NEW making
  PROVE  Rebuilt(start, Append(es, e), making) = Replayed(Rebuilt(start, es, making), e, making)
<1> DEFINE t == Append(es, e)
           n == Len(es)
<1>1. /\ IsList(t) /\ n \in Nat /\ Len(t) = n + 1 /\ t[n + 1] = e
      /\ \A i \in 1..n : t[i] = es[i]
  BY ListMore
<1> HIDE DEF t
<1>2. PICK p : Course(p, start, es, n, making)
  BY <1>1, CourseExists
<1>3. Rebuilt(start, es, making) = p[n]
  BY <1>1, <1>2, RebuiltIs
<1> DEFINE f == [i \in 0..n + 1 |-> IF i = n + 1 THEN Replayed(p[n], e, making) ELSE p[i]]
<1>4. f = [i \in 0..n + 1 |-> f[i]] /\ f[0] = start
  BY <1>1, <1>2 DEF Course
<1>5. ASSUME NEW i \in 1..n + 1
      PROVE  f[i] = Replayed(f[i - 1], t[i], making)
  <2>1. CASE i = n + 1
    BY <1>1, <2>1
  <2>2. CASE i # n + 1
    <3>1. i \in 1..n /\ i - 1 \in 0..n /\ i \in 0..n
      BY <1>1, <2>2
    <3>2. p[i] = Replayed(p[i - 1], es[i], making)
      BY <1>2, <3>1 DEF Course
    <3> QED  BY <1>1, <3>1, <3>2
  <2> QED  BY <2>1, <2>2
<1>6. f[n + 1] = Replayed(p[n], e, making) /\ n + 1 \in Nat
  BY <1>1
<1> HIDE DEF f, n
<1>7. Course(f, start, t, n + 1, making)
  <2> DEFINE k == n + 1
  <2>1. k \in Nat /\ f = [i \in 0..k |-> f[i]] /\ f[0] = start
        /\ \A i \in 1..k : f[i] = Replayed(f[i - 1], t[i], making)
    BY <1>4, <1>5, <1>6
  <2> HIDE DEF k
  <2>2. Course(f, start, t, k, making)
    BY <2>1, CourseSteps
  <2> QED  BY <2>2 DEF k
<1>8. Rebuilt(start, t, making) = f[n + 1]
  BY <1>1, <1>7, RebuiltIs
<1> QED  BY <1>3, <1>6, <1>8 DEF t

-----------------------------------------------------------------------------
(* Parts of a list *)

\* The rank of a place among the places in P: 1 for the first, and so on.
Rank(P, n) == Cardinality({m \in P : m <= n})

Ranked(P) ==
  /\ Cardinality(P) \in Nat
  /\ \A n \in P : Rank(P, n) \in 1..Cardinality(P)
  /\ \A i \in 1..Cardinality(P) : \E n \in P : Rank(P, n) = i
  /\ \A m, n \in P : Rank(P, m) = Rank(P, n) => m = n
  /\ \A m, n \in P : m < n => Rank(P, m) < Rank(P, n)

\* Each of the ranks from 1 to the number of places belongs to one place.
LEMMA Ranks ==
  ASSUME NEW N \in Nat, NEW P \in SUBSET (1..N)
  PROVE  Ranked(P)
<1>1. IsFiniteSet(P) /\ Cardinality(P) \in Nat
  <2>1. IsFiniteSet(1..N)
    BY FS_Interval
  <2>2. IsFiniteSet(P)
    BY <2>1, FS_Subset
  <2> QED  BY <2>2, FS_CardinalityType
<1> DEFINE upto(n) == {m \in P : m <= n}
<1>2. ASSUME NEW n \in P
      PROVE  /\ IsFiniteSet(upto(n))
             /\ Rank(P, n) \in 1..Cardinality(P)
  <2>1. /\ IsFiniteSet(upto(n)) /\ Cardinality(upto(n)) <= Cardinality(P)
        /\ Cardinality(upto(n)) \in Nat
    BY <1>1, FS_Subset, FS_CardinalityType
  <2>2. n \in upto(n)
    OBVIOUS
  <2>3. Cardinality(upto(n)) # 0
    BY <2>1, <2>2, FS_EmptySet
  <2> QED  BY <1>1, <2>1, <2>3 DEF Rank
<1>3. ASSUME NEW m \in P, NEW n \in P, m < n
      PROVE  Rank(P, m) < Rank(P, n)
  <2>1. upto(m) \in SUBSET upto(n) /\ n \in upto(n) /\ n \notin upto(m)
    <3>1. P \subseteq Int /\ m \in Int /\ n \in Int
      OBVIOUS
    <3>2. \A x \in P : x <= m => x <= n
      BY <1>3, <3>1
    <3>3. n <= n /\ ~(n <= m)
      BY <1>3, <3>1
    <3> QED  BY <3>2, <3>3
  <2>2. IsFiniteSet(upto(n)) /\ IsFiniteSet(upto(m))
    BY <1>2
  <2> DEFINE A == upto(m)
             B == upto(n)
  <2>3. Cardinality(A) <= Cardinality(B) /\ Cardinality(A) # Cardinality(B)
    <3>1. A \in SUBSET B /\ A # B /\ IsFiniteSet(B)
      BY <2>1, <2>2
    <3> HIDE DEF A, B
    <3> QED  BY <3>1, FS_Subset
  <2>4. Cardinality(upto(m)) \in Nat /\ Cardinality(upto(n)) \in Nat
    BY <2>2, FS_CardinalityType
  <2>5. Rank(P, m) = Cardinality(upto(m)) /\ Rank(P, n) = Cardinality(upto(n))
    BY DEF Rank
  <2> HIDE DEF upto
  <2> QED  BY <2>3, <2>4, <2>5
<1>4. \A m, n \in P : Rank(P, m) = Rank(P, n) => m = n
  <2> SUFFICES ASSUME NEW m \in P, NEW n \in P, Rank(P, m) = Rank(P, n), m # n PROVE FALSE
    OBVIOUS
  <2>1. m < n \/ n < m
    OBVIOUS
  <2>2. Rank(P, m) \in 1..Cardinality(P) /\ Rank(P, n) \in 1..Cardinality(P)
    BY <1>2
  <2> QED  BY <1>1, <1>3, <2>1, <2>2
<1> DEFINE rank == [n \in P |-> Rank(P, n)]
           R == 1..Cardinality(P)
<1>5. rank \in Injection(P, R)
  BY <1>2, <1>4 DEF Injection, IsInjective
<1>6. IsFiniteSet(R) /\ Cardinality(R) = Cardinality(P)
  BY <1>1, FS_Interval
<1>7. rank \in Surjection(P, R)
  BY <1>5, <1>6, FS_Injection
<1>8. \A i \in R : \E n \in P : Rank(P, n) = i
  BY <1>7 DEF Surjection
<1> QED  BY <1>1, <1>2, <1>3, <1>4, <1>8 DEF Ranked

\* A list of picked elements has them at the places in P, in their order.
PicksInOrder(s, P) ==
  \E at \in [1..Cardinality(P) -> P] :
    /\ \A i \in 1..Cardinality(P) : Picked(s, P)[i] = s[at[i]]
    /\ \A n \in P : \E i \in 1..Cardinality(P) : at[i] = n
    /\ \A i, j \in 1..Cardinality(P) : i < j => at[i] < at[j]

LEMMA PickedAt ==
  ASSUME NEW s \in Seq(Nat), NEW P \in SUBSET DOMAIN s
  PROVE  Picked(s, P) \in Seq(Nat) /\ Len(Picked(s, P)) = Cardinality(P) /\ PicksInOrder(s, P)
<1>1. Len(s) \in Nat /\ P \in SUBSET (1..Len(s))
  OBVIOUS
<1>r. Ranked(P)
  BY <1>1, Ranks
<1>2. /\ Cardinality(P) \in Nat
      /\ \A n \in P : Rank(P, n) \in 1..Cardinality(P)
      /\ \A i \in 1..Cardinality(P) : \E n \in P : Rank(P, n) = i
      /\ \A m, n \in P : Rank(P, m) = Rank(P, n) => m = n
      /\ \A m, n \in P : m < n => Rank(P, m) < Rank(P, n)
  BY <1>r DEF Ranked
<1> DEFINE at == [i \in 1..Cardinality(P) |-> CHOOSE n \in P : Rank(P, n) = i]
<1>3. Picked(s, P) = [i \in 1..Cardinality(P) |-> s[at[i]]]
  BY DEF Picked, Rank
<1>4. \A i \in 1..Cardinality(P) : at[i] \in P /\ Rank(P, at[i]) = i
  BY <1>2
<1>a. at \in [1..Cardinality(P) -> P]
  BY <1>4
<1> HIDE DEF at
<1>5. \A i \in 1..Cardinality(P) : Picked(s, P)[i] = s[at[i]]
  BY <1>3
<1>6. DOMAIN Picked(s, P) = 1..Cardinality(P)
  BY <1>3
<1>7. Picked(s, P) \in Seq(Nat) /\ Len(Picked(s, P)) = Cardinality(P)
  <2> DEFINE t == Picked(s, P)
             N == Cardinality(P)
  <2>1. \A i \in 1..N : s[at[i]] \in Nat
    BY <1>4
  <2>2. N \in Nat /\ t = [i \in 1..N |-> s[at[i]]]
    BY <1>2, <1>3
  <2> HIDE DEF t, N
  <2>3. t \in Seq(Nat) /\ Len(t) = N
    BY <2>1, <2>2
  <2> QED  BY <2>3 DEF t, N
<1>8. ASSUME NEW n \in P PROVE \E i \in 1..Cardinality(P) : at[i] = n
  BY <1>2, <1>4
<1>9. ASSUME NEW i \in 1..Cardinality(P), NEW j \in 1..Cardinality(P), i < j
      PROVE  at[i] < at[j]
  <2>1. /\ at[i] \in P /\ at[j] \in P /\ Rank(P, at[i]) = i /\ Rank(P, at[j]) = j
        /\ i \in Nat /\ j \in Nat /\ at[i] \in Nat /\ at[j] \in Nat
    BY <1>1, <1>2, <1>4
  <2>2. at[i] # at[j]
    BY <1>9, <2>1
  <2>3. ~(at[j] < at[i])
    BY <1>2, <1>9, <2>1
  <2> QED  BY <2>1, <2>2, <2>3
<1> QED  BY <1>a, <1>5, <1>7, <1>8, <1>9 DEF PicksInOrder


\* s has the numbers in S, the smallest first.
Ascends(s, S) ==
  /\ s \in Seq(Nat)
  /\ \A i, j \in DOMAIN s : i < j => s[i] < s[j]
  /\ \A i \in DOMAIN s : s[i] \in S
  /\ \A n \in S : \E i \in DOMAIN s : s[i] = n

LEMMA AscendsEmpty == Ascends(<< >>, {})
  BY DEF Ascends

LEMMA AscendsMore ==
  ASSUME NEW s, NEW S, Ascends(s, S), NEW n \in Nat, \A m \in S : m < n
  PROVE  Ascends(Append(s, n), S \cup {n})
<1> DEFINE t == Append(s, n)
<1>1. /\ s \in Seq(Nat) /\ Len(s) \in Nat /\ DOMAIN s = 1..Len(s)
      /\ t \in Seq(Nat) /\ Len(t) = Len(s) + 1 /\ DOMAIN t = 1..Len(s) + 1
      /\ t[Len(s) + 1] = n /\ \A i \in 1..Len(s) : t[i] = s[i]
  BY DEF Ascends
<1> HIDE DEF t
<1>2. ASSUME NEW i \in DOMAIN t, NEW j \in DOMAIN t, i < j
      PROVE  t[i] < t[j]
  <2>1. i \in DOMAIN s /\ t[i] = s[i] /\ s[i] \in S
    BY <1>1, <1>2 DEF Ascends
  <2>2. CASE j = Len(s) + 1
    BY <1>1, <2>1, <2>2
  <2>3. CASE j # Len(s) + 1
    <3>1. j \in DOMAIN s /\ t[j] = s[j]
      BY <1>1, <2>3
    <3>2. s[i] < s[j]
      BY <1>2, <2>1, <3>1 DEF Ascends
    <3> QED  BY <2>1, <3>1, <3>2
  <2> QED  BY <2>2, <2>3
<1>3. ASSUME NEW i \in DOMAIN t PROVE t[i] \in S \cup {n}
  BY <1>1 DEF Ascends
<1>4. ASSUME NEW m \in S \cup {n} PROVE \E i \in DOMAIN t : t[i] = m
  <2>1. CASE m = n
    BY <1>1, <2>1
  <2>2. CASE m # n
    BY <1>1, <2>2 DEF Ascends
  <2> QED  BY <2>1, <2>2
<1> QED  BY <1>1, <1>2, <1>3, <1>4 DEF Ascends, t

LEMMA PickedAscends ==
  ASSUME NEW s, NEW S, Ascends(s, S), NEW P \in SUBSET DOMAIN s
  PROVE  Ascends(Picked(s, P), {s[i] : i \in P})
<1> DEFINE t == Picked(s, P)
           N == Cardinality(P)
<1>1. s \in Seq(Nat)
  BY DEF Ascends
<1>2. /\ t \in Seq(Nat) /\ Len(t) = N
      /\ \E at \in [1..N -> P] :
           /\ \A i \in 1..N : t[i] = s[at[i]]
           /\ \A n \in P : \E i \in 1..N : at[i] = n
           /\ \A i, j \in 1..N : i < j => at[i] < at[j]
  BY <1>1, PickedAt DEF PicksInOrder
<1> HIDE DEF t, N
<1>3. PICK at \in [1..N -> P] :
           /\ \A i \in 1..N : t[i] = s[at[i]]
           /\ \A n \in P : \E i \in 1..N : at[i] = n
           /\ \A i, j \in 1..N : i < j => at[i] < at[j]
  BY <1>2
<1>4. DOMAIN t = 1..N /\ N \in Nat /\ DOMAIN s = 1..Len(s) /\ Len(s) \in Nat
  BY <1>1, <1>2
<1>5. ASSUME NEW i \in DOMAIN t, NEW j \in DOMAIN t, i < j
      PROVE  t[i] < t[j]
  <2>1. at[i] \in DOMAIN s /\ at[j] \in DOMAIN s /\ t[i] = s[at[i]] /\ t[j] = s[at[j]]
    BY <1>3, <1>4
  <2>2. at[i] < at[j]
    BY <1>3, <1>4, <1>5
  <2> QED  BY <2>1, <2>2 DEF Ascends
<1>6. ASSUME NEW i \in DOMAIN t PROVE t[i] \in {s[m] : m \in P}
  BY <1>3, <1>4
<1>7. ASSUME NEW n \in {s[m] : m \in P} PROVE \E i \in DOMAIN t : t[i] = n
  BY <1>3, <1>4
<1> QED  BY <1>2, <1>5, <1>6, <1>7 DEF Ascends, t

-----------------------------------------------------------------------------
(* The lineage of the primary branch *)

\* The walks to the root from the nodes in D, none of them from a node whose
\* parent is not in D.
Climbs(up, h, D) ==
  up = [n \in D |-> IF h.nodes[n].parent = None THEN <<n>>
                    ELSE Append(up[h.nodes[n].parent], n)]

Downward(h) ==
  /\ DOMAIN h.nodes \subseteq Nat
  /\ \A n \in DOMAIN h.nodes : h.nodes[n].parent # None =>
        h.nodes[n].parent \in DOMAIN h.nodes /\ h.nodes[n].parent < n

UpTo(h, k) == {n \in DOMAIN h.nodes : n <= k}

LEMMA ClimbsExist ==
  ASSUME NEW h, Downward(h), NEW k \in Nat
  PROVE  \E up : Climbs(up, h, UpTo(h, k))
<1> DEFINE Bad == {n \in Nat : ~ \E up : Climbs(up, h, UpTo(h, n))}
<1> SUFFICES ASSUME Bad # {} PROVE FALSE
  OBVIOUS
<1>1. PICK n \in Bad : \A m \in Bad : n <= m
  BY Smallest
<1>2. DOMAIN h.nodes \subseteq Nat
  BY DEF Downward
<1>3. \E p : Climbs(p, h, UpTo(h, n) \ {n})
  <2>1. CASE n = 0
    <3>1. UpTo(h, n) \ {n} = {}
      BY <1>2, <2>1 DEF UpTo
    <3> DEFINE p == [x \in {} |-> x]
    <3>2. Climbs(p, h, {})
      BY DEF Climbs
    <3> HIDE DEF p
    <3> QED  BY <3>1, <3>2
  <2>2. CASE n # 0
    <3>1. n - 1 \in Nat /\ n - 1 \notin Bad
      BY <1>1, <2>2
    <3>2. UpTo(h, n - 1) = UpTo(h, n) \ {n}
      BY <1>2, <2>2 DEF UpTo
    <3> QED  BY <3>1, <3>2
  <2> QED  BY <2>1, <2>2
<1>4. PICK p : Climbs(p, h, UpTo(h, n) \ {n})
  BY <1>3
<1> DEFINE D == UpTo(h, n)
           up == [x \in D |-> IF h.nodes[x].parent = None THEN <<x>>
                              ELSE Append(p[h.nodes[x].parent], x)]
<1>5. ASSUME NEW x \in D, h.nodes[x].parent # None
      PROVE  p[h.nodes[x].parent] = up[h.nodes[x].parent]
  <2> DEFINE y == h.nodes[x].parent
  <2>1. y \in DOMAIN h.nodes /\ y < x /\ x \in Nat /\ y \in Nat /\ x <= n /\ n \in Nat
    BY <1>2, <1>5 DEF Downward, UpTo
  <2>2. y \in D \ {n}
    BY <2>1 DEF UpTo
  <2> HIDE DEF y
  <2>3. p[y] = IF h.nodes[y].parent = None THEN <<y>> ELSE Append(p[h.nodes[y].parent], y)
    BY <1>4, <2>2 DEF Climbs
  <2>4. up[y] = IF h.nodes[y].parent = None THEN <<y>> ELSE Append(p[h.nodes[y].parent], y)
    BY <2>2
  <2> QED  BY <2>3, <2>4 DEF y
<1>6. up = [x \in D |-> IF h.nodes[x].parent = None THEN <<x>>
                        ELSE Append(up[h.nodes[x].parent], x)]
  <2>1. ASSUME NEW x \in D
        PROVE  up[x] = IF h.nodes[x].parent = None THEN <<x>>
                       ELSE Append(up[h.nodes[x].parent], x)
    BY <1>5
  <2> HIDE DEF D
  <2> QED  BY <2>1
<1>7. Climbs(up, h, D)
  BY <1>6 DEF Climbs
<1> HIDE DEF up
<1> QED  BY <1>7 DEF D

\* The nodes of the primary branch are a chain, from the first to the head.
Lined(h) ==
  /\ \/ OnPrimary(h) = {} /\ h.branches[h.primary].head = None
     \/ /\ h.branches[h.primary].head \in OnPrimary(h)
        /\ h.branches[h.primary].head # None
        /\ \A n \in OnPrimary(h) : n <= h.branches[h.primary].head
  /\ \A n \in OnPrimary(h) :
        \/ h.nodes[n].parent = None /\ \A m \in OnPrimary(h) : n <= m
        \/ /\ h.nodes[n].parent # None
           /\ h.nodes[n].parent \in OnPrimary(h) /\ h.nodes[n].parent < n
           /\ \A m \in OnPrimary(h) : m <= h.nodes[n].parent \/ n <= m

\* The walk up from a node of the primary branch.
LEMMA ClimbAscends ==
  ASSUME NEW h, Downward(h), Lined(h), NEW up, Climbs(up, h, DOMAIN h.nodes),
         NEW n \in OnPrimary(h)
  PROVE  Ascends(up[n], {m \in OnPrimary(h) : m <= n})
<1> DEFINE P == OnPrimary(h)
           Bad == {x \in P : ~Ascends(up[x], {m \in P : m <= x})}
<1> SUFFICES ASSUME Bad # {} PROVE FALSE
  OBVIOUS
<1>1. P \subseteq DOMAIN h.nodes /\ P \subseteq Nat
  BY DEF OnPrimary, Downward
<1>2. PICK x \in Bad : \A y \in Bad : x <= y
  <2>1. Bad \subseteq Nat
    BY <1>1
  <2> QED  BY <2>1, Smallest
<1>3. x \in P /\ x \in Nat /\ ~Ascends(up[x], {m \in P : m <= x})
  BY <1>1
<1>4. CASE h.nodes[x].parent = None
  <2>1. up[x] = <<x>>
    BY <1>1, <1>3, <1>4 DEF Climbs
  <2>2. \A m \in P : x <= m
    BY <1>3, <1>4 DEF Lined
  <2>3. {m \in P : m <= x} = {x}
    BY <1>1, <1>3, <2>2
  <2>4. Ascends(<<x>>, {x})
    BY <1>3 DEF Ascends
  <2> QED  BY <1>3, <2>1, <2>3, <2>4
<1>5. CASE h.nodes[x].parent # None
  <2> DEFINE y == h.nodes[x].parent
  <2>1. y \in P /\ y < x /\ \A m \in P : m <= y \/ x <= m
    BY <1>3, <1>5 DEF Lined
  <2>2. up[x] = Append(up[y], x)
    BY <1>1, <1>3, <1>5 DEF Climbs
  <2> HIDE DEF y
  <2> DEFINE S == {m \in P : m <= y}
  <2>3. Ascends(up[y], S)
    BY <1>1, <1>2, <1>3, <2>1
  <2>4. {m \in P : m <= x} = S \cup {x}
    BY <1>1, <1>3, <2>1
  <2>5. \A m \in S : m < x
    BY <1>1, <1>3, <2>1
  <2> HIDE DEF S
  <2>6. Ascends(Append(up[y], x), S \cup {x})
    BY <1>3, <2>3, <2>5, AscendsMore
  <2> QED  BY <1>3, <2>2, <2>4, <2>6
<1> QED  BY <1>4, <1>5

\* The lineage has the nodes of the primary branch, the oldest first.
LEMMA LineageAscends ==
  ASSUME NEW h, Downward(h), Lined(h), NEW N \in Nat, \A n \in DOMAIN h.nodes : n <= N,
         h.primary \in DOMAIN h.branches
  PROVE  Ascends(Lineage(h, h.primary), OnPrimary(h))
<1> DEFINE head == h.branches[h.primary].head
<1>1. CASE OnPrimary(h) = {} /\ head = None
  <2>1. Lineage(h, h.primary) = << >>
    BY <1>1 DEF Lineage
  <2> QED  BY <1>1, <2>1, AscendsEmpty
<1>2. CASE head \in OnPrimary(h) /\ head # None /\ \A n \in OnPrimary(h) : n <= head
  <2> DEFINE up == CHOOSE up : Climbs(up, h, DOMAIN h.nodes)
  <2>1. UpTo(h, N) = DOMAIN h.nodes
    BY DEF UpTo
  <2>2. Climbs(up, h, DOMAIN h.nodes)
    BY <2>1, ClimbsExist
  <2>3. Lineage(h, h.primary) = up[head]
    BY <1>2 DEF Lineage, Climbs
  <2> HIDE DEF up
  <2>4. Ascends(up[head], {m \in OnPrimary(h) : m <= head})
    BY <1>2, <2>2, ClimbAscends
  <2>5. {m \in OnPrimary(h) : m <= head} = OnPrimary(h)
    BY <1>2
  <2> QED  BY <2>3, <2>4, <2>5
<1> QED  BY <1>1, <1>2 DEF Lined

-----------------------------------------------------------------------------
(* What the operations leave in the fields of a graph.                     *)

\* j differs from h in its events at most.
Same(j, h) ==
    /\ IsGraph(j) /\ j.nodes = h.nodes /\ j.marks = h.marks
    /\ j.primary = h.primary /\ j.watermark = h.watermark /\ j.branches = h.branches

LEMMA GraphIsRecord ==
    ASSUME NEW h, IsGraph(h)
    PROVE  h \in [nodes : {h.nodes}, marks : {h.marks}, primary : {h.primary},
                  watermark : {h.watermark}, branches : {h.branches},
                  events : {h.events}]
  BY DEF IsGraph

LEMMA PushedFields ==
    ASSUME NEW h, IsGraph(h), NEW e
    PROVE  Same(Pushed(h, e), h)
<1> DEFINE v == Append(h.events, e)
           k == [h EXCEPT !.events = v]
<1>1. Pushed(h, e) = k
  BY DEF Pushed
<1> HIDE DEF v
<1>2. k \in [nodes : {h.nodes}, marks : {h.marks}, primary : {h.primary},
             watermark : {h.watermark}, branches : {h.branches}, events : {v}]
  BY GraphIsRecord
<1> HIDE DEF k
<1>3. Same(k, h)
  BY <1>2 DEF Same, IsGraph
<1> QED  BY <1>1, <1>3

\* The node is there and is the head of its branch.
GrownInto(k, h, n, node) ==
    /\ IsGraph(k)
    /\ k.nodes = Put(h.nodes, n, node)
    /\ k.branches = [h.branches EXCEPT ![node.branch].head = n]
    /\ k.marks = h.marks /\ k.primary = h.primary /\ k.watermark = h.watermark

LEMMA GrownFields ==
    ASSUME NEW h, IsGraph(h), NEW n, NEW node, node.branch \in DOMAIN h.branches, NEW e
    PROVE  GrownInto(Pushed(Grown(h, n, node), e), h, n, node)
<1> DEFINE v == Put(h.nodes, n, node)
           u == [h.branches EXCEPT ![node.branch].head = n]
           k == [h EXCEPT !.nodes = v, !.branches = u]
<1>1. Grown(h, n, node) = k
  BY DEF Grown
<1> HIDE DEF v, u
<1>2. k \in [nodes : {v}, marks : {h.marks}, primary : {h.primary},
             watermark : {h.watermark}, branches : {u}, events : {h.events}]
  BY GraphIsRecord
<1> HIDE DEF k
<1>3. /\ IsGraph(k) /\ k.nodes = v /\ k.branches = u /\ k.marks = h.marks
      /\ k.primary = h.primary /\ k.watermark = h.watermark
  BY <1>2 DEF IsGraph
<1>4. Same(Pushed(k, e), k)
  BY <1>3, PushedFields
<1> QED  BY Zenon, <1>1, <1>3, <1>4 DEF Same, GrownInto, v, u

LEMMA PutFacts ==
    ASSUME NEW f, NEW x, NEW v
    PROVE  /\ DOMAIN Put(f, x, v) = DOMAIN f \cup {x}
           /\ Put(f, x, v)[x] = v
           /\ \A y \in DOMAIN f : y # x => Put(f, x, v)[y] = f[y]
  BY DEF Put

LEMMA PutTyped ==
    ASSUME NEW D, NEW S, NEW f \in [D -> S], NEW x, NEW v \in S
    PROVE  Put(f, x, v) \in [D \cup {x} -> S]
  BY DEF Put

BranchRecord == [head : NodeId \cup {None}, forked : NodeId \cup {None}]

-----------------------------------------------------------------------------
(* A node that is appended or that a checkpoint makes.                     *)

Newer(h, n) == n \in NodeId /\ \A m \in DOMAIN h.nodes : m < n

LEMMA GrownSound ==
    ASSUME NEW h, Sound(h), NEW n, Newer(h, n), NEW node \in NodeRecord,
           ~Refused(h, n, node.branch, node.parent),
           NEW k, GrownInto(k, h, n, node)
    PROVE  Sound(k)
<1> DEFINE b == node.branch
<1>1. /\ IsGraph(h) /\ DOMAIN h.nodes \subseteq NodeId
      /\ h.nodes \in [DOMAIN h.nodes -> NodeRecord]
      /\ DOMAIN h.branches \subseteq Branch
      /\ h.branches \in [DOMAIN h.branches -> BranchRecord]
  BY DEF Sound, Typed, BranchRecord
<1>2. n \in NodeId /\ n \notin DOMAIN h.nodes /\ b \in DOMAIN h.branches
  BY DEF Newer, Refused, NodeId
<1>3. /\ DOMAIN k.nodes = DOMAIN h.nodes \cup {n}
      /\ k.nodes[n] = node
      /\ \A m \in DOMAIN h.nodes : k.nodes[m] = h.nodes[m]
      /\ k.nodes \in [DOMAIN k.nodes -> NodeRecord]
  <2>1. k.nodes = Put(h.nodes, n, node)
    BY DEF GrownInto
  <2>2. Put(h.nodes, n, node) \in [DOMAIN h.nodes \cup {n} -> NodeRecord]
    BY <1>1, PutTyped
  <2>3. /\ DOMAIN k.nodes = DOMAIN h.nodes \cup {n}
        /\ k.nodes[n] = node
        /\ \A m \in DOMAIN h.nodes : m # n => k.nodes[m] = h.nodes[m]
    BY <2>1, PutFacts
  <2> QED  BY <1>2, <2>1, <2>2, <2>3
<1>4. /\ DOMAIN k.branches = DOMAIN h.branches
      /\ k.branches \in [DOMAIN h.branches -> BranchRecord]
      /\ k.branches[b].head = n
      /\ \A c \in DOMAIN h.branches : k.branches[c].forked = h.branches[c].forked
      /\ \A c \in DOMAIN h.branches : c # b => k.branches[c].head = h.branches[c].head
  <2> DEFINE bs == h.branches
  <2>1. bs \in [DOMAIN bs -> BranchRecord] /\ b \in DOMAIN bs
    BY <1>1, <1>2
  <2>2. k.branches = [bs EXCEPT ![b].head = n]
    BY DEF GrownInto
  <2> HIDE DEF bs, b
  <2>3. /\ DOMAIN k.branches = DOMAIN bs
        /\ k.branches \in [DOMAIN bs -> BranchRecord]
        /\ k.branches[b].head = n
        /\ \A c \in DOMAIN bs : k.branches[c].forked = bs[c].forked
        /\ \A c \in DOMAIN bs : c # b => k.branches[c].head = bs[c].head
    BY <1>2, <2>1, <2>2 DEF BranchRecord
  <2> QED  BY <2>3 DEF bs
<1>5. /\ IsGraph(k) /\ k.marks = h.marks
      /\ k.primary = h.primary /\ k.watermark = h.watermark
  BY DEF GrownInto
<1>6. Typed(k)
  BY <1>1, <1>2, <1>3, <1>4, <1>5 DEF Typed, BranchRecord
<1>7. ASSUME NEW c \in DOMAIN k.branches
      PROVE  BranchValid(k, c)
  <2>1. c \in DOMAIN h.branches /\ BranchValid(h, c)
    BY <1>4 DEF Sound
  <2>2. CASE c = b
    BY <2>1, <2>2, <1>2, <1>3, <1>4 DEF BranchValid
  <2>3. CASE c # b
    BY <2>1, <2>3, <1>3, <1>4 DEF BranchValid
  <2> QED  BY <2>2, <2>3
<1>8. ASSUME NEW m \in DOMAIN k.nodes
      PROVE  NodeValid(k, m) /\ (k.nodes[m].parent # None => k.nodes[m].parent < m)
  <2>1. CASE m = n
    BY <2>1, <1>2, <1>3, <1>4 DEF NodeValid, Refused, Newer
  <2>2. CASE m # n
    <3>1. m \in DOMAIN h.nodes /\ k.nodes[m] = h.nodes[m]
      BY <2>2, <1>3
    <3>2. NodeValid(h, m) /\ (h.nodes[m].parent # None => h.nodes[m].parent < m)
      BY <3>1 DEF Sound
    <3> QED  BY <3>1, <3>2, <1>3, <1>4 DEF NodeValid
  <2> QED  BY <2>1, <2>2
<1>9. ASSUME NEW m \in DOMAIN k.marks
      PROVE  MarkValid(k, m)
  <2>1. MarkValid(h, m)
    BY <1>5 DEF Sound
  <2> QED  BY <2>1, <1>3, <1>4, <1>5 DEF MarkValid
<1>10. WatermarkValid(k)
  <2>1. WatermarkValid(h)
    BY DEF Sound
  <2> QED  BY <2>1, <1>3, <1>5 DEF WatermarkValid
<1>11. k.primary \in DOMAIN k.branches
  BY <1>4, <1>5 DEF Sound
<1> QED  BY <1>6, <1>7, <1>8, <1>9, <1>10, <1>11 DEF Sound

LEMMA AppendedSound ==
    ASSUME NEW h, Sound(h), NEW n, Newer(h, n), NEW node \in NodeRecord,
           ~Refused(h, n, node.branch, node.parent)
    PROVE  Sound(Appended(h, n, node))
<1>1. IsGraph(h) /\ node.branch \in DOMAIN h.branches
  BY DEF Sound, Typed, Refused
<1>2. GrownInto(Appended(h, n, node), h, n, node)
  BY <1>1, GrownFields DEF Appended
<1> QED  BY <1>2, GrownSound

LEMMA CheckpointedSound ==
    ASSUME NEW h, Sound(h), NEW n, Newer(h, n), NEW b \in DOMAIN h.branches,
           ~Refused(h, n, b, h.branches[b].head)
    PROVE  Sound(Checkpointed(h, n, b))
<1> DEFINE node == Node(h, b, Text("checkpoint"), n)
<1>1. node \in NodeRecord /\ node.branch = b /\ node.parent = h.branches[b].head
  BY DEF Sound, Typed, Newer, Node, Text, NodeRecord, Kind, NodeId
<1>2. IsGraph(h)
  BY DEF Sound, Typed
<1> HIDE DEF node
<1>3. GrownInto(Checkpointed(h, n, b), h, n, node)
  BY <1>1, <1>2, GrownFields DEF Checkpointed, node
<1> QED  BY <1>1, <1>3, GrownSound

\* The checkpoint of a compaction hangs below its summary.
LEMMA SummarisedSound ==
    ASSUME NEW h, Sound(h), NEW n, Newer(h, n), NEW b \in DOMAIN h.branches,
           ~Refused(h, n, b, h.branches[b].head)
    PROVE  Sound(Checkpointed(Appended(h, n, Node(h, b, Text("summary"), n)), n + 1, b))
<1> DEFINE node == Node(h, b, Text("summary"), n)
           k == Appended(h, n, node)
<1>1. node \in NodeRecord /\ node.branch = b /\ node.parent = h.branches[b].head
  BY DEF Sound, Typed, Newer, Node, Text, NodeRecord, Kind, NodeId
<1>2. IsGraph(h) /\ DOMAIN h.nodes \subseteq NodeId
  BY DEF Sound, Typed
<1>3. n \in NodeId
  BY DEF Newer
<1> HIDE DEF node
<1>4. Sound(k)
  BY <1>1, AppendedSound
<1>5. GrownInto(k, h, n, node)
  BY <1>1, <1>2, GrownFields DEF Appended
<1> HIDE DEF k
<1>6. DOMAIN k.nodes = DOMAIN h.nodes \cup {n} /\ k.nodes[n].branch = b
  <2>1. k.nodes = Put(h.nodes, n, node)
    BY <1>5 DEF GrownInto
  <2>2. DOMAIN k.nodes = DOMAIN h.nodes \cup {n} /\ k.nodes[n] = node
    BY <2>1 DEF Put
  <2> QED  BY <1>1, <2>2
<1>7. b \in DOMAIN k.branches /\ k.branches[b].head = n
  BY <1>1, <1>5 DEF GrownInto, Sound, Typed
<1>8. Newer(k, n + 1)
  BY <1>2, <1>3, <1>6 DEF Newer, NodeId
<1>9. ~Refused(k, n + 1, b, k.branches[b].head)
  BY <1>2, <1>3, <1>6, <1>7, <1>8 DEF Refused, Newer, NodeId
<1>10. Sound(Checkpointed(k, n + 1, b))
  BY <1>4, <1>7, <1>8, <1>9, CheckpointedSound
<1> QED  BY <1>10 DEF k, node

-----------------------------------------------------------------------------
(* The other operations.                                                   *)

LEMMA BranchedFields ==
    ASSUME NEW h, IsGraph(h), NEW b, NEW from, NEW e
    PROVE  LET k == Pushed(Branched(h, b, from), e)
           IN  /\ IsGraph(k) /\ k.nodes = h.nodes /\ k.marks = h.marks
               /\ k.primary = h.primary /\ k.watermark = h.watermark
               /\ k.branches = Put(h.branches, b, [head |-> from, forked |-> from])
<1> DEFINE v == Put(h.branches, b, [head |-> from, forked |-> from])
           k == [h EXCEPT !.branches = v]
<1>1. Branched(h, b, from) = k
  BY DEF Branched
<1> HIDE DEF v
<1>2. k \in [nodes : {h.nodes}, marks : {h.marks}, primary : {h.primary},
             watermark : {h.watermark}, branches : {v}, events : {h.events}]
  BY GraphIsRecord
<1> HIDE DEF k
<1>3. /\ IsGraph(k) /\ k.nodes = h.nodes /\ k.branches = v /\ k.marks = h.marks
      /\ k.primary = h.primary /\ k.watermark = h.watermark
  BY <1>2 DEF IsGraph
<1>4. Same(Pushed(k, e), k)
  BY <1>3, PushedFields
<1> QED  BY Zenon, <1>1, <1>3, <1>4 DEF Same, v

LEMMA ForkedSound ==
    ASSUME NEW h, Sound(h), NEW b \in Fork \ DOMAIN h.branches,
           NEW from \in DOMAIN h.nodes \cup {None}
    PROVE  Sound(Forked(h, b, from))
<1> DEFINE k == Forked(h, b, from)
           new == [head |-> from, forked |-> from]
<1>1. Typed(h)
  BY DEF Sound
<1>2. /\ IsGraph(k) /\ k.nodes = h.nodes /\ k.marks = h.marks
      /\ k.primary = h.primary /\ k.watermark = h.watermark
      /\ k.branches = Put(h.branches, b, new)
  BY <1>1, BranchedFields DEF Forked, Typed
<1> HIDE DEF k
<1>3. new \in BranchRecord
  BY <1>1 DEF Typed, BranchRecord
<1>4. new.head = from /\ new.forked = from
  OBVIOUS
<1> HIDE DEF new
<1>5. Put(h.branches, b, new) \in [DOMAIN h.branches \cup {b} -> BranchRecord]
  BY <1>1, <1>3, PutTyped DEF Typed, BranchRecord
<1>6. /\ DOMAIN k.branches = DOMAIN h.branches \cup {b}
      /\ k.branches[b] = new
      /\ \A c \in DOMAIN h.branches : k.branches[c] = h.branches[c]
  <2>1. k.branches = Put(h.branches, b, new)
    BY <1>2
  <2> QED  BY <2>1 DEF Put
<1>7. Typed(k)
  BY <1>1, <1>2, <1>5, <1>6 DEF Typed, BranchRecord, Branch
<1>8. ASSUME NEW c \in DOMAIN k.branches
      PROVE  BranchValid(k, c)
  <2>1. CASE c = b
    BY <2>1, <1>4, <1>2, <1>6 DEF BranchValid
  <2>2. CASE c # b
    <3>1. c \in DOMAIN h.branches /\ BranchValid(h, c)
      BY <2>2, <1>6 DEF Sound
    <3> QED  BY <3>1, <1>2, <1>6 DEF BranchValid
  <2> QED  BY <2>1, <2>2
<1>9. ASSUME NEW n \in DOMAIN k.nodes
      PROVE  NodeValid(k, n) /\ (k.nodes[n].parent # None => k.nodes[n].parent < n)
  <2>1. n \in DOMAIN h.nodes /\ NodeValid(h, n)
        /\ (h.nodes[n].parent # None => h.nodes[n].parent < n)
    BY <1>2 DEF Sound
  <2> QED  BY <2>1, <1>2, <1>6 DEF NodeValid
<1>10. ASSUME NEW m \in DOMAIN k.marks
      PROVE  MarkValid(k, m)
  <2>1. MarkValid(h, m)
    BY <1>2 DEF Sound
  <2> QED  BY <2>1, <1>2, <1>6 DEF MarkValid
<1>11. WatermarkValid(k) /\ k.primary \in DOMAIN k.branches
  BY <1>2, <1>6 DEF Sound, WatermarkValid
<1>12. Sound(k)
  BY <1>7, <1>8, <1>9, <1>10, <1>11 DEF Sound
<1> QED  BY <1>12 DEF k

\* Nodes and branches as they were; the marks and the watermark are valid.
LEMMA ReframedSound ==
    ASSUME NEW h, Sound(h), NEW k, IsGraph(k),
           k.nodes = h.nodes, k.branches = h.branches, k.primary = h.primary,
           \A m \in DOMAIN k.marks : MarkValid(k, m), WatermarkValid(k)
    PROVE  Sound(k)
<1>1. Typed(k)
  BY DEF Sound, Typed
<1>2. \A b \in DOMAIN k.branches : BranchValid(k, b)
  BY DEF Sound, BranchValid
<1>3. \A n \in DOMAIN k.nodes :
         NodeValid(k, n) /\ (k.nodes[n].parent # None => k.nodes[n].parent < n)
  BY DEF Sound, NodeValid
<1> QED  BY <1>1, <1>2, <1>3 DEF Sound

LEMMA BookmarkedSound ==
    ASSUME NEW h, Sound(h), NEW m, NEW n \in DOMAIN h.nodes
    PROVE  Sound(Bookmarked(h, m, n))
<1> DEFINE mark == [node |-> n, branch |-> h.nodes[n].branch]
           v == Put(h.marks, m, mark)
           j == [h EXCEPT !.marks = v]
           k == Pushed(j, [type |-> "mark", id |-> m, mark |-> mark])
<1>1. Bookmarked(h, m, n) = k
  BY DEF Bookmarked
<1>2. IsGraph(h)
  BY DEF Sound, Typed
<1>3. mark.node = n /\ mark.branch = h.nodes[n].branch
  OBVIOUS
<1> HIDE DEF mark
<1>4. DOMAIN v = DOMAIN h.marks \cup {m} /\ v[m] = mark
      /\ \A l \in DOMAIN h.marks : l # m => v[l] = h.marks[l]
  BY DEF Put
<1> HIDE DEF v
<1>5. j \in [nodes : {h.nodes}, marks : {v}, primary : {h.primary},
             watermark : {h.watermark}, branches : {h.branches}, events : {h.events}]
  BY <1>2, GraphIsRecord
<1> HIDE DEF j
<1>6. /\ IsGraph(j) /\ j.nodes = h.nodes /\ j.marks = v
      /\ j.primary = h.primary /\ j.watermark = h.watermark
      /\ j.branches = h.branches
  BY <1>5 DEF IsGraph
<1>7. Same(k, j)
  BY <1>6, PushedFields
<1> HIDE DEF k
<1>8. ASSUME NEW l \in DOMAIN k.marks
      PROVE  MarkValid(k, l)
  <2>1. CASE l = m
    BY <2>1, <1>3, <1>4, <1>6, <1>7 DEF Same, MarkValid, Sound, NodeValid
  <2>2. CASE l # m
    <3>1. l \in DOMAIN h.marks /\ MarkValid(h, l)
      BY <2>2, <1>4, <1>6, <1>7 DEF Same, Sound
    <3> QED  BY <3>1, <2>2, <1>4, <1>6, <1>7 DEF Same, MarkValid
  <2> QED  BY <2>1, <2>2
<1>9. WatermarkValid(k)
  BY <1>6, <1>7 DEF Same, Sound, WatermarkValid
<1>10. Sound(k)
  BY <1>6, <1>7, <1>8, <1>9, ReframedSound DEF Same
<1> QED  BY <1>1, <1>10

LEMMA ArchivedSound ==
    ASSUME NEW h, Sound(h), NEW w \in OnPrimary(h)
    PROVE  Sound(Archived(h, w))
<1> DEFINE j == [h EXCEPT !.watermark = w]
           k == Pushed(j, [type |-> "archive", id |-> w])
<1>1. Archived(h, w) = k
  BY DEF Archived
<1>2. IsGraph(h)
  BY DEF Sound, Typed
<1>3. j \in [nodes : {h.nodes}, marks : {h.marks}, primary : {h.primary},
             watermark : {w}, branches : {h.branches}, events : {h.events}]
  BY <1>2, GraphIsRecord
<1> HIDE DEF j
<1>4. /\ IsGraph(j) /\ j.nodes = h.nodes /\ j.marks = h.marks
      /\ j.primary = h.primary /\ j.watermark = w /\ j.branches = h.branches
  BY <1>3 DEF IsGraph
<1>5. Same(k, j)
  BY <1>4, PushedFields
<1> HIDE DEF k
<1>6. \A m \in DOMAIN k.marks : MarkValid(k, m)
  BY <1>4, <1>5 DEF Same, Sound, MarkValid
<1>7. WatermarkValid(k)
  BY <1>4, <1>5 DEF Same, OnPrimary, WatermarkValid
<1>8. Sound(k)
  BY <1>4, <1>5, <1>6, <1>7, ReframedSound DEF Same
<1> QED  BY <1>1, <1>8

LEMMA PatchedSound ==
    ASSUME NEW h, Sound(h), NEW n \in DOMAIN h.nodes
    PROVE  Sound(PatchedMeta(h, n))
<1> DEFINE v == [h.nodes EXCEPT ![n].patched = TRUE]
           j == [h EXCEPT !.nodes = v]
           k == Pushed(j, [type |-> "patch", id |-> n])
<1>1. PatchedMeta(h, n) = k
  BY DEF PatchedMeta, Patched
<1>2. IsGraph(h) /\ h.nodes \in [DOMAIN h.nodes -> NodeRecord]
  BY DEF Sound, Typed
<1>3. /\ v \in [DOMAIN h.nodes -> NodeRecord] /\ DOMAIN v = DOMAIN h.nodes
      /\ \A m \in DOMAIN h.nodes : /\ v[m].branch = h.nodes[m].branch
                                   /\ v[m].parent = h.nodes[m].parent
  BY <1>2 DEF NodeRecord
<1> HIDE DEF v
<1>4. j \in [nodes : {v}, marks : {h.marks}, primary : {h.primary},
             watermark : {h.watermark}, branches : {h.branches}, events : {h.events}]
  BY <1>2, GraphIsRecord
<1> HIDE DEF j
<1>5. /\ IsGraph(j) /\ j.nodes = v /\ j.marks = h.marks
      /\ j.primary = h.primary /\ j.watermark = h.watermark
      /\ j.branches = h.branches
  BY <1>4 DEF IsGraph
<1>6. Same(k, j)
  BY <1>5, PushedFields
<1> HIDE DEF k
<1>7. Typed(k)
  BY <1>3, <1>5, <1>6 DEF Same, Sound, Typed
<1>8. \A b \in DOMAIN k.branches : BranchValid(k, b)
  BY <1>3, <1>5, <1>6 DEF Same, Sound, BranchValid
<1>9. ASSUME NEW m \in DOMAIN k.nodes
      PROVE  NodeValid(k, m) /\ (k.nodes[m].parent # None => k.nodes[m].parent < m)
  <2>1. m \in DOMAIN h.nodes /\ NodeValid(h, m)
        /\ (h.nodes[m].parent # None => h.nodes[m].parent < m)
    BY <1>3, <1>5, <1>6 DEF Same, Sound
  <2> QED  BY <2>1, <1>3, <1>5, <1>6 DEF Same, NodeValid
<1>10. \A m \in DOMAIN k.marks : MarkValid(k, m)
  BY <1>3, <1>5, <1>6 DEF Same, Sound, MarkValid
<1>11. WatermarkValid(k) /\ k.primary \in DOMAIN k.branches
  BY <1>3, <1>5, <1>6 DEF Same, Sound, WatermarkValid
<1>12. Sound(k)
  BY <1>7, <1>8, <1>9, <1>10, <1>11 DEF Sound
<1> QED  BY <1>1, <1>12

-----------------------------------------------------------------------------
(* Every step.                                                             *)

LEMMA NewGraphSound == Sound(NewGraph)
<1>1. Typed(NewGraph)
  BY GraphAssumption DEF NewGraph, Typed, IsGraph, Branch, NodeId
<1> QED
  BY <1>1 DEF NewGraph, Sound, BranchValid, NodeValid, MarkValid, WatermarkValid

LEMMA StepSound == Valid /\ [GraphNext]_g => Valid'
<1> SUFFICES ASSUME Sound(g), GraphNext \/ UNCHANGED g
             PROVE  Sound(g')
  BY DEF Valid
<1>1. CASE AppendNode
  BY <1>1, AppendedSound DEF AppendNode, New, Newer
<1>2. CASE CreateCheckpoint
  BY <1>2, CheckpointedSound DEF CreateCheckpoint, New, Newer
<1>3. CASE Summarise
  BY <1>3, SummarisedSound DEF Summarise, New, Newer
<1>4. CASE CreateBookmark
  BY <1>4, BookmarkedSound DEF CreateBookmark
<1>5. CASE PatchNode
  BY <1>5, PatchedSound DEF PatchNode
<1>6. CASE ForkBranch
  BY <1>6, ForkedSound DEF ForkBranch
<1>7. CASE ArchiveBefore
  BY <1>7, ArchivedSound DEF ArchiveBefore
<1>8. CASE UNCHANGED g
  BY <1>8
<1> QED
  BY <1>1, <1>2, <1>3, <1>4, <1>5, <1>6, <1>7, <1>8 DEF GraphNext

\* Whatever sequence of operations made a graph, on any branches and with any
\* nodes, GraphValidator::validate finds no issue with it (src/graph): a save
\* or a load is never refused, and a walk to the root ends.
THEOREM GraphValid == GraphSpec => []Valid
<1>1. GraphInit => Valid
  BY NewGraphSound DEF GraphInit, Valid
<1> QED  BY <1>1, StepSound, PTL DEF GraphSpec

-----------------------------------------------------------------------------
(* What an operation records is what it does *)

LEMMA GraphsEqual ==
  ASSUME NEW j, NEW k, IsGraph(j), IsGraph(k), j.nodes = k.nodes, j.marks = k.marks,
         j.primary = k.primary, j.watermark = k.watermark, j.branches = k.branches,
         j.events = k.events
  PROVE  j = k
  BY DEF IsGraph

\* The graph that replaying the events of h gives, by either way, is h.
Remembered(h) ==
  /\ IsList(h.events)
  /\ h.events = << >> => h = NewGraph
  /\ h.events # << >> => /\ EventBranch(h.events[1]) = Main
                         /\ Rebuilt(Bare, h.events, TRUE) = h
  /\ Rebuilt(NewGraph, h.events, FALSE) = h

LEMMA ListEmpty ==
  ASSUME NEW es, IsList(es), Len(es) = 0
  PROVE  es = << >>
<1> DEFINE S == {es[i] : i \in DOMAIN es}
<1>1. es \in Seq(S)
  BY DEF IsList
<1> HIDE DEF S
<1> QED  BY <1>1

LEMMA NoEvents ==
  ASSUME NEW start, NEW making
  PROVE  Rebuilt(start, << >>, making) = start
<1> DEFINE f == [i \in 0..0 |-> start]
<1>1. f = [i \in 0..0 |-> f[i]] /\ f[0] = start
      /\ \A i \in 1..0 : f[i] = Replayed(f[i - 1], << >>[i], making)
  OBVIOUS
<1> HIDE DEF f
<1>2. Course(f, start, << >>, 0, making)
  BY <1>1, CourseSteps
<1>3. Len(<< >>) = 0
  OBVIOUS
<1> QED  BY <1>1, <1>2, <1>3, RebuiltIs

LEMMA NewRemembered == Remembered(NewGraph)
<1>1. NewGraph.events = << >>
  BY DEF NewGraph
<1>2. IsList(<< >>)
  BY DEF IsList
<1> QED  BY <1>1, <1>2, NoEvents DEF Remembered

LEMMA RememberedMore ==
  ASSUME NEW h, Remembered(h), NEW e, NEW k, k.events = Append(h.events, e),
         k = Replayed(h, e, TRUE), k = Replayed(h, e, FALSE),
         h.events = << >> => EventBranch(e) = Main /\ k = Replayed(Bare, e, TRUE)
  PROVE  Remembered(k)
<1> DEFINE es == h.events
           t  == Append(es, e)
<1>1. IsList(es) /\ k.events = t
  BY DEF Remembered
<1>2. Rebuilt(NewGraph, es, FALSE) = h
  BY DEF Remembered
<1>3. es # << >> => EventBranch(es[1]) = Main /\ Rebuilt(Bare, es, TRUE) = h
  BY DEF Remembered
<1>4. es = << >> => EventBranch(e) = Main /\ k = Replayed(Bare, e, TRUE)
  OBVIOUS
<1> HIDE DEF es
<1>5. /\ IsList(t) /\ Len(es) \in Nat /\ Len(t) = Len(es) + 1
      /\ t[Len(es) + 1] = e /\ \A i \in 1..Len(es) : t[i] = es[i]
  BY <1>1, ListMore
<1>6. /\ Rebuilt(Bare, t, TRUE) = Replayed(Rebuilt(Bare, es, TRUE), e, TRUE)
      /\ Rebuilt(NewGraph, t, FALSE) = Replayed(Rebuilt(NewGraph, es, FALSE), e, FALSE)
  BY <1>1, RebuiltMore
<1> HIDE DEF t
<1>7. Rebuilt(Bare, t, TRUE) = k
  <2>1. CASE es = << >>
    BY <1>6, <1>4, <2>1, NoEvents
  <2>2. CASE es # << >>
    BY <1>6, <1>3, <2>2
  <2> QED  BY <2>1, <2>2
<1>8. EventBranch(t[1]) = Main
  <2>1. CASE es = << >>
    <3>1. Len(es) = 0
      BY <2>1
    <3> QED  BY <1>5, <1>4, <2>1, <3>1
  <2>2. CASE es # << >>
    <3>1. Len(es) # 0
      BY <1>1, <2>2, ListEmpty
    <3>2. t[1] = es[1]
      BY <1>5, <3>1
    <3> QED  BY <1>3, <2>2, <3>2
  <2> QED  BY <2>1, <2>2
<1>9. t # << >>
  <2>1. Len(<< >>) = 0
    OBVIOUS
  <2> QED  BY <1>5, <2>1
<1> QED  BY <1>1, <1>5, <1>6, <1>2, <1>7, <1>8, <1>9 DEF Remembered

\* A branch that is there already is not made again, and one that is made is
\* the one a new session has.
LEMMA RootedIs ==
  ASSUME NEW h, NEW e
  PROVE  /\ EventBranch(e) = None \/ EventBranch(e) \in DOMAIN h.branches \/ e.type = "fork"
             => Rooted(h, e) = h
         /\ EventBranch(e) = Main /\ e.type # "fork" => Rooted(Bare, e) = NewGraph
<1>1. ASSUME EventBranch(e) = None \/ EventBranch(e) \in DOMAIN h.branches \/ e.type = "fork"
      PROVE  Rooted(h, e) = h
  BY <1>1 DEF Rooted
<1>2. ASSUME EventBranch(e) = Main, e.type # "fork"
      PROVE  Rooted(Bare, e) = NewGraph
  <2>1. Main # None
    BY GraphAssumption
  <2>2. Bare.branches = << >> /\ DOMAIN Bare.branches = {}
    BY DEF Bare, NewGraph
  <2>3. Rooted(Bare, e) = [Bare EXCEPT !.branches =
                             Put(Bare.branches, Main, [head |-> None, forked |-> None])]
    BY <1>2, <2>1, <2>2 DEF Rooted
  <2>4. Put(Bare.branches, Main, [head |-> None, forked |-> None])
          = [b \in {Main} |-> [head |-> None, forked |-> None]]
    BY <2>2 DEF Put
  <2> QED  BY <2>3, <2>4 DEF Bare, NewGraph
<1> QED  BY <1>1, <1>2

LEMMA PushedEvents ==
  ASSUME NEW h, IsGraph(h), NEW e
  PROVE  Pushed(h, e).events = Append(h.events, e)
<1> DEFINE v == Append(h.events, e)
           k == [h EXCEPT !.events = v]
<1>1. Pushed(h, e) = k
  BY DEF Pushed
<1> HIDE DEF v
<1>2. k.events = v
  BY GraphIsRecord
<1> QED  BY <1>1, <1>2 DEF v

LEMMA GrownEvents ==
  ASSUME NEW h, IsGraph(h), NEW n, NEW node, NEW e
  PROVE  Pushed(Grown(h, n, node), e).events = Append(h.events, e)
<1> DEFINE v == Put(h.nodes, n, node)
           u == IF node.branch \in DOMAIN h.branches
                THEN [h.branches EXCEPT ![node.branch].head = n] ELSE h.branches
           k == [h EXCEPT !.nodes = v, !.branches = u]
<1>1. Grown(h, n, node) = k
  BY DEF Grown
<1> HIDE DEF v, u
<1>2. k \in [nodes : {v}, marks : {h.marks}, primary : {h.primary},
             watermark : {h.watermark}, branches : {u}, events : {h.events}]
  BY GraphIsRecord
<1> HIDE DEF k
<1>3. IsGraph(k) /\ k.events = h.events
  BY <1>2 DEF IsGraph
<1> QED  BY <1>1, <1>3, PushedEvents

LEMMA AppendedRemembered ==
  ASSUME NEW h, IsGraph(h), Remembered(h), NEW n, NEW node,
         node.branch \in DOMAIN h.branches, h.events = << >> => node.branch = Main
  PROVE  Remembered(Appended(h, n, node))
<1> DEFINE e == [type |-> "node", id |-> n, node |-> node]
           k == Appended(h, n, node)
<1>1. e.type = "node" /\ e.id = n /\ e.node = node
  OBVIOUS
<1> HIDE DEF e
<1>2. k = Pushed(Grown(h, n, node), e)
  BY DEF Appended, e
<1> HIDE DEF k
<1>3. k.events = Append(h.events, e)
  BY <1>2, GrownEvents
<1>4. EventBranch(e) = node.branch
  BY <1>1 DEF EventBranch
<1>5. Rooted(h, e) = h
  BY <1>4, RootedIs
<1>6. Apply(h, e) = Grown(h, n, node)
  BY <1>1 DEF Apply
<1>7. k = Replayed(h, e, TRUE) /\ k = Replayed(h, e, FALSE)
  BY <1>2, <1>5, <1>6 DEF Replayed
<1>8. ASSUME h.events = << >>
      PROVE  EventBranch(e) = Main /\ k = Replayed(Bare, e, TRUE)
  <2>1. h = NewGraph /\ EventBranch(e) = Main
    BY <1>4, <1>8 DEF Remembered
  <2>2. Rooted(Bare, e) = h
    BY <1>1, <2>1, RootedIs
  <2> QED  BY <1>2, <1>6, <2>1, <2>2 DEF Replayed
<1>9. Remembered(k)
  BY <1>3, <1>7, <1>8, RememberedMore
<1> QED  BY <1>9 DEF k

LEMMA CheckpointedRemembered ==
  ASSUME NEW h, IsGraph(h), Remembered(h), NEW n, NEW b \in DOMAIN h.branches,
         h.events = << >> => b = Main
  PROVE  Remembered(Checkpointed(h, n, b))
<1> DEFINE node == Node(h, b, Text("checkpoint"), n)
           e == [type |-> "check", id |-> n, node |-> node]
           k == Checkpointed(h, n, b)
<1>0. /\ node.branch = b
      /\ [node EXCEPT !.parent = h.branches[b].head] = node
  <2> DEFINE p == h.branches[b].head
             t == Text("checkpoint")
  <2>1. node \in [branch : {b}, parent : {p}, at : {n}, patched : {FALSE},
                 kind : {t.kind}, calls : {t.calls}, results : {t.results}]
    BY DEF Node
  <2> HIDE DEF node, p, t
  <2>2. node.branch = b /\ [node EXCEPT !.parent = p] = node
    BY <2>1
  <2> QED  BY <2>2 DEF p
<1> HIDE DEF node
<1>1. e.type = "check" /\ e.id = n /\ e.node = node
  OBVIOUS
<1> HIDE DEF e
<1>2. k = Pushed(Grown(h, n, node), e)
  BY DEF Checkpointed, e, node
<1> HIDE DEF k
<1>3. k.events = Append(h.events, e)
  BY <1>2, GrownEvents
<1>4. EventBranch(e) = b
  BY <1>0, <1>1 DEF EventBranch
<1>5. Rooted(h, e) = h
  BY <1>4, RootedIs
<1>6. Apply(h, e) = Grown(h, n, node)
  <2>1. HeadOf(h, e.node.branch) = h.branches[b].head
    BY <1>0, <1>1 DEF HeadOf
  <2>2. Apply(h, e) = Grown(h, e.id, [e.node EXCEPT !.parent = HeadOf(h, e.node.branch)])
    BY <1>1 DEF Apply
  <2> QED  BY <1>0, <1>1, <2>1, <2>2
<1>7. k = Replayed(h, e, TRUE) /\ k = Replayed(h, e, FALSE)
  BY <1>2, <1>5, <1>6 DEF Replayed
<1>8. ASSUME h.events = << >>
      PROVE  EventBranch(e) = Main /\ k = Replayed(Bare, e, TRUE)
  <2>1. h = NewGraph /\ EventBranch(e) = Main
    BY <1>4, <1>8 DEF Remembered
  <2>2. Rooted(Bare, e) = h
    BY <1>1, <2>1, RootedIs
  <2> QED  BY <1>2, <1>6, <2>1, <2>2 DEF Replayed
<1>9. Remembered(k)
  BY <1>3, <1>7, <1>8, RememberedMore
<1> QED  BY <1>9 DEF k

LEMMA ForkedRemembered ==
  ASSUME NEW h, IsGraph(h), Remembered(h), h.events # << >>, NEW b, NEW from
  PROVE  Remembered(Forked(h, b, from))
<1> DEFINE e == [type |-> "fork", branch |-> b, from |-> from]
           k == Forked(h, b, from)
<1>1. e.type = "fork" /\ e.branch = b /\ e.from = from
  OBVIOUS
<1> HIDE DEF e
<1>2. k = Pushed(Branched(h, b, from), e)
  BY DEF Forked, e
<1> HIDE DEF k
<1>3. k.events = Append(h.events, e)
  <2> DEFINE v == Put(h.branches, b, [head |-> from, forked |-> from])
             j == [h EXCEPT !.branches = v]
  <2>1. Branched(h, b, from) = j
    BY DEF Branched
  <2> HIDE DEF v
  <2>2. j \in [nodes : {h.nodes}, marks : {h.marks}, primary : {h.primary},
               watermark : {h.watermark}, branches : {v}, events : {h.events}]
    BY GraphIsRecord
  <2> HIDE DEF j
  <2>3. IsGraph(j) /\ j.events = h.events
    BY <2>2 DEF IsGraph
  <2> QED  BY <1>2, <2>1, <2>3, PushedEvents
<1>4. Rooted(h, e) = h
  BY <1>1, RootedIs
<1>5. Apply(h, e) = Branched(h, b, from)
  BY <1>1 DEF Apply
<1>6. k = Replayed(h, e, TRUE) /\ k = Replayed(h, e, FALSE)
  BY <1>2, <1>4, <1>5 DEF Replayed
<1>7. Remembered(k)
  BY <1>3, <1>6, RememberedMore
<1> QED  BY <1>7 DEF k

LEMMA BookmarkedRemembered ==
  ASSUME NEW h, IsGraph(h), Remembered(h), h.events # << >>, NEW m, NEW n,
         h.nodes[n].branch \in DOMAIN h.branches
  PROVE  Remembered(Bookmarked(h, m, n))
<1> DEFINE mark == [node |-> n, branch |-> h.nodes[n].branch]
           e == [type |-> "mark", id |-> m, mark |-> mark]
           v == Put(h.marks, m, mark)
           j == [h EXCEPT !.marks = v]
           k == Bookmarked(h, m, n)
<1>1. e.type = "mark" /\ e.id = m /\ e.mark = mark /\ mark.branch = h.nodes[n].branch
  OBVIOUS
<1>2. k = Pushed(j, e)
  BY DEF Bookmarked
<1>3. Apply(h, e) = j
  BY <1>1 DEF Apply
<1> HIDE DEF k, e, v, mark
<1>4. j \in [nodes : {h.nodes}, marks : {v}, primary : {h.primary},
             watermark : {h.watermark}, branches : {h.branches}, events : {h.events}]
  BY GraphIsRecord
<1> HIDE DEF j
<1>5. k.events = Append(h.events, e)
  <2>1. IsGraph(j) /\ j.events = h.events
    BY <1>4 DEF IsGraph
  <2> QED  BY <1>2, <2>1, PushedEvents
<1>6. EventBranch(e) \in DOMAIN h.branches
  BY <1>1 DEF EventBranch
<1>7. Rooted(h, e) = h
  BY <1>6, RootedIs
<1>8. k = Replayed(h, e, TRUE) /\ k = Replayed(h, e, FALSE)
  BY <1>2, <1>3, <1>7 DEF Replayed
<1>9. Remembered(k)
  BY <1>5, <1>8, RememberedMore
<1> QED  BY <1>9 DEF k

LEMMA PatchedRemembered ==
  ASSUME NEW h, IsGraph(h), Remembered(h), h.events # << >>, NEW n \in DOMAIN h.nodes
  PROVE  Remembered(PatchedMeta(h, n))
<1> DEFINE e == [type |-> "patch", id |-> n]
           v == [h.nodes EXCEPT ![n].patched = TRUE]
           j == [h EXCEPT !.nodes = v]
           k == PatchedMeta(h, n)
<1>1. e.type = "patch" /\ e.id = n
  OBVIOUS
<1>2. k = Pushed(j, e)
  BY DEF PatchedMeta, Patched
<1>3. Apply(h, e) = j
  BY <1>1 DEF Apply, Patched
<1> HIDE DEF k, e, v
<1>4. j \in [nodes : {v}, marks : {h.marks}, primary : {h.primary},
             watermark : {h.watermark}, branches : {h.branches}, events : {h.events}]
  BY GraphIsRecord
<1> HIDE DEF j
<1>5. k.events = Append(h.events, e)
  <2>1. IsGraph(j) /\ j.events = h.events
    BY <1>4 DEF IsGraph
  <2> QED  BY <1>2, <2>1, PushedEvents
<1>6. EventBranch(e) = None
  BY <1>1 DEF EventBranch
<1>7. Rooted(h, e) = h
  BY <1>6, RootedIs
<1>8. k = Replayed(h, e, TRUE) /\ k = Replayed(h, e, FALSE)
  BY <1>2, <1>3, <1>7 DEF Replayed
<1>9. Remembered(k)
  BY <1>5, <1>8, RememberedMore
<1> QED  BY <1>9 DEF k

LEMMA ArchivedRemembered ==
  ASSUME NEW h, IsGraph(h), Remembered(h), h.events # << >>, NEW w
  PROVE  Remembered(Archived(h, w))
<1> DEFINE e == [type |-> "archive", id |-> w]
           j == [h EXCEPT !.watermark = w]
           k == Archived(h, w)
<1>1. e.type = "archive" /\ e.id = w
  OBVIOUS
<1>2. k = Pushed(j, e)
  BY DEF Archived
<1>3. Apply(h, e) = j
  BY <1>1 DEF Apply
<1> HIDE DEF k, e
<1>4. j \in [nodes : {h.nodes}, marks : {h.marks}, primary : {h.primary},
             watermark : {w}, branches : {h.branches}, events : {h.events}]
  BY GraphIsRecord
<1> HIDE DEF j
<1>5. k.events = Append(h.events, e)
  <2>1. IsGraph(j) /\ j.events = h.events
    BY <1>4 DEF IsGraph
  <2> QED  BY <1>2, <2>1, PushedEvents
<1>6. EventBranch(e) = None
  BY <1>1 DEF EventBranch
<1>7. Rooted(h, e) = h
  BY <1>6, RootedIs
<1>8. k = Replayed(h, e, TRUE) /\ k = Replayed(h, e, FALSE)
  BY <1>2, <1>3, <1>7 DEF Replayed
<1>9. Remembered(k)
  BY <1>5, <1>8, RememberedMore
<1> QED  BY <1>9 DEF k

-----------------------------------------------------------------------------
(* Calls and results *)

\* Every call made before x has its result before x.
Settled(h, x) ==
  \A m \in OnPrimary(h) : m < x => \A c \in h.nodes[m].calls :
      \E r \in OnPrimary(h) : r < x /\ c \in h.nodes[r].results

\* A node as it is appended: its calls are its own, its results are of calls
\* before it, and only a message of a client may have an earlier time.
Paired1(h, n) ==
  LET node == h.nodes[n]
  IN  /\ \A c \in node.calls : c[1] = n /\ node.kind = "assistant"
      /\ \A c \in node.results : c[1] < n /\ node.kind = "user"
      /\ node.at <= n
      /\ node.at # n => node.calls = {} /\ node.results = {} /\ node.kind = "user"

Paired(h) ==
  /\ \A n \in OnPrimary(h) : Paired1(h, n)
  /\ \A m, n \in OnPrimary(h) : \A c \in h.nodes[m].results :
        c \in h.nodes[n].results => m = n
  /\ \A s \in OnPrimary(h) : h.nodes[s].kind = "summary" => Settled(h, s)
  /\ h.watermark # None => Settled(h, h.nodes[h.watermark].at)

\* Nodes and branches as they were, but for the metadata of nodes.
Alike(k, h) ==
  /\ DOMAIN k.nodes = DOMAIN h.nodes /\ k.primary = h.primary
  /\ k.branches[k.primary].head = h.branches[h.primary].head
  /\ \A n \in DOMAIN h.nodes :
        /\ k.nodes[n].branch = h.nodes[n].branch /\ k.nodes[n].parent = h.nodes[n].parent
        /\ k.nodes[n].at = h.nodes[n].at /\ k.nodes[n].kind = h.nodes[n].kind
        /\ k.nodes[n].calls = h.nodes[n].calls /\ k.nodes[n].results = h.nodes[n].results

LEMMA AlikePrimary ==
  ASSUME NEW h, NEW k, Alike(k, h)
  PROVE  OnPrimary(k) = OnPrimary(h)
  BY DEF Alike, OnPrimary

LEMMA AlikeLined ==
  ASSUME NEW h, Lined(h), NEW k, Alike(k, h)
  PROVE  Lined(k)
<1>1. OnPrimary(k) = OnPrimary(h) /\ OnPrimary(h) \subseteq DOMAIN h.nodes
  BY AlikePrimary DEF OnPrimary
<1> QED  BY <1>1 DEF Lined, Alike

LEMMA AlikeSettled ==
  ASSUME NEW h, NEW k, Alike(k, h), NEW x, Settled(h, x)
  PROVE  Settled(k, x)
<1>1. OnPrimary(k) = OnPrimary(h) /\ OnPrimary(h) \subseteq DOMAIN h.nodes
  BY AlikePrimary DEF OnPrimary
<1> QED  BY <1>1 DEF Settled, Alike

LEMMA AlikePaired ==
  ASSUME NEW h, Paired(h), NEW k, Alike(k, h),
         k.watermark # None => Settled(k, k.nodes[k.watermark].at)
  PROVE  Paired(k)
<1>1. OnPrimary(k) = OnPrimary(h) /\ OnPrimary(h) \subseteq DOMAIN h.nodes
  BY AlikePrimary DEF OnPrimary
<1>2. ASSUME NEW n \in OnPrimary(k) PROVE Paired1(k, n)
  BY <1>1 DEF Paired, Paired1, Alike
<1>3. ASSUME NEW m \in OnPrimary(k), NEW n \in OnPrimary(k), NEW c \in k.nodes[m].results,
             c \in k.nodes[n].results
      PROVE  m = n
  BY <1>1, <1>3 DEF Paired, Alike
<1>4. ASSUME NEW s \in OnPrimary(k), k.nodes[s].kind = "summary" PROVE Settled(k, s)
  BY <1>1, <1>4, AlikeSettled DEF Paired, Alike
<1> QED  BY <1>2, <1>3, <1>4 DEF Paired

-----------------------------------------------------------------------------
(* A node more *)

LEMMA GrownNodes ==
  ASSUME NEW h, Sound(h), NEW n, Newer(h, n), NEW node, node.branch \in DOMAIN h.branches,
         NEW k, GrownInto(k, h, n, node)
  PROVE  /\ DOMAIN k.nodes = DOMAIN h.nodes \cup {n} /\ n \notin DOMAIN h.nodes
         /\ k.nodes[n] = node /\ \A m \in DOMAIN h.nodes : k.nodes[m] = h.nodes[m]
         /\ k.primary = h.primary /\ k.watermark = h.watermark
         /\ k.branches[node.branch].head = n
         /\ node.branch # h.primary =>
              /\ OnPrimary(k) = OnPrimary(h)
              /\ k.branches[k.primary].head = h.branches[h.primary].head
         /\ node.branch = h.primary => OnPrimary(k) = OnPrimary(h) \cup {n}
<1>1. n \notin DOMAIN h.nodes /\ h.primary \in DOMAIN h.branches
  <2>1. n \in Nat /\ \A m \in DOMAIN h.nodes : m < n
    BY DEF Newer, NodeId
  <2>2. n \notin DOMAIN h.nodes
    BY <2>1
  <2> QED  BY <2>2 DEF Sound
<1>2. k.nodes = Put(h.nodes, n, node) /\ k.primary = h.primary /\ k.watermark = h.watermark
      /\ k.branches = [h.branches EXCEPT ![node.branch].head = n]
  BY DEF GrownInto
<1>3. /\ DOMAIN k.nodes = DOMAIN h.nodes \cup {n}
      /\ k.nodes[n] = node /\ \A m \in DOMAIN h.nodes : k.nodes[m] = h.nodes[m]
  <2>0. k.nodes = Put(h.nodes, n, node)
    BY <1>2
  <2>1. /\ DOMAIN k.nodes = DOMAIN h.nodes \cup {n}
        /\ k.nodes[n] = node
        /\ \A m \in DOMAIN h.nodes : m # n => k.nodes[m] = h.nodes[m]
    BY <2>0 DEF Put
  <2> QED  BY <1>1, <2>1
<1>4. h.branches \in [DOMAIN h.branches -> BranchRecord]
  BY DEF Sound, Typed, BranchRecord
<1> DEFINE bs == h.branches
           b  == node.branch
<1>5. k.branches[b].head = n /\ (b # h.primary => k.branches[h.primary].head = bs[h.primary].head)
  <2>1. bs \in [DOMAIN bs -> BranchRecord] /\ b \in DOMAIN bs /\ h.primary \in DOMAIN bs
        /\ k.branches = [bs EXCEPT ![b].head = n]
    BY <1>1, <1>2, <1>4
  <2> HIDE DEF bs, b
  <2> QED  BY <2>1 DEF BranchRecord
<1>6. b # h.primary => OnPrimary(k) = OnPrimary(h)
  BY <1>1, <1>2, <1>3 DEF OnPrimary
<1>7. b = h.primary => OnPrimary(k) = OnPrimary(h) \cup {n}
  BY <1>1, <1>2, <1>3 DEF OnPrimary
<1> QED  BY <1>1, <1>2, <1>3, <1>5, <1>6, <1>7

LEMMA GrownLined ==
  ASSUME NEW h, Sound(h), Lined(h), NEW n, Newer(h, n), NEW node,
         node.branch \in DOMAIN h.branches, node.parent = h.branches[node.branch].head,
         NEW k, GrownInto(k, h, n, node)
  PROVE  Lined(k)
<1>1. /\ DOMAIN k.nodes = DOMAIN h.nodes \cup {n} /\ n \notin DOMAIN h.nodes
      /\ k.nodes[n] = node /\ \A m \in DOMAIN h.nodes : k.nodes[m] = h.nodes[m]
      /\ k.primary = h.primary /\ k.watermark = h.watermark
      /\ k.branches[node.branch].head = n
      /\ node.branch # h.primary =>
           /\ OnPrimary(k) = OnPrimary(h)
           /\ k.branches[k.primary].head = h.branches[h.primary].head
      /\ node.branch = h.primary => OnPrimary(k) = OnPrimary(h) \cup {n}
  BY GrownNodes
<1>2. OnPrimary(h) \subseteq DOMAIN h.nodes /\ DOMAIN h.nodes \subseteq Nat
      /\ n \in Nat /\ n # None /\ \A m \in DOMAIN h.nodes : m < n
  BY GraphAssumption DEF OnPrimary, Sound, Typed, NodeId, Newer
<1>3. CASE node.branch # h.primary
  BY <1>1, <1>2, <1>3 DEF Lined
<1>4. CASE node.branch = h.primary
  <2> DEFINE P == OnPrimary(h)
             x == h.branches[h.primary].head
  <2>1. OnPrimary(k) = P \cup {n} /\ k.branches[k.primary].head = n /\ k.nodes[n].parent = x
    BY <1>1, <1>4
  <2>2. \A m \in P \cup {n} : m <= n
    BY <1>2
  <2>3. \/ k.nodes[n].parent = None /\ \A m \in P \cup {n} : n <= m
        \/ /\ k.nodes[n].parent # None
           /\ k.nodes[n].parent \in P \cup {n} /\ k.nodes[n].parent < n
           /\ \A m \in P \cup {n} : m <= k.nodes[n].parent \/ n <= m
    <3>1. CASE P = {} /\ x = None
      BY <1>2, <2>1, <3>1
    <3>2. CASE x \in P /\ x # None /\ \A m \in P : m <= x
      BY <1>2, <2>1, <3>2
    <3> QED  BY <3>1, <3>2 DEF Lined
  <2>4. ASSUME NEW m \in P
        PROVE  \/ k.nodes[m].parent = None /\ \A l \in P \cup {n} : m <= l
               \/ /\ k.nodes[m].parent # None
                  /\ k.nodes[m].parent \in P \cup {n} /\ k.nodes[m].parent < m
                  /\ \A l \in P \cup {n} : l <= k.nodes[m].parent \/ m <= l
    <3>1. k.nodes[m] = h.nodes[m] /\ m < n
      BY <1>1, <1>2
    <3>2. \/ h.nodes[m].parent = None /\ \A l \in P : m <= l
          \/ /\ h.nodes[m].parent # None
             /\ h.nodes[m].parent \in P /\ h.nodes[m].parent < m
             /\ \A l \in P : l <= h.nodes[m].parent \/ m <= l
      BY DEF Lined
    <3> QED  BY <1>2, <3>1, <3>2
  <2> QED  BY <1>2, <2>1, <2>2, <2>3, <2>4 DEF Lined
<1> QED  BY <1>3, <1>4

\* What a new node n of the primary branch may be.
Fits(h, n, node) ==
  /\ \A c \in node.calls : c[1] = n /\ node.kind = "assistant"
  /\ \A c \in node.results : c[1] < n /\ node.kind = "user" /\ c \notin ResultsOf(h)
  /\ node.at <= n
  /\ node.at # n => node.calls = {} /\ node.results = {} /\ node.kind = "user"
  /\ node.kind = "summary" => Settled(h, n)

LEMMA GrownSettled ==
  ASSUME NEW h, Sound(h), NEW n, Newer(h, n), NEW node,
         node.branch \in DOMAIN h.branches,
         NEW k, GrownInto(k, h, n, node), NEW x \in Nat, x <= n, Settled(h, x)
  PROVE  Settled(k, x)
<1>1. /\ DOMAIN k.nodes = DOMAIN h.nodes \cup {n} /\ n \notin DOMAIN h.nodes
      /\ \A m \in DOMAIN h.nodes : k.nodes[m] = h.nodes[m]
      /\ OnPrimary(k) = OnPrimary(h) \/ OnPrimary(k) = OnPrimary(h) \cup {n}
  BY GrownNodes
<1>2. OnPrimary(h) \subseteq DOMAIN h.nodes /\ DOMAIN h.nodes \subseteq Nat
      /\ n \in Nat
  BY DEF OnPrimary, Sound, Typed, NodeId, Newer
<1>3. ASSUME NEW m \in OnPrimary(k), m < x, NEW c \in k.nodes[m].calls
      PROVE  \E r \in OnPrimary(k) : r < x /\ c \in k.nodes[r].results
  <2>1. m # n
    BY <1>2, <1>3
  <2>2. m \in OnPrimary(h) /\ c \in h.nodes[m].calls
    BY <1>1, <1>2, <2>1
  <2>3. PICK r \in OnPrimary(h) : r < x /\ c \in h.nodes[r].results
    BY <1>3, <2>2 DEF Settled
  <2> QED  BY <1>1, <1>2, <2>3
<1> QED  BY <1>3 DEF Settled

LEMMA GrownPaired ==
  ASSUME NEW h, Sound(h), Paired(h), NEW n, Newer(h, n), NEW node,
         node.branch \in DOMAIN h.branches,
         node.branch = h.primary => Fits(h, n, node),
         NEW k, GrownInto(k, h, n, node)
  PROVE  Paired(k)
<1>1. /\ DOMAIN k.nodes = DOMAIN h.nodes \cup {n} /\ n \notin DOMAIN h.nodes
      /\ k.nodes[n] = node /\ \A m \in DOMAIN h.nodes : k.nodes[m] = h.nodes[m]
      /\ k.primary = h.primary /\ k.watermark = h.watermark
      /\ node.branch # h.primary => OnPrimary(k) = OnPrimary(h)
      /\ node.branch = h.primary => OnPrimary(k) = OnPrimary(h) \cup {n}
  BY GrownNodes
<1>2. OnPrimary(h) \subseteq DOMAIN h.nodes /\ DOMAIN h.nodes \subseteq Nat
      /\ n \in Nat /\ \A m \in DOMAIN h.nodes : m < n
  BY DEF OnPrimary, Sound, Typed, NodeId, Newer
<1>3. \A m \in OnPrimary(k) : m \in OnPrimary(h) \/ (m = n /\ Fits(h, n, node))
  BY <1>1
<1>4. ASSUME NEW m \in OnPrimary(k) PROVE Paired1(k, m)
  <2>1. CASE m \in OnPrimary(h)
    BY <1>1, <1>2, <2>1 DEF Paired, Paired1
  <2>2. CASE m = n /\ Fits(h, n, node)
    BY <1>1, <2>2 DEF Fits, Paired1
  <2> QED  BY <1>3, <2>1, <2>2
<1>5. ASSUME NEW m \in OnPrimary(h), NEW c \in k.nodes[m].results PROVE c \in ResultsOf(h)
  <2>1. c \in h.nodes[m].results
    BY <1>1, <1>2, <1>5
  <2> QED  BY <2>1 DEF ResultsOf
<1>6. ASSUME NEW l \in OnPrimary(k), NEW m \in OnPrimary(k), NEW c \in k.nodes[l].results,
             c \in k.nodes[m].results
      PROVE  l = m
  <2>1. CASE l \in OnPrimary(h) /\ m \in OnPrimary(h)
    BY <1>1, <1>2, <1>6, <2>1 DEF Paired
  <2>2. CASE l = n /\ Fits(h, n, node) /\ m \in OnPrimary(h)
    BY <1>1, <1>5, <1>6, <2>2 DEF Fits
  <2>3. CASE m = n /\ Fits(h, n, node) /\ l \in OnPrimary(h)
    BY <1>1, <1>5, <1>6, <2>3 DEF Fits
  <2> QED  BY <1>3, <2>1, <2>2, <2>3
<1>7. ASSUME NEW s \in OnPrimary(k), k.nodes[s].kind = "summary" PROVE Settled(k, s)
  <2>1. s \in Nat /\ s <= n
    BY <1>2, <1>3
  <2>2. Settled(h, s)
    BY <1>1, <1>2, <1>3, <1>7 DEF Paired, Fits
  <2> QED  BY <2>1, <2>2, GrownSettled
<1>8. ASSUME k.watermark # None PROVE Settled(k, k.nodes[k.watermark].at)
  <2> DEFINE w == h.watermark
  <2>1. w # None /\ k.watermark = w
    BY <1>1, <1>8
  <2>2. w \in OnPrimary(h)
    BY <2>1 DEF Sound, WatermarkValid, OnPrimary
  <2> DEFINE x == h.nodes[w].at
  <2>3. k.nodes[w] = h.nodes[w] /\ Settled(h, x)
    BY <1>1, <1>2, <2>1, <2>2 DEF Paired
  <2>4. x <= w /\ w < n /\ w \in Nat
    BY <1>2, <2>2 DEF Paired, Paired1
  <2>5. x \in Nat
    BY <1>2, <2>2 DEF Sound, Typed, NodeRecord
  <2>6. x <= n
    BY <1>2, <2>4, <2>5
  <2> HIDE DEF x
  <2>7. Settled(k, x)
    BY <2>3, <2>5, <2>6, GrownSettled
  <2> QED  BY <2>1, <2>3, <2>7 DEF x
<1> QED  BY <1>4, <1>6, <1>7, <1>8 DEF Paired

-----------------------------------------------------------------------------
(* What a model is sent *)

Since(h, n) ==
  \/ h.watermark \notin DOMAIN h.nodes
  \/ h.nodes[n].at >= h.nodes[h.watermark].at

Shown(h, n) ==
  /\ Since(h, n) /\ h.nodes[n].kind # "checkpoint"
  /\ \A s \in OnPrimary(h) : Since(h, s) /\ h.nodes[s].kind = "summary" => s <= n

Bounded(h) == \A n \in DOMAIN h.nodes : n <= MaxNode

LEMMA SoundLineage ==
  ASSUME NEW h, Sound(h), Bounded(h), Lined(h)
  PROVE  Ascends(Lineage(h, h.primary), OnPrimary(h))
<1>1. Downward(h)
  BY DEF Sound, Typed, NodeId, NodeValid, Downward
<1>2. MaxNode \in Nat
  BY HistoryAssumption
<1> QED  BY <1>1, <1>2, LineageAscends DEF Bounded, Sound

\* An earlier place has a smaller number.
LEMMA PlacesOrdered ==
  ASSUME NEW s, NEW S, Ascends(s, S), NEW i \in DOMAIN s, NEW j \in DOMAIN s
  PROVE  /\ i <= j <=> s[i] <= s[j]
         /\ i < j <=> s[i] < s[j]
         /\ s[i] = s[j] => i = j
<1>1. s \in Seq(Nat)
  BY DEF Ascends
<1>2. i \in Nat /\ j \in Nat /\ s[i] \in Nat /\ s[j] \in Nat
  BY <1>1
<1>3. (i < j => s[i] < s[j]) /\ (j < i => s[j] < s[i])
  BY DEF Ascends
<1> QED  BY <1>2, <1>3

LEMMA VisibleAscends ==
  ASSUME NEW h, Ascends(Lineage(h, h.primary), OnPrimary(h))
  PROVE  Ascends(Visible(h), {n \in OnPrimary(h) : Shown(h, n)})
<1> DEFINE line == Lineage(h, h.primary)
           P    == OnPrimary(h)
           left == {i \in DOMAIN line :
                      \/ h.watermark \notin DOMAIN h.nodes
                      \/ h.nodes[line[i]].at >= h.nodes[h.watermark].at}
           sums == {i \in left : h.nodes[line[i]].kind = "summary"}
           Q    == {i \in left : /\ h.nodes[line[i]].kind # "checkpoint"
                                 /\ \A s \in sums : s <= i}
           V    == {n \in P : Shown(h, n)}
<1>1. Visible(h) = Picked(line, Q)
  BY DEF Visible
<1>2. left = {i \in DOMAIN line : Since(h, line[i])}
  BY DEF Since
<1> HIDE DEF left
<1>3. sums = {i \in left : h.nodes[line[i]].kind = "summary"}
  OBVIOUS
<1> HIDE DEF sums, line
<1>4. Ascends(line, P) /\ \A i \in DOMAIN line : line[i] \in P
  BY DEF line, Ascends
<1>5. ASSUME NEW i \in DOMAIN line PROVE i \in Q <=> Shown(h, line[i])
  <2>1. ASSUME i \in Q PROVE Shown(h, line[i])
    <3>1. Since(h, line[i]) /\ h.nodes[line[i]].kind # "checkpoint"
      BY <1>2, <2>1
    <3>2. ASSUME NEW s \in P, Since(h, s), h.nodes[s].kind = "summary"
          PROVE  s <= line[i]
      <4>1. PICK j \in DOMAIN line : line[j] = s
        BY <1>4 DEF Ascends
      <4>2. j \in sums
        BY <1>2, <1>3, <3>2, <4>1
      <4>3. j <= i
        BY <2>1, <4>2
      <4> QED  BY <1>4, <4>1, <4>3, PlacesOrdered
    <3> QED  BY <3>1, <3>2 DEF Shown
  <2>2. ASSUME Shown(h, line[i]) PROVE i \in Q
    <3>1. i \in left /\ h.nodes[line[i]].kind # "checkpoint"
      BY <1>2, <2>2 DEF Shown
    <3>2. ASSUME NEW j \in sums PROVE j <= i
      <4>1. j \in DOMAIN line /\ Since(h, line[j]) /\ h.nodes[line[j]].kind = "summary"
        BY <1>2, <1>3
      <4>2. line[j] <= line[i]
        BY <1>4, <2>2, <4>1 DEF Shown
      <4> QED  BY <1>4, <4>1, <4>2, PlacesOrdered
    <3> QED  BY <3>1, <3>2
  <2> QED  BY <2>1, <2>2
<1>6. Q \subseteq DOMAIN line
  BY <1>2
<1> HIDE DEF Q
<1>7. Ascends(Picked(line, Q), {line[i] : i \in Q})
  BY <1>4, <1>6, PickedAscends
<1>8. {line[i] : i \in Q} = V
  <2>1. \A i \in Q : line[i] \in V
    BY <1>4, <1>5, <1>6
  <2>2. ASSUME NEW n \in V PROVE \E i \in Q : line[i] = n
    <3>1. PICK i \in DOMAIN line : line[i] = n
      BY <1>4 DEF Ascends
    <3> QED  BY <1>5, <3>1
  <2> QED  BY <2>1, <2>2
<1> QED  BY <1>1, <1>7, <1>8

\* If a result is shown, so is its call.
LEMMA PairsShown ==
  ASSUME NEW h, Sound(h), Paired(h), NEW r \in OnPrimary(h), Shown(h, r),
         NEW k \in OnPrimary(h), NEW c \in h.nodes[k].calls, c \in h.nodes[r].results
  PROVE  Shown(h, k) /\ k < r
<1>1. /\ c[1] = k /\ h.nodes[k].kind = "assistant" /\ h.nodes[k].at = k
      /\ c[1] < r /\ h.nodes[r].at = r
  BY DEF Paired, Paired1
<1>2. k \in Nat /\ r \in Nat
  BY DEF OnPrimary, Sound, Typed, NodeId
<1>3. ASSUME NEW x \in Nat, k < x, Settled(h, x) PROVE r < x
  <2>1. PICK q \in OnPrimary(h) : q < x /\ c \in h.nodes[q].results
    BY <1>3 DEF Settled
  <2>2. q = r
    BY <2>1 DEF Paired
  <2> QED  BY <2>1, <2>2
<1>4. Since(h, k)
  <2> SUFFICES ASSUME h.watermark \in DOMAIN h.nodes, ~(h.nodes[k].at >= h.nodes[h.watermark].at)
               PROVE  FALSE
    BY DEF Since
  <2> DEFINE x == h.nodes[h.watermark].at
  <2>1. x \in Nat /\ h.watermark # None
    BY GraphAssumption DEF Sound, Typed, NodeRecord, NodeId
  <2>2. k < x /\ Settled(h, x)
    BY <1>1, <1>2, <2>1 DEF Paired
  <2>3. r >= x
    BY <1>1 DEF Shown, Since
  <2> HIDE DEF x
  <2>4. r < x
    BY <1>3, <2>1, <2>2
  <2> QED  BY <1>2, <2>1, <2>3, <2>4
<1>5. ASSUME NEW s \in OnPrimary(h), Since(h, s), h.nodes[s].kind = "summary"
      PROVE  s <= k
  <2>1. s \in Nat /\ s <= r /\ Settled(h, s)
    BY <1>5 DEF Shown, Paired, OnPrimary, Sound, Typed, NodeId
  <2>2. k < s => r < s
    BY <1>3, <2>1
  <2> QED  BY <1>2, <2>1, <2>2
<1> QED  BY <1>1, <1>2, <1>4, <1>5 DEF Shown

\* The invariant of the graph of a session: it has no issue, its numbers are
\* in bounds, the primary branch is a chain, the events repeat it, and calls
\* and results are in order.
HistoryOK(h) ==
  /\ Sound(h) /\ Bounded(h) /\ h.primary = Main
  /\ Lined(h) /\ Remembered(h) /\ Paired(h)

\* A result that is shown has its call before it on the branch (Paired1), and
\* that is shown too: neither the watermark nor a summary lies between them.
LEMMA OKPairs == HistoryOK(g) => PairsVisible
<1> SUFFICES ASSUME HistoryOK(g) PROVE PairsVisible
  OBVIOUS
<1> DEFINE vis == Visible(g)
           V   == {n \in OnPrimary(g) : Shown(g, n)}
<1>1. Ascends(vis, V)
  BY SoundLineage, VisibleAscends DEF HistoryOK
<1> SUFFICES ASSUME NEW i \in DOMAIN vis, NEW c \in g.nodes[vis[i]].results \cap CallsOf(g)
             PROVE  \E j \in 1..(i - 1) : c \in g.nodes[vis[j]].calls
  BY DEF PairsVisible
<1> HIDE DEF vis, V
<1>2. vis[i] \in OnPrimary(g) /\ Shown(g, vis[i])
  BY <1>1 DEF Ascends, V
<1>3. PICK k \in OnPrimary(g) : c \in g.nodes[k].calls
  BY DEF CallsOf
<1>4. Shown(g, k) /\ k < vis[i]
  BY <1>2, <1>3, PairsShown DEF HistoryOK
<1>5. PICK j \in DOMAIN vis : vis[j] = k
  BY <1>1, <1>3, <1>4 DEF Ascends, V
<1>6. j < i
  BY <1>1, <1>4, <1>5, PlacesOrdered
<1>7. vis \in Seq(Nat)
  BY <1>1 DEF Ascends
<1> QED  BY <1>3, <1>5, <1>6, <1>7

-----------------------------------------------------------------------------
(* A node more, on any branch *)

LEMMA HeadAccepted ==
  ASSUME NEW h, Sound(h), NEW n, Newer(h, n), NEW b \in DOMAIN h.branches
  PROVE  ~Refused(h, n, b, h.branches[b].head)
<1>1. n \notin DOMAIN h.nodes
  <2>1. n \in Nat /\ \A m \in DOMAIN h.nodes : m < n
    BY DEF Newer, NodeId
  <2> QED  BY <2>1
<1>2. BranchValid(h, b)
  BY DEF Sound
<1> QED  BY <1>1, <1>2 DEF BranchValid, Refused

LEMMA GrownBounded ==
  ASSUME NEW h, Sound(h), Bounded(h), NEW n, Newer(h, n), n <= MaxNode, NEW node,
         node.branch \in DOMAIN h.branches, NEW k, GrownInto(k, h, n, node)
  PROVE  Bounded(k)
<1>1. DOMAIN k.nodes = DOMAIN h.nodes \cup {n}
  BY GrownNodes
<1> QED  BY <1>1 DEF Bounded

LEMMA AppendedOK ==
  ASSUME NEW h, HistoryOK(h), NEW n, Newer(h, n), n <= MaxNode, NEW node \in NodeRecord,
         node.branch \in DOMAIN h.branches, node.parent = h.branches[node.branch].head,
         node.branch = Main => Fits(h, n, node)
  PROVE  HistoryOK(Appended(h, n, node))
<1> DEFINE k == Appended(h, n, node)
<1>1. Sound(h) /\ IsGraph(h) /\ h.primary = Main
  BY DEF HistoryOK, Sound, Typed
<1>2. GrownInto(k, h, n, node)
  BY <1>1, GrownFields DEF Appended
<1>3. Remembered(k)
  <2>1. h.events = << >> => node.branch = Main
    BY DEF HistoryOK, Remembered, NewGraph
  <2> QED  BY <1>1, <2>1, AppendedRemembered DEF HistoryOK
<1> HIDE DEF k
<1>4. Sound(k)
  <2>1. ~Refused(h, n, node.branch, node.parent)
    BY <1>1, HeadAccepted
  <2> QED  BY <1>1, <1>2, <2>1, GrownSound
<1>5. Bounded(k)
  BY <1>1, <1>2, GrownBounded DEF HistoryOK
<1>6. Lined(k)
  BY <1>1, <1>2, GrownLined DEF HistoryOK
<1>7. Paired(k)
  BY <1>1, <1>2, GrownPaired DEF HistoryOK
<1>8. k.primary = Main
  BY <1>1, <1>2 DEF GrownInto
<1>9. HistoryOK(k)
  BY <1>3, <1>4, <1>5, <1>6, <1>7, <1>8 DEF HistoryOK
<1> QED  BY <1>9 DEF k

LEMMA CheckpointedOK ==
  ASSUME NEW h, HistoryOK(h), NEW n, Newer(h, n), n <= MaxNode
  PROVE  HistoryOK(Checkpointed(h, n, h.primary))
<1> DEFINE b    == h.primary
           node == Node(h, b, Text("checkpoint"), n)
           k    == Checkpointed(h, n, b)
<1>1. Sound(h) /\ IsGraph(h) /\ b = Main /\ b \in DOMAIN h.branches
  BY DEF HistoryOK, Sound, Typed
<1>2. /\ node \in NodeRecord /\ node.branch = b /\ node.parent = h.branches[b].head
      /\ node.calls = {} /\ node.results = {} /\ node.kind = "checkpoint" /\ node.at = n
  BY <1>1 DEF Sound, Typed, Newer, Node, Text, NodeRecord, Kind, NodeId
<1> HIDE DEF node
<1>3. GrownInto(k, h, n, node)
  BY <1>1, <1>2, GrownFields DEF Checkpointed, node
<1>4. Remembered(k)
  BY <1>1, CheckpointedRemembered DEF HistoryOK
<1>5. Sound(k)
  <2>1. ~Refused(h, n, b, h.branches[b].head)
    BY <1>1, HeadAccepted
  <2> QED  BY <1>1, <2>1, CheckpointedSound
<1> HIDE DEF k, b
<1>6. Bounded(k)
  BY <1>1, <1>2, <1>3, GrownBounded DEF HistoryOK
<1>7. Lined(k)
  BY <1>1, <1>2, <1>3, GrownLined DEF HistoryOK
<1>8. Paired(k)
  <2>1. n \in Nat
    BY DEF Newer, NodeId
  <2>2. Fits(h, n, node)
    BY <1>2, <2>1 DEF Fits
  <2> QED  BY <1>1, <1>2, <1>3, <2>2, GrownPaired DEF HistoryOK
<1>9. k.primary = Main
  BY <1>1, <1>3 DEF GrownInto, b
<1>10. HistoryOK(k)
  BY <1>4, <1>5, <1>6, <1>7, <1>8, <1>9 DEF HistoryOK
<1> QED  BY <1>10 DEF k, b

-----------------------------------------------------------------------------
(* The operations that leave the nodes alone *)

LEMMA UnchangedNodes ==
  ASSUME NEW h, HistoryOK(h), NEW k, Sound(k), Remembered(k), Alike(k, h),
         k.watermark # None => Settled(k, k.nodes[k.watermark].at)
  PROVE  HistoryOK(k)
  BY AlikeLined, AlikePaired DEF HistoryOK, Alike, Bounded

LEMMA HasEvents ==
  ASSUME NEW h, HistoryOK(h), NEW n \in DOMAIN h.nodes
  PROVE  h.events # << >>
<1>1. DOMAIN NewGraph.nodes = {}
  BY DEF NewGraph
<1> QED  BY <1>1 DEF HistoryOK, Remembered

LEMMA OKWatermark ==
  ASSUME NEW h, HistoryOK(h), NEW k, Alike(k, h), k.watermark = h.watermark
  PROVE  k.watermark # None => Settled(k, k.nodes[k.watermark].at)
<1> SUFFICES ASSUME h.watermark # None
             PROVE  Settled(k, k.nodes[h.watermark].at)
  OBVIOUS
<1>1. h.watermark \in DOMAIN h.nodes /\ Settled(h, h.nodes[h.watermark].at)
  BY DEF HistoryOK, Sound, WatermarkValid, Paired
<1>2. k.nodes[h.watermark].at = h.nodes[h.watermark].at
  BY <1>1 DEF Alike
<1> QED  BY <1>1, <1>2, AlikeSettled

LEMMA BookmarkedOK ==
  ASSUME NEW h, HistoryOK(h), NEW m, NEW n \in DOMAIN h.nodes
  PROVE  HistoryOK(Bookmarked(h, m, n))
<1> DEFINE k == Bookmarked(h, m, n)
<1>1. Sound(h) /\ IsGraph(h) /\ h.nodes[n].branch \in DOMAIN h.branches
  BY DEF HistoryOK, Sound, Typed, NodeValid
<1>2. Sound(k)
  BY <1>1, BookmarkedSound
<1>3. Remembered(k)
  BY <1>1, HasEvents, BookmarkedRemembered DEF HistoryOK
<1>4. /\ k.nodes = h.nodes /\ k.primary = h.primary /\ k.branches = h.branches
      /\ k.watermark = h.watermark
  <2> DEFINE mark == [node |-> n, branch |-> h.nodes[n].branch]
             v == Put(h.marks, m, mark)
             e == [type |-> "mark", id |-> m, mark |-> mark]
             j == [h EXCEPT !.marks = v]
  <2>1. k = Pushed(j, e)
    BY DEF Bookmarked
  <2> HIDE DEF k, v, e
  <2>2. j \in [nodes : {h.nodes}, marks : {v}, primary : {h.primary},
               watermark : {h.watermark}, branches : {h.branches}, events : {h.events}]
    BY <1>1, GraphIsRecord
  <2> HIDE DEF j
  <2>3. /\ IsGraph(j) /\ j.nodes = h.nodes /\ j.primary = h.primary
        /\ j.branches = h.branches /\ j.watermark = h.watermark
    BY <2>2 DEF IsGraph
  <2> QED  BY <2>1, <2>3, PushedFields DEF Same
<1> HIDE DEF k
<1>5. Alike(k, h)
  BY <1>4 DEF Alike
<1>6. HistoryOK(k)
  BY <1>2, <1>3, <1>4, <1>5, OKWatermark, UnchangedNodes
<1> QED  BY <1>6 DEF k

LEMMA PatchedOK ==
  ASSUME NEW h, HistoryOK(h), NEW n \in DOMAIN h.nodes
  PROVE  HistoryOK(PatchedMeta(h, n))
<1> DEFINE k == PatchedMeta(h, n)
           v == [h.nodes EXCEPT ![n].patched = TRUE]
<1>1. Sound(h) /\ IsGraph(h) /\ h.nodes \in [DOMAIN h.nodes -> NodeRecord]
  BY DEF HistoryOK, Sound, Typed
<1>2. Sound(k)
  BY <1>1, PatchedSound
<1>3. Remembered(k)
  BY <1>1, HasEvents, PatchedRemembered DEF HistoryOK
<1>4. /\ k.nodes = v /\ k.primary = h.primary /\ k.branches = h.branches
      /\ k.watermark = h.watermark
  <2> DEFINE e == [type |-> "patch", id |-> n]
             j == [h EXCEPT !.nodes = v]
  <2>1. k = Pushed(j, e)
    BY DEF PatchedMeta, Patched
  <2> HIDE DEF k, v, e
  <2>2. j \in [nodes : {v}, marks : {h.marks}, primary : {h.primary},
               watermark : {h.watermark}, branches : {h.branches}, events : {h.events}]
    BY <1>1, GraphIsRecord
  <2> HIDE DEF j
  <2>3. /\ IsGraph(j) /\ j.nodes = v /\ j.primary = h.primary
        /\ j.branches = h.branches /\ j.watermark = h.watermark
    BY <2>2 DEF IsGraph
  <2> QED  BY <2>1, <2>3, PushedFields DEF Same
<1>5. /\ DOMAIN v = DOMAIN h.nodes
      /\ \A m \in DOMAIN h.nodes :
           /\ v[m].branch = h.nodes[m].branch /\ v[m].parent = h.nodes[m].parent
           /\ v[m].at = h.nodes[m].at /\ v[m].kind = h.nodes[m].kind
           /\ v[m].calls = h.nodes[m].calls /\ v[m].results = h.nodes[m].results
  BY <1>1 DEF NodeRecord
<1> HIDE DEF k, v
<1>6. Alike(k, h)
  BY <1>4, <1>5 DEF Alike
<1>7. HistoryOK(k)
  BY <1>2, <1>3, <1>4, <1>6, OKWatermark, UnchangedNodes
<1> QED  BY <1>7 DEF k

LEMMA ForkedOK ==
  ASSUME NEW h, HistoryOK(h), h.events # << >>, NEW b \in Fork \ DOMAIN h.branches,
         NEW from \in DOMAIN h.nodes \cup {None}
  PROVE  HistoryOK(Forked(h, b, from))
<1> DEFINE k == Forked(h, b, from)
<1>1. Sound(h) /\ IsGraph(h) /\ h.primary \in DOMAIN h.branches
  BY DEF HistoryOK, Sound, Typed
<1>2. Sound(k)
  BY <1>1, ForkedSound
<1>3. Remembered(k)
  BY <1>1, ForkedRemembered DEF HistoryOK
<1>4. /\ k.nodes = h.nodes /\ k.primary = h.primary /\ k.watermark = h.watermark
      /\ k.branches = Put(h.branches, b, [head |-> from, forked |-> from])
  BY <1>1, BranchedFields DEF Forked
<1>5. k.branches[h.primary] = h.branches[h.primary]
  BY <1>1, <1>4 DEF Put
<1> HIDE DEF k
<1>6. Alike(k, h)
  BY <1>4, <1>5 DEF Alike
<1>7. HistoryOK(k)
  BY <1>2, <1>3, <1>4, <1>6, OKWatermark, UnchangedNodes
<1> QED  BY <1>7 DEF k

LEMMA ArchivedFields ==
  ASSUME NEW h, IsGraph(h), NEW w
  PROVE  LET k == Archived(h, w)
         IN  /\ k.nodes = h.nodes /\ k.primary = h.primary /\ k.watermark = w
             /\ k.branches = h.branches
<1> DEFINE k == Archived(h, w)
           e == [type |-> "archive", id |-> w]
           j == [h EXCEPT !.watermark = w]
<1>1. k = Pushed(j, e)
  BY DEF Archived
<1> HIDE DEF k, e
<1>2. j \in [nodes : {h.nodes}, marks : {h.marks}, primary : {h.primary},
             watermark : {w}, branches : {h.branches}, events : {h.events}]
  BY GraphIsRecord
<1> HIDE DEF j
<1>3. IsGraph(j) /\ j.nodes = h.nodes /\ j.primary = h.primary /\ j.watermark = w
      /\ j.branches = h.branches
  BY <1>2 DEF IsGraph
<1>4. k.nodes = h.nodes /\ k.primary = h.primary /\ k.watermark = w
      /\ k.branches = h.branches
  BY <1>1, <1>3, PushedFields DEF Same
<1> QED  BY <1>4 DEF k

LEMMA ArchivedOK ==
  ASSUME NEW h, HistoryOK(h), NEW w \in OnPrimary(h), Settled(h, h.nodes[w].at)
  PROVE  HistoryOK(Archived(h, w))
<1> DEFINE k == Archived(h, w)
<1>1. Sound(h) /\ IsGraph(h) /\ w \in DOMAIN h.nodes
  BY DEF HistoryOK, Sound, Typed, OnPrimary
<1>2. Sound(k)
  BY <1>1, ArchivedSound
<1>3. Remembered(k)
  BY <1>1, HasEvents, ArchivedRemembered DEF HistoryOK
<1>4. k.nodes = h.nodes /\ k.primary = h.primary /\ k.branches = h.branches /\ k.watermark = w
  BY <1>1, ArchivedFields
<1> HIDE DEF k
<1>5. Alike(k, h)
  BY <1>4 DEF Alike
<1>6. Settled(k, k.nodes[w].at)
  BY <1>4, <1>5, AlikeSettled
<1>7. HistoryOK(k)
  BY <1>2, <1>3, <1>4, <1>5, <1>6, UnchangedNodes
<1> QED  BY <1>7 DEF k

-----------------------------------------------------------------------------
(* A new session with copies of nodes *)

Prev(ns, n) == IF n = ns[1] THEN None ELSE ns[(CHOOSE i \in DOMAIN ns : ns[i] = n) - 1]

Copied(ns, nodes, n) ==
  [nodes[n] EXCEPT !.branch = Main, !.patched = FALSE, !.parent = Prev(ns, n)]

CopyEvent(ns, nodes, i) ==
  [type |-> "node", id |-> ns[i], node |-> Copied(ns, nodes, ns[i])]

\* The new session when it has the first i copies.
Part(ns, nodes, i) ==
  [nodes |-> [n \in {ns[j] : j \in 1..i} |-> Copied(ns, nodes, n)], marks |-> << >>,
   primary |-> Main, watermark |-> None,
   branches |-> [b \in {Main} |-> [head |-> IF i = 0 THEN None ELSE ns[i], forked |-> None]],
   events |-> [j \in 1..i |-> CopyEvent(ns, nodes, j)]]

LEMMA FirstPart ==
  ASSUME NEW ns, NEW nodes
  PROVE  Part(ns, nodes, 0) = NewGraph
<1>1. [n \in {ns[j] : j \in 1..0} |-> Copied(ns, nodes, n)] = << >>
  OBVIOUS
<1>2. [j \in 1..0 |-> CopyEvent(ns, nodes, j)] = << >>
  OBVIOUS
<1> QED  BY <1>1, <1>2 DEF Part, NewGraph

\* What may be copied.
Copyable(nodes, S) ==
  /\ S \subseteq NodeId /\ \A n \in S : nodes[n] \in NodeRecord /\ n <= MaxNode
  /\ \A n \in S :
       /\ \A c \in nodes[n].calls : c[1] = n /\ nodes[n].kind = "assistant"
       /\ \A c \in nodes[n].results : c[1] < n /\ nodes[n].kind = "user"
       /\ nodes[n].at <= n
       /\ nodes[n].at # n =>
            nodes[n].calls = {} /\ nodes[n].results = {} /\ nodes[n].kind = "user"
       /\ nodes[n].kind = "summary" => \A m \in S : n <= m
  /\ \A m, n \in S : \A c \in nodes[m].results : c \in nodes[n].results => m = n

LEMMA PrevIs ==
  ASSUME NEW ns, NEW S, Ascends(ns, S), NEW i \in DOMAIN ns
  PROVE  /\ i = 1 => Prev(ns, ns[i]) = None
         /\ i # 1 => Prev(ns, ns[i]) = ns[i - 1]
<1>1. ns \in Seq(Nat) /\ i \in 1..Len(ns) /\ 1 \in DOMAIN ns
  BY DEF Ascends
<1>2. \A j \in DOMAIN ns : ns[j] = ns[i] => j = i
  BY PlacesOrdered
<1>3. (CHOOSE j \in DOMAIN ns : ns[j] = ns[i]) = i
  BY <1>2
<1> QED  BY <1>1, <1>2, <1>3 DEF Prev

LEMMA CopiedIs ==
  ASSUME NEW ns, NEW nodes, NEW n, nodes[n] \in NodeRecord, Prev(ns, n) \in NodeId \cup {None}
  PROVE  LET node == Copied(ns, nodes, n)
         IN  /\ node \in NodeRecord /\ node.branch = Main /\ node.parent = Prev(ns, n)
             /\ node.calls = nodes[n].calls /\ node.results = nodes[n].results
             /\ node.kind = nodes[n].kind /\ node.at = nodes[n].at
<1> DEFINE x == nodes[n]
           p == Prev(ns, n)
           node == [x EXCEPT !.branch = Main, !.patched = FALSE, !.parent = p]
<1>1. x \in NodeRecord /\ p \in NodeId \cup {None}
  OBVIOUS
<1>2. Copied(ns, nodes, n) = node
  BY DEF Copied
<1> HIDE DEF x, p
<1>3. /\ node \in NodeRecord /\ node.branch = Main /\ node.parent = p
      /\ node.calls = x.calls /\ node.results = x.results
      /\ node.kind = x.kind /\ node.at = x.at
  BY <1>1 DEF NodeRecord, Branch
<1> HIDE DEF node
<1> QED  BY <1>2, <1>3 DEF x, p

LEMMA ListOneMore ==
  ASSUME NEW i \in Nat, NEW f
  PROVE  Append([l \in 1..i |-> f[l]], f[i + 1]) = [l \in 1..i + 1 |-> f[l]]
<1> DEFINE S == {f[l] : l \in 1..i + 1}
           s == [l \in 1..i |-> f[l]]
           t == Append(s, f[i + 1])
<1>1. \A l \in 1..i + 1 : f[l] \in S
  OBVIOUS
<1>2. i + 1 \in 1..i + 1 /\ \A l \in 1..i : l \in 1..i + 1
  OBVIOUS
<1> HIDE DEF S
<1>3. s \in Seq(S) /\ Len(s) = i /\ \A l \in 1..i : s[l] = f[l]
  BY <1>1, <1>2
<1> HIDE DEF s
<1>4. t \in Seq(S) /\ Len(t) = i + 1 /\ t[i + 1] = f[i + 1] /\ \A l \in 1..i : t[l] = f[l]
  BY <1>1, <1>2, <1>3
<1> HIDE DEF t
<1>5. \A l \in 1..i + 1 : t[l] = f[l]
  BY <1>4
<1>6. t = [l \in 1..i + 1 |-> t[l]]
  BY <1>4
<1> QED  BY <1>5, <1>6 DEF t, s

\* The next copy is appended as any message is.
LEMMA NextPart ==
  ASSUME NEW ns, NEW nodes, NEW S, Ascends(ns, S), Copyable(nodes, S),
         NEW i \in Nat, i + 1 \in DOMAIN ns
  PROVE  Part(ns, nodes, i + 1)
           = Appended(Part(ns, nodes, i), ns[i + 1], Copied(ns, nodes, ns[i + 1]))
<1> DEFINE h == Part(ns, nodes, i)
           m == i + 1
           n == ns[m]
           node == Copied(ns, nodes, n)
           e == [type |-> "node", id |-> n, node |-> node]
           j == Part(ns, nodes, m)
           k == Appended(h, n, node)
           C == {ns[l] : l \in 1..i}
           D == {ns[l] : l \in 1..m}
           es == [l \in 1..i |-> CopyEvent(ns, nodes, l)]
           hd == IF i = 0 THEN None ELSE ns[i]
<1>1. /\ IsGraph(h) /\ h.nodes = [x \in C |-> Copied(ns, nodes, x)] /\ h.marks = << >>
      /\ h.primary = Main /\ h.watermark = None /\ h.events = es
      /\ h.branches = [b \in {Main} |-> [head |-> hd, forked |-> None]]
  BY DEF Part, IsGraph
<1>2. /\ IsGraph(j) /\ j.nodes = [x \in D |-> Copied(ns, nodes, x)] /\ j.marks = << >>
      /\ j.primary = Main /\ j.watermark = None
      /\ j.events = [l \in 1..m |-> CopyEvent(ns, nodes, l)]
      /\ j.branches = [b \in {Main} |-> [head |-> n, forked |-> None]]
  BY DEF Part, IsGraph
<1>3. node.branch = Main
  <2>1. n \in S /\ nodes[n] \in NodeRecord
    BY DEF Ascends, Copyable
  <2>2. Prev(ns, n) \in NodeId \cup {None}
    <3>1. m \in DOMAIN ns /\ (m # 1 => m - 1 \in DOMAIN ns)
      BY DEF Ascends
    <3>2. m # 1 => ns[m - 1] \in NodeId
      BY <3>1 DEF Ascends, Copyable
    <3> QED  BY <3>1, <3>2, PrevIs
  <2> QED  BY <2>1, <2>2, CopiedIs
<1>4. e = CopyEvent(ns, nodes, m)
  BY DEF CopyEvent
<1>5. D = C \cup {n}
  BY DEF C, D
<1>6. [l \in 1..m |-> CopyEvent(ns, nodes, l)] = Append(es, e)
  <2> DEFINE f == [l \in 1..m |-> CopyEvent(ns, nodes, l)]
  <2>1. f = [l \in 1..m |-> f[l]] /\ es = [l \in 1..i |-> f[l]] /\ f[m] = e
    BY <1>4
  <2> HIDE DEF f, es, e
  <2>2. Append([l \in 1..i |-> f[l]], f[i + 1]) = [l \in 1..i + 1 |-> f[l]]
    BY ListOneMore
  <2> QED  BY <2>1, <2>2 DEF f
<1>7. k = Pushed(Grown(h, n, node), e)
  BY DEF Appended
<1> HIDE DEF h, j, node, e, es, C, D, hd, k, n
<1>8. Main \in DOMAIN h.branches
  BY <1>1
<1>9. GrownInto(k, h, n, node)
  BY <1>1, <1>3, <1>7, <1>8, GrownFields
<1>10. k.events = Append(es, e)
  BY <1>1, <1>7, GrownEvents
<1>11. k.nodes = j.nodes
  <2>1. k.nodes = Put(h.nodes, n, node)
    BY <1>9 DEF GrownInto
  <2>2. Put(h.nodes, n, node) = [x \in C \cup {n} |-> IF x = n THEN node ELSE Copied(ns, nodes, x)]
    BY <1>1 DEF Put
  <2>3. node = Copied(ns, nodes, n)
    BY DEF node
  <2>4. Put(h.nodes, n, node) = [x \in C \cup {n} |-> Copied(ns, nodes, x)]
    BY <2>2, <2>3
  <2> QED  BY <1>2, <1>5, <2>1, <2>4
<1>12. k.branches = j.branches
  <2>1. k.branches = [h.branches EXCEPT ![Main].head = n]
    BY <1>3, <1>9 DEF GrownInto
  <2> QED  BY <1>1, <1>2, <2>1
<1>13. k.marks = j.marks /\ k.primary = j.primary /\ k.watermark = j.watermark /\ IsGraph(k)
  BY <1>1, <1>2, <1>9 DEF GrownInto
<1>14. k.events = j.events
  BY <1>2, <1>6, <1>10
<1>15. j = k
  BY <1>2, <1>11, <1>12, <1>13, <1>14, GraphsEqual
<1> QED  BY <1>15 DEF j, k, h, n, node

With(ns, hd, es) ==
  [NewGraph EXCEPT !.nodes = ns, !.branches[Main].head = hd, !.events = es]

LEMMA NewWith ==
  ASSUME NEW ns, NEW hd, NEW es
  PROVE  With(ns, hd, es)
           = [nodes |-> ns, marks |-> << >>, primary |-> Main, watermark |-> None,
              branches |-> [b \in {Main} |-> [head |-> hd, forked |-> None]], events |-> es]
<1> DEFINE bs == [b \in {Main} |-> [head |-> hd, forked |-> None]]
<1>1. [NewGraph.branches EXCEPT ![Main].head = hd] = bs
  BY DEF NewGraph
<1>2. With(ns, hd, es) = [NewGraph EXCEPT !.nodes = ns, !.branches = bs, !.events = es]
  BY <1>1 DEF NewGraph, With
<1> HIDE DEF bs
<1> DEFINE k == [NewGraph EXCEPT !.nodes = ns, !.branches = bs, !.events = es]
           h == NewGraph
<1>3. IsGraph(h) /\ h.marks = << >> /\ h.primary = Main /\ h.watermark = None
  BY DEF NewGraph, IsGraph
<1>4. k = [h EXCEPT !.nodes = ns, !.branches = bs, !.events = es]
  OBVIOUS
<1> HIDE DEF h, k
<1>5. k \in [nodes : {ns}, marks : {h.marks}, primary : {h.primary},
             watermark : {h.watermark}, branches : {bs}, events : {es}]
  BY <1>3, <1>4, GraphIsRecord
<1>6. k = [nodes |-> ns, marks |-> << >>, primary |-> Main, watermark |-> None,
           branches |-> bs, events |-> es]
  BY <1>3, <1>5
<1> QED  BY <1>2, <1>6 DEF bs, k

\* With copies of all of them it is the session that a fork makes.
LEMMA WholePart ==
  ASSUME NEW ns, NEW nodes, NEW S, Ascends(ns, S)
  PROVE  Chained(ns, nodes) = Part(ns, nodes, Len(ns))
<1>1. ns \in Seq(Nat) /\ Len(ns) \in Nat /\ DOMAIN ns = 1..Len(ns)
  BY DEF Ascends
<1> DEFINE body == [n \in ToSet(ns) |-> Copied(ns, nodes, n)]
<1>2. Chained(ns, nodes) =
        [NewGraph EXCEPT
            !.nodes = body,
            !.branches[Main].head = IF ns = << >> THEN None ELSE Last(ns),
            !.events = [i \in DOMAIN ns |-> [type |-> "node", id |-> ns[i], node |-> body[ns[i]]]]]
  BY DEF Chained, Copied, Prev
<1>3. body = [n \in {ns[j] : j \in 1..Len(ns)} |-> Copied(ns, nodes, n)]
  BY <1>1 DEF ToSet
<1>4. [i \in DOMAIN ns |-> [type |-> "node", id |-> ns[i], node |-> body[ns[i]]]]
        = [j \in 1..Len(ns) |-> CopyEvent(ns, nodes, j)]
  <2>1. \A i \in DOMAIN ns : body[ns[i]] = Copied(ns, nodes, ns[i])
    BY <1>1, <1>3
  <2> HIDE DEF body
  <2>2. \A i \in DOMAIN ns : [type |-> "node", id |-> ns[i], node |-> body[ns[i]]]
                                 = CopyEvent(ns, nodes, i)
    BY <2>1 DEF CopyEvent
  <2>3. [i \in DOMAIN ns |-> [type |-> "node", id |-> ns[i], node |-> body[ns[i]]]]
          = [i \in DOMAIN ns |-> CopyEvent(ns, nodes, i)]
    BY <2>2
  <2>4. DOMAIN ns = 1..Len(ns)
    BY <1>1
  <2> QED  BY <2>3, <2>4, Zenon
<1>5. (IF ns = << >> THEN None ELSE Last(ns)) = (IF Len(ns) = 0 THEN None ELSE ns[Len(ns)])
  BY <1>1 DEF Last
<1> HIDE DEF body
<1> DEFINE hd == IF Len(ns) = 0 THEN None ELSE ns[Len(ns)]
           es == [j \in 1..Len(ns) |-> CopyEvent(ns, nodes, j)]
           c  == With(body, hd, es)
<1>6. Chained(ns, nodes) = c
  BY <1>2, <1>4, <1>5 DEF With
<1>7. Part(ns, nodes, Len(ns))
        = [nodes |-> body, marks |-> << >>, primary |-> Main, watermark |-> None,
           branches |-> [b \in {Main} |-> [head |-> hd, forked |-> None]], events |-> es]
  BY <1>3 DEF Part
<1> HIDE DEF hd, es
<1>8. c = [nodes |-> body, marks |-> << >>, primary |-> Main, watermark |-> None,
           branches |-> [b \in {Main} |-> [head |-> hd, forked |-> None]], events |-> es]
  BY NewWith
<1> HIDE DEF c
<1> QED  BY <1>6, <1>7, <1>8

LEMMA NewOK == HistoryOK(NewGraph)
<1> DEFINE h == NewGraph
<1>1. /\ DOMAIN h.nodes = {} /\ h.primary = Main /\ h.watermark = None
      /\ h.branches[Main].head = None
  BY DEF NewGraph
<1>2. Sound(h) /\ Remembered(h)
  BY NewGraphSound, NewRemembered
<1> HIDE DEF h
<1>3. OnPrimary(h) = {}
  BY <1>1 DEF OnPrimary
<1> QED  BY <1>1, <1>2, <1>3 DEF HistoryOK, Bounded, Lined, Paired, h

LEMMA NextPartOK ==
  ASSUME NEW ns, NEW nodes, NEW S, Ascends(ns, S), Copyable(nodes, S),
         NEW i \in Nat, i + 1 \in DOMAIN ns, HistoryOK(Part(ns, nodes, i))
  PROVE  HistoryOK(Part(ns, nodes, i + 1))
<1> DEFINE h == Part(ns, nodes, i)
           n == ns[i + 1]
           node == Copied(ns, nodes, n)
           C == {ns[j] : j \in 1..i}
<1>1. /\ ns \in Seq(Nat) /\ DOMAIN ns = 1..Len(ns) /\ Len(ns) \in Nat
      /\ n \in S /\ \A j \in 1..i : j \in DOMAIN ns /\ ns[j] \in S
  BY DEF Ascends
<1>2. ASSUME NEW m \in C PROVE m \in S /\ m < n
  <2>1. PICK j \in 1..i : ns[j] = m
    OBVIOUS
  <2>2. j \in DOMAIN ns /\ j < i + 1 /\ ns[j] \in S
    BY <1>1
  <2> QED  BY <2>1, <2>2 DEF Ascends
<1>3. /\ DOMAIN h.nodes = C /\ \A m \in C : h.nodes[m] = Copied(ns, nodes, m)
      /\ h.primary = Main /\ Main \in DOMAIN h.branches
      /\ h.branches[Main].head = IF i = 0 THEN None ELSE ns[i]
  <2> DEFINE hd == IF i = 0 THEN None ELSE ns[i]
  <2>1. /\ h.nodes = [m \in C |-> Copied(ns, nodes, m)] /\ h.primary = Main
        /\ h.branches = [b \in {Main} |-> [head |-> hd, forked |-> None]]
    BY DEF Part
  <2> HIDE DEF h, C, hd
  <2>2. DOMAIN h.nodes = C /\ \A m \in C : h.nodes[m] = Copied(ns, nodes, m)
    BY <2>1
  <2>3. Main \in DOMAIN h.branches /\ h.branches[Main].head = hd
    BY <2>1
  <2> QED  BY <2>1, <2>2, <2>3 DEF hd
<1>4. \A m \in S : nodes[m] \in NodeRecord /\ m \in NodeId
  BY DEF Copyable
<1>p. ASSUME NEW j \in DOMAIN ns
      PROVE  Prev(ns, ns[j]) \in NodeId \cup {None}
  <2>1. j # 1 => j - 1 \in DOMAIN ns
    BY <1>1
  <2>2. j # 1 => ns[j - 1] \in NodeId
    BY <1>4, <2>1 DEF Ascends
  <2> QED  BY <2>1, <2>2, PrevIs
<1>5. /\ node \in NodeRecord /\ node.branch = Main /\ node.parent = Prev(ns, n)
      /\ node.calls = nodes[n].calls /\ node.results = nodes[n].results
      /\ node.kind = nodes[n].kind /\ node.at = nodes[n].at
  BY <1>1, <1>4, <1>p, CopiedIs
<1>6. node.parent = h.branches[Main].head
  <2>1. CASE i = 0
    BY <1>1, <1>3, <1>5, <2>1, PrevIs
  <2>2. CASE i # 0
    <3>1. i + 1 # 1 /\ (i + 1) - 1 = i
      BY <2>2
    <3> QED  BY <1>3, <1>5, <2>2, <3>1, PrevIs
  <2> QED  BY <2>1, <2>2
<1>7. ASSUME NEW m \in C
      PROVE  h.nodes[m].results = nodes[m].results
  <2>1. PICK j \in 1..i : ns[j] = m
    OBVIOUS
  <2>2. Prev(ns, m) \in NodeId \cup {None}
    BY <1>1, <1>p, <2>1
  <2> QED  BY <1>2, <1>3, <1>4, <2>2, CopiedIs
<1>8. n \in NodeId /\ n <= MaxNode /\ n \notin C
  BY <1>1, <1>2, <1>4 DEF Copyable, NodeId
<1> HIDE DEF h, node, C, n
<1>9. Newer(h, n)
  BY <1>2, <1>3, <1>8 DEF Newer
<1>10. Fits(h, n, node)
  <2>1. /\ \A c \in node.calls : c[1] = n /\ node.kind = "assistant"
        /\ \A c \in node.results : c[1] < n /\ node.kind = "user"
        /\ node.at <= n
        /\ node.at # n => node.calls = {} /\ node.results = {} /\ node.kind = "user"
    BY <1>1, <1>5 DEF Copyable
  <2>2. ASSUME NEW c \in node.results PROVE c \notin ResultsOf(h)
    <3>1. SUFFICES ASSUME NEW m \in C, c \in h.nodes[m].results PROVE FALSE
      BY <1>3 DEF ResultsOf, OnPrimary
    <3>2. c \in nodes[m].results /\ c \in nodes[n].results /\ m \in S /\ n \in S
      BY <1>1, <1>2, <1>5, <1>7, <3>1
    <3>3. m = n
      BY <3>2 DEF Copyable
    <3> QED  BY <1>8, <3>3
  <2>3. ASSUME node.kind = "summary" PROVE Settled(h, n)
    <3>1. \A m \in S : n <= m
      BY <1>1, <1>5, <2>3 DEF Copyable
    <3>2. \A m \in C : ~(n <= m)
      BY <1>2, <1>4, <1>8 DEF NodeId
    <3>3. C = {}
      BY <1>2, <3>1, <3>2
    <3> QED  BY <1>3, <3>3 DEF Settled, OnPrimary
  <2> QED  BY <2>1, <2>2, <2>3 DEF Fits
<1>11. HistoryOK(Appended(h, n, node))
  BY <1>3, <1>5, <1>6, <1>8, <1>9, <1>10, AppendedOK DEF h
<1>12. Part(ns, nodes, i + 1) = Appended(h, n, node)
  BY NextPart DEF h, n, node
<1> QED  BY <1>11, <1>12

\* A fork that copies messages gives a session that is as good as any.
LEMMA ChainedOK ==
  ASSUME NEW ns, NEW nodes, NEW S, Ascends(ns, S), Copyable(nodes, S)
  PROVE  HistoryOK(Chained(ns, nodes))
<1>1. ns \in Seq(Nat) /\ DOMAIN ns = 1..Len(ns) /\ Len(ns) \in Nat
  BY DEF Ascends
<1> DEFINE L == Len(ns)
           Bad == {i \in 0..L : ~HistoryOK(Part(ns, nodes, i))}
<1>2. Bad = {}
  <2> SUFFICES ASSUME Bad # {} PROVE FALSE
    OBVIOUS
  <2>1. PICK i \in Bad : \A j \in Bad : i <= j
    <3>1. Bad \subseteq Nat
      BY <1>1
    <3> QED  BY <3>1, Smallest
  <2>2. i \in Nat /\ i <= L /\ ~HistoryOK(Part(ns, nodes, i))
    BY <1>1
  <2>3. i # 0
    BY <2>2, FirstPart, NewOK
  <2>4. i - 1 \in Nat /\ i - 1 \in 0..L /\ ~(i <= i - 1) /\ (i - 1) + 1 = i /\ i \in DOMAIN ns
    BY <1>1, <2>2, <2>3
  <2>5. HistoryOK(Part(ns, nodes, i - 1))
    BY <2>1, <2>4
  <2> DEFINE j == i - 1
  <2>6. j \in Nat /\ j + 1 \in DOMAIN ns /\ HistoryOK(Part(ns, nodes, j)) /\ j + 1 = i
    BY <2>4, <2>5
  <2> HIDE DEF j
  <2>7. HistoryOK(Part(ns, nodes, j + 1))
    BY <2>6, NextPartOK
  <2> QED  BY <2>2, <2>6, <2>7
<1>3. HistoryOK(Part(ns, nodes, L))
  BY <1>1, <1>2
<1> QED  BY <1>3, WholePart

-----------------------------------------------------------------------------
(* The walk back of a watermark *)

Walks(f, h, T, w, k) ==
  f = [i \in 0..k |-> IF i = 0 THEN w
                      ELSE IF Crossing(h, T, f[i - 1]) = {} THEN f[i - 1]
                      ELSE Earliest(h, Crossing(h, T, f[i - 1]))]

LEMMA WalksExist ==
  ASSUME NEW h, NEW T, NEW w, NEW k \in Nat
  PROVE  \E f : Walks(f, h, T, w, k)
<1> DEFINE Next1(x) == IF Crossing(h, T, x) = {} THEN x ELSE Earliest(h, Crossing(h, T, x))
           Bad == {n \in Nat : ~ \E f : Walks(f, h, T, w, n)}
<1> SUFFICES ASSUME Bad # {} PROVE FALSE
  OBVIOUS
<1>1. PICK n \in Bad : \A m \in Bad : n <= m
  BY Smallest
<1>w. ASSUME NEW f, NEW m
      PROVE  Walks(f, h, T, w, m) <=> f = [i \in 0..m |-> IF i = 0 THEN w ELSE Next1(f[i - 1])]
  BY DEF Walks
<1> HIDE DEF Next1
<1>2. CASE n = 0
  <2> DEFINE f == [i \in 0..n |-> w]
  <2>1. f = [i \in 0..n |-> IF i = 0 THEN w ELSE Next1(f[i - 1])]
    BY <1>2
  <2> HIDE DEF f
  <2> QED  BY <1>w, <2>1
<1>3. CASE n # 0
  <2>1. n - 1 \in Nat /\ n - 1 \notin Bad
    BY <1>1, <1>3
  <2>2. PICK p : Walks(p, h, T, w, n - 1)
    BY <2>1
  <2>3. p = [i \in 0..n - 1 |-> IF i = 0 THEN w ELSE Next1(p[i - 1])]
    BY <1>w, <2>2
  <2> DEFINE f == [i \in 0..n |-> IF i = n THEN Next1(p[n - 1]) ELSE p[i]]
  <2>4. f = [i \in 0..n |-> IF i = 0 THEN w ELSE Next1(f[i - 1])]
    <3>1. ASSUME NEW i \in 0..n
          PROVE  f[i] = IF i = 0 THEN w ELSE Next1(f[i - 1])
      BY <2>1, <2>3, <1>3
    <3> QED  BY <3>1
  <2> HIDE DEF f
  <2> QED  BY <1>w, <2>4
<1> QED  BY <1>2, <1>3

LEMMA CrossingOnPrimary ==
  ASSUME NEW h, NEW T \in PairTables(h), NEW w
  PROVE  Crossing(h, T, w) \subseteq OnPrimary(h)
<1> DEFINE ids == CallsOf(h) \cap ResultsOf(h)
           ends(c) == {n \in OnPrimary(h) : c \in h.nodes[n].calls}
                      \X {n \in OnPrimary(h) : c \in h.nodes[n].results}
<1>1. DOMAIN T = ids /\ \A c \in ids : T[c] \in ends(c)
  BY DEF PairTables
<1>2. \A c \in DOMAIN T : T[c][1] \in OnPrimary(h)
  BY <1>1
<1> QED  BY <1>2 DEF Crossing

LEMMA EarliestIn ==
  ASSUME NEW h, Sound(h), NEW S, S \subseteq OnPrimary(h), S # {}
  PROVE  Earliest(h, S) \in S
<1> DEFINE A == {h.nodes[n].at : n \in S}
<1>1. \A n \in S : h.nodes[n].at \in Nat
  BY DEF OnPrimary, Sound, Typed, NodeRecord
<1>2. A \subseteq Nat /\ A # {}
  BY <1>1
<1>3. PICK a \in A : \A b \in A : a <= b
  BY <1>2, Smallest
<1>4. \E n \in S : \A m \in S : h.nodes[n].at <= h.nodes[m].at
  BY <1>3
<1> QED  BY <1>4 DEF Earliest

LEMMA WatermarkIn ==
  ASSUME NEW h, Sound(h), NEW T \in PairTables(h), NEW w \in OnPrimary(h)
  PROVE  Watermark(h, T, w) \in OnPrimary(h)
<1> DEFINE k == WalkLimit - 1
           f == CHOOSE f : Walks(f, h, T, w, k)
           P == OnPrimary(h)
           Bad == {i \in 0..k : f[i] \notin P}
<1>1. k \in Nat
  BY GraphAssumption
<1>2. Walks(f, h, T, w, k)
  BY <1>1, WalksExist
<1>3. Watermark(h, T, w) = f[k]
  BY DEF Watermark, WalkedBack, Walks
<1> HIDE DEF f, k
<1>4. Bad = {}
  <2> SUFFICES ASSUME Bad # {} PROVE FALSE
    OBVIOUS
  <2>1. PICK i \in Bad : \A j \in Bad : i <= j
    <3>1. Bad \subseteq Nat
      BY <1>1
    <3> QED  BY <3>1, Smallest
  <2>2. i \in Nat /\ i <= k /\ i \in 0..k /\ f[i] \notin P
    BY <1>1
  <2>3. CASE i = 0
    BY <1>2, <2>2, <2>3 DEF Walks
  <2>4. CASE i # 0
    <3>1. i - 1 \in 0..k /\ ~(i <= i - 1)
      BY <1>1, <2>2, <2>4
    <3>2. f[i - 1] \in P
      BY <2>1, <3>1
    <3>3. f[i] = IF Crossing(h, T, f[i - 1]) = {} THEN f[i - 1]
                 ELSE Earliest(h, Crossing(h, T, f[i - 1]))
      BY <1>2, <2>2, <2>4 DEF Walks
    <3>4. Crossing(h, T, f[i - 1]) \subseteq P
      BY CrossingOnPrimary
    <3>5. Crossing(h, T, f[i - 1]) # {} => f[i] \in P
      BY <3>3, <3>4, EarliestIn
    <3> QED  BY <2>2, <3>2, <3>3, <3>5
  <2> QED  BY <2>3, <2>4
<1>5. k \in 0..k
  BY <1>1
<1> QED  BY <1>3, <1>4, <1>5

\* Where the walk back ends, every call before the watermark has its result
\* before it.
LEMMA DrainSettled ==
  ASSUME HistoryOK(g), Unanswered = {}, NEW T \in PairTables(g), NEW w \in OnPrimary(g),
         Crossing(g, T, w) = {}
  PROVE  Settled(g, g.nodes[w].at)
<1> DEFINE P == OnPrimary(g)
           ids == CallsOf(g) \cap ResultsOf(g)
           ends(c) == {n \in P : c \in g.nodes[n].calls} \X {n \in P : c \in g.nodes[n].results}
           x == g.nodes[w].at
<1>1. DOMAIN T = ids /\ \A c \in ids : T[c] \in ends(c)
  BY DEF PairTables
<1>2. \A n \in P : n \in Nat /\ g.nodes[n].at \in Nat
  BY DEF HistoryOK, OnPrimary, Sound, Typed, NodeRecord, NodeId
<1>3. ASSUME NEW m \in P, m < x, NEW c \in g.nodes[m].calls
      PROVE  \E r \in P : r < x /\ c \in g.nodes[r].results
  <2>1. c \in ids
    BY DEF Unanswered, CallsOf
  <2>2. T[c][1] \in P /\ c \in g.nodes[T[c][1]].calls
        /\ T[c][2] \in P /\ c \in g.nodes[T[c][2]].results
    BY <1>1, <2>1
  <2> DEFINE k == T[c][1]
             r == T[c][2]
  <2>3. k \in P /\ c \in g.nodes[k].calls /\ r \in P /\ c \in g.nodes[r].results
    BY <2>2
  <2>4. ~(g.nodes[k].at < x /\ g.nodes[r].at >= x)
    BY <1>1, <2>1 DEF Crossing
  <2> HIDE DEF k, r, x
  <2>5. k = m /\ g.nodes[m].at = m /\ g.nodes[r].at = r
    BY <2>3 DEF HistoryOK, Paired, Paired1
  <2>6. r < x
    BY <1>2, <1>3, <2>3, <2>4, <2>5 DEF x
  <2> QED  BY <2>3, <2>6
<1> HIDE DEF x
<1> QED  BY <1>3 DEF Settled, x

-----------------------------------------------------------------------------
(* The operations of a session *)

LEMMA FreshNewer ==
  ASSUME HistoryOK(g)
  PROVE  Newer(g, Fresh)
<1> DEFINE S == {0} \cup DOMAIN g.nodes
<1>1. MaxNode \in Nat /\ DOMAIN g.nodes \subseteq Nat /\ \A n \in DOMAIN g.nodes : n <= MaxNode
  BY HistoryAssumption DEF HistoryOK, Bounded, Sound, Typed, NodeId
<1>2. S \subseteq 0..MaxNode /\ S # {}
  BY <1>1
<1>3. Max(S) \in S /\ \A n \in S : n <= Max(S)
  BY <1>1, <1>2, MaxIs
<1>4. Fresh = Max(S) + 1
  BY DEF Fresh
<1>5. \A n \in DOMAIN g.nodes : n \in S
  OBVIOUS
<1>6. Max(S) \in Nat
  BY <1>2, <1>3
<1> HIDE DEF S
<1> QED  BY <1>1, <1>3, <1>4, <1>5, <1>6 DEF Newer, NodeId

LEMMA RoomFor ==
  ASSUME HistoryOK(g), NEW k \in Nat, k >= 1, Room(k)
  PROVE  Fresh + k - 1 <= MaxNode /\ Fresh <= MaxNode /\ Fresh \in Nat /\ Fresh # 0
<1>1. Fresh \in Nat /\ Fresh # 0
  BY FreshNewer DEF Newer, NodeId
<1>2. Fresh + k - 1 <= MaxNode /\ MaxNode \in Nat
  BY HistoryAssumption DEF Room
<1> HIDE DEF Fresh
<1> QED  BY <1>1, <1>2

Body(body) == body.kind \in Kind /\ body.calls \subseteq Call /\ body.results \subseteq Call

LEMMA NodeIs ==
  ASSUME NEW h, Sound(h), NEW b \in DOMAIN h.branches, NEW body, Body(body), NEW at \in Nat
  PROVE  LET node == Node(h, b, body, at)
         IN  /\ node \in NodeRecord /\ node.branch = b /\ node.parent = h.branches[b].head
             /\ node.at = at /\ node.kind = body.kind
             /\ node.calls = body.calls /\ node.results = body.results
<1>1. b \in Branch /\ h.branches[b].head \in NodeId \cup {None}
  BY DEF Sound, Typed
<1> QED  BY <1>1 DEF Node, NodeRecord, Body

LEMMA TextIs ==
  ASSUME NEW kind \in Kind
  PROVE  Body(Text(kind)) /\ Text(kind).kind = kind
         /\ Text(kind).calls = {} /\ Text(kind).results = {}
  BY DEF Body, Text

LEMMA AddOK ==
  ASSUME HistoryOK(g), NEW body, Body(body), NEW lag \in Nat, lag < Fresh, Add(body, lag),
         \A c \in body.calls : c[1] = Fresh /\ body.kind = "assistant",
         \A c \in body.results : c[1] < Fresh /\ body.kind = "user" /\ c \notin ResultsOf(g),
         lag # 0 => body.calls = {} /\ body.results = {} /\ body.kind = "user",
         body.kind # "summary"
  PROVE  HistoryOK(g')
<1> DEFINE n == Fresh
           node == Node(g, g.primary, body, n - lag)
<1>1. Sound(g) /\ g.primary = Main /\ Main \in DOMAIN g.branches
  BY DEF HistoryOK, Sound
<1>2. Newer(g, n) /\ n <= MaxNode /\ n \in Nat
  BY FreshNewer, RoomFor DEF Add
<1>3. g' = Appended(g, n, node)
  BY DEF Add
<1>a. lag < n
  OBVIOUS
<1>b. /\ \A c \in body.calls : c[1] = n /\ body.kind = "assistant"
      /\ \A c \in body.results : c[1] < n /\ body.kind = "user" /\ c \notin ResultsOf(g)
  OBVIOUS
<1> HIDE DEF n
<1>4. n - lag \in Nat /\ n - lag <= n /\ (n - lag # n => lag # 0)
  BY <1>2, <1>a
<1>5. /\ node \in NodeRecord /\ node.branch = Main /\ node.parent = g.branches[Main].head
      /\ node.at = n - lag /\ node.kind = body.kind
      /\ node.calls = body.calls /\ node.results = body.results
  BY <1>1, <1>4, NodeIs
<1> HIDE DEF node
<1>6. Fits(g, n, node)
  BY <1>4, <1>5, <1>b DEF Fits
<1> QED  BY <1>1, <1>2, <1>3, <1>5, <1>6, AppendedOK

LEMMA AddUserOK == ASSUME HistoryOK(g), AddUser PROVE HistoryOK(g')
<1>1. PICK lag \in 0..MaxLag : lag < Fresh /\ Add(Text("user"), lag)
  BY DEF AddUser
<1>2. lag \in Nat
  BY HistoryAssumption
<1>3. LET b == Text("user") IN Body(b) /\ b.kind = "user" /\ b.calls = {} /\ b.results = {}
  BY TextIs DEF Kind
<1> QED  BY <1>1, <1>2, <1>3, AddOK

LEMMA AddAssistantOK == ASSUME HistoryOK(g), AddAssistant PROVE HistoryOK(g')
<1>1. PICK k \in 0..MaxCalls :
        Add([Text("assistant") EXCEPT !.calls = {<<Fresh, i>> : i \in 1..k}], 0)
  BY DEF AddAssistant
<1> DEFINE n == Fresh
           cs == {<<n, i>> : i \in 1..k}
           body == [Text("assistant") EXCEPT !.calls = cs]
<1>2. body.kind = "assistant" /\ body.calls = cs /\ body.results = {}
  BY DEF Text
<1>3. n \in NodeId /\ 0 < n
  BY FreshNewer DEF Newer, NodeId
<1>4. Add(body, 0)
  BY <1>1
<1> HIDE DEF body, n
<1>5. cs \subseteq Call /\ \A c \in cs : c[1] = n
  <2>1. \A i \in 1..k : i \in NodeId
    BY HistoryAssumption DEF NodeId
  <2> QED  BY <1>3, <2>1 DEF Call
<1> HIDE DEF cs
<1>6. Body(body)
  BY <1>2, <1>5 DEF Body, Kind
<1> QED  BY <1>2, <1>3, <1>4, <1>5, <1>6, AddOK DEF n

LEMMA AddResultsOK == ASSUME HistoryOK(g), AddResults PROVE HistoryOK(g')
<1>1. PICK cs \in SUBSET Unanswered :
        cs # {} /\ Add([Text("user") EXCEPT !.results = cs], 0)
  BY DEF AddResults
<1> DEFINE n == Fresh
           body == [Text("user") EXCEPT !.results = cs]
<1>2. body.kind = "user" /\ body.calls = {} /\ body.results = cs
  BY DEF Text
<1>3. n \in Nat /\ 0 < n /\ \A m \in DOMAIN g.nodes : m < n
  BY FreshNewer DEF Newer, NodeId
<1>4. Add(body, 0)
  BY <1>1
<1> HIDE DEF body, n
<1>5. ASSUME NEW c \in cs
      PROVE  c \in Call /\ c[1] < n /\ c \notin ResultsOf(g)
  <2>1. c \in CallsOf(g) /\ c \notin ResultsOf(g)
    BY DEF Unanswered
  <2>2. PICK m \in OnPrimary(g) : c \in g.nodes[m].calls
    BY <2>1 DEF CallsOf
  <2>3. m \in DOMAIN g.nodes /\ c[1] = m /\ g.nodes[m] \in NodeRecord
    BY <2>2 DEF HistoryOK, Paired, Paired1, OnPrimary, Sound, Typed
  <2> QED  BY <1>3, <2>1, <2>2, <2>3 DEF NodeRecord
<1>6. Body(body)
  BY <1>2, <1>5 DEF Body, Kind
<1> QED  BY <1>2, <1>3, <1>4, <1>5, <1>6, AddOK DEF n

LEMMA CompactOK == ASSUME HistoryOK(g), Compact PROVE HistoryOK(g')
<1> DEFINE n == Fresh
           b == Text("summary")
           node == Node(g, g.primary, b, n)
           h == Appended(g, n, node)
<1>1. Sound(g) /\ IsGraph(g) /\ g.primary = Main /\ Main \in DOMAIN g.branches
  BY DEF HistoryOK, Sound, Typed
<1>2. Newer(g, n) /\ n <= MaxNode /\ n \in Nat /\ n + 1 <= MaxNode
  <2>1. Fresh + 2 - 1 <= MaxNode /\ Fresh <= MaxNode /\ Fresh \in Nat
    BY RoomFor DEF Compact
  <2>2. n + 2 - 1 <= MaxNode /\ n <= MaxNode /\ n \in Nat /\ MaxNode \in Nat
    BY <2>1, HistoryAssumption
  <2>3. Newer(g, n)
    BY FreshNewer
  <2> HIDE DEF n
  <2> QED  BY <2>2, <2>3
<1>3. g' = Checkpointed(h, n + 1, g.primary) /\ Unanswered = {}
  BY DEF Compact
<1> HIDE DEF n
<1>4. Body(b) /\ b.kind = "summary" /\ b.calls = {} /\ b.results = {}
  BY TextIs DEF Kind
<1> HIDE DEF b
<1>5. /\ node \in NodeRecord /\ node.branch = Main /\ node.parent = g.branches[Main].head
      /\ node.at = n /\ node.kind = "summary" /\ node.calls = {} /\ node.results = {}
  BY <1>1, <1>2, <1>4, NodeIs
<1> HIDE DEF node
<1>6. Settled(g, n)
  <2>1. ASSUME NEW m \in OnPrimary(g), m < n, NEW c \in g.nodes[m].calls
        PROVE  \E r \in OnPrimary(g) : r < n /\ c \in g.nodes[r].results
    <3>1. c \in ResultsOf(g)
      BY <1>3 DEF Unanswered, CallsOf
    <3>2. PICK r \in OnPrimary(g) : c \in g.nodes[r].results
      BY <3>1 DEF ResultsOf
    <3>3. r < n
      BY <1>2 DEF OnPrimary, Newer
    <3> QED  BY <3>2, <3>3
  <2> QED  BY <2>1 DEF Settled
<1>7. Fits(g, n, node)
  BY <1>2, <1>5, <1>6 DEF Fits
<1>8. HistoryOK(h)
  BY <1>1, <1>2, <1>5, <1>7, AppendedOK
<1>9. GrownInto(h, g, n, node)
  BY <1>1, <1>5, GrownFields DEF Appended
<1> HIDE DEF h
<1>10. Newer(h, n + 1) /\ h.primary = g.primary
  <2>1. DOMAIN h.nodes = DOMAIN g.nodes \cup {n} /\ h.primary = g.primary
    BY <1>1, <1>2, <1>5, <1>9, GrownNodes
  <2>2. DOMAIN g.nodes \subseteq Nat
    BY <1>1 DEF Sound, Typed, NodeId
  <2> QED  BY <1>2, <2>1, <2>2 DEF Newer, NodeId
<1>11. HistoryOK(Checkpointed(h, n + 1, h.primary))
  <2> DEFINE m == n + 1
  <2>1. Newer(h, m) /\ m <= MaxNode
    BY <1>2, <1>10
  <2> HIDE DEF m
  <2>2. HistoryOK(Checkpointed(h, m, h.primary))
    BY <1>8, <2>1, CheckpointedOK
  <2> QED  BY <2>2 DEF m
<1> QED  BY <1>3, <1>10, <1>11

LEMMA CheckpointOK == ASSUME HistoryOK(g), Checkpoint PROVE HistoryOK(g')
<1>1. Newer(g, Fresh) /\ Fresh <= MaxNode
  BY FreshNewer, RoomFor DEF Checkpoint
<1>2. g' = Checkpointed(g, Fresh, g.primary)
  BY DEF Checkpoint
<1> QED  BY <1>1, <1>2, CheckpointedOK

LEMMA BookmarkOK == ASSUME HistoryOK(g), Bookmark PROVE HistoryOK(g')
<1> DEFINE n == g.branches[g.primary].head
<1>1. n # None /\ g' = Bookmarked(g, Cardinality(DOMAIN g.marks) + 1, n)
  BY DEF Bookmark
<1>2. n \in DOMAIN g.nodes
  BY <1>1 DEF HistoryOK, Sound, BranchValid
<1> HIDE DEF n
<1> QED  BY <1>1, <1>2, BookmarkedOK

LEMMA PatchLatestOK == ASSUME HistoryOK(g), PatchLatest PROVE HistoryOK(g')
<1> DEFINE line == Lineage(g, g.primary)
           last == {i \in DOMAIN line : g.nodes[line[i]].kind \in {"assistant", "summary"}}
<1>1. last # {} /\ g' = PatchedMeta(g, line[Max(last)])
  BY DEF PatchLatest
<1>2. Ascends(line, OnPrimary(g))
  BY SoundLineage DEF HistoryOK
<1> HIDE DEF line
<1>3. Len(line) \in Nat /\ DOMAIN line = 1..Len(line)
  BY <1>2 DEF Ascends
<1>4. last \subseteq 0..Len(line) /\ last \subseteq DOMAIN line
  BY <1>3
<1> HIDE DEF last
<1>5. Max(last) \in last
  BY <1>1, <1>3, <1>4, MaxIs
<1>6. line[Max(last)] \in DOMAIN g.nodes
  BY <1>2, <1>4, <1>5 DEF Ascends, OnPrimary
<1> QED  BY <1>1, <1>6, PatchedOK

LEMMA UserTurnsIn ==
  ASSUME HistoryOK(g), NEW k \in Nat, Len(UserTurns) > k
  PROVE  UserTurns[k + 1] \in OnPrimary(g)
<1> DEFINE vis == Visible(g)
           V == {n \in OnPrimary(g) : Shown(g, n)}
           P == {i \in DOMAIN vis : g.nodes[vis[i]].kind = "user"}
<1>1. Ascends(vis, V)
  BY SoundLineage, VisibleAscends DEF HistoryOK
<1>2. UserTurns = Picked(vis, P)
  BY DEF UserTurns
<1> HIDE DEF vis
<1>3. Ascends(Picked(vis, P), {vis[i] : i \in P})
  BY <1>1, PickedAscends
<1> DEFINE u == UserTurns
<1>4. u \in Seq(Nat) /\ \A i \in DOMAIN u : u[i] \in {vis[j] : j \in P}
  BY <1>2, <1>3 DEF Ascends
<1>5. Len(u) > k
  OBVIOUS
<1>6. \A j \in P : vis[j] \in OnPrimary(g)
  BY <1>1 DEF Ascends
<1> HIDE DEF u, P
<1>7. k + 1 \in DOMAIN u
  BY <1>4, <1>5
<1>8. u[k + 1] \in OnPrimary(g)
  BY <1>4, <1>6, <1>7
<1> QED  BY <1>8 DEF u

LEMMA DrainOK == ASSUME HistoryOK(g), Drain PROVE HistoryOK(g')
<1>1. Unanswered = {}
  BY DEF Drain
<1>2. PICK rounds \in 1..MaxRounds, T \in PairTables(g) : DrainRounds(rounds, T)
  BY DEF Drain
<1> DEFINE w == UserTurns[rounds + 1]
           x == Watermark(g, T, w)
<1>3. CASE Len(UserTurns) > rounds /\ ~Unresolvable(g, T, w)
  <2>1. g' = Archived(g, x)
    BY <1>2, <1>3 DEF DrainRounds
  <2>2. rounds \in Nat
    BY HistoryAssumption
  <2>3. w \in OnPrimary(g)
    BY <1>3, <2>2, UserTurnsIn
  <2>4. Crossing(g, T, x) = {}
    BY <1>3 DEF Unresolvable
  <2> HIDE DEF w
  <2>5. x \in OnPrimary(g)
    BY <2>3, WatermarkIn DEF HistoryOK
  <2> HIDE DEF x
  <2> QED  BY <1>1, <2>1, <2>4, <2>5, DrainSettled, ArchivedOK
<1>4. CASE ~(Len(UserTurns) > rounds /\ ~Unresolvable(g, T, w))
  BY <1>2, <1>4 DEF DrainRounds
<1> QED  BY <1>3, <1>4

LEMMA AppendOnOK == ASSUME HistoryOK(g), AppendOn PROVE HistoryOK(g')
<1>1. PICK b \in DOMAIN g.branches \ {g.primary} :
        Room(1) /\ g' = Appended(g, Fresh, Node(g, b, Text("user"), Fresh))
  BY DEF AppendOn
<1> DEFINE n == Fresh
           body == Text("user")
           node == Node(g, b, body, n)
<1>2. Newer(g, n) /\ n <= MaxNode /\ n \in Nat
  BY <1>1, FreshNewer, RoomFor
<1>3. g' = Appended(g, n, node)
  BY <1>1
<1>4. Sound(g) /\ b # Main
  BY DEF HistoryOK
<1>5. Body(body)
  BY TextIs DEF Kind
<1> HIDE DEF n, body
<1>6. node \in NodeRecord /\ node.branch = b /\ node.parent = g.branches[b].head
  BY <1>2, <1>4, <1>5, NodeIs
<1> HIDE DEF node
<1> QED  BY <1>2, <1>3, <1>4, <1>6, AppendedOK

-----------------------------------------------------------------------------
(* Restarts and forks *)

\* The first event names the primary branch.
LEMMA OKReplay == HistoryOK(g) => ReplayAgrees
<1> SUFFICES ASSUME HistoryOK(g) PROVE ReplayAgrees
  OBVIOUS
<1> DEFINE es == g.events
           naming == {i \in DOMAIN es : EventBranch(es[i]) # None}
<1>1. Remembered(g) /\ IsGraph(g) /\ g.primary = Main
  BY DEF HistoryOK, Sound, Typed
<1>2. Applied(es) = g
  BY <1>1 DEF Remembered, Applied
<1>3. CASE es = << >>
  <2>1. Materialised(es) = NewGraph
    BY <1>3 DEF Materialised
  <2> QED  BY <1>1, <1>2, <1>3, <2>1 DEF Remembered, ReplayAgrees
<1>4. CASE es # << >>
  <2>1. /\ IsList(es) /\ EventBranch(es[1]) = Main /\ Main # None
        /\ Rebuilt(Bare, es, TRUE) = g
    BY <1>1, <1>4, GraphAssumption DEF Remembered
  <2>2. Materialised(es)
          = [Rebuilt(Bare, es, TRUE) EXCEPT !.primary = EventBranch(es[Min(naming)])]
    BY <1>4 DEF Materialised
  <2> HIDE DEF es
  <2>3. Len(es) \in Nat /\ Len(es) # 0 /\ DOMAIN es = 1..Len(es)
    <3>1. Len(es) # 0
      BY <1>4, <2>1, ListEmpty
    <3> DEFINE S == {es[i] : i \in DOMAIN es}
    <3>2. es \in Seq(S)
      BY <2>1 DEF IsList
    <3> HIDE DEF S
    <3> QED  BY <3>1, <3>2
  <2>4. 1 \in naming /\ naming \subseteq Int /\ \A i \in naming : 1 <= i
    BY <2>1, <2>3
  <2> HIDE DEF naming
  <2>5. Min(naming) = 1
    <3>1. \E x \in naming : \A y \in naming : x <= y
      BY <2>4
    <3>2. Min(naming) \in naming /\ \A y \in naming : Min(naming) <= y
      BY <3>1 DEF Min
    <3> DEFINE x == Min(naming)
    <3>3. x \in naming /\ x <= 1
      BY <2>4, <3>2
    <3> HIDE DEF x
    <3>4. x \in Int /\ 1 <= x /\ x <= 1
      BY <2>4, <3>3
    <3>5. x = 1
      BY <3>4
    <3> QED  BY <3>5 DEF x
  <2>6. Materialised(es) = [g EXCEPT !.primary = Main]
    BY <2>1, <2>2, <2>5
  <2>7. Materialised(es) = g
    <3> DEFINE k == [g EXCEPT !.primary = Main]
    <3>1. IsGraph(k) /\ k.nodes = g.nodes /\ k.marks = g.marks /\ k.primary = Main
          /\ k.watermark = g.watermark /\ k.branches = g.branches /\ k.events = g.events
      BY <1>1 DEF IsGraph
    <3> HIDE DEF k
    <3>2. k = g
      BY <1>1, <3>1, GraphsEqual
    <3> QED  BY <2>6, <3>2 DEF k
  <2> QED  BY <1>2, <2>7 DEF ReplayAgrees, es
<1> QED  BY <1>3, <1>4

\* The messages that a request shows can be copied as they are.
LEMMA ShownCopyable ==
  ASSUME NEW h, HistoryOK(h)
  PROVE  Copyable(h.nodes, {n \in OnPrimary(h) : Shown(h, n)})
<1> DEFINE S == {n \in OnPrimary(h) : Shown(h, n)}
<1>1. Typed(h) /\ Bounded(h) /\ Paired(h) /\ S \subseteq OnPrimary(h)
  BY DEF HistoryOK, Sound
<1>2. \A n \in S : n \in DOMAIN h.nodes /\ n \in NodeId /\ n <= MaxNode /\ h.nodes[n] \in NodeRecord
  BY <1>1 DEF Typed, Bounded, OnPrimary
<1>3. ASSUME NEW n \in S, h.nodes[n].kind = "summary", NEW m \in S
      PROVE  n <= m
  BY <1>3 DEF Shown
<1>4. \A n \in S : Paired1(h, n)
  BY <1>1 DEF Paired
<1>5. \A m, n \in S : \A c \in h.nodes[m].results : c \in h.nodes[n].results => m = n
  BY <1>1 DEF Paired
<1> HIDE DEF S
<1>6. S \subseteq NodeId
  BY <1>2
<1>7. Copyable(h.nodes, S)
  BY <1>2, <1>3, <1>4, <1>5, <1>6 DEF Copyable, Paired1
<1> QED  BY <1>7 DEF S

\* It holds of the session and of the one that the last fork returned.
HistoryInv == HistoryOK(g) /\ (ret.graph # None => HistoryOK(ret.graph))

LEMMA ForkSessionOK ==
  ASSUME HistoryOK(g), ~ForkEmpty, ForkSession
  PROVE  HistoryInv'
<1>1. PICK b \in Fork \ DOMAIN g.branches, from \in DOMAIN g.nodes \cup {None} :
        ret' = Answer("fork", TRUE, Forked(g, b, from))
  BY DEF ForkSession
<1>2. g.events # << >> /\ g' = g
  BY DEF ForkSession
<1>3. HistoryOK(Forked(g, b, from))
  BY <1>2, ForkedOK
<1>4. ret'.graph = Forked(g, b, from)
  BY <1>1 DEF Answer
<1> QED  BY <1>2, <1>3, <1>4 DEF HistoryInv

LEMMA ForkCopyOK ==
  ASSUME HistoryOK(g), ForkCopy
  PROVE  HistoryInv'
<1> DEFINE ns == Visible(g)
           ok == ns # << >> => g.nodes[ns[1]].parent = None
           S  == {n \in OnPrimary(g) : Shown(g, n)}
<1>1. ret' = Answer("fork", ok, IF ok THEN Chained(ns, g.nodes) ELSE None) /\ g' = g
  BY DEF ForkCopy
<1>2. Ascends(ns, S)
  BY SoundLineage, VisibleAscends DEF HistoryOK
<1>3. Copyable(g.nodes, S)
  BY ShownCopyable
<1> HIDE DEF S, ns, ok
<1>4. HistoryOK(Chained(ns, g.nodes))
  BY <1>2, <1>3, ChainedOK
<1>5. ret'.graph = IF ok THEN Chained(ns, g.nodes) ELSE None
  BY <1>1 DEF Answer
<1> QED  BY <1>1, <1>4, <1>5 DEF HistoryInv

LEMMA ForkFromOK ==
  ASSUME HistoryOK(g), NEW n, ForkFrom(n)
  PROVE  HistoryInv'
<1> DEFINE line == Lineage(g, g.primary)
           from == {i \in DOMAIN line : \E j \in 1..i : line[j] = n}
           kept == {i \in from : g.nodes[line[i]].kind # "checkpoint"}
           copy == [m \in {line[i] : i \in from} |->
                      [g.nodes[m] EXCEPT !.at = m,
                                         !.kind = IF @ = "summary" THEN "assistant" ELSE @]]
           S == {line[i] : i \in kept}
<1>1. ret' = Answer("fork", TRUE, Chained(Picked(line, kept), copy)) /\ g' = g
  BY DEF ForkFrom
<1>2. Ascends(line, OnPrimary(g))
  BY SoundLineage DEF HistoryOK
<1> HIDE DEF line
<1>3. kept \in SUBSET DOMAIN line
  OBVIOUS
<1>4. ASSUME NEW m \in S
      PROVE  /\ m \in OnPrimary(g) /\ g.nodes[m].kind # "checkpoint"
             /\ copy[m] = [g.nodes[m] EXCEPT !.at = m,
                             !.kind = IF @ = "summary" THEN "assistant" ELSE @]
  <2>1. PICK i \in kept : line[i] = m
    OBVIOUS
  <2>2. i \in from /\ i \in DOMAIN line /\ g.nodes[line[i]].kind # "checkpoint"
    BY <2>1
  <2>3. line[i] \in OnPrimary(g)
    BY <1>2, <2>2 DEF Ascends
  <2> QED  BY <2>1, <2>2, <2>3
<1> HIDE DEF kept, copy
<1>5. Ascends(Picked(line, kept), S)
  BY <1>2, <1>3, PickedAscends
<1> HIDE DEF S
<1>6. Typed(g) /\ Bounded(g) /\ Paired(g)
  BY DEF HistoryOK, Sound
<1>7. ASSUME NEW m \in S
      PROVE  /\ m \in NodeId /\ m <= MaxNode /\ copy[m] \in NodeRecord
             /\ copy[m].calls = g.nodes[m].calls /\ copy[m].results = g.nodes[m].results
             /\ copy[m].at = m /\ copy[m].kind # "summary"
             /\ g.nodes[m].kind \in {"user", "assistant"} => copy[m].kind = g.nodes[m].kind
  <2>1. m \in NodeId /\ m <= MaxNode /\ g.nodes[m] \in NodeRecord /\ m \in Nat
    BY <1>4, <1>6 DEF Typed, Bounded, OnPrimary, NodeId
  <2> DEFINE kind == IF g.nodes[m].kind = "summary" THEN "assistant" ELSE g.nodes[m].kind
  <2>2. copy[m] = [g.nodes[m] EXCEPT !.at = m, !.kind = kind]
    BY <1>4
  <2>3. /\ kind \in Kind /\ kind # "summary"
        /\ g.nodes[m].kind \in {"user", "assistant"} => kind = g.nodes[m].kind
    BY <2>1 DEF NodeRecord, Kind
  <2> HIDE DEF kind
  <2>4. /\ copy[m] \in NodeRecord /\ copy[m].at = m /\ copy[m].kind = kind
        /\ copy[m].calls = g.nodes[m].calls /\ copy[m].results = g.nodes[m].results
    BY <2>1, <2>2, <2>3 DEF NodeRecord
  <2> QED  BY <2>1, <2>3, <2>4
<1>8. \A m \in S : Paired1(g, m)
  BY <1>4, <1>6 DEF Paired
<1>9. \A m, k \in S : \A c \in copy[m].results : c \in copy[k].results => m = k
  BY <1>4, <1>6, <1>7 DEF Paired
<1>10. Copyable(copy, S)
  <2>1. S \subseteq NodeId /\ \A m \in S : copy[m] \in NodeRecord /\ m <= MaxNode
    BY <1>7
  <2>2. ASSUME NEW m \in S
        PROVE  /\ \A c \in copy[m].calls : c[1] = m /\ copy[m].kind = "assistant"
               /\ \A c \in copy[m].results : c[1] < m /\ copy[m].kind = "user"
               /\ copy[m].at <= m /\ copy[m].at = m /\ copy[m].kind # "summary"
    <3>1. copy[m].at = m /\ m \in Nat
      BY <1>7 DEF NodeId
    <3> QED  BY <1>7, <1>8, <3>1 DEF Paired1
  <2> QED  BY <1>9, <2>1, <2>2 DEF Copyable
<1>11. HistoryOK(Chained(Picked(line, kept), copy))
  BY <1>5, <1>10, ChainedOK
<1>12. ret'.graph = Chained(Picked(line, kept), copy)
  BY <1>1 DEF Answer
<1> QED  BY <1>1, <1>11, <1>12 DEF HistoryInv

LEMMA ReloadOK ==
  ASSUME HistoryOK(g), Reload
  PROVE  HistoryOK(g')
  BY OKReplay DEF Reload, ReplayAgrees

LEMMA HistoryStart == Init => HistoryInv
<1> SUFFICES ASSUME Init PROVE HistoryInv
  OBVIOUS
<1>1. g = NewGraph /\ ret = Done
  BY DEF Init, GraphInit
<1>2. ret.graph = None
  BY <1>1 DEF Done, Answer
<1> QED  BY <1>1, <1>2, NewOK DEF HistoryInv

LEMMA HistoryStep == HistoryInv /\ ~ForkEmpty /\ [Next]_vars => HistoryInv'
<1> SUFFICES ASSUME HistoryInv, ~ForkEmpty, [Next]_vars PROVE HistoryInv'
  OBVIOUS
<1>1. HistoryOK(g)
  BY DEF HistoryInv
<1>2. ASSUME HistoryOK(g'), ret' = Done PROVE HistoryInv'
  BY <1>2 DEF HistoryInv, Done, Answer
<1>3. CASE AddUser
  BY <1>1, <1>2, <1>3, AddUserOK DEF AddUser, Add
<1>4. CASE AddAssistant
  BY <1>1, <1>2, <1>4, AddAssistantOK DEF AddAssistant, Add
<1>5. CASE AddResults
  BY <1>1, <1>2, <1>5, AddResultsOK DEF AddResults, Add
<1>6. CASE Compact
  BY <1>1, <1>2, <1>6, CompactOK DEF Compact
<1>7. CASE Checkpoint
  BY <1>1, <1>2, <1>7, CheckpointOK DEF Checkpoint
<1>8. CASE Bookmark
  BY <1>1, <1>2, <1>8, BookmarkOK DEF Bookmark
<1>9. CASE PatchLatest
  BY <1>1, <1>2, <1>9, PatchLatestOK DEF PatchLatest
<1>10. CASE Drain
  <2>1. ret'.graph = None
    <3>1. PICK rounds \in 1..MaxRounds, T \in PairTables(g) : DrainRounds(rounds, T)
      BY <1>10 DEF Drain
    <3> QED  BY <3>1 DEF DrainRounds, Answer
  <2> QED  BY <1>1, <1>10, <2>1, DrainOK DEF HistoryInv
<1>11. CASE AppendOn
  BY <1>1, <1>2, <1>11, AppendOnOK DEF AppendOn
<1>12. CASE ForkSession
  BY <1>1, <1>12, ForkSessionOK
<1>13. CASE ForkCopy
  BY <1>1, <1>13, ForkCopyOK
<1>14. CASE ForkFromNode \/ ForkFromCheckpoint
  BY <1>1, <1>14, ForkFromOK DEF ForkFromNode, ForkFromCheckpoint
<1>15. CASE Continue
  BY <1>2, <1>15 DEF Continue, HistoryInv
<1>16. CASE Reload
  BY <1>1, <1>2, <1>16, ReloadOK DEF Reload
<1>17. CASE UNCHANGED vars
  BY <1>17 DEF HistoryInv, vars
<1> QED
  BY <1>3, <1>4, <1>5, <1>6, <1>7, <1>8, <1>9, <1>10, <1>11, <1>12, <1>13, <1>14,
     <1>15, <1>16, <1>17 DEF Next

LEMMA HistoryHolds == ASSUME ~ForkEmpty PROVE Spec => []HistoryInv
<1>1. ~ForkEmpty
  OBVIOUS
<1>2. HistoryInv /\ [Next]_vars => HistoryInv'
  BY HistoryStep
<1> QED  BY HistoryStart, <1>2, PTL DEF Spec

\* However a session was used, forked and reloaded, GraphValidator::validate
\* finds no issue with its graph, so that it can be saved and loaded again.
\* (~ForkEmpty: a session without events is not forked; after such a fork a
\* load takes the forked branch for the primary one.)
THEOREM HistoryValid == ASSUME ~ForkEmpty PROVE Spec => []Valid
<1>1. HistoryInv => Valid
  BY DEF HistoryInv, HistoryOK, Sound, Valid
<1>2. Spec => []HistoryInv
  BY HistoryHolds
<1> QED  BY <1>1, <1>2, PTL

\* What a restart makes of the recorded events, by from_events or one event at
\* a time by apply_event, is the graph that recorded them.
THEOREM HistoryReplays == ASSUME ~ForkEmpty PROVE Spec => []ReplayAgrees
<1>1. HistoryInv => ReplayAgrees
  BY OKReplay DEF HistoryInv
<1>2. Spec => []HistoryInv
  BY HistoryHolds
<1> QED  BY <1>1, <1>2, PTL

\* Whatever was summarised, archived by a recovery, forked and copied, each tool
\* result that graph_projected_messages sends comes after its call.
THEOREM HistoryPairs == ASSUME ~ForkEmpty PROVE Spec => []PairsVisible
<1>1. HistoryInv => PairsVisible
  BY OKPairs DEF HistoryInv
<1>2. Spec => []HistoryInv
  BY HistoryHolds
<1> QED  BY <1>1, <1>2, PTL

-----------------------------------------------------------------------------
(* Ends of lists *)

LEMMA ListsEqual ==
  ASSUME NEW s \in Seq(Nat), NEW t \in Seq(Nat), Len(s) = Len(t),
         \A i \in 1..Len(s) : s[i] = t[i]
  PROVE  s = t
  OBVIOUS

\* There is one way to list numbers in ascending order.
LEMMA AscendsSame ==
  ASSUME NEW S, NEW s, Ascends(s, S), NEW t, Ascends(t, S)
  PROVE  s = t
<1>1. /\ s \in Seq(Nat) /\ Len(s) \in Nat /\ DOMAIN s = 1..Len(s)
      /\ t \in Seq(Nat) /\ Len(t) \in Nat /\ DOMAIN t = 1..Len(t)
      /\ \A i \in DOMAIN s : s[i] \in Nat /\ s[i] \in S
      /\ \A i \in DOMAIN t : t[i] \in Nat /\ t[i] \in S
  BY DEF Ascends
<1> DEFINE Bad == {i \in Nat \ {0} : \/ (i \in DOMAIN s) # (i \in DOMAIN t)
                                     \/ i \in DOMAIN s /\ i \in DOMAIN t /\ s[i] # t[i]}
<1>2. Bad = {}
  <2> SUFFICES ASSUME Bad # {} PROVE FALSE
    OBVIOUS
  <2>1. PICK i \in Bad : \A j \in Bad : i <= j
    <3>1. Bad \subseteq Nat
      OBVIOUS
    <3> QED  BY <3>1, Smallest
  <2>2. ASSUME NEW j \in Nat \ {0}, j < i
        PROVE  (j \in DOMAIN s <=> j \in DOMAIN t) /\ (j \in DOMAIN s => s[j] = t[j])
    <3>1. j \notin Bad
      BY <2>1, <2>2
    <3> QED  BY <3>1
  <2>3. i \in Nat \ {0}
    OBVIOUS
  <2>4. ASSUME i \in DOMAIN s PROVE i \in DOMAIN t /\ t[i] <= s[i]
    <3>1. PICK j \in DOMAIN t : t[j] = s[i]
      BY <1>1, <2>4 DEF Ascends
    <3>2. ~(j < i)
      <4>1. SUFFICES ASSUME j < i PROVE FALSE
        OBVIOUS
      <4>2. j \in DOMAIN s /\ s[j] = t[j]
        BY <1>1, <2>2, <4>1
      <4>3. s[j] < s[i]
        BY <2>4, <4>1, <4>2 DEF Ascends
      <4> QED  BY <1>1, <2>4, <3>1, <4>2, <4>3
    <3>3. i \in DOMAIN t /\ i <= j
      BY <1>1, <2>3, <3>2
    <3> QED  BY <3>1, <3>3, PlacesOrdered
  <2>5. ASSUME i \in DOMAIN t PROVE i \in DOMAIN s /\ s[i] <= t[i]
    <3>1. PICK j \in DOMAIN s : s[j] = t[i]
      BY <1>1, <2>5 DEF Ascends
    <3>2. ~(j < i)
      <4>1. SUFFICES ASSUME j < i PROVE FALSE
        OBVIOUS
      <4>2. j \in DOMAIN t /\ t[j] = s[j]
        BY <1>1, <2>2, <4>1
      <4>3. t[j] < t[i]
        BY <2>5, <4>1, <4>2 DEF Ascends
      <4> QED  BY <1>1, <2>5, <3>1, <4>2, <4>3
    <3>3. i \in DOMAIN s /\ i <= j
      BY <1>1, <2>3, <3>2
    <3> QED  BY <3>1, <3>3, PlacesOrdered
  <2>6. i \in DOMAIN s /\ i \in DOMAIN t /\ s[i] # t[i]
    BY <2>4, <2>5
  <2>7. s[i] <= t[i] /\ t[i] <= s[i] /\ s[i] \in Nat /\ t[i] \in Nat
    BY <1>1, <2>4, <2>5, <2>6
  <2> QED  BY <2>6, <2>7
<1>3. \A i \in Nat \ {0} : i \in DOMAIN s <=> i \in DOMAIN t
  BY <1>2
<1>4. ASSUME NEW i \in DOMAIN s, i \in DOMAIN t PROVE s[i] = t[i]
  <2>1. i \in Nat \ {0} /\ i \notin Bad
    BY <1>1, <1>2
  <2> QED  BY <1>4, <2>1
<1>5. Len(s) = Len(t)
  <2>1. Len(s) # 0 => Len(s) \in DOMAIN s /\ Len(s) \in Nat \ {0}
    BY <1>1
  <2>2. Len(t) # 0 => Len(t) \in DOMAIN t /\ Len(t) \in Nat \ {0}
    BY <1>1
  <2>3. Len(s) <= Len(t)
    BY <1>1, <1>3, <2>1
  <2>4. Len(t) <= Len(s)
    BY <1>1, <1>3, <2>2
  <2>5. Len(s) \in Nat /\ Len(t) \in Nat
    BY <1>1
  <2> QED  BY <2>3, <2>4, <2>5
<1>6. \A i \in 1..Len(s) : s[i] = t[i]
  BY <1>1, <1>4, <1>5
<1>7. s \in Seq(Nat) /\ t \in Seq(Nat)
  BY <1>1
<1> QED  BY <1>5, <1>6, <1>7, ListsEqual

\* The numbers from x on, which is not the first, are a proper suffix.
LEMMA UpperSuffix ==
  ASSUME NEW S, NEW s, Ascends(s, S), NEW x \in S, NEW u \in S, u < x,
         NEW t, Ascends(t, {n \in S : x <= n})
  PROVE  IsSuffix(t, s) /\ Len(t) \in 1..(Len(s) - 1)
<1>1. /\ s \in Seq(Nat) /\ Len(s) \in Nat /\ DOMAIN s = 1..Len(s)
      /\ \A i \in DOMAIN s : s[i] \in Nat /\ s[i] \in S
  BY DEF Ascends
<1>2. PICK k \in DOMAIN s : s[k] = x
  BY DEF Ascends
<1>3. PICK j \in DOMAIN s : s[j] = u
  BY DEF Ascends
<1>4. j < k
  BY <1>2, <1>3, PlacesOrdered
<1> DEFINE d == k - 1
           L == Len(s) - d
           v == [i \in 1..L |-> s[i + d]]
           U == {n \in S : x <= n}
<1>5. d \in Nat /\ d >= 1 /\ d < Len(s) /\ L \in Nat /\ L >= 1 /\ L < Len(s) /\ L + d = Len(s)
      /\ k = d + 1
  BY <1>1, <1>4
<1> HIDE DEF d, L
<1>6. \A i \in 1..L : i + d \in DOMAIN s /\ k <= i + d
  BY <1>1, <1>5
<1>7. v \in Seq(Nat) /\ Len(v) = L /\ DOMAIN v = 1..L /\ \A i \in 1..L : v[i] = s[i + d]
  BY <1>1, <1>5, <1>6
<1> HIDE DEF v
<1>8. Ascends(v, U)
  <2>1. ASSUME NEW a \in DOMAIN v, NEW b \in DOMAIN v, a < b PROVE v[a] < v[b]
    <3>1. a + d < b + d /\ a + d \in DOMAIN s /\ b + d \in DOMAIN s
      BY <1>5, <1>6, <1>7, <2>1
    <3> QED  BY <1>7, <3>1 DEF Ascends
  <2>2. ASSUME NEW i \in DOMAIN v PROVE v[i] \in U
    <3> DEFINE m == i + d
    <3>1. m \in DOMAIN s /\ k <= m /\ v[i] = s[m]
      BY <1>6, <1>7
    <3> HIDE DEF m
    <3>2. s[k] <= s[m] /\ s[m] \in S
      BY <1>1, <3>1, PlacesOrdered
    <3> QED  BY <1>2, <3>1, <3>2
  <2>3. ASSUME NEW n \in U PROVE \E i \in DOMAIN v : v[i] = n
    <3>1. PICK m \in DOMAIN s : s[m] = n
      BY DEF Ascends
    <3>2. k <= m
      BY <1>2, <3>1, PlacesOrdered
    <3>a. m \in Int /\ m <= Len(s) /\ Len(s) \in Int
      BY <1>1
    <3>3. d \in Int /\ L \in Int /\ k = d + 1 /\ L + d = Len(s)
      BY <1>5
    <3>4. m - d \in 1..L /\ (m - d) + d = m
      BY <3>2, <3>3, <3>a
    <3> QED  BY <1>7, <3>1, <3>4
  <2> QED  BY <1>7, <2>1, <2>2, <2>3 DEF Ascends
<1> HIDE DEF U
<1>9. t = v
  BY <1>8, AscendsSame DEF U
<1>10. Len(t) = L /\ DOMAIN t = 1..L /\ t \in Seq(Nat) /\ \A i \in 1..L : t[i] = s[i + d]
  BY <1>7, <1>9
<1> DEFINE rs == Reverse(s)
           rt == Reverse(t)
<1>11. /\ rs = [i \in 1..Len(s) |-> s[(Len(s) - i) + 1]]
       /\ rt = [i \in 1..L |-> t[(L - i) + 1]]
  BY <1>10 DEF Reverse
<1> HIDE DEF rs, rt
<1>12. \A i \in 1..Len(s) : (Len(s) - i) + 1 \in DOMAIN s
  BY <1>1
<1>13. \A i \in 1..L : /\ (L - i) + 1 \in 1..L /\ i \in 1..Len(s)
                       /\ ((L - i) + 1) + d = (Len(s) - i) + 1
  <2> SUFFICES ASSUME NEW i \in 1..L
               PROVE  /\ (L - i) + 1 \in 1..L /\ i \in 1..Len(s)
                      /\ ((L - i) + 1) + d = (Len(s) - i) + 1
    OBVIOUS
  <2>1. i \in Int /\ 1 <= i /\ i <= L /\ L \in Int /\ d \in Int /\ Len(s) \in Int
    BY <1>1, <1>5
  <2>2. L < Len(s) /\ L + d = Len(s)
    BY <1>5
  <2> QED  BY <2>1, <2>2
<1>14. rs \in Seq(Nat) /\ Len(rs) = Len(s)
  <2>1. \A i \in 1..Len(s) : s[(Len(s) - i) + 1] \in Nat
    BY <1>1, <1>12
  <2> QED  BY <1>1, <1>11, <2>1
<1>15. rt \in Seq(Nat) /\ Len(rt) = L
  <2>1. \A i \in 1..L : t[i] \in Nat
    BY <1>10
  <2> QED  BY <1>5, <1>11, <1>13, <2>1
<1>16. ASSUME NEW i \in 1..L PROVE rt[i] = rs[i]
  <2> DEFINE a == (L - i) + 1
             b == (Len(s) - i) + 1
  <2>1. a \in 1..L /\ a + d = b /\ i \in 1..Len(s) /\ rt[i] = t[a] /\ rs[i] = s[b]
    BY <1>11, <1>13
  <2> HIDE DEF a, b
  <2>2. t[a] = s[a + d]
    BY <1>10, <2>1
  <2> QED  BY <2>1, <2>2
<1>17. SubSeq(rt, 1, L) = SubSeq(rs, 1, L)
  <2>1. /\ SubSeq(rt, 1, L) \in Seq(Nat) /\ Len(SubSeq(rt, 1, L)) = L
        /\ \A i \in 1..L : SubSeq(rt, 1, L)[i] = rt[i]
    BY <1>5, <1>15
  <2>2. /\ SubSeq(rs, 1, L) \in Seq(Nat) /\ Len(SubSeq(rs, 1, L)) = L
        /\ \A i \in 1..L : SubSeq(rs, 1, L)[i] = rs[i]
    <3>1. L \in Nat /\ L <= Len(rs) /\ rs \in Seq(Nat)
      BY <1>5, <1>14
    <3> QED  BY <3>1
  <2> DEFINE p == SubSeq(rt, 1, L)
             q == SubSeq(rs, 1, L)
  <2>3. p \in Seq(Nat) /\ q \in Seq(Nat) /\ Len(p) = L /\ Len(q) = L
        /\ \A i \in 1..L : p[i] = q[i]
    BY <1>16, <2>1, <2>2
  <2> HIDE DEF p, q
  <2>4. p = q
    BY <2>3, ListsEqual
  <2> QED  BY <2>4 DEF p, q
<1>18. IsPrefix(rt, rs)
  BY <1>5, <1>14, <1>15, <1>17 DEF IsPrefix
<1>19. IsSuffix(t, s)
  BY <1>18 DEF IsSuffix, rs, rt
<1>20. Len(t) \in 1..(Len(s) - 1)
  BY <1>1, <1>5, <1>10
<1> QED  BY <1>19, <1>20

-----------------------------------------------------------------------------
(* A drain *)

Message(n) == n \in OnPrimary(g) /\ g.nodes[n].kind # "checkpoint"

\* Of ordered messages the earlier has the earlier time, and a message with a
\* result comes right after that with its call.
InOrder ==
  /\ \A m, n \in DOMAIN g.nodes : Message(m) /\ Message(n) /\ m < n
        => g.nodes[m].at < g.nodes[n].at
  /\ \A k, r, m \in DOMAIN g.nodes : Message(k) /\ Message(r) /\ Message(m) =>
        \A c \in g.nodes[k].calls \cap g.nodes[r].results : m < r => m <= k

LEMMA OrderlyInOrder ==
  ASSUME HistoryOK(g), Orderly(g)
  PROVE  InOrder
<1> DEFINE line == Lineage(g, g.primary)
           P  == {i \in DOMAIN line : g.nodes[line[i]].kind # "checkpoint"}
           ms == Messages(g, line)
           S  == {n \in DOMAIN g.nodes : Message(n)}
           at(i) == g.nodes[ms[i]].at
<1>1. Ascends(line, OnPrimary(g))
  BY SoundLineage DEF HistoryOK
<1>2. ms = Picked(line, P)
  BY DEF Messages
<1>3. \A i \in 2..Len(ms) : /\ at(i - 1) < at(i)
                            /\ g.nodes[ms[i]].results = g.nodes[ms[i - 1]].calls
  BY DEF Orderly
<1> HIDE DEF line, ms
<1>4. {line[i] : i \in P} = S
  <2>1. ASSUME NEW i \in P PROVE line[i] \in S
    BY <1>1 DEF Ascends, Message, OnPrimary
  <2>2. ASSUME NEW n \in S PROVE \E i \in P : line[i] = n
    <3>1. PICK i \in DOMAIN line : line[i] = n
      BY <1>1 DEF Ascends, Message
    <3> QED  BY <3>1 DEF Message
  <2> QED  BY <2>1, <2>2
<1>5. Ascends(ms, S)
  BY <1>1, <1>2, <1>4, PickedAscends
<1>6. /\ ms \in Seq(Nat) /\ Len(ms) \in Nat /\ DOMAIN ms = 1..Len(ms)
      /\ \A i \in DOMAIN ms : ms[i] \in S /\ ms[i] \in Nat /\ at(i) \in Nat
      /\ \A n \in S : \E i \in DOMAIN ms : ms[i] = n
  <2>1. \A n \in S : g.nodes[n].at \in Nat
    BY DEF HistoryOK, Sound, Typed, NodeRecord
  <2> HIDE DEF S
  <2> QED  BY <1>5, <2>1 DEF Ascends
<1> HIDE DEF P, S
<1>7. ASSUME NEW i \in DOMAIN ms, NEW j \in DOMAIN ms, i < j
      PROVE  at(i) < at(j)
  <2> DEFINE Bad == {k \in DOMAIN ms : i < k /\ ~(at(i) < at(k))}
  <2> SUFFICES ASSUME Bad # {} PROVE FALSE
    BY <1>7
  <2>1. PICK k \in Bad : \A l \in Bad : k <= l
    <3>1. Bad \subseteq Nat
      BY <1>6
    <3> QED  BY <3>1, Smallest
  <2>2. k \in DOMAIN ms /\ i < k /\ ~(at(i) < at(k))
    OBVIOUS
  <2> HIDE DEF Bad
  <2>a. i \in Nat /\ i >= 1 /\ k \in Nat /\ k <= Len(ms)
    BY <1>6, <2>2
  <2>b. k \in 2..Len(ms) /\ k - 1 \in DOMAIN ms
    BY <1>6, <2>2, <2>a
  <2>3. at(k - 1) < at(k) /\ at(k - 1) \in Nat /\ at(k) \in Nat /\ at(i) \in Nat
    BY <1>3, <1>6, <2>2, <2>b
  <2>4. CASE i = k - 1
    BY <2>2, <2>3, <2>4
  <2>5. CASE i # k - 1
    <3>1. i < k - 1 /\ ~(k <= k - 1)
      BY <2>2, <2>5, <2>a
    <3>2. at(i) < at(k - 1)
      BY <2>1, <2>b, <3>1 DEF Bad
    <3> HIDE DEF at
    <3> QED  BY <2>2, <2>3, <3>2
  <2> QED  BY <2>4, <2>5
<1>8. ASSUME NEW m \in S, NEW n \in S, m < n
      PROVE  g.nodes[m].at < g.nodes[n].at
  <2>1. PICK i \in DOMAIN ms : ms[i] = m
    BY <1>6
  <2>2. PICK j \in DOMAIN ms : ms[j] = n
    BY <1>6
  <2>3. i < j
    BY <1>5, <1>8, <2>1, <2>2, PlacesOrdered
  <2> QED  BY <1>7, <2>1, <2>2, <2>3
<1>9. ASSUME NEW k \in S, NEW r \in S, NEW m \in S,
             NEW c \in g.nodes[k].calls \cap g.nodes[r].results, m < r
      PROVE  m <= k
  <2>1. PICK i \in DOMAIN ms : ms[i] = m
    BY <1>6
  <2>2. PICK j \in DOMAIN ms : ms[j] = r
    BY <1>6
  <2>3. i < j
    BY <1>5, <1>9, <2>1, <2>2, PlacesOrdered
  <2>4. j \in 2..Len(ms) /\ j - 1 \in DOMAIN ms /\ i <= j - 1
    <3>1. i \in Int /\ 1 <= i /\ j \in Int /\ j <= Len(ms) /\ Len(ms) \in Int
      BY <1>6
    <3>2. j \in 2..Len(ms) /\ j - 1 \in 1..Len(ms) /\ i <= j - 1
      BY <2>3, <3>1
    <3> QED  BY <1>6, <3>2
  <2>5. c \in g.nodes[ms[j - 1]].calls
    BY <1>3, <2>2, <2>4
  <2>6. ms[j - 1] \in S
    BY <1>6, <2>4
  <2>7. \A n \in S : \A d \in g.nodes[n].calls : d[1] = n
    BY DEF S, Message, HistoryOK, Paired, Paired1
  <2>8. ms[j - 1] = k
    BY <2>5, <2>6, <2>7
  <2> DEFINE l == j - 1
  <2>9. l \in DOMAIN ms /\ i <= l /\ ms[l] = k
    BY <2>4, <2>8
  <2> HIDE DEF l
  <2> QED  BY <1>5, <2>1, <2>9, PlacesOrdered
<1> QED  BY <1>8, <1>9 DEF InOrder, S

\* A node that a drain may take for its watermark: it is shown, and after u.
Reached(u, x) == x \in OnPrimary(g) /\ Shown(g, x) /\ u < x

\* One round of the walk back stays at what is shown, after u.
LEMMA CrossingReached ==
  ASSUME HistoryOK(g), InOrder, NEW u \in OnPrimary(g), Shown(g, u), g.nodes[u].kind = "user",
         NEW x, Reached(u, x), NEW T \in PairTables(g), NEW k \in Crossing(g, T, x)
  PROVE  Reached(u, k)
<1> DEFINE P == OnPrimary(g)
           ids == CallsOf(g) \cap ResultsOf(g)
           ends(c) == {n \in P : c \in g.nodes[n].calls} \X {n \in P : c \in g.nodes[n].results}
<1>1. DOMAIN T = ids /\ \A c \in ids : T[c] \in ends(c)
  BY DEF PairTables
<1>2. PICK c \in DOMAIN T : /\ k = T[c][1] /\ g.nodes[T[c][1]].at < g.nodes[x].at
                            /\ g.nodes[T[c][2]].at >= g.nodes[x].at
  BY DEF Crossing
<1> DEFINE r == T[c][2]
<1>3. /\ k \in P /\ c \in g.nodes[k].calls /\ r \in P /\ c \in g.nodes[r].results
      /\ g.nodes[k].at < g.nodes[x].at /\ g.nodes[r].at >= g.nodes[x].at
  BY <1>1, <1>2
<1> HIDE DEF r
<1>4. \A n \in P : n \in DOMAIN g.nodes /\ n \in Nat /\ g.nodes[n].at \in Nat
  BY DEF HistoryOK, OnPrimary, Sound, Typed, NodeRecord, NodeId
<1>5. /\ g.nodes[k].kind = "assistant" /\ g.nodes[r].kind = "user"
      /\ Message(k) /\ Message(r) /\ Message(x) /\ Message(u) /\ x \in P
  BY <1>3 DEF HistoryOK, Paired, Paired1, Message, Reached, Shown
<1>6. x <= r
  <2>1. r < x => g.nodes[r].at < g.nodes[x].at
    BY <1>3, <1>4, <1>5 DEF InOrder
  <2> QED  BY <1>3, <1>4, <1>5, <2>1
<1>7. Shown(g, r)
  <2>1. Since(g, r)
    <3>1. SUFFICES ASSUME g.watermark \in DOMAIN g.nodes
                   PROVE  g.nodes[r].at >= g.nodes[g.watermark].at
      BY DEF Since
    <3>2. g.nodes[x].at >= g.nodes[g.watermark].at
      BY <3>1 DEF Reached, Shown, Since
    <3>3. g.nodes[g.watermark].at \in Nat
      BY <3>1 DEF HistoryOK, Sound, Typed, NodeRecord
    <3> QED  BY <1>3, <1>4, <1>5, <3>2, <3>3
  <2>2. ASSUME NEW s \in P, Since(g, s), g.nodes[s].kind = "summary" PROVE s <= r
    <3>1. s <= x
      BY <2>2 DEF Reached, Shown
    <3> QED  BY <1>3, <1>4, <1>5, <1>6, <3>1
  <2> QED  BY <1>5, <2>1, <2>2 DEF Shown
<1>8. Shown(g, k)
  BY <1>3, <1>7, PairsShown DEF HistoryOK
<1>9. u < r /\ u # k
  BY <1>3, <1>4, <1>5, <1>6 DEF Reached
<1>10. u <= k
  BY <1>3, <1>4, <1>5, <1>9 DEF InOrder
<1> QED  BY <1>3, <1>4, <1>8, <1>9, <1>10 DEF Reached

LEMMA WatermarkReached ==
  ASSUME HistoryOK(g), InOrder, NEW u \in OnPrimary(g), Shown(g, u), g.nodes[u].kind = "user",
         NEW w, Reached(u, w), NEW T \in PairTables(g)
  PROVE  Reached(u, Watermark(g, T, w))
<1> DEFINE k == WalkLimit - 1
           f == CHOOSE f : Walks(f, g, T, w, k)
           Bad == {i \in 0..k : ~Reached(u, f[i])}
<1>1. k \in Nat
  BY GraphAssumption
<1>2. Walks(f, g, T, w, k)
  BY <1>1, WalksExist
<1>3. Watermark(g, T, w) = f[k]
  BY DEF Watermark, WalkedBack, Walks
<1> HIDE DEF f, k
<1>4. Bad = {}
  <2> SUFFICES ASSUME Bad # {} PROVE FALSE
    OBVIOUS
  <2>1. PICK i \in Bad : \A j \in Bad : i <= j
    <3>1. Bad \subseteq Nat
      BY <1>1
    <3> QED  BY <3>1, Smallest
  <2>2. i \in Nat /\ i <= k /\ i \in 0..k /\ ~Reached(u, f[i])
    BY <1>1
  <2>3. CASE i = 0
    BY <1>2, <2>2, <2>3 DEF Walks
  <2>4. CASE i # 0
    <3> DEFINE x == f[i - 1]
               C == Crossing(g, T, x)
    <3>1. i - 1 \in 0..k /\ ~(i <= i - 1)
      BY <1>1, <2>2, <2>4
    <3>2. Reached(u, x)
      BY <2>1, <3>1
    <3>3. f[i] = IF C = {} THEN x ELSE Earliest(g, C)
      BY <1>2, <2>2, <2>4 DEF Walks
    <3> HIDE DEF x
    <3>4. C \subseteq OnPrimary(g)
      BY CrossingOnPrimary
    <3>5. C # {} => Earliest(g, C) \in C
      BY <3>4, EarliestIn DEF HistoryOK
    <3>6. C # {} => Reached(u, Earliest(g, C))
      BY <3>2, <3>5, CrossingReached
    <3> QED  BY <2>2, <3>2, <3>3, <3>6
  <2> QED  BY <2>3, <2>4
<1>5. k \in 0..k
  BY <1>1
<1> QED  BY <1>3, <1>4, <1>5

\* The first and a later one of the messages with the role of the user.
LEMMA TurnsApart ==
  ASSUME HistoryOK(g), NEW k \in Nat, k # 0, Len(UserTurns) > k
  PROVE  \E u \in OnPrimary(g) : /\ Shown(g, u) /\ g.nodes[u].kind = "user"
                                 /\ Reached(u, UserTurns[k + 1])
<1> DEFINE vis == Visible(g)
           V == {n \in OnPrimary(g) : Shown(g, n)}
           P == {i \in DOMAIN vis : g.nodes[vis[i]].kind = "user"}
           t == UserTurns
<1>1. Ascends(vis, V)
  BY SoundLineage, VisibleAscends DEF HistoryOK
<1>2. t = Picked(vis, P)
  BY DEF UserTurns
<1>3. \A i \in P : vis[i] \in V /\ g.nodes[vis[i]].kind = "user"
  BY <1>1 DEF Ascends
<1>4. Len(t) > k
  OBVIOUS
<1> HIDE DEF vis
<1>5. Ascends(Picked(vis, P), {vis[i] : i \in P})
  BY <1>1, PickedAscends
<1> HIDE DEF t, P
<1>6. t \in Seq(Nat) /\ \A i \in DOMAIN t : t[i] \in V /\ g.nodes[t[i]].kind = "user"
  BY <1>2, <1>3, <1>5 DEF Ascends
<1>7. 1 \in DOMAIN t /\ k + 1 \in DOMAIN t /\ 1 < k + 1
  BY <1>4, <1>6
<1>8. t[1] < t[k + 1]
  BY <1>2, <1>5, <1>7 DEF Ascends
<1>9. Reached(t[1], t[k + 1])
  BY <1>6, <1>7, <1>8 DEF Reached
<1> QED  BY <1>6, <1>7, <1>9 DEF t

\* What is shown after a drain is what was shown before, from the watermark on.
LEMMA ShownAfter ==
  ASSUME HistoryOK(g), InOrder, NEW x \in OnPrimary(g), Shown(g, x),
         NEW h, h.nodes = g.nodes, h.primary = g.primary, h.watermark = x
  PROVE  {n \in OnPrimary(h) : Shown(h, n)}
           = {n \in {m \in OnPrimary(g) : Shown(g, m)} : x <= n}
<1> DEFINE P == OnPrimary(g)
<1>1. OnPrimary(h) = P /\ x \in DOMAIN h.nodes
  BY DEF OnPrimary
<1>2. \A n \in P : n \in DOMAIN g.nodes /\ n \in Nat /\ g.nodes[n].at \in Nat
  BY DEF HistoryOK, OnPrimary, Sound, Typed, NodeRecord, NodeId
<1>3. ASSUME NEW n \in P
      PROVE  Since(h, n) <=> g.nodes[n].at >= g.nodes[x].at
  BY <1>1 DEF Since
<1>4. ASSUME NEW n \in P, Since(h, n)
      PROVE  Since(g, n)
  <2>1. SUFFICES ASSUME g.watermark \in DOMAIN g.nodes
                 PROVE  g.nodes[n].at >= g.nodes[g.watermark].at
    BY DEF Since
  <2>2. g.nodes[x].at >= g.nodes[g.watermark].at
    BY <2>1 DEF Shown, Since
  <2>3. g.nodes[g.watermark].at \in Nat
    BY <2>1 DEF HistoryOK, Sound, Typed, NodeRecord
  <2> QED  BY <1>2, <1>3, <1>4, <2>2, <2>3
<1>5. ASSUME NEW n \in P, NEW s \in P, x <= n, Since(g, s), g.nodes[s].kind = "summary"
      PROVE  s <= n
  <2>1. s <= x
    BY <1>5 DEF Shown
  <2> QED  BY <1>2, <1>5, <2>1
<1>6. ASSUME NEW n \in P, Shown(h, n)
      PROVE  Shown(g, n) /\ x <= n
  <2>1. Since(h, n) /\ g.nodes[n].kind # "checkpoint"
    BY <1>6 DEF Shown
  <2>2. x <= n
    <3>1. n < x => g.nodes[n].at < g.nodes[x].at
      BY <1>2, <2>1 DEF InOrder, Message, Shown
    <3> QED  BY <1>2, <1>3, <2>1, <3>1
  <2> QED  BY <1>4, <1>5, <2>1, <2>2 DEF Shown
<1>7. ASSUME NEW n \in P, Shown(g, n), x <= n
      PROVE  Shown(h, n)
  <2>1. Since(h, n)
    <3>1. x < n => g.nodes[x].at < g.nodes[n].at
      BY <1>2, <1>7 DEF InOrder, Message, Shown
    <3> QED  BY <1>2, <1>3, <1>7, <3>1
  <2>2. ASSUME NEW s \in P, Since(h, s), g.nodes[s].kind = "summary" PROVE s <= n
    BY <1>4, <1>5, <1>7, <2>2
  <2> QED  BY <1>1, <1>7, <2>1, <2>2 DEF Shown
<1> QED  BY <1>1, <1>6, <1>7

\* The step of DrainShrinks.
Shrinks ==
  g' # g /\ ret'.op = "drain" /\ Orderly(g)
    => /\ IsSuffix(Visible(g'), Visible(g))
       /\ Len(Visible(g')) \in 1..(Len(Visible(g)) - 1)

LEMMA DrainStep ==
  ASSUME HistoryOK(g), HistoryOK(g'), Drain, g' # g, Orderly(g)
  PROVE  IsSuffix(Visible(g'), Visible(g)) /\ Len(Visible(g')) \in 1..(Len(Visible(g)) - 1)
<1>1. PICK rounds \in 1..MaxRounds, T \in PairTables(g) : DrainRounds(rounds, T)
  BY DEF Drain
<1> DEFINE w == UserTurns[rounds + 1]
           x == Watermark(g, T, w)
           V == {n \in OnPrimary(g) : Shown(g, n)}
<1>2. Len(UserTurns) > rounds /\ g' = Archived(g, x)
  BY <1>1 DEF DrainRounds
<1>3. rounds \in Nat /\ rounds # 0
  BY HistoryAssumption
<1>4. PICK u \in OnPrimary(g) : Shown(g, u) /\ g.nodes[u].kind = "user" /\ Reached(u, w)
  BY <1>2, <1>3, TurnsApart
<1>5. InOrder
  BY OrderlyInOrder
<1> HIDE DEF w
<1>6. Reached(u, x)
  BY <1>4, <1>5, WatermarkReached
<1> HIDE DEF x
<1>7. g'.nodes = g.nodes /\ g'.primary = g.primary /\ g'.watermark = x
  BY <1>2, ArchivedFields DEF HistoryOK, Sound, Typed
<1> DEFINE h == g'
<1>8. /\ Ascends(Visible(h), {n \in OnPrimary(h) : Shown(h, n)})
      /\ {n \in OnPrimary(h) : Shown(h, n)} = {n \in V : x <= n}
  <2>1. HistoryOK(h) /\ h.nodes = g.nodes /\ h.primary = g.primary /\ h.watermark = x
    BY <1>7
  <2> HIDE DEF h
  <2>2. Ascends(Visible(h), {n \in OnPrimary(h) : Shown(h, n)})
    BY <2>1, SoundLineage, VisibleAscends DEF HistoryOK
  <2> QED  BY <1>5, <1>6, <2>1, <2>2, ShownAfter DEF Reached
<1>9. Ascends(Visible(g), V)
  BY SoundLineage, VisibleAscends DEF HistoryOK
<1>10. x \in V /\ u \in V /\ u < x
  BY <1>4, <1>6 DEF Reached
<1> HIDE DEF V
<1> QED  BY <1>8, <1>9, <1>10, UpperSuffix

LEMMA StepShrinks == HistoryInv /\ HistoryInv' /\ [Next]_vars => Shrinks
<1> SUFFICES ASSUME HistoryInv, HistoryInv', [Next]_vars, g' # g, ret'.op = "drain", Orderly(g)
             PROVE  /\ IsSuffix(Visible(g'), Visible(g))
                    /\ Len(Visible(g')) \in 1..(Len(Visible(g)) - 1)
  BY DEF Shrinks
<1>1. ret' # Done
  BY DEF Done, Answer
<1>2. Drain
  <2>1. ~UNCHANGED vars
    BY DEF vars
  <2>2. ~AddUser /\ ~AddAssistant /\ ~AddResults
    BY <1>1 DEF AddUser, AddAssistant, AddResults, Add
  <2>3. ~Compact /\ ~Checkpoint /\ ~Bookmark /\ ~PatchLatest /\ ~AppendOn
    BY <1>1 DEF Compact, Checkpoint, Bookmark, PatchLatest, AppendOn
  <2>4. ~ForkSession /\ ~ForkCopy /\ ~ForkFromNode /\ ~ForkFromCheckpoint
    BY DEF ForkSession, ForkCopy, ForkFromNode, ForkFromCheckpoint, ForkFrom
  <2>5. ~Continue /\ ~Reload
    BY <1>1 DEF Continue, Reload
  <2> QED  BY <2>1, <2>2, <2>3, <2>4, <2>5 DEF Next
<1> QED  BY <1>2, DrainStep DEF HistoryInv

\* When calls are answered right away and the clock goes forward, a drain that
\* drain_oldest_rounds reports as done leaves a shorter request than the one
\* that was refused, never an empty one, however far archive_before walked back.
THEOREM HistoryDrains == ASSUME ~ForkEmpty PROVE Spec => DrainShrinks
<1>1. HistoryInv /\ HistoryInv' /\ [Next]_vars => [Shrinks]_vars
  BY StepShrinks
<1>2. Spec => []HistoryInv
  BY HistoryHolds
<1>3. Spec => [][Shrinks]_vars
  BY <1>1, <1>2, PTL DEF Spec
<1> QED  BY <1>3 DEF Shrinks, DrainShrinks
=============================================================================
