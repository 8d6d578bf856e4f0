------------------------- MODULE AheCacheKey_proofs --------------------------
(***************************************************************************)
(* Proofs about AheCacheKey: for any directives, namespaces and sizes, two *)
(* keys are equal exactly when the identities they stand for are.          *)
(*                                                                         *)
(* The digest is a recursive function, the sorted entries are chosen, and  *)
(* both need induction.  It is had from the cardinality of finite sets: a  *)
(* set of numbers that is closed under successor would otherwise have an   *)
(* initial part that can be mapped one-to-one into less than itself.       *)
(***************************************************************************)
EXTENDS AheCacheKey, FiniteSetTheorems, SequenceTheorems, TLAPS

-----------------------------------------------------------------------------
(* Induction over the natural numbers.                                     *)

(* A set with 0 that is closed under successor has every number.           *)
LEMMA SetInduction ==
    ASSUME NEW S, 0 \in S, \A k \in Nat : k \in S => k + 1 \in S
    PROVE  \A n \in Nat : n \in S
<1> SUFFICES ASSUME NEW n \in Nat, n \notin S
             PROVE  FALSE
    OBVIOUS
<1> DEFINE T == {k \in 0 .. n : k \in S}
           f == [k \in T |-> k + 1]
<1>1. IsFiniteSet(T)
    BY FS_Interval, FS_Subset, 0 \in Int, n \in Int, T \in SUBSET (0 .. n)
<1>2. 0 \in T
    OBVIOUS
<1>3. IsFiniteSet(T \ {0}) /\ Cardinality(T \ {0}) = Cardinality(T) - 1
    BY <1>1, <1>2, FS_RemoveElement
<1>4. f \in Injection(T, T \ {0})
  <2>1. \A k \in T : k + 1 \in T \ {0}
    <3> SUFFICES ASSUME NEW k \in T PROVE k + 1 \in T \ {0}
        OBVIOUS
    <3>1. k \in Nat /\ k <= n /\ k \in S /\ k # n
        OBVIOUS
    <3>2. k + 1 \in S
        BY <3>1
    <3> QED BY <3>1, <3>2
  <2>2. f \in [T -> T \ {0}]
      BY <2>1
  <2>3. \A a, b \in T : f[a] = f[b] => a = b
    <3> SUFFICES ASSUME NEW a \in T, NEW b \in T, a + 1 = b + 1 PROVE a = b
        OBVIOUS
    <3> QED BY a \in Nat, b \in Nat
  <2> HIDE DEF T, f
  <2> QED BY <2>2, <2>3 DEF Injection, IsInjective
<1>5. Cardinality(T) <= Cardinality(T \ {0})
    BY <1>3, <1>4, FS_Injection
<1>6. Cardinality(T) \in Nat
    BY <1>1, FS_CardinalityType
<1> QED BY <1>3, <1>5, <1>6

(* The least number of a set.                                              *)
LEMMA Least ==
    ASSUME NEW S, NEW n \in Nat, n \in S
    PROVE  \E m \in Nat : m \in S /\ \A k \in Nat : k \in S => m <= k
<1> SUFFICES ASSUME \A m \in Nat : m \in S => \E k \in Nat : k \in S /\ k < m
             PROVE  FALSE
    OBVIOUS
<1> DEFINE T == {m \in Nat : \A k \in Nat : k <= m => k \notin S}
<1>1. 0 \in T
    OBVIOUS
<1>2. \A m \in Nat : m \in T => m + 1 \in T
  <2> SUFFICES ASSUME NEW m \in Nat, m \in T,
                      NEW k \in Nat, k <= m + 1, k \in S
               PROVE  FALSE
      OBVIOUS
  <2>1. k = m + 1
      OBVIOUS
  <2>2. PICK j \in Nat : j \in S /\ j < k
      OBVIOUS
  <2> QED BY <2>1, <2>2
<1> HIDE DEF T
<1>3. n \in T
    BY <1>1, <1>2, SetInduction
<1> QED BY <1>3 DEF T

(* A function with values in V that starts at v and goes on by steps.      *)
Recurses(g, V, v, N, step) ==
    /\ g \in [0 .. N -> V]
    /\ g[0] = v
    /\ \A n \in 1 .. N : g[n] = step[n][g[n - 1]]

(* There is such a function.                                               *)
LEMMA Recursion ==
    ASSUME NEW V, NEW v \in V, NEW N \in Nat, NEW step \in [1 .. N -> [V -> V]]
    PROVE  \E g : Recurses(g, V, v, N, step)
<1> DEFINE Upto(k) ==
        \E g \in [0 .. k -> V] :
            g[0] = v /\ \A n \in 1 .. k : g[n] = step[n][g[n - 1]]
           S == {k \in Nat : k <= N => Upto(k)}
<1>1. 0 \in S
  <2> DEFINE g == [i \in 0 .. 0 |-> v]
  <2>1. g \in [0 .. 0 -> V] /\ g[0] = v /\ 1 .. 0 = {}
      OBVIOUS
  <2> QED BY <2>1
<1>2. \A k \in Nat : k \in S => k + 1 \in S
  <2> SUFFICES ASSUME NEW k \in Nat, k + 1 <= N, Upto(k)
               PROVE  Upto(k + 1)
    <3> HIDE DEF Upto
    <3> QED OBVIOUS
  <2>1. PICK g \in [0 .. k -> V] :
            g[0] = v /\ \A n \in 1 .. k : g[n] = step[n][g[n - 1]]
      OBVIOUS
  <2> DEFINE h == [i \in 0 .. k + 1 |-> IF i = k + 1 THEN step[k + 1][g[k]]
                                        ELSE g[i]]
  <2>2. step[k + 1][g[k]] \in V
    <3>1. k + 1 \in 1 .. N /\ k \in 0 .. k
        OBVIOUS
    <3>2. step[k + 1] \in [V -> V] /\ g[k] \in V
        BY <3>1
    <3> QED BY <3>2
  <2>3. h \in [0 .. k + 1 -> V]
    <3>1. \A i \in 0 .. k + 1 : i # k + 1 => i \in 0 .. k
        OBVIOUS
    <3> QED BY <2>2, <3>1
  <2>4. h[0] = v
      BY <2>1
  <2>5. \A n \in 1 .. k + 1 : h[n] = step[n][h[n - 1]]
    <3> SUFFICES ASSUME NEW n \in 1 .. k + 1
                 PROVE  h[n] = step[n][h[n - 1]]
        OBVIOUS
    <3>1. n - 1 \in 0 .. k + 1 /\ n - 1 # k + 1 /\ n \in 0 .. k + 1
        OBVIOUS
    <3>2. h[n - 1] = g[n - 1]
        BY <3>1
    <3>3. CASE n = k + 1
        BY <3>1, <3>2, <3>3
    <3>4. CASE n # k + 1
      <4>1. n \in 1 .. k
          BY <3>4
      <4> QED BY <2>1, <3>1, <3>2, <3>4, <4>1
    <3> QED BY <3>3, <3>4
  <2> QED BY <2>3, <2>4, <2>5
<1> HIDE DEF S
<1>3. N \in S
    BY <1>1, <1>2, SetInduction
<1>4. Upto(N)
    BY <1>3 DEF S
<1> QED BY <1>4 DEF Recurses

-----------------------------------------------------------------------------
(* strcmp() orders the names.                                              *)

(* StrLess, byte by byte.                                                  *)
Before(l, r) ==
    \E n \in Nat :
        /\ n <= Len(l) /\ n < Len(r)
        /\ \A i \in Nat : 1 <= i /\ i <= n => l[i] = r[i]
        /\ n < Len(l) => l[n + 1] < r[n + 1]

(* The place where two names part says which comes first.                  *)
LEMMA BeforeFrom ==
    ASSUME NEW l \in Seq(Nat), NEW r \in Seq(Nat), NEW n \in Nat,
           n <= Len(l), n < Len(r),
           \A i \in Nat : 1 <= i /\ i <= n => l[i] = r[i],
           n < Len(l) => l[n + 1] < r[n + 1]
    PROVE  Before(l, r)
BY DEF Before

(* Equal initial parts, byte by byte.                                      *)
LEMMA SameStart ==
    ASSUME NEW l \in Seq(Nat), NEW r \in Seq(Nat),
           NEW n \in Nat, n <= Len(l), n <= Len(r)
    PROVE  SubSeq(l, 1, n) = SubSeq(r, 1, n)
             <=> \A i \in Nat : 1 <= i /\ i <= n => l[i] = r[i]
<1>1. ASSUME SubSeq(l, 1, n) = SubSeq(r, 1, n),
             NEW i \in Nat, 1 <= i, i <= n
      PROVE  l[i] = r[i]
  <2>1. SubSeq(l, 1, n)[i] = l[i] /\ SubSeq(r, 1, n)[i] = r[i]
      BY <1>1
  <2> QED BY <1>1, <2>1
<1>2. ASSUME \A i \in Nat : 1 <= i /\ i <= n => l[i] = r[i]
      PROVE  SubSeq(l, 1, n) = SubSeq(r, 1, n)
  <2> DEFINE a == SubSeq(l, 1, n)
             b == SubSeq(r, 1, n)
  <2>1. a \in Seq(Nat) /\ b \in Seq(Nat) /\ Len(a) = n /\ Len(b) = n
      OBVIOUS
  <2>2. \A i \in 1 .. n : a[i] = b[i]
      BY <1>2
  <2> HIDE DEF a, b
  <2>3. a = b
      BY <2>1, <2>2, SeqEqual
  <2> QED BY <2>3 DEF a, b
<1> QED BY <1>1, <1>2

(* The two ways to say it are equivalent.                                  *)
LEMMA StrLessIsBefore ==
    ASSUME NEW l \in Seq(Nat), NEW r \in Seq(Nat)
    PROVE  StrLess(l, r) <=> Before(l, r)
<1>1. ASSUME StrLess(l, r) PROVE Before(l, r)
  <2>1. PICK n \in 0 .. Len(l) :
            /\ n < Len(r)
            /\ SubSeq(l, 1, n) = SubSeq(r, 1, n)
            /\ n < Len(l) => l[n + 1] < r[n + 1]
      BY <1>1 DEF StrLess
  <2>2. n \in Nat /\ n <= Len(l) /\ n <= Len(r)
      BY <2>1
  <2>3. \A i \in Nat : 1 <= i /\ i <= n => l[i] = r[i]
      BY <2>1, <2>2, SameStart
  <2> QED BY <2>1, <2>2, <2>3 DEF Before
<1>2. ASSUME Before(l, r) PROVE StrLess(l, r)
  <2>1. PICK n \in Nat :
            /\ n <= Len(l) /\ n < Len(r)
            /\ \A i \in Nat : 1 <= i /\ i <= n => l[i] = r[i]
            /\ n < Len(l) => l[n + 1] < r[n + 1]
      BY <1>2 DEF Before
  <2>2. n \in 0 .. Len(l) /\ n <= Len(r)
      BY <2>1
  <2>3. SubSeq(l, 1, n) = SubSeq(r, 1, n)
      BY <2>1, <2>2, SameStart
  <2> QED BY <2>1, <2>2, <2>3 DEF StrLess
<1> QED BY <1>1, <1>2

(* No name comes before itself.                                            *)
LEMMA StrLessIrreflexive ==
    ASSUME NEW l \in Seq(Nat)
    PROVE  ~StrLess(l, l)
<1> SUFFICES ASSUME Before(l, l) PROVE FALSE
    BY StrLessIsBefore
<1>1. PICK n \in Nat : n < Len(l) /\ l[n + 1] < l[n + 1]
    BY DEF Before
<1>2. l[n + 1] \in Nat
    BY <1>1
<1> QED BY <1>1, <1>2

(* Names in order stay in order across a third.                            *)
LEMMA StrLessTransitive ==
    ASSUME NEW l \in Seq(Nat), NEW m \in Seq(Nat), NEW r \in Seq(Nat),
           StrLess(l, m), StrLess(m, r)
    PROVE  StrLess(l, r)
<1>1. PICK a \in Nat :
          /\ a <= Len(l) /\ a < Len(m)
          /\ \A i \in Nat : 1 <= i /\ i <= a => l[i] = m[i]
          /\ a < Len(l) => l[a + 1] < m[a + 1]
    BY StrLessIsBefore DEF Before
<1>2. PICK b \in Nat :
          /\ b <= Len(m) /\ b < Len(r)
          /\ \A i \in Nat : 1 <= i /\ i <= b => m[i] = r[i]
          /\ b < Len(m) => m[b + 1] < r[b + 1]
    BY StrLessIsBefore DEF Before
<1>3. CASE a < b
  <2>1. a + 1 \in Nat /\ 1 <= a + 1 /\ a + 1 <= b
      BY <1>3
  <2>2. m[a + 1] = r[a + 1]
      BY <1>2, <2>1
  <2>3. \A i \in Nat : 1 <= i /\ i <= a => l[i] = r[i]
      BY <1>1, <1>2, <1>3
  <2>4. /\ a <= Len(l) /\ a < Len(r)
        /\ a < Len(l) => l[a + 1] < r[a + 1]
      BY <1>1, <1>2, <1>3, <2>2
  <2>5. Before(l, r)
      BY <2>3, <2>4, BeforeFrom
  <2> QED BY <2>5, StrLessIsBefore
<1>4. CASE b < a
  <2>1. b + 1 \in Nat /\ 1 <= b + 1 /\ b + 1 <= a
      BY <1>4
  <2>2. l[b + 1] = m[b + 1]
      BY <1>1, <2>1
  <2>3. \A i \in Nat : 1 <= i /\ i <= b => l[i] = r[i]
      BY <1>1, <1>2, <1>4
  <2>4. /\ b <= Len(l) /\ b < Len(r)
        /\ b < Len(l) => l[b + 1] < r[b + 1]
      BY <1>1, <1>2, <1>4, <2>2
  <2>5. Before(l, r)
      BY <2>3, <2>4, BeforeFrom
  <2> QED BY <2>5, StrLessIsBefore
<1>5. CASE a = b
  <2>1. \A i \in Nat : 1 <= i /\ i <= b => l[i] = r[i]
      BY <1>1, <1>2, <1>5
  <2>2. b < Len(l) => l[b + 1] < r[b + 1]
    <3> SUFFICES ASSUME b < Len(l) PROVE l[b + 1] < r[b + 1]
        OBVIOUS
    <3>1. /\ b + 1 \in 1 .. Len(l) /\ b + 1 \in 1 .. Len(m)
          /\ b + 1 \in 1 .. Len(r)
      <4>1. b < Len(l) /\ b < Len(m) /\ b < Len(r)
          BY <1>1, <1>2, <1>5
      <4> QED BY <4>1
    <3>2. l[b + 1] \in Nat
        BY <3>1
    <3>3. m[b + 1] \in Nat
        BY <3>1
    <3>4. r[b + 1] \in Nat
        BY <3>1
    <3>5. l[b + 1] < m[b + 1]
        BY <1>1, <1>5
    <3>6. m[b + 1] < r[b + 1]
        BY <1>1, <1>2, <1>5
    <3> QED BY <3>2, <3>3, <3>4, <3>5, <3>6
  <2>3. Before(l, r)
      BY <1>1, <1>2, <1>5, <2>1, <2>2, BeforeFrom
  <2> QED BY <2>3, StrLessIsBefore
<1> QED BY <1>3, <1>4, <1>5

(* Of two names one comes first.                                           *)
LEMMA StrLessTotal ==
    ASSUME NEW l \in Seq(Nat), NEW r \in Seq(Nat), l # r
    PROVE  StrLess(l, r) \/ StrLess(r, l)
<1> DEFINE D == {n \in Nat : n >= Len(l) \/ n >= Len(r) \/ l[n + 1] # r[n + 1]}
<1>1. Len(l) \in Nat /\ Len(r) \in Nat
    OBVIOUS
<1>2. Len(l) \in D /\ Len(r) \in D
    BY <1>1
<1>3. PICK m \in Nat : m \in D /\ \A k \in Nat : k \in D => m <= k
  <2> HIDE DEF D
  <2> QED BY <1>1, <1>2, Least
<1>4. m <= Len(l) /\ m <= Len(r)
    BY <1>1, <1>2, <1>3
<1>5. \A i \in Nat : 1 <= i /\ i <= m => l[i] = r[i]
  <2> SUFFICES ASSUME NEW i \in Nat, 1 <= i, i <= m PROVE l[i] = r[i]
      OBVIOUS
  <2>1. i - 1 \in Nat /\ ~(m <= i - 1) /\ (i - 1) + 1 = i
      OBVIOUS
  <2>2. i - 1 \notin D
      BY <1>3, <2>1
  <2> QED BY <2>1, <2>2
<1>6. CASE m = Len(l) /\ m = Len(r)
  <2>1. l = r
    <3>1. \A i \in 1 .. Len(l) : l[i] = r[i]
        BY <1>5, <1>6
    <3> QED BY <1>6, <3>1, SeqEqual
  <2> QED BY <2>1
<1>7. CASE m = Len(l) /\ m < Len(r)
  <2>1. m <= Len(l) /\ m < Len(r) /\ ~(m < Len(l))
      BY <1>1, <1>7
  <2>2. Before(l, r)
      BY <1>5, <2>1, BeforeFrom
  <2> QED BY <2>2, StrLessIsBefore
<1>8. CASE m < Len(l) /\ m = Len(r)
  <2>1. m <= Len(r) /\ m < Len(l) /\ ~(m < Len(r))
      BY <1>1, <1>8
  <2>2. Before(r, l)
      BY <1>5, <2>1, BeforeFrom
  <2> QED BY <2>2, StrLessIsBefore
<1>9. CASE m < Len(l) /\ m < Len(r)
  <2>1. l[m + 1] # r[m + 1]
      BY <1>1, <1>3, <1>9
  <2>2. l[m + 1] \in Nat /\ r[m + 1] \in Nat
      BY <1>9
  <2>3. CASE l[m + 1] < r[m + 1]
    <3>1. Before(l, r)
        BY <1>4, <1>5, <1>9, <2>3, BeforeFrom
    <3> QED BY <3>1, StrLessIsBefore
  <2>4. CASE r[m + 1] < l[m + 1]
    <3>1. Before(r, l)
        BY <1>4, <1>5, <1>9, <2>4, BeforeFrom
    <3> QED BY <3>1, StrLessIsBefore
  <2> QED BY <2>1, <2>2, <2>3, <2>4
<1> QED BY <1>1, <1>4, <1>6, <1>7, <1>8, <1>9

-----------------------------------------------------------------------------
(* qsort(): entries whose names differ have one sorted order.              *)

Entry == [name : Names, value : Values \cup {NoValue}]

(* A name occurs once.                                                     *)
OneEach(s) == \A i, j \in DOMAIN s : s[i].name = s[j].name => i = j

InOrder(s) == \A i, j \in DOMAIN s : i < j => StrLess(s[i].name, s[j].name)

(* What the proofs use of the order, for the names of directives.          *)
LEMMA NamesOrdered ==
    /\ \A a \in Names : ~StrLess(a, a)
    /\ \A a, b, c \in Names : StrLess(a, b) /\ StrLess(b, c) => StrLess(a, c)
    /\ \A a, b \in Names : a # b => StrLess(a, b) \/ StrLess(b, a)
<1>1. Names \subseteq Seq(Nat)
    BY KeyAssumption
<1>2. ASSUME NEW a \in Names PROVE ~StrLess(a, a)
    BY <1>1, StrLessIrreflexive
<1>3. ASSUME NEW a \in Names, NEW b \in Names, NEW c \in Names,
             StrLess(a, b), StrLess(b, c)
      PROVE  StrLess(a, c)
  <2>1. a \in Seq(Nat) /\ b \in Seq(Nat) /\ c \in Seq(Nat)
      BY <1>1
  <2> QED BY <1>3, <2>1, StrLessTransitive
<1>4. ASSUME NEW a \in Names, NEW b \in Names, a # b
      PROVE  StrLess(a, b) \/ StrLess(b, a)
  <2>1. a \in Seq(Nat) /\ b \in Seq(Nat)
      BY <1>1
  <2> QED BY <1>4, <2>1, StrLessTotal
<1> QED BY <1>2, <1>3, <1>4

(* A name that has not occurred may follow.                                *)
LEMMA NamesOnce ==
    ASSUME NEW d \in Seq(Entry), OneEach(d), NEW x \in Entry,
           \A i \in DOMAIN d : d[i].name # x.name
    PROVE  Append(d, x) \in Seq(Entry) /\ OneEach(Append(d, x))
<1> DEFINE a == Append(d, x)
<1>1. /\ a \in Seq(Entry) /\ Len(d) \in Nat /\ DOMAIN d = 1 .. Len(d)
      /\ DOMAIN a = 1 .. Len(d) + 1 /\ a[Len(d) + 1] = x
      /\ \A i \in 1 .. Len(d) : a[i] = d[i]
    OBVIOUS
<1> HIDE DEF a
<1>2. OneEach(a)
  <2> SUFFICES ASSUME NEW i \in DOMAIN a, NEW j \in DOMAIN a,
                      a[i].name = a[j].name
               PROVE  i = j
      BY DEF OneEach
  <2>1. /\ i \in 1 .. Len(d) \/ i = Len(d) + 1
        /\ j \in 1 .. Len(d) \/ j = Len(d) + 1
      BY <1>1
  <2>2. CASE i \in 1 .. Len(d) /\ j \in 1 .. Len(d)
    <3>1. d[i].name = d[j].name
        BY <1>1, <2>2
    <3> QED BY <1>1, <2>2, <3>1 DEF OneEach
  <2>3. CASE i \in 1 .. Len(d) /\ j = Len(d) + 1
      BY <1>1, <2>3
  <2>4. CASE i = Len(d) + 1 /\ j \in 1 .. Len(d)
      BY <1>1, <2>4
  <2> QED BY <2>1, <2>2, <2>3, <2>4
<1> QED BY <1>1, <1>2 DEF a

(* A further entry goes in front of the first one with a greater name.     *)
LEMMA Insertion ==
    ASSUME NEW t \in Seq(Entry), InOrder(t), NEW x \in Entry,
           \A i \in 1 .. Len(t) : t[i].name # x.name
    PROVE  \E u \in Seq(Entry) :
              /\ Len(u) = Len(t) + 1
              /\ Entries(u) = Entries(t) \cup {x}
              /\ InOrder(u)
<1> DEFINE N == Len(t)
           G == {n \in Nat :
                   /\ 1 <= n
                   /\ n = N + 1 \/ (n <= N /\ StrLess(x.name, t[n].name))}
<1>1. N \in Nat /\ DOMAIN t = 1 .. N /\ N + 1 \in G
  <2>1. N \in Nat /\ DOMAIN t = 1 .. N
      OBVIOUS
  <2> HIDE DEF N
  <2> QED BY <2>1
<1>2. \A i \in 1 .. N : t[i] \in Entry
    OBVIOUS
<1>3. x.name \in Names /\ \A i \in 1 .. N : t[i].name \in Names
    BY <1>2 DEF Entry
<1> HIDE DEF N
<1>4. PICK k \in Nat : k \in G /\ \A n \in Nat : n \in G => k <= n
  <2> HIDE DEF G
  <2> QED BY <1>1, Least, N + 1 \in Nat
<1>5. 1 <= k /\ k <= N + 1
    BY <1>1, <1>4
<1>6. \A i \in 1 .. N : i < k => StrLess(t[i].name, x.name)
  <2> SUFFICES ASSUME NEW i \in 1 .. N, i < k PROVE StrLess(t[i].name, x.name)
      OBVIOUS
  <2>1. i \notin G
      BY <1>1, <1>4
  <2>2. ~StrLess(x.name, t[i].name)
      BY <1>1, <2>1
  <2> QED BY <1>3, <2>2, NamesOrdered DEF N
<1>7. \A i \in 1 .. N : k <= i => StrLess(x.name, t[i].name)
  <2> SUFFICES ASSUME NEW i \in 1 .. N, k <= i PROVE StrLess(x.name, t[i].name)
      OBVIOUS
  <2>1. k \in 1 .. N /\ StrLess(x.name, t[k].name)
      BY <1>1, <1>4, <1>5
  <2>2. CASE k = i
      BY <2>1, <2>2
  <2>3. CASE k < i
    <3>1. StrLess(t[k].name, t[i].name)
        BY <1>1, <2>1, <2>3 DEF InOrder
    <3> QED BY <1>3, <2>1, <3>1, NamesOrdered
  <2> QED BY <1>1, <2>2, <2>3
<1> HIDE DEF G
<1> DEFINE u == [i \in 1 .. N + 1 |-> IF i < k THEN t[i]
                                      ELSE IF i = k THEN x ELSE t[i - 1]]
<1>8. \A i \in 1 .. N + 1 : /\ i < k => i \in 1 .. N
                            /\ i > k => i - 1 \in 1 .. N
    BY <1>1, <1>5
<1>9. u \in Seq(Entry) /\ Len(u) = N + 1 /\ DOMAIN u = 1 .. N + 1
  <2>1. ASSUME NEW i \in 1 .. N + 1 PROVE u[i] \in Entry
    <3>1. CASE i < k
        BY <1>2, <1>8, <3>1
    <3>2. CASE i = k
        BY <3>2
    <3>3. CASE i > k
        BY <1>2, <1>8, <3>3
    <3> QED BY <1>1, <3>1, <3>2, <3>3
  <2>2. u \in [1 .. N + 1 -> Entry]
      BY <2>1
  <2> QED BY <1>1, <2>2
<1>10. Entries(u) = Entries(t) \cup {x}
  <2>1. ASSUME NEW i \in 1 .. N + 1 PROVE u[i] \in Entries(t) \cup {x}
    <3>1. \A j \in 1 .. N : t[j] \in Entries(t)
        BY <1>1 DEF Entries
    <3>2. CASE i < k
        BY <1>8, <3>1, <3>2
    <3>3. CASE i = k
        BY <3>3
    <3>4. CASE i > k
        BY <1>8, <3>1, <3>4
    <3> QED BY <1>1, <3>2, <3>3, <3>4
  <2>2. ASSUME NEW i \in 1 .. N
        PROVE  \E j \in 1 .. N + 1 : u[j] = t[i]
    <3>1. CASE i < k
        BY <1>1, <3>1
    <3>2. CASE k <= i
      <4>1. /\ i + 1 \in 1 .. N + 1 /\ ~(i + 1 < k) /\ i + 1 # k
            /\ (i + 1) - 1 = i
          BY <1>1, <3>2
      <4>2. u[i + 1] = t[i]
          BY <4>1
      <4> QED BY <4>1, <4>2
    <3> QED BY <1>1, <3>1, <3>2
  <2>3. k \in 1 .. N + 1 /\ u[k] = x
      BY <1>1, <1>5
  <2> HIDE DEF u
  <2>4. Entries(t) \subseteq Entries(u)
      BY <1>1, <1>9, <2>2 DEF Entries
  <2>5. x \in Entries(u)
      BY <1>9, <2>3 DEF Entries
  <2>6. Entries(u) \subseteq Entries(t) \cup {x}
      BY <1>9, <2>1 DEF Entries
  <2> QED BY <2>4, <2>5, <2>6
<1>11. InOrder(u)
  <2> SUFFICES ASSUME NEW i \in 1 .. N + 1, NEW j \in 1 .. N + 1, i < j
               PROVE  StrLess(u[i].name, u[j].name)
      BY <1>9 DEF InOrder
  <2>1. \A a, b \in 1 .. N : a < b => StrLess(t[a].name, t[b].name)
      BY <1>1 DEF InOrder
  <2>2. CASE j < k
    <3>1. u[i] = t[i] /\ u[j] = t[j] /\ i \in 1 .. N /\ j \in 1 .. N
        BY <1>1, <1>8, <2>2
    <3> QED BY <2>1, <3>1
  <2>3. CASE j = k
    <3>1. u[i] = t[i] /\ u[j] = x /\ i \in 1 .. N /\ i < k
        BY <1>1, <1>8, <2>3
    <3> QED BY <1>6, <3>1
  <2>4. CASE k < j /\ i = k
    <3>1. u[i] = x /\ u[j] = t[j - 1] /\ j - 1 \in 1 .. N /\ k <= j - 1
        BY <1>1, <1>8, <2>4
    <3> QED BY <1>7, <3>1
  <2>5. CASE k < j /\ i < k
    <3>1. /\ u[i] = t[i] /\ i \in 1 .. N
          /\ u[j] = t[j - 1] /\ j - 1 \in 1 .. N /\ i < j - 1
        BY <1>1, <1>8, <2>5
    <3> QED BY <2>1, <3>1
  <2>6. CASE k < j /\ k < i
    <3>1. /\ u[i] = t[i - 1] /\ i - 1 \in 1 .. N
          /\ u[j] = t[j - 1] /\ j - 1 \in 1 .. N /\ i - 1 < j - 1
        BY <1>1, <1>8, <2>6
    <3> QED BY <2>1, <3>1
  <2> QED BY <1>1, <2>2, <2>3, <2>4, <2>5, <2>6
<1> HIDE DEF u
<1> QED BY <1>9, <1>10, <1>11 DEF N

(* Any number of entries can be sorted.                                    *)
LEMMA SortExists ==
    ASSUME NEW s \in Seq(Entry), OneEach(s)
    PROVE  \E t \in Seq(Entry) :
              Len(t) = Len(s) /\ Entries(t) = Entries(s) /\ InOrder(t)
<1> DEFINE Sorts(n) ==
        \A r \in Seq(Entry) : Len(r) = n /\ OneEach(r) =>
            \E t \in Seq(Entry) :
                Len(t) = n /\ Entries(t) = Entries(r) /\ InOrder(t)
           S == {n \in Nat : Sorts(n)}
<1>1. Sorts(0)
  <2> SUFFICES ASSUME NEW r \in Seq(Entry), Len(r) = 0, OneEach(r)
               PROVE  Len(r) = 0 /\ Entries(r) = Entries(r) /\ InOrder(r)
      OBVIOUS
  <2>1. DOMAIN r = {}
      OBVIOUS
  <2> QED BY <2>1 DEF InOrder
<1>2. ASSUME NEW n \in Nat, Sorts(n) PROVE Sorts(n + 1)
  <2> SUFFICES ASSUME NEW r \in Seq(Entry), Len(r) = n + 1, OneEach(r)
               PROVE  \E u \in Seq(Entry) : /\ Len(u) = n + 1
                                            /\ Entries(u) = Entries(r)
                                            /\ InOrder(u)
      OBVIOUS
  <2> DEFINE q == SubSeq(r, 1, n)
             x == r[n + 1]
  <2>1. /\ q \in Seq(Entry) /\ Len(q) = n /\ DOMAIN q = 1 .. n
        /\ \A i \in 1 .. n : q[i] = r[i]
      OBVIOUS
  <2>2. DOMAIN r = 1 .. n + 1 /\ x \in Entry
      OBVIOUS
  <2> HIDE DEF q, x
  <2>3. OneEach(q)
      BY <2>1, <2>2 DEF OneEach
  <2>4. PICK t \in Seq(Entry) :
            Len(t) = n /\ Entries(t) = Entries(q) /\ InOrder(t)
      BY <1>2, <2>1, <2>3
  <2>5. \A i \in 1 .. Len(t) : t[i].name # x.name
    <3> SUFFICES ASSUME NEW i \in 1 .. Len(t) PROVE t[i].name # x.name
        OBVIOUS
    <3>1. t[i] \in Entries(q)
      <4>1. i \in DOMAIN t
          OBVIOUS
      <4>2. t[i] \in Entries(t)
          BY <4>1 DEF Entries
      <4> QED BY <2>4, <4>2
    <3>2. PICK j \in 1 .. n : t[i] = q[j]
        BY <2>1, <3>1 DEF Entries
    <3>3. j \in DOMAIN r /\ n + 1 \in DOMAIN r /\ j # n + 1 /\ t[i] = r[j]
        BY <2>1, <2>2, <3>2
    <3> QED BY <3>3 DEF OneEach, x
  <2>6. PICK u \in Seq(Entry) : /\ Len(u) = Len(t) + 1
                                /\ Entries(u) = Entries(t) \cup {x}
                                /\ InOrder(u)
      BY <2>2, <2>4, <2>5, Insertion
  <2>7. Entries(r) = Entries(q) \cup {x}
    <3>1. ASSUME NEW i \in 1 .. n + 1 PROVE r[i] \in Entries(q) \cup {x}
      <4>1. CASE i = n + 1
          BY <4>1 DEF x
      <4>2. CASE i \in 1 .. n
          BY <2>1, <4>2 DEF Entries
      <4> QED BY <4>1, <4>2
    <3>2. ASSUME NEW i \in 1 .. n PROVE q[i] \in Entries(r)
      <4>1. i \in DOMAIN r /\ q[i] = r[i]
          BY <2>1, <2>2
      <4> QED BY <4>1 DEF Entries
    <3>3. x \in Entries(r)
        BY <2>2 DEF x, Entries
    <3> QED BY <2>1, <2>2, <3>1, <3>2, <3>3 DEF Entries
  <2> QED BY <2>4, <2>6, <2>7
<1>3. \A n \in Nat : n \in S
  <2>1. 0 \in S /\ \A n \in Nat : n \in S => n + 1 \in S
    <3> HIDE DEF Sorts
    <3> QED BY <1>1, <1>2
  <2> HIDE DEF S
  <2> QED BY <2>1, SetInduction
<1>4. Sorts(Len(s))
  <2> HIDE DEF Sorts
  <2> QED BY <1>3, Len(s) \in Nat
<1> QED BY <1>4

(* What the model's sort returns.                                          *)
LEMMA SortResult ==
    ASSUME NEW s \in Seq(Entry), OneEach(s)
    PROVE  LET t == ahe_compare_ini_fingerprint_entries(s)
           IN  /\ t \in Seq(Entry) /\ Len(t) = Len(s)
               /\ Entries(t) = Entries(s) /\ InOrder(t)
<1>1. PICK t \in Seq(Entry) :
          Len(t) = Len(s) /\ Entries(t) = Entries(s) /\ InOrder(t)
    BY SortExists
<1> DEFINE Good(g) ==
        /\ Entries(g) = Entries(s)
        /\ \A i, j \in DOMAIN g :
              i < j => StrLess(g[i].name, g[j].name)
           T == [DOMAIN s -> Entries(s)]
           c == CHOOSE g \in T : Good(g)
<1>2. t \in T
  <2>1. DOMAIN t = DOMAIN s /\ \A i \in DOMAIN t : t[i] \in Entries(t)
      BY <1>1 DEF Entries
  <2> QED BY <1>1, <2>1
<1>3. Good(t)
    BY <1>1 DEF InOrder
<1>4. c \in T /\ Good(c)
  <2> HIDE DEF T, Good
  <2> QED BY <1>2, <1>3
<1>5. c = ahe_compare_ini_fingerprint_entries(s)
    BY DEF ahe_compare_ini_fingerprint_entries
<1>6. c \in Seq(Entry) /\ Len(c) = Len(s)
  <2>1. Entries(s) \subseteq Entry
      BY DEF Entries
  <2>2. DOMAIN s = 1 .. Len(s) /\ Len(s) \in Nat
      OBVIOUS
  <2>3. c \in [1 .. Len(s) -> Entry]
    <3> HIDE DEF c
    <3> QED BY <1>4, <2>1, <2>2
  <2> HIDE DEF c
  <2> QED BY <2>2, <2>3
<1> HIDE DEF c
<1> QED BY <1>4, <1>5, <1>6 DEF InOrder

-----------------------------------------------------------------------------
(* What a sorted list of entries says has one form.                        *)

(* An entry with its value as it is digested.                              *)
Said(entry) == [name |-> entry.name, value |-> ValueBytes(entry)]

AllSaid(s) == {Said(s[i]) : i \in DOMAIN s}

(* The entries of a list have names.                                       *)
LEMMA NameOf ==
    ASSUME NEW s \in Seq(Entry), NEW i \in DOMAIN s
    PROVE  s[i].name \in Names
<1>1. s[i] \in Entry
    OBVIOUS
<1> QED BY <1>1 DEF Entry

(* Lists in order that say the same agree entry by entry: the first that   *)
(* differed would be missing from one of them.                             *)
LEMMA SortedAgree ==
    ASSUME NEW t \in Seq(Entry), NEW u \in Seq(Entry), InOrder(t), InOrder(u),
           AllSaid(t) = AllSaid(u),
           NEW k \in Nat, 1 <= k, k <= Len(t), k <= Len(u),
           \A j \in Nat : 1 <= j /\ j < k => Said(t[j]) = Said(u[j])
    PROVE  Said(t[k]) = Said(u[k])
<1>1. DOMAIN t = 1 .. Len(t) /\ DOMAIN u = 1 .. Len(u)
    OBVIOUS
<1>2. /\ \A i \in DOMAIN t : t[i].name \in Names
      /\ \A i \in DOMAIN u : u[i].name \in Names
    BY NameOf
<1>3. k \in DOMAIN t /\ k \in DOMAIN u
    BY <1>1
<1>4. PICK m \in DOMAIN u : Said(u[m]) = Said(t[k])
    BY <1>3 DEF AllSaid
<1>5. PICK l \in DOMAIN t : Said(t[l]) = Said(u[k])
    BY <1>3 DEF AllSaid
<1>6. u[m].name = t[k].name /\ t[l].name = u[k].name
    BY <1>4, <1>5 DEF Said
<1>7. ~(m < k)
  <2> SUFFICES ASSUME m < k PROVE FALSE
      OBVIOUS
  <2>1. Said(t[m]) = Said(u[m]) /\ m \in DOMAIN t
      BY <1>1, <1>4
  <2>2. t[m].name = t[k].name
      BY <1>6, <2>1 DEF Said
  <2>3. StrLess(t[m].name, t[k].name)
      BY <1>3, <2>1 DEF InOrder
  <2> QED BY <1>2, <1>3, <2>2, <2>3, NamesOrdered
<1>8. ~(l < k)
  <2> SUFFICES ASSUME l < k PROVE FALSE
      OBVIOUS
  <2>1. Said(t[l]) = Said(u[l]) /\ l \in DOMAIN u
      BY <1>1, <1>5
  <2>2. u[l].name = u[k].name
      BY <1>6, <2>1 DEF Said
  <2>3. StrLess(u[l].name, u[k].name)
      BY <1>3, <2>1 DEF InOrder
  <2> QED BY <1>2, <1>3, <2>2, <2>3, NamesOrdered
<1>9. ~(k < m)
  <2> SUFFICES ASSUME k < m PROVE FALSE
      OBVIOUS
  <2>1. StrLess(u[k].name, t[k].name)
      BY <1>3, <1>4, <1>6 DEF InOrder
  <2>2. CASE l = k
      BY <1>2, <1>3, <1>6, <2>1, <2>2, NamesOrdered
  <2>3. CASE k < l
    <3>1. StrLess(t[k].name, u[k].name)
        BY <1>3, <1>5, <1>6, <2>3 DEF InOrder
    <3> QED BY <1>2, <1>3, <2>1, <3>1, NamesOrdered
  <2> QED BY <1>1, <1>5, <1>8, <2>2, <2>3
<1>10. m = k
    BY <1>1, <1>4, <1>7, <1>9
<1> QED BY <1>4, <1>10

(* Neither of them ends before the other.                                  *)
LEMMA SortedNoLonger ==
    ASSUME NEW t \in Seq(Entry), NEW u \in Seq(Entry), InOrder(u),
           AllSaid(t) = AllSaid(u),
           \A j \in Nat : 1 <= j /\ j <= Len(t) /\ j <= Len(u) =>
               Said(t[j]) = Said(u[j])
    PROVE  Len(u) <= Len(t)
<1> SUFFICES ASSUME Len(t) < Len(u) PROVE FALSE
    BY Len(t) \in Nat, Len(u) \in Nat
<1> DEFINE k == Len(t) + 1
<1>1. k \in DOMAIN u /\ \A i \in DOMAIN t : i \in Nat /\ 1 <= i /\ i <= Len(t)
    OBVIOUS
<1>2. PICK i \in DOMAIN t : Said(t[i]) = Said(u[k])
    BY <1>1 DEF AllSaid
<1>3. i \in DOMAIN u /\ i < k /\ Said(t[i]) = Said(u[i])
    BY <1>1, <1>2
<1>4. u[i].name = u[k].name /\ u[k].name \in Names
    BY <1>1, <1>2, <1>3, NameOf DEF Said
<1>5. StrLess(u[i].name, u[k].name)
    BY <1>1, <1>3 DEF InOrder
<1> QED BY <1>4, <1>5, NamesOrdered

(* By induction they agree everywhere.                                     *)
LEMMA SortedUnique ==
    ASSUME NEW t \in Seq(Entry), NEW u \in Seq(Entry), InOrder(t), InOrder(u),
           AllSaid(t) = AllSaid(u)
    PROVE  /\ Len(t) = Len(u)
           /\ \A i \in 1 .. Len(t) : Said(t[i]) = Said(u[i])
<1> DEFINE Agree(n) ==
        \A j \in Nat : 1 <= j /\ j <= n /\ j <= Len(t) /\ j <= Len(u) =>
            Said(t[j]) = Said(u[j])
           S == {n \in Nat : Agree(n)}
<1>1. 0 \in S
    OBVIOUS
<1>2. \A n \in Nat : n \in S => n + 1 \in S
  <2> SUFFICES ASSUME NEW n \in Nat, Agree(n) PROVE Agree(n + 1)
    <3> HIDE DEF Agree
    <3> QED OBVIOUS
  <2> SUFFICES ASSUME NEW j \in Nat, 1 <= j, j <= n + 1,
                      j <= Len(t), j <= Len(u)
               PROVE  Said(t[j]) = Said(u[j])
      OBVIOUS
  <2>1. \A i \in Nat : 1 <= i /\ i < j => Said(t[i]) = Said(u[i])
      OBVIOUS
  <2> HIDE DEF Agree
  <2> QED BY <2>1, SortedAgree
<1>3. \A n \in Nat : n \in S
  <2> HIDE DEF S
  <2> QED BY <1>1, <1>2, SetInduction
<1>4. \A j \in Nat : 1 <= j /\ j <= Len(t) /\ j <= Len(u) =>
          Said(t[j]) = Said(u[j])
    BY <1>3
<1>5. Len(u) <= Len(t)
    BY <1>4, SortedNoLonger
<1>6. Len(t) <= Len(u)
    BY <1>4, SortedNoLonger
<1> QED BY <1>4, <1>5, <1>6

-----------------------------------------------------------------------------
(* The digest: what it is made of can be read back.                        *)

(* An entry is digested as a non-empty sequence of bytes.                  *)
LEMMA EntryTyped ==
    ASSUME NEW e \in Entry
    PROVE  /\ e.name \in Seq(Nat) /\ ValueBytes(e) \in Seq(Nat)
           /\ EntryBytes(e) \in Seq(Nat) /\ EntryBytes(e) # <<>>
<1>1. e.name \in Seq(Nat) /\ ValueBytes(e) \in Seq(Nat)
    BY KeyAssumption DEF Entry, ValueBytes
<1>2. ASSUME NEW v \in Seq(Nat)
      PROVE  /\ ahe_md5_update_field(v) \in Seq(Nat)
             /\ Len(ahe_md5_update_field(v)) = Len(v) + 1
    BY DEF ahe_md5_update_field
<1> DEFINE a == ahe_md5_update_field(e.name)
           b == ahe_md5_update_field(ValueBytes(e))
<1>3. /\ a \in Seq(Nat) /\ b \in Seq(Nat)
      /\ Len(a) = Len(e.name) + 1 /\ Len(b) = Len(ValueBytes(e)) + 1
    BY <1>1, <1>2
<1>4. EntryBytes(e) = a \o b
    BY DEF EntryBytes
<1> HIDE DEF a, b
<1>5. Len(e.name) \in Nat /\ Len(ValueBytes(e)) \in Nat
    BY <1>1
<1>6. a \o b \in Seq(Nat) /\ Len(a \o b) > 0
    BY <1>3, <1>5
<1> QED BY <1>1, <1>4, <1>6

(* The recursive function of DigestBytes exists.                           *)
LEMMA DigestSteps ==
    ASSUME NEW e \in Seq(Entry)
    PROVE  \E b \in [1 .. Len(e) + 1 -> Seq(Nat)] :
              /\ DigestBytes(e) = b[1]
              /\ b[Len(e) + 1] = <<>>
              /\ \A n \in 1 .. Len(e) : b[n] = EntryBytes(e[n]) \o b[n + 1]
<1> DEFINE N == Len(e)
           V == Seq(Nat)
           step == [n \in 1 .. N |->
                       [v \in V |-> EntryBytes(e[N + 1 - n]) \o v]]
<1>1. N \in Nat /\ DOMAIN e = 1 .. N /\ \A n \in 1 .. N : e[n] \in Entry
    OBVIOUS
<1> HIDE DEF N
<1>2. \A n \in 1 .. N : N + 1 - n \in 1 .. N
    BY <1>1
<1>3. \A n \in 1 .. N : EntryBytes(e[n]) \in V
    BY <1>1, EntryTyped
<1>4. step \in [1 .. N -> [V -> V]]
    BY <1>2, <1>3
<1>5. <<>> \in V
    OBVIOUS
<1>6. PICK g : Recurses(g, V, <<>>, N, step)
  <2> HIDE DEF V, step
  <2> QED BY <1>1, <1>4, <1>5, Recursion
<1> DEFINE h == [n \in 1 .. N + 1 |-> g[N + 1 - n]]
<1>7. \A n \in 1 .. N + 1 : N + 1 - n \in 0 .. N
    BY <1>1
<1>8. h \in [1 .. N + 1 -> V]
    BY <1>6, <1>7 DEF Recurses
<1>9. h[N + 1] = <<>>
    BY <1>1, <1>6 DEF Recurses
<1>10. ASSUME NEW n \in 1 .. N PROVE h[n] = EntryBytes(e[n]) \o h[n + 1]
  <2>1. /\ N + 1 - n \in 1 .. N /\ N + 1 - (N + 1 - n) = n
        /\ n + 1 \in 1 .. N + 1 /\ n \in 1 .. N + 1
        /\ N + 1 - (n + 1) = (N + 1 - n) - 1
        /\ (N + 1 - n) - 1 \in 0 .. N
      BY <1>1
  <2>2. h[n] = g[N + 1 - n] /\ h[n + 1] = g[(N + 1 - n) - 1]
      BY <2>1
  <2>3. g[N + 1 - n] = step[N + 1 - n][g[(N + 1 - n) - 1]]
    <3> HIDE DEF step, V
    <3> QED BY <1>6, <2>1 DEF Recurses
  <2>4. g[(N + 1 - n) - 1] \in V
      BY <1>6, <2>1 DEF Recurses
  <2>5. step[N + 1 - n][g[(N + 1 - n) - 1]]
          = EntryBytes(e[n]) \o g[(N + 1 - n) - 1]
      BY <2>1, <2>4
  <2> HIDE DEF h, step, V
  <2> QED BY <2>2, <2>3, <2>5
<1> DEFINE Rec(b) == [n \in 1 .. N + 1 |-> IF n = N + 1 THEN <<>>
                                           ELSE EntryBytes(e[n]) \o b[n + 1]]
           c == CHOOSE b : b = Rec(b)
<1> HIDE DEF h
<1>11. h = Rec(h)
  <2>1. \A n \in 1 .. N + 1 : h[n] = Rec(h)[n]
    <3> SUFFICES ASSUME NEW n \in 1 .. N + 1 PROVE h[n] = Rec(h)[n]
        OBVIOUS
    <3>1. CASE n = N + 1
        BY <1>9, <3>1
    <3>2. CASE n # N + 1
      <4>1. n \in 1 .. N
          BY <1>1, <3>2
      <4> QED BY <1>10, <3>2, <4>1
    <3> QED BY <3>1, <3>2
  <2>2. h = [n \in 1 .. N + 1 |-> h[n]]
      BY <1>8
  <2> QED BY <2>1, <2>2
<1>12. c = Rec(c)
  <2> HIDE DEF Rec
  <2> QED BY <1>11
<1>13. DigestBytes(e) = c[1]
    BY DEF DigestBytes, N
<1> HIDE DEF c
<1>14. /\ DOMAIN c = 1 .. N + 1 /\ c[N + 1] = <<>>
       /\ \A n \in 1 .. N : c[n] = EntryBytes(e[n]) \o c[n + 1]
  <2>1. \A n \in 1 .. N : n \in 1 .. N + 1 /\ n # N + 1
      BY <1>1
  <2>2. N + 1 \in 1 .. N + 1
      BY <1>1
  <2> QED BY <1>12, <2>1, <2>2
<1> DEFINE S == {m \in Nat : m <= N => c[N + 1 - m] \in V}
<1>15. 0 \in S
    BY <1>1, <1>5, <1>14, N + 1 - 0 = N + 1
<1>16. ASSUME NEW m \in Nat, m \in S PROVE m + 1 \in S
  <2> SUFFICES ASSUME m + 1 <= N PROVE c[N + 1 - (m + 1)] \in V
      OBVIOUS
  <2>1. /\ N + 1 - (m + 1) \in 1 .. N
        /\ (N + 1 - (m + 1)) + 1 = N + 1 - m /\ m <= N
      BY <1>1
  <2>2. c[N + 1 - (m + 1)]
          = EntryBytes(e[N + 1 - (m + 1)]) \o c[N + 1 - m]
      BY <1>14, <2>1
  <2>3. EntryBytes(e[N + 1 - (m + 1)]) \in V /\ c[N + 1 - m] \in V
      BY <1>3, <1>16, <2>1
  <2> QED BY <2>2, <2>3
<1>17. \A m \in Nat : m \in S
  <2> HIDE DEF S
  <2> QED BY <1>15, <1>16, SetInduction
<1>18. ASSUME NEW n \in 1 .. N + 1 PROVE c[n] \in V
  <2>1. N + 1 - n \in Nat /\ N + 1 - n <= N /\ N + 1 - (N + 1 - n) = n
      BY <1>1
  <2>2. N + 1 - n \in S
      BY <1>17, <2>1
  <2> QED BY <2>1, <2>2
<1>19. c \in [1 .. N + 1 -> V]
  <2>1. c = [n \in 1 .. N + 1 |-> c[n]]
      BY <1>12
  <2> HIDE DEF V
  <2> QED BY <1>18, <2>1
<1> QED BY <1>13, <1>14, <1>19 DEF N

-----------------------------------------------------------------------------
(* The first part of a sequence of bytes can be taken away.                *)
LEMMA CancelLeft ==
    ASSUME NEW s \in Seq(Nat), NEW t \in Seq(Nat), NEW v \in Seq(Nat),
           s \o t = s \o v
    PROVE  t = v
<1>1. Len(s) + Len(t) = Len(s) + Len(v)
    BY Len(s \o t) = Len(s) + Len(t), Len(s \o v) = Len(s) + Len(v)
<1>2. Len(t) = Len(v)
    BY <1>1, Len(s) \in Nat, Len(t) \in Nat, Len(v) \in Nat
<1>3. ASSUME NEW i \in 1 .. Len(t) PROVE t[i] = v[i]
  <2>1. (s \o t)[Len(s) + i] = t[i]
      OBVIOUS
  <2>2. (s \o v)[Len(s) + i] = v[i]
      BY <1>2
  <2> QED BY <2>1, <2>2
<1> QED BY <1>2, <1>3, SeqEqual

(* A field or an entry, and what follows it.                               *)
PutField(value, rest) == ahe_md5_update_field(value) \o rest
PutEntry(entry, rest) == EntryBytes(entry) \o rest

(* Bytes in front of bytes are bytes.                                      *)
LEMMA PutTyped ==
    ASSUME NEW v \in Seq(Nat), NEW x \in Seq(Nat)
    PROVE  PutField(v, x) \in Seq(Nat)
    BY DEF PutField, ahe_md5_update_field

(* The length in front of a field says where it ends.                      *)
LEMMA FieldSplits ==
    ASSUME NEW u \in Seq(Nat), NEW v \in Seq(Nat),
           NEW x \in Seq(Nat), NEW y \in Seq(Nat),
           PutField(u, x) = PutField(v, y)
    PROVE  u = v /\ x = y
<1> DEFINE a == <<Len(u)>> \o u
           b == <<Len(v)>> \o v
<1>1. a \o x = b \o y
    BY DEF PutField, ahe_md5_update_field
<1>2. /\ a \in Seq(Nat) /\ Len(a) = Len(u) + 1 /\ a[1] = Len(u)
      /\ \A i \in 1 .. Len(u) : a[i + 1] = u[i]
    OBVIOUS
<1>3. /\ b \in Seq(Nat) /\ Len(b) = Len(v) + 1 /\ b[1] = Len(v)
      /\ \A i \in 1 .. Len(v) : b[i + 1] = v[i]
    OBVIOUS
<1> HIDE DEF a, b
<1>4. Len(u) \in Nat /\ Len(v) \in Nat
    OBVIOUS
<1>5. /\ \A i \in 1 .. Len(a) : (a \o x)[i] = a[i]
      /\ \A i \in 1 .. Len(b) : (b \o y)[i] = b[i]
    BY <1>2, <1>3
<1>6. Len(u) = Len(v)
  <2>1. 1 \in 1 .. Len(a) /\ 1 \in 1 .. Len(b)
      BY <1>2, <1>3, <1>4
  <2>2. a[1] = b[1]
      BY <1>1, <1>5, <2>1
  <2> QED BY <1>2, <1>3, <2>2
<1>7. ASSUME NEW i \in 1 .. Len(u) PROVE u[i] = v[i]
  <2>1. i + 1 \in 1 .. Len(a) /\ i + 1 \in 1 .. Len(b)
      BY <1>2, <1>3, <1>4, <1>6
  <2>2. a[i + 1] = b[i + 1]
      BY <1>1, <1>5, <2>1
  <2> QED BY <1>2, <1>3, <1>6, <2>2
<1>8. u = v
    BY <1>6, <1>7, SeqEqual
<1>9. a = b
    BY <1>8 DEF a, b
<1>10. x = y
    BY <1>1, <1>2, <1>9, CancelLeft
<1> QED BY <1>8, <1>10

(* Bytes put one after another do not depend on the grouping.              *)
LEMMA BytesAssociate ==
    ASSUME NEW a \in Seq(Nat), NEW b \in Seq(Nat), NEW x \in Seq(Nat)
    PROVE  (a \o b) \o x = a \o (b \o x)
BY SMTT(30)

(* An entry is two fields.                                                 *)
LEMMA EntryIsTwoFields ==
    ASSUME NEW e \in Entry, NEW x \in Seq(Nat)
    PROVE  PutEntry(e, x) = PutField(e.name, PutField(ValueBytes(e), x))
<1> DEFINE a == ahe_md5_update_field(e.name)
           b == ahe_md5_update_field(ValueBytes(e))
<1>1. a \in Seq(Nat) /\ b \in Seq(Nat)
    BY EntryTyped DEF ahe_md5_update_field
<1>2. PutEntry(e, x) = (a \o b) \o x
    BY DEF PutEntry, EntryBytes
<1>3. PutField(e.name, PutField(ValueBytes(e), x)) = a \o (b \o x)
    BY DEF PutField
<1> HIDE DEF a, b
<1>4. (a \o b) \o x = a \o (b \o x)
    BY <1>1, BytesAssociate, Zenon
<1> QED BY <1>2, <1>3, <1>4, Zenon

(* An entry can be told from what follows it.                              *)
LEMMA EntrySplits ==
    ASSUME NEW d \in Entry, NEW e \in Entry,
           NEW x \in Seq(Nat), NEW y \in Seq(Nat),
           PutEntry(d, x) = PutEntry(e, y)
    PROVE  Said(d) = Said(e) /\ x = y
<1>1. /\ d.name \in Seq(Nat) /\ ValueBytes(d) \in Seq(Nat)
      /\ e.name \in Seq(Nat) /\ ValueBytes(e) \in Seq(Nat)
    BY EntryTyped
<1>2. /\ PutField(ValueBytes(d), x) \in Seq(Nat)
      /\ PutField(ValueBytes(e), y) \in Seq(Nat)
    BY <1>1, PutTyped
<1>3. PutField(d.name, PutField(ValueBytes(d), x))
        = PutField(e.name, PutField(ValueBytes(e), y))
    BY EntryIsTwoFields
<1>4. /\ d.name = e.name
      /\ PutField(ValueBytes(d), x) = PutField(ValueBytes(e), y)
    BY <1>1, <1>2, <1>3, FieldSplits
<1>5. ValueBytes(d) = ValueBytes(e) /\ x = y
    BY <1>1, <1>4, FieldSplits
<1> QED BY <1>4, <1>5 DEF Said

(* Entries that digest to the same bytes say the same, one by one: neither *)
(* a boundary between names, values and entries nor the end of the list    *)
(* can be taken for another.                                               *)
LEMMA DigestInjective ==
    ASSUME NEW t \in Seq(Entry), NEW u \in Seq(Entry),
           DigestBytes(t) = DigestBytes(u)
    PROVE  Len(t) = Len(u) /\ \A i \in 1 .. Len(t) : Said(t[i]) = Said(u[i])
<1> DEFINE M == Len(t)
           N == Len(u)
<1>1. /\ M \in Nat /\ \A i \in 1 .. M : t[i] \in Entry
      /\ N \in Nat /\ \A i \in 1 .. N : u[i] \in Entry
    OBVIOUS
<1>2. PICK a \in [1 .. M + 1 -> Seq(Nat)] :
          /\ DigestBytes(t) = a[1] /\ a[M + 1] = <<>>
          /\ \A n \in 1 .. M : a[n] = EntryBytes(t[n]) \o a[n + 1]
    BY DigestSteps
<1>3. PICK b \in [1 .. N + 1 -> Seq(Nat)] :
          /\ DigestBytes(u) = b[1] /\ b[N + 1] = <<>>
          /\ \A n \in 1 .. N : b[n] = EntryBytes(u[n]) \o b[n + 1]
    BY DigestSteps
<1> HIDE DEF M, N
<1>4. /\ \A n \in 1 .. M + 1 : a[n] = <<>> => n = M + 1
      /\ \A n \in 1 .. N + 1 : b[n] = <<>> => n = N + 1
  <2>1. ASSUME NEW e \in Entry, NEW x \in Seq(Nat)
        PROVE  EntryBytes(e) \o x # <<>>
      BY EntryTyped, ConcatEqualIffEmpty
  <2>2. ASSUME NEW n \in 1 .. M + 1, n # M + 1 PROVE a[n] # <<>>
    <3>1. n \in 1 .. M /\ n + 1 \in 1 .. M + 1
        BY <1>1, <2>2
    <3> QED BY <1>1, <1>2, <2>1, <3>1
  <2>3. ASSUME NEW n \in 1 .. N + 1, n # N + 1 PROVE b[n] # <<>>
    <3>1. n \in 1 .. N /\ n + 1 \in 1 .. N + 1
        BY <1>1, <2>3
    <3> QED BY <1>1, <1>3, <2>1, <3>1
  <2> QED BY <2>2, <2>3
<1> DEFINE Same(k) ==
        /\ k <= N /\ a[k + 1] = b[k + 1]
        /\ \A i \in 1 .. k : Said(t[i]) = Said(u[i])
           S == {k \in Nat : k <= M => Same(k)}
<1>5. Same(0)
  <2>1. 0 <= N /\ 0 + 1 = 1 /\ 1 .. 0 = {}
      BY <1>1
  <2> QED BY <1>2, <1>3, <2>1
<1>6. ASSUME NEW k \in Nat, k + 1 <= M, Same(k) PROVE Same(k + 1)
  <2>1. k + 1 \in 1 .. M /\ k + 1 \in 1 .. M + 1 /\ k + 1 # M + 1
      BY <1>1, <1>6
  <2>2. k + 1 \in 1 .. N + 1
      BY <1>1, <1>6
  <2>3. k + 1 \in 1 .. N
    <3>1. a[k + 1] # <<>>
        BY <1>4, <2>1
    <3>2. b[k + 1] # <<>>
        BY <1>6, <3>1
    <3>3. k + 1 # N + 1
        BY <1>3, <3>2
    <3> QED BY <1>1, <2>2, <3>3
  <2>4. /\ k + 2 \in 1 .. M + 1 /\ k + 2 \in 1 .. N + 1 /\ (k + 1) + 1 = k + 2
      BY <1>1, <2>1, <2>3
  <2>5. /\ a[k + 1] = EntryBytes(t[k + 1]) \o a[k + 2]
        /\ b[k + 1] = EntryBytes(u[k + 1]) \o b[k + 2]
      BY <1>2, <1>3, <2>1, <2>3, <2>4
  <2>6. /\ t[k + 1] \in Entry /\ u[k + 1] \in Entry
        /\ a[k + 2] \in Seq(Nat) /\ b[k + 2] \in Seq(Nat)
      BY <1>1, <2>1, <2>3, <2>4
  <2>7. Said(t[k + 1]) = Said(u[k + 1]) /\ a[k + 2] = b[k + 2]
    <3>1. PutEntry(t[k + 1], a[k + 2]) = PutEntry(u[k + 1], b[k + 2])
        BY <1>6, <2>5 DEF PutEntry
    <3> QED BY <2>6, <3>1, EntrySplits
  <2>8. \A i \in 1 .. k + 1 : i \in 1 .. k \/ i = k + 1
      OBVIOUS
  <2> QED BY <1>1, <1>6, <2>3, <2>4, <2>7, <2>8
<1>7. \A k \in Nat : k \in S
  <2>1. 0 \in S
    <3> HIDE DEF Same
    <3> QED BY <1>5
  <2>2. \A k \in Nat : k \in S => k + 1 \in S
    <3> HIDE DEF Same
    <3> QED BY <1>1, <1>6
  <2> HIDE DEF S
  <2> QED BY <2>1, <2>2, SetInduction
<1>8. Same(M)
  <2> HIDE DEF Same
  <2> QED BY <1>1, <1>7
<1>9. M = N
  <2>1. b[M + 1] = <<>> /\ M + 1 \in 1 .. N + 1
      BY <1>1, <1>2, <1>8
  <2> QED BY <1>1, <1>4, <2>1
<1> QED BY <1>8, <1>9 DEF M, N

(* Entries that say the same digest to the same bytes.                     *)
LEMMA DigestAgrees ==
    ASSUME NEW t \in Seq(Entry), NEW u \in Seq(Entry), Len(t) = Len(u),
           \A i \in 1 .. Len(t) : Said(t[i]) = Said(u[i])
    PROVE  DigestBytes(t) = DigestBytes(u)
<1> DEFINE N == Len(t)
<1>1. N \in Nat
    OBVIOUS
<1>2. PICK a \in [1 .. N + 1 -> Seq(Nat)] :
          /\ DigestBytes(t) = a[1] /\ a[N + 1] = <<>>
          /\ \A n \in 1 .. N : a[n] = EntryBytes(t[n]) \o a[n + 1]
    BY DigestSteps
<1>3. PICK b \in [1 .. N + 1 -> Seq(Nat)] :
          /\ DigestBytes(u) = b[1] /\ b[N + 1] = <<>>
          /\ \A n \in 1 .. N : b[n] = EntryBytes(u[n]) \o b[n + 1]
  <2>1. N = Len(u)
      OBVIOUS
  <2> HIDE DEF N
  <2> QED BY <2>1, DigestSteps
<1>4. ASSUME NEW n \in 1 .. N PROVE EntryBytes(t[n]) = EntryBytes(u[n])
  <2>1. t[n].name = u[n].name /\ ValueBytes(t[n]) = ValueBytes(u[n])
      BY DEF Said
  <2> QED BY <2>1 DEF EntryBytes
<1> HIDE DEF N
<1> DEFINE S == {k \in Nat : k <= N => a[N + 1 - k] = b[N + 1 - k]}
<1>5. 0 \in S
    BY <1>1, <1>2, <1>3, N + 1 - 0 = N + 1
<1>6. ASSUME NEW k \in Nat, k \in S PROVE k + 1 \in S
  <2> SUFFICES ASSUME k + 1 <= N
               PROVE  a[N + 1 - (k + 1)] = b[N + 1 - (k + 1)]
      OBVIOUS
  <2>1. /\ N + 1 - (k + 1) \in 1 .. N
        /\ (N + 1 - (k + 1)) + 1 = N + 1 - k /\ k <= N
      BY <1>1
  <2>2. a[N + 1 - k] = b[N + 1 - k]
      BY <1>6, <2>1
  <2> QED BY <1>2, <1>3, <1>4, <2>1, <2>2
<1>7. N \in S
  <2> HIDE DEF S
  <2> QED BY <1>1, <1>5, <1>6, SetInduction
<1>8. N + 1 - N = 1
    BY <1>1
<1> QED BY <1>1, <1>2, <1>3, <1>7, <1>8

-----------------------------------------------------------------------------
(* The directives that are digested.                                       *)

(* k holds the opcache.* directives among the first n of d.                *)
Kept(k, d, n) ==
    /\ k \in Seq(Entry) /\ OneEach(k)
    /\ Entries(k) = {d[i] : i \in {j \in 1 .. n : IsOpcache(d[j])}}

(* The loop goes on to a directive whose name it has not seen.             *)
LEMMA KeptStep ==
    ASSUME NEW d \in Seq(Entry), OneEach(d), NEW n \in Nat, n + 1 <= Len(d),
           NEW k, Kept(k, d, n)
    PROVE  Kept(IF IsOpcache(d[n + 1]) THEN Append(k, d[n + 1]) ELSE k,
                d, n + 1)
<1> DEFINE x == d[n + 1]
           Earlier == {d[i] : i \in {j \in 1 .. n : IsOpcache(d[j])}}
           Now == {d[i] : i \in {j \in 1 .. n + 1 : IsOpcache(d[j])}}
<1>1. \A j \in 1 .. n + 1 : j \in 1 .. n \/ j = n + 1
    OBVIOUS
<1>2. 1 .. n \subseteq 1 .. n + 1 /\ n + 1 \in 1 .. n + 1
    OBVIOUS
<1>3. k \in Seq(Entry) /\ OneEach(k) /\ Entries(k) = Earlier
    BY DEF Kept
<1>4. CASE ~IsOpcache(x)
  <2>1. Now = Earlier
      BY <1>1, <1>2, <1>4
  <2> QED BY <1>3, <1>4, <2>1 DEF Kept
<1>5. CASE IsOpcache(x)
  <2> DEFINE a == Append(k, x)
  <2>1. x \in Entry /\ n + 1 \in DOMAIN d
      OBVIOUS
  <2>2. /\ a \in Seq(Entry) /\ DOMAIN k = 1 .. Len(k) /\ Len(k) \in Nat
        /\ DOMAIN a = 1 .. Len(k) + 1 /\ a[Len(k) + 1] = x
        /\ \A i \in 1 .. Len(k) : a[i] = k[i]
      BY <1>3, <2>1
  <2> HIDE DEF a
  <2>3. Now = Earlier \cup {x}
    <3>1. ASSUME NEW e \in Now PROVE e \in Earlier \cup {x}
      <4>1. PICK i \in 1 .. n + 1 : IsOpcache(d[i]) /\ e = d[i]
          BY <3>1
      <4> QED BY <1>1, <4>1
    <3>2. Earlier \subseteq Now
        BY <1>2
    <3>3. x \in Now
        BY <1>2, <1>5
    <3> QED BY <3>1, <3>2, <3>3
  <2>4. \A i \in 1 .. Len(k) : k[i] \in Earlier
      BY <1>3, <2>2 DEF Entries
  <2>5. \A i \in 1 .. Len(k) : k[i].name # x.name
    <3> SUFFICES ASSUME NEW i \in 1 .. Len(k), k[i].name = x.name
                 PROVE  FALSE
        OBVIOUS
    <3>1. PICK j \in 1 .. n : k[i] = d[j]
        BY <2>4
    <3>2. j \in DOMAIN d /\ j # n + 1
        OBVIOUS
    <3> QED BY <2>1, <3>1, <3>2 DEF OneEach
  <2> HIDE DEF x, Earlier, Now
  <2>6. OneEach(a)
      BY <1>3, <2>1, <2>2, <2>5, NamesOnce DEF a
  <2>7. Entries(a) = Earlier \cup {x}
    <3>1. ASSUME NEW i \in DOMAIN a PROVE a[i] \in Earlier \cup {x}
      <4>1. i \in 1 .. Len(k) \/ i = Len(k) + 1
          BY <2>2
      <4> QED BY <2>2, <2>4, <4>1
    <3>2. ASSUME NEW e \in Earlier PROVE e \in Entries(a)
      <4>1. PICK i \in DOMAIN k : e = k[i]
          BY <1>3 DEF Entries
      <4>2. i \in DOMAIN a /\ a[i] = e
          BY <2>2, <4>1
      <4> QED BY <4>2 DEF Entries
    <3>3. x \in Entries(a)
      <4>1. Len(k) + 1 \in DOMAIN a
          BY <2>2
      <4> QED BY <2>2, <4>1 DEF Entries
    <3> QED BY <3>1, <3>2, <3>3 DEF Entries
  <2>8. Entries(a) = Now
      BY <2>3, <2>7
  <2> QED BY <1>5, <2>2, <2>6, <2>8 DEF Kept, x, Now, a
<1> QED BY <1>4, <1>5

(* Selected returns every opcache.* directive, and nothing else.           *)
LEMMA SelectedResult ==
    ASSUME NEW d \in Seq(Entry), OneEach(d)
    PROVE  /\ Selected(d) \in Seq(Entry) /\ OneEach(Selected(d))
           /\ Entries(Selected(d)) = {e \in Entries(d) : IsOpcache(e)}
<1> DEFINE N == Len(d)
           V == Seq(Entry)
           Goes(n, v) == IF IsOpcache(d[n]) THEN Append(v, d[n]) ELSE v
           step == [n \in 1 .. N |-> [v \in V |-> Goes(n, v)]]
<1>1. N \in Nat /\ DOMAIN d = 1 .. N /\ \A n \in 1 .. N : d[n] \in Entry
    OBVIOUS
<1> HIDE DEF N
<1>2. \A n \in 1 .. N : \A v \in V : Goes(n, v) \in V
    BY <1>1
<1>3. step \in [1 .. N -> [V -> V]] /\ <<>> \in V
  <2> HIDE DEF Goes
  <2> QED BY <1>2
<1>4. PICK g : Recurses(g, V, <<>>, N, step)
  <2> HIDE DEF V, step
  <2> QED BY <1>1, <1>3, Recursion
<1> DEFINE Rec(b) == [n \in 0 .. N |-> IF n = 0 THEN <<>>
                                       ELSE IF IsOpcache(d[n])
                                            THEN Append(b[n - 1], d[n])
                                            ELSE b[n - 1]]
           c == CHOOSE b : b = Rec(b)
<1>5. g = Rec(g)
  <2>1. g \in [0 .. N -> V] /\ g[0] = <<>>
      BY <1>4 DEF Recurses
  <2>2. ASSUME NEW n \in 1 .. N PROVE g[n] = Goes(n, g[n - 1])
    <3>1. g[n] = step[n][g[n - 1]]
      <4> HIDE DEF step, V
      <4> QED BY <1>4 DEF Recurses
    <3>2. g[n - 1] \in V
      <4>1. n - 1 \in 0 .. N
          BY <1>1
      <4> HIDE DEF V
      <4> QED BY <2>1, <4>1
    <3> HIDE DEF Goes, V
    <3> QED BY <3>1, <3>2
  <2>3. ASSUME NEW n \in 0 .. N PROVE g[n] = Rec(g)[n]
    <3>1. CASE n = 0
        BY <2>1, <3>1
    <3>2. CASE n # 0
      <4>1. n \in 1 .. N
          BY <1>1, <3>2
      <4> QED BY <2>2, <3>2, <4>1
    <3> QED BY <3>1, <3>2
  <2>4. g = [n \in 0 .. N |-> g[n]]
      BY <2>1
  <2> QED BY <2>3, <2>4
<1>6. c = Rec(c)
  <2> HIDE DEF Rec
  <2> QED BY <1>5
<1>7. Selected(d) = c[N]
    BY DEF Selected, N
<1> HIDE DEF c
<1> DEFINE S == {n \in Nat : n <= N => Kept(c[n], d, n)}
<1>8. 0 \in S
  <2>1. c[0] = <<>>
      BY <1>1, <1>6
  <2>2. <<>> \in Seq(Entry) /\ DOMAIN <<>> = {} /\ 1 .. 0 = {}
      OBVIOUS
  <2>3. Kept(<<>>, d, 0)
      BY <2>2 DEF Kept, OneEach, Entries
  <2> QED BY <2>1, <2>3
<1>9. ASSUME NEW n \in Nat, n \in S PROVE n + 1 \in S
  <2> SUFFICES ASSUME n + 1 <= N PROVE Kept(c[n + 1], d, n + 1)
      OBVIOUS
  <2>1. n + 1 \in 0 .. N /\ n + 1 # 0 /\ (n + 1) - 1 = n /\ n <= N
      BY <1>1
  <2>2. c[n + 1] = IF IsOpcache(d[n + 1]) THEN Append(c[n], d[n + 1]) ELSE c[n]
      BY <1>6, <2>1
  <2>3. Kept(c[n], d, n)
      BY <1>9, <2>1
  <2> QED BY <2>2, <2>3, KeptStep DEF N
<1>10. Kept(c[N], d, N)
  <2>1. \A n \in Nat : n \in S
    <3> HIDE DEF S
    <3> QED BY <1>8, <1>9, SetInduction
  <2> QED BY <1>1, <2>1
<1>11. {d[i] : i \in {j \in 1 .. N : IsOpcache(d[j])}}
         = {e \in Entries(d) : IsOpcache(e)}
    BY <1>1 DEF Entries
<1> QED BY <1>7, <1>10, <1>11 DEF Kept

(* What a process is configured with, however it is ordered.               *)
Configured(d) == {Said(e) : e \in {f \in Entries(d) : IsOpcache(f)}}

SortedEntries(d) == ahe_compare_ini_fingerprint_entries(Selected(d))

(* The sorted entries say what is configured.                              *)
LEMMA SortedEntriesSay ==
    ASSUME NEW d \in Seq(Entry), OneEach(d)
    PROVE  /\ SortedEntries(d) \in Seq(Entry) /\ InOrder(SortedEntries(d))
           /\ AllSaid(SortedEntries(d)) = Configured(d)
<1>1. /\ Selected(d) \in Seq(Entry) /\ OneEach(Selected(d))
      /\ Entries(Selected(d)) = {e \in Entries(d) : IsOpcache(e)}
    BY SelectedResult
<1>2. /\ SortedEntries(d) \in Seq(Entry) /\ InOrder(SortedEntries(d))
      /\ Entries(SortedEntries(d)) = Entries(Selected(d))
    BY <1>1, SortResult DEF SortedEntries
<1>3. ASSUME NEW s \in Seq(Entry)
      PROVE  AllSaid(s) = {Said(e) : e \in Entries(s)}
    BY DEF AllSaid, Entries
<1> QED BY <1>1, <1>2, <1>3 DEF Configured

(* ahe_opcache_configuration_digest: two processes digest the same bytes   *)
(* exactly when they are configured alike, whatever the order of their     *)
(* directives and wherever names and values end.                           *)
THEOREM DigestIdentifies ==
    ASSUME NEW d \in Seq(Entry), OneEach(d), NEW e \in Seq(Entry), OneEach(e)
    PROVE  DigestBytes(SortedEntries(d)) = DigestBytes(SortedEntries(e))
             <=> Configured(d) = Configured(e)
<1>1. PICK t \in Seq(Entry) : /\ t = SortedEntries(d) /\ InOrder(t)
                              /\ AllSaid(t) = Configured(d)
    BY SortedEntriesSay
<1>2. PICK u \in Seq(Entry) : /\ u = SortedEntries(e) /\ InOrder(u)
                              /\ AllSaid(u) = Configured(e)
    BY SortedEntriesSay
<1>3. ASSUME DigestBytes(t) = DigestBytes(u) PROVE AllSaid(t) = AllSaid(u)
  <2>1. Len(t) = Len(u) /\ \A i \in 1 .. Len(t) : Said(t[i]) = Said(u[i])
      BY <1>3, DigestInjective
  <2>2. DOMAIN t = 1 .. Len(t) /\ DOMAIN u = 1 .. Len(t)
      BY <2>1
  <2> QED BY <2>1, <2>2 DEF AllSaid
<1>4. ASSUME AllSaid(t) = AllSaid(u) PROVE DigestBytes(t) = DigestBytes(u)
    BY <1>1, <1>2, <1>4, SortedUnique, DigestAgrees
<1> QED BY <1>1, <1>2, <1>3, <1>4

-----------------------------------------------------------------------------
(* The line of the key: its parts can be told apart.                       *)

(* Pieces of fields, literals of the format, digests.                      *)
Token ==
    Seq(STRING)
    \cup {<<"abi=2|uid=">>, <<"|">>, <<"namespace=">>, <<"default">>,
          <<"sapi=">>, <<"system=">>, <<"opcache=">>, <<"execute=">>,
          <<"size=">>}
    \cup {<<"md5">> \o bytes : bytes \in Seq(Nat)}

Bar == <<"|">>

IsLabel(name) == <<name>> \in Token /\ <<name>> # Bar

NoBar(s) == \A i \in DOMAIN s : s[i] # Bar

Cat(x, y) == x \o y

(* A bar, the name of a part, and the part.                                *)
PutPart(x, name, u) == Cat(Cat(Cat(x, Literal("|")), Literal(name)), u)

IsPart(w, x, name, u) ==
    /\ w \in Seq(Token) /\ Len(w) = Len(x) + 2 + Len(u)
    /\ \A i \in 1 .. Len(x) : w[i] = x[i]
    /\ w[Len(x) + 1] = Bar /\ w[Len(x) + 2] = <<name>>
    /\ \A i \in 1 .. Len(u) : w[Len(x) + 2 + i] = u[i]

(* A sequence of one element.                                              *)
LEMMA Single ==
    ASSUME NEW S, NEW e \in S
    PROVE  <<e>> \in Seq(S) /\ Len(<<e>>) = 1 /\ <<e>>[1] = e
    OBVIOUS

(* A literal is one token.                                                 *)
LEMMA LiteralTyped ==
    ASSUME NEW name, <<name>> \in Token
    PROVE  /\ Literal(name) \in Seq(Token) /\ Len(Literal(name)) = 1
           /\ Literal(name)[1] = <<name>>
<1> DEFINE e == <<name>>
<1>1. e \in Token
    OBVIOUS
<1> HIDE DEF e
<1>2. <<e>> \in Seq(Token) /\ Len(<<e>>) = 1 /\ <<e>>[1] = e
    BY <1>1, Single
<1>3. Literal(name) = <<e>>
    BY DEF Literal, e
<1> QED BY <1>2, <1>3 DEF e

(* Where the tokens of two sequences are in the longer one.                *)
LEMMA Joined ==
    ASSUME NEW x \in Seq(Token), NEW y \in Seq(Token)
    PROVE  /\ Cat(x, y) \in Seq(Token) /\ Len(Cat(x, y)) = Len(x) + Len(y)
           /\ \A i \in 1 .. Len(x) : Cat(x, y)[i] = x[i]
           /\ \A i \in 1 .. Len(y) : Cat(x, y)[Len(x) + i] = y[i]
    BY DEF Cat

(* Where the tokens of a line and of the part added to it are.             *)
LEMMA PartAt ==
    ASSUME NEW x \in Seq(Token), NEW u \in Seq(Token),
           NEW name, <<name>> \in Token
    PROVE  IsPart(PutPart(x, name, u), x, name, u)
<1> DEFINE a == Literal("|")
           b == Literal(name)
           y == Cat(x, a)
           z == Cat(y, b)
           w == Cat(z, u)
<1>1. /\ a \in Seq(Token) /\ Len(a) = 1 /\ a[1] = Bar
      /\ b \in Seq(Token) /\ Len(b) = 1 /\ b[1] = <<name>>
  <2>1. <<"|">> \in Token
      BY DEF Token
  <2>2. a \in Seq(Token) /\ Len(a) = 1 /\ a[1] = <<"|">>
      BY <2>1, LiteralTyped
  <2>3. b \in Seq(Token) /\ Len(b) = 1 /\ b[1] = <<name>>
      BY LiteralTyped
  <2> HIDE DEF a, b
  <2> QED BY <2>2, <2>3 DEF Bar
<1> HIDE DEF a, b
<1>2. Len(x) \in Nat /\ Len(u) \in Nat
    OBVIOUS
<1>3. /\ y \in Seq(Token) /\ Len(y) = Len(x) + Len(a)
      /\ \A i \in 1 .. Len(x) : y[i] = x[i]
      /\ \A i \in 1 .. Len(a) : y[Len(x) + i] = a[i]
    BY <1>1, Joined
<1> HIDE DEF y
<1>4. /\ z \in Seq(Token) /\ Len(z) = Len(y) + Len(b)
      /\ \A i \in 1 .. Len(y) : z[i] = y[i]
      /\ \A i \in 1 .. Len(b) : z[Len(y) + i] = b[i]
    BY <1>1, <1>3, Joined
<1> HIDE DEF z
<1>5. /\ w \in Seq(Token) /\ Len(w) = Len(z) + Len(u)
      /\ \A i \in 1 .. Len(z) : w[i] = z[i]
      /\ \A i \in 1 .. Len(u) : w[Len(z) + i] = u[i]
    BY <1>4, Joined
<1> HIDE DEF w
<1>6. w = PutPart(x, name, u)
    BY DEF PutPart, a, b, y, z, w
<1>7. /\ Len(z) = Len(x) + 2 /\ Len(y) = Len(x) + 1
      /\ 1 \in 1 .. Len(a) /\ 1 \in 1 .. Len(b)
      /\ Len(x) + 1 \in 1 .. Len(y) /\ Len(x) + 1 \in 1 .. Len(z)
      /\ Len(x) + 2 \in 1 .. Len(z) /\ Len(y) + 1 = Len(x) + 2
    BY <1>1, <1>2, <1>3, <1>4
<1>8. ASSUME NEW i \in 1 .. Len(x) PROVE w[i] = x[i]
  <2>1. i \in 1 .. Len(y) /\ i \in 1 .. Len(z)
      BY <1>2, <1>7
  <2> QED BY <1>3, <1>4, <1>5, <2>1
<1>9. w[Len(x) + 1] = Bar
  <2>1. y[Len(x) + 1] = a[1]
      BY <1>3, <1>7
  <2> QED BY <1>1, <1>4, <1>5, <1>7, <2>1
<1>10. w[Len(x) + 2] = <<name>>
  <2>1. z[Len(y) + 1] = b[1]
      BY <1>4, <1>7
  <2>2. w[Len(x) + 2] = z[Len(x) + 2]
      BY <1>5, <1>7
  <2> QED BY <1>1, <1>7, <2>1, <2>2
<1>11. \A i \in 1 .. Len(u) : w[Len(x) + 2 + i] = u[i]
    BY <1>5, <1>7
<1>12. Len(w) = Len(x) + 2 + Len(u)
    BY <1>2, <1>5, <1>7
<1>13. IsPart(w, x, name, u)
    BY <1>5, <1>8, <1>9, <1>10, <1>11, <1>12 DEF IsPart
<1> QED BY <1>6, <1>13

(* Parts in the same place are the same.                                   *)
LEMMA PartSamePlace ==
    ASSUME NEW x \in Seq(Token), NEW y \in Seq(Token), Len(x) = Len(y),
           NEW u \in Seq(Token), NEW v \in Seq(Token), NEW name, NEW w,
           IsPart(w, x, name, u), IsPart(w, y, name, v)
    PROVE  x = y /\ u = v
<1>1. /\ Len(w) = Len(x) + 2 + Len(u)
      /\ \A i \in 1 .. Len(x) : w[i] = x[i]
      /\ \A i \in 1 .. Len(u) : w[Len(x) + 2 + i] = u[i]
    BY DEF IsPart
<1>2. /\ Len(w) = Len(y) + 2 + Len(v)
      /\ \A i \in 1 .. Len(y) : w[i] = y[i]
      /\ \A i \in 1 .. Len(v) : w[Len(y) + 2 + i] = v[i]
    BY DEF IsPart
<1>3. Len(u) = Len(v)
    BY <1>1, <1>2, Len(x) \in Nat, Len(u) \in Nat, Len(v) \in Nat
<1>4. x = y
    BY <1>1, <1>2, SeqEqual
<1>5. u = v
    BY <1>1, <1>2, <1>3, SeqEqual
<1> QED BY <1>4, <1>5

(* The last part begins after the last bar when there is none in it.       *)
LEMMA LastPartNotLater ==
    ASSUME NEW x \in Seq(Token), NEW y \in Seq(Token),
           NEW u \in Seq(Token), NEW v \in Seq(Token), NEW name, NEW w,
           IsLabel(name), NoBar(u),
           IsPart(w, x, name, u), IsPart(w, y, name, v)
    PROVE  Len(y) <= Len(x)
<1> SUFFICES ASSUME Len(x) < Len(y) PROVE FALSE
    BY Len(x) \in Nat, Len(y) \in Nat
<1>1. /\ Len(w) = Len(x) + 2 + Len(u) /\ w[Len(x) + 2] = <<name>>
      /\ \A i \in 1 .. Len(u) : w[Len(x) + 2 + i] = u[i]
    BY DEF IsPart
<1>2. Len(w) = Len(y) + 2 + Len(v) /\ w[Len(y) + 1] = Bar
    BY DEF IsPart
<1>3. /\ Len(x) \in Nat /\ Len(y) \in Nat /\ Len(u) \in Nat /\ Len(v) \in Nat
      /\ DOMAIN u = 1 .. Len(u)
    OBVIOUS
<1>4. CASE Len(y) = Len(x) + 1
  <2>1. Len(y) + 1 = Len(x) + 2
      BY <1>3, <1>4
  <2> QED BY <1>1, <1>2, <2>1 DEF IsLabel
<1>5. CASE Len(y) > Len(x) + 1
  <2> DEFINE i == Len(y) - 1 - Len(x)
  <2>1. i \in 1 .. Len(u) /\ Len(x) + 2 + i = Len(y) + 1
      BY <1>1, <1>2, <1>3, <1>5
  <2> HIDE DEF i
  <2>2. u[i] = Bar
      BY <1>1, <1>2, <2>1
  <2> QED BY <1>3, <2>1, <2>2 DEF NoBar
<1> QED BY <1>3, <1>4, <1>5

(* A line that ends with a part without a bar.                             *)
EndsWith(w, x, name, u) ==
    /\ x \in Seq(Token) /\ u \in Seq(Token) /\ NoBar(u) /\ IsLabel(name)
    /\ w = PutPart(x, name, u)

(* So the last part can be told from what precedes it.                     *)
LEMMA LastPartSplits ==
    ASSUME NEW w, NEW name, NEW x, NEW y, NEW u, NEW v,
           EndsWith(w, x, name, u), EndsWith(w, y, name, v)
    PROVE  x = y /\ u = v
<1>1. /\ x \in Seq(Token) /\ u \in Seq(Token) /\ NoBar(u) /\ IsLabel(name)
      /\ y \in Seq(Token) /\ v \in Seq(Token) /\ NoBar(v)
    BY DEF EndsWith
<1>2. IsPart(w, x, name, u) /\ IsPart(w, y, name, v)
    BY PartAt DEF EndsWith, IsLabel
<1>3. Len(y) <= Len(x)
    BY <1>1, <1>2, LastPartNotLater
<1>4. Len(x) <= Len(y)
    BY <1>1, <1>2, LastPartNotLater
<1>5. Len(x) = Len(y)
    BY <1>1, <1>3, <1>4, Len(x) \in Nat, Len(y) \in Nat
<1> QED BY <1>1, <1>2, <1>5, PartSamePlace

(* The first part ends before the first bar when there is none in it.      *)
LEMMA FirstPartNotLonger ==
    ASSUME NEW x \in Seq(Token), NEW y \in Seq(Token), NoBar(y),
           NEW u \in Seq(Token), NEW v \in Seq(Token), NEW name, NEW w,
           IsPart(w, x, name, u), IsPart(w, y, name, v)
    PROVE  Len(y) <= Len(x)
<1> SUFFICES ASSUME Len(x) < Len(y) PROVE FALSE
    BY Len(x) \in Nat, Len(y) \in Nat
<1>1. w[Len(x) + 1] = Bar /\ \A i \in 1 .. Len(y) : w[i] = y[i]
    BY DEF IsPart
<1>2. Len(x) + 1 \in 1 .. Len(y) /\ DOMAIN y = 1 .. Len(y)
    BY Len(x) \in Nat, Len(y) \in Nat
<1>3. y[Len(x) + 1] = Bar
    BY <1>1, <1>2
<1> QED BY <1>2, <1>3 DEF NoBar

(* So the first part can be told from what follows it.                     *)
LEMMA FirstPartSplits ==
    ASSUME NEW x \in Seq(Token), NEW y \in Seq(Token), NoBar(x), NoBar(y),
           NEW u \in Seq(Token), NEW v \in Seq(Token), NEW name,
           <<name>> \in Token,
           PutPart(x, name, u) = PutPart(y, name, v)
    PROVE  x = y /\ u = v
<1>1. PICK w : IsPart(w, x, name, u) /\ IsPart(w, y, name, v)
    BY PartAt
<1>2. Len(y) <= Len(x)
    BY <1>1, FirstPartNotLonger
<1>3. Len(x) <= Len(y)
    BY <1>1, FirstPartNotLonger
<1>4. Len(x) = Len(y)
    BY <1>2, <1>3, Len(x) \in Nat, Len(y) \in Nat
<1> QED BY <1>1, <1>4, PartSamePlace

-----------------------------------------------------------------------------
(* The key says who its fields and its digest belong to.                   *)

(* The literals of the format are tokens.                                  *)
LEMMA TokensTyped ==
    /\ <<"abi=2|uid=">> \in Token /\ <<"namespace=">> \in Token
    /\ <<"default">> \in Token /\ <<"sapi=">> \in Token
    /\ <<"system=">> \in Token /\ <<"opcache=">> \in Token
    /\ <<"execute=">> \in Token /\ <<"size=">> \in Token
    BY DEF Token

(* None of the names of parts is a bar.                                    *)
LEMMA Labels ==
    /\ IsLabel("abi=2|uid=") /\ IsLabel("namespace=") /\ IsLabel("sapi=")
    /\ IsLabel("system=") /\ IsLabel("opcache=") /\ IsLabel("execute=")
    /\ IsLabel("size=")
    BY DEF IsLabel, Token, Bar

(* Fields are made of tokens.                                              *)
LEMMA PieceTyped ==
    ASSUME NEW s \in Seq(Seq(STRING))
    PROVE  s \in Seq(Token)
<1> DEFINE T == Seq(STRING)
<1>1. T \subseteq Token
    BY DEF Token
<1>2. s \in Seq(T)
    OBVIOUS
<1> HIDE DEF T
<1> QED BY <1>1, <1>2

(* What the assumption says of the fields of one process.                  *)
LEMMA FieldsTyped ==
    ASSUME NEW f \in Fields
    PROVE  /\ f.uid \in Seq(Token) /\ f.sapi \in Seq(Token)
           /\ f.system \in Seq(Token) /\ f.execute \in Seq(Token)
           /\ f.size \in Seq(Token) /\ Namespace(f) \in Seq(Token)
           /\ NoBar(f.uid) /\ NoBar(f.sapi) /\ NoBar(f.system)
           /\ NoBar(f.execute) /\ NoBar(f.size)
<1>1. /\ f.uid \in Seq(Seq(STRING)) /\ f.namespace \in Seq(Seq(STRING))
      /\ f.sapi \in Seq(Seq(STRING)) /\ f.system \in Seq(Seq(STRING))
      /\ f.execute \in Seq(Seq(STRING)) /\ f.size \in Seq(Seq(STRING))
    BY FieldsAssumption
<1>2. /\ f.uid \in Seq(Token) /\ f.sapi \in Seq(Token)
      /\ f.system \in Seq(Token) /\ f.execute \in Seq(Token)
      /\ f.size \in Seq(Token) /\ f.namespace \in Seq(Token)
    BY <1>1, PieceTyped
<1>3. Namespace(f) \in Seq(Token)
    BY <1>2, TokensTyped, LiteralTyped DEF Namespace
<1>4. \A x \in {f.uid, f.sapi, f.system, f.execute, f.size} : NoBar(x)
    BY FieldsAssumption DEF NoBar, Bar
<1> QED BY <1>2, <1>3, <1>4

(* A digest is a token, and no bar.                                        *)
LEMMA DigestToken ==
    ASSUME NEW bytes \in Seq(Nat)
    PROVE  LET digest == <<"md5">> \o bytes
           IN  <<digest>> \in Seq(Token) /\ NoBar(<<digest>>)
<1> DEFINE digest == <<"md5">> \o bytes
<1>1. digest \in Token
    BY DEF Token
<1>2. digest # Bar
  <2>1. digest[1] = "md5" /\ Bar[1] = "|" /\ "md5" # "|"
      BY DEF Bar
  <2> QED BY <2>1
<1> HIDE DEF digest
<1>3. <<digest>> \in Seq(Token) /\ NoBar(<<digest>>)
    BY <1>1, <1>2, Single DEF NoBar
<1> QED BY <1>3 DEF digest

(* The line, part after part.                                              *)
UpToUid(f) == Cat(Literal("abi=2|uid="), f.uid)
UpToNamespace(f) == PutPart(UpToUid(f), "namespace=", Namespace(f))
UpToSapi(f) == PutPart(UpToNamespace(f), "sapi=", f.sapi)
UpToSystem(f) == PutPart(UpToSapi(f), "system=", f.system)
UpToOpcache(f, digest) == PutPart(UpToSystem(f), "opcache=", <<digest>>)
UpToExecute(f, digest) ==
    PutPart(UpToOpcache(f, digest), "execute=", f.execute)
UpToSize(f, digest) == PutPart(UpToExecute(f, digest), "size=", f.size)

(* The line is printed part after part.                                    *)
LEMMA PrintedInParts ==
    ASSUME NEW f, NEW digest
    PROVE  Printed(f, digest) = UpToSize(f, digest)
    BY Zenon DEF Printed, UpToUid, UpToNamespace, UpToSapi, UpToSystem,
                 UpToOpcache, UpToExecute, UpToSize, PutPart, Cat

(* A line with another part is a line.                                     *)
LEMMA PartTyped ==
    ASSUME NEW x \in Seq(Token), NEW u \in Seq(Token),
           NEW name, <<name>> \in Token
    PROVE  PutPart(x, name, u) \in Seq(Token)
    BY PartAt DEF IsPart

(* The line up to each of its parts.                                       *)
LEMMA PartsTyped ==
    ASSUME NEW f \in Fields, NEW digest, <<digest>> \in Seq(Token)
    PROVE  /\ UpToUid(f) \in Seq(Token) /\ NoBar(UpToUid(f))
           /\ UpToNamespace(f) \in Seq(Token)
           /\ UpToSapi(f) \in Seq(Token) /\ UpToSystem(f) \in Seq(Token)
           /\ UpToOpcache(f, digest) \in Seq(Token)
           /\ UpToExecute(f, digest) \in Seq(Token)
           /\ UpToSize(f, digest) \in Seq(Token)
<1>1. UpToUid(f) \in Seq(Token) /\ NoBar(UpToUid(f))
  <2> DEFINE a == Literal("abi=2|uid=")
             u == f.uid
             c == Cat(a, u)
  <2>1. a \in Seq(Token) /\ Len(a) = 1 /\ a[1] = <<"abi=2|uid=">>
      BY TokensTyped, LiteralTyped
  <2>2. u \in Seq(Token) /\ NoBar(u)
      BY FieldsTyped
  <2> HIDE DEF a, u
  <2>3. /\ c \in Seq(Token) /\ Len(c) = Len(a) + Len(u)
        /\ \A i \in 1 .. Len(a) : c[i] = a[i]
        /\ \A i \in 1 .. Len(u) : c[Len(a) + i] = u[i]
      BY <2>1, <2>2, Joined
  <2> HIDE DEF c
  <2>4. NoBar(c)
    <3> SUFFICES ASSUME NEW i \in DOMAIN c PROVE c[i] # Bar
        BY DEF NoBar
    <3>1. i \in 1 .. Len(u) + 1 /\ Len(u) \in Nat /\ DOMAIN u = 1 .. Len(u)
        BY <2>1, <2>2, <2>3
    <3>2. CASE i = 1
      <4>1. c[1] = a[1]
          BY <2>1, <2>3
      <4> QED BY <2>1, <3>2, <4>1, Labels DEF IsLabel
    <3>3. CASE i # 1
      <4>1. i - 1 \in 1 .. Len(u) /\ Len(a) + (i - 1) = i
          BY <2>1, <3>1, <3>3
      <4>2. c[i] = u[i - 1]
          BY <2>3, <4>1
      <4> QED BY <2>2, <3>1, <4>1, <4>2 DEF NoBar
    <3> QED BY <3>2, <3>3
  <2>5. UpToUid(f) = c
      BY DEF UpToUid, a, u, c
  <2> QED BY <2>3, <2>4, <2>5
<1>2. UpToNamespace(f) \in Seq(Token)
    BY <1>1, FieldsTyped, TokensTyped, PartTyped DEF UpToNamespace
<1>3. UpToSapi(f) \in Seq(Token)
    BY <1>2, FieldsTyped, TokensTyped, PartTyped DEF UpToSapi
<1>4. UpToSystem(f) \in Seq(Token)
    BY <1>3, FieldsTyped, TokensTyped, PartTyped DEF UpToSystem
<1>5. UpToOpcache(f, digest) \in Seq(Token)
    BY <1>4, TokensTyped, PartTyped DEF UpToOpcache
<1>6. UpToExecute(f, digest) \in Seq(Token)
    BY <1>5, FieldsTyped, TokensTyped, PartTyped DEF UpToExecute
<1>7. UpToSize(f, digest) \in Seq(Token)
    BY <1>6, FieldsTyped, TokensTyped, PartTyped DEF UpToSize
<1> QED BY <1>1, <1>2, <1>3, <1>4, <1>5, <1>6, <1>7

(* Equal lines have equal parts, whatever the namespaces are: the user is  *)
(* read from the front, the others from the back.                          *)
LEMMA PrintedSplits ==
    ASSUME NEW f \in Fields, NEW g \in Fields, NEW d, NEW e,
           <<d>> \in Seq(Token), NoBar(<<d>>),
           <<e>> \in Seq(Token), NoBar(<<e>>),
           Printed(f, d) = Printed(g, e)
    PROVE  /\ f.uid = g.uid /\ Namespace(f) = Namespace(g)
           /\ f.sapi = g.sapi /\ f.system = g.system
           /\ f.execute = g.execute /\ f.size = g.size
           /\ d = e
<1> USE TokensTyped, Labels
<1>1. UpToSize(f, d) = UpToSize(g, e)
    BY PrintedInParts
<1>t. /\ UpToUid(f) \in Seq(Token) /\ NoBar(UpToUid(f))
      /\ UpToNamespace(f) \in Seq(Token)
      /\ UpToSapi(f) \in Seq(Token) /\ UpToSystem(f) \in Seq(Token)
      /\ UpToOpcache(f, d) \in Seq(Token)
      /\ UpToExecute(f, d) \in Seq(Token)
    BY PartsTyped
<1>u. /\ UpToUid(g) \in Seq(Token) /\ NoBar(UpToUid(g))
      /\ UpToNamespace(g) \in Seq(Token)
      /\ UpToSapi(g) \in Seq(Token) /\ UpToSystem(g) \in Seq(Token)
      /\ UpToOpcache(g, e) \in Seq(Token)
      /\ UpToExecute(g, e) \in Seq(Token)
    BY PartsTyped
<1>2. UpToExecute(f, d) = UpToExecute(g, e) /\ f.size = g.size
  <2>1. EndsWith(UpToSize(f, d), UpToExecute(f, d), "size=", f.size)
      BY <1>t, FieldsTyped DEF EndsWith, UpToSize
  <2>2. EndsWith(UpToSize(g, e), UpToExecute(g, e), "size=", g.size)
      BY <1>u, FieldsTyped DEF EndsWith, UpToSize
  <2> QED BY <1>1, <2>1, <2>2, LastPartSplits
<1>3. UpToOpcache(f, d) = UpToOpcache(g, e) /\ f.execute = g.execute
  <2>1. EndsWith(UpToExecute(f, d), UpToOpcache(f, d), "execute=", f.execute)
      BY <1>t, FieldsTyped DEF EndsWith, UpToExecute
  <2>2. EndsWith(UpToExecute(g, e), UpToOpcache(g, e), "execute=", g.execute)
      BY <1>u, FieldsTyped DEF EndsWith, UpToExecute
  <2> QED BY <1>2, <2>1, <2>2, LastPartSplits
<1>4. UpToSystem(f) = UpToSystem(g) /\ <<d>> = <<e>>
  <2>1. EndsWith(UpToOpcache(f, d), UpToSystem(f), "opcache=", <<d>>)
      BY <1>t, FieldsTyped DEF EndsWith, UpToOpcache
  <2>2. EndsWith(UpToOpcache(g, e), UpToSystem(g), "opcache=", <<e>>)
      BY <1>u, FieldsTyped DEF EndsWith, UpToOpcache
  <2> QED BY <1>3, <2>1, <2>2, LastPartSplits
<1>5. UpToSapi(f) = UpToSapi(g) /\ f.system = g.system
  <2>1. EndsWith(UpToSystem(f), UpToSapi(f), "system=", f.system)
      BY <1>t, FieldsTyped DEF EndsWith, UpToSystem
  <2>2. EndsWith(UpToSystem(g), UpToSapi(g), "system=", g.system)
      BY <1>u, FieldsTyped DEF EndsWith, UpToSystem
  <2> QED BY <1>4, <2>1, <2>2, LastPartSplits
<1>6. UpToNamespace(f) = UpToNamespace(g) /\ f.sapi = g.sapi
  <2>1. EndsWith(UpToSapi(f), UpToNamespace(f), "sapi=", f.sapi)
      BY <1>t, FieldsTyped DEF EndsWith, UpToSapi
  <2>2. EndsWith(UpToSapi(g), UpToNamespace(g), "sapi=", g.sapi)
      BY <1>u, FieldsTyped DEF EndsWith, UpToSapi
  <2> QED BY <1>5, <2>1, <2>2, LastPartSplits
<1>7. UpToUid(f) = UpToUid(g) /\ Namespace(f) = Namespace(g)
  <2>1. PutPart(UpToUid(f), "namespace=", Namespace(f))
          = PutPart(UpToUid(g), "namespace=", Namespace(g))
      BY <1>6 DEF UpToNamespace
  <2> QED BY <1>t, <1>u, <2>1, FieldsTyped, FirstPartSplits
<1>8. f.uid = g.uid
  <2> DEFINE a == Literal("abi=2|uid=")
             u == f.uid
             v == g.uid
  <2>1. a \in Seq(Token) /\ Len(a) = 1
      BY TokensTyped, LiteralTyped
  <2>2. u \in Seq(Token) /\ v \in Seq(Token) /\ Cat(a, u) = Cat(a, v)
      BY <1>7, FieldsTyped DEF UpToUid
  <2> HIDE DEF a, u, v
  <2>3. /\ Len(Cat(a, u)) = Len(a) + Len(u)
        /\ \A i \in 1 .. Len(u) : Cat(a, u)[Len(a) + i] = u[i]
        /\ Len(Cat(a, v)) = Len(a) + Len(v)
        /\ \A i \in 1 .. Len(v) : Cat(a, v)[Len(a) + i] = v[i]
      BY <2>1, <2>2, Joined
  <2>4. Len(u) = Len(v)
      BY <2>1, <2>2, <2>3, Len(u) \in Nat, Len(v) \in Nat
  <2>5. u = v
      BY <2>2, <2>3, <2>4, SeqEqual
  <2> QED BY <2>5 DEF u, v
<1>9. d = e
    BY <1>4
<1> QED BY <1>2, <1>3, <1>5, <1>6, <1>7, <1>8, <1>9

-----------------------------------------------------------------------------
(* The invariant: a name is registered once, and a key is what was printed *)
(* from directives and fields that have not changed since.                 *)

MadeKey(d, f) == Printed(f, ahe_opcache_configuration_digest(d))

DirectivesOK ==
    /\ ini_directives \in [Procs -> Seq(Entry)]
    /\ \A p \in Procs : /\ OneEach(ini_directives[p])
                        /\ Len(ini_directives[p]) <= MaxDirectives

KeysOK ==
    /\ DOMAIN cache_key = Procs
    /\ cache_key = [p \in Procs |-> cache_key[p]]
    /\ \A p \in Procs :
          \/ cache_key[p] = NotYet
          \/ cache_key[p] = Failure
          \/ /\ cache_key[p] = MadeKey(ini_directives[p], fields[p])
             /\ Len(cache_key[p]) < KeySize

Inv == fields \in [Procs -> Fields] /\ DirectivesOK /\ KeysOK

(* The digest is made of bytes.                                            *)
LEMMA DigestTyped ==
    ASSUME NEW s \in Seq(Entry)
    PROVE  DigestBytes(s) \in Seq(Nat)
<1>1. PICK b \in [1 .. Len(s) + 1 -> Seq(Nat)] : DigestBytes(s) = b[1]
    BY DigestSteps
<1>2. 1 \in 1 .. Len(s) + 1
    OBVIOUS
<1>3. b[1] \in Seq(Nat)
    BY <1>2
<1> QED BY <1>1, <1>3

(* A key is made of tokens.                                                *)
LEMMA MadeKeyTyped ==
    ASSUME NEW d \in Seq(Entry), OneEach(d), NEW f \in Fields
    PROVE  MadeKey(d, f) \in Seq(Token)
<1>1. PICK a \in Seq(Nat) : a = DigestBytes(SortedEntries(d))
    BY SortedEntriesSay, DigestTyped
<1> DEFINE D == <<"md5">> \o a
<1>2. <<D>> \in Seq(Token)
    BY DigestToken
<1>3. MadeKey(d, f) = Printed(f, D)
    BY <1>1 DEF MadeKey, ahe_opcache_configuration_digest, SortedEntries
<1> HIDE DEF D
<1> QED BY <1>2, <1>3, PartsTyped, PrintedInParts

(* Keys are equal exactly when the configurations and the fields are.      *)
LEMMA KeysEqual ==
    ASSUME NEW d \in Seq(Entry), OneEach(d), NEW e \in Seq(Entry), OneEach(e),
           NEW f \in Fields, NEW g \in Fields
    PROVE  MadeKey(d, f) = MadeKey(e, g) <=>
             /\ Configured(d) = Configured(e)
             /\ [f EXCEPT !.namespace = Namespace(f)]
                  = [g EXCEPT !.namespace = Namespace(g)]
<1> DEFINE a == DigestBytes(SortedEntries(d))
           b == DigestBytes(SortedEntries(e))
           D == <<"md5">> \o a
           E == <<"md5">> \o b
<1>1. a \in Seq(Nat) /\ b \in Seq(Nat)
    BY SortedEntriesSay, DigestTyped
<1>2. MadeKey(d, f) = Printed(f, D) /\ MadeKey(e, g) = Printed(g, E)
    BY DEF MadeKey, ahe_opcache_configuration_digest, SortedEntries
<1>3. a = b <=> Configured(d) = Configured(e)
    BY DigestIdentifies
<1>4. /\ <<D>> \in Seq(Token) /\ NoBar(<<D>>)
      /\ <<E>> \in Seq(Token) /\ NoBar(<<E>>)
  <2> HIDE DEF a, b
  <2> QED BY <1>1, DigestToken
<1> HIDE DEF a, b
<1>5. D = E => a = b
  <2> SUFFICES ASSUME D = E PROVE a = b
      OBVIOUS
  <2>1. /\ Len(D) = Len(a) + 1 /\ \A i \in 1 .. Len(a) : D[i + 1] = a[i]
        /\ Len(E) = Len(b) + 1 /\ \A i \in 1 .. Len(b) : E[i + 1] = b[i]
      BY <1>1
  <2> HIDE DEF D, E
  <2>2. Len(a) = Len(b)
      BY <1>1, <2>1
  <2> QED BY <1>1, <2>1, <2>2, SeqEqual
<1>6. a = b => D = E
    OBVIOUS
<1> HIDE DEF D, E
<1>7. /\ f = [uid |-> f.uid, namespace |-> f.namespace, sapi |-> f.sapi,
              system |-> f.system, execute |-> f.execute, size |-> f.size]
      /\ g = [uid |-> g.uid, namespace |-> g.namespace, sapi |-> g.sapi,
              system |-> g.system, execute |-> g.execute, size |-> g.size]
    BY FieldsAssumption
<1> DEFINE SameFields ==
        /\ f.uid = g.uid /\ Namespace(f) = Namespace(g)
        /\ f.sapi = g.sapi /\ f.system = g.system
        /\ f.execute = g.execute /\ f.size = g.size
<1>8. SameFields <=> [f EXCEPT !.namespace = Namespace(f)]
                       = [g EXCEPT !.namespace = Namespace(g)]
    BY <1>7
<1>9. Printed(f, D) = Printed(g, E) => SameFields /\ D = E
    BY <1>4, PrintedSplits
<1>10. SameFields /\ D = E => Printed(f, D) = Printed(g, E)
    BY Zenon DEF Printed
<1> HIDE DEF SameFields
<1> QED BY <1>2, <1>3, <1>5, <1>6, <1>8, <1>9, <1>10

(* No directive and no key at first.                                       *)
LEMMA InitEstablishes == Init => Inv
<1> SUFFICES ASSUME Init PROVE Inv
    OBVIOUS
<1>1. <<>> \in Seq(Entry) /\ OneEach(<<>>) /\ Len(<<>>) = 0
    BY DEF OneEach
<1>2. DirectivesOK
    BY <1>1, KeyAssumption DEF Init, DirectivesOK
<1>3. KeysOK
    BY DEF Init, KeysOK
<1> QED BY <1>2, <1>3 DEF Init, Inv

(* A directive is registered before there is a key.                        *)
LEMMA RegisterPreserves ==
    ASSUME Inv, NEW p \in Procs, NEW name \in Names,
           NEW value \in Values \cup {NoValue}, Register(p, name, value)
    PROVE  Inv'
<1> DEFINE x == [name |-> name, value |-> value]
<1>1. x \in Entry /\ x.name = name
    BY DEF Entry
<1> HIDE DEF x
<1>2. /\ ini_directives' = [ini_directives EXCEPT ![p] =
                               Append(ini_directives[p], x)]
      /\ cache_key' = cache_key /\ fields' = fields
      /\ cache_key[p] = NotYet /\ Len(ini_directives[p]) < MaxDirectives
      /\ \A i \in DOMAIN ini_directives[p] : ini_directives[p][i].name # x.name
    BY <1>1 DEF Register, x
<1>3. PICK d \in Seq(Entry) : d = ini_directives[p] /\ OneEach(d)
    BY DEF Inv, DirectivesOK
<1>4. /\ Append(d, x) \in Seq(Entry) /\ OneEach(Append(d, x))
      /\ Len(Append(d, x)) = Len(d) + 1
    BY <1>1, <1>2, <1>3, NamesOnce
<1>5. Len(d) + 1 <= MaxDirectives
    BY <1>2, <1>3, KeyAssumption
<1>6. DirectivesOK'
    BY <1>2, <1>3, <1>4, <1>5 DEF Inv, DirectivesOK
<1>7. KeysOK'
  <2>1. \A q \in Procs : q # p => ini_directives'[q] = ini_directives[q]
      BY <1>2 DEF Inv, DirectivesOK
  <2> QED BY <1>2, <2>1 DEF Inv, KeysOK
<1> QED BY <1>2, <1>6, <1>7 DEF Inv

(* A key is printed once, and only if it fits.                             *)
LEMMA CreatePreserves ==
    ASSUME Inv, NEW p \in Procs, ahe_create_segments(p)
    PROVE  Inv'
<1>1. PICK k : /\ cache_key' = [cache_key EXCEPT ![p] = k]
               /\ \/ k = Failure
                  \/ k = Checked(MadeKey(ini_directives[p], fields[p]))
    BY DEF ahe_create_segments, MadeKey
<1>2. UNCHANGED <<ini_directives, fields>>
    BY DEF ahe_create_segments
<1>3. DirectivesOK' /\ fields' \in [Procs -> Fields]
    BY <1>2 DEF Inv, DirectivesOK
<1>4. \/ k = Failure
      \/ /\ k = MadeKey(ini_directives[p], fields[p])
         /\ Len(k) < KeySize
  <2>1. PICK m \in Seq(Token) : m = MadeKey(ini_directives[p], fields[p])
      BY MadeKeyTyped DEF Inv, DirectivesOK
  <2>2. Len(m) >= KeySize \/ Len(m) < KeySize
      BY KeyAssumption, Len(m) \in Nat
  <2> QED BY <1>1, <2>1, <2>2 DEF Checked
<1>5. /\ DOMAIN cache_key' = Procs /\ cache_key'[p] = k
      /\ cache_key' = [q \in Procs |-> cache_key'[q]]
      /\ \A q \in Procs : q # p => cache_key'[q] = cache_key[q]
    BY <1>1 DEF Inv, KeysOK
<1>6. KeysOK'
    BY <1>2, <1>4, <1>5 DEF Inv, KeysOK
<1> QED BY <1>3, <1>6 DEF Inv

(* Every step keeps the invariant.                                         *)
LEMMA InvInductive == Inv /\ [Next]_vars => Inv'
<1> SUFFICES ASSUME Inv, [Next]_vars PROVE Inv'
    OBVIOUS
<1>1. CASE Next
  <2>1. PICK p \in Procs :
            \/ \E name \in Names, value \in Values \cup {NoValue} :
                  Register(p, name, value)
            \/ ahe_create_segments(p)
      BY <1>1 DEF Next
  <2> QED BY <2>1, RegisterPreserves, CreatePreserves
<1>2. CASE UNCHANGED vars
    BY <1>2 DEF vars, Inv, DirectivesOK, KeysOK
<1> QED BY <1>1, <1>2

(* The invariant holds.                                                    *)
LEMMA InvHolds == Spec => []Inv
<1>1. Init => Inv
    BY InitEstablishes
<1>2. Inv /\ [Next]_vars => Inv'
    BY InvInductive
<1> QED BY <1>1, <1>2, PTL DEF Spec

-----------------------------------------------------------------------------
(* The theorems.                                                           *)

(* The types, and a key that leaves room for the NUL at its end.           *)
THEOREM TypeCorrect == Spec => []TypeOK
<1>1. Inv => TypeOK
  <2> SUFFICES ASSUME Inv PROVE TypeOK
      OBVIOUS
  <2>1. fields \in [Procs -> Fields]
      BY DEF Inv
  <2>2. ASSUME NEW p \in Procs
        PROVE  /\ Len(ini_directives[p]) <= MaxDirectives
               /\ \A i \in DOMAIN ini_directives[p] :
                     ini_directives[p][i] \in
                         [name : Names, value : Values \cup {NoValue}]
    <3>1. PICK d \in Seq(Entry) : d = ini_directives[p]
        BY DEF Inv, DirectivesOK
    <3>2. \A i \in DOMAIN d : d[i] \in Entry
        OBVIOUS
    <3> QED BY <3>1, <3>2 DEF Inv, DirectivesOK, Entry
  <2>3. ASSUME NEW p \in Procs PROVE Len(cache_key[p]) < KeySize
    <3>1. Len(NotYet) < KeySize /\ Len(Failure) < KeySize
        BY KeyAssumption DEF NotYet, Failure
    <3> QED BY <3>1 DEF Inv, KeysOK
  <2> QED BY <2>1, <2>2, <2>3 DEF TypeOK
<1> QED BY <1>1, InvHolds, PTL

(* What the two properties compare, in a state of the system.              *)
LEMMA KeysAndIdentities ==
    ASSUME Inv, NEW p \in Procs, NEW q \in Procs, HasKey(p), HasKey(q)
    PROVE  cache_key[p] = cache_key[q] <=> SameIdentity(p, q)
<1>1. PICK d \in Seq(Entry) : d = ini_directives[p] /\ OneEach(d)
    BY DEF Inv, DirectivesOK
<1>2. PICK e \in Seq(Entry) : e = ini_directives[q] /\ OneEach(e)
    BY DEF Inv, DirectivesOK
<1>3. PICK f \in Fields : f = fields[p]
    BY DEF Inv
<1>4. PICK g \in Fields : g = fields[q]
    BY DEF Inv
<1>5. cache_key[p] = MadeKey(d, f) /\ cache_key[q] = MadeKey(e, g)
    BY <1>1, <1>2, <1>3, <1>4 DEF Inv, KeysOK, HasKey
<1>6. Configuration(p) = Configured(d) /\ Configuration(q) = Configured(e)
    BY <1>1, <1>2 DEF Configuration, Configured, Said
<1> QED BY <1>1, <1>2, <1>3, <1>4, <1>5, <1>6, KeysEqual DEF SameIdentity

(* Processes with one key agree on everything it has to identify, for any  *)
(* directives, values and namespaces.                                      *)
THEOREM KeysIdentify == Spec => []KeyIdentifies
<1>1. Inv => KeyIdentifies
    BY KeysAndIdentities DEF KeyIdentifies
<1> QED BY <1>1, InvHolds, PTL

(* Processes that agree have one key, whatever the order of their          *)
(* directives and whatever else they have registered.                      *)
THEOREM KeysStable == Spec => []KeyStable
<1>1. Inv => KeyStable
    BY KeysAndIdentities DEF KeyStable
<1> QED BY <1>1, InvHolds, PTL

=============================================================================
