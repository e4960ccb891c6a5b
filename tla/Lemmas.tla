------------------------------- MODULE Lemmas -------------------------------
(***************************************************************************)
(* Facts about numbers, sequences, and folds and sums over finite sets that *)
(* the proofs of several components share.                                 *)
(***************************************************************************)
EXTENDS Vectors, SequencesExt, FiniteSetTheorems, NaturalsInduction, TLAPS

\* A set of natural numbers that is not empty has a least element.  Stated
\* for a set, it is the form of induction the proofs use.
LEMMA Least ==
    ASSUME NEW S \in SUBSET Nat, S # {}
    PROVE  \E n \in S : \A m \in S : n <= m
<1> DEFINE R == OpToRel(<, Nat)
<1>1. IsWellFoundedOn(R, Nat)
  BY NatLessThanWellFounded
<1>2. \A x, y \in Nat : <<y, x>> \in R <=> y < x
  BY DEF OpToRel
<1> HIDE DEF R
<1>3. PICK x \in S : \A y \in S : <<y, x>> \notin R
  BY <1>1, WFMin
<1>4. x \in Nat /\ S \subseteq Nat
  OBVIOUS
<1>5. \A y \in S : ~(y < x)
  BY <1>2, <1>3, <1>4, Zenon
<1>6. \A y \in S : x <= y
  BY <1>4, <1>5
<1> QED BY <1>6

\* The elements of a concatenation.
LEMMA ConcatElements ==
    ASSUME NEW S, NEW q \in Seq(S), NEW r \in Seq(S)
    PROVE  /\ q \o r \in Seq(S) /\ Len(q \o r) = Len(q) + Len(r)
           /\ \A i \in 1 .. Len(q) : i \in 1 .. Len(q \o r) /\ (q \o r)[i] = q[i]
           /\ \A i \in 1 .. Len(r) : /\ Len(q) + i \in 1 .. Len(q \o r)
                                     /\ (q \o r)[Len(q) + i] = r[i]
           /\ \A i \in 1 .. Len(q \o r) :
                 \/ i \in 1 .. Len(q)
                 \/ i - Len(q) \in 1 .. Len(r) /\ (q \o r)[i] = r[i - Len(q)]
  OBVIOUS

\* The elements of a sequence without its head.
LEMMA TailElements ==
    ASSUME NEW S, NEW q \in Seq(S), q # <<>>
    PROVE  /\ Head(q) \in S /\ Head(q) = q[1] /\ 1 \in 1 .. Len(q)
           /\ Tail(q) \in Seq(S)
           /\ \A i \in 1 .. Len(Tail(q)) : i + 1 \in 1 .. Len(q) /\ Tail(q)[i] = q[i + 1]
           /\ \A i \in 1 .. Len(q) : i # 1 => /\ i - 1 \in 1 .. Len(Tail(q))
                                              /\ Tail(q)[i - 1] = q[i]
  OBVIOUS

\* Erasing position k of a vector keeps the other elements, and no more.
LEMMA EraseElements ==
    ASSUME NEW S, NEW q \in Seq(S), NEW k \in 1 .. Len(q)
    PROVE  LET r == RemoveAt(q, k)
           IN  /\ r \in Seq(S) /\ Len(r) = Len(q) - 1
               /\ \A i \in 1 .. Len(r) : \E j \in 1 .. Len(q) : j # k /\ r[i] = q[j]
               /\ \A j \in 1 .. Len(q) : j # k => \E i \in 1 .. Len(r) : r[i] = q[j]
<1> DEFINE a == SubSeq(q, 1, k - 1)
           b == SubSeq(q, k + 1, Len(q))
           r == RemoveAt(q, k)
<1>1. a \in Seq(S) /\ Len(a) = k - 1 /\ \A i \in 1 .. k - 1 : a[i] = q[i]
  OBVIOUS
<1>2. b \in Seq(S) /\ Len(b) = Len(q) - k /\ \A i \in 1 .. Len(q) - k : b[i] = q[k + i]
  OBVIOUS
<1>3. r = a \o b
  BY DEF RemoveAt
<1> HIDE DEF a, b, r
<1>4. /\ a \o b \in Seq(S) /\ Len(a \o b) = Len(a) + Len(b)
      /\ \A i \in 1 .. Len(a) : (a \o b)[i] = a[i]
      /\ \A i \in 1 .. Len(b) : (a \o b)[Len(a) + i] = b[i]
  <2>1. a \in Seq(S) /\ b \in Seq(S)
    BY <1>1, <1>2
  <2>2. a \o b \in Seq(S) /\ Len(a \o b) = Len(a) + Len(b)
    BY <2>1
  <2>3. \A i \in 1 .. Len(a) : (a \o b)[i] = a[i]
    BY <2>1
  <2>4. \A i \in 1 .. Len(b) : (a \o b)[Len(a) + i] = b[i]
    BY <2>1
  <2> QED BY <2>2, <2>3, <2>4
<1>5. /\ r \in Seq(S) /\ Len(r) = Len(a) + Len(b)
      /\ \A i \in 1 .. Len(a) : r[i] = a[i]
      /\ \A i \in 1 .. Len(b) : r[Len(a) + i] = b[i]
  BY <1>3, <1>4, Zenon
<1>6. Len(r) = Len(q) - 1
  BY <1>1, <1>2, <1>5
<1>7. \A i \in 1 .. k - 1 : r[i] = q[i]
  BY <1>1, <1>5, Zenon
<1>8. \A i \in 1 .. Len(q) - k : r[(k - 1) + i] = q[k + i]
  BY <1>1, <1>2, <1>5, Zenon
<1>l. Len(q) \in Nat /\ k \in Nat /\ 1 <= k /\ k <= Len(q) /\ Len(r) = Len(q) - 1
  BY <1>6
<1>9. ASSUME NEW i \in 1 .. Len(r) PROVE \E j \in 1 .. Len(q) : j # k /\ r[i] = q[j]
  <2>1. CASE i < k
    <3>1. i \in 1 .. k - 1 /\ i \in 1 .. Len(q) /\ i # k
      BY <1>l, <2>1
    <3> QED BY <1>7, <3>1
  <2>2. CASE i >= k
    <3> DEFINE m == i - (k - 1)
    <3>1. m \in 1 .. Len(q) - k /\ i = (k - 1) + m /\ i + 1 = k + m
          /\ i + 1 \in 1 .. Len(q) /\ i + 1 # k
      BY <1>l, <2>2
    <3> HIDE DEF m
    <3>2. r[i] = q[i + 1]
      BY <1>8, <3>1
    <3> QED BY <3>1, <3>2
  <2> QED BY <1>l, <2>1, <2>2
<1>10. ASSUME NEW j \in 1 .. Len(q), j # k PROVE \E i \in 1 .. Len(r) : r[i] = q[j]
  <2>1. CASE j < k
    <3>1. j \in 1 .. k - 1 /\ j \in 1 .. Len(r)
      BY <1>l, <2>1
    <3> QED BY <1>7, <3>1
  <2>2. CASE j > k
    <3> DEFINE m == j - k
    <3>1. m \in 1 .. Len(q) - k /\ j = k + m /\ (k - 1) + m \in 1 .. Len(r)
      BY <1>l, <2>2
    <3> HIDE DEF m
    <3> QED BY <1>8, <3>1
  <2> QED BY <1>10, <1>l, <2>1, <2>2
<1> QED BY <1>5, <1>6, <1>9, <1>10 DEF r

-----------------------------------------------------------------------------
(***************************************************************************)
(* Keep, by induction on the number of elements looked at.                 *)
(***************************************************************************)
\* f[k] is what Keep has kept of the first k elements of s, for k up to n.
Keeps(f, s, T, S, n) ==
    /\ f \in [0 .. n -> Seq(S)]
    /\ f[0] = <<>>
    /\ \A k \in 1 .. n : f[k] = IF s[k] \in T THEN Append(f[k - 1], s[k]) ELSE f[k - 1]

\* There is such a function for every n.
LEMMA KeepsExists ==
    ASSUME NEW S, NEW s \in Seq(S), NEW T, NEW n \in 0 .. Len(s)
    PROVE  \E f : Keeps(f, s, T, S, n)
<1> DEFINE Bad == {k \in 0 .. Len(s) : ~\E f : Keeps(f, s, T, S, k)}
<1>l. Len(s) \in Nat
  OBVIOUS
<1>1. SUFFICES ASSUME Bad # {} PROVE FALSE
  OBVIOUS
<1>2. Bad \in SUBSET Nat
  BY <1>l
<1>3. PICK m \in Bad : \A k \in Bad : m <= k
  BY <1>1, <1>2, Least
<1>4. m \in 0 .. Len(s) /\ ~\E f : Keeps(f, s, T, S, m)
  BY <1>3
<1>5. m # 0
  <2> DEFINE f == [k \in 0 .. 0 |-> <<>>]
  <2>1. Keeps(f, s, T, S, 0)
    BY DEF Keeps
  <2> HIDE DEF f
  <2> QED BY <1>4, <2>1
<1>6. m - 1 \in 0 .. Len(s) /\ m \in Nat /\ m - 1 \in Nat /\ ~(m <= m - 1) /\ m \in 1 .. Len(s)
  BY <1>l, <1>4, <1>5
<1>7. m - 1 \notin Bad
  BY <1>3, <1>6
<1>8. PICK f : Keeps(f, s, T, S, m - 1)
  BY <1>6, <1>7
<1> DEFINE x == IF s[m] \in T THEN Append(f[m - 1], s[m]) ELSE f[m - 1]
           g == [k \in 0 .. m |-> IF k = m THEN x ELSE f[k]]
<1>9. f \in [0 .. m - 1 -> Seq(S)] /\ f[0] = <<>> /\ s[m] \in S
  BY <1>6, <1>8 DEF Keeps
<1>10. x \in Seq(S)
  <2>1. f[m - 1] \in Seq(S)
    BY <1>6, <1>9
  <2> QED BY <1>9, <2>1
<1>11. g[m] = x /\ g[m - 1] = f[m - 1]
  BY <1>6
<1> HIDE DEF x
<1>12. g \in [0 .. m -> Seq(S)] /\ g[0] = <<>>
  BY <1>6, <1>9, <1>10
<1>13. ASSUME NEW k \in 1 .. m
       PROVE  g[k] = IF s[k] \in T THEN Append(g[k - 1], s[k]) ELSE g[k - 1]
  <2>1. CASE k = m
    BY <1>11, <2>1 DEF x
  <2>2. CASE k # m
    <3>1. k \in 1 .. m - 1 /\ k \in 0 .. m /\ k - 1 \in 0 .. m /\ k - 1 # m
      BY <1>6, <2>2
    <3>2. g[k] = f[k] /\ g[k - 1] = f[k - 1]
      BY <2>2, <3>1
    <3>3. f[k] = IF s[k] \in T THEN Append(f[k - 1], s[k]) ELSE f[k - 1]
      BY <1>8, <3>1 DEF Keeps
    <3> HIDE DEF g
    <3> QED BY <3>2, <3>3
  <2> QED BY <2>1, <2>2
<1> HIDE DEF g
<1>14. Keeps(g, s, T, S, m)
  BY <1>12, <1>13 DEF Keeps
<1> QED BY <1>4, <1>14

\* f and g have the same values from m to n.
Agree(f, g, m, n) == \A k \in m .. n : f[k] = g[k]

\* It depends only on the elements it has looked at.
LEMMA KeepsUnique ==
    ASSUME NEW S, NEW s \in Seq(S), NEW r \in Seq(S), NEW T,
           NEW n \in 0 .. Len(s), NEW m \in 0 .. Len(r), n <= m,
           Agree(s, r, 1, n),
           NEW f, Keeps(f, s, T, S, n), NEW g, Keeps(g, r, T, S, m)
    PROVE  Agree(f, g, 0, n)
<1> DEFINE Bad == {k \in 0 .. n : f[k] # g[k]}
<1>l. n \in Nat /\ m \in Nat /\ n <= m
  OBVIOUS
<1>1. SUFFICES ASSUME Bad # {} PROVE FALSE
  BY DEF Agree
<1>2. Bad \in SUBSET Nat
  BY <1>l
<1>3. PICK k \in Bad : \A j \in Bad : k <= j
  BY <1>1, <1>2, Least
<1>4. k \in 0 .. n /\ f[k] # g[k]
  BY <1>3
<1>5. k # 0
  BY <1>4 DEF Keeps
<1>6. k \in 1 .. n /\ k \in 1 .. m /\ k - 1 \in 0 .. n /\ ~(k <= k - 1)
  BY <1>l, <1>4, <1>5
<1>7. f[k - 1] = g[k - 1]
  BY <1>3, <1>6
<1>8. f[k] = IF s[k] \in T THEN Append(f[k - 1], s[k]) ELSE f[k - 1]
  BY <1>6 DEF Keeps
<1>9. g[k] = IF r[k] \in T THEN Append(g[k - 1], r[k]) ELSE g[k - 1]
  BY <1>6 DEF Keeps
<1>10. s[k] = r[k]
  BY <1>6 DEF Agree
<1> QED BY <1>4, <1>7, <1>8, <1>9, <1>10

\* Keep computes it.
LEMMA KeepKeeps ==
    ASSUME NEW S, NEW s \in Seq(S), NEW T
    PROVE  \E f : Keeps(f, s, T, S, Len(s)) /\ Keep(s, T) = f[Len(s)]
<1> DEFINE Def(f) == [n \in 0 .. Len(s) |->
                        IF n = 0 THEN <<>>
                        ELSE IF s[n] \in T THEN Append(f[n - 1], s[n]) ELSE f[n - 1]]
           F == CHOOSE f : f = Def(f)
<1>l. Len(s) \in Nat
  OBVIOUS
<1>1. Keep(s, T) = F[Len(s)]
  BY DEF Keep
<1>2. PICK g : Keeps(g, s, T, S, Len(s))
  <2>1. Len(s) \in 0 .. Len(s)
    BY <1>l
  <2> HIDE DEF F
  <2> QED BY <2>1, KeepsExists, Zenon
<1>3. g = Def(g)
  <2>1. DOMAIN g = 0 .. Len(s) /\ g = [n \in 0 .. Len(s) |-> g[n]]
    BY <1>2 DEF Keeps
  <2>2. ASSUME NEW n \in 0 .. Len(s)
        PROVE  g[n] = IF n = 0 THEN <<>>
                      ELSE IF s[n] \in T THEN Append(g[n - 1], s[n]) ELSE g[n - 1]
    <3>1. CASE n = 0
      BY <1>2, <3>1 DEF Keeps
    <3>2. CASE n # 0
      <4>1. n \in 1 .. Len(s)
        BY <1>l, <3>2
      <4> QED BY <1>2, <3>2, <4>1 DEF Keeps
    <3> QED BY <3>1, <3>2
  <2> QED BY <2>1, <2>2
<1> HIDE DEF Def
<1>4. F = Def(F)
  BY <1>3
<1> HIDE DEF F
<1>5. ASSUME NEW n \in 0 .. Len(s) PROVE F[n] = g[n]
  <2> DEFINE Bad == {k \in 0 .. Len(s) : F[k] # g[k]}
  <2>1. SUFFICES ASSUME Bad # {} PROVE FALSE
    OBVIOUS
  <2>2. Bad \in SUBSET Nat
    BY <1>l
  <2>3. PICK k \in Bad : \A j \in Bad : k <= j
    BY <2>1, <2>2, Least
  <2>4. k \in 0 .. Len(s) /\ F[k] # g[k]
    BY <2>3
  <2>5. F[k] = Def(F)[k] /\ g[k] = Def(g)[k]
    BY <1>3, <1>4
  <2>6. k # 0
    BY <2>4, <2>5 DEF Def
  <2>7. k - 1 \in 0 .. Len(s) /\ ~(k <= k - 1)
    BY <1>l, <2>4, <2>6
  <2>8. F[k - 1] = g[k - 1]
    BY <2>3, <2>7
  <2> QED BY <2>4, <2>5, <2>8 DEF Def
<1>6. F[Len(s)] = g[Len(s)]
  BY <1>l, <1>5
<1> QED BY <1>1, <1>2, <1>6

\* What is kept are elements of the sequence that are in the set.
LEMMA KeepType ==
    ASSUME NEW S, NEW s \in Seq(S), NEW T
    PROVE  Keep(s, T) \in Seq(S)
<1>1. PICK f : Keeps(f, s, T, S, Len(s)) /\ Keep(s, T) = f[Len(s)]
  BY KeepKeeps
<1>2. Len(s) \in 0 .. Len(s)
  OBVIOUS
<1> QED BY <1>1, <1>2 DEF Keeps

\* Nothing is kept of nothing.
LEMMA KeepEmpty ==
    ASSUME NEW S, NEW T
    PROVE  Keep(<<>>, T) = <<>>
<1>1. <<>> \in Seq(S) /\ Len(<<>>) = 0
  OBVIOUS
<1>2. PICK f : Keeps(f, <<>>, T, S, Len(<<>>)) /\ Keep(<<>>, T) = f[Len(<<>>)]
  BY <1>1, KeepKeeps, Zenon
<1> QED BY <1>1, <1>2 DEF Keeps

\* An element at the end is kept, or not, by itself.
LEMMA KeepAppend ==
    ASSUME NEW S, NEW s \in Seq(S), NEW T, NEW e \in S
    PROVE  /\ e \in T => Keep(Append(s, e), T) = Append(Keep(s, T), e)
           /\ e \notin T => Keep(Append(s, e), T) = Keep(s, T)
<1> DEFINE r == Append(s, e)
           n == Len(s)
<1>1. r \in Seq(S) /\ Len(r) = n + 1 /\ r[n + 1] = e /\ \A k \in 1 .. n : s[k] = r[k]
  OBVIOUS
<1>2. n \in Nat /\ n \in 0 .. n /\ n + 1 \in 1 .. n + 1 /\ n + 1 - 1 = n
      /\ n + 1 \in 0 .. n + 1 /\ n <= n + 1
  OBVIOUS
<1>3. PICK f : Keeps(f, s, T, S, n) /\ Keep(s, T) = f[n]
  BY KeepKeeps
<1> HIDE DEF r
<1>4. PICK g : Keeps(g, r, T, S, Len(r)) /\ Keep(r, T) = g[Len(r)]
  BY <1>1, KeepKeeps
<1> HIDE DEF n
<1>5. g[n + 1] = IF r[n + 1] \in T THEN Append(g[n], r[n + 1]) ELSE g[n]
  BY <1>1, <1>2, <1>4 DEF Keeps
<1>6. f[n] = g[n]
  <2>1. n \in 0 .. Len(s) /\ n + 1 \in 0 .. Len(r) /\ Keeps(g, r, T, S, n + 1)
    BY <1>1, <1>2, <1>4 DEF n
  <2>2. Agree(f, g, 0, n)
    <3>1. n <= n + 1 /\ Agree(s, r, 1, n) /\ Keeps(f, s, T, S, n) /\ r \in Seq(S)
      BY <1>1, <1>2, <1>3 DEF Agree
    <3> QED BY <2>1, <3>1, KeepsUnique
  <2> QED BY <1>2, <2>2 DEF Agree
<1>7. Keep(r, T) = IF e \in T THEN Append(Keep(s, T), e) ELSE Keep(s, T)
  BY <1>1, <1>3, <1>4, <1>5, <1>6
<1> QED BY <1>7 DEF r

\* Keeping the elements of a set, and then those of a smaller one, is keeping
\* those of the smaller one.
LEMMA KeepKeep ==
    ASSUME NEW S, NEW s \in Seq(S), NEW U, NEW T, T \subseteq U
    PROVE  Keep(Keep(s, U), T) = Keep(s, T)
<1>1. PICK f : Keeps(f, s, U, S, Len(s)) /\ Keep(s, U) = f[Len(s)]
  BY KeepKeeps
<1>2. PICK g : Keeps(g, s, T, S, Len(s)) /\ Keep(s, T) = g[Len(s)]
  BY KeepKeeps
<1> DEFINE Bad == {k \in 0 .. Len(s) : Keep(f[k], T) # g[k]}
<1>l. Len(s) \in Nat /\ Len(s) \in 0 .. Len(s)
  OBVIOUS
<1>3. Bad = {}
  <2>1. SUFFICES ASSUME Bad # {} PROVE FALSE
    OBVIOUS
  <2>2. Bad \in SUBSET Nat
    BY <1>l
  <2>3. PICK k \in Bad : \A j \in Bad : k <= j
    BY <2>1, <2>2, Least
  <2>4. k \in 0 .. Len(s) /\ Keep(f[k], T) # g[k]
    BY <2>3
  <2>5. k # 0
    <3>1. f[0] = <<>> /\ g[0] = <<>>
      BY <1>1, <1>2 DEF Keeps
    <3>2. Keep(<<>>, T) = <<>>
      BY KeepEmpty, Zenon
    <3> HIDE DEF Bad
    <3> QED BY <2>4, <3>1, <3>2
  <2>6. k \in 1 .. Len(s) /\ k - 1 \in 0 .. Len(s) /\ ~(k <= k - 1)
    BY <1>l, <2>4, <2>5
  <2>7. Keep(f[k - 1], T) = g[k - 1]
    BY <2>3, <2>6
  <2> HIDE DEF Bad
  <2>8. f[k] = IF s[k] \in U THEN Append(f[k - 1], s[k]) ELSE f[k - 1]
    BY <1>1, <2>6 DEF Keeps
  <2>9. g[k] = IF s[k] \in T THEN Append(g[k - 1], s[k]) ELSE g[k - 1]
    BY <1>2, <2>6 DEF Keeps
  <2>10. s[k] \in S /\ f[k - 1] \in Seq(S)
    BY <1>1, <2>6 DEF Keeps
  <2>11. /\ s[k] \in T => Keep(Append(f[k - 1], s[k]), T) = Append(Keep(f[k - 1], T), s[k])
         /\ s[k] \notin T => Keep(Append(f[k - 1], s[k]), T) = Keep(f[k - 1], T)
    <3>1. ASSUME NEW h \in Seq(S), NEW e \in S
          PROVE  /\ e \in T => Keep(Append(h, e), T) = Append(Keep(h, T), e)
                 /\ e \notin T => Keep(Append(h, e), T) = Keep(h, T)
      BY KeepAppend
    <3> QED BY <2>10, <3>1
  <2> QED BY <2>4, <2>7, <2>8, <2>9, <2>11
<1> QED BY <1>1, <1>2, <1>3, <1>l

-----------------------------------------------------------------------------
(***************************************************************************)
(* Finite sets.                                                            *)
(***************************************************************************)
\* Among subsets of a finite set there is one that is in a given collection
\* when none of its subsets with one element less is: induction on finite sets.
LEMMA LeastSet ==
    ASSUME NEW S, IsFiniteSet(S), NEW Bad \in SUBSET SUBSET S, Bad # {}
    PROVE  \E s \in Bad : \A x \in s : s \ {x} \notin Bad
<1> DEFINE N == {n \in Nat : \E s \in Bad : Cardinality(s) = n}
<1>1. ASSUME NEW s \in Bad PROVE IsFiniteSet(s) /\ Cardinality(s) \in Nat
  BY FS_Subset, FS_CardinalityType
<1>2. N \in SUBSET Nat /\ N # {}
  BY <1>1
<1>3. PICK n \in N : \A m \in N : n <= m
  BY <1>2, Least
<1>4. PICK s \in Bad : Cardinality(s) = n
  BY <1>3
<1>5. ASSUME NEW x \in s, s \ {x} \in Bad PROVE FALSE
  <2>1. IsFiniteSet(s) /\ n \in Nat
    BY <1>1, <1>4
  <2>2. Cardinality(s \ {x}) = n - 1
    BY <1>4, <2>1, FS_RemoveElement
  <2>3. Cardinality(s \ {x}) \in N
    BY <1>1, <1>5
  <2> HIDE DEF N
  <2>4. n <= n - 1
    BY <1>3, <2>2, <2>3
  <2> QED BY <2>1, <2>4
<1> QED BY <1>5

\* A finite set of natural numbers that is not empty has a greatest element.
LEMMA Greatest ==
    ASSUME NEW S \in SUBSET Nat, IsFiniteSet(S), S # {}
    PROVE  Max(S) \in S /\ \A x \in S : Max(S) >= x
<1> DEFINE Bad == {s \in SUBSET S : s # {} /\ ~\E m \in s : \A x \in s : m >= x}
<1>1. Bad = {}
  <2>1. SUFFICES ASSUME Bad # {} PROVE FALSE
    OBVIOUS
  <2>2. Bad \in SUBSET SUBSET S
    OBVIOUS
  <2>3. PICK s \in Bad : \A x \in s : s \ {x} \notin Bad
    BY <2>1, <2>2, LeastSet
  <2>4. PICK x \in s : TRUE
    BY <2>3
  <2>5. s \ {x} \in SUBSET S /\ s \in SUBSET Nat /\ x \in Nat
    BY <2>3
  <2>6. CASE s \ {x} = {}
    BY <2>3, <2>4, <2>5, <2>6
  <2>7. CASE s \ {x} # {}
    <3>1. PICK m \in s \ {x} : \A y \in s \ {x} : m >= y
      BY <2>3, <2>5, <2>7
    <3>2. m \in Nat
      BY <2>5
    <3>3. CASE m >= x
      BY <2>3, <3>1, <3>2, <3>3
    <3>4. CASE ~(m >= x)
      <4>1. \A y \in s : x >= y
        BY <2>5, <3>1, <3>2, <3>4
      <4> QED BY <2>3, <2>4, <4>1
    <3> QED BY <3>3, <3>4
  <2> QED BY <2>6, <2>7
<1>2. \E m \in S : \A x \in S : m >= x
  BY <1>1
<1> QED BY <1>2 DEF Max

\* The element that a fold takes first.
Picked(s) == CHOOSE x \in s : TRUE

\* F[s] is the fold of g over s, from b.
FoldFun(F, S, A, g, b) ==
    /\ F \in [SUBSET S -> A]
    /\ F[{}] = b
    /\ \A s \in SUBSET S : s # {} => F[s] = g[<<Picked(s), F[s \ {Picked(s)}]>>]

\* The same for sets of at most n elements.
FoldUpTo(F, S, A, g, b, n) ==
    /\ F \in [{s \in SUBSET S : Cardinality(s) <= n} -> A]
    /\ F[{}] = b
    /\ \A s \in SUBSET S : s # {} /\ Cardinality(s) <= n
          => F[s] = g[<<Picked(s), F[s \ {Picked(s)}]>>]

\* A fold over a finite set has a value.
LEMMA FoldExists ==
    ASSUME NEW S, IsFiniteSet(S), NEW A, NEW b \in A, NEW g \in [S \X A -> A]
    PROVE  \E F : FoldFun(F, S, A, g, b)
<1> DEFINE Small(n) == {s \in SUBSET S : Cardinality(s) <= n}
           Bad == {n \in Nat : ~\E F : FoldUpTo(F, S, A, g, b, n)}
<1>c. ASSUME NEW s \in SUBSET S
      PROVE  IsFiniteSet(s) /\ Cardinality(s) \in Nat /\ (Cardinality(s) = 0 <=> s = {})
  BY FS_Subset, FS_CardinalityType, FS_EmptySet
<1>p. ASSUME NEW s \in SUBSET S, s # {}
      PROVE  /\ Picked(s) \in s /\ Picked(s) \in S /\ s \ {Picked(s)} \in SUBSET S
             /\ Cardinality(s \ {Picked(s)}) = Cardinality(s) - 1
  <2>1. Picked(s) \in s
    BY <1>p DEF Picked
  <2> QED BY <1>c, <2>1, FS_RemoveElement
<1>1. ASSUME Bad # {} PROVE FALSE
  <2>1. PICK n \in Bad : \A m \in Bad : n <= m
    BY <1>1, Least
  <2>2. n \in Nat /\ ~\E F : FoldUpTo(F, S, A, g, b, n)
    BY <2>1
  <2>3. n # 0
    <3> DEFINE F == [s \in Small(0) |-> b]
    <3>1. {} \in Small(0) /\ \A s \in Small(0) : s = {}
      BY <1>c
    <3>2. FoldUpTo(F, S, A, g, b, 0)
      BY <1>c, <3>1 DEF FoldUpTo
    <3> QED BY <2>2, <3>2
  <2>4. n - 1 \in Nat /\ ~(n <= n - 1)
    BY <2>2, <2>3
  <2>5. PICK F : FoldUpTo(F, S, A, g, b, n - 1)
    BY <2>1, <2>4
  <2> DEFINE val(s) == IF Cardinality(s) <= n - 1 THEN F[s]
                       ELSE g[<<Picked(s), F[s \ {Picked(s)}]>>]
             G == [s \in Small(n) |-> val(s)]
  <2>6. ASSUME NEW s \in Small(n), ~(Cardinality(s) <= n - 1)
        PROVE  s # {} /\ s \ {Picked(s)} \in Small(n - 1) /\ Picked(s) \in S
    <3>1. s # {}
      BY <1>c, <2>2, <2>3, <2>4, <2>6
    <3> QED BY <1>c, <1>p, <2>2, <2>6, <3>1
  <2>7. F \in [Small(n - 1) -> A] /\ F[{}] = b
    BY <2>5 DEF FoldUpTo
  <2>8. ASSUME NEW s \in Small(n) PROVE val(s) \in A
    <3>1. CASE Cardinality(s) <= n - 1
      BY <2>7, <3>1
    <3>2. CASE ~(Cardinality(s) <= n - 1)
      <4>1. F[s \ {Picked(s)}] \in A /\ Picked(s) \in S
        BY <2>6, <2>7, <3>2
      <4> QED BY <3>2, <4>1
    <3> QED BY <3>1, <3>2
  <2>9. \A s \in Small(n) : G[s] = val(s)
    OBVIOUS
  <2>10. {} \in Small(n) /\ Cardinality({}) <= n - 1
    BY <1>c, <2>4
  <2>11. G \in [Small(n) -> A] /\ G[{}] = b
    BY <2>7, <2>8, <2>9, <2>10
  <2>12. ASSUME NEW s \in SUBSET S, s # {}, Cardinality(s) <= n
         PROVE  G[s] = g[<<Picked(s), G[s \ {Picked(s)}]>>]
    <3> DEFINE r == s \ {Picked(s)}
    <3>1. s \in Small(n) /\ r \in SUBSET S /\ Cardinality(r) <= n - 1 /\ r \in Small(n)
      BY <1>c, <1>p, <2>2, <2>12
    <3>2. G[r] = F[r]
      BY <2>9, <3>1
    <3>3. CASE Cardinality(s) <= n - 1
      <4>1. F[s] = g[<<Picked(s), F[r]>>]
        BY <2>5, <2>12, <3>3 DEF FoldUpTo
      <4>2. G[s] = F[s]
        BY <2>9, <3>1, <3>3
      <4> HIDE DEF G, r
      <4> QED BY <3>2, <4>1, <4>2 DEF r
    <3>4. CASE ~(Cardinality(s) <= n - 1)
      <4>1. G[s] = g[<<Picked(s), F[r]>>]
        BY <2>9, <3>1, <3>4
      <4> HIDE DEF G, r
      <4> QED BY <3>2, <4>1 DEF r
    <3> QED BY <3>3, <3>4
  <2> HIDE DEF G
  <2>13. FoldUpTo(G, S, A, g, b, n)
    BY <2>11, <2>12 DEF FoldUpTo
  <2> QED BY <2>2, <2>13
<1>2. Cardinality(S) \in Nat
  BY FS_CardinalityType
<1>3. PICK F : FoldUpTo(F, S, A, g, b, Cardinality(S))
  BY <1>1, <1>2
<1>4. \A s \in SUBSET S : Cardinality(s) <= Cardinality(S)
  BY FS_Subset
<1>5. Small(Cardinality(S)) = SUBSET S
  BY <1>4
<1>6. F \in [SUBSET S -> A]
  BY <1>3, <1>5 DEF FoldUpTo
<1>7. FoldFun(F, S, A, g, b)
  BY <1>3, <1>4, <1>6 DEF FoldUpTo, FoldFun
<1> QED BY <1>7

\* F[s] is the sum of f over s.
SumFun(F, S, f) ==
    /\ F \in [SUBSET S -> Int]
    /\ F[{}] = 0
    /\ \A s \in SUBSET S : s # {} => F[s] = f[Picked(s)] + F[s \ {Picked(s)}]

\* Every function on a finite set has a sum.
LEMMA SumExists ==
    ASSUME NEW S, IsFiniteSet(S), NEW f \in [S -> Int]
    PROVE  \E F : SumFun(F, S, f)
<1> DEFINE g == [e \in S \X Int |-> f[e[1]] + e[2]]
<1>1. g \in [S \X Int -> Int] /\ 0 \in Int
  OBVIOUS
<1>2. \A x \in S, a \in Int : g[<<x, a>>] = f[x] + a
  OBVIOUS
<1> HIDE DEF g
<1>3. PICK F : FoldFun(F, S, Int, g, 0)
  BY <1>1, FoldExists
<1>4. ASSUME NEW s \in SUBSET S, s # {} PROVE F[s] = f[Picked(s)] + F[s \ {Picked(s)}]
  <2>1. Picked(s) \in S /\ s \ {Picked(s)} \in SUBSET S
    BY <1>4 DEF Picked
  <2>2. F[s \ {Picked(s)}] \in Int
    BY <1>3, <2>1 DEF FoldFun
  <2>3. F[s] = g[<<Picked(s), F[s \ {Picked(s)}]>>]
    BY <1>3, <1>4 DEF FoldFun
  <2> QED BY <1>2, <2>1, <2>2, <2>3
<1>5. SumFun(F, S, f)
  BY <1>3, <1>4 DEF SumFun, FoldFun
<1> QED BY <1>5

\* A sum does not depend on the order: any element may be taken first.
LEMMA SumRemove ==
    ASSUME NEW S, IsFiniteSet(S), NEW f \in [S -> Int], NEW F, SumFun(F, S, f),
           NEW s \in SUBSET S, NEW y \in s
    PROVE  F[s] = f[y] + F[s \ {y}]
<1> DEFINE Bad == {r \in SUBSET S : \E z \in r : F[r] # f[z] + F[r \ {z}]}
<1>1. ASSUME Bad # {} PROVE FALSE
  <2>1. PICK r \in Bad : \A x \in r : r \ {x} \notin Bad
    BY <1>1, LeastSet
  <2>2. PICK z \in r : F[r] # f[z] + F[r \ {z}]
    BY <2>1
  <2> DEFINE x == Picked(r)
  <2>3. x \in r /\ r # {} /\ r \in SUBSET S
    BY <2>1, <2>2 DEF Picked
  <2>4. F[r] = f[x] + F[r \ {x}]
    BY <2>3 DEF SumFun
  <2> HIDE DEF x
  <2>5. x # z
    BY <2>2, <2>4
  <2> DEFINE o == (r \ {x}) \ {z}
  <2>6. o = (r \ {z}) \ {x} /\ z \in r \ {x} /\ x \in r \ {z}
        /\ o \in SUBSET S /\ r \ {x} \in SUBSET S /\ r \ {z} \in SUBSET S
    BY <2>2, <2>3, <2>5
  <2>7. F[r \ {x}] = f[z] + F[o]
    BY <2>1, <2>3, <2>6
  <2>8. F[r \ {z}] = f[x] + F[o]
    BY <2>1, <2>2, <2>6
  <2> HIDE DEF o
  <2>9. F[o] \in Int /\ f[x] \in Int /\ f[z] \in Int
    BY <2>2, <2>3, <2>6 DEF SumFun
  <2> QED BY <2>2, <2>4, <2>7, <2>8, <2>9
<1> QED BY <1>1

\* Functions that agree on a set have the same sum over it.
LEMMA SumSame ==
    ASSUME NEW S, IsFiniteSet(S), NEW f \in [S -> Int], NEW h \in [S -> Int],
           NEW F, SumFun(F, S, f), NEW H, SumFun(H, S, h),
           NEW s \in SUBSET S, \A x \in s : f[x] = h[x]
    PROVE  F[s] = H[s]
<1> DEFINE Bad == {r \in SUBSET s : F[r] # H[r]}
<1>1. ASSUME Bad # {} PROVE FALSE
  <2>1. Bad \in SUBSET SUBSET S
    OBVIOUS
  <2>2. PICK r \in Bad : \A x \in r : r \ {x} \notin Bad
    BY <1>1, <2>1, LeastSet
  <2>3. r \in SUBSET s /\ F[r] # H[r]
    BY <2>2
  <2>4. r # {}
    BY <2>3 DEF SumFun
  <2> DEFINE x == Picked(r)
  <2>5. x \in r /\ r \in SUBSET S /\ x \in s /\ r \ {x} \in SUBSET s
    BY <2>3, <2>4 DEF Picked
  <2>6. F[r \ {x}] = H[r \ {x}]
    BY <2>2, <2>5
  <2>7. F[r] = f[x] + F[r \ {x}] /\ H[r] = h[x] + H[r \ {x}]
    BY <2>4, <2>5 DEF SumFun
  <2> HIDE DEF x
  <2> QED BY <2>3, <2>5, <2>6, <2>7
<1> QED BY <1>1

\* A sum changes by what one element changes.
LEMMA SumChange ==
    ASSUME NEW S, IsFiniteSet(S), NEW f \in [S -> Int], NEW h \in [S -> Int],
           NEW F, SumFun(F, S, f), NEW H, SumFun(H, S, h),
           NEW p \in S, \A x \in S \ {p} : f[x] = h[x]
    PROVE  H[S] = F[S] - f[p] + h[p] /\ F[S] \in Int
<1>1. S \in SUBSET S /\ S \ {p} \in SUBSET S
  OBVIOUS
<1>2. F[S] = f[p] + F[S \ {p}] /\ H[S] = h[p] + H[S \ {p}]
  BY <1>1, SumRemove
<1>3. F[S \ {p}] = H[S \ {p}]
  BY <1>1, SumSame
<1>4. F[S \ {p}] \in Int /\ f[p] \in Int /\ h[p] \in Int
  BY <1>1 DEF SumFun
<1> QED BY <1>2, <1>3, <1>4

\* The sum over two sets that have nothing in common.
LEMMA SumDisjoint ==
    ASSUME NEW S, IsFiniteSet(S), NEW f \in [S -> Int], NEW F, SumFun(F, S, f),
           NEW s \in SUBSET S, NEW r \in SUBSET S, s \cap r = {}
    PROVE  F[s \cup r] = F[s] + F[r]
<1> DEFINE Bad == {u \in SUBSET r : F[s \cup u] # F[s] + F[u]}
<1>1. \A u \in SUBSET S : F[u] \in Int
  BY DEF SumFun
<1>2. ASSUME Bad # {} PROVE FALSE
  <2>1. Bad \in SUBSET SUBSET S
    OBVIOUS
  <2>2. PICK u \in Bad : \A x \in u : u \ {x} \notin Bad
    BY <1>2, <2>1, LeastSet
  <2>3. u \in SUBSET r /\ u \in SUBSET S /\ F[s \cup u] # F[s] + F[u]
    BY <2>2
  <2>4. u # {}
    <3>1. s \cup {} = s /\ F[{}] = 0 /\ F[s] \in Int
      BY <1>1 DEF SumFun
    <3> QED BY <2>3, <3>1
  <2>5. PICK x \in u : TRUE
    BY <2>4
  <2> DEFINE v == u \ {x}
  <2>6. /\ v \in SUBSET r /\ v \in SUBSET S /\ s \cup v \in SUBSET S /\ s \cup u \in SUBSET S
        /\ x \in s \cup u /\ (s \cup u) \ {x} = s \cup v
    BY <2>3, <2>5
  <2>7. F[s \cup u] = f[x] + F[s \cup v]
    BY <2>6, SumRemove
  <2>8. F[u] = f[x] + F[v]
    BY <2>3, <2>5, SumRemove
  <2>9. F[s \cup v] = F[s] + F[v]
    BY <2>2, <2>5, <2>6
  <2>10. f[x] \in Int /\ F[v] \in Int /\ F[s] \in Int
    BY <1>1, <2>3, <2>5, <2>6
  <2> HIDE DEF v
  <2> QED BY <2>3, <2>7, <2>8, <2>9, <2>10
<1> QED BY <1>2

\* Natural numbers have a natural number as their sum, which is 0 only if they
\* are, and a part of them has no larger sum.
LEMMA SumNat ==
    ASSUME NEW S, IsFiniteSet(S), NEW f \in [S -> Nat], NEW F, SumFun(F, S, f),
           NEW s \in SUBSET S
    PROVE  /\ F[s] \in Nat
           /\ (\A x \in s : f[x] = 0) => F[s] = 0
           /\ \A r \in SUBSET s : F[r] <= F[s]
<1>1. f \in [S -> Int]
  OBVIOUS
<1>2. ASSUME NEW r \in SUBSET S PROVE F[r] \in Nat /\ ((\A x \in r : f[x] = 0) => F[r] = 0)
  <2> DEFINE Bad == {u \in SUBSET r : ~(F[u] \in Nat /\ ((\A x \in u : f[x] = 0) => F[u] = 0))}
  <2>1. ASSUME Bad # {} PROVE FALSE
    <3>1. Bad \in SUBSET SUBSET S
      OBVIOUS
    <3>2. PICK u \in Bad : \A x \in u : u \ {x} \notin Bad
      BY <2>1, <3>1, LeastSet
    <3>3. u \in SUBSET r /\ u \in SUBSET S
      BY <3>2
    <3>4. u # {}
      <4>1. F[{}] = 0 /\ 0 \in Nat
        BY DEF SumFun
      <4>2. ~(F[u] \in Nat /\ ((\A x \in u : f[x] = 0) => F[u] = 0))
        BY <3>2
      <4> QED BY <4>1, <4>2
    <3>5. PICK x \in u : TRUE
      BY <3>4
    <3>6. F[u] = f[x] + F[u \ {x}]
      BY <1>1, <3>3, <3>5, SumRemove
    <3>7. u \ {x} \in SUBSET r /\ f[x] \in Nat
      BY <3>3, <3>5
    <3>8. F[u \ {x}] \in Nat /\ ((\A y \in u \ {x} : f[y] = 0) => F[u \ {x}] = 0)
      BY <3>2, <3>5, <3>7
    <3>9. F[u] \in Nat
      BY <3>6, <3>7, <3>8
    <3>10. ASSUME \A y \in u : f[y] = 0 PROVE F[u] = 0
      BY <3>5, <3>6, <3>8, <3>10
    <3> QED BY <3>2, <3>9, <3>10
  <2> QED BY <2>1
<1>3. ASSUME NEW r \in SUBSET s PROVE F[r] <= F[s]
  <2> DEFINE v == s \ r
  <2>1. r \in SUBSET S /\ v \in SUBSET S /\ r \cap v = {} /\ r \cup v = s
    OBVIOUS
  <2> HIDE DEF v
  <2>2. F[r \cup v] = F[r] + F[v]
    <3>1. ASSUME NEW u \in SUBSET S, NEW w \in SUBSET S, u \cap w = {}
          PROVE  F[u \cup w] = F[u] + F[w]
      BY <1>1, <3>1, SumDisjoint
    <3> QED BY <2>1, <3>1, Zenon
  <2>3. F[s] = F[r] + F[v]
    BY <2>1, <2>2, Zenon
  <2>4. F[r] \in Nat /\ F[v] \in Nat
    BY <1>2, <2>1
  <2> QED BY <2>3, <2>4
<1> QED BY <1>2, <1>3
=============================================================================
