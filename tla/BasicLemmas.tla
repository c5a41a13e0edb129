---------------------------- MODULE BasicLemmas ----------------------------
(***************************************************************************)
(* Facts the proofs share: counters that are seen modulo the range of a    *)
(* machine word, and sequences that lose or gain an element.               *)
(***************************************************************************)
EXTENDS Integers, Sequences, SequencesExt, SequenceTheorems, TLAPS

\* Division with remainder.
LEMMA DivMod ==
  ASSUME NEW a \in Nat, NEW M \in Nat \ {0}
  PROVE  /\ a \div M \in Nat
         /\ a = M * (a \div M) + (a % M)
         /\ a % M \in 0 .. M - 1
OBVIOUS

\* The only multiple of M strictly between -M and M is zero.
LEMMA SmallMultiple ==
  ASSUME NEW M \in Nat \ {0}, NEW q \in Int, -M < M * q, M * q < M
  PROVE  q = 0
<1>1. CASE q >= 1
  BY <1>1, SMT
<1>2. CASE q <= -1
  BY <1>2, SMT
<1> QED
  BY <1>1, <1>2

\* Two counts less than M apart that agree modulo M are equal: what makes the
\* comparison of wrapped cursors and generations sound.
LEMMA WrappedEqual ==
  ASSUME NEW M \in Nat \ {0}, NEW a \in Nat, NEW b \in Nat,
         b <= a, a - b < M, a % M = b % M
  PROVE  a = b
<1> DEFINE qa == a \div M
           qb == b \div M
           r  == a % M
<1>1. qa \in Nat /\ r \in 0 .. M - 1 /\ a = M * qa + r
  BY DivMod
<1>2. qb \in Nat /\ b = M * qb + r
  BY DivMod
<1> HIDE DEF qa, qb, r
<1>3. a - b = M * (qa - qb)
  BY <1>1, <1>2, SMT
<1>4. qa - qb = 0
  <2>1. qa - qb \in Int /\ -M < M * (qa - qb) /\ M * (qa - qb) < M
    BY <1>1, <1>2, <1>3
  <2> QED
    BY <2>1, SmallMultiple
<1> QED
  BY <1>1, <1>2, <1>4

\* The remainder is determined by any decomposition.
LEMMA ModUnique ==
  ASSUME NEW M \in Nat \ {0}, NEW a \in Int, NEW q \in Int, NEW r \in 0 .. M - 1,
         a = M * q + r
  PROVE  a % M = r /\ a \div M = q
<1> DEFINE qa == a \div M
           ra == a % M
<1>1. qa \in Int /\ ra \in 0 .. M - 1 /\ a = M * qa + ra
  OBVIOUS
<1> HIDE DEF qa, ra
<1>2. M * (qa - q) = r - ra
  BY <1>1, SMT
<1>3. qa - q = 0
  <2>1. qa - q \in Int /\ -M < M * (qa - q) /\ M * (qa - q) < M
    BY <1>1, <1>2
  <2> QED
    BY <2>1, SmallMultiple
<1>4. qa = q /\ ra = r
  BY <1>1, <1>2, <1>3
<1> QED
  BY <1>4 DEF qa, ra

\* When C divides M, reducing modulo M first does not change the remainder
\* modulo C: the index of a cursor survives the wrap of its word.
LEMMA ModOfMod ==
  ASSUME NEW M \in Nat \ {0}, NEW C \in Nat \ {0}, M % C = 0, NEW x \in Nat
  PROVE  (x % M) % C = x % C
<1> DEFINE k == M \div C
           q == x \div M
           y == x % M
           s == y \div C
           r == y % C
<1>1. k \in Nat /\ M = C * k + (M % C)
  BY DivMod
<1>2. q \in Nat /\ x = M * q + y /\ y \in 0 .. M - 1
  BY DivMod
<1>2a. y \in Nat
  BY <1>2
<1>3. s \in Nat /\ y = C * s + r /\ r \in 0 .. C - 1
  BY <1>2a, DivMod
<1> HIDE DEF k, q, y, s, r
<1>4. x = C * (k * q + s) + r
  <2>1. M = C * k
    BY <1>1
  <2>2. M * q = C * (k * q)
    BY <2>1, <1>1, <1>2, SMT
  <2>3. C * (k * q + s) = C * (k * q) + C * s
    BY <1>1, <1>2, <1>3, SMT
  <2> QED
    BY <2>2, <2>3, <1>2, <1>3, SMT
<1> DEFINE t == k * q + s
<1>5. t \in Int /\ x \in Int /\ x = C * t + r
  BY <1>1, <1>2, <1>3, <1>4
<1> HIDE DEF t
<1>6. x % C = r
  BY <1>5, <1>3, ModUnique
<1> QED
  BY <1>6 DEF y, r

\* An increment of a wrapped counter.
LEMMA WrappedIncrement ==
  ASSUME NEW M \in Nat \ {0}, NEW a \in Nat
  PROVE  ((a % M) + 1) % M = (a + 1) % M
<1> DEFINE q == a \div M
           r == a % M
           q2 == (r + 1) \div M
           r2 == (r + 1) % M
<1>1. q \in Nat /\ a = M * q + r /\ r \in 0 .. M - 1
  BY DivMod
<1>2. r + 1 \in Nat
  BY <1>1
<1>3. q2 \in Nat /\ r + 1 = M * q2 + r2 /\ r2 \in 0 .. M - 1
  BY <1>2, DivMod
<1> HIDE DEF q, r, q2, r2
<1>4. a + 1 = M * (q + q2) + r2
  <2>1. M * (q + q2) = M * q + M * q2
    BY <1>1, <1>3, SMT
  <2>2. M * q \in Nat /\ M * q2 \in Nat
    BY <1>1, <1>3
  <2> QED
    BY <1>1, <1>3, <2>1, <2>2
<1>5. q + q2 \in Int /\ a + 1 \in Int
  BY <1>1, <1>3
<1>6. (a + 1) % M = r2
  BY <1>3, <1>4, <1>5, ModUnique
<1> QED
  BY <1>6 DEF r, r2

-----------------------------------------------------------------------------
(* Sequences, by their elements.                                            *)

LEMMA PrependProperties ==
  ASSUME NEW S, NEW h \in S, NEW d \in Seq(S)
  PROVE  LET c == <<h>> \o d
         IN  /\ c \in Seq(S) /\ Len(c) = Len(d) + 1 /\ c[1] = h
             /\ \A i \in 1 .. Len(d) : c[i + 1] = d[i]
<1> DEFINE c == <<h>> \o d
<1>1. /\ Len(d) \in Nat /\ <<h>> \in Seq(S) /\ Len(<<h>>) = 1 /\ <<h>>[1] = h
  OBVIOUS
<1>2. /\ c \in Seq(S) /\ Len(c) = 1 + Len(d)
      /\ \A i \in 1 .. 1 + Len(d) : c[i] = IF i <= 1 THEN <<h>>[i] ELSE d[i - 1]
  BY <1>1, ConcatProperties
<1> HIDE DEF c
<1>3. 1 \in 1 .. 1 + Len(d) /\ Len(c) = Len(d) + 1
  BY <1>1, <1>2
<1>4. \A i \in 1 .. Len(d) : i + 1 \in 1 .. 1 + Len(d) /\ ~(i + 1 <= 1) /\ (i + 1) - 1 = i
  BY <1>1
<1>5. c[1] = h /\ \A i \in 1 .. Len(d) : c[i + 1] = d[i]
  BY <1>1, <1>2, <1>3, <1>4
<1> QED
  BY <1>2, <1>3, <1>5 DEF c

LEMMA SplitProperties ==
  ASSUME NEW S, NEW c \in Seq(S), NEW k \in 0 .. Len(c)
  PROVE  LET a == SubSeq(c, 1, k)
             b == SubSeq(c, k + 1, Len(c))
         IN  /\ a \in Seq(S) /\ Len(a) = k /\ \A i \in 1 .. k : a[i] = c[i]
             /\ b \in Seq(S) /\ Len(b) = Len(c) - k
             /\ \A i \in 1 .. Len(c) - k : b[i] = c[k + i]
<1> DEFINE N == Len(c)
           a == SubSeq(c, 1, k)
           b == SubSeq(c, k + 1, N)
<1>1. N \in Nat /\ k \in Nat /\ k <= N /\ \A i \in 1 .. N : c[i] \in S
  OBVIOUS
<1>2. a \in Seq(S) /\ Len(a) = k /\ \A i \in 1 .. k : a[i] = c[i]
  <2>1. \A i \in 1 .. k : c[i] \in S
    BY <1>1
  <2>2. /\ a \in Seq(S) /\ Len(a) = IF 1 <= k THEN k - 1 + 1 ELSE 0
        /\ \A i \in 1 .. k - 1 + 1 : a[i] = c[1 + i - 1]
    BY <1>1, <2>1, SubSeqProperties
  <2> HIDE DEF a, N
  <2>3. Len(a) = k
    BY <1>1, <2>2
  <2>4. ASSUME NEW i \in 1 .. k PROVE a[i] = c[i]
    <3>1. i \in 1 .. k - 1 + 1 /\ 1 + i - 1 = i
      BY <1>1
    <3>2. a[i] = c[1 + i - 1]
      BY <2>2, <3>1
    <3> QED
      BY <3>1, <3>2
  <2> QED
    BY <2>2, <2>3, <2>4
<1>3. b \in Seq(S) /\ Len(b) = N - k /\ \A i \in 1 .. N - k : b[i] = c[k + i]
  <2>1. \A i \in k + 1 .. N : c[i] \in S
    BY <1>1
  <2>2. /\ b \in Seq(S) /\ Len(b) = IF k + 1 <= N THEN N - (k + 1) + 1 ELSE 0
        /\ \A i \in 1 .. N - (k + 1) + 1 : b[i] = c[(k + 1) + i - 1]
    BY <1>1, <2>1, SubSeqProperties
  <2> HIDE DEF b, N
  <2>3. Len(b) = N - k
    <3>1. CASE k + 1 <= N
      BY <1>1, <2>2, <3>1
    <3>2. CASE k = N
      BY <1>1, <2>2, <3>2
    <3> QED
      BY <1>1, <3>1, <3>2
  <2>4. ASSUME NEW i \in 1 .. N - k PROVE b[i] = c[k + i]
    <3>1. i \in 1 .. N - (k + 1) + 1 /\ (k + 1) + i - 1 = k + i
      BY <1>1
    <3>2. b[i] = c[(k + 1) + i - 1]
      BY <2>2, <3>1
    <3> QED
      BY <3>1, <3>2
  <2> QED
    BY <2>2, <2>3, <2>4
<1> HIDE DEF a, b
<1> QED
  BY <1>2, <1>3 DEF a, b

LEMMA RemoveAtProperties ==
  ASSUME NEW S, NEW c \in Seq(S), NEW i \in 1 .. Len(c)
  PROVE  /\ RemoveAt(c, i) \in Seq(S) /\ Len(RemoveAt(c, i)) = Len(c) - 1
         /\ \A k \in 1 .. i - 1 : RemoveAt(c, i)[k] = c[k]
         /\ \A k \in i .. Len(c) - 1 : RemoveAt(c, i)[k] = c[k + 1]
<1> DEFINE N == Len(c)
           a == SubSeq(c, 1, i - 1)
           b == SubSeq(c, i + 1, N)
<1>1. N \in Nat /\ i \in Nat /\ 1 <= i /\ i <= N /\ i - 1 \in 0 .. N /\ i \in 0 .. N
  OBVIOUS
<1>2. a \in Seq(S) /\ Len(a) = i - 1 /\ \A k \in 1 .. i - 1 : a[k] = c[k]
  BY <1>1, SplitProperties
<1>3. b \in Seq(S) /\ Len(b) = N - i /\ \A k \in 1 .. N - i : b[k] = c[i + k]
  BY <1>1, SplitProperties
<1>4. RemoveAt(c, i) = a \o b
  BY DEF RemoveAt
<1> HIDE DEF a, b, N
<1>5. /\ a \o b \in Seq(S) /\ Len(a \o b) = Len(a) + Len(b)
      /\ \A k \in 1 .. Len(a) + Len(b) : (a \o b)[k] = IF k <= Len(a) THEN a[k] ELSE b[k - Len(a)]
  BY <1>2, <1>3, ConcatProperties
<1>6. Len(a \o b) = N - 1
  BY <1>1, <1>2, <1>3, <1>5
<1>7. ASSUME NEW k \in 1 .. i - 1 PROVE (a \o b)[k] = c[k]
  <2>1. k \in 1 .. Len(a) + Len(b) /\ k <= Len(a)
    BY <1>1, <1>2, <1>3
  <2> QED
    BY <1>2, <1>5, <2>1
<1>8. ASSUME NEW k \in i .. N - 1 PROVE (a \o b)[k] = c[k + 1]
  <2>1. /\ k \in 1 .. Len(a) + Len(b) /\ ~(k <= Len(a)) /\ k - Len(a) = k - i + 1
        /\ k - i + 1 \in 1 .. N - i /\ i + (k - i + 1) = k + 1
    BY <1>1, <1>2, <1>3
  <2>2. (a \o b)[k] = b[k - i + 1]
    BY <1>5, <2>1
  <2> QED
    BY <1>3, <2>1, <2>2
<1> QED
  BY <1>4, <1>5, <1>6, <1>7, <1>8 DEF N
=============================================================================
