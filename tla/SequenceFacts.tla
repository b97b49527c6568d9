--------------------------- MODULE SequenceFacts ----------------------------
(***************************************************************************)
(* What the proofs need to know of sequences: the operators the code's     *)
(* Vecs and queues are modelled with, and Total.                           *)
(*                                                                         *)
(* Facts about Total go by induction on the length.  The induction comes   *)
(* from the library's least element of a set of natural numbers, since its *)
(* theorems about operators cannot be instantiated by the provers.         *)
(***************************************************************************)
EXTENDS Totals, SequencesExt, SequenceTheorems, WellFoundedInduction, TLAPS

\* A prefix of a sequence, for the next lemma.
LEMMA PrefixProperties ==
    ASSUME NEW S, NEW s \in Seq(S), NEW m \in Nat, m <= Len(s)
    PROVE  /\ SubSeq(s, 1, m) \in Seq(S)
           /\ Len(SubSeq(s, 1, m)) = m
           /\ \A i \in 1..m : SubSeq(s, 1, m)[i] = s[i]
  <1>1. \A i \in 1..m : s[i] \in S
    BY ElementOfSeq
  <1>2. SubSeq(s, 1, m) \in Seq(S) /\ Len(SubSeq(s, 1, m)) = m
    BY <1>1
  <1>3. \A i \in 1..m : SubSeq(s, 1, m)[i] = s[i]
    OBVIOUS
  <1>. QED  BY <1>2, <1>3

\* Popping a Vec: Front keeps everything but the last element.
LEMMA FrontProperties ==
    ASSUME NEW S, NEW s \in Seq(S), s # <<>>
    PROVE  /\ Front(s) \in Seq(S)
           /\ Len(Front(s)) = Len(s) - 1
           /\ \A i \in 1..(Len(s) - 1) : Front(s)[i] = s[i]
           /\ Last(s) \in S
  <1>. DEFINE m == Len(s) - 1
  <1>1. Len(s) \in Nat /\ Len(s) >= 1
    BY EmptySeq, LenProperties
  <1>2. m \in Nat /\ m <= Len(s)
    BY <1>1
  <1>3. Last(s) \in S
    BY <1>1, ElementOfSeq DEF Last
  <1>4. Front(s) = SubSeq(s, 1, m)
    BY DEF Front
  <1>. HIDE DEF m
  <1>5. /\ SubSeq(s, 1, m) \in Seq(S)
        /\ Len(SubSeq(s, 1, m)) = m
        /\ \A i \in 1..m : SubSeq(s, 1, m)[i] = s[i]
    BY <1>2, PrefixProperties
  <1>. QED  BY <1>3, <1>4, <1>5 DEF m

\* A function on 1..n is a sequence.
LEMMA FunctionIsSeq ==
    ASSUME NEW S, NEW n \in Nat, NEW s \in [1..n -> S]
    PROVE  s \in Seq(S) /\ Len(s) = n
  <1>1. s \in Seq(S)
    BY SeqDef
  <1>. QED  BY <1>1, LenProperties

\* Overwriting one element of a sequence keeps its length and its type, also
\* when the index is out of range.
LEMMA ExceptProperties ==
    ASSUME NEW S, NEW s \in Seq(S), NEW k, NEW e \in S
    PROVE  /\ [s EXCEPT ![k] = e] \in Seq(S)
           /\ Len([s EXCEPT ![k] = e]) = Len(s)
  <1>1. CASE k \in 1..Len(s)
    BY <1>1, ExceptSeq
  <1>2. CASE k \notin 1..Len(s)
    <2>1. s = [i \in 1..Len(s) |-> s[i]]
      BY LenProperties, IsASeq
    <2>2. [s EXCEPT ![k] = e] = s
      BY <1>2, <2>1, LenProperties
    <2>. QED  BY <2>2
  <1>. QED  BY <1>1, <1>2

\* Sequences that agree everywhere are one sequence.
LEMMA SameSequence ==
    ASSUME NEW S, NEW s \in Seq(S), NEW t \in Seq(S), Len(s) = Len(t),
           \A i \in 1..Len(s) : s[i] = t[i]
    PROVE  s = t
BY SeqEqual

-----------------------------------------------------------------------------
(* Induction, and the equations of the partial sums.                       *)

\* Induction over the natural numbers, for a set.
LEMMA SetInduction ==
    ASSUME NEW P, 0 \in P, \A n \in Nat : n \in P => n + 1 \in P
    PROVE  \A n \in Nat : n \in P
<1> SUFFICES ASSUME NEW k \in Nat, k \notin P PROVE FALSE
  OBVIOUS
<1> DEFINE R == {ss \in Nat \X Nat : ss[1] < ss[2]}
<1> DEFINE T == Nat \ P
<1>1. IsWellFoundedOn(R, Nat)
  BY NatLessThanWellFounded DEF OpToRel
<1>2. T \subseteq Nat /\ T # {}
  OBVIOUS
<1>3. \A x, y \in Nat : <<y, x>> \in R <=> y < x
  OBVIOUS
<1> HIDE DEF R, T
<1>4. PICK x \in T : \A y \in T : ~ (<<y, x>> \in R)
  BY <1>1, <1>2, WFMin
<1>5. x \in Nat /\ x \notin P
  BY <1>4 DEF T
<1>6. x - 1 \in Nat /\ x - 1 < x
  BY <1>5
<1>7. x - 1 \in P
  BY <1>3, <1>4, <1>5, <1>6 DEF T
<1> QED BY <1>5, <1>6, <1>7

\* The equations of the partial sums.
SumsUpTo(p, s, n) ==
    /\ p \in [0..n -> Int]
    /\ p[0] = 0
    /\ \A i \in 1..n : p[i] = p[i - 1] + s[i]

LEMMA SumsExist ==
    ASSUME NEW s \in Seq(Int)
    PROVE  \E p : SumsUpTo(p, s, Len(s))
<1> DEFINE P == {n \in Nat : n <= Len(s) => \E p : SumsUpTo(p, s, n)}
<1>1. 0 \in P
  <2>1. SumsUpTo([i \in 0..0 |-> 0], s, 0)
    BY DEF SumsUpTo
  <2> QED BY <2>1
<1>2. ASSUME NEW n \in Nat, n \in P PROVE n + 1 \in P
  <2> SUFFICES ASSUME n + 1 <= Len(s) PROVE \E p : SumsUpTo(p, s, n + 1)
    OBVIOUS
  <2>1. PICK p : SumsUpTo(p, s, n)
    BY <1>2, LenProperties
  <2> DEFINE q == [i \in 0..(n + 1) |-> IF i = n + 1 THEN p[n] + s[n + 1] ELSE p[i]]
  <2>2. s[n + 1] \in Int
    BY ElementOfSeq
  <2>3. SumsUpTo(q, s, n + 1)
    <3>1. q \in [0..(n + 1) -> Int]
      BY <2>1, <2>2 DEF SumsUpTo
    <3>2. q[0] = 0
      BY <2>1 DEF SumsUpTo
    <3>3. \A i \in 1..(n + 1) : q[i] = q[i - 1] + s[i]
      BY <2>1 DEF SumsUpTo
    <3> QED BY <3>1, <3>2, <3>3 DEF SumsUpTo
  <2> QED BY <2>3
<1> HIDE DEF P
<1>3. Len(s) \in P
  BY <1>1, <1>2, SetInduction, LenProperties
<1> QED BY <1>3, LenProperties DEF P

\* The recursive function of PartialSums is one that satisfies its equations.
LEMMA SumsDefined ==
    ASSUME NEW s \in Seq(Int)
    PROVE  SumsUpTo(PartialSums(s), s, Len(s))
<1> DEFINE n == Len(s)
<1> DEFINE F(g) == [i \in 0..n |-> IF i = 0 THEN 0 ELSE g[i - 1] + s[i]]
<1>1. n \in Nat
  BY LenProperties
<1>2. PICK p : SumsUpTo(p, s, n)
  BY SumsExist
<1>3. p = F(p)
  <2>1. \A i \in 0..n : p[i] = F(p)[i]
    BY <1>1, <1>2 DEF SumsUpTo
  <2> QED BY <1>2, <2>1 DEF SumsUpTo
<1>4. PartialSums(s) = F(PartialSums(s))
  BY <1>3 DEF PartialSums
<1> DEFINE q == PartialSums(s)
<1> HIDE DEF q
<1>5. q = F(q)
  BY <1>4 DEF q
<1>6. q[0] = 0 /\ \A i \in 1..n : q[i] = q[i - 1] + s[i]
  BY <1>1, <1>5
<1>7. \A i \in Nat : i \in {m \in Nat : m <= n => q[m] \in Int}
  <2> DEFINE P == {m \in Nat : m <= n => q[m] \in Int}
  <2>1. 0 \in P
    BY <1>6
  <2>2. ASSUME NEW m \in Nat, m \in P PROVE m + 1 \in P
    <3>1. CASE m + 1 <= n
      <4>1. s[m + 1] \in Int
        BY <1>1, <3>1, ElementOfSeq
      <4>2. q[m + 1] = q[m] + s[m + 1]
        <5>1. m + 1 \in 1..n /\ m + 1 - 1 = m
          BY <1>1, <3>1
        <5> QED BY <1>6, <5>1
      <4> QED BY <1>1, <2>2, <3>1, <4>1, <4>2
    <3>2. CASE ~(m + 1 <= n)
      BY <3>2
    <3> QED BY <3>1, <3>2
  <2> HIDE DEF P
  <2>3. \A i \in Nat : i \in P
    BY <2>1, <2>2, SetInduction
  <2> QED BY <2>3 DEF P
<1>8. q \in [0..n -> Int]
  <2>1. \A i \in 0..n : q[i] \in Int
    BY <1>1, <1>7
  <2> QED BY <1>5, <2>1
<1> QED BY <1>6, <1>8 DEF SumsUpTo, q

-----------------------------------------------------------------------------
(* The laws of Total.                                                      *)

LEMMA TotalEmpty == Total(<<>>) = 0
<1>1. SumsUpTo(PartialSums(<<>>), <<>>, Len(<<>>))
  BY EmptySeq, SumsDefined
<1> QED BY <1>1, EmptySeq DEF SumsUpTo, Total

LEMMA TotalIsInt ==
    ASSUME NEW s \in Seq(Int)
    PROVE  Total(s) \in Int
BY SumsDefined, LenProperties DEF SumsUpTo, Total

\* Sequences that differ in one place have totals that differ by the
\* difference there; in no place, the same total.
LEMMA TotalUpdate ==
    ASSUME NEW s \in Seq(Int), NEW t \in Seq(Int), Len(s) = Len(t),
           NEW k \in 1..Len(s), \A i \in 1..Len(s) : i # k => t[i] = s[i]
    PROVE  Total(t) = Total(s) - s[k] + t[k]
<1> DEFINE n == Len(s)
<1> DEFINE p == PartialSums(s)
<1> DEFINE q == PartialSums(t)
<1>1. n \in Nat /\ s[k] \in Int /\ t[k] \in Int
  BY LenProperties, ElementOfSeq
<1>2. SumsUpTo(p, s, n) /\ SumsUpTo(q, t, n)
  BY SumsDefined
<1> HIDE DEF p, q
<1> DEFINE P == {m \in Nat : m <= n => q[m] = p[m] + (IF m < k THEN 0 ELSE t[k] - s[k])}
<1>3. 0 \in P
  BY <1>2 DEF SumsUpTo
<1>4. ASSUME NEW m \in Nat, m \in P PROVE m + 1 \in P
  <2>1. SUFFICES ASSUME m + 1 <= n
                 PROVE  q[m + 1] = p[m + 1] + (IF m + 1 < k THEN 0 ELSE t[k] - s[k])
    OBVIOUS
  <2>2. m + 1 \in 1..n /\ m + 1 - 1 = m /\ m \in 0..n
    BY <1>1, <2>1
  <2>3. q[m + 1] = q[m] + t[m + 1] /\ p[m + 1] = p[m] + s[m + 1]
    BY <1>2, <2>2 DEF SumsUpTo
  <2>4. q[m] \in Int /\ p[m] \in Int /\ t[m + 1] \in Int /\ s[m + 1] \in Int
    BY <1>2, <2>2, ElementOfSeq DEF SumsUpTo
  <2>5. q[m] = p[m] + (IF m < k THEN 0 ELSE t[k] - s[k])
    BY <1>4, <1>1, <2>2
  <2>6. CASE m + 1 = k
    BY <1>1, <2>3, <2>4, <2>5, <2>6, SMTT(30)
  <2>7. CASE m + 1 # k
    <3>1. t[m + 1] = s[m + 1]
      BY <2>2, <2>7
    <3>2. m + 1 < k <=> m < k
      BY <1>1, <2>7
    <3>3. PICK d \in Int : d = t[k] - s[k]
      BY <1>1
    <3>4. q[m] = p[m] + (IF m < k THEN 0 ELSE d)
      BY <2>5, <3>3
    <3>5. q[m + 1] = p[m + 1] + (IF m < k THEN 0 ELSE d)
      BY <2>3, <2>4, <3>1, <3>4, SMTT(30)
    <3> QED BY <3>2, <3>3, <3>5
  <2> QED BY <2>6, <2>7
<1> HIDE DEF P
<1>5. n \in P
  BY <1>1, <1>3, <1>4, SetInduction
<1>6. q[n] = p[n] + (t[k] - s[k])
  BY <1>1, <1>5 DEF P
<1>7. p[n] \in Int
  BY <1>1, <1>2, SMTT(30) DEF SumsUpTo
<1> QED BY <1>1, <1>6, <1>7 DEF Total, p, q

LEMMA TotalAppend ==
    ASSUME NEW s \in Seq(Int), NEW e \in Int
    PROVE  Total(Append(s, e)) = Total(s) + e
<1> DEFINE n == Len(s)
<1> DEFINE t == Append(s, e)
<1> DEFINE p == PartialSums(s)
<1> DEFINE q == PartialSums(t)
<1>1. n \in Nat /\ t \in Seq(Int) /\ Len(t) = n + 1
  BY LenProperties, AppendProperties
<1>2. t[n + 1] = e /\ \A i \in 1..n : t[i] = s[i]
  BY AppendProperties
<1>3. SumsUpTo(p, s, n) /\ SumsUpTo(q, t, n + 1)
  BY <1>1, SumsDefined
<1> HIDE DEF p, q, t
<1> DEFINE P == {m \in Nat : m <= n => q[m] = p[m]}
<1>4. 0 \in P
  BY <1>3 DEF SumsUpTo
<1>5. ASSUME NEW m \in Nat, m \in P PROVE m + 1 \in P
  <2>1. SUFFICES ASSUME m + 1 <= n PROVE q[m + 1] = p[m + 1]
    OBVIOUS
  <2>2. m + 1 \in 1..n /\ m + 1 \in 1..(n + 1) /\ m + 1 - 1 = m
    BY <1>1, <2>1
  <2>3. q[m + 1] = q[m] + t[m + 1] /\ p[m + 1] = p[m] + s[m + 1]
    BY <1>3, <2>2 DEF SumsUpTo
  <2> QED BY <1>1, <1>2, <1>5, <2>1, <2>2, <2>3
<1> HIDE DEF P
<1>6. q[n] = p[n]
  <2>1. n \in P
    BY <1>1, <1>4, <1>5, SetInduction
  <2> QED BY <1>1, <2>1 DEF P
<1>7. q[n + 1] = q[n] + t[n + 1]
  <2>1. n + 1 \in 1..(n + 1) /\ (n + 1) - 1 = n
    BY <1>1
  <2>2. q[n + 1] = q[(n + 1) - 1] + t[n + 1]
    BY <1>3, <2>1, Zenon DEF SumsUpTo
  <2> QED BY <2>1, <2>2
<1>8. q[n + 1] = p[n] + e
  BY <1>2, <1>6, <1>7
<1>9. Total(t) = q[n + 1] /\ Total(s) = p[n]
  BY <1>1 DEF Total, p, q
<1> QED BY <1>8, <1>9 DEF t

\* The total of zeroes.
LEMMA TotalZero ==
    ASSUME NEW s \in Seq(Int), \A i \in 1..Len(s) : s[i] = 0
    PROVE  Total(s) = 0
<1> DEFINE n == Len(s)
<1> DEFINE p == PartialSums(s)
<1>1. n \in Nat /\ SumsUpTo(p, s, n)
  BY SumsDefined, LenProperties
<1> HIDE DEF p
<1> DEFINE P == {m \in Nat : m <= n => p[m] = 0}
<1>2. 0 \in P
  BY <1>1 DEF SumsUpTo
<1>3. ASSUME NEW m \in Nat, m \in P PROVE m + 1 \in P
  <2>1. CASE m + 1 <= n
    <3>1. m + 1 \in 1..n /\ m + 1 - 1 = m
      BY <1>1, <2>1
    <3>2. p[m + 1] = p[m] + s[m + 1]
      BY <1>1, <3>1 DEF SumsUpTo
    <3> QED BY <1>1, <1>3, <2>1, <3>1, <3>2
  <2>2. CASE ~(m + 1 <= n)
    BY <2>2
  <2> QED BY <2>1, <2>2
<1> HIDE DEF P
<1>4. n \in P
  BY <1>1, <1>2, <1>3, SetInduction
<1>5. p[n] = 0
  BY <1>1, <1>4 DEF P
<1> QED BY <1>5 DEF Total, p

\* The larger sequence has the larger total.
LEMMA TotalMonotone ==
    ASSUME NEW s \in Seq(Int), NEW t \in Seq(Int), Len(s) = Len(t),
           \A i \in 1..Len(s) : s[i] <= t[i]
    PROVE  Total(s) <= Total(t)
<1> DEFINE n == Len(s)
<1> DEFINE p == PartialSums(s)
<1> DEFINE q == PartialSums(t)
<1>1. n \in Nat
  BY LenProperties
<1>2. SumsUpTo(p, s, n) /\ SumsUpTo(q, t, n)
  BY SumsDefined
<1> HIDE DEF p, q
<1> DEFINE P == {m \in Nat : m <= n => p[m] <= q[m]}
<1>3. 0 \in P
  BY <1>2 DEF SumsUpTo
<1>4. ASSUME NEW m \in Nat, m \in P PROVE m + 1 \in P
  <2>1. SUFFICES ASSUME m + 1 <= n PROVE p[m + 1] <= q[m + 1]
    OBVIOUS
  <2>2. m + 1 \in 1..n /\ m + 1 - 1 = m /\ m \in 0..n
    BY <1>1, <2>1
  <2>3. q[m + 1] = q[m] + t[m + 1] /\ p[m + 1] = p[m] + s[m + 1]
    BY <1>2, <2>2 DEF SumsUpTo
  <2>4. q[m] \in Int /\ p[m] \in Int /\ t[m + 1] \in Int /\ s[m + 1] \in Int
    BY <1>2, <2>2, ElementOfSeq DEF SumsUpTo
  <2>5. p[m] <= q[m] /\ s[m + 1] <= t[m + 1]
    BY <1>4, <1>1, <2>2
  <2> QED BY <2>3, <2>4, <2>5
<1> HIDE DEF P
<1>5. p[n] <= q[n]
  <2>1. n \in P
    BY <1>1, <1>3, <1>4, SetInduction
  <2> QED BY <1>1, <2>1 DEF P
<1> QED BY <1>5 DEF Total, p, q

\* The total of the sums is the sum of the totals.
LEMMA TotalPlus ==
    ASSUME NEW s \in Seq(Int), NEW t \in Seq(Int), NEW u \in Seq(Int),
           Len(s) = Len(t), Len(u) = Len(t),
           \A i \in 1..Len(t) : u[i] = s[i] + t[i]
    PROVE  Total(u) = Total(s) + Total(t)
<1> DEFINE n == Len(t)
<1> DEFINE p == PartialSums(s)
<1> DEFINE q == PartialSums(t)
<1> DEFINE v == PartialSums(u)
<1>1. n \in Nat
  BY LenProperties
<1>2. SumsUpTo(p, s, n) /\ SumsUpTo(q, t, n) /\ SumsUpTo(v, u, n)
  BY SumsDefined
<1> HIDE DEF p, q, v
<1> DEFINE P == {m \in Nat : m <= n => v[m] = p[m] + q[m]}
<1>3. 0 \in P
  BY <1>2 DEF SumsUpTo
<1>4. ASSUME NEW m \in Nat, m \in P PROVE m + 1 \in P
  <2>1. SUFFICES ASSUME m + 1 <= n PROVE v[m + 1] = p[m + 1] + q[m + 1]
    OBVIOUS
  <2>2. m + 1 \in 1..n /\ m + 1 - 1 = m /\ m \in 0..n
    BY <1>1, <2>1
  <2>3. /\ q[m + 1] = q[m] + t[m + 1] /\ p[m + 1] = p[m] + s[m + 1]
        /\ v[m + 1] = v[m] + u[m + 1]
    BY <1>2, <2>2 DEF SumsUpTo
  <2>4. q[m] \in Int /\ p[m] \in Int /\ t[m + 1] \in Int /\ s[m + 1] \in Int
    BY <1>2, <2>2, ElementOfSeq DEF SumsUpTo
  <2>5. v[m] = p[m] + q[m] /\ u[m + 1] = s[m + 1] + t[m + 1]
    BY <1>4, <1>1, <2>2
  <2> HIDE DEF P, n
  <2>6. v[m + 1] = (p[m] + q[m]) + (s[m + 1] + t[m + 1])
    BY <2>3, <2>5
  <2>7. p[m + 1] + q[m + 1] = (p[m] + s[m + 1]) + (q[m] + t[m + 1])
    BY <2>3
  <2>8. \A i, j, k, l \in Int : (i + j) + (k + l) = (i + k) + (j + l)
    OBVIOUS
  <2>9. (p[m] + q[m]) + (s[m + 1] + t[m + 1]) = (p[m] + s[m + 1]) + (q[m] + t[m + 1])
    BY <2>4, <2>8
  <2> QED BY <2>6, <2>7, <2>9, Zenon
<1> HIDE DEF P
<1>5. v[n] = p[n] + q[n]
  <2>1. n \in P
    BY <1>1, <1>3, <1>4, SetInduction
  <2> QED BY <1>1, <2>1 DEF P
<1> QED BY <1>5 DEF Total, p, q, v

\* A total of natural numbers is one, and not below any of them.
LEMMA TotalIsNat ==
    ASSUME NEW s \in Seq(Nat)
    PROVE  /\ Total(s) \in Nat
           /\ \A k \in 1..Len(s) : s[k] <= Total(s)
<1> DEFINE n == Len(s)
<1>1. n \in Nat /\ \A i \in 1..n : s[i] \in Nat
  BY LenProperties, ElementOfSeq
<1>2. s \in Seq(Int)
  BY <1>1, IsASeq, LenProperties
<1> DEFINE z == [i \in 1..n |-> 0]
<1>3. z \in Seq(Int) /\ Len(z) = n /\ \A i \in 1..n : z[i] = 0
  <2>1. z \in [1..n -> Int]
    OBVIOUS
  <2> QED BY <1>1, <2>1, SeqDef, LenProperties
<1>4. Total(z) = 0
  BY <1>3, TotalZero
<1> HIDE DEF z
<1>5. Total(s) \in Int /\ 0 <= Total(s)
  <2>1. \A i \in 1..Len(z) : z[i] <= s[i]
    BY <1>1, <1>3
  <2>2. Total(z) <= Total(s)
    BY <1>2, <1>3, <2>1, TotalMonotone
  <2> QED BY <1>2, <1>4, <2>2, TotalIsInt
<1>6. ASSUME NEW k \in 1..n PROVE s[k] <= Total(s)
  <2> DEFINE t == [i \in 1..n |-> IF i = k THEN 0 ELSE s[i]]
  <2>1. t \in Seq(Int) /\ Len(t) = n /\ \A i \in 1..n : t[i] = IF i = k THEN 0 ELSE s[i]
    <3>1. t \in [1..n -> Int]
      BY <1>1
    <3> QED BY <1>1, <3>1, SeqDef, LenProperties
  <2> HIDE DEF t
  <2>2. Total(t) = Total(s) - s[k] + 0
    <3>1. \A i \in 1..n : i # k => t[i] = s[i]
      BY <2>1
    <3>2. t[k] = 0
      BY <2>1
    <3> QED BY <1>2, <2>1, <3>1, <3>2, TotalUpdate
  <2>3. 0 <= Total(t) /\ Total(t) \in Int
    <3>1. \A i \in 1..Len(z) : z[i] <= t[i]
      <4>1. SUFFICES ASSUME NEW i \in 1..n PROVE z[i] <= t[i]
        BY <1>3
      <4>2. z[i] = 0 /\ s[i] \in Nat /\ t[i] = IF i = k THEN 0 ELSE s[i]
        BY <1>1, <1>3, <2>1
      <4> QED BY <4>2
    <3>2. Total(z) <= Total(t)
      BY <1>3, <2>1, <3>1, TotalMonotone
    <3> QED BY <1>4, <2>1, <3>2, TotalIsInt
  <2> QED BY <1>1, <1>5, <2>2, <2>3
<1> QED BY <1>5, <1>6

-----------------------------------------------------------------------------
(* TotalIn: the ledgers add up what is said of the batches of a set.       *)

\* The summands.
PartOf(w, A) == [i \in 1..Len(w) |-> IF i \in A THEN w[i] ELSE 0]

LEMMA PartIs ==
    ASSUME NEW w \in Seq(Nat), NEW A
    PROVE  /\ PartOf(w, A) \in Seq(Nat) /\ PartOf(w, A) \in Seq(Int)
           /\ Len(PartOf(w, A)) = Len(w) /\ Len(w) \in Nat
           /\ \A i \in 1..Len(w) : w[i] \in Nat /\ PartOf(w, A)[i] = IF i \in A THEN w[i] ELSE 0
           /\ TotalIn(w, A) = Total(PartOf(w, A))
<1>1. Len(w) \in Nat /\ DOMAIN w = 1..Len(w) /\ \A i \in 1..Len(w) : w[i] \in Nat
  BY LenProperties, ElementOfSeq
<1>2. PartOf(w, A) \in [1..Len(w) -> Nat] /\ PartOf(w, A) \in [1..Len(w) -> Int]
  BY <1>1 DEF PartOf
<1>3. /\ PartOf(w, A) \in Seq(Nat) /\ PartOf(w, A) \in Seq(Int)
      /\ Len(PartOf(w, A)) = Len(w)
  BY <1>1, <1>2, FunctionIsSeq
<1>4. TotalIn(w, A) = Total(PartOf(w, A))
  BY <1>1 DEF TotalIn, PartOf
<1> QED BY <1>1, <1>3, <1>4 DEF PartOf

LEMMA TotalInIsNat ==
    ASSUME NEW w \in Seq(Nat), NEW A
    PROVE  TotalIn(w, A) \in Nat
BY PartIs, TotalIsNat

\* Only the indices of the sequence count.
LEMMA TotalInSame ==
    ASSUME NEW w \in Seq(Nat), NEW A, NEW B, \A i \in 1..Len(w) : i \in A <=> i \in B
    PROVE  TotalIn(w, A) = TotalIn(w, B)
<1>1. \A i \in 1..Len(w) : PartOf(w, A)[i] = PartOf(w, B)[i]
  BY PartIs, SMTT(30)
<1>2. PartOf(w, A) = PartOf(w, B)
  BY <1>1, PartIs, SameSequence
<1> QED BY <1>2, PartIs

\* One index more.
LEMMA TotalInGain ==
    ASSUME NEW w \in Seq(Nat), NEW A, NEW B, NEW k \in 1..Len(w), k \notin A, k \in B,
           \A i \in 1..Len(w) : i # k => (i \in A <=> i \in B)
    PROVE  TotalIn(w, B) = TotalIn(w, A) + w[k]
<1>1. \A i \in 1..Len(w) : i # k => PartOf(w, B)[i] = PartOf(w, A)[i]
  <2>1. \A i \in 1..Len(w) : PartOf(w, A)[i] = IF i \in A THEN w[i] ELSE 0
    BY PartIs
  <2>2. \A i \in 1..Len(w) : PartOf(w, B)[i] = IF i \in B THEN w[i] ELSE 0
    BY PartIs
  <2> QED BY <2>1, <2>2, Zenon
<1>2. PartOf(w, A)[k] = 0 /\ PartOf(w, B)[k] = w[k] /\ w[k] \in Nat
  BY PartIs
<1>3. Total(PartOf(w, B)) = Total(PartOf(w, A)) - 0 + w[k]
  BY <1>1, <1>2, PartIs, TotalUpdate
<1> QED BY <1>2, <1>3, PartIs, TotalInIsNat

\* One weight more.
LEMMA TotalInAppend ==
    ASSUME NEW w \in Seq(Nat), NEW e \in Nat, NEW A, NEW B,
           \A i \in 1..Len(w) : i \in A <=> i \in B
    PROVE  TotalIn(Append(w, e), B) = TotalIn(w, A) + (IF Len(w) + 1 \in B THEN e ELSE 0)
<1> DEFINE m == Len(w) + 1
<1> DEFINE g == Append(w, e)
<1> DEFINE d == IF m \in B THEN e ELSE 0
<1>1. /\ g \in Seq(Nat) /\ Len(g) = m /\ g[m] = e /\ \A i \in 1..Len(w) : g[i] = w[i]
      /\ Len(w) \in Nat
  BY AppendProperties, LenProperties
<1>2. d \in Int
  OBVIOUS
<1> DEFINE v == Append(PartOf(w, A), d)
<1> HIDE DEF d
<1>3. /\ v \in Seq(Int) /\ Len(v) = m /\ v[m] = d
      /\ \A i \in 1..Len(w) : v[i] = PartOf(w, A)[i]
  BY <1>2, PartIs, AppendProperties
<1>4. Total(v) = TotalIn(w, A) + d
  BY <1>2, PartIs, TotalAppend
<1> HIDE DEF g, v
<1>5. \A i \in 1..m : PartOf(g, B)[i] = v[i]
  <2> TAKE i \in 1..m
  <2>1. PartOf(g, B)[i] = IF i \in B THEN g[i] ELSE 0
    BY <1>1, PartIs
  <2>2. CASE i = m
    BY <1>1, <1>3, <2>1, <2>2 DEF d
  <2>3. CASE i \in 1..Len(w)
    <3>1. PartOf(w, A)[i] = IF i \in A THEN w[i] ELSE 0
      BY <2>3, PartIs
    <3> QED BY <1>1, <1>3, <2>1, <2>3, <3>1
  <2> QED BY <1>1, <2>2, <2>3
<1>6. PartOf(g, B) = v
  <2>1. PartOf(g, B) \in Seq(Int) /\ Len(PartOf(g, B)) = m
    BY <1>1, PartIs
  <2> QED BY <1>3, <1>5, <2>1, SameSequence
<1>7. TotalIn(g, B) = Total(v)
  BY <1>1, <1>6, PartIs
<1> QED BY <1>4, <1>7 DEF g, d

\* No index, no weight.
LEMMA TotalInNone ==
    ASSUME NEW w \in Seq(Nat), NEW A, \A i \in 1..Len(w) : i \notin A
    PROVE  TotalIn(w, A) = 0
<1>1. PartOf(w, A) \in Seq(Int) /\ \A i \in 1..Len(PartOf(w, A)) : PartOf(w, A)[i] = 0
  BY PartIs
<1>2. Total(PartOf(w, A)) = 0
  BY <1>1, TotalZero
<1> QED BY <1>2, PartIs

\* More indices, no less weight.
LEMMA TotalInMonotone ==
    ASSUME NEW w \in Seq(Nat), NEW A, NEW B, A \subseteq B
    PROVE  TotalIn(w, A) <= TotalIn(w, B)
<1>1. \A i \in 1..Len(w) : PartOf(w, A)[i] <= PartOf(w, B)[i]
  <2> TAKE i \in 1..Len(w)
  <2>1. /\ w[i] \in Nat
        /\ PartOf(w, A)[i] = IF i \in A THEN w[i] ELSE 0
        /\ PartOf(w, B)[i] = IF i \in B THEN w[i] ELSE 0
    BY PartIs
  <2> QED BY <2>1
<1>2. /\ PartOf(w, A) \in Seq(Int) /\ PartOf(w, B) \in Seq(Int)
      /\ Len(PartOf(w, A)) = Len(w) /\ Len(PartOf(w, B)) = Len(w)
  BY PartIs
<1>3. Total(PartOf(w, A)) <= Total(PartOf(w, B))
  BY <1>1, <1>2, TotalMonotone
<1> QED BY <1>3, PartIs

\* Weights of indices that are in one of two sets.
LEMMA TotalInSplit ==
    ASSUME NEW w \in Seq(Nat), NEW A, NEW B, NEW C,
           \A i \in 1..Len(w) : /\ i \in C <=> i \in A \/ i \in B
                                /\ ~(i \in A /\ i \in B)
    PROVE  TotalIn(w, C) = TotalIn(w, A) + TotalIn(w, B)
<1>1. \A i \in 1..Len(w) : PartOf(w, C)[i] = PartOf(w, A)[i] + PartOf(w, B)[i]
  <2> TAKE i \in 1..Len(w)
  <2>1. /\ w[i] \in Nat
        /\ PartOf(w, A)[i] = IF i \in A THEN w[i] ELSE 0
        /\ PartOf(w, B)[i] = IF i \in B THEN w[i] ELSE 0
        /\ PartOf(w, C)[i] = IF i \in C THEN w[i] ELSE 0
    BY PartIs
  <2>2. CASE i \in A
    BY <2>1, <2>2
  <2>3. CASE i \notin A
    BY <2>1, <2>3
  <2> QED BY <2>2, <2>3
<1>2. /\ PartOf(w, A) \in Seq(Int) /\ PartOf(w, B) \in Seq(Int) /\ PartOf(w, C) \in Seq(Int)
      /\ Len(PartOf(w, A)) = Len(w) /\ Len(PartOf(w, B)) = Len(w) /\ Len(PartOf(w, C)) = Len(w)
  BY PartIs
<1>3. Total(PartOf(w, C)) = Total(PartOf(w, A)) + Total(PartOf(w, B))
  BY <1>1, <1>2, TotalPlus
<1> QED BY <1>3, PartIs

\* The set of all indices.
LEMMA TotalInAll ==
    ASSUME NEW w \in Seq(Nat), NEW A, \A i \in 1..Len(w) : i \in A
    PROVE  TotalIn(w, A) = Total(w)
<1>1. /\ PartOf(w, A) \in Seq(Nat) /\ Len(PartOf(w, A)) = Len(w)
      /\ \A i \in 1..Len(w) : PartOf(w, A)[i] = w[i]
  BY PartIs
<1>2. PartOf(w, A) = w
  BY <1>1, SameSequence
<1> QED BY <1>2, PartIs

\* No weight is above the total of its set.
LEMMA TotalInAbove ==
    ASSUME NEW w \in Seq(Nat), NEW A, NEW k \in 1..Len(w), k \in A
    PROVE  w[k] <= TotalIn(w, A)
<1>1. PartOf(w, A)[k] = w[k] /\ PartOf(w, A) \in Seq(Nat) /\ Len(PartOf(w, A)) = Len(w)
  BY PartIs
<1>2. PartOf(w, A)[k] <= Total(PartOf(w, A))
  BY <1>1, TotalIsNat
<1> QED BY <1>1, <1>2, PartIs

-----------------------------------------------------------------------------
(* Concatenation, and what FlattenSeq returns.                             *)

\* Concatenation, for the provers a function they know nothing of.
Concat(a, b) == a \o b

\* The function by which FlattenSeq is defined.
JoinedParts(s) ==
    LET flatten[i \in 1..Len(s)] == IF i = 1 THEN s[i] ELSE flatten[i - 1] \o s[i] IN flatten

LEMMA JoinTyped ==
    ASSUME NEW S, NEW s \in Seq(S), NEW t \in Seq(S)
    PROVE  Concat(s, t) \in Seq(S)
BY ConcatProperties DEF Concat

LEMMA FlattenIs ==
    ASSUME NEW s, Len(s) # 0
    PROVE  FlattenSeq(s) = JoinedParts(s)[Len(s)]
BY Zenon DEF FlattenSeq, JoinedParts

JoinedUpTo(p, s, n, S) ==
    /\ p \in [1..n -> Seq(S)]
    /\ n >= 1 => p[1] = s[1]
    /\ \A i \in 2..n : p[i] = Concat(p[i - 1], s[i])

LEMMA JoinedExist ==
    ASSUME NEW S, NEW s \in Seq(Seq(S))
    PROVE  \E p : JoinedUpTo(p, s, Len(s), S)
<1> DEFINE P == {n \in Nat : n <= Len(s) => \E p : JoinedUpTo(p, s, n, S)}
<1>1. 0 \in P
  <2>1. JoinedUpTo([i \in 1..0 |-> <<>>], s, 0, S)
    BY DEF JoinedUpTo
  <2> QED BY <2>1
<1>2. ASSUME NEW n \in Nat, n \in P PROVE n + 1 \in P
  <2> SUFFICES ASSUME n + 1 <= Len(s) PROVE \E p : JoinedUpTo(p, s, n + 1, S)
    OBVIOUS
  <2>1. PICK p : JoinedUpTo(p, s, n, S)
    BY <1>2, LenProperties
  <2> DEFINE q == [i \in 1..(n + 1) |->
                     IF i = n + 1 THEN IF n = 0 THEN s[1] ELSE Concat(p[n], s[n + 1]) ELSE p[i]]
  <2>2. s[n + 1] \in Seq(S) /\ s[1] \in Seq(S)
    BY ElementOfSeq, LenProperties
  <2>3. \A i \in 1..(n + 1) : q[i] \in Seq(S)
    <3> TAKE i \in 1..(n + 1)
    <3>1. CASE i = n + 1
      <4>1. CASE n = 0
        BY <2>2, <3>1, <4>1
      <4>2. CASE n # 0
        <5>1. p[n] \in Seq(S)
          BY <2>1, <4>2 DEF JoinedUpTo
        <5>2. Concat(p[n], s[n + 1]) \in Seq(S)
          BY <2>2, <5>1, JoinTyped
        <5> QED BY <3>1, <4>2, <5>2
      <4> QED BY <4>1, <4>2
    <3>2. CASE i # n + 1
      <4>1. i \in 1..n
        BY <3>2
      <4>2. p[i] \in Seq(S)
        BY <2>1, <4>1 DEF JoinedUpTo
      <4> QED BY <3>2, <4>2
    <3> QED BY <3>1, <3>2
  <2>4. q[1] = s[1]
    BY <2>1 DEF JoinedUpTo
  <2>5. \A i \in 2..(n + 1) : q[i] = Concat(q[i - 1], s[i])
    BY <2>1 DEF JoinedUpTo
  <2>6. JoinedUpTo(q, s, n + 1, S)
    BY <2>3, <2>4, <2>5 DEF JoinedUpTo
  <2> QED BY <2>6
<1> HIDE DEF P
<1>3. Len(s) \in P
  BY <1>1, <1>2, SetInduction, LenProperties
<1> QED BY <1>3, LenProperties DEF P

LEMMA JoinedDefined ==
    ASSUME NEW S, NEW s \in Seq(Seq(S))
    PROVE  JoinedUpTo(JoinedParts(s), s, Len(s), S)
<1> DEFINE n == Len(s)
<1> DEFINE F(g) == [i \in 1..n |-> IF i = 1 THEN s[i] ELSE Concat(g[i - 1], s[i])]
<1>1. n \in Nat
  BY LenProperties
<1>2. PICK p : JoinedUpTo(p, s, n, S)
  BY JoinedExist
<1>3. p = F(p)
  <2>1. \A i \in 1..n : p[i] = F(p)[i]
    BY <1>1, <1>2 DEF JoinedUpTo
  <2> QED BY <1>2, <2>1 DEF JoinedUpTo
<1>4. JoinedParts(s) = F(JoinedParts(s))
  BY <1>3, Zenon DEF JoinedParts, Concat
<1> DEFINE q == JoinedParts(s)
<1> HIDE DEF q
<1>5. q = F(q)
  BY <1>4 DEF q
<1>6. n >= 1 => q[1] = s[1]
  BY <1>1, <1>5
<1>7. \A i \in 2..n : q[i] = Concat(q[i - 1], s[i])
  <2> TAKE i \in 2..n
  <2>1. i \in 1..n /\ i # 1
    BY <1>1
  <2>2. q[i] = F(q)[i]
    BY <1>5
  <2>3. F(q)[i] = Concat(q[i - 1], s[i])
    BY <2>1
  <2> QED BY <2>2, <2>3
<1> DEFINE P == {m \in Nat : m \in 1..n => q[m] \in Seq(S)}
<1>8. 0 \in P
  OBVIOUS
<1>9. ASSUME NEW m \in Nat, m \in P PROVE m + 1 \in P
  <2>1. SUFFICES ASSUME m + 1 \in 1..n PROVE q[m + 1] \in Seq(S)
    OBVIOUS
  <2>2. s[m + 1] \in Seq(S)
    BY <1>1, <2>1, ElementOfSeq
  <2>3. CASE m = 0
    BY <1>1, <1>6, <2>1, <2>2, <2>3
  <2>4. CASE m # 0
    <3>1. q[m] \in Seq(S)
      BY <1>1, <1>9, <2>1, <2>4
    <3>2. m + 1 \in 2..n /\ (m + 1) - 1 = m
      BY <1>1, <2>1, <2>4
    <3>3. q[m + 1] = Concat(q[m], s[m + 1])
      BY <1>7, <3>2
    <3> QED BY <2>2, <3>1, <3>3, JoinTyped
  <2> QED BY <2>3, <2>4
<1> HIDE DEF P
<1>10. \A i \in 1..n : q[i] \in Seq(S)
  <2>1. \A m \in Nat : m \in P
    BY <1>8, <1>9, SetInduction
  <2> QED BY <1>1, <2>1 DEF P
<1>11. q \in [1..n -> Seq(S)]
  BY <1>5, <1>10
<1> QED BY <1>6, <1>7, <1>11 DEF JoinedUpTo, q

LEMMA FlattenTyped ==
    ASSUME NEW S, NEW s \in Seq(Seq(S))
    PROVE  FlattenSeq(s) \in Seq(S)
<1>1. Len(s) \in Nat
  BY LenProperties
<1>2. CASE Len(s) = 0
  <2>1. s = <<>>
    BY <1>2, EmptySeq
  <2> QED BY <1>2, <2>1, EmptySeq DEF FlattenSeq
<1>3. CASE Len(s) # 0
  <2>1. JoinedUpTo(JoinedParts(s), s, Len(s), S)
    BY JoinedDefined
  <2>2. JoinedParts(s)[Len(s)] \in Seq(S)
    <3>1. Len(s) \in 1..Len(s)
      BY <1>1, <1>3
    <3> QED BY <2>1, <3>1 DEF JoinedUpTo
  <2> QED BY <1>3, <2>2, FlattenIs
<1> QED BY <1>2, <1>3

LEMMA FlattenNothing == FlattenSeq(<<>>) = <<>>
BY EmptySeq DEF FlattenSeq

\* One part more.
LEMMA FlattenAppend ==
    ASSUME NEW S, NEW s \in Seq(Seq(S)), NEW e \in Seq(S)
    PROVE  FlattenSeq(Append(s, e)) = FlattenSeq(s) \o e
<1> DEFINE n == Len(s)
<1> DEFINE t == Append(s, e)
<1> DEFINE p == JoinedParts(s)
<1> DEFINE q == JoinedParts(t)
<1>1. n \in Nat /\ t \in Seq(Seq(S)) /\ Len(t) = n + 1
  BY LenProperties, AppendProperties
<1>2. t[n + 1] = e /\ \A i \in 1..n : t[i] = s[i]
  BY AppendProperties
<1>3. JoinedUpTo(p, s, n, S) /\ JoinedUpTo(q, t, n + 1, S)
  BY <1>1, JoinedDefined
<1>4. FlattenSeq(t) = q[n + 1]
  <2>1. Len(t) # 0
    BY <1>1
  <2> QED BY <1>1, <2>1, FlattenIs
<1> HIDE DEF p, q, t
<1>5. CASE n = 0
  <2>1. s = <<>> /\ FlattenSeq(s) = <<>>
    BY <1>5, EmptySeq, FlattenNothing
  <2>2. q[1] = e
    BY <1>2, <1>3, <1>5 DEF JoinedUpTo
  <2>3. <<>> \o e = e
    BY ConcatEmptySeq
  <2> QED BY <1>4, <1>5, <2>1, <2>2, <2>3 DEF t
<1>6. CASE n # 0
  <2> DEFINE P == {m \in Nat : m \in 1..n => q[m] = p[m]}
  <2>1. 0 \in P
    OBVIOUS
  <2>2. ASSUME NEW m \in Nat, m \in P PROVE m + 1 \in P
    <3>1. SUFFICES ASSUME m + 1 \in 1..n PROVE q[m + 1] = p[m + 1]
      OBVIOUS
    <3>2. CASE m = 0
      BY <1>1, <1>2, <1>3, <3>1, <3>2 DEF JoinedUpTo
    <3>3. CASE m # 0
      <4>1. m + 1 \in 2..n /\ m + 1 \in 2..(n + 1) /\ m + 1 - 1 = m
        BY <1>1, <3>1, <3>3
      <4>2. q[m + 1] = Concat(q[m], t[m + 1]) /\ p[m + 1] = Concat(p[m], s[m + 1])
        BY <1>3, <4>1 DEF JoinedUpTo
      <4>3. q[m] = p[m]
        BY <1>1, <2>2, <3>1, <3>3
      <4> QED BY <1>2, <3>1, <4>2, <4>3
    <3> QED BY <3>2, <3>3
  <2> HIDE DEF P
  <2>3. q[n] = p[n]
    <3>1. n \in P
      BY <1>1, <2>1, <2>2, SetInduction
    <3> QED BY <1>1, <1>6, <3>1 DEF P
  <2>4. q[n + 1] = Concat(q[n], t[n + 1])
    <3>1. n + 1 \in 2..(n + 1) /\ (n + 1) - 1 = n
      BY <1>1, <1>6
    <3> QED BY <1>3, <3>1 DEF JoinedUpTo
  <2>5. FlattenSeq(s) = p[n]
    BY <1>6, FlattenIs DEF p
  <2> QED BY <1>2, <1>4, <2>3, <2>4, <2>5, Zenon DEF t, Concat
<1> QED BY <1>5, <1>6

LEMMA JoinFacts ==
    ASSUME NEW S
    PROVE  /\ \A s, t, u \in Seq(S) : Concat(Concat(s, t), u) = Concat(s, Concat(t, u))
           /\ \A s \in Seq(S) : Concat(s, <<>>) = s /\ Concat(<<>>, s) = s
           /\ \A s \in Seq(S), e \in S : Append(s, e) = Concat(s, <<e>>)
<1>1. ASSUME NEW s \in Seq(S), NEW t \in Seq(S), NEW u \in Seq(S)
      PROVE  (s \o t) \o u = s \o (t \o u)
  BY ConcatAssociative
<1>2. ASSUME NEW s \in Seq(S)
      PROVE  s \o <<>> = s /\ <<>> \o s = s
  BY ConcatEmptySeq
<1>3. ASSUME NEW s \in Seq(S), NEW e \in S
      PROVE  Append(s, e) = s \o <<e>>
  BY AppendIsConcat
<1> QED BY <1>1, <1>2, <1>3, Zenon DEF Concat

\* The parts of two sequences of sequences.
LEMMA FlattenJoin ==
    ASSUME NEW S, NEW s \in Seq(Seq(S)), NEW t \in Seq(Seq(S))
    PROVE  FlattenSeq(Concat(s, t)) = Concat(FlattenSeq(s), FlattenSeq(t))
<1> DEFINE P == {n \in Nat : \A u \in Seq(Seq(S)) :
                    Len(u) = n => FlattenSeq(Concat(s, u)) = Concat(FlattenSeq(s), FlattenSeq(u))}
<1>1. 0 \in P
  <2>1. ASSUME NEW u \in Seq(Seq(S)), Len(u) = 0
        PROVE  FlattenSeq(Concat(s, u)) = Concat(FlattenSeq(s), FlattenSeq(u))
    <3>1. u = <<>>
      BY <2>1, EmptySeq
    <3>2. Concat(s, <<>>) = s
      BY JoinFacts
    <3>3. Concat(FlattenSeq(s), <<>>) = FlattenSeq(s)
      BY FlattenTyped, JoinFacts
    <3> QED BY <3>1, <3>2, <3>3, FlattenNothing, Zenon
  <2> QED BY <2>1
<1>2. ASSUME NEW n \in Nat, n \in P PROVE n + 1 \in P
  <2>1. ASSUME NEW u \in Seq(Seq(S)), Len(u) = n + 1
        PROVE  FlattenSeq(Concat(s, u)) = Concat(FlattenSeq(s), FlattenSeq(u))
    <3>1. u # <<>>
      BY <1>2, <2>1, EmptySeq
    <3>2. PICK v \in Seq(Seq(S)), e \in Seq(S) : u = Append(v, e)
      BY <3>1, SequenceEmptyOrAppend
    <3>3. Len(v) = n
      <4>1. Len(u) = Len(v) + 1 /\ Len(v) \in Nat
        BY <3>2, AppendProperties, LenProperties
      <4> QED BY <1>2, <2>1, <4>1
    <3>4. FlattenSeq(Concat(s, v)) = Concat(FlattenSeq(s), FlattenSeq(v))
      BY <1>2, <3>3
    <3>5. Concat(s, u) = Append(Concat(s, v), e)
      <4>0. /\ \A a, b, c \in Seq(Seq(S)) : Concat(Concat(a, b), c) = Concat(a, Concat(b, c))
            /\ \A a \in Seq(Seq(S)), d \in Seq(S) : Append(a, d) = Concat(a, <<d>>)
        BY JoinFacts, Zenon
      <4>1. u = Concat(v, <<e>>) /\ <<e>> \in Seq(Seq(S))
        BY <3>2, JoinFacts
      <4>2. Append(Concat(s, v), e) = Concat(Concat(s, v), <<e>>)
        <5>1. Concat(s, v) \in Seq(Seq(S))
          BY JoinTyped
        <5> QED BY <4>0, <5>1
      <4>3. Concat(Concat(s, v), <<e>>) = Concat(s, Concat(v, <<e>>))
        BY <4>0, <4>1
      <4> QED BY <4>1, <4>2, <4>3, Zenon
    <3>6. FlattenSeq(Concat(s, u)) = Concat(FlattenSeq(Concat(s, v)), e)
      <4>1. FlattenSeq(Append(Concat(s, v), e)) = FlattenSeq(Concat(s, v)) \o e
        BY JoinTyped, FlattenAppend
      <4> QED BY <3>5, <4>1, Zenon DEF Concat
    <3>7. FlattenSeq(u) = Concat(FlattenSeq(v), e)
      BY <3>2, FlattenAppend, Zenon DEF Concat
    <3>8. Concat(Concat(FlattenSeq(s), FlattenSeq(v)), e) = Concat(FlattenSeq(s), Concat(FlattenSeq(v), e))
      <4>1. FlattenSeq(s) \in Seq(S) /\ FlattenSeq(v) \in Seq(S)
        BY FlattenTyped
      <4> QED BY <4>1, JoinFacts
    <3> QED BY <3>4, <3>6, <3>7, <3>8, Zenon
  <2> QED BY <1>2, <2>1
<1> HIDE DEF P
<1>3. Len(t) \in P
  BY <1>1, <1>2, SetInduction, LenProperties
<1> QED BY <1>3 DEF P

\* The length of a concatenation of sequences.
LEMMA FlattenLen ==
    ASSUME NEW S, NEW s \in Seq(Seq(S)), NEW w \in Seq(Int), Len(w) = Len(s),
           \A i \in 1..Len(s) : w[i] = Len(s[i])
    PROVE  Len(FlattenSeq(s)) = Total(w)
<1> DEFINE P == {n \in Nat : \A u \in Seq(Seq(S)), v \in Seq(Int) :
                    Len(u) = n /\ Len(v) = n /\ (\A i \in 1..n : v[i] = Len(u[i]))
                        => Len(FlattenSeq(u)) = Total(v)}
<1>1. 0 \in P
  <2>1. ASSUME NEW u \in Seq(Seq(S)), NEW v \in Seq(Int), Len(u) = 0, Len(v) = 0
        PROVE  Len(FlattenSeq(u)) = Total(v)
    <3>1. u = <<>> /\ v = <<>> /\ Len(<<>>) = 0
      BY <2>1, EmptySeq
    <3> QED BY <3>1, FlattenNothing, TotalEmpty
  <2> QED BY <2>1
<1>2. ASSUME NEW n \in Nat, n \in P PROVE n + 1 \in P
  <2>1. ASSUME NEW u \in Seq(Seq(S)), NEW v \in Seq(Int), Len(u) = n + 1, Len(v) = n + 1,
               \A i \in 1..(n + 1) : v[i] = Len(u[i])
        PROVE  Len(FlattenSeq(u)) = Total(v)
    <3>1. u # <<>> /\ v # <<>>
      BY <1>2, <2>1, EmptySeq
    <3>2. PICK u0 \in Seq(Seq(S)), e \in Seq(S) : u = Append(u0, e)
      BY <3>1, SequenceEmptyOrAppend
    <3>3. PICK v0 \in Seq(Int), d \in Int : v = Append(v0, d)
      BY <3>1, SequenceEmptyOrAppend
    <3>4. /\ Len(u0) = n /\ u[n + 1] = e /\ \A i \in 1..n : u[i] = u0[i]
          /\ Len(v0) = n /\ v[n + 1] = d /\ \A i \in 1..n : v[i] = v0[i]
      <4>1. /\ Len(u) = Len(u0) + 1 /\ Len(u0) \in Nat /\ u[Len(u0) + 1] = e
            /\ \A i \in 1..Len(u0) : u[i] = u0[i]
        BY <3>2, AppendProperties, LenProperties
      <4>2. /\ Len(v) = Len(v0) + 1 /\ Len(v0) \in Nat /\ v[Len(v0) + 1] = d
            /\ \A i \in 1..Len(v0) : v[i] = v0[i]
        BY <3>3, AppendProperties, LenProperties
      <4>3. Len(u0) = n /\ Len(v0) = n
        BY <1>2, <2>1, <4>1, <4>2
      <4> QED BY <4>1, <4>2, <4>3
    <3>5. d = Len(e) /\ \A i \in 1..n : v0[i] = Len(u0[i])
      <4>1. n + 1 \in 1..(n + 1) /\ \A i \in 1..n : i \in 1..(n + 1)
        BY <1>2
      <4> QED BY <2>1, <3>4, <4>1
    <3>6. Len(FlattenSeq(u0)) = Total(v0)
      BY <1>2, <3>4, <3>5
    <3>7. Len(FlattenSeq(u)) = Len(FlattenSeq(u0)) + Len(e)
      <4>1. FlattenSeq(u) = FlattenSeq(u0) \o e /\ FlattenSeq(u0) \in Seq(S)
        BY <3>2, FlattenAppend, FlattenTyped
      <4> HIDE DEF P
      <4>2. Len(FlattenSeq(u0) \o e) = Len(FlattenSeq(u0)) + Len(e)
        BY <4>1, ConcatProperties
      <4> QED BY <4>1, <4>2
    <3>8. Total(v) = Total(v0) + d
      BY <3>3, TotalAppend
    <3> QED BY <3>5, <3>6, <3>7, <3>8
  <2> QED BY <1>2, <2>1
<1> HIDE DEF P
<1>3. Len(s) \in P
  BY <1>1, <1>2, SetInduction, LenProperties
<1> QED BY <1>3 DEF P

\* The total of a concatenation.
LEMMA TotalJoin ==
    ASSUME NEW s \in Seq(Int), NEW t \in Seq(Int)
    PROVE  Total(Concat(s, t)) = Total(s) + Total(t)
<1> DEFINE P == {n \in Nat : \A u \in Seq(Int) :
                    Len(u) = n => Total(Concat(s, u)) = Total(s) + Total(u)}
<1>1. 0 \in P
  <2>1. ASSUME NEW u \in Seq(Int), Len(u) = 0 PROVE Total(Concat(s, u)) = Total(s) + Total(u)
    <3>1. u = <<>>
      BY <2>1, EmptySeq
    <3>2. Concat(s, <<>>) = s
      BY JoinFacts
    <3> QED BY <3>1, <3>2, TotalEmpty, TotalIsInt
  <2> QED BY <2>1
<1>2. ASSUME NEW n \in Nat, n \in P PROVE n + 1 \in P
  <2>1. ASSUME NEW u \in Seq(Int), Len(u) = n + 1
        PROVE  Total(Concat(s, u)) = Total(s) + Total(u)
    <3>1. u # <<>>
      BY <1>2, <2>1, EmptySeq
    <3>2. PICK v \in Seq(Int), e \in Int : u = Append(v, e)
      BY <3>1, SequenceEmptyOrAppend
    <3>3. Len(v) = n
      <4>1. Len(u) = Len(v) + 1 /\ Len(v) \in Nat
        BY <3>2, AppendProperties, LenProperties
      <4> QED BY <1>2, <2>1, <4>1
    <3>4. Total(Concat(s, v)) = Total(s) + Total(v)
      BY <1>2, <3>3
    <3>5. Concat(s, u) = Append(Concat(s, v), e)
      <4>0. /\ \A a, b, c \in Seq(Int) : Concat(Concat(a, b), c) = Concat(a, Concat(b, c))
            /\ \A a \in Seq(Int), d \in Int : Append(a, d) = Concat(a, <<d>>)
        BY JoinFacts, Zenon
      <4>1. u = Concat(v, <<e>>) /\ <<e>> \in Seq(Int)
        BY <3>2, JoinFacts
      <4>2. Append(Concat(s, v), e) = Concat(Concat(s, v), <<e>>)
        <5>1. Concat(s, v) \in Seq(Int)
          BY JoinTyped
        <5> QED BY <4>0, <5>1
      <4>3. Concat(Concat(s, v), <<e>>) = Concat(s, Concat(v, <<e>>))
        BY <4>0, <4>1
      <4> QED BY <4>1, <4>2, <4>3, Zenon
    <3>6. Total(Concat(s, u)) = Total(Concat(s, v)) + e
      BY <3>5, JoinTyped, TotalAppend
    <3>7. Total(u) = Total(v) + e
      BY <3>2, TotalAppend
    <3>8. Total(s) \in Int /\ Total(v) \in Int
      BY TotalIsInt
    <3> QED BY <3>4, <3>6, <3>7, <3>8
  <2> QED BY <1>2, <2>1
<1> HIDE DEF P
<1>3. Len(t) \in P
  BY <1>1, <1>2, SetInduction, LenProperties
<1> QED BY <1>3 DEF P

\* The total of ones counts them.
LEMMA TotalOnes ==
    ASSUME NEW s \in Seq(Int), \A i \in 1..Len(s) : s[i] = 1
    PROVE  Total(s) = Len(s)
<1> DEFINE n == Len(s)
<1> DEFINE p == PartialSums(s)
<1>1. n \in Nat /\ SumsUpTo(p, s, n)
  BY LenProperties, SumsDefined
<1> HIDE DEF p
<1> DEFINE P == {m \in Nat : m <= n => p[m] = m}
<1>2. 0 \in P
  BY <1>1 DEF SumsUpTo
<1>3. ASSUME NEW m \in Nat, m \in P PROVE m + 1 \in P
  <2>1. SUFFICES ASSUME m + 1 <= n PROVE p[m + 1] = m + 1
    OBVIOUS
  <2>2. m + 1 \in 1..n /\ (m + 1) - 1 = m
    BY <1>1, <2>1
  <2>3. p[m + 1] = p[(m + 1) - 1] + s[m + 1]
    BY <1>1, <2>2 DEF SumsUpTo
  <2> QED BY <1>1, <1>3, <2>1, <2>2, <2>3
<1> HIDE DEF P
<1>4. n \in P
  BY <1>1, <1>2, <1>3, SetInduction
<1>5. p[n] = n
  BY <1>1, <1>4 DEF P
<1> QED BY <1>5 DEF Total, p

-----------------------------------------------------------------------------
(* A function applied to each element.                                     *)

Mapped(f, s) == [i \in DOMAIN s |-> f[s[i]]]

Maps(f, S, T) == f \in [S -> T]

LEMMA MappedAre ==
    ASSUME NEW S, NEW T, NEW f, Maps(f, S, T), NEW s \in Seq(S)
    PROVE  /\ Mapped(f, s) \in Seq(T)
           /\ Len(s) \in Nat /\ Len(Mapped(f, s)) = Len(s)
           /\ \A i \in 1..Len(s) : s[i] \in S /\ Mapped(f, s)[i] = f[s[i]]
<1>1. Len(s) \in Nat /\ DOMAIN s = 1..Len(s) /\ \A i \in 1..Len(s) : s[i] \in S
  BY LenProperties, ElementOfSeq
<1>2. Mapped(f, s) \in [1..Len(s) -> T] /\ \A i \in 1..Len(s) : Mapped(f, s)[i] = f[s[i]]
  BY <1>1 DEF Mapped, Maps
<1>3. Mapped(f, s) \in Seq(T) /\ Len(Mapped(f, s)) = Len(s)
  BY <1>1, <1>2, FunctionIsSeq
<1> QED BY <1>1, <1>2, <1>3

LEMMA MappedJoin ==
    ASSUME NEW S, NEW T, NEW f, Maps(f, S, T), NEW s \in Seq(S), NEW t \in Seq(S)
    PROVE  Mapped(f, Concat(s, t)) = Concat(Mapped(f, s), Mapped(f, t))
<1>0. ASSUME NEW r \in Seq(S)
      PROVE  /\ Mapped(f, r) \in Seq(T) /\ Len(Mapped(f, r)) = Len(r)
             /\ \A i \in 1..Len(r) : Mapped(f, r)[i] = f[r[i]]
  <2>1. /\ Mapped(f, r) \in Seq(T)
        /\ Len(r) \in Nat /\ Len(Mapped(f, r)) = Len(r)
        /\ \A i \in 1..Len(r) : r[i] \in S /\ Mapped(f, r)[i] = f[r[i]]
    BY MappedAre
  <2> QED BY <2>1
<1> DEFINE u == Concat(s, t)
<1> DEFINE v == Concat(Mapped(f, s), Mapped(f, t))
<1> DEFINE n == Len(s)
<1> DEFINE m == Len(t)
<1>1. /\ n \in Nat /\ m \in Nat /\ u \in Seq(S) /\ Len(u) = n + m
      /\ \A i \in 1..(n + m) : u[i] = IF i <= n THEN s[i] ELSE t[i - n]
  BY ConcatProperties, LenProperties DEF Concat
<1>2. /\ Mapped(f, s) \in Seq(T) /\ Mapped(f, t) \in Seq(T)
      /\ Len(Mapped(f, s)) = n /\ Len(Mapped(f, t)) = m
      /\ \A i \in 1..n : Mapped(f, s)[i] = f[s[i]]
      /\ \A i \in 1..m : Mapped(f, t)[i] = f[t[i]]
  BY <1>0, Zenon
<1>3. /\ v \in Seq(T) /\ Len(v) = n + m
      /\ \A i \in 1..(n + m) : v[i] = IF i <= n THEN Mapped(f, s)[i] ELSE Mapped(f, t)[i - n]
  <2> DEFINE a == Mapped(f, s)
  <2> DEFINE b == Mapped(f, t)
  <2>1. a \in Seq(T) /\ b \in Seq(T) /\ Len(a) = n /\ Len(b) = m
    BY <1>2
  <2> HIDE DEF a, b, n, m
  <2>2. /\ a \o b \in Seq(T) /\ Len(a \o b) = Len(a) + Len(b)
        /\ \A i \in 1..(Len(a) + Len(b)) : (a \o b)[i] = IF i <= Len(a) THEN a[i] ELSE b[i - Len(a)]
    BY <2>1, ConcatProperties
  <2> QED BY <2>1, <2>2, Zenon DEF a, b, Concat
<1>4. /\ Mapped(f, u) \in Seq(T) /\ Len(Mapped(f, u)) = n + m
      /\ \A i \in 1..(n + m) : Mapped(f, u)[i] = f[u[i]]
  <2> HIDE DEF u
  <2>1. /\ Mapped(f, u) \in Seq(T) /\ Len(Mapped(f, u)) = Len(u)
        /\ \A i \in 1..Len(u) : Mapped(f, u)[i] = f[u[i]]
    BY <1>0, <1>1, Zenon
  <2> QED BY <1>1, <2>1, Zenon
<1> HIDE DEF u, v, n, m
<1>5. \A i \in 1..(n + m) : Mapped(f, u)[i] = v[i]
  <2> TAKE i \in 1..(n + m)
  <2>1. CASE i <= n
    <3>1. i \in 1..n
      BY <1>1, <2>1
    <3>2. u[i] = s[i] /\ v[i] = Mapped(f, s)[i] /\ Mapped(f, u)[i] = f[u[i]]
      BY <1>1, <1>3, <1>4, <2>1
    <3>3. Mapped(f, s)[i] = f[s[i]]
      BY <1>2, <3>1, Zenon
    <3> QED BY <3>2, <3>3, Zenon
  <2>2. CASE ~(i <= n)
    <3>1. i - n \in 1..m
      BY <1>1, <2>2
    <3>2. u[i] = t[i - n] /\ v[i] = Mapped(f, t)[i - n] /\ Mapped(f, u)[i] = f[u[i]]
      BY <1>1, <1>3, <1>4, <2>2
    <3>3. Mapped(f, t)[i - n] = f[t[i - n]]
      BY <1>2, <3>1, Zenon
    <3> QED BY <3>2, <3>3, Zenon
  <2> QED BY <2>1, <2>2
<1>6. Mapped(f, u) = v
  BY <1>3, <1>4, <1>5, SameSequence
<1> QED BY <1>6 DEF u, v

=============================================================================
