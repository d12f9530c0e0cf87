------------------------ MODULE ResearchWorkflowProofs ------------------------
(***************************************************************************)
(* Proofs about the preset research workflows.  What lists are joined and  *)
(* thinned out by is a recursion over their positions: it has a value for  *)
(* every list, and what holds of it is shown from one position to the next *)
(* (RecursionExists and UpTo), by way of the least position where it would *)
(* not.                                                                    *)
(***************************************************************************)
EXTENDS ResearchWorkflow, FiniteSetTheorems, SequenceTheorems, WellFoundedInduction, TLAPS

-----------------------------------------------------------------------------
(* Recursion over the positions of a list. *)

LEMMA SmallestOf ==
  ASSUME NEW S \in SUBSET Nat, S # {}
  PROVE  \E k \in S : \A l \in S : k <= l
<1>1. \E k \in S : \A l \in S : ~(<<l, k>> \in OpToRel(<, Nat))
  BY NatLessThanWellFounded, WFMin
<1>2. PICK k \in S : \A l \in S : ~(l < k)
  BY <1>1 DEF OpToRel
<1> QED BY <1>2

\* A recursion over the numbers up to N has a value.
StepsOver(N, X) == [1 .. N -> [X -> X]]
Unfolds(N, X, first, step, f) ==
  f \in [0 .. N -> X] /\ f[0] = first /\ \A n \in 1 .. N : f[n] = step[n][f[n - 1]]

LEMMA RecursionExists ==
  ASSUME NEW N \in Nat, NEW X, NEW first \in X, NEW step \in StepsOver(N, X)
  PROVE  \E f : Unfolds(N, X, first, step, f)
<1>0. step \in [1 .. N -> [X -> X]]
  BY DEF StepsOver
<1> DEFINE Is(f, m) == f \in [0 .. m -> X] /\ f[0] = first /\ \A n \in 1 .. m : f[n] = step[n][f[n - 1]]
           None == {m \in 0 .. N : ~ \E f : Is(f, m)}
<1>1. ASSUME None # {} PROVE FALSE
  <2> HIDE DEF Is
  <2>1. None \in SUBSET Nat
    OBVIOUS
  <2> HIDE DEF None
  <2>2. PICK m \in None : \A l \in None : m <= l
    BY <1>1, <2>1, SmallestOf
  <2>3. m \in 0 .. N /\ ~ \E f : Is(f, m)
    BY <2>2 DEF None
  <2>4. CASE m = 0
    <3>1. Is([k \in 0 .. 0 |-> first], 0)
      BY DEF Is
    <3> QED BY <2>3, <2>4, <3>1
  <2>5. CASE m # 0
    <3>1. m \in Nat /\ m - 1 \in Nat /\ m - 1 \in 0 .. N /\ m \in 1 .. N /\ ~(m <= m - 1)
      BY <2>3, <2>5
    <3>2. PICK f : Is(f, m - 1)
      <4>1. m - 1 \notin None
        BY <2>2, <3>1
      <4> QED BY <3>1, <4>1 DEF None
    <3> DEFINE g == [k \in 0 .. m |-> IF k = m THEN step[m][f[m - 1]] ELSE f[k]]
    <3>3. g \in [0 .. m -> X] /\ g[0] = first
      <4>1. f \in [0 .. m - 1 -> X] /\ f[0] = first
        BY <3>2 DEF Is
      <4>2. f[m - 1] \in X
        BY <3>1, <4>1
      <4>3. step[m][f[m - 1]] \in X
        BY <1>0, <3>1, <4>2
      <4>4. \A k \in 0 .. m : k # m => k \in 0 .. m - 1
        BY <3>1
      <4>5. 0 \in 0 .. m /\ 0 # m
        BY <2>5, <3>1
      <4> QED BY <4>1, <4>3, <4>4, <4>5
    <3>4. ASSUME NEW n \in 1 .. m PROVE g[n] = step[n][g[n - 1]]
      <4>1. g[n - 1] = f[n - 1] /\ n - 1 \in 0 .. m
        BY <3>1
      <4>2. CASE n = m
        BY <4>1, <4>2
      <4>3. CASE n # m
        <5>1. n \in 1 .. m - 1
          BY <3>1, <4>3
        <5>2. f[n] = step[n][f[n - 1]]
          BY <3>2, <5>1 DEF Is
        <5> QED BY <4>1, <4>3, <5>2
      <4> QED BY <4>2, <4>3
    <3> HIDE DEF g
    <3>5. Is(g, m)
      BY <3>3, <3>4 DEF Is
    <3> QED BY <2>3, <3>5
  <2> QED BY <2>4, <2>5
<1>2. N \notin None
  BY <1>1
<1>3. PICK f : Is(f, N)
  BY <1>2
<1> QED BY <1>3 DEF Unfolds

LEMMA UpTo ==
  ASSUME NEW N \in Nat, NEW Good, 0 \in Good, \A n \in 1 .. N : n - 1 \in Good => n \in Good
  PROVE  0 .. N \subseteq Good
<1> DEFINE Bad == (0 .. N) \ Good
<1>1. ASSUME Bad # {} PROVE FALSE
  <2>1. Bad \in SUBSET Nat
    OBVIOUS
  <2> HIDE DEF Bad
  <2>2. PICK m \in Bad : \A l \in Bad : m <= l
    BY <1>1, <2>1, SmallestOf
  <2>3. m \in 0 .. N /\ m \notin Good
    BY <2>2 DEF Bad
  <2>4. m \in 1 .. N /\ m - 1 \in 0 .. N /\ ~(m <= m - 1)
    BY <2>3
  <2>5. m - 1 \in Good
    BY <2>2, <2>4 DEF Bad
  <2> QED BY <2>3, <2>4, <2>5
<1> QED BY <1>1

\* What a sequence of two parts has, each of them has.
LEMMA RangeOfConcat ==
  ASSUME NEW S, NEW s \in Seq(S), NEW t \in Seq(S)
  PROVE  ToSet(s \o t) = ToSet(s) \cup ToSet(t)
<1>0. /\ Len(s) \in Nat /\ Len(t) \in Nat /\ DOMAIN s = 1 .. Len(s) /\ DOMAIN t = 1 .. Len(t)
      /\ DOMAIN (s \o t) = 1 .. Len(s) + Len(t)
      /\ \A i \in 1 .. Len(s) + Len(t) : (s \o t)[i] = IF i <= Len(s) THEN s[i] ELSE t[i - Len(s)]
  BY LenProperties, ConcatProperties
<1>1. ASSUME NEW x \in ToSet(s \o t) PROVE x \in ToSet(s) \cup ToSet(t)
  <2>1. PICK i \in 1 .. Len(s) + Len(t) : x = (s \o t)[i]
    BY <1>0 DEF ToSet
  <2> QED BY <1>0, <2>1 DEF ToSet
<1>2. ASSUME NEW x \in ToSet(s) PROVE x \in ToSet(s \o t)
  <2>1. PICK i \in 1 .. Len(s) : x = s[i]
    BY <1>0 DEF ToSet
  <2>2. i \in 1 .. Len(s) + Len(t) /\ (s \o t)[i] = x
    BY <1>0, <2>1
  <2> QED BY <1>0, <2>2 DEF ToSet
<1>3. ASSUME NEW x \in ToSet(t) PROVE x \in ToSet(s \o t)
  <2>1. PICK i \in 1 .. Len(t) : x = t[i]
    BY <1>0 DEF ToSet
  <2>2. Len(s) + i \in 1 .. Len(s) + Len(t) /\ (s \o t)[Len(s) + i] = x
    BY <1>0, <2>1
  <2> QED BY <1>0, <2>2 DEF ToSet
<1> QED BY <1>1, <1>2, <1>3

\* A sequence of different elements has as many as it is long.
LEMMA RangeOfDifferent ==
  ASSUME NEW S, NEW s \in Seq(S), \A i, j \in DOMAIN s : s[i] = s[j] => i = j
  PROVE  IsFiniteSet(ToSet(s)) /\ Cardinality(ToSet(s)) = Len(s)
<1>1. Len(s) \in Nat /\ DOMAIN s = 1 .. Len(s) /\ s \in [1 .. Len(s) -> S]
  BY LenProperties
<1>2. s \in Bijection(1 .. Len(s), ToSet(s))
  BY <1>1 DEF Bijection, Injection, Surjection, IsInjective, ToSet
<1>3. IsFiniteSet(1 .. Len(s)) /\ Cardinality(1 .. Len(s)) = Len(s)
  BY <1>1, FS_Interval, SMTT(30)
<1> QED BY <1>2, <1>3, FS_Bijection DEF ExistsBijection

\* A list that has as many elements as it is long has none twice.
LEMMA DistinctTells ==
  ASSUME NEW S, NEW s \in Seq(S), Distinct(s)
  PROVE  \A i, j \in DOMAIN s : s[i] = s[j] => i = j
<1>1. Len(s) \in Nat /\ DOMAIN s = 1 .. Len(s) /\ s \in [1 .. Len(s) -> S]
  BY LenProperties
<1>2. s \in Surjection(1 .. Len(s), ToSet(s))
  BY <1>1 DEF Surjection, ToSet
<1>3. IsFiniteSet(1 .. Len(s)) /\ Cardinality(1 .. Len(s)) = Len(s)
  BY <1>1, FS_Interval, SMTT(30)
<1>4. IsFiniteSet(ToSet(s))
  BY <1>2, <1>3, FS_Surjection
<1>5. s \in Injection(1 .. Len(s), ToSet(s))
  BY <1>2, <1>3, <1>4, FS_SurjSameCardinalityImpliesInj DEF Distinct
<1> QED BY <1>1, <1>5 DEF Injection, IsInjective

LEMMA AppendedElement ==
  ASSUME NEW S, NEW s \in Seq(S), NEW e \in S
  PROVE  /\ Append(s, e) \in Seq(S) /\ Len(Append(s, e)) = Len(s) + 1
         /\ ToSet(Append(s, e)) = ToSet(s) \cup {e}
         /\ \A i \in 1 .. Len(s) : Append(s, e)[i] = s[i]
         /\ Append(s, e)[Len(s) + 1] = e
<1>1. /\ Append(s, e) \in Seq(S) /\ Len(Append(s, e)) = Len(s) + 1
      /\ \A i \in 1 .. Len(s) : Append(s, e)[i] = s[i]
      /\ Append(s, e)[Len(s) + 1] = e
  BY AppendProperties
<1>2. Len(s) \in Nat /\ DOMAIN s = 1 .. Len(s) /\ DOMAIN Append(s, e) = 1 .. Len(s) + 1
  BY <1>1, LenProperties
<1>3. ASSUME NEW x \in ToSet(Append(s, e)) PROVE x \in ToSet(s) \cup {e}
  <2>1. PICK i \in 1 .. Len(s) + 1 : Append(s, e)[i] = x
    BY <1>2 DEF ToSet
  <2>2. CASE i = Len(s) + 1
    BY <1>1, <2>1, <2>2
  <2>3. CASE i # Len(s) + 1
    <3>1. i \in 1 .. Len(s)
      BY <1>2, <2>3
    <3> QED BY <1>1, <1>2, <2>1, <3>1 DEF ToSet
  <2> QED BY <2>2, <2>3
<1>4. ASSUME NEW x \in ToSet(s) PROVE x \in ToSet(Append(s, e))
  <2>1. PICK i \in 1 .. Len(s) : s[i] = x
    BY <1>2 DEF ToSet
  <2>2. i \in 1 .. Len(s) + 1 /\ Append(s, e)[i] = x
    BY <1>1, <1>2, <2>1
  <2> QED BY <1>2, <2>2 DEF ToSet
<1>5. e \in ToSet(Append(s, e))
  <2>1. Len(s) + 1 \in 1 .. Len(s) + 1
    BY <1>2
  <2> QED BY <1>1, <1>2, <2>1 DEF ToSet
<1> QED BY <1>1, <1>3, <1>4, <1>5

\* A list thinned out is the value of the recursion it is defined by.
LEMMA OnceEachRecursion ==
  ASSUME NEW S, NEW s \in Seq(S)
  PROVE  \E f : /\ f \in [0 .. Len(s) -> Seq(S)] /\ f[0] = <<>> /\ OnceEach(s) = f[Len(s)]
                /\ \A n \in 1 .. Len(s) :
                     f[n] = IF s[n] \in ToSet(f[n - 1]) THEN f[n - 1] ELSE Append(f[n - 1], s[n])
<1> DEFINE N == Len(s)
           step == [n \in 1 .. N |-> [b \in Seq(S) |->
                      IF s[n] \in ToSet(b) THEN b ELSE Append(b, s[n])]]
           Is(f) == f = [n \in 0 .. N |->
                           IF n = 0 THEN <<>>
                           ELSE IF s[n] \in ToSet(f[n - 1]) THEN f[n - 1] ELSE Append(f[n - 1], s[n])]
           F == CHOOSE f : Is(f)
<1>1. N \in Nat /\ \A n \in 1 .. N : s[n] \in S
  BY LenProperties
<1>2. step \in [1 .. N -> [Seq(S) -> Seq(S)]]
  BY <1>1, AppendProperties
<1>3. <<>> \in Seq(S)
  BY EmptySeq
<1>4. OnceEach(s) = F[N]
  BY DEF OnceEach
<1> HIDE DEF N
<1>5. PICK f \in [0 .. N -> Seq(S)] : f[0] = <<>> /\ \A n \in 1 .. N : f[n] = step[n][f[n - 1]]
  <2>1. step \in StepsOver(N, Seq(S))
    BY <1>2 DEF StepsOver
  <2> HIDE DEF step
  <2>2. \E f : Unfolds(N, Seq(S), <<>>, step, f)
    BY <1>1, <1>3, <2>1, RecursionExists
  <2> QED BY <2>2 DEF Unfolds
<1>6. \A n \in 1 .. N : /\ n - 1 \in 0 .. N
                         /\ f[n] = IF s[n] \in ToSet(f[n - 1]) THEN f[n - 1] ELSE Append(f[n - 1], s[n])
  <2>1. \A n \in 1 .. N : n - 1 \in 0 .. N
    BY <1>1
  <2>2. \A n \in 1 .. N : f[n - 1] \in Seq(S)
    BY <1>5, <2>1
  <2> QED BY <1>5, <2>1, <2>2
<1>7. Is(f)
  <2>1. \A n \in 0 .. N : n = 0 \/ n \in 1 .. N
    BY <1>1
  <2> QED BY <1>5, <1>6, <2>1
<1>8. Is(F)
  <2> HIDE DEF Is
  <2> QED BY <1>7
<1> HIDE DEF F
<1> DEFINE Good == {n \in 0 .. N : F[n] = f[n]}
<1>9. 0 .. N \subseteq Good
  <2>1. 0 \in Good
    BY <1>1, <1>5, <1>8
  <2>2. ASSUME NEW n \in 1 .. N, n - 1 \in Good PROVE n \in Good
    <3>1. n \in 0 .. N /\ n # 0 /\ F[n - 1] = f[n - 1]
      BY <1>1, <2>2
    <3>2. F[n] = IF s[n] \in ToSet(F[n - 1]) THEN F[n - 1] ELSE Append(F[n - 1], s[n])
      BY <1>8, <3>1
    <3> QED BY <1>6, <3>1, <3>2
  <2> HIDE DEF Good
  <2> QED BY <1>1, <2>1, <2>2, UpTo
<1>10. F[N] = f[N]
  BY <1>1, <1>9
<1> QED BY <1>4, <1>5, <1>6, <1>10 DEF N

LeavesOut(f, S, s, some) ==
  /\ f \in [0 .. Len(s) -> Seq(S)] /\ f[0] = <<>> /\ Without(s, some) = f[Len(s)]
  /\ \A n \in 1 .. Len(s) : f[n] = IF s[n] \in some THEN f[n - 1] ELSE Append(f[n - 1], s[n])

LEMMA WithoutRecursion ==
  ASSUME NEW S, NEW s \in Seq(S), NEW some
  PROVE  \E f : LeavesOut(f, S, s, some)
<1> DEFINE N == Len(s)
           step == [n \in 1 .. N |-> [b \in Seq(S) |->
                      IF s[n] \in some THEN b ELSE Append(b, s[n])]]
           Is(f) == f = [n \in 0 .. N |->
                           IF n = 0 THEN <<>>
                           ELSE IF s[n] \in some THEN f[n - 1] ELSE Append(f[n - 1], s[n])]
           F == CHOOSE f : Is(f)
<1>1. N \in Nat /\ \A n \in 1 .. N : s[n] \in S
  BY LenProperties
<1>2. step \in [1 .. N -> [Seq(S) -> Seq(S)]]
  BY <1>1, AppendProperties
<1>3. <<>> \in Seq(S)
  BY EmptySeq
<1>4. Without(s, some) = F[N]
  BY DEF Without
<1> HIDE DEF N
<1>5. PICK f \in [0 .. N -> Seq(S)] : f[0] = <<>> /\ \A n \in 1 .. N : f[n] = step[n][f[n - 1]]
  <2>1. step \in StepsOver(N, Seq(S))
    BY <1>2 DEF StepsOver
  <2> HIDE DEF step
  <2>2. \E f : Unfolds(N, Seq(S), <<>>, step, f)
    BY <1>1, <1>3, <2>1, RecursionExists
  <2> QED BY <2>2 DEF Unfolds
<1>6. \A n \in 1 .. N : /\ n - 1 \in 0 .. N
                         /\ f[n] = IF s[n] \in some THEN f[n - 1] ELSE Append(f[n - 1], s[n])
  <2>1. \A n \in 1 .. N : n - 1 \in 0 .. N
    BY <1>1
  <2>2. \A n \in 1 .. N : f[n - 1] \in Seq(S)
    BY <1>5, <2>1
  <2> QED BY <1>5, <2>1, <2>2
<1>7. Is(f)
  <2>1. \A n \in 0 .. N : n = 0 \/ n \in 1 .. N
    BY <1>1
  <2> QED BY <1>5, <1>6, <2>1
<1>8. Is(F)
  <2> HIDE DEF Is
  <2> QED BY <1>7
<1> HIDE DEF F
<1> DEFINE Good == {n \in 0 .. N : F[n] = f[n]}
<1>9. 0 .. N \subseteq Good
  <2>1. 0 \in Good
    BY <1>1, <1>5, <1>8
  <2>2. ASSUME NEW n \in 1 .. N, n - 1 \in Good PROVE n \in Good
    <3>1. n \in 0 .. N /\ n # 0 /\ F[n - 1] = f[n - 1]
      BY <1>1, <2>2
    <3>2. F[n] = IF s[n] \in some THEN F[n - 1] ELSE Append(F[n - 1], s[n])
      BY <1>8, <3>1
    <3> QED BY <1>6, <3>1, <3>2
  <2> HIDE DEF Good
  <2> QED BY <1>1, <2>1, <2>2, UpTo
<1>10. F[N] = f[N]
  BY <1>1, <1>9
<1>11. LeavesOut(f, S, s, some)
  BY <1>4, <1>5, <1>6, <1>10 DEF LeavesOut, N
<1> QED BY <1>11

LEMMA OnceEachFacts ==
  ASSUME NEW S, NEW s \in Seq(S)
  PROVE  /\ OnceEach(s) \in Seq(S) /\ ToSet(OnceEach(s)) = ToSet(s) /\ Distinct(OnceEach(s))
<1>1. PICK f : /\ f \in [0 .. Len(s) -> Seq(S)] /\ f[0] = <<>> /\ OnceEach(s) = f[Len(s)]
               /\ \A n \in 1 .. Len(s) :
                    f[n] = IF s[n] \in ToSet(f[n - 1]) THEN f[n - 1] ELSE Append(f[n - 1], s[n])
  BY OnceEachRecursion
<1>2. Len(s) \in Nat /\ DOMAIN s = 1 .. Len(s) /\ \A n \in 1 .. Len(s) : s[n] \in S
  BY LenProperties
<1> DEFINE Part(n) == {s[k] : k \in 1 .. n}
           Once(t) == \A i, j \in 1 .. Len(t) : t[i] = t[j] => i = j
           Good == {n \in 0 .. Len(s) : ToSet(f[n]) = Part(n) /\ Once(f[n])}
<1>3. 0 \in Good
  <2>1. f[0] = <<>> /\ Len(<<>>) = 0 /\ ToSet(<<>>) = {} /\ Part(0) = {}
    BY <1>1, EmptySeq DEF ToSet
  <2> QED BY <1>2, <2>1
<1>4. ASSUME NEW n \in 1 .. Len(s), n - 1 \in Good PROVE n \in Good
  <2>0. n \in Nat /\ n \in 0 .. Len(s) /\ n - 1 \in 0 .. Len(s)
    BY <1>2
  <2>1. ToSet(f[n - 1]) = Part(n - 1) /\ Once(f[n - 1]) /\ f[n - 1] \in Seq(S) /\ s[n] \in S
    BY <1>1, <1>2, <1>4, <2>0
  <2>2. Part(n) = Part(n - 1) \cup {s[n]}
    <3>1. 1 .. n = (1 .. n - 1) \cup {n}
      BY <2>0, <1>2
    <3> QED BY <3>1
  <2>3. f[n] = IF s[n] \in ToSet(f[n - 1]) THEN f[n - 1] ELSE Append(f[n - 1], s[n])
    BY <1>1
  <2> HIDE DEF Part
  <2>4. CASE s[n] \in ToSet(f[n - 1])
    BY <2>0, <2>1, <2>2, <2>3, <2>4
  <2>5. CASE s[n] \notin ToSet(f[n - 1])
    <3> DEFINE t == f[n - 1]
               u == Append(t, s[n])
    <3>1. /\ t \in Seq(S) /\ Len(t) \in Nat /\ DOMAIN t = 1 .. Len(t) /\ Once(t) /\ s[n] \notin ToSet(t)
          /\ s[n] \in S /\ f[n] = u
      BY <2>1, <2>3, <2>5, LenProperties
    <3> HIDE DEF t
    <3>2. /\ Len(u) = Len(t) + 1 /\ ToSet(u) = ToSet(t) \cup {s[n]}
          /\ \A i \in 1 .. Len(t) : u[i] = t[i]
          /\ u[Len(t) + 1] = s[n]
      BY <3>1, AppendedElement
    <3>3. \A i \in 1 .. Len(t) : t[i] # s[n]
      BY <3>1 DEF ToSet
    <3> HIDE DEF u
    <3>4. ASSUME NEW i \in 1 .. Len(t) + 1, NEW j \in 1 .. Len(t) + 1, u[i] = u[j] PROVE i = j
      <4>1. \A k \in 1 .. Len(t) + 1 : k = Len(t) + 1 \/ k \in 1 .. Len(t)
        BY <3>1
      <4>2. CASE i = Len(t) + 1 /\ j = Len(t) + 1
        BY <4>2
      <4>3. CASE i \in 1 .. Len(t) /\ j \in 1 .. Len(t)
        BY <3>1, <3>2, <3>4, <4>3
      <4>4. CASE i = Len(t) + 1 /\ j \in 1 .. Len(t)
        BY <3>2, <3>3, <3>4, <4>4
      <4>5. CASE j = Len(t) + 1 /\ i \in 1 .. Len(t)
        BY <3>2, <3>3, <3>4, <4>5
      <4> QED BY <4>1, <4>2, <4>3, <4>4, <4>5
    <3>5. Once(f[n])
      BY <3>1, <3>2, <3>4
    <3>6. ToSet(f[n]) = Part(n)
      BY <2>1, <2>2, <3>1, <3>2 DEF t
    <3> QED BY <2>0, <3>5, <3>6
  <2> QED BY <2>4, <2>5
<1>5. 0 .. Len(s) \subseteq Good
  <2> HIDE DEF Good
  <2> QED BY <1>2, <1>3, <1>4, UpTo
<1>6. ToSet(f[Len(s)]) = Part(Len(s)) /\ Once(f[Len(s)]) /\ f[Len(s)] \in Seq(S)
  BY <1>1, <1>2, <1>5
<1>7. Part(Len(s)) = ToSet(s)
  BY <1>2 DEF ToSet
<1> HIDE DEF Part
<1>8. Distinct(f[Len(s)])
  <2>1. \A i, j \in DOMAIN f[Len(s)] : f[Len(s)][i] = f[Len(s)][j] => i = j
    BY <1>6, LenProperties
  <2> QED BY <1>6, <2>1, RangeOfDifferent DEF Distinct
<1> QED BY <1>1, <1>6, <1>7, <1>8

LEMMA WithoutFacts ==
  ASSUME NEW S, NEW s \in Seq(S), NEW some
  PROVE  Without(s, some) \in Seq(S) /\ ToSet(Without(s, some)) = ToSet(s) \ some
<1>0. PICK f : LeavesOut(f, S, s, some)
  BY WithoutRecursion
<1>1. /\ f \in [0 .. Len(s) -> Seq(S)] /\ f[0] = <<>> /\ Without(s, some) = f[Len(s)]
      /\ \A n \in 1 .. Len(s) : f[n] = IF s[n] \in some THEN f[n - 1] ELSE Append(f[n - 1], s[n])
  BY <1>0 DEF LeavesOut
<1>2. Len(s) \in Nat /\ DOMAIN s = 1 .. Len(s) /\ \A n \in 1 .. Len(s) : s[n] \in S
  BY LenProperties
<1> DEFINE Part(n) == {s[k] : k \in 1 .. n}
           Good == {n \in 0 .. Len(s) : ToSet(f[n]) = Part(n) \ some}
<1>3. 0 \in Good
  <2>1. f[0] = <<>> /\ ToSet(<<>>) = {} /\ Part(0) = {}
    BY <1>1 DEF ToSet
  <2> QED BY <1>2, <2>1
<1>4. ASSUME NEW n \in 1 .. Len(s), n - 1 \in Good PROVE n \in Good
  <2>0. n \in Nat /\ n \in 0 .. Len(s) /\ n - 1 \in 0 .. Len(s)
    BY <1>2
  <2>1. ToSet(f[n - 1]) = Part(n - 1) \ some /\ f[n - 1] \in Seq(S) /\ s[n] \in S
    BY <1>1, <1>2, <1>4, <2>0
  <2>2. Part(n) = Part(n - 1) \cup {s[n]}
    <3>1. 1 .. n = (1 .. n - 1) \cup {n}
      BY <2>0, <1>2
    <3> QED BY <3>1
  <2>3. f[n] = IF s[n] \in some THEN f[n - 1] ELSE Append(f[n - 1], s[n])
    BY <1>1
  <2>4. ToSet(Append(f[n - 1], s[n])) = ToSet(f[n - 1]) \cup {s[n]}
    BY <2>1, AppendedElement
  <2> HIDE DEF Part
  <2> QED BY <2>0, <2>1, <2>2, <2>3, <2>4
<1>5. 0 .. Len(s) \subseteq Good
  <2> HIDE DEF Good
  <2> QED BY <1>2, <1>3, <1>4, UpTo
<1>6. ToSet(f[Len(s)]) = Part(Len(s)) \ some /\ f[Len(s)] \in Seq(S)
  BY <1>1, <1>2, <1>5, SMTT(30)
<1>7. Part(Len(s)) = ToSet(s)
  BY <1>2 DEF ToSet
<1> QED BY <1>1, <1>6, <1>7

\* Lists joined are the value of the recursion they are defined by.
LEMMA FlattenRecursion ==
  ASSUME NEW S, NEW lists \in Seq(Seq(S))
  PROVE  \E f : /\ f \in [0 .. Len(lists) -> Seq(S)] /\ f[0] = <<>> /\ FlattenSeq(lists) = f[Len(lists)]
                /\ \A n \in 1 .. Len(lists) : f[n] = f[n - 1] \o lists[n]
<1> DEFINE N == Len(lists)
           step == [n \in 1 .. N |-> [b \in Seq(S) |-> b \o lists[n]]]
           Is(f) == f = [n \in 1 .. N |-> IF n = 1 THEN lists[n] ELSE f[n - 1] \o lists[n]]
           F == CHOOSE f : Is(f)
<1>1. N \in Nat /\ \A n \in 1 .. N : lists[n] \in Seq(S)
  BY LenProperties
<1>2. step \in [1 .. N -> [Seq(S) -> Seq(S)]]
  BY <1>1, ConcatProperties
<1>3. <<>> \in Seq(S)
  BY EmptySeq
<1>4. FlattenSeq(lists) = IF N = 0 THEN lists ELSE F[N]
  BY DEF FlattenSeq
<1>5. N = 0 => lists = <<>>
  BY EmptySeq, SeqEqual, LenProperties
<1> HIDE DEF N
<1>6. PICK f \in [0 .. N -> Seq(S)] : f[0] = <<>> /\ \A n \in 1 .. N : f[n] = step[n][f[n - 1]]
  <2>1. step \in StepsOver(N, Seq(S))
    BY <1>2 DEF StepsOver
  <2> HIDE DEF step
  <2>2. \E f : Unfolds(N, Seq(S), <<>>, step, f)
    BY <1>1, <1>3, <2>1, RecursionExists
  <2> QED BY <2>2 DEF Unfolds
<1>7. \A n \in 1 .. N : n - 1 \in 0 .. N /\ f[n] = f[n - 1] \o lists[n]
  <2>1. \A n \in 1 .. N : n - 1 \in 0 .. N
    BY <1>1
  <2>2. \A n \in 1 .. N : f[n - 1] \in Seq(S)
    BY <1>6, <2>1
  <2> QED BY <1>6, <2>1, <2>2
<1>8. ASSUME 1 \in 1 .. N PROVE f[1] = lists[1]
  <2>1. f[1] = f[0] \o lists[1]
    <3>1. f[1] = f[1 - 1] \o lists[1]
      BY <1>7, <1>8
    <3> QED BY <3>1
  <2> QED BY <1>1, <1>6, <1>8, <2>1, ConcatEmptySeq
<1> DEFINE g == [n \in 1 .. N |-> f[n]]
<1>9. Is(g)
  <2>1. ASSUME NEW n \in 1 .. N PROVE g[n] = IF n = 1 THEN lists[n] ELSE g[n - 1] \o lists[n]
    <3>1. CASE n = 1
      BY <1>8, <3>1
    <3>2. CASE n # 1
      <4>1. n - 1 \in 1 .. N
        BY <1>1, <3>2
      <4>2. g[n - 1] = f[n - 1] /\ g[n] = f[n]
        BY <4>1
      <4> QED BY <1>7, <3>2, <4>2
    <3> QED BY <3>1, <3>2
  <2> QED BY <2>1
<1>10. Is(F)
  <2> HIDE DEF Is
  <2> QED BY <1>9
<1> HIDE DEF F
<1> DEFINE Good == {n \in 0 .. N : n # 0 => F[n] = f[n]}
<1>11. 0 .. N \subseteq Good
  <2>1. 0 \in Good
    BY <1>1
  <2>2. ASSUME NEW n \in 1 .. N, n - 1 \in Good PROVE n \in Good
    <3>1. n \in 0 .. N /\ n # 0 /\ (n # 1 => F[n - 1] = f[n - 1])
      BY <1>1, <2>2
    <3>2. F[n] = IF n = 1 THEN lists[n] ELSE F[n - 1] \o lists[n]
      BY <1>10
    <3>3. n = 1 => f[n] = lists[n]
      BY <1>8
    <3> QED BY <1>7, <3>1, <3>2, <3>3
  <2> HIDE DEF Good
  <2> QED BY <1>1, <2>1, <2>2, UpTo
<1>12. FlattenSeq(lists) = f[N]
  <2>1. N # 0 => F[N] = f[N]
    BY <1>1, <1>11
  <2> QED BY <1>4, <1>5, <1>6, <2>1
<1> QED BY <1>6, <1>7, <1>12 DEF N

LEMMA FlattenFacts ==
  ASSUME NEW S, NEW lists \in Seq(Seq(S))
  PROVE  /\ FlattenSeq(lists) \in Seq(S)
         /\ ToSet(FlattenSeq(lists)) = UNION {ToSet(lists[i]) : i \in DOMAIN lists}
         /\ Distinct(FlattenSeq(lists)) =>
              \A i, j \in DOMAIN lists : ToSet(lists[i]) \cap ToSet(lists[j]) # {} => i = j
<1>1. PICK f : /\ f \in [0 .. Len(lists) -> Seq(S)] /\ f[0] = <<>> /\ FlattenSeq(lists) = f[Len(lists)]
               /\ \A n \in 1 .. Len(lists) : f[n] = f[n - 1] \o lists[n]
  BY FlattenRecursion
<1>2. Len(lists) \in Nat /\ DOMAIN lists = 1 .. Len(lists) /\ \A n \in 1 .. Len(lists) : lists[n] \in Seq(S)
  BY LenProperties
<1> DEFINE Part(n) == UNION {ToSet(lists[k]) : k \in 1 .. n}
           Once(t) == \A i, j \in 1 .. Len(t) : t[i] = t[j] => i = j
           Apart(n) == \A i, j \in 1 .. n : ToSet(lists[i]) \cap ToSet(lists[j]) # {} => i = j
           Good == {n \in 0 .. Len(lists) : ToSet(f[n]) = Part(n) /\ (Once(f[n]) => Apart(n))}
<1>3. 0 \in Good
  <2>1. f[0] = <<>> /\ ToSet(<<>>) = {} /\ Part(0) = {} /\ Apart(0)
    BY <1>1 DEF ToSet
  <2> QED BY <1>2, <2>1
<1>4. ASSUME NEW n \in 1 .. Len(lists), n - 1 \in Good PROVE n \in Good
  <2>0. n \in Nat /\ n \in 0 .. Len(lists) /\ n - 1 \in 0 .. Len(lists)
    BY <1>2
  <2> DEFINE a == f[n - 1]
             b == lists[n]
  <2>1. ToSet(a) = Part(n - 1) /\ (Once(a) => Apart(n - 1)) /\ a \in Seq(S) /\ b \in Seq(S) /\ f[n] = a \o b
    BY <1>1, <1>2, <1>4, <2>0
  <2>2. Part(n) = Part(n - 1) \cup ToSet(b)
    <3>1. 1 .. n = (1 .. n - 1) \cup {n}
      BY <2>0, <1>2
    <3> QED BY <3>1
  <2> HIDE DEF a
  <2>3. /\ ToSet(a \o b) = ToSet(a) \cup ToSet(b)
        /\ Len(a) \in Nat /\ Len(b) \in Nat /\ Len(a \o b) = Len(a) + Len(b)
        /\ DOMAIN a = 1 .. Len(a) /\ DOMAIN b = 1 .. Len(b)
        /\ \A i \in 1 .. Len(a) + Len(b) : (a \o b)[i] = IF i <= Len(a) THEN a[i] ELSE b[i - Len(a)]
    BY <2>1, ConcatProperties, RangeOfConcat, LenProperties
  <2>4. ASSUME Once(f[n]) PROVE Apart(n)
    <3>1. ASSUME NEW i \in 1 .. Len(a) + Len(b), NEW j \in 1 .. Len(a) + Len(b), (a \o b)[i] = (a \o b)[j]
          PROVE  i = j
      BY <2>1, <2>3, <2>4, <3>1
    <3>2. Once(a)
      <4>1. ASSUME NEW i \in 1 .. Len(a), NEW j \in 1 .. Len(a), a[i] = a[j] PROVE i = j
        <5>1. i \in 1 .. Len(a) + Len(b) /\ j \in 1 .. Len(a) + Len(b) /\ i <= Len(a) /\ j <= Len(a)
          BY <2>3
        <5> QED BY <2>3, <3>1, <4>1, <5>1
      <4> QED BY <4>1
    <3>3. ASSUME NEW x \in ToSet(a), x \in ToSet(b) PROVE FALSE
      <4>1. PICK i \in 1 .. Len(a) : a[i] = x
        BY <2>3 DEF ToSet
      <4>2. PICK j \in 1 .. Len(b) : b[j] = x
        BY <2>3, <3>3 DEF ToSet
      <4>3. /\ i \in 1 .. Len(a) + Len(b) /\ i <= Len(a)
            /\ Len(a) + j \in 1 .. Len(a) + Len(b) /\ ~(Len(a) + j <= Len(a)) /\ (Len(a) + j) - Len(a) = j
            /\ i # Len(a) + j
        BY <2>3, <4>1, <4>2
      <4>4. (a \o b)[i] = x /\ (a \o b)[Len(a) + j] = x
        BY <2>3, <4>1, <4>2, <4>3
      <4> QED BY <3>1, <4>3, <4>4
    <3>4. Apart(n - 1)
      BY <2>1, <3>2
    <3>5. ASSUME NEW i \in 1 .. n, NEW j \in 1 .. n, ToSet(lists[i]) \cap ToSet(lists[j]) # {} PROVE i = j
      <4>1. \A k \in 1 .. n : k = n \/ k \in 1 .. n - 1
        BY <2>0
      <4>2. \A k \in 1 .. n - 1 : ToSet(lists[k]) \subseteq ToSet(a)
        BY <2>1
      <4>3. CASE i = n /\ j = n
        BY <4>3
      <4>4. CASE i \in 1 .. n - 1 /\ j \in 1 .. n - 1
        BY <3>4, <3>5, <4>4
      <4>5. CASE i = n /\ j \in 1 .. n - 1
        BY <3>3, <3>5, <4>2, <4>5
      <4>6. CASE j = n /\ i \in 1 .. n - 1
        BY <3>3, <3>5, <4>2, <4>6
      <4> QED BY <4>1, <4>3, <4>4, <4>5, <4>6
    <3> QED BY <3>5
  <2>5. ToSet(f[n]) = Part(n)
    BY <2>1, <2>2, <2>3
  <2> HIDE DEF Part
  <2> QED BY <2>0, <2>4, <2>5
<1>5. 0 .. Len(lists) \subseteq Good
  <2> HIDE DEF Good
  <2> QED BY <1>2, <1>3, <1>4, UpTo
<1>6. /\ ToSet(f[Len(lists)]) = Part(Len(lists)) /\ (Once(f[Len(lists)]) => Apart(Len(lists)))
      /\ f[Len(lists)] \in Seq(S)
  <2>1. Len(lists) \in 0 .. Len(lists)
    BY <1>2
  <2>2. Len(lists) \in Good
    <3> HIDE DEF Good
    <3> QED BY <1>5, <2>1
  <2>3. f[Len(lists)] \in Seq(S)
    BY <1>1, <2>1
  <2> HIDE DEF Part, Once, Apart
  <2> QED BY <2>2, <2>3
<1>7. Part(Len(lists)) = UNION {ToSet(lists[i]) : i \in DOMAIN lists}
  BY <1>2
<1>8. Distinct(f[Len(lists)]) => Once(f[Len(lists)])
  <2>1. Distinct(f[Len(lists)]) => \A i, j \in DOMAIN f[Len(lists)] : f[Len(lists)][i] = f[Len(lists)][j] => i = j
    BY <1>6, DistinctTells
  <2>2. DOMAIN f[Len(lists)] = 1 .. Len(f[Len(lists)])
    BY <1>6, LenProperties
  <2> QED BY <2>1, <2>2
<1> HIDE DEF Part
<1> QED BY <1>1, <1>2, <1>6, <1>7, <1>8

-----------------------------------------------------------------------------
(* Lists, and the records of a fold. *)

LEMMA ListFacts ==
  ASSUME NEW s, IsList(s)
  PROVE  /\ s \in Seq(ToSet(s)) /\ Len(s) \in Nat /\ DOMAIN s = 1 .. Len(s)
         /\ s = [i \in 1 .. Len(s) |-> s[i]] /\ \A i \in 1 .. Len(s) : s[i] \in ToSet(s)
<1>1. s \in Seq(ToSet(s))
  BY DEF IsList
<1>2. Len(s) \in Nat /\ DOMAIN s = 1 .. Len(s) /\ s \in [1 .. Len(s) -> ToSet(s)]
  BY <1>1, LenProperties
<1> QED BY <1>1, <1>2

LEMMA PlacesMakeList ==
  ASSUME NEW n \in Nat, NEW t, t = [i \in 1 .. n |-> t[i]]
  PROVE  IsList(t) /\ Len(t) = n /\ DOMAIN t = 1 .. n
<1>1. DOMAIN t = 1 .. n
  OBVIOUS
<1>2. \A i \in 1 .. n : t[i] \in ToSet(t)
  BY <1>1 DEF ToSet
<1>3. t \in [1 .. n -> ToSet(t)]
  BY <1>2
<1>4. t \in Seq(ToSet(t))
  BY <1>3
<1>5. Len(t) = n
  BY <1>1, <1>4, LenProperties
<1> QED BY <1>1, <1>4, <1>5 DEF IsList

LEMMA ListOf ==
  ASSUME NEW S, NEW s \in Seq(S)
  PROVE  IsList(s)
<1>1. Len(s) \in Nat /\ s \in [1 .. Len(s) -> S]
  BY LenProperties
<1>2. s = [i \in 1 .. Len(s) |-> s[i]]
  BY <1>1
<1> QED BY <1>1, <1>2, PlacesMakeList

LEMMA ListInto ==
  ASSUME NEW S, NEW s, IsList(s), ToSet(s) \subseteq S
  PROVE  s \in Seq(S)
<1>1. Len(s) \in Nat /\ s = [i \in 1 .. Len(s) |-> s[i]] /\ \A i \in 1 .. Len(s) : s[i] \in ToSet(s)
  BY ListFacts
<1>2. s \in [1 .. Len(s) -> S]
  BY <1>1
<1> QED BY <1>1, <1>2

LEMMA JoinedLists ==
  ASSUME NEW lists, IsList(lists), \A i \in DOMAIN lists : IsList(lists[i])
  PROVE  /\ IsList(FlattenSeq(lists))
         /\ ToSet(FlattenSeq(lists)) = UNION {ToSet(lists[i]) : i \in DOMAIN lists}
         /\ Distinct(FlattenSeq(lists)) =>
              \A i, j \in DOMAIN lists : ToSet(lists[i]) \cap ToSet(lists[j]) # {} => i = j
<1> DEFINE S == UNION {ToSet(lists[i]) : i \in DOMAIN lists}
<1>1. \A i \in DOMAIN lists : lists[i] \in Seq(S)
  <2>1. \A i \in DOMAIN lists : ToSet(lists[i]) \subseteq S
    OBVIOUS
  <2> HIDE DEF S
  <2> QED BY <2>1, ListInto
<1> HIDE DEF S
<1>2. lists \in Seq(Seq(S))
  <2>1. ToSet(lists) \subseteq Seq(S)
    BY <1>1 DEF ToSet
  <2> QED BY <2>1, ListInto
<1>3. /\ FlattenSeq(lists) \in Seq(S)
      /\ ToSet(FlattenSeq(lists)) = UNION {ToSet(lists[i]) : i \in DOMAIN lists}
      /\ Distinct(FlattenSeq(lists)) =>
           \A i, j \in DOMAIN lists : ToSet(lists[i]) \cap ToSet(lists[j]) # {} => i = j
  BY <1>2, FlattenFacts
<1>4. IsList(FlattenSeq(lists))
  BY <1>3, ListOf
<1> QED BY <1>3, <1>4

LEMMA ThinnedList ==
  ASSUME NEW s, IsList(s)
  PROVE  IsList(OnceEach(s)) /\ ToSet(OnceEach(s)) = ToSet(s) /\ Distinct(OnceEach(s))
BY ListFacts, OnceEachFacts, ListOf

LEMMA MergedRecords ==
  ASSUME NEW lists, IsList(lists), \A i \in DOMAIN lists : IsList(lists[i])
  PROVE  /\ IsList(MergeRecords(lists)) /\ Distinct(MergeRecords(lists))
         /\ ToSet(MergeRecords(lists)) = UNION {ToSet(lists[i]) : i \in DOMAIN lists}
BY JoinedLists, ThinnedList DEF MergeRecords

LEMMA ShortLists ==
  /\ IsList(<<>>) /\ ToSet(<<>>) = {}
  /\ \A x : IsList(<<x>>) /\ ToSet(<<x>>) = {x} /\ Len(<<x>>) = 1 /\ <<x>>[1] = x
<1>1. IsList(<<>>) /\ ToSet(<<>>) = {}
  <2>1. ToSet(<<>>) = {}
    BY DEF ToSet
  <2>2. <<>> \in Seq({})
    BY EmptySeq
  <2> QED BY <2>1, <2>2 DEF IsList
<1>2. ASSUME NEW x PROVE IsList(<<x>>) /\ ToSet(<<x>>) = {x} /\ Len(<<x>>) = 1 /\ <<x>>[1] = x
  <2>1. <<x>> \in Seq({x}) /\ Len(<<x>>) = 1 /\ <<x>>[1] = x
    OBVIOUS
  <2>2. DOMAIN <<x>> = {1}
    OBVIOUS
  <2> QED BY <2>1, <2>2, ListOf DEF ToSet
<1> QED BY <1>1, <1>2

\* What a task hands in is as TaskInput says.
LEMMA InputFacts ==
  ASSUME NEW input, TaskInput(input)
  PROVE  /\ IsList(input.outcomes) /\ IsList(input.claims) /\ IsList(input.calculations)
         /\ IsList(input.conflicts) /\ IsList(input.limitations) /\ IsList(input.plan.obligations)
         /\ \A d \in input.plan.dependencies : d.minimum \in Nat
         /\ \A outcome \in ToSet(input.outcomes) : IsList(outcome.seen) /\ IsList(outcome.errors)
         /\ \A item \in ToSet(input.claims) \cup ToSet(input.calculations) :
              {"kind", "use", "over"} \subseteq DOMAIN item /\ IsList(item.over)
         /\ \A item \in ToSet(input.conflicts) \cup ToSet(input.limitations) : IsList(item.over)
         /\ DOMAIN input = {"plan", "outcomes", "claims", "calculations", "conflicts", "limitations"}
BY DEF TaskInput

\* Each operation of the plan has its outcome, which no other outcome is of.
Owned(input) ==
  /\ Distinct(Map(LAMBDA outcome : outcome.operation, input.outcomes))
  /\ {outcome.operation : outcome \in ToSet(input.outcomes)} = OperationsOf(input.plan)

LEMMA OutcomeFacts ==
  ASSUME NEW input, TaskInput(input), Owned(input)
  PROVE  /\ \A o \in OperationsOf(input.plan) :
              /\ OutcomeOf(input, o) \in ToSet(input.outcomes)
              /\ OutcomeOf(input, o).operation = o
         /\ \A x \in ToSet(input.outcomes) :
              x.operation \in OperationsOf(input.plan) /\ OutcomeOf(input, x.operation) = x
<1>1. \A o \in OperationsOf(input.plan) : \E x \in ToSet(input.outcomes) : x.operation = o
  BY DEF Owned
<1>2. \A x \in ToSet(input.outcomes) : x.operation \in OperationsOf(input.plan)
  BY DEF Owned
<1>3. ASSUME NEW x \in ToSet(input.outcomes), NEW y \in ToSet(input.outcomes), x.operation = y.operation
      PROVE  x = y
  <2> DEFINE s == input.outcomes
             t == Map(LAMBDA outcome : outcome.operation, s)
  <2>1. Len(s) \in Nat /\ DOMAIN s = 1 .. Len(s)
    BY InputFacts, ListFacts
  <2>2. t = [i \in 1 .. Len(s) |-> s[i].operation]
    BY <2>1 DEF Map
  <2>3. Distinct(t)
    BY DEF Owned
  <2> HIDE DEF t, s
  <2>4. IsList(t) /\ DOMAIN t = 1 .. Len(s) /\ \A i \in 1 .. Len(s) : t[i] = s[i].operation
    <3>1. t = [i \in 1 .. Len(s) |-> t[i]]
      BY <2>2
    <3> QED BY <2>1, <2>2, <3>1, PlacesMakeList
  <2>5. \A i, j \in DOMAIN t : t[i] = t[j] => i = j
    BY <2>3, <2>4, ListFacts, DistinctTells
  <2>6. PICK i \in 1 .. Len(s) : x = s[i]
    BY <2>1 DEF ToSet, s
  <2>7. PICK j \in 1 .. Len(s) : y = s[j]
    BY <2>1 DEF ToSet, s
  <2> QED BY <1>3, <2>4, <2>5, <2>6, <2>7
<1> QED BY <1>1, <1>2, <1>3 DEF OutcomeOf

\* The observations are what the operations saw, each under its operation.
LEMMA ObservationFacts ==
  ASSUME NEW input, TaskInput(input), Owned(input)
  PROVE  /\ IsList(Observations(input))
         /\ \A p \in OperationsOf(input.plan) :
              /\ IsList(ObservationsOf(input, p))
              /\ ToSet(ObservationsOf(input, p)) =
                   {[operation |-> p, key |-> k] : k \in ToSet(OutcomeOf(input, p).seen)}
         /\ ToSet(Observations(input)) =
              UNION {ToSet(ObservationsOf(input, p)) : p \in OperationsOf(input.plan)}
<1>1. ASSUME NEW p \in OperationsOf(input.plan)
      PROVE  /\ IsList(ObservationsOf(input, p))
             /\ ToSet(ObservationsOf(input, p)) =
                  {[operation |-> p, key |-> k] : k \in ToSet(OutcomeOf(input, p).seen)}
  <2> DEFINE s == OutcomeOf(input, p).seen
             t == ObservationsOf(input, p)
  <2>1. IsList(s)
    BY OutcomeFacts, InputFacts
  <2>2. t = [i \in DOMAIN s |-> [operation |-> p, key |-> s[i]]]
    BY DEF ObservationsOf, Map
  <2> HIDE DEF s, t
  <2>3. Len(s) \in Nat /\ DOMAIN s = 1 .. Len(s)
    BY <2>1, ListFacts
  <2>4. t = [i \in 1 .. Len(s) |-> t[i]]
    BY <2>2, <2>3
  <2>5. IsList(t)
    BY <2>3, <2>4, PlacesMakeList
  <2>6. ToSet(t) = {[operation |-> p, key |-> k] : k \in ToSet(s)}
    BY <2>2, <2>3 DEF ToSet
  <2> QED BY <2>5, <2>6 DEF s, t
<1> DEFINE o == input.plan.obligations
           lists == Map(LAMBDA x : ObservationsOf(input, x.operation), o)
<1>2. IsList(o) /\ Len(o) \in Nat /\ DOMAIN o = 1 .. Len(o)
  BY InputFacts, ListFacts
<1>3. lists = [i \in 1 .. Len(o) |-> ObservationsOf(input, o[i].operation)]
  BY <1>2 DEF Map
<1>4. \A i \in 1 .. Len(o) : o[i].operation \in OperationsOf(input.plan)
  BY <1>2 DEF OperationsOf, ToSet
<1>5. \A p \in OperationsOf(input.plan) : \E i \in 1 .. Len(o) : o[i].operation = p
  BY <1>2 DEF OperationsOf, ToSet
<1>6. Observations(input) = FlattenSeq(lists)
  BY DEF Observations
<1> HIDE DEF o, lists
<1>7. IsList(lists) /\ DOMAIN lists = 1 .. Len(o)
  <2>1. lists = [i \in 1 .. Len(o) |-> lists[i]]
    BY <1>3
  <2> QED BY <1>2, <2>1, PlacesMakeList
<1>8. \A i \in DOMAIN lists : IsList(lists[i])
  BY <1>1, <1>3, <1>4, <1>7
<1>9. /\ IsList(FlattenSeq(lists))
      /\ ToSet(FlattenSeq(lists)) = UNION {ToSet(lists[i]) : i \in DOMAIN lists}
  BY <1>7, <1>8, JoinedLists
<1>10. UNION {ToSet(lists[i]) : i \in DOMAIN lists} =
         UNION {ToSet(ObservationsOf(input, p)) : p \in OperationsOf(input.plan)}
  BY <1>3, <1>4, <1>5, <1>7
<1> QED BY <1>1, <1>6, <1>9, <1>10

LEMMA ErrorFacts ==
  ASSUME NEW input, TaskInput(input), Owned(input)
  PROVE  IsList(Records(input).errors)
<1>1. ASSUME NEW p \in OperationsOf(input.plan) PROVE IsList(ErrorsOf(input, p))
  <2> DEFINE s == OutcomeOf(input, p).errors
             t == Map(LAMBDA code : [operation |-> p, code |-> code], s)
  <2>1. IsList(s)
    BY OutcomeFacts, InputFacts
  <2>2. t = [i \in DOMAIN s |-> [operation |-> p, code |-> s[i]]]
    BY DEF Map
  <2>3. ErrorsOf(input, p) = OnceEach(t)
    BY DEF ErrorsOf
  <2> HIDE DEF s, t
  <2>4. Len(s) \in Nat /\ DOMAIN s = 1 .. Len(s)
    BY <2>1, ListFacts
  <2>5. t = [i \in 1 .. Len(s) |-> t[i]]
    BY <2>2, <2>4
  <2>6. IsList(t)
    BY <2>4, <2>5, PlacesMakeList
  <2> QED BY <2>3, <2>6, ThinnedList
<1> DEFINE o == input.plan.obligations
           lists == Map(LAMBDA x : ErrorsOf(input, x.operation), o)
<1>2. IsList(o) /\ Len(o) \in Nat /\ DOMAIN o = 1 .. Len(o)
  BY InputFacts, ListFacts
<1>3. lists = [i \in 1 .. Len(o) |-> ErrorsOf(input, o[i].operation)]
  BY <1>2 DEF Map
<1>4. \A i \in 1 .. Len(o) : o[i].operation \in OperationsOf(input.plan)
  BY <1>2 DEF OperationsOf, ToSet
<1>6. Records(input).errors = FlattenSeq(lists)
  BY DEF Records
<1> HIDE DEF o, lists
<1>7. IsList(lists) /\ DOMAIN lists = 1 .. Len(o)
  <2>1. lists = [i \in 1 .. Len(o) |-> lists[i]]
    BY <1>3
  <2> QED BY <1>2, <2>1, PlacesMakeList
<1>8. \A i \in DOMAIN lists : IsList(lists[i])
  BY <1>1, <1>3, <1>4, <1>7
<1> QED BY <1>6, <1>7, <1>8, JoinedLists

\* The records of a fold are lists.
LEMMA RecordsAreLists ==
  ASSUME NEW input, TaskInput(input), Owned(input)
  PROVE  \A field \in Fields : IsList(Records(input)[field])
<1> DEFINE claims == Map(LAMBDA c : ClaimRecord(input, c), input.claims)
           calculations == Map(LAMBDA c : CalculationRecord(input, c), input.calculations)
           conflicts == Map(LAMBDA c : CodeRecord(input, c), input.conflicts)
           limitations == Map(LAMBDA c : CodeRecord(input, c), input.limitations)
<1>1. /\ Records(input).observations = Observations(input)
      /\ Records(input).claims = claims /\ Records(input).calculations = calculations
      /\ Records(input).conflicts = OnceEach(conflicts)
      /\ Records(input).limitations = OnceEach(limitations)
  BY DEF Records
<1>2. IsList(claims)
  <2>1. IsList(input.claims) /\ Len(input.claims) \in Nat /\ DOMAIN input.claims = 1 .. Len(input.claims)
    BY InputFacts, ListFacts
  <2>2. claims = [i \in 1 .. Len(input.claims) |-> ClaimRecord(input, input.claims[i])]
    BY <2>1 DEF Map
  <2> HIDE DEF claims
  <2>3. claims = [i \in 1 .. Len(input.claims) |-> claims[i]]
    BY <2>2
  <2> QED BY <2>1, <2>3, PlacesMakeList
<1>3. IsList(calculations)
  <2>1. IsList(input.calculations) /\ Len(input.calculations) \in Nat
        /\ DOMAIN input.calculations = 1 .. Len(input.calculations)
    BY InputFacts, ListFacts
  <2>2. calculations = [i \in 1 .. Len(input.calculations) |-> CalculationRecord(input, input.calculations[i])]
    BY <2>1 DEF Map
  <2> HIDE DEF calculations
  <2>3. calculations = [i \in 1 .. Len(input.calculations) |-> calculations[i]]
    BY <2>2
  <2> QED BY <2>1, <2>3, PlacesMakeList
<1>4. IsList(conflicts)
  <2>1. IsList(input.conflicts) /\ Len(input.conflicts) \in Nat
        /\ DOMAIN input.conflicts = 1 .. Len(input.conflicts)
    BY InputFacts, ListFacts
  <2>2. conflicts = [i \in 1 .. Len(input.conflicts) |-> CodeRecord(input, input.conflicts[i])]
    BY <2>1 DEF Map
  <2> HIDE DEF conflicts
  <2>3. conflicts = [i \in 1 .. Len(input.conflicts) |-> conflicts[i]]
    BY <2>2
  <2> QED BY <2>1, <2>3, PlacesMakeList
<1>5. IsList(limitations)
  <2>1. IsList(input.limitations) /\ Len(input.limitations) \in Nat
        /\ DOMAIN input.limitations = 1 .. Len(input.limitations)
    BY InputFacts, ListFacts
  <2>2. limitations = [i \in 1 .. Len(input.limitations) |-> CodeRecord(input, input.limitations[i])]
    BY <2>1 DEF Map
  <2> HIDE DEF limitations
  <2>3. limitations = [i \in 1 .. Len(input.limitations) |-> limitations[i]]
    BY <2>2
  <2> QED BY <2>1, <2>3, PlacesMakeList
<1> HIDE DEF claims, calculations, conflicts, limitations
<1>6. IsList(OnceEach(conflicts)) /\ IsList(OnceEach(limitations))
  BY <1>4, <1>5, ThinnedList
<1>7. IsList(Observations(input)) /\ IsList(Records(input).errors)
  BY ObservationFacts, ErrorFacts
<1> QED BY <1>1, <1>2, <1>3, <1>6, <1>7 DEF Fields

-----------------------------------------------------------------------------
(* The inductive invariant. *)

\* A step that was left out, one that was skipped, the gate, and a leaf that was folded.
StepLeftOut(step) ==
  step.state = "not_requested" /\ step.input = NoLeaf /\ step.leaf = NoLeaf /\ step.limits = <<>>
StepSkipped(step) ==
  /\ step.state = "skipped_research_dependency" /\ step.input = NoLeaf /\ step.leaf = NoLeaf
  /\ step.limits = <<SkipLimitation(step.row)>>
Shut(leaf) == CanonicalSubject(leaf) = NoSubject
StepIdentified(step) ==
  /\ step.row = Gate /\ step.input = NoLeaf /\ step.leaf \in IdentityLeaves
  /\ step.state = IF Shut(step.leaf) THEN "blocked" ELSE step.leaf.status
  /\ step.limits = IF Shut(step.leaf) THEN <<IdentityLimitation>> ELSE <<>>
StepFolded(step) ==
  /\ step.row # Gate /\ TaskInput(step.input) /\ Foldable(step.input)
  /\ step.leaf = Fold(step.input) /\ step.state = FoldedStatus(step.input) /\ step.limits = <<>>
StepHolds(step) ==
  StepLeftOut(step) \/ StepSkipped(step) \/ StepIdentified(step) \/ StepFolded(step)

\* The steps behind us are the first of the plan.
PlanFollowed ==
  /\ workflow \in DOMAIN Plans
  /\ IsList(steps) /\ Len(steps) <= Len(Plans[workflow])
  /\ \A i \in 1 .. Len(steps) : steps[i].row = Plans[workflow][i] /\ StepHolds(steps[i])
IsOutcome(outcome) == IsList(outcome.seen) /\ IsList(outcome.errors)
SessionKept == session = NoLeaf \/ IsOutcome(session)
ResultIsTheFold ==
  phase = "done" =>
    Len(steps) = Len(Plans[workflow]) /\ result = FoldWorkflow(workflow, mode, steps)
WorkflowInv == PlanFollowed /\ SessionKept /\ ResultIsTheFold

-----------------------------------------------------------------------------
(* The plans, and the leaves. *)

LEMMA PlanFacts ==
  ASSUME NEW w \in DOMAIN Plans
  PROVE  /\ IsList(Plans[w]) /\ Len(Plans[w]) \in Nat /\ Len(Plans[w]) >= 1
         /\ DOMAIN Plans[w] = 1 .. Len(Plans[w])
         /\ w \in Gates => Plans[w][1] = Gate
         /\ w = "market_overview_research" => Plans[w][1].depends = {}
         /\ w \notin Gates \cup {"market_overview_research"} => Len(Plans[w]) = 1
<1>1. DOMAIN Plans =
        {"single_security_valuation", "valuation_comparison", "theme_report_research",
         "single_security_research", "market_overview_research", "new_security_research"}
  BY DEF Plans
<1>2. CASE w = "single_security_valuation"
  <2>1. Plans[w] = <<Needed("valuation", "security_valuation")>>
    BY <1>2 DEF Plans
  <2> QED BY <1>2, <2>1, ShortLists, ListFacts DEF Gates
<1>3. CASE w = "valuation_comparison"
  <2>1. Plans[w] = <<Needed("comparison", "valuation_compare")>>
    BY <1>3 DEF Plans
  <2> QED BY <1>3, <2>1, ShortLists, ListFacts DEF Gates
<1>4. CASE w = "theme_report_research"
  <2>1. Plans[w] = <<Needed("report_research", "research_content")>>
    BY <1>4 DEF Plans
  <2> QED BY <1>4, <2>1, ShortLists, ListFacts DEF Gates
<1>5. CASE w = "single_security_research"
  <2> DEFINE t == SingleSecurityPlan
  <2>1. Plans[w] = t
    BY <1>5 DEF Plans
  <2>2. t = [i \in 1 .. 7 |-> t[i]] /\ t[1] = Gate
    BY DEF SingleSecurityPlan
  <2> HIDE DEF t
  <2>3. IsList(t) /\ Len(t) = 7 /\ DOMAIN t = 1 .. 7
    BY <2>2, PlacesMakeList
  <2> QED BY <1>5, <2>1, <2>2, <2>3 DEF Gates
<1>6. CASE w = "market_overview_research"
  <2> DEFINE t == MarketOverviewPlan
  <2>1. Plans[w] = t
    BY <1>6 DEF Plans
  <2>2. t = [i \in 1 .. 6 |-> t[i]] /\ t[1].depends = {}
    BY DEF MarketOverviewPlan, Row
  <2> HIDE DEF t
  <2>3. IsList(t) /\ Len(t) = 6 /\ DOMAIN t = 1 .. 6
    BY <2>2, PlacesMakeList
  <2> QED BY <1>6, <2>1, <2>2, <2>3 DEF Gates
<1>7. CASE w = "new_security_research"
  <2> DEFINE rows == <<<<"institutional_coverage", "research_content">>,
                       <<"valuation", "security_valuation">>, <<"board_membership", "market_signals">>,
                       <<"fund_flow", "capital_events">>, <<"dragon_tiger", "capital_events">>,
                       <<"lockup", "capital_events">>, <<"margin_trading", "capital_events">>>>
             mapped == Map(LAMBDA row : AfterGate(row[1], row[2], "required_evidence"), rows)
  <2>1. Plans[w] = <<Gate>> \o mapped
    BY <1>7 DEF Plans, NewSecurityPlan
  <2>2. DOMAIN rows = 1 .. 7
    OBVIOUS
  <2>3. mapped = [i \in 1 .. 7 |-> AfterGate(rows[i][1], rows[i][2], "required_evidence")]
    BY <2>2 DEF Map
  <2> HIDE DEF rows, mapped
  <2>4. mapped = [i \in 1 .. 7 |-> mapped[i]]
    BY <2>3
  <2>5. IsList(mapped) /\ Len(mapped) = 7
    BY <2>4, PlacesMakeList
  <2> DEFINE S == ToSet(<<Gate>>) \cup ToSet(mapped)
  <2>6. <<Gate>> \in Seq(S) /\ mapped \in Seq(S) /\ Len(<<Gate>>) = 1 /\ <<Gate>>[1] = Gate
    BY <2>5, ShortLists, ListInto
  <2> DEFINE first == <<Gate>>
             both == first \o mapped
  <2>7. first \in Seq(S) /\ Len(first) = 1 /\ first[1] = Gate /\ Plans[w] = both
    BY <2>1, <2>6
  <2> HIDE DEF S, first
  <2>8. both \in Seq(S) /\ Len(both) = 8 /\ both[1] = Gate
    <3>1. /\ both \in Seq(S) /\ Len(both) = Len(first) + Len(mapped)
          /\ \A i \in 1 .. Len(first) + Len(mapped) :
               both[i] = IF i <= Len(first) THEN first[i] ELSE mapped[i - Len(first)]
      BY <2>6, <2>7, ConcatProperties
    <3> HIDE DEF both
    <3>2. 1 \in 1 .. Len(first) + Len(mapped)
      BY <2>5, <2>7
    <3> QED BY <2>5, <2>7, <3>1, <3>2
  <2> HIDE DEF both
  <2>9. IsList(both)
    BY <2>8, ListOf
  <2>10. DOMAIN both = 1 .. 8
    BY <2>8, <2>9, ListFacts
  <2> QED BY <1>7, <2>7, <2>8, <2>9, <2>10 DEF Gates
<1> QED BY <1>1, <1>2, <1>3, <1>4, <1>5, <1>6, <1>7

LEMMA IdentityFacts ==
  ASSUME NEW leaf \in IdentityLeaves
  PROVE  /\ leaf = IdentityLeaf(leaf.status, leaf.records) /\ leaf # NoLeaf
         /\ leaf.status \in Statuses
         /\ \A field \in Fields : IsList(leaf.records[field])
         /\ CanonicalSubject(leaf) \in Securities \cup {NoSubject}
<1>1. PICK status, records :
        /\ leaf = IdentityLeaf(status, records) /\ status \in Statuses
        /\ \/ /\ records = [NoRecords EXCEPT !.limitations = <<CodeOnly("identity_not_resolved")>>]
              /\ status = "blocked"
           \/ \E s \in Securities :
                \/ records = Found(s, <<>>)
                \/ records = Found(s, <<CodeOnly("experimental_identity_sources")>>)
                \/ /\ records = [NoRecords EXCEPT
                        !.observations = <<SeenIdentity(s)>>,
                        !.conflicts = <<CodeOnly("source_identity_conflict")>>,
                        !.limitations = <<CodeOnly("identity_conflict")>>]
                   /\ status = "blocked"
  BY DEF IdentityLeaves, Statuses
<1>2. /\ leaf = IdentityLeaf(leaf.status, leaf.records) /\ leaf.status = status
      /\ leaf.records = records
  BY <1>1 DEF IdentityLeaf
<1>3. leaf # NoLeaf
  <2>1. DOMAIN leaf # {"status"}
    BY <1>1 DEF IdentityLeaf
  <2> QED BY <2>1 DEF NoLeaf
<1>4. \A field \in Fields : IsList(records[field])
  <2>1. \A x : IsList(<<x>>)
    BY ShortLists
  <2>2. IsList(<<>>)
    BY ShortLists
  <2>3. \A field \in Fields : IsList(NoRecords[field])
    BY <2>2 DEF NoRecords
  <2>4. DOMAIN NoRecords = Fields
    BY DEF NoRecords
  <2>5. ASSUME NEW s, NEW l, IsList(l) PROVE \A field \in Fields : IsList(Found(s, l)[field])
    BY <2>1, <2>3, <2>4, <2>5 DEF Found, Fields
  <2>6. \A s : /\ \A field \in Fields : IsList(Found(s, <<>>)[field])
               /\ \A field \in Fields : IsList(Found(s, <<CodeOnly("experimental_identity_sources")>>)[field])
    BY <2>1, <2>2, <2>5
  <2>7. \A s, c : \A field \in Fields :
          IsList([NoRecords EXCEPT !.observations = <<s>>, !.conflicts = <<c>>,
                                   !.limitations = <<CodeOnly("identity_conflict")>>][field])
    BY <2>1, <2>3, <2>4 DEF Fields
  <2>8. \A field \in Fields :
          IsList([NoRecords EXCEPT !.limitations = <<CodeOnly("identity_not_resolved")>>][field])
    BY <2>1, <2>3, <2>4 DEF Fields
  <2> QED BY <1>1, <2>6, <2>7, <2>8
<1>5. CanonicalSubject(leaf) \in Securities \cup {NoSubject}
  <2>1. CASE leaf.status = "blocked"
    BY <2>1 DEF CanonicalSubject
  <2>2. CASE leaf.status # "blocked"
    <3>1. PICK s \in Securities : records.claims = <<[kind |-> "security_identity", about |-> s]>>
      BY <1>1, <1>2, <2>2 DEF Found, NoRecords, Fields
    <3>2. leaf.records.claims[1].about = s
      BY <1>2, <3>1
    <3> QED BY <3>2 DEF CanonicalSubject
  <2> QED BY <2>1, <2>2
<1> QED BY <1>1, <1>2, <1>3, <1>4, <1>5

LEMMA FoldFacts ==
  ASSUME NEW input
  PROVE  /\ Fold(input) # NoLeaf /\ Fold(input).status = FoldedStatus(input)
         /\ Fold(input).records = Records(input)
         /\ Fold(input).brief = [task |-> input.plan.task, status |-> FoldedStatus(input),
                                 records |-> Records(input)]
         /\ FoldedStatus(input) \in Statuses
<1>1. DOMAIN Fold(input) # {"status"}
  BY DEF Fold
<1>2. Fold(input) # NoLeaf
  BY <1>1 DEF NoLeaf
<1>3. /\ Fold(input).status = FoldedStatus(input) /\ Fold(input).records = Records(input)
      /\ Fold(input).brief = [task |-> input.plan.task, status |-> FoldedStatus(input),
                              records |-> Records(input)]
  BY DEF Fold
<1>4. FoldedStatus(input) \in Statuses
  BY DEF FoldedStatus, StatusFrom, Statuses
<1> QED BY <1>2, <1>3, <1>4

\* What a step has of records and of limits are lists.
LEMMA StepLists ==
  ASSUME NEW step, StepHolds(step)
  PROVE  IsList(step.limits) /\ \A field \in Fields : IsList(LeafRecords(step)[field])
<1>0. \A x : IsList(<<x>>)
  BY ShortLists
<1>1. IsList(<<>>)
  BY ShortLists
<1>2. CASE step.leaf = NoLeaf
  <2>1. step.limits = <<>> \/ step.limits = <<SkipLimitation(step.row)>>
    BY <1>2, IdentityFacts, FoldFacts
    DEF StepHolds, StepLeftOut, StepSkipped, StepIdentified, StepFolded
  <2>2. LeafRecords(step) = NoRecords
    BY <1>2 DEF LeafRecords, Executed
  <2> QED BY <1>0, <1>1, <2>1, <2>2 DEF NoRecords
<1>3. CASE step.leaf # NoLeaf /\ StepIdentified(step)
  BY <1>0, <1>1, <1>3, IdentityFacts DEF StepIdentified, LeafRecords, Executed
<1>4. CASE step.leaf # NoLeaf /\ StepFolded(step)
  <2>1. Owned(step.input) /\ TaskInput(step.input)
    BY <1>4 DEF StepFolded, Foldable, Owned
  <2>2. \A field \in Fields : IsList(Records(step.input)[field])
    BY <2>1, RecordsAreLists
  <2>3. LeafRecords(step) = Records(step.input)
    BY <1>4, FoldFacts DEF StepFolded, LeafRecords, Executed
  <2> QED BY <1>1, <1>4, <2>2, <2>3 DEF StepFolded
<1> QED BY <1>2, <1>3, <1>4 DEF StepHolds, StepLeftOut, StepSkipped

\* What the owners of the session and of the indices answer.
LEMMA FixedIndicesThinned ==
  ASSUME NEW some
  PROVE  IsList(Without(FixedIndices, some))
<1> DEFINE s == FixedIndices
<1>1. s = [i \in 1 .. 4 |-> s[i]]
  BY DEF FixedIndices
<1> DEFINE S == ToSet(s)
           left == Without(s, some)
<1> HIDE DEF s
<1>2. s \in Seq(S)
  BY <1>1, PlacesMakeList DEF IsList
<1> HIDE DEF S
<1>3. left \in Seq(S)
  BY <1>2, WithoutFacts
<1> HIDE DEF left
<1>4. IsList(left)
  BY <1>3, ListOf
<1> QED BY <1>4 DEF left, s

LEMMA IndexAnswers ==
  ASSUME NEW scope, NEW proof, NEW outcome \in IndexOutcomes(scope, proof)
  PROVE  IsOutcome(outcome)
<1>1. \/ outcome = Outcome("overview_indices", <<>>, <<"index_session_context_unproved">>)
      \/ \E missing \in SUBSET ToSet(FixedIndices) :
           outcome = Outcome("overview_indices",
             Map(LAMBDA i : Key(scope, <<i, proof.seen[1].about>>), Without(FixedIndices, missing)),
             Without(FixedIndices, ToSet(FixedIndices) \ missing))
  BY DEF IndexOutcomes
<1>2. CASE outcome = Outcome("overview_indices", <<>>, <<"index_session_context_unproved">>)
  <2>1. outcome.seen = <<>> /\ outcome.errors = <<"index_session_context_unproved">>
    BY <1>2 DEF Outcome
  <2> QED BY <2>1, ShortLists DEF IsOutcome
<1>3. ASSUME NEW missing \in SUBSET ToSet(FixedIndices),
             outcome = Outcome("overview_indices",
               Map(LAMBDA i : Key(scope, <<i, proof.seen[1].about>>), Without(FixedIndices, missing)),
               Without(FixedIndices, ToSet(FixedIndices) \ missing))
      PROVE  IsOutcome(outcome)
  <2> DEFINE s == Without(FixedIndices, missing)
             u == Without(FixedIndices, ToSet(FixedIndices) \ missing)
             t == Map(LAMBDA i : Key(scope, <<i, proof.seen[1].about>>), s)
  <2>1. outcome.seen = t /\ outcome.errors = u
    BY <1>3 DEF Outcome
  <2>2. IsList(s) /\ IsList(u)
    BY FixedIndicesThinned
  <2>3. t = [i \in DOMAIN s |-> Key(scope, <<s[i], proof.seen[1].about>>)]
    BY DEF Map
  <2> HIDE DEF s, t, u
  <2>4. Len(s) \in Nat /\ DOMAIN s = 1 .. Len(s)
    BY <2>2, ListFacts
  <2>5. t = [i \in 1 .. Len(s) |-> t[i]]
    BY <2>3, <2>4
  <2>6. IsList(t)
    BY <2>4, <2>5, PlacesMakeList
  <2> QED BY <2>1, <2>2, <2>6 DEF IsOutcome
<1> QED BY <1>1, <1>2, <1>3

LEMMA SessionAnswers ==
  ASSUME NEW scope, NEW outcome \in SessionOutcomes(scope)
  PROVE  IsOutcome(outcome)
<1>1. /\ outcome.seen = <<>> \/ \E x : outcome.seen = <<x>>
      /\ outcome.errors = <<>> \/ \E x : outcome.errors = <<x>>
  <2>1. \/ outcome = Outcome("overview_session", <<>>, <<"session_context_unproved">>)
        \/ \E x \in Contexts, errors \in {<<>>, <<"present_session_unproved">>} :
             outcome = Outcome("overview_session", <<Key(scope, x)>>, errors)
    BY DEF SessionOutcomes
  <2> QED BY <2>1 DEF Outcome
<1> QED BY <1>1, ShortLists DEF IsOutcome

LEMMA FoundationFits ==
  ASSUME NEW task, NEW outcome, IsOutcome(outcome)
  PROVE  TaskInput(FoundationInput(task, outcome))
<1> DEFINE input == FoundationInput(task, outcome)
           capability == IF task = "overview_session" THEN "market_trading_session"
                         ELSE "major_broad_indices"
           claim == [kind |-> capability, use |-> capability, over |-> outcome.seen]
<1>1. /\ input.plan = FoundationPlan(task) /\ input.outcomes = <<outcome>>
      /\ input.claims = IF outcome.seen = <<>> THEN <<>> ELSE <<claim>>
      /\ input.calculations = <<>> /\ input.conflicts = <<>> /\ input.limitations = <<>>
      /\ DOMAIN input = {"plan", "outcomes", "claims", "calculations", "conflicts", "limitations"}
  <2>1. FoundationPlan(task).obligations[1].capability = capability
    BY DEF FoundationPlan
  <2> HIDE DEF capability
  <2> QED BY <2>1 DEF FoundationInput
<1>2. /\ \E x : FoundationPlan(task).obligations = <<x>>
      /\ \A d \in FoundationPlan(task).dependencies : d.minimum \in Nat
  BY DEF FoundationPlan
<1>3. claim.over = outcome.seen /\ {"kind", "use", "over"} \subseteq DOMAIN claim
  OBVIOUS
<1> HIDE DEF input, claim, capability
<1>4. /\ IsList(<<>>) /\ ToSet(<<>>) = {}
      /\ \A x : IsList(<<x>>) /\ ToSet(<<x>>) = {x}
  BY ShortLists
<1>5. ToSet(input.claims) \subseteq {claim} /\ IsList(input.claims)
  BY <1>1, <1>4
<1>6. /\ IsList(input.outcomes) /\ ToSet(input.outcomes) = {outcome}
      /\ IsList(input.calculations) /\ ToSet(input.calculations) = {}
      /\ IsList(input.conflicts) /\ ToSet(input.conflicts) = {}
      /\ IsList(input.limitations) /\ ToSet(input.limitations) = {}
      /\ IsList(input.plan.obligations)
  BY <1>1, <1>2, <1>4
<1>7. \A d \in input.plan.dependencies : d.minimum \in Nat
  BY <1>1, <1>2
<1>8. \A field \in DOMAIN input \ {"plan"} : IsList(input[field])
  BY <1>1, <1>5, <1>6
<1>9. \A field \in {"claims", "calculations", "conflicts", "limitations"} :
        ToSet(input[field]) \subseteq {claim}
  BY <1>5, <1>6
<1>10. TaskInput(input)
  BY <1>1, <1>3, <1>5, <1>6, <1>7, <1>8, <1>9 DEF TaskInput, IsOutcome
<1> QED BY <1>10 DEF input

-----------------------------------------------------------------------------
(* The steps keep the invariant. *)

\* The securities of the assumption are those of the gate.
LEMMA SubjectFits ==
  ASSUME PlanFollowed
  PROVE  Subject \in Securities \cup {NoSubject}
<1>1. CASE steps # <<>> /\ steps[1].row = Gate
  <2>1. IsList(steps) /\ \A i \in 1 .. Len(steps) : StepHolds(steps[i])
    BY DEF PlanFollowed
  <2>2. StepHolds(steps[1])
    <3>1. Len(steps) # 0
      <4>1. steps \in Seq(ToSet(steps))
        BY <2>1 DEF IsList
      <4> QED BY <1>1, <4>1, EmptySeq
    <3>2. 1 \in 1 .. Len(steps)
      BY <2>1, <3>1, ListFacts
    <3> QED BY <2>1, <3>2
  <2>3. steps[1].leaf = NoLeaf \/ steps[1].leaf \in IdentityLeaves
    BY <1>1, <2>2 DEF StepHolds, StepLeftOut, StepSkipped, StepIdentified, StepFolded
  <2>4. CanonicalSubject(NoLeaf) = NoSubject
    BY DEF CanonicalSubject, NoLeaf
  <2>5. CanonicalSubject(steps[1].leaf) \in Securities \cup {NoSubject}
    BY <2>3, <2>4, IdentityFacts
  <2> QED BY <1>1, <2>5 DEF Subject
<1> QED BY <1>1 DEF Subject

LEMMA StepAdded ==
  ASSUME PlanFollowed, Pending, NEW step, step.row = Current, StepHolds(step),
         steps' = Append(steps, step), workflow' = workflow
  PROVE  PlanFollowed'
<1> DEFINE S == ToSet(steps) \cup {step}
           n == Len(steps)
<1>1. IsList(steps) /\ n \in Nat /\ step \in S
  BY ListFacts DEF PlanFollowed
<1>2. steps \in Seq(S)
  BY <1>1, ListInto
<1> HIDE DEF S
<1>3. /\ steps' \in Seq(S) /\ Len(steps') = n + 1
      /\ \A i \in 1 .. n : steps'[i] = steps[i]
      /\ steps'[n + 1] = step
  BY <1>1, <1>2, AppendedElement
<1>4. IsList(steps')
  BY <1>3, ListOf
<1>5. workflow \in DOMAIN Plans /\ Len(Plans[workflow]) \in Nat
      /\ n < Len(Plans[workflow])
  BY PlanFacts DEF PlanFollowed, Pending
<1>6. Len(steps') <= Len(Plans[workflow]')
  BY <1>1, <1>3, <1>5
<1>7. ASSUME NEW i \in 1 .. Len(steps')
      PROVE  steps'[i].row = Plans[workflow][i] /\ StepHolds(steps'[i])
  <2>1. CASE i = n + 1
    BY <1>3, <2>1 DEF Current
  <2>2. CASE i # n + 1
    <3>1. i \in 1 .. n
      BY <1>1, <1>3, <2>2
    <3> QED BY <1>3, <3>1 DEF PlanFollowed
  <2> QED BY <2>1, <2>2
<1> QED BY <1>4, <1>5, <1>6, <1>7 DEF PlanFollowed

LEMMA InitKeeps == Init => WorkflowInv
<1> SUFFICES ASSUME Init PROVE WorkflowInv
  OBVIOUS
<1>1. IsList(<<>>) /\ Len(<<>>) = 0
  BY ShortLists, ListFacts
<1>2. workflow \in DOMAIN Plans /\ steps = <<>> /\ session = NoLeaf /\ phase = "running"
  BY DEF Init
<1>3. 0 <= Len(Plans[workflow])
  BY <1>2, PlanFacts
<1> QED BY <1>1, <1>2, <1>3 DEF WorkflowInv, PlanFollowed, SessionKept, ResultIsTheFold

\* A step behind us that was executed fits, whichever task it is of.
LEMMA ExecutedStepAdded ==
  ASSUME PlanFollowed, Due, Current # Gate, NEW input, TaskInput(input), Execute(input),
         workflow' = workflow
  PROVE  PlanFollowed'
<1> DEFINE step == Step(Current, Fold(input).status, input, Fold(input),
                        Scope(Current.step, Subject), <<>>)
<1>1. steps' = Append(steps, step) /\ Foldable(input)
  BY DEF Execute
<1>2. /\ step.row = Current /\ step.input = input /\ step.leaf = Fold(input)
      /\ step.state = Fold(input).status /\ step.limits = <<>>
  BY DEF Step
<1> HIDE DEF step
<1>3. StepHolds(step)
  BY <1>1, <1>2, FoldFacts DEF StepHolds, StepFolded
<1> QED BY <1>1, <1>2, <1>3, StepAdded DEF Due

LEMMA NextKeeps == WorkflowInv /\ [Next]_vars => WorkflowInv'
<1> SUFFICES ASSUME WorkflowInv, [Next]_vars PROVE WorkflowInv'
  OBVIOUS
<1> USE DEF WorkflowInv
<1>1. CASE LeaveOut
  <2> DEFINE step == Step(Current, "not_requested", NoLeaf, NoLeaf, NoLeaf, <<>>)
  <2>1. /\ step.row = Current /\ step.input = NoLeaf /\ step.leaf = NoLeaf
        /\ step.state = "not_requested" /\ step.limits = <<>>
    BY DEF Step
  <2>2. /\ Pending /\ steps' = Append(steps, step) /\ UNCHANGED <<workflow, mode, session, phase, result>>
    BY <1>1 DEF LeaveOut
  <2> HIDE DEF step
  <2>3. StepHolds(step)
    BY <2>1 DEF StepHolds, StepLeftOut
  <2>4. PlanFollowed'
    BY <2>1, <2>2, <2>3, StepAdded
  <2> QED BY <2>2, <2>4 DEF SessionKept, ResultIsTheFold, Pending
<1>2. CASE Skip
  <2> DEFINE step == Step(Current, "skipped_research_dependency", NoLeaf, NoLeaf, NoLeaf,
                          <<SkipLimitation(Current)>>)
  <2>1. /\ step.row = Current /\ step.input = NoLeaf /\ step.leaf = NoLeaf
        /\ step.state = "skipped_research_dependency" /\ step.limits = <<SkipLimitation(step.row)>>
    BY DEF Step
  <2>2. /\ Pending /\ steps' = Append(steps, step) /\ UNCHANGED <<workflow, mode, session, phase, result>>
    BY <1>2 DEF Skip
  <2> HIDE DEF step
  <2>3. StepHolds(step)
    BY <2>1 DEF StepHolds, StepSkipped
  <2>4. PlanFollowed'
    BY <2>1, <2>2, <2>3, StepAdded
  <2> QED BY <2>2, <2>4 DEF SessionKept, ResultIsTheFold, Pending
<1>3. CASE ExecuteStep
  <2>0. Due /\ phase = "running" /\ UNCHANGED <<workflow, mode, phase, result>>
    BY <1>3 DEF ExecuteStep, Due, Pending
  <2>1. CASE /\ Current = Gate /\ \E leaf \in IdentityLeaves : Identify(leaf)
             /\ UNCHANGED session
    <3>1. PICK leaf \in IdentityLeaves : Identify(leaf)
      BY <2>1
    <3> DEFINE step == Step(Gate, IF Shut(leaf) THEN "blocked" ELSE leaf.status, NoLeaf, leaf,
                            Scope("identity", NoSubject),
                            IF Shut(leaf) THEN <<IdentityLimitation>> ELSE <<>>)
    <3>2. steps' = Append(steps, step)
      BY <3>1 DEF Identify, Shut
    <3>3. /\ step.row = Gate /\ step.input = NoLeaf /\ step.leaf = leaf
          /\ step.state = (IF Shut(leaf) THEN "blocked" ELSE leaf.status)
          /\ step.limits = (IF Shut(leaf) THEN <<IdentityLimitation>> ELSE <<>>)
      BY DEF Step
    <3> HIDE DEF step
    <3>4. StepHolds(step)
      BY <3>3 DEF StepHolds, StepIdentified
    <3>5. PlanFollowed'
      BY <2>0, <2>1, <3>2, <3>3, <3>4, StepAdded DEF Due
    <3> QED BY <2>0, <2>1, <3>5 DEF SessionKept, ResultIsTheFold
  <2>2. CASE /\ Current.task \in Foundation
             /\ LET scope == Scope(Current.step, Subject) IN
                  \E proof \in Sessions(scope) :
                    /\ session' = proof
                    /\ \E input \in FoundationInputs(Current.task, scope, proof) : Execute(input)
    <3> DEFINE scope == Scope(Current.step, Subject)
    <3>1. PICK proof \in Sessions(scope) :
            /\ session' = proof
            /\ \E input \in FoundationInputs(Current.task, scope, proof) : Execute(input)
      BY <2>2
    <3>2. PICK input \in FoundationInputs(Current.task, scope, proof) : Execute(input)
      BY <3>1
    <3> HIDE DEF scope
    <3>3. IsOutcome(proof)
      BY <3>1, SessionAnswers DEF Sessions, SessionKept
    <3>4. PICK outcome : input = FoundationInput(Current.task, outcome) /\ IsOutcome(outcome)
      BY <3>2, <3>3, IndexAnswers DEF FoundationInputs
    <3>5. TaskInput(input)
      BY <3>4, FoundationFits
    <3>6. Current # Gate
      BY <2>2 DEF Gate, Row, Foundation
    <3>7. PlanFollowed'
      BY <2>0, <3>2, <3>5, <3>6, ExecutedStepAdded
    <3> QED BY <2>0, <3>1, <3>3, <3>7 DEF SessionKept, ResultIsTheFold, IsOutcome
  <2>3. CASE /\ Current # Gate /\ Current.task \notin Foundation
             /\ \E input \in LeafInputs(Current, Scope(Current.step, Subject)) : Execute(input)
             /\ UNCHANGED session
    <3>1. PICK input \in LeafInputs(Current, Scope(Current.step, Subject)) : Execute(input)
      BY <2>3
    <3>2. workflow \in DOMAIN Plans /\ Len(steps) + 1 \in DOMAIN Plans[workflow]
      <4>1. workflow \in DOMAIN Plans /\ Len(steps) \in Nat /\ Len(steps) < Len(Plans[workflow])
        BY <2>0, ListFacts DEF PlanFollowed, Due, Pending
      <4> QED BY <4>1, PlanFacts
    <3>3. TaskInput(input)
      <4>1. Current \in LeafRows(workflow)
        BY <2>3, <3>2 DEF Current, LeafRows, ToSet
      <4>2. Subject \in Securities \cup {NoSubject}
        BY SubjectFits
      <4> QED BY <3>1, <3>2, <4>1, <4>2, LeafInputsAssumption
    <3>4. PlanFollowed'
      BY <2>0, <2>3, <3>1, <3>3, ExecutedStepAdded
    <3> QED BY <2>0, <2>3, <3>4 DEF SessionKept, ResultIsTheFold
  <2> QED BY <1>3, <2>1, <2>2, <2>3 DEF ExecuteStep
<1>4. CASE LeafRaises
  BY <1>4 DEF LeafRaises, PlanFollowed, SessionKept, ResultIsTheFold
<1>5. CASE Publish
  BY <1>5 DEF Publish, PlanFollowed, SessionKept, ResultIsTheFold
<1>6. CASE UNCHANGED vars
  BY <1>6 DEF vars, PlanFollowed, SessionKept, ResultIsTheFold
<1> QED BY <1>1, <1>2, <1>3, <1>4, <1>5, <1>6 DEF Next

LEMMA WorkflowKept == Spec => []WorkflowInv
BY InitKeeps, NextKeeps, PTL DEF Spec

-----------------------------------------------------------------------------
(* No forgery is accepted. *)

\* What the steps refer to in a collection of the result.
ReferredIn(refs, field) ==
  UNION {ToSet(ref.records[field])
         \cup (IF field = "limitations" THEN ToSet(ref.limits) ELSE {}) : ref \in ToSet(refs)}

LEMMA PublishedRecords ==
  ASSUME PlanFollowed, NEW refs, refs = Map(StepRef, steps), NEW field \in Fields
  PROVE  /\ IsList(Collections(steps)[field]) /\ Distinct(Collections(steps)[field])
         /\ ToSet(Collections(steps)[field]) = ReferredIn(refs, field)
<1>1. IsList(steps) /\ Len(steps) \in Nat /\ DOMAIN steps = 1 .. Len(steps)
  BY ListFacts DEF PlanFollowed
<1>2. refs = [i \in 1 .. Len(steps) |-> StepRef(steps[i])]
  BY <1>1 DEF Map
<1> DEFINE own(step) == LeafRecords(step)[field]
           added(step) == IF field = "limitations" THEN step.limits ELSE <<>>
           lists == Map(LAMBDA step : own(step) \o added(step), steps)
<1>3. lists = [i \in 1 .. Len(steps) |-> own(steps[i]) \o added(steps[i])]
  BY <1>1 DEF Map
<1>4. Collections(steps)[field] = MergeRecords(lists)
  BY DEF Collections
<1>5. ASSUME NEW i \in 1 .. Len(steps)
      PROVE  /\ IsList(own(steps[i]) \o added(steps[i]))
             /\ ToSet(own(steps[i]) \o added(steps[i])) =
                  ToSet(refs[i].records[field])
                  \cup (IF field = "limitations" THEN ToSet(refs[i].limits) ELSE {})
  <2> DEFINE a == own(steps[i])
             b == added(steps[i])
             S == ToSet(a) \cup ToSet(b)
  <2>1. StepHolds(steps[i])
    BY DEF PlanFollowed
  <2>2. IsList(a) /\ IsList(steps[i].limits)
    BY <2>1, StepLists
  <2>3. IsList(b) /\ ToSet(b) = IF field = "limitations" THEN ToSet(steps[i].limits) ELSE {}
    BY <2>2, ShortLists
  <2>4. refs[i].records[field] = a /\ refs[i].limits = steps[i].limits
    <3>1. refs[i] = StepRef(steps[i])
      BY <1>2
    <3>2. StepRef(steps[i]).records = LeafRecords(steps[i]) /\ StepRef(steps[i]).limits = steps[i].limits
      BY DEF StepRef
    <3> QED BY <3>1, <3>2
  <2> HIDE DEF a, b
  <2>5. a \in Seq(S) /\ b \in Seq(S)
    BY <2>2, <2>3, ListInto
  <2> HIDE DEF S
  <2>6. a \o b \in Seq(S) /\ ToSet(a \o b) = ToSet(a) \cup ToSet(b)
    BY <2>5, ConcatProperties, RangeOfConcat
  <2> DEFINE c == a \o b
  <2>7. c \in Seq(S)
    BY <2>6
  <2> HIDE DEF c
  <2>8. IsList(c)
    BY <2>7, ListOf
  <2>9. IsList(a \o b)
    BY <2>8 DEF c
  <2> QED BY <2>3, <2>4, <2>6, <2>9 DEF a, b
<1> HIDE DEF own, added, lists
<1>6. IsList(lists) /\ DOMAIN lists = 1 .. Len(steps)
  <2>1. lists = [i \in 1 .. Len(steps) |-> lists[i]]
    BY <1>3
  <2> QED BY <1>1, <2>1, PlacesMakeList
<1>7. \A i \in DOMAIN lists : IsList(lists[i])
  BY <1>3, <1>5, <1>6
<1>8. /\ IsList(MergeRecords(lists)) /\ Distinct(MergeRecords(lists))
      /\ ToSet(MergeRecords(lists)) = UNION {ToSet(lists[i]) : i \in DOMAIN lists}
  BY <1>6, <1>7, MergedRecords
<1>9. ToSet(refs) = {refs[i] : i \in 1 .. Len(steps)}
  BY <1>2 DEF ToSet
<1>10. UNION {ToSet(lists[i]) : i \in DOMAIN lists} = ReferredIn(refs, field)
  <2> DEFINE referred(ref) == ToSet(ref.records[field])
                              \cup (IF field = "limitations" THEN ToSet(ref.limits) ELSE {})
  <2>1. \A i \in 1 .. Len(steps) : ToSet(lists[i]) = referred(refs[i])
    BY <1>3, <1>5
  <2>2. ReferredIn(refs, field) = UNION {referred(ref) : ref \in ToSet(refs)}
    BY DEF ReferredIn
  <2> HIDE DEF referred
  <2>3. ReferredIn(refs, field) = UNION {referred(refs[i]) : i \in 1 .. Len(steps)}
    BY <1>9, <2>2
  <2> QED BY <1>6, <2>1, <2>3
<1> QED BY <1>4, <1>8, <1>10

LEMMA PublishedFacts ==
  ASSUME PlanFollowed, NEW r, r = FoldWorkflow(workflow, mode, steps)
  PROVE  /\ DOMAIN r = {"workflow", "mode", "status", "steps", "records", "inventory", "briefs", "brief"}
         /\ r = [x \in DOMAIN r |-> r[x]]
         /\ r.workflow = workflow /\ r.mode = mode /\ r.records = Collections(steps)
         /\ DOMAIN r.records = Fields
         /\ r.steps = [i \in 1 .. Len(steps) |-> StepRef(steps[i])]
         /\ r.status = DerivedStatus(workflow, StatesOf(r.steps))
         /\ \A field \in Fields :
              /\ IsList(r.records[field]) /\ Distinct(r.records[field])
              /\ ToSet(r.records[field]) = ReferredIn(r.steps, field)
<1>1. /\ DOMAIN r = {"workflow", "mode", "status", "steps", "records", "inventory", "briefs", "brief"}
      /\ r = [x \in DOMAIN r |-> r[x]]
      /\ r.workflow = workflow /\ r.mode = mode /\ r.records = Collections(steps)
      /\ r.steps = Map(StepRef, steps)
      /\ r.status = DerivedStatus(workflow, StatesOf(r.steps))
  BY DEF FoldWorkflow
<1>2. DOMAIN steps = 1 .. Len(steps)
  BY ListFacts DEF PlanFollowed
<1>3. r.steps = [i \in 1 .. Len(steps) |-> StepRef(steps[i])]
  BY <1>1, <1>2 DEF Map
<1>4. DOMAIN r.records = Fields
  BY <1>1 DEF Collections
<1>5. \A field \in Fields :
        /\ IsList(r.records[field]) /\ Distinct(r.records[field])
        /\ ToSet(r.records[field]) = ReferredIn(r.steps, field)
  BY <1>1, PublishedRecords
<1> QED BY <1>1, <1>3, <1>4, <1>5

LEMMA SameExcept ==
  ASSUME NEW f, f = [x \in DOMAIN f |-> f[x]], NEW k
  PROVE  [f EXCEPT ![k] = f[k]] = f
OBVIOUS

\* A state other than the one a step was published with is refused.
LEMMA ForgedStateIsSeen ==
  ASSUME PlanFollowed, NEW r, r = FoldWorkflow(workflow, mode, steps),
         NEW i \in DOMAIN r.steps, NEW state \in StepStates,
         NEW forged, forged = Restated(r, i, state),
         AcceptsWorkflow(forged)
  PROVE  forged = r
<1> DEFINE step == steps[i]
           ref == r.steps[i]
           coverage == IF state \in Statuses THEN "complete" ELSE state
           seen == forged.steps[i]
<1>1. /\ i \in 1 .. Len(steps) /\ ref = StepRef(step) /\ r.steps = [j \in 1 .. Len(steps) |-> r.steps[j]]
      /\ r = [x \in DOMAIN r |-> r[x]] /\ "steps" \in DOMAIN r
      /\ StepHolds(step)
  BY PublishedFacts DEF PlanFollowed
<1>2. /\ DOMAIN ref = {"row", "state", "records", "limits", "briefs", "scope", "coverage", "leaf"}
      /\ ref = [x \in DOMAIN ref |-> ref[x]]
      /\ ref.row = step.row /\ ref.state = step.state /\ ref.records = LeafRecords(step)
      /\ ref.limits = step.limits
      /\ ref.briefs = (IF Executed(step) THEN <<step.leaf.brief>> ELSE <<>>)
      /\ ref.coverage = (IF Executed(step) THEN "complete" ELSE step.state)
      /\ ref.leaf = (IF Executed(step)
                     THEN [plan |-> step.leaf.plan, contract |-> step.leaf.contract,
                           covered |-> step.leaf.covered, states |-> step.leaf.states]
                     ELSE NoLeaf)
  BY <1>1 DEF StepRef
<1> HIDE DEF ref, step
<1>3. /\ seen = [ref EXCEPT !.state = state, !.coverage = coverage]
      /\ forged.steps = [r.steps EXCEPT ![i] = seen]
      /\ forged = [r EXCEPT !.steps = forged.steps]
  <2>1. forged = [r EXCEPT !.steps = [r.steps EXCEPT ![i] = [ref EXCEPT !.state = state, !.coverage = coverage]]]
    BY DEF Restated, ref
  <2>2. DOMAIN r.steps = 1 .. Len(steps)
    BY <1>1
  <2> HIDE DEF coverage
  <2>3. forged.steps = [r.steps EXCEPT ![i] = [ref EXCEPT !.state = state, !.coverage = coverage]]
    BY <1>1, <2>1
  <2>4. seen = [ref EXCEPT !.state = state, !.coverage = coverage]
    BY <1>1, <2>2, <2>3
  <2> QED BY <2>1, <2>3, <2>4
<1> HIDE DEF seen, coverage
<1>4. /\ seen.state = state /\ seen.row = ref.row /\ seen.records = ref.records
      /\ seen.limits = ref.limits /\ seen.briefs = ref.briefs /\ seen.leaf = ref.leaf
  BY <1>2, <1>3
<1>5. i \in DOMAIN forged.steps /\ StepsHold(forged)
  BY <1>1, <1>3 DEF AcceptsWorkflow
<1>6. \/ state \in {"not_requested", "skipped_research_dependency"}
         /\ \E blocked \in BOOLEAN : UnexecutedHolds(forged, seen, blocked)
      \/ state \notin {"not_requested", "skipped_research_dependency"}
         /\ \E blocked \in BOOLEAN : ExecutedHolds(forged, seen, blocked, PublishedSubject(forged))
  BY <1>4, <1>5 DEF StepsHold, seen
<1>7. ref.state = state => forged = r
  <2>1. SUFFICES ASSUME ref.state = state PROVE forged = r
    OBVIOUS
  <2>2. ref.coverage = coverage
    <3>1. step.leaf = NoLeaf => step.state \in {"not_requested", "skipped_research_dependency"}
      BY <1>1, IdentityFacts, FoldFacts DEF StepHolds, StepLeftOut, StepSkipped, StepIdentified, StepFolded
    <3>2. step.leaf # NoLeaf => step.state \in Statuses
      BY <1>1, IdentityFacts, FoldFacts
      DEF StepHolds, StepLeftOut, StepSkipped, StepIdentified, StepFolded, Statuses
    <3> QED BY <1>2, <2>1, <3>1, <3>2 DEF coverage, Executed, Statuses
  <2>3. seen = ref
    <3>1. [ref EXCEPT !.state = ref.state] = ref /\ [ref EXCEPT !.coverage = ref.coverage] = ref
      BY <1>2, SameExcept
    <3> QED BY <1>3, <2>1, <2>2, <3>1
  <2>4. forged.steps = r.steps
    <3>1. [r.steps EXCEPT ![i] = r.steps[i]] = r.steps
      BY <1>1, SameExcept
    <3> QED BY <1>3, <2>3, <3>1 DEF ref
  <2>5. [r EXCEPT !.steps = r.steps] = r
    BY <1>1, SameExcept
  <2> QED BY <1>3, <2>4, <2>5
<1>8. ASSUME NEW blocked, UnexecutedHolds(forged, seen, blocked)
      PROVE  /\ ref.briefs = <<>>
             /\ state = "not_requested" => ref.limits = <<>>
             /\ state # "not_requested" => ref.limits = <<SkipLimitation(ref.row)>>
  BY <1>4, <1>8 DEF UnexecutedHolds
<1>9. ASSUME NEW blocked, ExecutedHolds(forged, seen, blocked, PublishedSubject(forged))
      PROVE  /\ Len(ref.briefs) = 1
             /\ state = IF ref.row = Gate /\ Shut(Rebuilt(seen)) THEN "blocked" ELSE ref.briefs[1].status
  BY <1>4, <1>9 DEF ExecutedHolds, Shut
<1>10. CASE step.leaf = NoLeaf
  <2>1. ref.briefs = <<>> /\ Len(<<>>) = 0
    BY <1>2, <1>10 DEF Executed
  <2>2. /\ state \in {"not_requested", "skipped_research_dependency"}
        /\ \E blocked \in BOOLEAN : UnexecutedHolds(forged, seen, blocked)
    BY <1>6, <1>9, <2>1
  <2>3. \A x : <<x>> # <<>>
    OBVIOUS
  <2>4. StepLeftOut(step) \/ StepSkipped(step)
    BY <1>1, <1>10, IdentityFacts, FoldFacts DEF StepHolds, StepIdentified, StepFolded
  <2>5. ref.state = state
    BY <1>2, <1>8, <2>2, <2>3, <2>4 DEF StepLeftOut, StepSkipped
  <2> QED BY <1>7, <2>5
<1>11. ASSUME step.leaf # NoLeaf
       PROVE  /\ ref.briefs = <<step.leaf.brief>> /\ ref.records = step.leaf.records
              /\ state = IF ref.row = Gate /\ Shut(Rebuilt(seen)) THEN "blocked" ELSE step.leaf.brief.status
  <2>1. ref.briefs = <<step.leaf.brief>> /\ ref.records = step.leaf.records
    BY <1>2, <1>11 DEF Executed, LeafRecords
  <2>2. ref.briefs # <<>> /\ ref.briefs[1] = step.leaf.brief
    BY <2>1
  <2>3. \E blocked \in BOOLEAN : ExecutedHolds(forged, seen, blocked, PublishedSubject(forged))
    BY <1>6, <1>8, <2>2
  <2> QED BY <1>9, <2>1, <2>2, <2>3
<1>12. CASE step.leaf # NoLeaf /\ StepIdentified(step)
  <2>1. /\ step.leaf = IdentityLeaf(step.leaf.status, step.leaf.records)
        /\ step.leaf.brief.status = step.leaf.status
    <3>1. step.leaf = IdentityLeaf(step.leaf.status, step.leaf.records)
      BY <1>12, IdentityFacts DEF StepIdentified
    <3>2. \A s, l : IdentityLeaf(s, l).brief.status = s
      BY DEF IdentityLeaf
    <3> QED BY <3>1, <3>2
  <2>2. Rebuilt(seen).status = step.leaf.status /\ Rebuilt(seen).records = step.leaf.records
    <3>1. seen.briefs[1] = step.leaf.brief /\ seen.records = step.leaf.records
      BY <1>4, <1>11, <1>12
    <3> QED BY <2>1, <3>1 DEF Rebuilt
  <2>3. Shut(Rebuilt(seen)) <=> Shut(step.leaf)
    BY <2>2 DEF Shut, CanonicalSubject
  <2>4. ref.state = state
    <3>1. state = IF Shut(Rebuilt(seen)) THEN "blocked" ELSE step.leaf.status
      BY <1>2, <1>11, <1>12, <2>1 DEF StepIdentified
    <3>2. ref.state = IF Shut(step.leaf) THEN "blocked" ELSE step.leaf.status
      BY <1>2, <1>12 DEF StepIdentified
    <3>3. CASE Shut(step.leaf)
      BY <2>3, <3>1, <3>2, <3>3
    <3>4. CASE ~Shut(step.leaf)
      BY <2>3, <3>1, <3>2, <3>4
    <3> QED BY <3>3, <3>4
  <2> QED BY <1>7, <2>4
<1>13. CASE step.leaf # NoLeaf /\ StepFolded(step)
  <2>1. step.row # Gate /\ step.leaf.brief.status = FoldedStatus(step.input)
    <3>1. Fold(step.input).brief = [task |-> step.input.plan.task, status |-> FoldedStatus(step.input),
                                    records |-> Records(step.input)]
      BY FoldFacts, Zenon
    <3>2. Fold(step.input).brief.status = FoldedStatus(step.input)
      BY <3>1
    <3> QED BY <1>13, <3>2 DEF StepFolded
  <2>2. ref.state = state
    BY <1>2, <1>11, <1>13, <2>1 DEF StepFolded
  <2> QED BY <1>7, <2>2
<1> QED BY <1>1, <1>10, <1>12, <1>13 DEF StepHolds, StepLeftOut, StepSkipped

\* A record that is hidden leaves one the steps refer to, a record that is added is not
\* referred to or is there twice.
LEMMA HiddenIsMissed ==
  ASSUME NEW s, IsList(s), Distinct(s), s # <<>>
  PROVE  ToSet(Tail(s)) # ToSet(s)
<1>1. s \in Seq(ToSet(s)) /\ Len(s) \in Nat /\ DOMAIN s = 1 .. Len(s)
  BY ListFacts
<1>2. Len(s) > 0
  BY <1>1, EmptySeq
<1>3. /\ Tail(s) \in Seq(ToSet(s)) /\ Len(Tail(s)) = Len(s) - 1
      /\ \A i \in 1 .. Len(s) - 1 : Tail(s)[i] = s[i + 1]
  BY <1>1, <1>2, HeadTailProperties
<1>4. DOMAIN Tail(s) = 1 .. Len(s) - 1
  BY <1>1, <1>3, LenProperties
<1>5. \A i, j \in DOMAIN s : s[i] = s[j] => i = j
  BY <1>1, DistinctTells
<1>6. 1 \in DOMAIN s /\ \A i \in 1 .. Len(s) - 1 : i + 1 \in DOMAIN s /\ i + 1 # 1
  BY <1>1, <1>2
<1>7. s[1] \notin ToSet(Tail(s))
  BY <1>3, <1>4, <1>5, <1>6 DEF ToSet
<1>8. s[1] \in ToSet(s)
  BY <1>6 DEF ToSet
<1> QED BY <1>7, <1>8

LEMMA AddedIsNoticed ==
  ASSUME NEW s, IsList(s), Distinct(s), NEW x, Distinct(Append(s, x))
  PROVE  ToSet(Append(s, x)) # ToSet(s)
<1> DEFINE S == ToSet(s) \cup {x}
<1>1. Len(s) \in Nat /\ s \in Seq(S) /\ x \in S
  BY ListFacts, ListInto
<1> HIDE DEF S
<1>2. Len(Append(s, x)) = Len(s) + 1
  BY <1>1, AppendProperties
<1> QED BY <1>1, <1>2 DEF Distinct

LEMMA ForgeriesAreSeen ==
  ASSUME PlanFollowed, NEW r, r = FoldWorkflow(workflow, mode, steps),
         NEW forged \in Forgeries(r) \ {r}
  PROVE  ~AcceptsWorkflow(forged)
<1> SUFFICES ASSUME AcceptsWorkflow(forged) PROVE FALSE
  OBVIOUS
<1>1. /\ DOMAIN r = {"workflow", "mode", "status", "steps", "records", "inventory", "briefs", "brief"}
      /\ r = [x \in DOMAIN r |-> r[x]]
      /\ r.workflow = workflow
      /\ DOMAIN r.records = Fields
      /\ r.status = DerivedStatus(workflow, StatesOf(r.steps))
      /\ \A field \in Fields :
           /\ IsList(r.records[field]) /\ Distinct(r.records[field])
           /\ ToSet(r.records[field]) = ReferredIn(r.steps, field)
  BY PublishedFacts
<1>2. ASSUME NEW i \in DOMAIN r.steps, NEW state \in StepStates, forged = Restated(r, i, state)
      PROVE  FALSE
  <2>1. forged = r
    BY <1>2, ForgedStateIsSeen
  <2> QED BY <2>1
<1>3. ASSUME NEW status \in Statuses, forged = Rated(r, status)
      PROVE  FALSE
  <2>1. forged.workflow = workflow /\ forged.steps = r.steps /\ forged.status = status
    BY <1>1, <1>3 DEF Rated
  <2>2. forged.status = DerivedStatus(forged.workflow, StatesOf(forged.steps))
    BY DEF AcceptsWorkflow
  <2>3. status = r.status
    BY <1>1, <2>1, <2>2
  <2>4. [r EXCEPT !.status = r.status] = r
    BY <1>1, SameExcept
  <2> QED BY <1>3, <2>3, <2>4 DEF Rated
<1>4. ASSUME NEW records, forged = WithRecords(r, records)
      PROVE  /\ \A field \in Fields : Distinct(records[field])
             /\ \A field \in Fields : ToSet(records[field]) = ToSet(r.records[field])
  <2>1. forged.steps = r.steps /\ forged.records = records
    BY <1>1, <1>4 DEF WithRecords
  <2>2. \A field \in Fields : Distinct(forged.records[field])
                              /\ ToSet(forged.records[field]) = ReferredIn(forged.steps, field)
    BY DEF AcceptsWorkflow, Closed, RecordsOf, ReferredIn
  <2> QED BY <1>1, <2>1, <2>2
<1>5. ASSUME NEW field \in Fields, r.records[field] # <<>>,
             forged = Hidden(r, field)
      PROVE  FALSE
  <2> DEFINE records == [r.records EXCEPT ![field] = Tail(@)]
  <2>1. records[field] = Tail(r.records[field])
    BY <1>1
  <2>2. forged = WithRecords(r, records)
    BY <1>5 DEF Hidden
  <2> HIDE DEF records
  <2>3. ToSet(records[field]) = ToSet(r.records[field])
    BY <1>4, <2>2
  <2> QED BY <1>1, <1>5, <2>1, <2>3, HiddenIsMissed
<1>6. ASSUME forged = Added(r)
      PROVE  FALSE
  <2> DEFINE records == [r.records EXCEPT !.errors = Append(@, Stray)]
  <2>1. "errors" \in Fields /\ records.errors = Append(r.records.errors, Stray)
    BY <1>1 DEF Fields
  <2>2. forged = WithRecords(r, records)
    BY <1>6 DEF Added
  <2> HIDE DEF records
  <2>3. Distinct(records.errors) /\ ToSet(records.errors) = ToSet(r.records.errors)
    BY <1>4, <2>1, <2>2
  <2> QED BY <1>1, <2>1, <2>3, AddedIsNoticed
<1> QED BY <1>2, <1>3, <1>5, <1>6 DEF Forgeries

(***************************************************************************)
(* A published workflow result from which a reader hides a record, to      *)
(* which he adds one, or whose status or the state of one step he changes, *)
(* is refused by validate_workflow_research_result, whatever the leaf      *)
(* tasks were folded from: the steps say what the collections hold and     *)
(* what the status is, and the briefs say what the steps ended with.       *)
(***************************************************************************)
THEOREM ForgeriesAreRefused == Spec => []ForgeryIsRefused
<1>1. WorkflowInv => ForgeryIsRefused
  BY ForgeriesAreSeen DEF WorkflowInv, ResultIsTheFold, ForgeryIsRefused
<1> QED BY <1>1, WorkflowKept, PTL

-----------------------------------------------------------------------------
(* A failure never helps: the support of a consumer. *)

LEMMA ImageIsFinite ==
  ASSUME NEW S, IsFiniteSet(S), NEW f, f = [x \in S |-> f[x]]
  PROVE  IsFiniteSet({f[x] : x \in S})
<1>1. f \in Surjection(S, {f[x] : x \in S})
  BY DEF Surjection
<1> QED BY <1>1, FS_Surjection

\* The largest of a finite set is the one fewest are above.
LEMMA LargestOf ==
  ASSUME NEW S \in SUBSET Nat, IsFiniteSet(S), S # {}
  PROVE  Max(S) \in S /\ \A y \in S : y <= Max(S)
<1> DEFINE over == [x \in S |-> Cardinality({y \in S : y > x})]
           counts == {over[x] : x \in S}
<1>1. \A x \in S : IsFiniteSet({y \in S : y > x}) /\ over[x] \in Nat
  <2>1. \A x \in S : {y \in S : y > x} \in SUBSET S
    OBVIOUS
  <2> QED BY <2>1, FS_Subset, FS_CardinalityType
<1>2. counts \in SUBSET Nat /\ counts # {}
  BY <1>1
<1> HIDE DEF counts
<1>3. PICK k \in counts : \A l \in counts : k <= l
  BY <1>2, SmallestOf
<1>4. PICK x \in S : k = over[x]
  BY DEF counts
<1>5. ASSUME NEW z \in S, z > x PROVE FALSE
  <2> DEFINE A == {y \in S : y > x}
             B == {y \in S : y > z}
  <2>1. B \in SUBSET A /\ z \in A /\ z \notin B
    <3>1. x \in Nat /\ z \in Nat /\ z > x /\ ~(z > z) /\ \A y \in S : y \in Nat
      BY <1>5
    <3>2. \A y \in S : y > z => y > x
      BY <3>1
    <3> HIDE DEF over
    <3> QED BY <3>1, <3>2
  <2>2. IsFiniteSet(A) /\ over[x] = Cardinality(A) /\ over[z] = Cardinality(B)
    BY <1>1
  <2>3. over[x] <= over[z]
    BY <1>3, <1>4 DEF counts
  <2>7. IsFiniteSet(A) /\ B \in SUBSET A
    BY <2>1, <2>2
  <2> HIDE DEF A, B
  <2>4. Cardinality(B) <= Cardinality(A) /\ (Cardinality(A) = Cardinality(B) => A = B)
    BY <2>7, FS_Subset, Zenon
  <2>5. over[x] \in Nat /\ over[z] \in Nat
    BY <1>1
  <2>6. Cardinality(A) = Cardinality(B)
    BY <2>2, <2>3, <2>4, <2>5
  <2> QED BY <2>1, <2>4, <2>6
<1>6. \A y \in S : x >= y
  BY <1>5
<1> QED BY <1>6 DEF Max

\* The observation a key stands for: the one of the operation that saw it.
ObservationFor(input, key) == CHOOSE x \in ToSet(Observations(input)) : x.key = key

LEMMA ChosenObservation ==
  ASSUME NEW input, TaskInput(input), Owned(input), NEW p \in OperationsOf(input.plan),
         NEW k \in ToSet(OutcomeOf(input, p).seen),
         \A q \in OperationsOf(input.plan) : k \in ToSet(OutcomeOf(input, q).seen) => q = p
  PROVE  ObservationFor(input, k) = [operation |-> p, key |-> k]
<1>1. [operation |-> p, key |-> k] \in ToSet(Observations(input))
  <2>1. [operation |-> p, key |-> k] \in ToSet(ObservationsOf(input, p))
    BY ObservationFacts
  <2> QED BY <2>1, ObservationFacts
<1>2. ASSUME NEW x \in ToSet(Observations(input)), x.key = k
      PROVE  x = [operation |-> p, key |-> k]
  <2>1. PICK q \in OperationsOf(input.plan) : x \in ToSet(ObservationsOf(input, q))
    BY ObservationFacts
  <2>2. PICK l \in ToSet(OutcomeOf(input, q).seen) : x = [operation |-> q, key |-> l]
    BY <2>1, ObservationFacts
  <2>3. l = k /\ q = p
    BY <1>2, <2>2
  <2> QED BY <2>2, <2>3
<1>3. [operation |-> p, key |-> k].key = k
  OBVIOUS
<1> DEFINE fits(x) == x \in ToSet(Observations(input)) /\ x.key = k
<1>4. \E x \in ToSet(Observations(input)) : x.key = k
  BY <1>1, <1>3
<1>5. ObservationFor(input, k) \in ToSet(Observations(input)) /\ ObservationFor(input, k).key = k
  BY <1>4 DEF ObservationFor
<1> QED BY <1>2, <1>5

LEMMA ListIsFinite ==
  ASSUME NEW s, IsList(s)
  PROVE  IsFiniteSet(ToSet(s))
<1>1. Len(s) \in Nat /\ DOMAIN s = 1 .. Len(s) /\ s = [i \in 1 .. Len(s) |-> s[i]]
  BY ListFacts
<1>2. IsFiniteSet(1 .. Len(s))
  BY <1>1, FS_Interval
<1>3. IsFiniteSet({s[i] : i \in 1 .. Len(s)})
  BY <1>1, <1>2, ImageIsFinite
<1> QED BY <1>1, <1>3 DEF ToSet

LEMMA ResolvedList ==
  ASSUME NEW input, NEW keys, IsList(keys)
  PROVE  /\ IsList(Resolve(input, keys))
         /\ ToSet(Resolve(input, keys)) = {ObservationFor(input, k) : k \in ToSet(keys)}
         /\ IsFiniteSet(ToSet(Resolve(input, keys)))
<1> DEFINE t == Map(LAMBDA key : CHOOSE x \in ToSet(Observations(input)) : x.key = key, keys)
<1>1. Len(keys) \in Nat /\ DOMAIN keys = 1 .. Len(keys)
  BY ListFacts
<1>2. t = [i \in 1 .. Len(keys) |-> ObservationFor(input, keys[i])]
  BY <1>1 DEF Map, ObservationFor
<1>3. Resolve(input, keys) = OnceEach(t)
  BY DEF Resolve
<1> HIDE DEF t
<1>4. IsList(t) /\ DOMAIN t = 1 .. Len(keys)
  <2>1. t = [i \in 1 .. Len(keys) |-> t[i]]
    BY <1>2
  <2> QED BY <1>1, <2>1, PlacesMakeList
<1>5. IsList(OnceEach(t)) /\ ToSet(OnceEach(t)) = ToSet(t) /\ Distinct(OnceEach(t))
  BY <1>4, ThinnedList
<1>6. ToSet(t) = {ObservationFor(input, k) : k \in ToSet(keys)}
  BY <1>1, <1>2, <1>4 DEF ToSet
<1>7. IsFiniteSet(ToSet(OnceEach(t)))
  BY <1>5, ListIsFinite
<1> QED BY <1>3, <1>5, <1>6, <1>7

\* No two operations saw the same key, and the items of a task are over keys that were seen.
LEMMA KeysFacts ==
  ASSUME NEW input, TaskInput(input), Foldable(input)
  PROVE  /\ \A p, q \in OperationsOf(input.plan) : \A k \in ToSet(OutcomeOf(input, p).seen) :
              k \in ToSet(OutcomeOf(input, q).seen) => p = q
         /\ \A c \in ToSet(input.claims) \cup ToSet(input.calculations) : \A k \in ToSet(c.over) :
              \E p \in OperationsOf(input.plan) : k \in ToSet(OutcomeOf(input, p).seen)
<1> DEFINE s == input.outcomes
           lists == Map(LAMBDA outcome : outcome.seen, s)
<1>0. Owned(input)
  BY DEF Owned, Foldable
<1>1. IsList(s) /\ Len(s) \in Nat /\ DOMAIN s = 1 .. Len(s)
  BY InputFacts, ListFacts
<1>2. lists = [i \in 1 .. Len(s) |-> s[i].seen]
  BY <1>1 DEF Map
<1>3. /\ Distinct(FlattenSeq(lists))
      /\ \A c \in ToSet(input.claims) \cup ToSet(input.calculations) :
           ToSet(c.over) \subseteq ToSet(FlattenSeq(lists))
  BY DEF Foldable
<1>4. \A i \in 1 .. Len(s) : s[i] \in ToSet(s)
  BY <1>1 DEF ToSet
<1>5. \A i \in 1 .. Len(s) : IsList(s[i].seen)
  BY <1>4, InputFacts
<1>6. \A x \in ToSet(s) : x.operation \in OperationsOf(input.plan) /\ OutcomeOf(input, x.operation) = x
  BY <1>0, OutcomeFacts
<1>7. \A p \in OperationsOf(input.plan) : OutcomeOf(input, p) \in ToSet(s) /\ OutcomeOf(input, p).operation = p
  BY <1>0, OutcomeFacts
<1>8. \A x \in ToSet(s) : \E i \in 1 .. Len(s) : x = s[i]
  BY <1>1 DEF ToSet
<1> HIDE DEF s, lists
<1>9. IsList(lists) /\ DOMAIN lists = 1 .. Len(s)
  <2>1. lists = [i \in 1 .. Len(s) |-> lists[i]]
    BY <1>2
  <2> QED BY <1>1, <2>1, PlacesMakeList
<1>10. \A i \in DOMAIN lists : IsList(lists[i])
  BY <1>2, <1>5, <1>9
<1>11. /\ ToSet(FlattenSeq(lists)) = UNION {ToSet(lists[i]) : i \in DOMAIN lists}
       /\ \A i, j \in DOMAIN lists : ToSet(lists[i]) \cap ToSet(lists[j]) # {} => i = j
  BY <1>3, <1>9, <1>10, JoinedLists
<1>12. ASSUME NEW p \in OperationsOf(input.plan), NEW q \in OperationsOf(input.plan),
              NEW k \in ToSet(OutcomeOf(input, p).seen), k \in ToSet(OutcomeOf(input, q).seen)
       PROVE  p = q
  <2>1. PICK i \in 1 .. Len(s) : OutcomeOf(input, p) = s[i]
    BY <1>7, <1>8
  <2>2. PICK j \in 1 .. Len(s) : OutcomeOf(input, q) = s[j]
    BY <1>7, <1>8
  <2>3. k \in ToSet(lists[i]) /\ k \in ToSet(lists[j])
    BY <1>2, <1>12, <2>1, <2>2
  <2>4. i = j
    BY <1>9, <1>11, <2>3
  <2> QED BY <1>7, <2>1, <2>2, <2>4
<1>13. ASSUME NEW c \in ToSet(input.claims) \cup ToSet(input.calculations), NEW k \in ToSet(c.over)
       PROVE  \E p \in OperationsOf(input.plan) : k \in ToSet(OutcomeOf(input, p).seen)
  <2>1. k \in ToSet(FlattenSeq(lists))
    BY <1>3
  <2>2. PICK i \in DOMAIN lists : k \in ToSet(lists[i])
    BY <1>11, <2>1
  <2>3. i \in 1 .. Len(s) /\ lists[i] = s[i].seen
    BY <1>2, <1>9
  <2> QED BY <1>4, <1>6, <2>2, <2>3
<1> QED BY <1>12, <1>13

-----------------------------------------------------------------------------
(* A failure never helps: the leaf. *)

Instead(o) == Outcome(o, <<>>, <<"failed_instead">>)
Lost(input, o) == ToSet(OutcomeOf(input, o).seen)
Spared(input, o, item) == [item EXCEPT !.over = Without(@, Lost(input, o))]
AllSpared(input, o, items) == [i \in DOMAIN items |-> Spared(input, o, items[i])]

LEMMA InsteadFacts ==
  ASSUME NEW o
  PROVE  /\ Instead(o).operation = o /\ Instead(o).seen = <<>> /\ Instead(o).state = "failed"
         /\ IsList(Instead(o).seen) /\ IsList(Instead(o).errors)
<1>1. <<"failed_instead">> # <<>>
  OBVIOUS
<1>2. /\ Instead(o).operation = o /\ Instead(o).seen = <<>> /\ Instead(o).state = "failed"
      /\ Instead(o).errors = <<"failed_instead">>
  BY <1>1 DEF Instead, Outcome
<1> QED BY <1>2, ShortLists

\* A list of items with what was lost taken out of each.
LEMMA SparedList ==
  ASSUME NEW input, NEW o, NEW items, IsList(items),
         \A item \in ToSet(items) : "over" \in DOMAIN item /\ IsList(item.over)
  PROVE  /\ IsList(AllSpared(input, o, items))
         /\ \A item \in ToSet(AllSpared(input, o, items)) : \E c \in ToSet(items) :
              /\ item = Spared(input, o, c) /\ DOMAIN item = DOMAIN c
              /\ IsList(item.over) /\ ToSet(item.over) = ToSet(c.over) \ Lost(input, o)
<1> DEFINE spared == AllSpared(input, o, items)
<1>1. /\ Len(items) \in Nat /\ DOMAIN items = 1 .. Len(items)
      /\ spared = [i \in DOMAIN items |-> Spared(input, o, items[i])]
  BY ListFacts DEF AllSpared
<1> HIDE DEF spared
<1>2. IsList(spared) /\ DOMAIN spared = 1 .. Len(items)
  <2>1. spared = [i \in 1 .. Len(items) |-> spared[i]]
    BY <1>1
  <2> QED BY <1>1, <2>1, PlacesMakeList
<1>3. ASSUME NEW c \in ToSet(items)
      PROVE  /\ DOMAIN Spared(input, o, c) = DOMAIN c
             /\ IsList(Spared(input, o, c).over)
             /\ ToSet(Spared(input, o, c).over) = ToSet(c.over) \ Lost(input, o)
  <2> DEFINE over == c.over
             S == ToSet(over)
             lost == Lost(input, o)
             left == Without(over, lost)
  <2>1. DOMAIN Spared(input, o, c) = DOMAIN c /\ Spared(input, o, c).over = left
    BY DEF Spared
  <2>2. over \in Seq(S)
    BY DEF IsList
  <2> HIDE DEF over, lost
  <2>3. left \in Seq(S) /\ ToSet(left) = ToSet(over) \ lost
    <3>1. ToSet(over) = S
      OBVIOUS
    <3> HIDE DEF S
    <3>2. left \in Seq(S) /\ ToSet(left) = ToSet(over) \ lost
      BY <2>2, WithoutFacts
    <3> QED BY <3>2
  <2> HIDE DEF left, S
  <2>4. IsList(left)
    BY <2>3, ListOf
  <2> QED BY <2>1, <2>3, <2>4 DEF over, lost
<1>4. ASSUME NEW item \in ToSet(spared)
      PROVE  \E c \in ToSet(items) : item = Spared(input, o, c)
  <2>1. PICK i \in 1 .. Len(items) : item = spared[i]
    BY <1>2 DEF ToSet
  <2>2. items[i] \in ToSet(items)
    BY <1>1 DEF ToSet
  <2> QED BY <1>1, <2>1, <2>2
<1> QED BY <1>2, <1>3, <1>4 DEF spared

\* What the task would have handed in has the shape of what it did hand in.
LEMMA FailingFacts ==
  ASSUME NEW input, TaskInput(input), Foldable(input), NEW o \in OperationsOf(input.plan),
         NEW F, F = Failing(input, o)
  PROVE  /\ TaskInput(F) /\ Owned(F) /\ F.plan = input.plan
         /\ OutcomeOf(F, o) = Instead(o)
         /\ \A p \in OperationsOf(input.plan) \ {o} : OutcomeOf(F, p) = OutcomeOf(input, p)
         /\ \A item \in ToSet(F.claims) \cup ToSet(F.calculations) :
              \E c \in ToSet(input.claims) \cup ToSet(input.calculations) :
                /\ item.kind = c.kind /\ item.use = c.use
                /\ IsList(item.over) /\ ToSet(item.over) = ToSet(c.over) \ Lost(input, o)
<1> DEFINE s == input.outcomes
           instead(x) == IF x.operation = o THEN Instead(o) ELSE x
           ops == Map(LAMBDA outcome : outcome.operation, s)
           opsF == Map(LAMBDA outcome : outcome.operation, F.outcomes)
<1>1. /\ F.plan = input.plan /\ DOMAIN F = DOMAIN input
      /\ F.outcomes = [i \in DOMAIN s |-> instead(s[i])]
      /\ F.claims = AllSpared(input, o, input.claims)
      /\ F.calculations = AllSpared(input, o, input.calculations)
      /\ F.conflicts = AllSpared(input, o, input.conflicts)
      /\ F.limitations = AllSpared(input, o, input.limitations)
  BY InputFacts DEF Failing, Map, AllSpared, Spared, Lost, Instead
<1>2. IsList(s) /\ Len(s) \in Nat /\ DOMAIN s = 1 .. Len(s)
  BY InputFacts, ListFacts
<1>3. \A i \in 1 .. Len(s) : instead(s[i]).operation = s[i].operation
  BY InsteadFacts
<1>4. IsList(F.outcomes) /\ DOMAIN F.outcomes = 1 .. Len(s)
  <2>1. F.outcomes = [i \in 1 .. Len(s) |-> F.outcomes[i]]
    BY <1>1, <1>2
  <2> QED BY <1>2, <2>1, PlacesMakeList
<1>5. opsF = ops
  <2>1. opsF = [i \in 1 .. Len(s) |-> F.outcomes[i].operation]
    BY <1>4 DEF Map
  <2>2. ops = [i \in 1 .. Len(s) |-> s[i].operation]
    BY <1>2 DEF Map
  <2>3. \A i \in 1 .. Len(s) : F.outcomes[i].operation = s[i].operation
    BY <1>1, <1>2, <1>3
  <2> HIDE DEF ops, opsF
  <2> QED BY <2>1, <2>2, <2>3
<1>6. {outcome.operation : outcome \in ToSet(F.outcomes)} = {outcome.operation : outcome \in ToSet(s)}
  <2>1. \A i \in 1 .. Len(s) : F.outcomes[i].operation = s[i].operation
    BY <1>1, <1>2, <1>3
  <2>2. {outcome.operation : outcome \in ToSet(F.outcomes)} = {F.outcomes[i].operation : i \in 1 .. Len(s)}
    BY <1>4 DEF ToSet
  <2>3. {outcome.operation : outcome \in ToSet(s)} = {s[i].operation : i \in 1 .. Len(s)}
    BY <1>2 DEF ToSet
  <2> HIDE DEF s, instead
  <2>4. {F.outcomes[i].operation : i \in 1 .. Len(s)} = {s[i].operation : i \in 1 .. Len(s)}
    BY <2>1
  <2> QED BY <2>2, <2>3, <2>4
<1>7. Owned(F)
  <2>1. Distinct(ops) /\ {outcome.operation : outcome \in ToSet(s)} = OperationsOf(input.plan)
    BY DEF Foldable
  <2> HIDE DEF instead
  <2> QED BY <1>1, <1>5, <1>6, <2>1 DEF Owned
<1>8. ASSUME NEW item \in ToSet(F.claims) \cup ToSet(F.calculations)
      PROVE  \E c \in ToSet(input.claims) \cup ToSet(input.calculations) :
                /\ item = Spared(input, o, c) /\ DOMAIN item = DOMAIN c
                /\ IsList(item.over) /\ ToSet(item.over) = ToSet(c.over) \ Lost(input, o)
  <2>1. /\ IsList(input.claims) /\ IsList(input.calculations)
        /\ \A c \in ToSet(input.claims) \cup ToSet(input.calculations) :
             "over" \in DOMAIN c /\ IsList(c.over)
    BY InputFacts
  <2>2. CASE item \in ToSet(F.claims)
    BY <1>1, <2>1, <2>2, SparedList
  <2>3. CASE item \in ToSet(F.calculations)
    BY <1>1, <2>1, <2>3, SparedList
  <2> QED BY <1>8, <2>2, <2>3
<1>9. ASSUME NEW item \in ToSet(F.claims) \cup ToSet(F.calculations)
      PROVE  /\ {"kind", "use", "over"} \subseteq DOMAIN item /\ IsList(item.over)
             /\ \E c \in ToSet(input.claims) \cup ToSet(input.calculations) :
                  /\ item.kind = c.kind /\ item.use = c.use
                  /\ ToSet(item.over) = ToSet(c.over) \ Lost(input, o)
  <2>1. PICK c \in ToSet(input.claims) \cup ToSet(input.calculations) :
          /\ item = Spared(input, o, c) /\ DOMAIN item = DOMAIN c
          /\ IsList(item.over) /\ ToSet(item.over) = ToSet(c.over) \ Lost(input, o)
    BY <1>8
  <2>2. {"kind", "use", "over"} \subseteq DOMAIN c
    BY InputFacts
  <2>3. item.kind = c.kind /\ item.use = c.use
    BY <2>1, <2>2 DEF Spared
  <2> QED BY <2>1, <2>2, <2>3
<1>10. TaskInput(F)
  <2>1. \A outcome \in ToSet(F.outcomes) : IsList(outcome.seen) /\ IsList(outcome.errors)
    <3>1. \A outcome \in ToSet(F.outcomes) : \E x \in ToSet(s) : outcome = instead(x)
      BY <1>1, <1>2, <1>4 DEF ToSet
    <3> QED BY <3>1, InsteadFacts, InputFacts
  <2>2. /\ IsList(F.claims) /\ IsList(F.calculations) /\ IsList(F.conflicts) /\ IsList(F.limitations)
        /\ \A item \in ToSet(F.conflicts) \cup ToSet(F.limitations) :
             "over" \in DOMAIN item /\ IsList(item.over)
    <3>1. \A c \in ToSet(input.claims) \cup ToSet(input.calculations) \cup ToSet(input.conflicts)
                    \cup ToSet(input.limitations) : "over" \in DOMAIN c /\ IsList(c.over)
      BY DEF TaskInput
    <3>2. /\ IsList(input.claims) /\ IsList(input.calculations)
          /\ IsList(input.conflicts) /\ IsList(input.limitations)
      BY InputFacts
    <3>3. IsList(F.claims)
      BY <1>1, <3>1, <3>2, SparedList
    <3>4. IsList(F.calculations)
      BY <1>1, <3>1, <3>2, SparedList
    <3>5. /\ IsList(F.conflicts)
          /\ \A item \in ToSet(F.conflicts) : \E c \in ToSet(input.conflicts) :
               DOMAIN item = DOMAIN c /\ IsList(item.over)
      BY <1>1, <3>1, <3>2, SparedList
    <3>6. /\ IsList(F.limitations)
          /\ \A item \in ToSet(F.limitations) : \E c \in ToSet(input.limitations) :
               DOMAIN item = DOMAIN c /\ IsList(item.over)
      BY <1>1, <3>1, <3>2, SparedList
    <3> QED BY <3>1, <3>3, <3>4, <3>5, <3>6
  <2>3. /\ DOMAIN F = {"plan", "outcomes", "claims", "calculations", "conflicts", "limitations"}
        /\ IsList(F.plan.obligations) /\ \A d \in F.plan.dependencies : d.minimum \in Nat
    BY <1>1, InputFacts
  <2> HIDE DEF s, instead, ops, opsF
  <2>4. \A field \in DOMAIN F \ {"plan"} : IsList(F[field])
    BY <1>4, <2>2, <2>3
  <2>5. \A item \in UNION {ToSet(F[field]) : field \in {"claims", "calculations", "conflicts", "limitations"}} :
          "over" \in DOMAIN item /\ IsList(item.over)
    BY <1>9, <2>2
  <2>6. \A item \in ToSet(F.claims) \cup ToSet(F.calculations) : {"kind", "use"} \subseteq DOMAIN item
    BY <1>9
  <2> QED BY <2>1, <2>3, <2>4, <2>5, <2>6 DEF TaskInput
<1>11. \A x \in ToSet(F.outcomes) : OutcomeOf(F, x.operation) = x
  BY <1>1, <1>7, <1>10, OutcomeFacts
<1>12. ASSUME NEW p \in OperationsOf(input.plan)
       PROVE  OutcomeOf(F, p) = instead(OutcomeOf(input, p)) /\ OutcomeOf(input, p).operation = p
  <2>1. Owned(input)
    BY DEF Owned, Foldable
  <2>2. OutcomeOf(input, p) \in ToSet(s) /\ OutcomeOf(input, p).operation = p
    BY <2>1, OutcomeFacts
  <2>3. PICK i \in 1 .. Len(s) : OutcomeOf(input, p) = s[i]
    BY <1>2, <2>2 DEF ToSet
  <2>4. F.outcomes[i] = instead(s[i]) /\ F.outcomes[i] \in ToSet(F.outcomes)
    BY <1>1, <1>2, <1>4 DEF ToSet
  <2>5. F.outcomes[i].operation = p
    BY <1>3, <2>2, <2>3, <2>4
  <2>6. OutcomeOf(F, p) = F.outcomes[i]
    BY <1>11, <2>4, <2>5
  <2> HIDE DEF instead
  <2> QED BY <2>2, <2>3, <2>4, <2>6
<1>13. OutcomeOf(F, o) = Instead(o)
  BY <1>12
<1>14. \A p \in OperationsOf(input.plan) \ {o} : OutcomeOf(F, p) = OutcomeOf(input, p)
  BY <1>12
<1> QED BY <1>1, <1>7, <1>9, <1>10, <1>13, <1>14

\* How many of its observations support a consumer of a dependency.
Consumers(input, d) ==
  {c \in ToSet(input.claims) \cup ToSet(input.calculations) :
     c.kind = d.consumer /\ c.use = d.use}
Supporting(input, d, c) ==
  {x \in ToSet(Resolve(input, c.over)) :
     RoleOf(input.plan, x, d.use) \in {"supporting", "conditional_supporting"}}
Supports(input, d) == {0} \cup {Cardinality(Supporting(input, d, c)) : c \in Consumers(input, d)}

LEMMA SupportIsLargest ==
  ASSUME NEW input, TaskInput(input), NEW d
  PROVE  /\ Support(input, d) \in Supports(input, d)
         /\ Supports(input, d) \in SUBSET Nat
         /\ \A y \in Supports(input, d) : y <= Support(input, d)
<1>1. Support(input, d) = Max(Supports(input, d))
  BY DEF Support, Supports, Supporting, Consumers
<1>2. \A c \in Consumers(input, d) : IsFiniteSet(Supporting(input, d, c))
                                     /\ Cardinality(Supporting(input, d, c)) \in Nat
  <2>1. ASSUME NEW c \in Consumers(input, d)
        PROVE  IsFiniteSet(Supporting(input, d, c))
    <3>1. IsList(c.over)
      BY InputFacts DEF Consumers
    <3>2. IsFiniteSet(ToSet(Resolve(input, c.over)))
      BY <3>1, ResolvedList
    <3>3. Supporting(input, d, c) \in SUBSET ToSet(Resolve(input, c.over))
      BY DEF Supporting
    <3> QED BY <3>2, <3>3, FS_Subset
  <2> QED BY <2>1, FS_CardinalityType
<1>3. IsFiniteSet(Consumers(input, d))
  <2>1. IsFiniteSet(ToSet(input.claims)) /\ IsFiniteSet(ToSet(input.calculations))
    BY InputFacts, ListIsFinite
  <2>2. IsFiniteSet(ToSet(input.claims) \cup ToSet(input.calculations))
    BY <2>1, FS_Union
  <2>3. Consumers(input, d) \in SUBSET (ToSet(input.claims) \cup ToSet(input.calculations))
    BY DEF Consumers
  <2> QED BY <2>2, <2>3, FS_Subset
<1>4. IsFiniteSet(Supports(input, d))
  <2> DEFINE f == [c \in Consumers(input, d) |-> Cardinality(Supporting(input, d, c))]
  <2>1. IsFiniteSet({f[c] : c \in Consumers(input, d)})
    BY <1>3, ImageIsFinite
  <2>2. Supports(input, d) = {f[c] : c \in Consumers(input, d)} \cup {0}
    BY DEF Supports
  <2> HIDE DEF f
  <2> QED BY <2>1, <2>2, FS_AddElement
<1>5. Supports(input, d) \in SUBSET Nat /\ Supports(input, d) # {}
  BY <1>2 DEF Supports
<1> QED BY <1>1, <1>4, <1>5, LargestOf

\* What is left of a consumer has no more support than the consumer had.
LEMMA SupportOnlyFalls ==
  ASSUME NEW input, TaskInput(input), Foldable(input), NEW o \in OperationsOf(input.plan),
         NEW F, F = Failing(input, o), NEW d
  PROVE  Support(F, d) <= Support(input, d)
<1> DEFINE ops == OperationsOf(input.plan)
<1>0. Owned(input)
  BY DEF Owned, Foldable
<1>1. /\ TaskInput(F) /\ Owned(F) /\ F.plan = input.plan
      /\ OutcomeOf(F, o).seen = <<>>
      /\ \A p \in ops \ {o} : OutcomeOf(F, p) = OutcomeOf(input, p)
      /\ \A item \in ToSet(F.claims) \cup ToSet(F.calculations) :
           \E c \in ToSet(input.claims) \cup ToSet(input.calculations) :
             /\ item.kind = c.kind /\ item.use = c.use
             /\ IsList(item.over) /\ ToSet(item.over) = ToSet(c.over) \ Lost(input, o)
  BY FailingFacts, InsteadFacts
<1>2. /\ \A p, q \in ops : \A k \in ToSet(OutcomeOf(input, p).seen) :
           k \in ToSet(OutcomeOf(input, q).seen) => p = q
      /\ \A c \in ToSet(input.claims) \cup ToSet(input.calculations) : \A k \in ToSet(c.over) :
           \E p \in ops : k \in ToSet(OutcomeOf(input, p).seen)
  BY KeysFacts
<1>3. ToSet(<<>>) = {}
  BY ShortLists
<1>4. ASSUME NEW c \in ToSet(input.claims) \cup ToSet(input.calculations), NEW k \in ToSet(c.over),
             k \notin Lost(input, o)
      PROVE  ObservationFor(F, k) = ObservationFor(input, k)
  <2>1. PICK p \in ops : k \in ToSet(OutcomeOf(input, p).seen)
    BY <1>2
  <2>2. p # o
    BY <1>4, <2>1 DEF Lost
  <2>3. ObservationFor(input, k) = [operation |-> p, key |-> k]
    BY <1>0, <1>2, <2>1, ChosenObservation
  <2>4. p \in OperationsOf(F.plan) /\ k \in ToSet(OutcomeOf(F, p).seen)
    BY <1>1, <2>1, <2>2
  <2>5. ASSUME NEW q \in OperationsOf(F.plan), k \in ToSet(OutcomeOf(F, q).seen) PROVE q = p
    <3>1. q \in ops /\ q # o
      BY <1>1, <1>3, <2>5
    <3> QED BY <1>1, <1>2, <2>1, <2>5, <3>1
  <2>6. ObservationFor(F, k) = [operation |-> p, key |-> k]
    BY <1>1, <2>4, <2>5, ChosenObservation
  <2> QED BY <2>3, <2>6
<1>5. ASSUME NEW item \in Consumers(F, d)
      PROVE  \E y \in Supports(input, d) : Cardinality(Supporting(F, d, item)) <= y
  <2>1. PICK c \in ToSet(input.claims) \cup ToSet(input.calculations) :
          /\ item.kind = c.kind /\ item.use = c.use
          /\ IsList(item.over) /\ ToSet(item.over) = ToSet(c.over) \ Lost(input, o)
    BY <1>1 DEF Consumers
  <2>2. c \in Consumers(input, d) /\ IsList(c.over)
    BY <2>1, InputFacts DEF Consumers
  <2>3. ToSet(Resolve(F, item.over)) = {ObservationFor(F, k) : k \in ToSet(item.over)}
    BY <2>1, ResolvedList
  <2>4. /\ ToSet(Resolve(input, c.over)) = {ObservationFor(input, k) : k \in ToSet(c.over)}
        /\ IsFiniteSet(ToSet(Resolve(input, c.over)))
    BY <2>2, ResolvedList
  <2>5. \A k \in ToSet(item.over) : k \in ToSet(c.over) /\ ObservationFor(F, k) = ObservationFor(input, k)
    BY <1>4, <2>1
  <2>6. ToSet(Resolve(F, item.over)) \subseteq ToSet(Resolve(input, c.over))
    BY <2>3, <2>4, <2>5
  <2>7. Supporting(F, d, item) \in SUBSET Supporting(input, d, c)
    BY <1>1, <2>6 DEF Supporting
  <2>8. IsFiniteSet(Supporting(input, d, c))
    <3>1. Supporting(input, d, c) \in SUBSET ToSet(Resolve(input, c.over))
      BY DEF Supporting
    <3> QED BY <2>4, <3>1, FS_Subset
  <2>9. Cardinality(Supporting(F, d, item)) <= Cardinality(Supporting(input, d, c))
    BY <2>7, <2>8, FS_Subset
  <2>10. Cardinality(Supporting(input, d, c)) \in Supports(input, d)
    BY <2>2 DEF Supports
  <2> QED BY <2>9, <2>10
<1>6. \A x \in Supports(F, d) : \E y \in Supports(input, d) : x <= y
  <2>1. 0 \in Supports(input, d) /\ 0 <= 0
    BY DEF Supports
  <2>2. \A x \in Supports(F, d) :
          x = 0 \/ \E item \in Consumers(F, d) : x = Cardinality(Supporting(F, d, item))
    BY DEF Supports
  <2> QED BY <1>5, <2>1, <2>2
<1>7. /\ Support(F, d) \in Supports(F, d) /\ Supports(F, d) \in SUBSET Nat
      /\ Supports(input, d) \in SUBSET Nat /\ Support(input, d) \in Supports(input, d)
      /\ \A y \in Supports(input, d) : y <= Support(input, d)
  BY <1>1, SupportIsLargest
<1>8. PICK y \in Supports(input, d) : Support(F, d) <= y
  BY <1>6, <1>7
<1>9. Support(F, d) \in Nat /\ y \in Nat /\ Support(input, d) \in Nat /\ y <= Support(input, d)
  BY <1>7
<1> QED BY <1>8, <1>9

\* The leaf is not rated higher, and never as fully supported.
LEMMA LeafOnlyFalls ==
  ASSUME NEW input, TaskInput(input), Foldable(input), NEW o \in OperationsOf(input.plan),
         NEW F, F = Failing(input, o)
  PROVE  /\ FoldedStatus(F) \in {"limited", "blocked"}
         /\ FoldedStatus(input) = "blocked" => FoldedStatus(F) = "blocked"
<1>1. F.plan = input.plan /\ OutcomeOf(F, o) = Instead(o)
  BY FailingFacts
<1>2. CoverageIn(F, o) = "failed"
  <2>1. ToSet(<<>>) = {}
    BY ShortLists
  <2>2. Instead(o).state = "failed" /\ Instead(o).seen = <<>>
    BY InsteadFacts
  <2>3. CoverageIn(F, o) = Coverage([state |-> "failed", complete |-> Instead(o).complete, seen |-> {}])
    BY <1>1, <2>1, <2>2 DEF CoverageIn, CoverageOf
  <2> QED BY <2>3 DEF Coverage, Skipped
<1>3. PICK x \in ToSet(F.plan.obligations) : x.operation = o
  BY <1>1 DEF OperationsOf
<1>4. CoverageIn(F, x.operation) \notin {"complete", "observed_empty"}
  BY <1>2, <1>3
<1>5. FoldedStatus(F) \in {"limited", "blocked"}
  BY <1>3, <1>4 DEF FoldedStatus, StatusFrom
<1>6. ASSUME FoldedStatus(input) = "blocked" PROVE FoldedStatus(F) = "blocked"
  <2>1. PICK d \in input.plan.dependencies : Support(input, d) < d.minimum /\ d.core
    BY <1>6 DEF FoldedStatus, StatusFrom
  <2>2. Support(F, d) <= Support(input, d)
    BY SupportOnlyFalls
  <2>3. Support(F, d) \in Nat /\ Support(input, d) \in Nat /\ d.minimum \in Nat
    BY FailingFacts, SupportIsLargest, InputFacts
  <2>4. d \in F.plan.dependencies /\ Support(F, d) < d.minimum
    BY <1>1, <2>1, <2>2, <2>3
  <2> QED BY <2>1, <2>4 DEF FoldedStatus, StatusFrom
<1> QED BY <1>5, <1>6

-----------------------------------------------------------------------------
(* A failure never helps: the workflow. *)

\* A state that falls, and others that are skipped for it, do not raise the status.
LEMMA StatusOnlyFalls ==
  ASSUME NEW w \in DOMAIN Plans, NEW n \in Nat, n >= 1, NEW S, NEW T, NEW i \in 1 .. n,
         IsList(S), Len(S) = n, IsList(T), Len(T) = n,
         S[i] \in Statuses, T[i] \in {"limited", "blocked"}, S[i] = "blocked" => T[i] = "blocked",
         \A j \in 1 .. n : j = i \/ T[j] = S[j] \/ T[j] = "skipped_research_dependency",
         i # 1 => T[1] = S[1],
         w \in Gates => i # 1,
         w \notin Gates \cup {"market_overview_research"} => n = 1
  PROVE  Rank[DerivedStatus(w, T)] <= Rank[DerivedStatus(w, S)]
<1>0. Rank["blocked"] = 0 /\ Rank["limited"] = 1 /\ Rank["supported"] = 2
  BY DEF Rank
<1>1. CASE w = "market_overview_research"
  <2>1. S[1] = "blocked" => T[1] = "blocked"
    OBVIOUS
  <2>2. /\ DerivedStatus(w, T) = IF T[1] = "blocked" THEN "blocked" ELSE "limited"
        /\ DerivedStatus(w, S) = IF S[1] = "blocked" THEN "blocked" ELSE "limited"
    BY <1>1 DEF DerivedStatus
  <2> QED BY <1>0, <2>1, <2>2
<1>2. CASE w \notin Gates /\ w # "market_overview_research"
  <2>1. n = 1 /\ i = 1
    BY <1>2
  <2>2. DerivedStatus(w, T) = T[1] /\ DerivedStatus(w, S) = S[1]
    BY <1>2 DEF DerivedStatus
  <2> QED BY <1>0, <2>1, <2>2 DEF Statuses
<1>3. CASE w \in Gates
  <2> DEFINE subS == {S[j] : j \in 2 .. n} \ {"not_requested"}
             subT == {T[j] : j \in 2 .. n} \ {"not_requested"}
             status(first, sub) ==
               IF first = "blocked" THEN "blocked"
               ELSE IF first = "supported" /\ sub \subseteq {"supported"} THEN "supported"
               ELSE IF sub \cap {"supported", "limited"} # {} THEN "limited" ELSE "blocked"
  <2>1. DerivedStatus(w, T) = status(T[1], subT) /\ DerivedStatus(w, S) = status(S[1], subS)
    BY <1>3 DEF DerivedStatus, Gates
  <2>2. i \in 2 .. n /\ T[1] = S[1]
    BY <1>3
  <2>3. T[i] \in subT /\ T[i] # "supported" /\ S[i] \in subS
    BY <2>2 DEF Statuses
  <2>4. subT \cap {"supported", "limited"} # {} => subS \cap {"supported", "limited"} # {}
    <3>1. SUFFICES ASSUME NEW j \in 2 .. n, T[j] \in {"supported", "limited"}
                   PROVE  \E k \in 2 .. n : S[k] \in {"supported", "limited"}
      OBVIOUS
    <3>2. CASE j = i
      BY <2>2, <3>1, <3>2 DEF Statuses
    <3>3. CASE j # i
      BY <3>1, <3>3
    <3> QED BY <3>2, <3>3
  <2>5. ~(subT \subseteq {"supported"})
    BY <2>3
  <2> HIDE DEF subS, subT
  <2> QED BY <1>0, <2>1, <2>2, <2>4, <2>5
<1> QED BY <1>1, <1>2, <1>3

LEMMA FailureFalls ==
  ASSUME PlanFollowed, Len(steps) = Len(Plans[workflow]),
         result = FoldWorkflow(workflow, mode, steps),
         NEW i \in DOMAIN steps, steps[i].input # NoLeaf,
         NEW o \in OperationsOf(steps[i].input.plan)
  PROVE  LET worse == FoldedStatus(Failing(steps[i].input, o)) IN
           /\ Rank[worse] <= Rank[steps[i].state]
           /\ Rank[DerivedStatus(workflow, WithState(i, worse))] <= Rank[result.status]
<1> DEFINE input == steps[i].input
           worse == FoldedStatus(Failing(input, o))
           n == Len(steps)
           S == StatesOf(result.steps)
           T == WithState(i, worse)
<1>1. /\ IsList(steps) /\ n \in Nat /\ DOMAIN steps = 1 .. n /\ workflow \in DOMAIN Plans
      /\ \A j \in 1 .. n : steps[j].row = Plans[workflow][j] /\ StepHolds(steps[j])
  BY ListFacts DEF PlanFollowed
<1>2. StepFolded(steps[i])
  BY <1>1 DEF StepHolds, StepLeftOut, StepSkipped, StepIdentified
<1>3. /\ TaskInput(input) /\ Foldable(input) /\ steps[i].state = FoldedStatus(input)
      /\ steps[i].row # Gate
  BY <1>2 DEF StepFolded
<1>4. worse \in {"limited", "blocked"} /\ (FoldedStatus(input) = "blocked" => worse = "blocked")
  BY <1>3, LeafOnlyFalls
<1>5. FoldedStatus(input) \in Statuses
  BY FoldFacts
<1>6. Rank[worse] <= Rank[steps[i].state]
  BY <1>3, <1>4, <1>5 DEF Rank, Statuses
<1>7. S = [j \in 1 .. n |-> steps[j].state] /\ result.status = DerivedStatus(workflow, S)
  <2>1. result.steps = [j \in 1 .. n |-> StepRef(steps[j])] /\ result.status = DerivedStatus(workflow, S)
    BY PublishedFacts
  <2>2. \A j \in 1 .. n : StepRef(steps[j]).state = steps[j].state
    BY DEF StepRef
  <2> QED BY <2>1, <2>2 DEF StatesOf
<1>8. IsList(S) /\ Len(S) = n
  <2> HIDE DEF S
  <2>1. S = [j \in 1 .. n |-> S[j]]
    BY <1>7
  <2> QED BY <1>1, <2>1, PlacesMakeList
<1>9. T = [j \in 1 .. n |->
             IF j = i THEN worse
             ELSE IF worse = "blocked" /\ steps[i].row.step \in steps[j].row.depends
                     /\ Executed(steps[j])
             THEN "skipped_research_dependency" ELSE steps[j].state]
  BY <1>1 DEF WithState
<1> HIDE DEF S, T, worse, input
<1>10. IsList(T) /\ Len(T) = n
  <2>1. T = [j \in 1 .. n |-> T[j]]
    BY <1>9
  <2> QED BY <1>1, <2>1, PlacesMakeList
<1>11. /\ \A j \in 1 .. n : j = i \/ T[j] = S[j] \/ T[j] = "skipped_research_dependency"
       /\ T[i] = worse /\ S[i] = steps[i].state
  BY <1>1, <1>7, <1>9
<1>12. /\ n >= 1
       /\ workflow \in Gates => steps[1].row = Gate
       /\ workflow = "market_overview_research" => steps[1].row.depends = {}
       /\ workflow \notin Gates \cup {"market_overview_research"} => n = 1
  <2>1. /\ Len(Plans[workflow]) >= 1
        /\ workflow \in Gates => Plans[workflow][1] = Gate
        /\ workflow = "market_overview_research" => Plans[workflow][1].depends = {}
        /\ workflow \notin Gates \cup {"market_overview_research"} => Len(Plans[workflow]) = 1
    BY <1>1, PlanFacts
  <2>2. n = Len(Plans[workflow])
    OBVIOUS
  <2> HIDE DEF n
  <2>3. n >= 1 /\ 1 \in 1 .. n
    BY <1>1, <2>1, <2>2
  <2>4. steps[1].row = Plans[workflow][1]
    BY <1>1, <2>3
  <2> QED BY <2>1, <2>2, <2>3, <2>4
<1>13. workflow \in Gates => i # 1
  BY <1>3, <1>12
<1>14. i # 1 => T[1] = S[1]
  <2>1. SUFFICES ASSUME i # 1 PROVE T[1] = S[1]
    OBVIOUS
  <2>2. steps[1].row.depends = {}
    <3>1. Gate.depends = {}
      BY DEF Gate, Row
    <3> QED BY <1>1, <1>12, <2>1, <3>1
  <2>3. 1 \in 1 .. n
    BY <1>1, <1>12
  <2> QED BY <1>7, <1>9, <2>1, <2>2, <2>3
<1>15. Rank[DerivedStatus(workflow, T)] <= Rank[DerivedStatus(workflow, S)]
  <2>1. S[i] \in Statuses /\ T[i] \in {"limited", "blocked"} /\ (S[i] = "blocked" => T[i] = "blocked")
    BY <1>3, <1>4, <1>5, <1>11
  <2> HIDE DEF n
  <2> QED BY <1>1, <1>8, <1>10, <1>11, <1>12, <1>13, <1>14, <2>1, StatusOnlyFalls
<1> QED BY <1>6, <1>7, <1>15 DEF T, worse, input

(***************************************************************************)
(* Had an operation of a leaf task failed instead of answering, the leaf   *)
(* would not be rated higher, and neither would the workflow: the support  *)
(* of no consumer grows when what an operation saw is taken out of the     *)
(* records, the gap itself is counted, and the status of the workflow does *)
(* not rise when a step falls and those that wait for it are skipped.      *)
(***************************************************************************)
THEOREM FailuresNeverHelp == Spec => []FailureNeverHelps
<1>1. WorkflowInv => FailureNeverHelps
  <2>1. SUFFICES ASSUME WorkflowInv, phase = "done", NEW i \in DOMAIN steps, steps[i].input # NoLeaf,
                        NEW o \in OperationsOf(steps[i].input.plan)
                 PROVE  LET worse == FoldedStatus(Failing(steps[i].input, o)) IN
                          /\ Rank[worse] <= Rank[steps[i].state]
                          /\ Rank[DerivedStatus(workflow, WithState(i, worse))] <= Rank[result.status]
    BY DEF FailureNeverHelps
  <2> QED BY <2>1, FailureFalls DEF WorkflowInv, ResultIsTheFold
<1> QED BY <1>1, WorkflowKept, PTL

\* Lists joined have no element twice exactly when no list has, and no two share one.
LEMMA FlattenOnce ==
  ASSUME NEW lists, IsList(lists), \A i \in DOMAIN lists : IsList(lists[i])
  PROVE  Distinct(FlattenSeq(lists)) <=>
           /\ \A i \in DOMAIN lists : Distinct(lists[i])
           /\ \A i, j \in DOMAIN lists : ToSet(lists[i]) \cap ToSet(lists[j]) # {} => i = j
<1> DEFINE S == UNION {ToSet(lists[i]) : i \in DOMAIN lists}
           Once(t) == \A i, j \in 1 .. Len(t) : t[i] = t[j] => i = j
<1>0. ASSUME NEW t \in Seq(S) PROVE Distinct(t) <=> Once(t)
  <2>1. DOMAIN t = 1 .. Len(t)
    BY <1>0, LenProperties
  <2>2. ASSUME Distinct(t) PROVE Once(t)
    <3>1. \A i, j \in DOMAIN t : t[i] = t[j] => i = j
      BY <1>0, <2>2, DistinctTells
    <3> QED BY <2>1, <3>1
  <2>3. ASSUME Once(t) PROVE Distinct(t)
    <3>1. \A i, j \in DOMAIN t : t[i] = t[j] => i = j
      BY <2>1, <2>3
    <3> QED BY <1>0, <3>1, RangeOfDifferent DEF Distinct
  <2> QED BY <2>2, <2>3
<1>1. \A i \in DOMAIN lists : lists[i] \in Seq(S)
  <2>1. \A i \in DOMAIN lists : ToSet(lists[i]) \subseteq S
    OBVIOUS
  <2> HIDE DEF S
  <2> QED BY <2>1, ListInto
<1> HIDE DEF S
<1>2. lists \in Seq(Seq(S))
  <2>1. ToSet(lists) \subseteq Seq(S)
    BY <1>1 DEF ToSet
  <2> QED BY <2>1, ListInto
<1>3. PICK f : /\ f \in [0 .. Len(lists) -> Seq(S)] /\ f[0] = <<>> /\ FlattenSeq(lists) = f[Len(lists)]
               /\ \A n \in 1 .. Len(lists) : f[n] = f[n - 1] \o lists[n]
  BY <1>2, FlattenRecursion
<1>4. Len(lists) \in Nat /\ DOMAIN lists = 1 .. Len(lists)
  BY ListFacts
<1> DEFINE Apart(n) == \A i, j \in 1 .. n : ToSet(lists[i]) \cap ToSet(lists[j]) # {} => i = j
           Each(n) == \A i \in 1 .. n : Once(lists[i])
           Part(n) == UNION {ToSet(lists[k]) : k \in 1 .. n}
           Good == {n \in 0 .. Len(lists) : ToSet(f[n]) = Part(n) /\ (Once(f[n]) <=> (Each(n) /\ Apart(n)))}
<1>5. 0 \in Good
  <2>1. f[0] = <<>> /\ ToSet(<<>>) = {} /\ Part(0) = {} /\ Apart(0) /\ Each(0) /\ Once(<<>>)
    BY <1>3 DEF ToSet
  <2> QED BY <1>4, <2>1
<1>6. ASSUME NEW n \in 1 .. Len(lists), n - 1 \in Good PROVE n \in Good
  <2>0. n \in Nat /\ n \in 0 .. Len(lists) /\ n - 1 \in 0 .. Len(lists)
    BY <1>4
  <2> DEFINE a == f[n - 1]
             b == lists[n]
  <2>1. /\ ToSet(a) = Part(n - 1) /\ (Once(a) <=> (Each(n - 1) /\ Apart(n - 1)))
        /\ a \in Seq(S) /\ b \in Seq(S) /\ f[n] = a \o b
    BY <1>1, <1>3, <1>4, <1>6, <2>0
  <2>2. \A k \in 1 .. n : k = n \/ k \in 1 .. n - 1
    BY <2>0
  <2>3. n \in 1 .. n /\ \A k \in 1 .. n - 1 : k \in 1 .. n /\ k # n
    BY <2>0
  <2>4. Part(n) = Part(n - 1) \cup ToSet(b)
    <3>1. 1 .. n = (1 .. n - 1) \cup {n}
      BY <2>0
    <3> QED BY <3>1
  <2> HIDE DEF a
  <2>5. /\ ToSet(a \o b) = ToSet(a) \cup ToSet(b)
        /\ Len(a) \in Nat /\ Len(b) \in Nat /\ Len(a \o b) = Len(a) + Len(b)
        /\ DOMAIN a = 1 .. Len(a) /\ DOMAIN b = 1 .. Len(b)
        /\ \A i \in 1 .. Len(a) + Len(b) : (a \o b)[i] = IF i <= Len(a) THEN a[i] ELSE b[i - Len(a)]
    BY <2>1, ConcatProperties, RangeOfConcat, LenProperties
  <2>6. Each(n) <=> (Each(n - 1) /\ Once(b))
    BY <2>2, <2>3
  <2>7. Apart(n) <=> (Apart(n - 1) /\ ToSet(a) \cap ToSet(b) = {})
    <3>1. ASSUME Apart(n) PROVE Apart(n - 1) /\ ToSet(a) \cap ToSet(b) = {}
      <4>1. \A k \in 1 .. n - 1 : ToSet(lists[k]) \cap ToSet(b) = {}
        BY <2>3, <3>1
      <4>2. ToSet(a) \cap ToSet(b) = {}
        BY <2>1, <4>1
      <4> QED BY <2>3, <3>1, <4>2
    <3>2. ASSUME Apart(n - 1), ToSet(a) \cap ToSet(b) = {} PROVE Apart(n)
      <4>1. \A k \in 1 .. n - 1 : ToSet(lists[k]) \subseteq ToSet(a)
        BY <2>1
      <4>2. ASSUME NEW i \in 1 .. n, NEW j \in 1 .. n, ToSet(lists[i]) \cap ToSet(lists[j]) # {} PROVE i = j
        <5>1. CASE i = n /\ j = n
          BY <5>1
        <5>2. CASE i \in 1 .. n - 1 /\ j \in 1 .. n - 1
          BY <3>2, <4>2, <5>2
        <5>3. CASE i = n /\ j \in 1 .. n - 1
          BY <3>2, <4>1, <4>2, <5>3
        <5>4. CASE j = n /\ i \in 1 .. n - 1
          BY <3>2, <4>1, <4>2, <5>4
        <5> QED BY <2>2, <5>1, <5>2, <5>3, <5>4
      <4> QED BY <4>2
    <3> QED BY <3>1, <3>2
  <2>8. Once(f[n]) <=> (Once(a) /\ Once(b) /\ ToSet(a) \cap ToSet(b) = {})
    <3> DEFINE c == a \o b
    <3>0. /\ c = f[n] /\ Len(c) = Len(a) + Len(b)
          /\ \A i \in 1 .. Len(a) + Len(b) : c[i] = IF i <= Len(a) THEN a[i] ELSE b[i - Len(a)]
      BY <2>1, <2>5
    <3> HIDE DEF c
    <3>1. /\ \A i \in 1 .. Len(a) : i \in 1 .. Len(a) + Len(b) /\ i <= Len(a) /\ c[i] = a[i]
          /\ \A j \in 1 .. Len(b) : /\ Len(a) + j \in 1 .. Len(a) + Len(b) /\ ~(Len(a) + j <= Len(a))
                                    /\ c[Len(a) + j] = b[j]
      <4>1. \A j \in 1 .. Len(b) : /\ Len(a) + j \in 1 .. Len(a) + Len(b) /\ ~(Len(a) + j <= Len(a))
                                   /\ (Len(a) + j) - Len(a) = j
        BY <2>5
      <4>2. \A i \in 1 .. Len(a) : i \in 1 .. Len(a) + Len(b) /\ i <= Len(a)
        BY <2>5
      <4> QED BY <3>0, <4>1, <4>2
    <3>2. \A i \in 1 .. Len(c) : i \in 1 .. Len(a) \/ \E j \in 1 .. Len(b) : i = Len(a) + j
      <4>1. ASSUME NEW i \in 1 .. Len(c), i \notin 1 .. Len(a) PROVE \E j \in 1 .. Len(b) : i = Len(a) + j
        <5>1. i - Len(a) \in 1 .. Len(b) /\ i = Len(a) + (i - Len(a))
          BY <2>5, <3>0, <4>1
        <5> QED BY <5>1
      <4> QED BY <4>1
    <3>3. ASSUME Once(c) PROVE Once(a) /\ Once(b) /\ ToSet(a) \cap ToSet(b) = {}
      <4>1. Once(a)
        BY <3>0, <3>1, <3>3
      <4>2. Once(b)
        <5>1. ASSUME NEW i \in 1 .. Len(b), NEW j \in 1 .. Len(b), b[i] = b[j] PROVE i = j
          <6>1. Len(a) + i = Len(a) + j
            BY <3>0, <3>1, <3>3, <5>1, ZenonT(40)
          <6> QED BY <2>5, <6>1
        <5> QED BY <5>1
      <4>3. ASSUME NEW x \in ToSet(a), x \in ToSet(b) PROVE FALSE
        <5>1. PICK i \in 1 .. Len(a) : a[i] = x
          BY <2>5 DEF ToSet
        <5>2. PICK j \in 1 .. Len(b) : b[j] = x
          BY <2>5, <4>3 DEF ToSet
        <5>3. i = Len(a) + j
          BY <3>0, <3>1, <3>3, <5>1, <5>2
        <5> QED BY <3>1, <5>3
      <4> QED BY <4>1, <4>2, <4>3
    <3>4. ASSUME Once(a), Once(b), ToSet(a) \cap ToSet(b) = {},
                 NEW i \in 1 .. Len(c), NEW j \in 1 .. Len(c), c[i] = c[j]
          PROVE  i = j
      <4>0. /\ \A k \in 1 .. Len(a) : a[k] \in ToSet(a)
            /\ \A k \in 1 .. Len(b) : b[k] \in ToSet(b)
        BY <2>5 DEF ToSet
      <4>1. CASE i \in 1 .. Len(a) /\ j \in 1 .. Len(a)
        BY <3>1, <3>4, <4>1
      <4>2. ASSUME i \in 1 .. Len(a), NEW l \in 1 .. Len(b), j = Len(a) + l PROVE FALSE
        BY <3>1, <3>4, <4>0, <4>2
      <4>3. ASSUME j \in 1 .. Len(a), NEW l \in 1 .. Len(b), i = Len(a) + l PROVE FALSE
        BY <3>1, <3>4, <4>0, <4>3
      <4>4. ASSUME NEW k \in 1 .. Len(b), i = Len(a) + k, NEW l \in 1 .. Len(b), j = Len(a) + l PROVE i = j
        BY <3>1, <3>4, <4>4
      <4> QED BY <3>2, <4>1, <4>2, <4>3, <4>4
    <3>5. Once(c) <=> (Once(a) /\ Once(b) /\ ToSet(a) \cap ToSet(b) = {})
      BY <3>3, <3>4
    <3> QED BY <3>0, <3>5
  <2>9. ToSet(f[n]) = Part(n)
    BY <2>1, <2>4, <2>5
  <2> HIDE DEF Part, Once, Each, Apart
  <2> QED BY <2>0, <2>1, <2>6, <2>7, <2>8, <2>9
<1>7. 0 .. Len(lists) \subseteq Good
  <2> HIDE DEF Good
  <2> QED BY <1>4, <1>5, <1>6, UpTo
<1>8. (Once(f[Len(lists)]) <=> (Each(Len(lists)) /\ Apart(Len(lists)))) /\ f[Len(lists)] \in Seq(S)
  <2>1. Len(lists) \in 0 .. Len(lists)
    BY <1>4
  <2>2. Len(lists) \in Good
    <3> HIDE DEF Good
    <3> QED BY <1>7, <2>1
  <2>3. f[Len(lists)] \in Seq(S)
    BY <1>3, <2>1
  <2> HIDE DEF Part, Once, Apart, Each
  <2> QED BY <2>2, <2>3
<1>9. Distinct(FlattenSeq(lists)) <=> Once(f[Len(lists)])
  BY <1>0, <1>3, <1>8
<1>10. Each(Len(lists)) <=> \A i \in DOMAIN lists : Distinct(lists[i])
  BY <1>0, <1>1, <1>4
<1> QED BY <1>4, <1>8, <1>9, <1>10

-----------------------------------------------------------------------------
(* A fold is accepted: its records. *)

\* Lists taken through a function that tells elements apart have none twice.
LEMMA DistinctImage ==
  ASSUME NEW s, IsList(s), NEW t, t = [i \in 1 .. Len(s) |-> t[i]],
         \A i, j \in 1 .. Len(s) : t[i] = t[j] => s[i] = s[j]
  PROVE  Distinct(s) => Distinct(t)
<1>1. Len(s) \in Nat /\ DOMAIN s = 1 .. Len(s) /\ s \in Seq(ToSet(s))
  BY ListFacts
<1>2. IsList(t) /\ Len(t) = Len(s) /\ DOMAIN t = 1 .. Len(s)
  BY <1>1, PlacesMakeList
<1>3. ASSUME Distinct(s) PROVE Distinct(t)
  <2>1. \A i, j \in DOMAIN s : s[i] = s[j] => i = j
    BY <1>1, <1>3, DistinctTells
  <2>2. \A i, j \in DOMAIN t : t[i] = t[j] => i = j
    BY <1>1, <1>2, <2>1
  <2>3. t \in Seq(ToSet(t))
    BY <1>2 DEF IsList
  <2> QED BY <2>2, <2>3, RangeOfDifferent DEF Distinct
<1> QED BY <1>3

LEMMA DistinctPlaces ==
  ASSUME NEW s, IsList(s)
  PROVE  Distinct(s) <=> \A i, j \in 1 .. Len(s) : s[i] = s[j] => i = j
<1>1. DOMAIN s = 1 .. Len(s) /\ s \in Seq(ToSet(s))
  BY ListFacts
<1>2. Distinct(s) => \A i, j \in DOMAIN s : s[i] = s[j] => i = j
  BY <1>1, DistinctTells
<1>3. (\A i, j \in DOMAIN s : s[i] = s[j] => i = j) => Distinct(s)
  BY <1>1, RangeOfDifferent DEF Distinct
<1> QED BY <1>1, <1>2, <1>3

\* What an operation saw has nothing twice.
LEMMA SeenIsDistinct ==
  ASSUME NEW input, TaskInput(input), Foldable(input), NEW p \in OperationsOf(input.plan)
  PROVE  Distinct(OutcomeOf(input, p).seen)
<1> DEFINE s == input.outcomes
           lists == Map(LAMBDA outcome : outcome.seen, s)
<1>0. Owned(input)
  BY DEF Owned, Foldable
<1>1. IsList(s) /\ Len(s) \in Nat /\ DOMAIN s = 1 .. Len(s) /\ \A i \in 1 .. Len(s) : s[i] \in ToSet(s)
  BY InputFacts, ListFacts
<1>2. lists = [i \in 1 .. Len(s) |-> s[i].seen]
  BY <1>1 DEF Map
<1>3. Distinct(FlattenSeq(lists))
  BY DEF Foldable
<1>4. \A i \in 1 .. Len(s) : IsList(s[i].seen)
  BY <1>1, InputFacts
<1>5. OutcomeOf(input, p) \in ToSet(s)
  BY <1>0, OutcomeFacts
<1>6. PICK i \in 1 .. Len(s) : OutcomeOf(input, p) = s[i]
  BY <1>1, <1>5 DEF ToSet
<1> HIDE DEF s, lists
<1>7. IsList(lists) /\ DOMAIN lists = 1 .. Len(s)
  <2>1. lists = [k \in 1 .. Len(s) |-> lists[k]]
    BY <1>2
  <2> QED BY <1>1, <2>1, PlacesMakeList
<1>8. \A k \in DOMAIN lists : IsList(lists[k])
  BY <1>2, <1>4, <1>7
<1>9. Distinct(lists[i])
  BY <1>3, <1>7, <1>8, FlattenOnce
<1> QED BY <1>2, <1>6, <1>9

\* Each collection of a fold has each of its records once.
LEMMA FoldRecordsOnce ==
  ASSUME NEW input, TaskInput(input), Foldable(input), WellBuilt(input)
  PROVE  /\ \A field \in Fields : IsList(Records(input)[field]) /\ Distinct(Records(input)[field])
         /\ ToSet(Records(input).errors) =
              UNION {ToSet(ErrorsOf(input, p)) : p \in OperationsOf(input.plan)}
         /\ \A p \in OperationsOf(input.plan) :
              /\ IsList(ErrorsOf(input, p))
              /\ ToSet(ErrorsOf(input, p)) =
                   {[operation |-> p, code |-> c] : c \in ToSet(OutcomeOf(input, p).errors)}
<1>0. Owned(input)
  BY DEF Owned, Foldable
<1> DEFINE o == input.plan.obligations
           ops == Map(LAMBDA x : x.operation, o)
           seen == Map(LAMBDA x : ObservationsOf(input, x.operation), o)
           errs == Map(LAMBDA x : ErrorsOf(input, x.operation), o)
<1>1. IsList(o) /\ Len(o) \in Nat /\ DOMAIN o = 1 .. Len(o) /\ \A i \in 1 .. Len(o) : o[i] \in ToSet(o)
  BY InputFacts, ListFacts
<1>2. /\ ops = [i \in 1 .. Len(o) |-> o[i].operation]
      /\ seen = [i \in 1 .. Len(o) |-> ObservationsOf(input, o[i].operation)]
      /\ errs = [i \in 1 .. Len(o) |-> ErrorsOf(input, o[i].operation)]
  BY <1>1 DEF Map
<1>3. Distinct(ops) /\ Distinct(Records(input).claims) /\ Distinct(Records(input).calculations)
  BY DEF WellBuilt
<1>4. OperationsOf(input.plan) = {o[i].operation : i \in 1 .. Len(o)}
  BY <1>1 DEF OperationsOf, ToSet
<1>5. /\ Records(input).observations = FlattenSeq(seen) /\ Records(input).errors = FlattenSeq(errs)
      /\ Records(input).conflicts = OnceEach(Map(LAMBDA c : CodeRecord(input, c), input.conflicts))
      /\ Records(input).limitations = OnceEach(Map(LAMBDA c : CodeRecord(input, c), input.limitations))
  BY DEF Records, Observations
<1> HIDE DEF o, ops, seen, errs
<1>6. \A i, j \in 1 .. Len(o) : o[i].operation = o[j].operation => i = j
  <2>1. ops = [i \in 1 .. Len(o) |-> ops[i]]
    BY <1>2
  <2>2. IsList(ops) /\ Len(ops) = Len(o)
    BY <1>1, <2>1, PlacesMakeList
  <2>3. \A i, j \in 1 .. Len(ops) : ops[i] = ops[j] => i = j
    BY <1>3, <2>2, DistinctPlaces
  <2> QED BY <1>2, <2>2, <2>3
<1>7. ASSUME NEW p \in OperationsOf(input.plan)
      PROVE  /\ IsList(ErrorsOf(input, p)) /\ Distinct(ErrorsOf(input, p))
             /\ ToSet(ErrorsOf(input, p)) =
                  {[operation |-> p, code |-> c] : c \in ToSet(OutcomeOf(input, p).errors)}
  <2> DEFINE s == OutcomeOf(input, p).errors
             t == Map(LAMBDA code : [operation |-> p, code |-> code], s)
  <2>1. IsList(s)
    BY <1>0, OutcomeFacts, InputFacts
  <2>2. t = [i \in DOMAIN s |-> [operation |-> p, code |-> s[i]]]
    BY DEF Map
  <2>3. ErrorsOf(input, p) = OnceEach(t)
    BY DEF ErrorsOf
  <2> HIDE DEF s, t
  <2>4. Len(s) \in Nat /\ DOMAIN s = 1 .. Len(s)
    BY <2>1, ListFacts
  <2>5. t = [i \in 1 .. Len(s) |-> t[i]]
    BY <2>2, <2>4
  <2>6. IsList(t) /\ DOMAIN t = 1 .. Len(s)
    BY <2>4, <2>5, PlacesMakeList
  <2>7. ToSet(t) = {[operation |-> p, code |-> c] : c \in ToSet(s)}
    BY <2>2, <2>4 DEF ToSet
  <2> QED BY <2>3, <2>6, <2>7, ThinnedList DEF s
<1>8. ASSUME NEW p \in OperationsOf(input.plan)
      PROVE  /\ IsList(ObservationsOf(input, p)) /\ Distinct(ObservationsOf(input, p))
             /\ \A x \in ToSet(ObservationsOf(input, p)) : x.operation = p
  <2> DEFINE s == OutcomeOf(input, p).seen
             t == ObservationsOf(input, p)
  <2>1. IsList(s) /\ Distinct(s)
    BY <1>0, OutcomeFacts, InputFacts, SeenIsDistinct
  <2>2. t = [i \in DOMAIN s |-> [operation |-> p, key |-> s[i]]]
    BY DEF ObservationsOf, Map
  <2>3. IsList(t) /\ \A x \in ToSet(t) : x.operation = p
    <3>1. IsList(t) /\ ToSet(t) = {[operation |-> p, key |-> k] : k \in ToSet(s)}
      BY <1>0, ObservationFacts
    <3> QED BY <3>1
  <2> HIDE DEF s, t
  <2>4. Len(s) \in Nat /\ DOMAIN s = 1 .. Len(s)
    BY <2>1, ListFacts
  <2>5. t = [i \in 1 .. Len(s) |-> t[i]] /\ \A i, j \in 1 .. Len(s) : t[i] = t[j] => s[i] = s[j]
    BY <2>2, <2>4
  <2>6. Distinct(t)
    BY <2>1, <2>5, DistinctImage
  <2> QED BY <2>3, <2>6 DEF t
<1>9. /\ IsList(seen) /\ DOMAIN seen = 1 .. Len(o) /\ IsList(errs) /\ DOMAIN errs = 1 .. Len(o)
  <2>1. seen = [i \in 1 .. Len(o) |-> seen[i]] /\ errs = [i \in 1 .. Len(o) |-> errs[i]]
    BY <1>2
  <2> QED BY <1>1, <2>1, PlacesMakeList
<1>10. Distinct(FlattenSeq(seen))
  <2>1. \A i \in DOMAIN seen : /\ IsList(seen[i]) /\ Distinct(seen[i])
                               /\ \A x \in ToSet(seen[i]) : x.operation = o[i].operation
    BY <1>2, <1>4, <1>8, <1>9
  <2>2. \A i, j \in DOMAIN seen : ToSet(seen[i]) \cap ToSet(seen[j]) # {} => i = j
    BY <1>6, <1>9, <2>1
  <2> QED BY <1>9, <2>1, <2>2, FlattenOnce
<1>11. \A i \in DOMAIN errs : /\ IsList(errs[i]) /\ Distinct(errs[i])
                              /\ \A x \in ToSet(errs[i]) : x.operation = o[i].operation
  <2>1. ASSUME NEW i \in 1 .. Len(o)
        PROVE  /\ IsList(errs[i]) /\ Distinct(errs[i])
               /\ \A x \in ToSet(errs[i]) : x.operation = o[i].operation
    <3>1. o[i].operation \in OperationsOf(input.plan) /\ errs[i] = ErrorsOf(input, o[i].operation)
      BY <1>2, <1>4
    <3> QED BY <1>7, <3>1
  <2> QED BY <1>9, <2>1
<1>12. Distinct(FlattenSeq(errs))
  <2>1. \A i, j \in DOMAIN errs : ToSet(errs[i]) \cap ToSet(errs[j]) # {} => i = j
    BY <1>6, <1>9, <1>11
  <2> QED BY <1>9, <1>11, <2>1, FlattenOnce
<1>13. ToSet(FlattenSeq(errs)) = UNION {ToSet(ErrorsOf(input, p)) : p \in OperationsOf(input.plan)}
  <2>1. ToSet(FlattenSeq(errs)) = UNION {ToSet(errs[i]) : i \in DOMAIN errs}
    BY <1>9, <1>11, JoinedLists
  <2>2. {ToSet(errs[i]) : i \in DOMAIN errs} = {ToSet(ErrorsOf(input, p)) : p \in OperationsOf(input.plan)}
    BY <1>2, <1>4, <1>9
  <2> QED BY <2>1, <2>2
<1>14. \A field \in Fields : IsList(Records(input)[field])
  BY <1>0, RecordsAreLists
<1>15. Distinct(Records(input).conflicts) /\ Distinct(Records(input).limitations)
  <2> DEFINE a == Map(LAMBDA c : CodeRecord(input, c), input.conflicts)
             b == Map(LAMBDA c : CodeRecord(input, c), input.limitations)
  <2>1. IsList(input.conflicts) /\ IsList(input.limitations)
    BY InputFacts
  <2>2. /\ Len(input.conflicts) \in Nat /\ DOMAIN input.conflicts = 1 .. Len(input.conflicts)
        /\ Len(input.limitations) \in Nat /\ DOMAIN input.limitations = 1 .. Len(input.limitations)
    BY <2>1, ListFacts
  <2>3. /\ a = [i \in 1 .. Len(input.conflicts) |-> CodeRecord(input, input.conflicts[i])]
        /\ b = [i \in 1 .. Len(input.limitations) |-> CodeRecord(input, input.limitations[i])]
    BY <2>2 DEF Map
  <2>4. Records(input).conflicts = OnceEach(a) /\ Records(input).limitations = OnceEach(b)
    BY <1>5
  <2> HIDE DEF a, b
  <2>5. a = [i \in 1 .. Len(input.conflicts) |-> a[i]] /\ b = [i \in 1 .. Len(input.limitations) |-> b[i]]
    BY <2>3
  <2>6. IsList(a) /\ IsList(b)
    BY <2>2, <2>5, PlacesMakeList
  <2> QED BY <2>4, <2>6, ThinnedList
<1>16. \A field \in Fields : Distinct(Records(input)[field])
  BY <1>3, <1>5, <1>10, <1>12, <1>15 DEF Fields
<1> QED BY <1>5, <1>7, <1>13, <1>14, <1>16

\* What the fold of an input is made of.
LEMMA FoldParts ==
  ASSUME NEW input
  PROVE  /\ Fold(input).plan = input.plan /\ Fold(input).records = Records(input)
         /\ Fold(input).status = FoldedStatus(input)
         /\ Fold(input).contract = <<input.plan, Map(LAMBDA outcome : outcome.operation, input.outcomes)>>
         /\ Fold(input).brief = [task |-> input.plan.task, status |-> FoldedStatus(input),
                                 records |-> Records(input)]
         /\ DOMAIN Fold(input).covered = OperationsOf(input.plan)
         /\ \A o \in OperationsOf(input.plan) :
              Fold(input).covered[o] =
                [state |-> OutcomeOf(input, o).state, complete |-> OutcomeOf(input, o).complete,
                 coverage |-> CoverageIn(input, o), observations |-> ObservationsOf(input, o),
                 errors |-> ErrorsOf(input, o)]
         /\ Fold(input).states =
              [c \in CapabilitiesOf(input.plan) |->
                 Aggregate({CoverageIn(input, o.operation) :
                   o \in {o \in ToSet(input.plan.obligations) : o.capability = c}})]
BY DEF Fold

\* What the items of a task are over is resolved to its observations.
LEMMA ResolvedSeen ==
  ASSUME NEW input, TaskInput(input), Foldable(input),
         NEW c \in ToSet(input.claims) \cup ToSet(input.calculations)
                   \cup ToSet(input.conflicts) \cup ToSet(input.limitations)
  PROVE  /\ IsList(Resolve(input, c.over)) /\ Distinct(Resolve(input, c.over))
         /\ ToSet(Resolve(input, c.over)) \subseteq ToSet(Observations(input))
         /\ \A x \in ToSet(Resolve(input, c.over)) : x.operation \in OperationsOf(input.plan)
<1> DEFINE s == input.outcomes
           lists == Map(LAMBDA outcome : outcome.seen, s)
<1>0. Owned(input)
  BY DEF Owned, Foldable
<1>1. IsList(s) /\ Len(s) \in Nat /\ DOMAIN s = 1 .. Len(s) /\ \A i \in 1 .. Len(s) : s[i] \in ToSet(s)
  BY InputFacts, ListFacts
<1>2. lists = [i \in 1 .. Len(s) |-> s[i].seen]
  BY <1>1 DEF Map
<1>3. ToSet(c.over) \subseteq ToSet(FlattenSeq(lists))
  BY DEF Foldable
<1>4. IsList(c.over)
  BY InputFacts
<1>5. \A i \in 1 .. Len(s) : /\ IsList(s[i].seen) /\ s[i].operation \in OperationsOf(input.plan)
                             /\ OutcomeOf(input, s[i].operation) = s[i]
  BY <1>0, <1>1, InputFacts, OutcomeFacts
<1> HIDE DEF s, lists
<1>6. IsList(lists) /\ DOMAIN lists = 1 .. Len(s)
  <2>1. lists = [k \in 1 .. Len(s) |-> lists[k]]
    BY <1>2
  <2> QED BY <1>1, <2>1, PlacesMakeList
<1>7. \A k \in DOMAIN lists : IsList(lists[k])
  BY <1>2, <1>5, <1>6
<1>8. ToSet(FlattenSeq(lists)) = UNION {ToSet(lists[i]) : i \in DOMAIN lists}
  BY <1>6, <1>7, JoinedLists
<1>9. ASSUME NEW k \in ToSet(c.over)
      PROVE  /\ ObservationFor(input, k) \in ToSet(Observations(input))
             /\ ObservationFor(input, k).operation \in OperationsOf(input.plan)
  <2>1. PICK i \in 1 .. Len(s) : k \in ToSet(s[i].seen)
    <3>1. PICK i \in DOMAIN lists : k \in ToSet(lists[i])
      BY <1>3, <1>8
    <3> QED BY <1>2, <1>6, <3>1
  <2> DEFINE p == s[i].operation
  <2>2. p \in OperationsOf(input.plan) /\ k \in ToSet(OutcomeOf(input, p).seen)
    BY <1>5, <2>1
  <2> HIDE DEF p
  <2>3. \A q \in OperationsOf(input.plan) : k \in ToSet(OutcomeOf(input, q).seen) => q = p
    BY <2>2, KeysFacts
  <2>4. ObservationFor(input, k) = [operation |-> p, key |-> k]
    BY <1>0, <2>2, <2>3, ChosenObservation
  <2>5. [operation |-> p, key |-> k] \in ToSet(ObservationsOf(input, p))
    BY <1>0, <2>2, ObservationFacts
  <2>6. [operation |-> p, key |-> k] \in ToSet(Observations(input))
    BY <1>0, <2>2, <2>5, ObservationFacts
  <2> QED BY <2>2, <2>4, <2>6
<1>10. /\ IsList(Resolve(input, c.over))
       /\ ToSet(Resolve(input, c.over)) = {ObservationFor(input, k) : k \in ToSet(c.over)}
  BY <1>4, ResolvedList
<1>11. Distinct(Resolve(input, c.over))
  <2> DEFINE t == Map(LAMBDA key : CHOOSE x \in ToSet(Observations(input)) : x.key = key, c.over)
  <2>1. Len(c.over) \in Nat /\ DOMAIN c.over = 1 .. Len(c.over)
    BY <1>4, ListFacts
  <2>2. t = [i \in 1 .. Len(c.over) |-> ObservationFor(input, c.over[i])]
    BY <2>1 DEF Map, ObservationFor
  <2>3. Resolve(input, c.over) = OnceEach(t)
    BY DEF Resolve
  <2> HIDE DEF t
  <2>4. t = [i \in 1 .. Len(c.over) |-> t[i]]
    BY <2>2
  <2>5. IsList(t)
    BY <2>1, <2>4, PlacesMakeList
  <2> QED BY <2>3, <2>5, ThinnedList
<1> QED BY <1>9, <1>10, <1>11

\* The records a collection of items gives are those of its items.
LEMMA RecordsOfItems ==
  ASSUME NEW input, TaskInput(input), Foldable(input)
  PROVE  /\ ToSet(Records(input).claims) = {ClaimRecord(input, c) : c \in ToSet(input.claims)}
         /\ ToSet(Records(input).calculations) =
              {CalculationRecord(input, c) : c \in ToSet(input.calculations)}
         /\ ToSet(Records(input).conflicts) = {CodeRecord(input, c) : c \in ToSet(input.conflicts)}
         /\ ToSet(Records(input).limitations) =
              {CodeRecord(input, c) : c \in ToSet(input.limitations)}
<1>1. /\ DOMAIN input.claims = 1 .. Len(input.claims) /\ Len(input.claims) \in Nat
      /\ DOMAIN input.calculations = 1 .. Len(input.calculations) /\ Len(input.calculations) \in Nat
      /\ DOMAIN input.conflicts = 1 .. Len(input.conflicts) /\ Len(input.conflicts) \in Nat
      /\ DOMAIN input.limitations = 1 .. Len(input.limitations) /\ Len(input.limitations) \in Nat
  BY InputFacts, ListFacts
<1>2. ToSet(Records(input).claims) = {ClaimRecord(input, c) : c \in ToSet(input.claims)}
  <2>1. Records(input).claims = [i \in 1 .. Len(input.claims) |-> ClaimRecord(input, input.claims[i])]
    BY <1>1 DEF Records, Map
  <2> QED BY <1>1, <2>1 DEF ToSet
<1>3. ToSet(Records(input).calculations) =
        {CalculationRecord(input, c) : c \in ToSet(input.calculations)}
  <2>1. Records(input).calculations =
          [i \in 1 .. Len(input.calculations) |-> CalculationRecord(input, input.calculations[i])]
    BY <1>1 DEF Records, Map
  <2> QED BY <1>1, <2>1 DEF ToSet
<1> DEFINE a == Map(LAMBDA c : CodeRecord(input, c), input.conflicts)
           b == Map(LAMBDA c : CodeRecord(input, c), input.limitations)
<1>4. /\ a = [i \in 1 .. Len(input.conflicts) |-> CodeRecord(input, input.conflicts[i])]
      /\ b = [i \in 1 .. Len(input.limitations) |-> CodeRecord(input, input.limitations[i])]
  BY <1>1 DEF Map
<1>5. Records(input).conflicts = OnceEach(a) /\ Records(input).limitations = OnceEach(b)
  BY DEF Records
<1> HIDE DEF a, b
<1>6. a = [i \in 1 .. Len(input.conflicts) |-> a[i]] /\ b = [i \in 1 .. Len(input.limitations) |-> b[i]]
  BY <1>4
<1>7. IsList(a) /\ IsList(b) /\ DOMAIN a = 1 .. Len(input.conflicts) /\ DOMAIN b = 1 .. Len(input.limitations)
  BY <1>1, <1>6, PlacesMakeList
<1>8. ToSet(OnceEach(a)) = ToSet(a) /\ ToSet(OnceEach(b)) = ToSet(b)
  BY <1>7, ThinnedList
<1>9. ToSet(a) = {CodeRecord(input, c) : c \in ToSet(input.conflicts)}
  BY <1>1, <1>4, <1>7 DEF ToSet
<1>10. ToSet(b) = {CodeRecord(input, c) : c \in ToSet(input.limitations)}
  BY <1>1, <1>4, <1>7 DEF ToSet
<1> QED BY <1>2, <1>3, <1>5, <1>8, <1>9, <1>10

LEMMA FoldOwns ==
  ASSUME NEW input, TaskInput(input), Foldable(input), WellBuilt(input)
  PROVE  OwnershipHolds(Fold(input))
<1>0. Owned(input)
  BY DEF Owned, Foldable
<1>1. \A field \in Fields : Distinct(Records(input)[field])
  BY FoldRecordsOnce
<1>2. \A x \in ToSet(Records(input).observations) : x.operation \in OperationsOf(input.plan)
  <2>1. Records(input).observations = Observations(input)
    BY DEF Records
  <2>2. ASSUME NEW x \in ToSet(Observations(input)) PROVE x.operation \in OperationsOf(input.plan)
    <3>1. PICK p \in OperationsOf(input.plan) : x \in ToSet(ObservationsOf(input, p))
      BY <1>0, ObservationFacts
    <3>2. PICK k \in ToSet(OutcomeOf(input, p).seen) : x = [operation |-> p, key |-> k]
      BY <1>0, <3>1, ObservationFacts
    <3> QED BY <3>2
  <2> QED BY <2>1, <2>2
<1>3. ASSUME NEW x \in ToSet(Records(input).errors) PROVE x.operation \in OperationsOf(input.plan)
  <2>1. PICK p \in OperationsOf(input.plan) : x \in ToSet(ErrorsOf(input, p))
    BY FoldRecordsOnce
  <2>2. PICK c \in ToSet(OutcomeOf(input, p).errors) : x = [operation |-> p, code |-> c]
    BY <2>1, FoldRecordsOnce
  <2> QED BY <2>2
<1> QED BY <1>1, <1>2, <1>3, FoldParts DEF OwnershipHolds, OwnedBy

\* A list is empty when it has no element.
LEMMA EmptyList ==
  ASSUME NEW s, IsList(s)
  PROVE  s = <<>> <=> ToSet(s) = {}
<1>1. s \in Seq(ToSet(s)) /\ Len(s) \in Nat /\ DOMAIN s = 1 .. Len(s) /\ \A i \in 1 .. Len(s) : s[i] \in ToSet(s)
  BY ListFacts
<1>2. ASSUME ToSet(s) = {} PROVE s = <<>>
  <2>1. Len(s) = 0
    <3>1. ASSUME Len(s) # 0 PROVE FALSE
      <4>1. 1 \in 1 .. Len(s)
        BY <1>1, <3>1
      <4> QED BY <1>1, <1>2, <4>1
    <3> QED BY <3>1
  <2> QED BY <1>1, <2>1, EmptySeq
<1> QED BY <1>2, ShortLists

LEMMA FoldCovers ==
  ASSUME NEW input, TaskInput(input), Foldable(input), WellBuilt(input)
  PROVE  CoverageHolds(Fold(input))
<1> DEFINE ops == OperationsOf(input.plan)
           covered == Fold(input).covered
<1>0. Owned(input)
  BY DEF Owned, Foldable
<1>1. /\ DOMAIN covered = ops /\ Fold(input).plan = input.plan /\ Fold(input).records = Records(input)
      /\ \A o \in ops :
           /\ covered[o].state = OutcomeOf(input, o).state
           /\ covered[o].complete = OutcomeOf(input, o).complete
           /\ covered[o].coverage = CoverageIn(input, o)
           /\ covered[o].observations = ObservationsOf(input, o)
           /\ covered[o].errors = ErrorsOf(input, o)
      /\ Fold(input).states =
           [c \in CapabilitiesOf(input.plan) |->
              Aggregate({CoverageIn(input, o.operation) :
                o \in {o \in ToSet(input.plan.obligations) : o.capability = c}})]
  <2>1. /\ DOMAIN covered = ops /\ Fold(input).plan = input.plan /\ Fold(input).records = Records(input)
        /\ Fold(input).states =
             [c \in CapabilitiesOf(input.plan) |->
                Aggregate({CoverageIn(input, o.operation) :
                  o \in {o \in ToSet(input.plan.obligations) : o.capability = c}})]
    BY FoldParts
  <2>2. ASSUME NEW o \in ops
        PROVE  /\ covered[o].state = OutcomeOf(input, o).state
               /\ covered[o].complete = OutcomeOf(input, o).complete
               /\ covered[o].coverage = CoverageIn(input, o)
               /\ covered[o].observations = ObservationsOf(input, o)
               /\ covered[o].errors = ErrorsOf(input, o)
    <3>1. covered[o] =
            [state |-> OutcomeOf(input, o).state, complete |-> OutcomeOf(input, o).complete,
             coverage |-> CoverageIn(input, o), observations |-> ObservationsOf(input, o),
             errors |-> ErrorsOf(input, o)]
      BY FoldParts
    <3> HIDE DEF covered
    <3> QED BY <3>1
  <2> QED BY <2>1, <2>2
<1> HIDE DEF covered
<1>2. ASSUME NEW o \in ops
      PROVE  /\ \A x \in ToSet(covered[o].observations) \cup ToSet(covered[o].errors) : x.operation = o
             /\ WellFormed(covered[o].state, covered[o].observations, covered[o].errors)
             /\ covered[o].coverage = CoverageOf(covered[o].state, covered[o].complete, covered[o].observations)
  <2> DEFINE outcome == OutcomeOf(input, o)
             seen == ObservationsOf(input, o)
             errors == ErrorsOf(input, o)
  <2>1. outcome \in ToSet(input.outcomes)
    BY <1>0, OutcomeFacts
  <2>2. WellFormed(outcome.state, outcome.seen, outcome.errors)
    BY <2>1 DEF Foldable
  <2>3. IsList(outcome.seen) /\ IsList(outcome.errors)
    BY <2>1, InputFacts
  <2>4. IsList(seen) /\ ToSet(seen) = {[operation |-> o, key |-> k] : k \in ToSet(outcome.seen)}
    BY <1>0, ObservationFacts
  <2>5. IsList(errors) /\ ToSet(errors) = {[operation |-> o, code |-> c] : c \in ToSet(outcome.errors)}
    BY FoldRecordsOnce
  <2>6. /\ covered[o].state = outcome.state /\ covered[o].complete = outcome.complete
        /\ covered[o].observations = seen /\ covered[o].errors = errors
        /\ covered[o].coverage = CoverageOf(outcome.state, outcome.complete, outcome.seen)
    BY <1>1 DEF CoverageIn
  <2> HIDE DEF outcome, seen, errors
  <2>7. /\ ToSet(seen) = {} <=> ToSet(outcome.seen) = {}
        /\ ToSet(errors) = {} <=> ToSet(outcome.errors) = {}
        /\ \A x \in ToSet(seen) \cup ToSet(errors) : x.operation = o
    <3>1. ToSet(seen) = {} <=> ToSet(outcome.seen) = {}
      BY <2>4
    <3>2. ToSet(errors) = {} <=> ToSet(outcome.errors) = {}
      BY <2>5
    <3>3. \A x \in ToSet(seen) : x.operation = o
      BY <2>4
    <3>4. \A x \in ToSet(errors) : x.operation = o
      BY <2>5
    <3> QED BY <3>1, <3>2, <3>3, <3>4
  <2>8. (seen = <<>> <=> outcome.seen = <<>>) /\ (errors = <<>> <=> outcome.errors = <<>>)
    BY <2>3, <2>4, <2>5, <2>7, EmptyList
  <2>9. WellFormed(outcome.state, seen, errors)
    BY <2>2, <2>8 DEF WellFormed
  <2>10. CoverageOf(outcome.state, outcome.complete, outcome.seen)
           = CoverageOf(outcome.state, outcome.complete, seen)
    BY <2>7 DEF CoverageOf, Coverage
  <2> QED BY <2>6, <2>7, <2>9, <2>10
<1>3. UNION {ToSet(covered[o].observations) : o \in ops} = ToSet(Records(input).observations)
  <2>1. {ToSet(covered[o].observations) : o \in ops} = {ToSet(ObservationsOf(input, o)) : o \in ops}
    BY <1>1
  <2>2. Records(input).observations = Observations(input)
    BY DEF Records
  <2> QED BY <1>0, <2>1, <2>2, ObservationFacts
<1>4. UNION {ToSet(covered[o].errors) : o \in ops} = ToSet(Records(input).errors)
  <2>1. {ToSet(covered[o].errors) : o \in ops} = {ToSet(ErrorsOf(input, o)) : o \in ops}
    BY <1>1
  <2> QED BY <2>1, FoldRecordsOnce
<1>5. Fold(input).states =
        [c \in CapabilitiesOf(input.plan) |->
           Aggregate({covered[o.operation].coverage :
             o \in {o \in ToSet(input.plan.obligations) : o.capability = c}})]
  <2>1. \A o \in ToSet(input.plan.obligations) : o.operation \in ops
    BY DEF OperationsOf
  <2>2. \A c : {covered[o.operation].coverage : o \in {o \in ToSet(input.plan.obligations) : o.capability = c}}
               = {CoverageIn(input, o.operation) : o \in {o \in ToSet(input.plan.obligations) : o.capability = c}}
    BY <1>1, <2>1
  <2> DEFINE folded == [c \in CapabilitiesOf(input.plan) |->
                          Aggregate({CoverageIn(input, o.operation) :
                            o \in {o \in ToSet(input.plan.obligations) : o.capability = c}})]
             listed == [c \in CapabilitiesOf(input.plan) |->
                          Aggregate({covered[o.operation].coverage :
                            o \in {o \in ToSet(input.plan.obligations) : o.capability = c}})]
  <2>3. \A c \in CapabilitiesOf(input.plan) : folded[c] = listed[c]
    BY <2>2
  <2>4. folded = listed
    BY <2>3
  <2> QED BY <1>1, <2>4
<1> HIDE DEF ops
<1>6. /\ UNION {ToSet(covered[o]["observations"]) : o \in DOMAIN covered} = ToSet(Records(input).observations)
      /\ UNION {ToSet(covered[o]["errors"]) : o \in DOMAIN covered} = ToSet(Records(input).errors)
  BY <1>1, <1>3, <1>4
<1> QED BY <1>1, <1>2, <1>5, <1>6 DEF CoverageHolds, covered, ops

LEMMA FoldContract ==
  ASSUME NEW input, WellBuilt(input)
  PROVE  ContractHolds(Fold(input))
BY FoldParts, ZenonT(40) DEF ContractHolds, WellBuilt

LEMMA FoldReferences ==
  ASSUME NEW input, TaskInput(input), Foldable(input)
  PROVE  ReferencesHold(Fold(input))
<1>1. Records(input).observations = Observations(input)
  BY DEF Records
<1>2. /\ \A c \in ToSet(input.claims) : ToSet(ClaimRecord(input, c).over) \subseteq ToSet(Observations(input))
      /\ \A c \in ToSet(input.calculations) :
           ToSet(CalculationRecord(input, c).over) \subseteq ToSet(Observations(input))
      /\ \A c \in ToSet(input.conflicts) \cup ToSet(input.limitations) :
           ToSet(CodeRecord(input, c).over) \subseteq ToSet(Observations(input))
  BY ResolvedSeen DEF ClaimRecord, CalculationRecord, CodeRecord
<1>3. \A record \in ToSet(Records(input).claims) \cup ToSet(Records(input).calculations)
                    \cup ToSet(Records(input).conflicts) \cup ToSet(Records(input).limitations) :
        ToSet(record.over) \subseteq ToSet(Observations(input))
  BY <1>2, RecordsOfItems
<1> QED BY <1>1, <1>3, FoldParts DEF ReferencesHold

\* The role of what a consumer is over, in its use, is the plan's.
LEMMA RolesAgree ==
  ASSUME NEW input, TaskInput(input), Foldable(input),
         NEW c \in ToSet(input.claims) \cup ToSet(input.calculations),
         NEW x \in ToSet(Resolve(input, c.over))
  PROVE  RoleIn(Fold(input), x, c.use) = RoleOf(input.plan, x, c.use)
<1>1. c.use \in DOMAIN Obligation(input.plan, x.operation).roles
  BY DEF Foldable
<1> QED BY <1>1, FoldParts DEF RoleIn, RoleOf

LEMMA FoldAdopts ==
  ASSUME NEW input, TaskInput(input), Foldable(input)
  PROVE  AdoptionsHold(Fold(input))
<1>1. ASSUME NEW c \in ToSet(input.claims), NEW claim, claim = ClaimRecord(input, c)
      PROVE  /\ {a.observation : a \in ToSet(claim.adoptions)} = ToSet(claim.over)
             /\ Len(claim.adoptions) = Cardinality(ToSet(claim.over))
             /\ \A a \in ToSet(claim.adoptions) :
                  a.role = IF SupportingIn(Fold(input), a.observation, claim.use) THEN "supporting"
                           ELSE RoleIn(Fold(input), a.observation, claim.use)
  <2> DEFINE over == Resolve(input, c.over)
             role(x) == RoleOf(input.plan, x, c.use)
             adopted(x) == [observation |-> x,
                            role |-> IF role(x) = "conditional_supporting" THEN "supporting" ELSE role(x)]
             t == Map(adopted, over)
  <2>1. claim.over = over /\ claim.use = c.use /\ claim.adoptions = t
    BY <1>1 DEF ClaimRecord
  <2>2. IsList(over) /\ Distinct(over)
    BY ResolvedSeen
  <2>3. \A x \in ToSet(over) : role(x) = RoleIn(Fold(input), x, c.use)
    BY RolesAgree
  <2> HIDE DEF over
  <2>4. Len(over) \in Nat /\ DOMAIN over = 1 .. Len(over) /\ \A i \in 1 .. Len(over) : over[i] \in ToSet(over)
    BY <2>2, ListFacts
  <2>5. t = [i \in 1 .. Len(over) |-> adopted(over[i])]
    BY <2>4 DEF Map
  <2> HIDE DEF t
  <2>6. t = [i \in 1 .. Len(over) |-> t[i]]
    BY <2>5
  <2>7. IsList(t) /\ Len(t) = Len(over) /\ DOMAIN t = 1 .. Len(over)
    BY <2>4, <2>6, PlacesMakeList
  <2>8. Len(t) = Cardinality(ToSet(over))
    BY <2>2, <2>7 DEF Distinct
  <2>9. ToSet(t) = {adopted(x) : x \in ToSet(over)}
    BY <2>4, <2>5, <2>7 DEF ToSet
  <2>10. \A x \in ToSet(over) :
           /\ adopted(x).observation = x
           /\ adopted(x).role = IF SupportingIn(Fold(input), x, c.use) THEN "supporting"
                                ELSE RoleIn(Fold(input), x, c.use)
    BY <2>3 DEF SupportingIn
  <2> HIDE DEF adopted
  <2>11. {a.observation : a \in ToSet(t)} = ToSet(over)
    BY <2>9, <2>10
  <2> QED BY <2>1, <2>8, <2>9, <2>10, <2>11
<1>2. Fold(input).records = Records(input)
  BY FoldParts
<1>3. ToSet(Records(input).claims) = {ClaimRecord(input, c) : c \in ToSet(input.claims)}
  BY RecordsOfItems
<1> DEFINE f == Fold(input)
           claims == Records(input).claims
<1>4. f.records.claims = claims
  BY <1>2
<1>5. \A claim \in ToSet(claims) :
        /\ {a.observation : a \in ToSet(claim.adoptions)} = ToSet(claim.over)
        /\ Len(claim.adoptions) = Cardinality(ToSet(claim.over))
        /\ \A a \in ToSet(claim.adoptions) :
             a.role = IF SupportingIn(f, a.observation, claim.use) THEN "supporting"
                      ELSE RoleIn(f, a.observation, claim.use)
  BY <1>1, <1>3
<1> HIDE DEF f, claims
<1>6. AdoptionsHold(f)
  BY <1>4, <1>5 DEF AdoptionsHold
<1> QED BY <1>6 DEF f

\* The support a reader counts is the one the fold counted.
LEMMA SupportsAgree ==
  ASSUME NEW input, TaskInput(input), Foldable(input), NEW d
  PROVE  PublishedSupport(Fold(input), d) = Support(input, d)
<1> DEFINE f == Fold(input)
           consumers == {c \in ToSet(Records(input).claims) \cup ToSet(Records(input).calculations) :
                           c.kind = d.consumer /\ c.use = d.use}
           support(c) == Cardinality({x \in ToSet(c.over) : SupportingIn(f, x, d.use)})
           rec(c) == IF c \in ToSet(input.claims) THEN ClaimRecord(input, c) ELSE CalculationRecord(input, c)
<1>1. PublishedSupport(f, d) = Max({0} \cup {support(c) : c \in consumers})
  BY FoldParts DEF PublishedSupport
<1>2. Support(input, d) = Max({0} \cup {Cardinality(Supporting(input, d, c)) : c \in Consumers(input, d)})
  BY DEF Support, Supporting, Consumers
<1>3. ASSUME NEW c \in Consumers(input, d), NEW r, r.over = Resolve(input, c.over)
      PROVE  support(r) = Cardinality(Supporting(input, d, c))
  <2>1. c \in ToSet(input.claims) \cup ToSet(input.calculations) /\ c.use = d.use
    BY DEF Consumers
  <2>2. \A x \in ToSet(r.over) : RoleIn(f, x, d.use) = RoleOf(input.plan, x, d.use)
    BY <1>3, <2>1, RolesAgree
  <2>3. {x \in ToSet(r.over) : SupportingIn(f, x, d.use)} = Supporting(input, d, c)
    BY <1>3, <2>2 DEF SupportingIn, Supporting
  <2> QED BY <2>3
<1>4. \A c : /\ ClaimRecord(input, c).kind = c.kind /\ ClaimRecord(input, c).use = c.use
             /\ ClaimRecord(input, c).over = Resolve(input, c.over)
             /\ CalculationRecord(input, c).kind = c.kind /\ CalculationRecord(input, c).use = c.use
             /\ CalculationRecord(input, c).over = Resolve(input, c.over)
  BY DEF ClaimRecord, CalculationRecord
<1> HIDE DEF support, f
<1>5. ASSUME NEW r \in consumers PROVE \E c \in Consumers(input, d) : support(r) = Cardinality(Supporting(input, d, c))
  <2>1. \/ \E c \in ToSet(input.claims) : r = ClaimRecord(input, c)
        \/ \E c \in ToSet(input.calculations) : r = CalculationRecord(input, c)
    BY RecordsOfItems
  <2>2. PICK c \in ToSet(input.claims) \cup ToSet(input.calculations) :
          r.kind = c.kind /\ r.use = c.use /\ r.over = Resolve(input, c.over)
    BY <1>4, <2>1
  <2>3. c \in Consumers(input, d)
    BY <2>2 DEF Consumers
  <2> QED BY <1>3, <2>2, <2>3
<1>6. ASSUME NEW c \in Consumers(input, d) PROVE \E r \in consumers : support(r) = Cardinality(Supporting(input, d, c))
  <2>1. c \in ToSet(input.claims) \cup ToSet(input.calculations) /\ c.kind = d.consumer /\ c.use = d.use
    BY DEF Consumers
  <2>2. rec(c) \in ToSet(Records(input).claims) \cup ToSet(Records(input).calculations)
    BY <2>1, RecordsOfItems
  <2>3. rec(c).kind = c.kind /\ rec(c).use = c.use /\ rec(c).over = Resolve(input, c.over)
    BY <1>4
  <2>4. rec(c) \in consumers
    BY <2>1, <2>2, <2>3
  <2> QED BY <1>3, <2>3, <2>4
<1> HIDE DEF consumers
<1>7. {support(c) : c \in consumers} = {Cardinality(Supporting(input, d, c)) : c \in Consumers(input, d)}
  BY <1>5, <1>6
<1> QED BY <1>1, <1>2, <1>7 DEF f

LEMMA FoldStatus ==
  ASSUME NEW input, TaskInput(input), Foldable(input)
  PROVE  Fold(input).status = PublishedStatus(Fold(input))
<1> DEFINE f == Fold(input)
           unmet == {d \in input.plan.dependencies : Support(input, d) < d.minimum}
           found == {d \in f.plan.dependencies : PublishedSupport(f, d) < d.minimum}
<1>1. /\ f.plan = input.plan /\ f.records = Records(input) /\ f.status = FoldedStatus(input)
      /\ \A o \in OperationsOf(input.plan) : f.covered[o].coverage = CoverageIn(input, o)
  <2>1. /\ f.plan = input.plan /\ f.records = Records(input) /\ f.status = FoldedStatus(input)
    BY FoldParts
  <2>2. ASSUME NEW o \in OperationsOf(input.plan) PROVE f.covered[o].coverage = CoverageIn(input, o)
    <3>1. f.covered[o] =
            [state |-> OutcomeOf(input, o).state, complete |-> OutcomeOf(input, o).complete,
             coverage |-> CoverageIn(input, o), observations |-> ObservationsOf(input, o),
             errors |-> ErrorsOf(input, o)]
      BY FoldParts
    <3> HIDE DEF f
    <3> QED BY <3>1
  <2> QED BY <2>1, <2>2
<1>2. unmet = found
  BY <1>1, SupportsAgree
<1>3. \A o \in ToSet(input.plan.obligations) : f.covered[o.operation].coverage = CoverageIn(input, o.operation)
  BY <1>1 DEF OperationsOf
<1>4. FoldedStatus(input) = StatusFrom(\E d \in unmet : d.core, \E d \in unmet : ~d.core,
        \/ \E field \in {"errors", "conflicts", "limitations"} : Records(input)[field] # <<>>
        \/ \E o \in ToSet(input.plan.obligations) :
             \/ o.experimental
             \/ CoverageIn(input, o.operation) \notin {"complete", "observed_empty"})
  BY DEF FoldedStatus
<1>5. PublishedStatus(f) = StatusFrom(\E d \in found : d.core, \E d \in found : ~d.core,
        \/ \E field \in {"errors", "conflicts", "limitations"} : f.records[field] # <<>>
        \/ \E o \in ToSet(f.plan.obligations) :
             \/ o.experimental
             \/ f.covered[o.operation].coverage \notin {"complete", "observed_empty"})
  BY DEF PublishedStatus
<1> HIDE DEF f, unmet, found
<1>6. (\E o \in ToSet(f.plan.obligations) :
         \/ o.experimental
         \/ f.covered[o.operation].coverage \notin {"complete", "observed_empty"})
      <=> (\E o \in ToSet(input.plan.obligations) :
             \/ o.experimental
             \/ CoverageIn(input, o.operation) \notin {"complete", "observed_empty"})
  BY <1>1, <1>3
<1>7. f.status = PublishedStatus(f)
  BY <1>1, <1>2, <1>4, <1>5, <1>6 DEF StatusFrom
<1> QED BY <1>7 DEF f

\* A result the fold builds from a well built input passes the validation of direct tasks.
LEMMA FoldIsAccepted ==
  ASSUME NEW input, TaskInput(input), Foldable(input), WellBuilt(input)
  PROVE  Accepts(Fold(input))
<1>1. BriefHolds(Fold(input))
  <2> DEFINE f == Fold(input)
             records == Records(input)
  <2>1. f.records = records /\ f.brief.records = records /\ f.brief.status = f.status
    <3>1. /\ f.brief = [task |-> input.plan.task, status |-> FoldedStatus(input), records |-> records]
          /\ f.records = records /\ f.status = FoldedStatus(input)
      BY FoldFacts
    <3> HIDE DEF f, records
    <3> QED BY <3>1
  <2> HIDE DEF f, records
  <2>2. BriefHolds(f)
    BY <2>1 DEF BriefHolds
  <2> QED BY <2>2 DEF f
<1> QED BY <1>1, FoldOwns, FoldCovers, FoldContract, FoldReferences, FoldAdopts, FoldStatus
        DEF Accepts

-----------------------------------------------------------------------------
(* Where in the plans the gate and the owners of the foundation are. *)

RowFacts(w, i) ==
  LET row == Plans[w][i] IN
  /\ row.task # "research_workflow"
  /\ row = Gate <=> (w \in Gates /\ i = 1)
  /\ row.task = "security_identity" <=> row = Gate
  /\ w \in Gates /\ i # 1 => row.depends = {"identity"}
  /\ row.task = "overview_session" <=> (w = "market_overview_research" /\ i = 5)
  /\ row.task = "overview_indices" <=> (w = "market_overview_research" /\ i = 6)

LEMMA PlanRows ==
  ASSUME NEW w \in DOMAIN Plans, NEW i \in 1 .. Len(Plans[w])
  PROVE  RowFacts(w, i)
<1>1. DOMAIN Plans =
        {"single_security_valuation", "valuation_comparison", "theme_report_research",
         "single_security_research", "market_overview_research", "new_security_research"}
  BY DEF Plans
<1>2. /\ \A step, task : LET row == Needed(step, task) IN
              row.task = task /\ (task # "security_identity" => row # Gate)
      /\ \A step, task, c : LET row == AfterGate(step, task, c) IN
              row.task = task /\ row.depends = {"identity"}
              /\ (task # "security_identity" => row # Gate)
      /\ \A step, task, c, d : LET row == Row(step, task, c, d) IN
              row.task = task /\ (task # "security_identity" => row # Gate)
      /\ Gate.task = "security_identity"
  BY DEF Needed, AfterGate, Row, Gate
<1>3. CASE w = "single_security_valuation"
  <2>1. Plans[w] = <<Needed("valuation", "security_valuation")>>
    BY <1>3 DEF Plans
  <2>2. Len(Plans[w]) = 1
    BY <2>1, ShortLists
  <2>3. i = 1
    BY <2>2
  <2>4. Plans[w][i] = Needed("valuation", "security_valuation")
    BY <2>1, <2>3, ShortLists
  <2> QED BY <1>2, <1>3, <2>4 DEF RowFacts, Gates
<1>4. CASE w = "valuation_comparison"
  <2>1. Plans[w] = <<Needed("comparison", "valuation_compare")>>
    BY <1>4 DEF Plans
  <2>2. Len(Plans[w]) = 1
    BY <2>1, ShortLists
  <2>3. i = 1
    BY <2>2
  <2>4. Plans[w][i] = Needed("comparison", "valuation_compare")
    BY <2>1, <2>3, ShortLists
  <2> QED BY <1>2, <1>4, <2>4 DEF RowFacts, Gates
<1>5. CASE w = "theme_report_research"
  <2>1. Plans[w] = <<Needed("report_research", "research_content")>>
    BY <1>5 DEF Plans
  <2>2. Len(Plans[w]) = 1
    BY <2>1, ShortLists
  <2>3. i = 1
    BY <2>2
  <2>4. Plans[w][i] = Needed("report_research", "research_content")
    BY <2>1, <2>3, ShortLists
  <2> QED BY <1>2, <1>5, <2>4 DEF RowFacts, Gates
<1>6. CASE w = "single_security_research"
  <2> DEFINE t == SingleSecurityPlan
  <2>1. Plans[w] = t
    BY <1>6 DEF Plans
  <2>2. t = [k \in 1 .. 7 |-> t[k]]
    BY DEF SingleSecurityPlan
  <2>3. /\ t[1] = Gate /\ t[2] = AfterGate("market_trend", "market_trend", "core")
        /\ t[3] = AfterGate("valuation", "security_valuation", "standard_enrichment")
        /\ t[4] = AfterGate("materials", "research_content", "standard_enrichment")
        /\ t[5] = AfterGate("capital_activity", "capital_events", "standard_enrichment")
        /\ t[6] = AfterGate("lockup_events", "capital_events", "standard_enrichment")
        /\ t[7] = AfterGate("market_context", "market_signals", "standard_enrichment")
    BY DEF SingleSecurityPlan
  <2> HIDE DEF t
  <2>4. Len(t) = 7
    BY <2>2, PlacesMakeList
  <2>5. i \in 1 .. 7 /\ Plans[w][i] = t[i]
    BY <2>1, <2>4
  <2>6. i = 1 \/ i = 2 \/ i = 3 \/ i = 4 \/ i = 5 \/ i = 6 \/ i = 7
    BY <2>5
  <2>7. CASE i = 1
    BY <1>2, <1>6, <2>3, <2>5, <2>7 DEF RowFacts, Gates
  <2>8. CASE i # 1
    <3>1. PICK step, task, c :
            /\ t[i] = AfterGate(step, task, c)
            /\ task \in {"market_trend", "security_valuation", "research_content", "capital_events",
                         "market_signals"}
      BY <2>3, <2>6, <2>8
    <3> QED BY <1>2, <1>6, <2>5, <2>8, <3>1 DEF RowFacts, Gates
  <2> QED BY <2>7, <2>8
<1>7. CASE w = "market_overview_research"
  <2> DEFINE t == MarketOverviewPlan
  <2>1. Plans[w] = t
    BY <1>7 DEF Plans
  <2>2. t = [k \in 1 .. 6 |-> t[k]]
    BY DEF MarketOverviewPlan
  <2>3. /\ t[1].task = "market_signals" /\ t[2].task = "market_signals"
        /\ t[3].task = "capital_events" /\ t[4].task = "research_content"
        /\ t[5].task = "overview_session" /\ t[6].task = "overview_indices"
    BY DEF MarketOverviewPlan, Row
  <2> HIDE DEF t
  <2>4. Len(t) = 6
    BY <2>2, PlacesMakeList
  <2>5. i \in 1 .. 6 /\ Plans[w][i] = t[i]
    BY <2>1, <2>4
  <2>6. i = 1 \/ i = 2 \/ i = 3 \/ i = 4 \/ i = 5 \/ i = 6
    BY <2>5
  <2>7. t[i] # Gate
    BY <1>2, <2>3, <2>6
  <2> QED BY <1>7, <2>3, <2>5, <2>6, <2>7 DEF RowFacts, Gates
<1>8. CASE w = "new_security_research"
  <2> DEFINE rows == <<<<"institutional_coverage", "research_content">>,
                       <<"valuation", "security_valuation">>, <<"board_membership", "market_signals">>,
                       <<"fund_flow", "capital_events">>, <<"dragon_tiger", "capital_events">>,
                       <<"lockup", "capital_events">>, <<"margin_trading", "capital_events">>>>
             mapped == Map(LAMBDA row : AfterGate(row[1], row[2], "required_evidence"), rows)
             first == <<Gate>>
  <2>1. Plans[w] = first \o mapped
    BY <1>8 DEF Plans, NewSecurityPlan
  <2>2. /\ DOMAIN rows = 1 .. 7
        /\ \A k \in 1 .. 7 : rows[k][2] \in {"research_content", "security_valuation", "market_signals",
                                             "capital_events"}
    OBVIOUS
  <2>3. mapped = [k \in 1 .. 7 |-> AfterGate(rows[k][1], rows[k][2], "required_evidence")]
    BY <2>2 DEF Map
  <2> HIDE DEF rows, mapped
  <2>4. mapped = [k \in 1 .. 7 |-> mapped[k]]
    BY <2>3
  <2>5. IsList(mapped) /\ Len(mapped) = 7
    BY <2>4, PlacesMakeList
  <2> DEFINE S == ToSet(<<Gate>>) \cup ToSet(mapped)
  <2>6. first \in Seq(S) /\ mapped \in Seq(S) /\ Len(first) = 1 /\ first[1] = Gate
    BY <2>5, ShortLists, ListInto
  <2> HIDE DEF S, first
  <2> DEFINE both == first \o mapped
  <2>7. /\ Plans[w] = both /\ Len(both) = Len(first) + Len(mapped)
        /\ \A k \in 1 .. Len(first) + Len(mapped) :
             both[k] = IF k <= Len(first) THEN first[k] ELSE mapped[k - Len(first)]
    BY <2>1, <2>6, ConcatProperties
  <2> HIDE DEF both
  <2>8. i \in 1 .. 8 /\ Plans[w][i] = IF i <= 1 THEN first[i] ELSE mapped[i - 1]
    <3>1. Len(both) = 8
      BY <2>5, <2>6, <2>7
    <3>2. i \in 1 .. 8 /\ i \in 1 .. Len(first) + Len(mapped)
      BY <2>5, <2>6, <2>7, <3>1
    <3> QED BY <2>6, <2>7, <3>2
  <2>9. CASE i = 1
    BY <1>2, <1>8, <2>6, <2>8, <2>9 DEF RowFacts, Gates
  <2>10. CASE i # 1
    <3>1. i - 1 \in 1 .. 7 /\ ~(i <= 1)
      BY <2>8, <2>10
    <3>2. Plans[w][i] = AfterGate(rows[i - 1][1], rows[i - 1][2], "required_evidence")
      BY <2>3, <2>8, <3>1
    <3>3. PICK step, task, c :
            /\ Plans[w][i] = AfterGate(step, task, c)
            /\ task \in {"research_content", "security_valuation", "market_signals", "capital_events"}
      BY <2>2, <3>1, <3>2
    <3> QED BY <1>2, <1>8, <2>10, <3>3 DEF RowFacts, Gates
  <2> QED BY <2>9, <2>10
<1> QED BY <1>1, <1>3, <1>4, <1>5, <1>6, <1>7, <1>8

\* The session of a market overview is asked for in every mode, and waits for nothing.
LEMMA OverviewRows ==
  LET plan == Plans["market_overview_research"] IN
    /\ Len(plan) = 6 /\ plan[5].depends = {} /\ plan[5].criticality = "core"
    /\ plan[6].criticality = "core"
<1> DEFINE t == MarketOverviewPlan
<1>1. Plans["market_overview_research"] = t
  BY DEF Plans
<1>2. /\ t = [k \in 1 .. 6 |-> t[k]]
      /\ t[5].depends = {} /\ t[5].criticality = "core" /\ t[6].criticality = "core"
  BY DEF MarketOverviewPlan, Row
<1> HIDE DEF t
<1>3. Len(t) = 6
  BY <1>2, PlacesMakeList
<1> QED BY <1>1, <1>2, <1>3

-----------------------------------------------------------------------------
(* The foundation of a market overview. *)

LEMMA OneOfIt ==
  ASSUME NEW x
  PROVE  /\ OnceEach(<<x>>) = <<x>> /\ Without(<<x>>, {}) = <<x>> /\ FlattenSeq(<<<<x>>>>) = <<x>>
         /\ Distinct(<<x>>)
<1>1. /\ <<x>> \in Seq({x}) /\ Len(<<x>>) = 1 /\ <<x>>[1] = x
      /\ <<<<x>>>> \in Seq(Seq({x})) /\ Len(<<<<x>>>>) = 1 /\ <<<<x>>>>[1] = <<x>>
  OBVIOUS
<1>2. Append(<<>>, x) = <<x>> /\ <<>> \o <<x>> = <<x>> /\ ToSet(<<>>) = {}
  BY ShortLists
<1>3. 1 \in 1 .. 1 /\ 1 - 1 = 0
  OBVIOUS
<1>4. OnceEach(<<x>>) = <<x>>
  <2> DEFINE s == <<x>>
  <2>1. s \in Seq({x}) /\ Len(s) = 1 /\ s[1] = x
    BY <1>1
  <2> HIDE DEF s
  <2>2. PICK f : /\ f \in [0 .. Len(s) -> Seq({x})] /\ f[0] = <<>> /\ OnceEach(s) = f[Len(s)]
                 /\ \A n \in 1 .. Len(s) :
                      f[n] = IF s[n] \in ToSet(f[n - 1]) THEN f[n - 1] ELSE Append(f[n - 1], s[n])
    BY <2>1, OnceEachRecursion
  <2>3. f[1] = IF s[1] \in ToSet(f[0]) THEN f[0] ELSE Append(f[0], s[1])
    BY <1>3, <2>1, <2>2
  <2>4. OnceEach(s) = Append(<<>>, x)
    BY <1>2, <2>1, <2>2, <2>3
  <2> QED BY <1>2, <2>4 DEF s
<1>5. Without(<<x>>, {}) = <<x>>
  <2> DEFINE s == <<x>>
  <2>1. s \in Seq({x}) /\ Len(s) = 1 /\ s[1] = x
    BY <1>1
  <2> HIDE DEF s
  <2>2. PICK f : LeavesOut(f, {x}, s, {})
    BY <2>1, WithoutRecursion
  <2>3. f[1] = Append(f[0], s[1]) /\ f[0] = <<>> /\ Without(s, {}) = f[1]
    BY <1>3, <2>1, <2>2 DEF LeavesOut
  <2>4. Without(s, {}) = Append(<<>>, x)
    BY <2>1, <2>3
  <2> QED BY <1>2, <2>4 DEF s
<1>6. FlattenSeq(<<<<x>>>>) = <<x>>
  <2> DEFINE s == <<<<x>>>>
  <2>1. s \in Seq(Seq({x})) /\ Len(s) = 1 /\ s[1] = <<x>>
    BY <1>1
  <2> HIDE DEF s
  <2>2. PICK f : /\ f \in [0 .. Len(s) -> Seq({x})] /\ f[0] = <<>> /\ FlattenSeq(s) = f[Len(s)]
                 /\ \A n \in 1 .. Len(s) : f[n] = f[n - 1] \o s[n]
    BY <2>1, FlattenRecursion
  <2>3. f[1] = f[0] \o s[1]
    BY <1>3, <2>1, <2>2
  <2>4. FlattenSeq(s) = <<>> \o <<x>>
    BY <2>1, <2>2, <2>3
  <2> QED BY <1>2, <2>4 DEF s
<1>7. Distinct(<<x>>)
  <2>1. ToSet(<<x>>) = {x} /\ Len(<<x>>) = 1
    BY ShortLists
  <2> QED BY <2>1, FS_Singleton DEF Distinct
<1> QED BY <1>4, <1>5, <1>6, <1>7

\* What the fold of an owner's one operation is.
LEMMA FoundationFold ==
  ASSUME NEW task \in Foundation, NEW outcome, IsOutcome(outcome), outcome.operation = task,
         NEW input, input = FoundationInput(task, outcome), Foldable(input)
  PROVE  /\ TaskInput(input) /\ WellBuilt(input) /\ input.plan = FoundationPlan(task)
         /\ input.plan.task = task
         /\ Records(input).calculations = <<>>
         /\ Fold(input).covered[task].state = outcome.state
         /\ ToSet(Records(input).observations) = {[operation |-> task, key |-> k] : k \in ToSet(outcome.seen)}
         /\ Len(Records(input).claims) = IF outcome.seen = <<>> THEN 0 ELSE 1
         /\ \A c \in ToSet(Records(input).claims) :
              LET capability == FoundationPlan(task).obligations[1].capability IN
                c.kind = capability /\ c.use = capability
                /\ ToSet(c.over) = ToSet(Records(input).observations)
<1> DEFINE plan == FoundationPlan(task)
           capability == plan.obligations[1].capability
           claim == [kind |-> capability, use |-> capability, over |-> outcome.seen]
<1>1. TaskInput(input)
  BY FoundationFits
<1>2. Owned(input)
  BY DEF Owned, Foldable
<1>3. /\ input.plan = plan /\ input.outcomes = <<outcome>>
      /\ input.claims = IF outcome.seen = <<>> THEN <<>> ELSE <<claim>>
      /\ input.calculations = <<>>
  BY DEF FoundationInput
<1>4. PICK ob : plan.obligations = <<ob>> /\ ob.operation = task /\ plan.task = task
  BY DEF FoundationPlan
<1>5. claim.kind = capability /\ claim.use = capability /\ claim.over = outcome.seen
  OBVIOUS
<1> HIDE DEF plan, capability, claim
<1>6. OperationsOf(input.plan) = {task}
  BY <1>3, <1>4, ShortLists DEF OperationsOf
<1>7. OutcomeOf(input, task) = outcome
  <2>1. outcome \in ToSet(input.outcomes)
    BY <1>3, ShortLists
  <2> QED BY <1>1, <1>2, <2>1, OutcomeFacts
<1>8. ToSet(Records(input).observations) = {[operation |-> task, key |-> k] : k \in ToSet(outcome.seen)}
  <2>1. Records(input).observations = Observations(input)
    BY DEF Records
  <2>2. ToSet(Observations(input)) = ToSet(ObservationsOf(input, task))
    <3>1. ToSet(Observations(input)) = UNION {ToSet(ObservationsOf(input, p)) : p \in {task}}
      BY <1>1, <1>2, <1>6, ObservationFacts
    <3> QED BY <3>1
  <2>3. ToSet(ObservationsOf(input, task)) =
          {[operation |-> task, key |-> k] : k \in ToSet(OutcomeOf(input, task).seen)}
    <3>1. task \in OperationsOf(input.plan)
      BY <1>6
    <3> QED BY <1>1, <1>2, <3>1, ObservationFacts
  <2> QED BY <1>7, <2>1, <2>2, <2>3
<1>10. Records(input).calculations = <<>>
  <2>1. Records(input).calculations = Map(LAMBDA c : CalculationRecord(input, c), input.calculations)
    BY DEF Records
  <2>2. IsList(Records(input).calculations)
    BY <1>1, <1>2, RecordsAreLists DEF Fields
  <2>3. DOMAIN input.calculations = {}
    BY <1>3
  <2>4. ToSet(Records(input).calculations) = {}
    BY <2>1, <2>3 DEF Map, ToSet
  <2> QED BY <2>2, <2>4, EmptyList
<1>11. /\ IsList(Records(input).claims) /\ Len(Records(input).claims) = IF outcome.seen = <<>> THEN 0 ELSE 1
  <2>1. IsList(input.claims) /\ Len(input.claims) = IF outcome.seen = <<>> THEN 0 ELSE 1
    BY <1>1, <1>3, InputFacts, ShortLists
  <2>2. Len(input.claims) \in Nat /\ DOMAIN input.claims = 1 .. Len(input.claims)
    BY <2>1, ListFacts
  <2> DEFINE t == Records(input).claims
  <2>3. t = [k \in 1 .. Len(input.claims) |-> ClaimRecord(input, input.claims[k])]
    BY <2>2 DEF Records, Map
  <2> HIDE DEF t
  <2>4. t = [k \in 1 .. Len(input.claims) |-> t[k]]
    BY <2>3
  <2>5. IsList(t) /\ Len(t) = Len(input.claims)
    BY <2>2, <2>4, PlacesMakeList
  <2> QED BY <2>1, <2>5 DEF t
<1>12. ASSUME NEW c \in ToSet(Records(input).claims)
       PROVE  c.kind = capability /\ c.use = capability
              /\ ToSet(c.over) = ToSet(Records(input).observations)
  <2>1. PICK d \in ToSet(input.claims) : c = ClaimRecord(input, d)
    BY <1>1, RecordsOfItems
  <2>2. d = claim
    BY <1>3, <2>1, ShortLists
  <2>3. c.kind = capability /\ c.use = capability /\ c.over = Resolve(input, outcome.seen)
    BY <1>5, <2>1, <2>2 DEF ClaimRecord
  <2>4. ToSet(Resolve(input, outcome.seen)) = {ObservationFor(input, k) : k \in ToSet(outcome.seen)}
    BY ResolvedList DEF IsOutcome
  <2>5. ASSUME NEW k \in ToSet(outcome.seen) PROVE ObservationFor(input, k) = [operation |-> task, key |-> k]
    BY <1>1, <1>2, <1>6, <1>7, ChosenObservation
  <2>6. {ObservationFor(input, k) : k \in ToSet(outcome.seen)} =
          {[operation |-> task, key |-> k] : k \in ToSet(outcome.seen)}
    BY <2>5
  <2> QED BY <1>8, <2>3, <2>4, <2>6
<1>13. WellBuilt(input)
  <2>1. DOMAIN <<ob>> = {1} /\ <<ob>>[1] = ob /\ DOMAIN <<outcome>> = {1} /\ <<outcome>>[1] = outcome
    OBVIOUS
  <2>2. Map(LAMBDA o : o.operation, plan.obligations) = <<task>>
    BY <1>4, <2>1 DEF Map
  <2>3. Map(LAMBDA o : o.operation, input.outcomes) = <<task>>
    BY <1>3, <2>1 DEF Map
  <2>4. Distinct(Records(input).claims) /\ Distinct(Records(input).calculations)
    <3>1. Distinct(<<>>)
      BY ShortLists, ListFacts, FS_EmptySet DEF Distinct
    <3>2. Distinct(Records(input).claims)
      <4>1. \A i, j \in 1 .. Len(Records(input).claims) : i = j
        BY <1>11
      <4> QED BY <1>11, <4>1, DistinctPlaces
    <3> QED BY <1>10, <3>1, <3>2
  <2>5. ByCapability(plan) = <<ob>>
    <3>1. Map(LAMBDA o : o.capability, plan.obligations) = <<ob.capability>>
      BY <1>4, <2>1 DEF Map
    <3>2. {o \in ToSet(plan.obligations) : o.capability # ob.capability} = {}
      BY <1>4, ShortLists
    <3> DEFINE left(c) == Without(plan.obligations, {o \in ToSet(plan.obligations) : o.capability # c})
    <3>3. left(ob.capability) = <<ob>>
      BY <1>4, <3>2, OneOfIt
    <3>4. ByCapability(plan) = FlattenSeq(Map(left, <<ob.capability>>))
      BY <3>1, OneOfIt DEF ByCapability
    <3> HIDE DEF left
    <3>5. Map(left, <<ob.capability>>) = <<<<ob>>>>
      BY <3>3 DEF Map
    <3> QED BY <3>4, <3>5, OneOfIt
  <2>6. Map(LAMBDA o : o.operation, ByCapability(plan)) = <<task>>
    BY <1>4, <2>1, <2>5 DEF Map
  <2> QED BY <1>3, <2>2, <2>3, <2>4, <2>6, OneOfIt DEF WellBuilt
<1>14. Fold(input).covered[task].state = outcome.state
  <2>1. task \in OperationsOf(input.plan)
    BY <1>6
  <2>2. Fold(input).covered[task] =
          [state |-> OutcomeOf(input, task).state, complete |-> OutcomeOf(input, task).complete,
           coverage |-> CoverageIn(input, task), observations |-> ObservationsOf(input, task),
           errors |-> ErrorsOf(input, task)]
    BY <2>1, FoldParts, ZenonT(40)
  <2> DEFINE covered == Fold(input).covered[task]
  <2> HIDE DEF covered
  <2>3. covered.state = OutcomeOf(input, task).state
    BY <2>2 DEF covered
  <2> QED BY <1>7, <2>3 DEF covered
<1> QED BY <1>1, <1>3, <1>4, <1>8, <1>10, <1>11, <1>12, <1>13, <1>14 DEF plan, capability

-----------------------------------------------------------------------------
(* Why each step ended as it did: the second part of the invariant. *)

\* A step before the i-th, which it waits for, is blocked.
BlockedAt(i) ==
  \E j \in 1 .. i - 1 : steps[j].row.step \in steps[i].row.depends /\ steps[j].state = "blocked"

\* The owners of the foundation answered for one proof of the session.
OwnerAnswered(step, proof) ==
  /\ proof # NoLeaf
  /\ step.row.task = "overview_session" =>
       /\ proof \in SessionOutcomes(step.scope)
       /\ step.input = FoundationInput("overview_session", proof)
  /\ step.row.task = "overview_indices" =>
       \E outcome \in IndexOutcomes(step.scope, proof) :
         step.input = FoundationInput("overview_indices", outcome)
LeafAnswered(step, subject, proof) ==
  /\ StepFolded(step) /\ step.scope = Scope(step.row.step, subject)
  /\ IF step.row.task \in Foundation THEN OwnerAnswered(step, proof)
     ELSE Answers(step.input, step.row, step.scope)
IdentityAsked(step) == StepIdentified(step) /\ step.scope = Scope("identity", NoSubject)

StepPlaced(step, blocked, m, subject, proof) ==
  \/ StepLeftOut(step) /\ step.scope = NoLeaf /\ Excused(step.row, m)
  \/ StepSkipped(step) /\ step.scope = NoLeaf /\ blocked
  \/ /\ IdentityAsked(step) \/ LeafAnswered(step, subject, proof)
     /\ ~blocked /\ ~Excused(step.row, m)
StepsPlaced ==
  \A i \in 1 .. Len(steps) : StepPlaced(steps[i], BlockedAt(i), mode, Subject, session)
SessionTraced == session # NoLeaf => \E i \in 1 .. Len(steps) : steps[i].row.task \in Foundation
PlacedInv == StepsPlaced /\ SessionTraced

LEMMA StepsFacts ==
  ASSUME PlanFollowed
  PROVE  /\ Len(steps) \in Nat /\ DOMAIN steps = 1 .. Len(steps) /\ Len(Plans[workflow]) \in Nat
         /\ workflow \in DOMAIN Plans /\ steps \in Seq(ToSet(steps))
         /\ \A i \in 1 .. Len(steps) : i \in 1 .. Len(Plans[workflow]) /\ steps[i].row = Plans[workflow][i]
BY ListFacts, PlanFacts DEF PlanFollowed

\* A step is added with what it is waiting for settled, and those before it stand.
LEMMA PlacedStepAdded ==
  ASSUME PlanFollowed, PlacedInv, Pending, NEW step, step.row = Current,
         steps' = Append(steps, step), UNCHANGED <<workflow, mode>>,
         session' = session \/ session = NoLeaf,
         session' = session \/ step.row.task \in Foundation,
         StepPlaced(step, Gated(Current), mode, IF steps = <<>> THEN NoSubject ELSE Subject, session'),
         step.row = Gate => ~ LeafAnswered(step, NoSubject, session')
  PROVE  PlacedInv'
<1> DEFINE S == ToSet(steps) \cup {step}
           n == Len(steps)
<1>1. /\ IsList(steps) /\ n \in Nat /\ step \in S /\ DOMAIN steps = 1 .. n
      /\ steps # <<>> => n # 0 
  <2>1. IsList(steps)
    BY DEF PlanFollowed
  <2> QED BY <2>1, StepsFacts, EmptySeq
<1>2. steps \in Seq(S)
  BY <1>1, ListInto
<1> HIDE DEF S
<1>3. /\ steps' \in Seq(S) /\ Len(steps') = n + 1
      /\ \A i \in 1 .. n : steps'[i] = steps[i]
      /\ steps'[n + 1] = step
  BY <1>1, <1>2, AppendedElement
<1>4. ASSUME n = 0 PROVE steps = <<>>
  BY <1>1, <1>2, <1>4, EmptySeq
<1>5. ASSUME n # 0 PROVE Subject' = Subject /\ steps # <<>>
  <2>1. 1 \in 1 .. n /\ n + 1 # 0
    BY <1>1, <1>5
  <2>2. steps'[1] = steps[1]
    BY <1>3, <2>1
  <2>3. steps' # <<>> /\ steps # <<>>
    <3>1. Len(steps') # 0 /\ Len(steps) # 0
      BY <1>1, <1>3, <1>5
    <3>2. Len(<<>>) = 0
      OBVIOUS
    <3> QED BY <3>1, <3>2
  <2> QED BY <2>2, <2>3 DEF Subject
<1>6. ASSUME NEW i \in 1 .. n PROVE StepPlaced(steps'[i], BlockedAt(i)', mode', Subject', session')
  <2>1. n # 0 /\ steps'[i] = steps[i]
    BY <1>1, <1>3
  <2>2. BlockedAt(i)' = BlockedAt(i)
    <3>1. \A j \in 1 .. i - 1 : j \in 1 .. n
      BY <1>1
    <3>2. \A j \in 1 .. i - 1 : steps'[j] = steps[j]
      BY <1>3, <3>1
    <3> QED BY <2>1, <3>2 DEF BlockedAt
  <2>3. StepPlaced(steps[i], BlockedAt(i), mode, Subject, session)
    BY DEF PlacedInv, StepsPlaced
  <2>4. Subject' = Subject
    BY <1>5, <2>1
  <2>5. LeafAnswered(steps[i], Subject, session) => LeafAnswered(steps[i], Subject, session')
    BY DEF LeafAnswered, OwnerAnswered
  <2> QED BY <2>1, <2>2, <2>3, <2>4, <2>5 DEF StepPlaced
<1>7. ASSUME NEW k \in Nat, k = n + 1 PROVE BlockedAt(k)' <=> Gated(Current)
  <2>0. k - 1 = n /\ steps'[k] = step
    BY <1>1, <1>3, <1>7
  <2>1. BlockedAt(k)' <=>
          \E j \in 1 .. n : steps'[j].row.step \in step.row.depends /\ steps'[j].state = "blocked"
    BY <2>0 DEF BlockedAt
  <2>2. Gated(Current) <=>
          \E d \in step.row.depends : \E j \in 1 .. n : steps[j].row.step = d /\ steps[j].state = "blocked"
    BY <1>1 DEF Gated, StateOf
  <2> QED BY <1>3, <2>1, <2>2
<1>8. ASSUME NEW k \in Nat, k = n + 1 PROVE StepPlaced(steps'[k], BlockedAt(k)', mode', Subject', session')
  <2>0. steps'[k] = step /\ (BlockedAt(k)' <=> Gated(Current)) /\ mode' = mode
    BY <1>3, <1>7, <1>8
  <2>1. CASE n # 0
    <3>1. Subject' = Subject /\ steps # <<>>
      BY <1>5, <2>1
    <3>2. StepPlaced(step, Gated(Current), mode, Subject, session')
      BY <3>1
    <3> QED BY <2>0, <3>1, <3>2 DEF StepPlaced
  <2>2. CASE n = 0
    <3>1. steps = <<>> /\ steps'[1] = step
      BY <1>3, <1>4, <2>2
    <3>2. StepPlaced(step, Gated(Current), mode, NoSubject, session')
      BY <3>1
    <3>3. CASE step.row = Gate
      BY <2>0, <3>2, <3>3 DEF StepPlaced
    <3>4. CASE step.row # Gate
      <4>1. Subject' = NoSubject
        BY <3>1, <3>4 DEF Subject
      <4> QED BY <2>0, <3>2, <4>1 DEF StepPlaced
    <3> QED BY <3>3, <3>4
  <2> QED BY <2>1, <2>2
<1>9. StepsPlaced'
  <2>1. \A i \in 1 .. Len(steps') : i \in Nat /\ (i \in 1 .. n \/ i = n + 1)
    BY <1>1, <1>3
  <2>2. ASSUME NEW i \in 1 .. Len(steps') PROVE StepPlaced(steps'[i], BlockedAt(i)', mode', Subject', session')
    BY <1>6, <1>8, <2>1
  <2> QED BY <2>2 DEF StepsPlaced
<1>10. SessionTraced'
  <2>0. n + 1 \in 1 .. Len(steps') /\ \A i \in 1 .. n : i \in 1 .. Len(steps')
    BY <1>1, <1>3
  <2>1. CASE step.row.task \in Foundation
    BY <1>3, <2>0, <2>1 DEF SessionTraced
  <2>2. CASE session' = session
    BY <1>3, <2>0, <2>2 DEF SessionTraced, PlacedInv
  <2> QED BY <2>1, <2>2
<1> QED BY <1>9, <1>10 DEF PlacedInv

\* When its turn comes, a leaf is asked about whom the workflow is about.
LEMMA SubjectIsAsked ==
  ASSUME PlanFollowed, PlacedInv, Due, Current # Gate
  PROVE  Subject \in AskedAbout(workflow)
<1> DEFINE n == Len(steps)
<1>1. n \in Nat /\ workflow \in DOMAIN Plans /\ n + 1 \in 1 .. Len(Plans[workflow])
  BY StepsFacts DEF Due, Pending
<1>2. RowFacts(workflow, n + 1) /\ Current = Plans[workflow][n + 1]
  BY <1>1, PlanRows DEF Current
<1>3. CASE workflow \notin Gates
  <2>1. ASSUME steps # <<>> PROVE steps[1].row # Gate
    <3>1. 1 \in 1 .. n
      <4>1. n # 0
        BY <1>1, <2>1, StepsFacts, EmptySeq
      <4> QED BY <1>1, <4>1
    <3>2. steps[1].row = Plans[workflow][1] /\ 1 \in 1 .. Len(Plans[workflow])
      BY <3>1, StepsFacts
    <3>3. RowFacts(workflow, 1)
      BY <1>1, <3>2, PlanRows
    <3> QED BY <1>3, <3>2, <3>3 DEF RowFacts
  <2> QED BY <1>3, <2>1 DEF Subject, AskedAbout
<1>4. CASE workflow \in Gates
  <2>1. n # 0
    BY <1>2, <1>4 DEF RowFacts
  <2>2. 1 \in 1 .. n /\ steps # <<>>
    <3>1. Len(<<>>) = 0
      OBVIOUS
    <3> QED BY <1>1, <2>1, <3>1
  <2>3. steps[1].row = Gate
    BY <1>4, <2>2, StepsFacts, PlanFacts
  <2>4. Current.depends = {"identity"}
    <3>1. n + 1 # 1
      BY <1>1, <2>1
    <3> QED BY <1>2, <1>4, <3>1 DEF RowFacts
  <2>5. steps[1].state # "blocked"
    <3>1. ASSUME steps[1].state = "blocked" PROVE FALSE
      <4>1. steps[1].row.step = "identity"
        BY <2>3 DEF Gate, Row
      <4>2. "blocked" \in StateOf("identity")
        BY <2>2, <3>1, <4>1, StepsFacts DEF StateOf
      <4> QED BY <2>4, <4>2 DEF Gated, Due
    <3> QED BY <3>1
  <2>6. StepPlaced(steps[1], BlockedAt(1), mode, Subject, session)
    BY <2>2 DEF PlacedInv, StepsPlaced
  <2>7. ~BlockedAt(1)
    <3>1. 1 .. 1 - 1 = {}
      OBVIOUS
    <3> QED BY <3>1 DEF BlockedAt
  <2>8. ~Excused(steps[1].row, mode)
    BY <2>3 DEF Excused, Gate, Row
  <2>9. StepIdentified(steps[1])
    BY <2>3, <2>6, <2>7, <2>8 DEF StepPlaced, IdentityAsked, LeafAnswered, StepFolded
  <2>10. CanonicalSubject(steps[1].leaf) \in Securities
    BY <2>5, <2>9, IdentityFacts DEF StepIdentified, Shut
  <2> QED BY <1>4, <2>2, <2>3, <2>10 DEF Subject, AskedAbout
<1> QED BY <1>3, <1>4

LEMMA InitPlaced == Init => PlacedInv
<1>1. Len(<<>>) = 0
  OBVIOUS
<1> QED BY <1>1 DEF Init, PlacedInv, StepsPlaced, SessionTraced

\* An outcome is no absent one.
LEMMA OutcomesArePresent ==
  /\ \A scope : \A outcome \in SessionOutcomes(scope) : outcome # NoLeaf /\ outcome.operation = "overview_session"
  /\ \A scope, proof : \A outcome \in IndexOutcomes(scope, proof) : outcome.operation = "overview_indices"
<1>1. \A task, seen, errors : Outcome(task, seen, errors) # NoLeaf /\ Outcome(task, seen, errors).operation = task
  <2>1. \A task, seen, errors : DOMAIN Outcome(task, seen, errors) # {"status"}
                                /\ Outcome(task, seen, errors).operation = task
    BY DEF Outcome
  <2>2. DOMAIN NoLeaf = {"status"}
    BY DEF NoLeaf
  <2> QED BY <2>1, <2>2
<1>2. ASSUME NEW scope, NEW outcome \in SessionOutcomes(scope)
      PROVE  outcome # NoLeaf /\ outcome.operation = "overview_session"
  <2>1. \/ outcome = Outcome("overview_session", <<>>, <<"session_context_unproved">>)
        \/ \E x \in Contexts, errors \in {<<>>, <<"present_session_unproved">>} :
             outcome = Outcome("overview_session", <<Key(scope, x)>>, errors)
    BY DEF SessionOutcomes
  <2> QED BY <1>1, <2>1
<1>3. ASSUME NEW scope, NEW proof, NEW outcome \in IndexOutcomes(scope, proof)
      PROVE  outcome # NoLeaf /\ outcome.operation = "overview_indices"
  <2>1. \/ outcome = Outcome("overview_indices", <<>>, <<"index_session_context_unproved">>)
        \/ \E missing \in SUBSET ToSet(FixedIndices) :
             outcome = Outcome("overview_indices",
               Map(LAMBDA i : Key(scope, <<i, proof.seen[1].about>>), Without(FixedIndices, missing)),
               Without(FixedIndices, ToSet(FixedIndices) \ missing))
    BY DEF IndexOutcomes
  <2> QED BY <1>1, <2>1
<1> QED BY <1>2, <1>3

\* The step that executes a leaf is placed.
LEMMA LeafPlaced ==
  ASSUME PlanFollowed, PlacedInv, Due, Current # Gate, NEW input, TaskInput(input), Execute(input),
         UNCHANGED <<workflow, mode>>,
         session' = session \/ session = NoLeaf,
         session' = session \/ Current.task \in Foundation,
         NEW step, step = Step(Current, Fold(input).status, input, Fold(input),
                               Scope(Current.step, Subject), <<>>),
         IF Current.task \in Foundation THEN OwnerAnswered(step, session')
         ELSE Answers(input, Current, Scope(Current.step, Subject))
  PROVE  PlacedInv'
<1>1. steps' = Append(steps, step) /\ Foldable(input)
  BY DEF Execute
<1>2. /\ step.row = Current /\ step.input = input /\ step.leaf = Fold(input)
      /\ step.state = Fold(input).status /\ step.limits = <<>>
      /\ step.scope = Scope(Current.step, Subject)
  BY DEF Step
<1>3. StepFolded(step)
  BY <1>1, <1>2, FoldFacts DEF StepFolded
<1>4. Subject = IF steps = <<>> THEN NoSubject ELSE Subject
  BY DEF Subject
<1>5. LeafAnswered(step, Subject, session')
  BY <1>2, <1>3 DEF LeafAnswered
<1>6. StepPlaced(step, Gated(Current), mode, Subject, session')
  BY <1>2, <1>5 DEF StepPlaced, Due
<1> QED BY <1>1, <1>2, <1>4, <1>6, PlacedStepAdded DEF Due

LEMMA NextPlaced == WorkflowInv /\ PlacedInv /\ [Next]_vars => PlacedInv'
<1> SUFFICES ASSUME WorkflowInv, PlacedInv, [Next]_vars PROVE PlacedInv'
  OBVIOUS
<1>0. PlanFollowed /\ SessionKept
  BY DEF WorkflowInv
<1>1. CASE LeaveOut
  <2> DEFINE step == Step(Current, "not_requested", NoLeaf, NoLeaf, NoLeaf, <<>>)
  <2>1. /\ step.row = Current /\ step.input = NoLeaf /\ step.leaf = NoLeaf
        /\ step.state = "not_requested" /\ step.limits = <<>> /\ step.scope = NoLeaf
    BY DEF Step
  <2>2. /\ Pending /\ steps' = Append(steps, step) /\ UNCHANGED <<workflow, mode, session>>
        /\ Excused(Current, mode)
    BY <1>1 DEF LeaveOut
  <2> HIDE DEF step
  <2>3. StepLeftOut(step) /\ ~StepFolded(step)
    BY <2>1, FoldFacts DEF StepLeftOut, StepFolded
  <2> QED BY <1>0, <2>1, <2>2, <2>3, PlacedStepAdded DEF StepPlaced, LeafAnswered
<1>2. CASE Skip
  <2> DEFINE step == Step(Current, "skipped_research_dependency", NoLeaf, NoLeaf, NoLeaf,
                          <<SkipLimitation(Current)>>)
  <2>1. /\ step.row = Current /\ step.input = NoLeaf /\ step.leaf = NoLeaf /\ step.scope = NoLeaf
        /\ step.state = "skipped_research_dependency" /\ step.limits = <<SkipLimitation(step.row)>>
    BY DEF Step
  <2>2. /\ Pending /\ steps' = Append(steps, step) /\ UNCHANGED <<workflow, mode, session>>
        /\ Gated(Current)
    BY <1>2 DEF Skip
  <2> HIDE DEF step
  <2>3. StepSkipped(step) /\ ~StepFolded(step)
    BY <2>1, FoldFacts DEF StepSkipped, StepFolded
  <2> QED BY <1>0, <2>1, <2>2, <2>3, PlacedStepAdded DEF StepPlaced, LeafAnswered
<1>3. CASE ExecuteStep
  <2>0. Due /\ Pending /\ ~Gated(Current) /\ ~Excused(Current, mode) /\ UNCHANGED <<workflow, mode>>
    BY <1>3 DEF ExecuteStep, Due, Pending
  <2>1. CASE /\ Current = Gate /\ \E leaf \in IdentityLeaves : Identify(leaf)
             /\ UNCHANGED session
    <3>1. PICK leaf \in IdentityLeaves : Identify(leaf)
      BY <2>1
    <3> DEFINE step == Step(Gate, IF Shut(leaf) THEN "blocked" ELSE leaf.status, NoLeaf, leaf,
                            Scope("identity", NoSubject),
                            IF Shut(leaf) THEN <<IdentityLimitation>> ELSE <<>>)
    <3>2. steps' = Append(steps, step)
      BY <3>1 DEF Identify, Shut
    <3>3. /\ step.row = Gate /\ step.input = NoLeaf /\ step.leaf = leaf
          /\ step.state = (IF Shut(leaf) THEN "blocked" ELSE leaf.status)
          /\ step.limits = (IF Shut(leaf) THEN <<IdentityLimitation>> ELSE <<>>)
          /\ step.scope = Scope("identity", NoSubject)
      BY DEF Step
    <3> HIDE DEF step
    <3>4. IdentityAsked(step) /\ ~StepFolded(step)
      BY <3>3 DEF IdentityAsked, StepIdentified, StepFolded
    <3> QED BY <1>0, <2>0, <2>1, <3>2, <3>3, <3>4, PlacedStepAdded DEF StepPlaced, LeafAnswered
  <2>2. CASE /\ Current.task \in Foundation
             /\ LET scope == Scope(Current.step, Subject) IN
                  \E proof \in Sessions(scope) :
                    /\ session' = proof
                    /\ \E input \in FoundationInputs(Current.task, scope, proof) : Execute(input)
    <3> DEFINE scope == Scope(Current.step, Subject)
    <3>1. PICK proof \in Sessions(scope) :
            /\ session' = proof
            /\ \E input \in FoundationInputs(Current.task, scope, proof) : Execute(input)
      BY <2>2
    <3>2. PICK input \in FoundationInputs(Current.task, scope, proof) : Execute(input)
      BY <3>1
    <3> DEFINE step == Step(Current, Fold(input).status, input, Fold(input), scope, <<>>)
    <3>3. IsOutcome(proof)
      BY <1>0, <3>1, SessionAnswers DEF Sessions, SessionKept
    <3>4. PICK outcome :
            /\ input = FoundationInput(Current.task, outcome)
            /\ outcome \in IF Current.task = "overview_session" THEN {proof}
                           ELSE IndexOutcomes(scope, proof)
      BY <3>2 DEF FoundationInputs
    <3>5. TaskInput(input)
      BY <3>3, <3>4, IndexAnswers, FoundationFits
    <3>6. Current # Gate
      BY <2>2 DEF Gate, Row, Foundation
    <3>7. session' = session \/ session = NoLeaf
      BY <3>1 DEF Sessions
    <3>8. session' # NoLeaf
      BY <3>1, OutcomesArePresent DEF Sessions
    <3>9. ASSUME Current.task = "overview_session" PROVE session' \in SessionOutcomes(scope)
      <4>1. Len(steps) \in Nat /\ workflow \in DOMAIN Plans /\ Len(steps) + 1 \in 1 .. Len(Plans[workflow])
        BY <1>0, <2>0, StepsFacts DEF Pending
      <4>2. Len(steps) + 1 = 5 /\ workflow = "market_overview_research"
        BY <3>9, <4>1, PlanRows DEF RowFacts, Current
      <4>3. ASSUME NEW i \in 1 .. Len(steps), steps[i].row.task \in Foundation PROVE FALSE
        <5>1. i \in 1 .. Len(Plans[workflow]) /\ steps[i].row = Plans[workflow][i]
          BY <1>0, StepsFacts
        <5>2. RowFacts(workflow, i)
          BY <4>1, <5>1, PlanRows
        <5>3. i # 5 /\ i # 6
          BY <4>1, <4>2
        <5> QED BY <4>3, <5>1, <5>2, <5>3 DEF RowFacts, Foundation
      <4>4. session = NoLeaf
        BY <4>3 DEF PlacedInv, SessionTraced
      <4> QED BY <3>1, <4>4 DEF Sessions
    <3>10. step.row = Current /\ step.scope = scope /\ step.input = input
      BY DEF Step
    <3> HIDE DEF scope
    <3>11. OwnerAnswered(step, session')
      <4> HIDE DEF step
      <4>1. CASE Current.task = "overview_session"
        BY <3>1, <3>4, <3>8, <3>9, <3>10, <4>1 DEF OwnerAnswered
      <4>2. CASE Current.task = "overview_indices"
        BY <3>1, <3>4, <3>8, <3>10, <4>2 DEF OwnerAnswered
      <4> QED BY <2>2, <4>1, <4>2 DEF Foundation
    <3> QED BY <1>0, <2>0, <2>2, <3>2, <3>5, <3>6, <3>7, <3>11, LeafPlaced DEF scope
  <2>3. CASE /\ Current # Gate /\ Current.task \notin Foundation
             /\ \E input \in LeafInputs(Current, Scope(Current.step, Subject)) : Execute(input)
             /\ UNCHANGED session
    <3>1. PICK input \in LeafInputs(Current, Scope(Current.step, Subject)) : Execute(input)
      BY <2>3
    <3>2. workflow \in DOMAIN Plans /\ Len(steps) + 1 \in DOMAIN Plans[workflow]
      BY <1>0, <2>0, StepsFacts, PlanFacts DEF Pending
    <3>3. Current \in LeafRows(workflow)
      BY <2>3, <3>2 DEF Current, LeafRows, ToSet
    <3>4. Subject \in AskedAbout(workflow) /\ Subject \in Securities \cup {NoSubject}
      BY <1>0, <2>0, <2>3, SubjectFits, SubjectIsAsked
    <3>5. Foldable(input)
      BY <3>1 DEF Execute
    <3>6. TaskInput(input) /\ Answers(input, Current, Scope(Current.step, Subject))
      BY <3>1, <3>2, <3>3, <3>4, <3>5, LeafInputsAssumption
    <3> QED BY <1>0, <2>0, <2>3, <3>1, <3>6, LeafPlaced
  <2> QED BY <1>3, <2>1, <2>2, <2>3 DEF ExecuteStep
<1>4. CASE LeafRaises
  BY <1>4 DEF LeafRaises, PlacedInv, StepsPlaced, SessionTraced, BlockedAt, Subject
<1>5. CASE Publish
  BY <1>5 DEF Publish, PlacedInv, StepsPlaced, SessionTraced, BlockedAt, Subject
<1>6. CASE UNCHANGED vars
  BY <1>6 DEF vars, PlacedInv, StepsPlaced, SessionTraced, BlockedAt, Subject
<1> QED BY <1>1, <1>2, <1>3, <1>4, <1>5, <1>6 DEF Next

LEMMA PlacesKept == Spec => []PlacedInv
<1>1. WorkflowInv /\ WorkflowInv' /\ PlacedInv /\ [Next]_vars => PlacedInv'
  BY NextPlaced
<1> QED BY <1>1, InitPlaced, WorkflowKept, PTL DEF Spec

-----------------------------------------------------------------------------
(* The leaves behind us are accepted. *)

\* What a proof of the session, and an answer of the indices about it, are.
LEMMA SessionKeys ==
  ASSUME NEW scope, NEW outcome \in SessionOutcomes(scope)
  PROVE  /\ IsOutcome(outcome) /\ outcome.operation = "overview_session"
         /\ \A k \in ToSet(outcome.seen) : k.scope = scope
         /\ outcome.seen = <<>> \/ ToSet(outcome.seen) = {outcome.seen[1]}
         /\ outcome.state = "succeeded" => outcome.seen # <<>>
<1>1. \/ outcome = Outcome("overview_session", <<>>, <<"session_context_unproved">>)
      \/ \E x \in Contexts, errors \in {<<>>, <<"present_session_unproved">>} :
           outcome = Outcome("overview_session", <<Key(scope, x)>>, errors)
  BY DEF SessionOutcomes
<1>2. IsOutcome(outcome) /\ outcome.operation = "overview_session"
  BY SessionAnswers, OutcomesArePresent
<1>3. CASE outcome = Outcome("overview_session", <<>>, <<"session_context_unproved">>)
  <2>1. outcome.seen = <<>> /\ outcome.state = "failed"
    BY <1>3 DEF Outcome
  <2> QED BY <1>2, <2>1, ShortLists
<1>4. ASSUME NEW x, NEW errors, outcome = Outcome("overview_session", <<Key(scope, x)>>, errors)
      PROVE  /\ \A k \in ToSet(outcome.seen) : k.scope = scope
             /\ ToSet(outcome.seen) = {outcome.seen[1]} /\ outcome.seen # <<>>
  <2> DEFINE key == Key(scope, x)
  <2>1. outcome.seen = <<key>>
    BY <1>4 DEF Outcome
  <2>2. key.scope = scope
    BY DEF Key
  <2> HIDE DEF key
  <2>3. ToSet(<<key>>) = {key} /\ <<key>>[1] = key /\ <<key>> # <<>>
    BY ShortLists
  <2> QED BY <2>1, <2>2, <2>3
<1> QED BY <1>1, <1>2, <1>3, <1>4

IndexRows(seen) == {[operation |-> "overview_indices", key |-> k] : k \in ToSet(seen)}

LEMMA IndexKeys ==
  ASSUME NEW scope, NEW proof, NEW outcome \in IndexOutcomes(scope, proof)
  PROVE  /\ IsOutcome(outcome) /\ outcome.operation = "overview_indices"
         /\ \A k \in ToSet(outcome.seen) : k.scope = scope /\ k.about[2] = proof.seen[1].about
         /\ outcome.seen # <<>> => proof.seen # <<>>
         /\ outcome.state = "succeeded" => Cardinality(IndexRows(outcome.seen)) = Len(FixedIndices)
<1>1. \/ outcome = Outcome("overview_indices", <<>>, <<"index_session_context_unproved">>)
      \/ /\ proof.seen # <<>>
         /\ \E missing \in SUBSET ToSet(FixedIndices) :
              outcome = Outcome("overview_indices",
                Map(LAMBDA i : Key(scope, <<i, proof.seen[1].about>>), Without(FixedIndices, missing)),
                Without(FixedIndices, ToSet(FixedIndices) \ missing))
  BY DEF IndexOutcomes
<1>2. IsOutcome(outcome) /\ outcome.operation = "overview_indices"
  BY IndexAnswers, OutcomesArePresent
<1>3. CASE outcome = Outcome("overview_indices", <<>>, <<"index_session_context_unproved">>)
  <2>1. outcome.seen = <<>> /\ outcome.state = "failed"
    BY <1>3 DEF Outcome
  <2> QED BY <1>2, <2>1, ShortLists
<1>4. ASSUME proof.seen # <<>>, NEW missing \in SUBSET ToSet(FixedIndices),
             outcome = Outcome("overview_indices",
               Map(LAMBDA i : Key(scope, <<i, proof.seen[1].about>>), Without(FixedIndices, missing)),
               Without(FixedIndices, ToSet(FixedIndices) \ missing))
      PROVE  /\ \A k \in ToSet(outcome.seen) : k.scope = scope /\ k.about[2] = proof.seen[1].about
             /\ outcome.state = "succeeded" => Cardinality(IndexRows(outcome.seen)) = Len(FixedIndices)
  <2> DEFINE all == FixedIndices
             about == proof.seen[1].about
             s == Without(all, missing)
             u == Without(all, ToSet(all) \ missing)
             key(i) == Key(scope, <<i, about>>)
             t == Map(key, s)
  <2>1. outcome.seen = t /\ (outcome.state = "succeeded" => u = <<>>)
    BY <1>4 DEF Outcome
  <2>2. all \in Seq(ToSet(all))
    <3>1. all = [i \in 1 .. 4 |-> all[i]]
      BY DEF FixedIndices
    <3> HIDE DEF all
    <3> QED BY <3>1, PlacesMakeList DEF IsList
  <2>3. \A i : key(i).scope = scope /\ key(i).about = <<i, about>>
    BY DEF Key
  <2>4. ToSet(s) = ToSet(all) \ missing /\ ToSet(u) = ToSet(all) \ (ToSet(all) \ missing)
    <3> HIDE DEF all
    <3> QED BY <2>2, WithoutFacts
  <2>5. missing \subseteq ToSet(all)
    OBVIOUS
  <2>6. all = <<all[1], all[2], all[3], all[4]>> /\ Len(all) = 4
        /\ \A i, j \in 1 .. 4 : all[i] = all[j] => i = j
    BY DEF FixedIndices
  <2> HIDE DEF all, about, s, u, key
  <2>7. ToSet(t) = {key(i) : i \in ToSet(s)}
    BY DEF Map, ToSet
  <2> HIDE DEF t
  <2>8. \A k \in ToSet(t) : k.scope = scope /\ k.about[2] = about
    BY <2>3, <2>7
  <2>9. ASSUME u = <<>> PROVE Cardinality(IndexRows(t)) = Len(all)
    <3>1. ToSet(u) = {}
      BY <2>9, ShortLists
    <3>2. ToSet(s) = ToSet(all)
      BY <2>4, <2>5, <3>1
    <3> DEFINE row(i) == [operation |-> "overview_indices", key |-> key(i)]
               q == [i \in 1 .. 4 |-> row(all[i])]
    <3>3. DOMAIN all = 1 .. 4
      BY <2>2, <2>6, LenProperties
    <3>4. IndexRows(t) = {row(all[i]) : i \in 1 .. 4}
      <4>1. IndexRows(t) = {row(i) : i \in ToSet(all)}
        BY <2>7, <3>2 DEF IndexRows
      <4> HIDE DEF row
      <4> QED BY <4>1, <3>3 DEF ToSet
    <3>5. \A i, j \in 1 .. 4 : row(all[i]) = row(all[j]) => i = j
      <4>1. ASSUME NEW i \in 1 .. 4, NEW j \in 1 .. 4, row(all[i]) = row(all[j]) PROVE i = j
        <5>1. key(all[i]) = key(all[j])
          <6>1. \A x : row(x).key = key(x)
            OBVIOUS
          <6> HIDE DEF row
          <6> QED BY <4>1, <6>1
        <5>2. <<all[i], about>> = <<all[j], about>>
          BY <2>3, <5>1
        <5>3. all[i] = all[j]
          BY <5>2
        <5> QED BY <2>6, <5>3
      <4> HIDE DEF row
      <4> QED BY <4>1
    <3> HIDE DEF row
    <3>6. q = [i \in 1 .. 4 |-> q[i]] /\ \A i \in 1 .. 4 : q[i] = row(all[i])
      OBVIOUS
    <3> HIDE DEF q
    <3>7. IsList(q) /\ Len(q) = 4 /\ DOMAIN q = 1 .. 4
      BY <3>6, PlacesMakeList
    <3>8. Cardinality(ToSet(q)) = 4
      <4>1. \A i, j \in DOMAIN q : q[i] = q[j] => i = j
        BY <3>5, <3>6, <3>7
      <4>2. q \in Seq(ToSet(q))
        BY <3>7 DEF IsList
      <4> QED BY <3>7, <4>1, <4>2, RangeOfDifferent
    <3>9. ToSet(q) = IndexRows(t)
      BY <3>4, <3>6, <3>7 DEF ToSet
    <3> QED BY <2>6, <3>8, <3>9
  <2> QED BY <2>1, <2>8, <2>9 DEF all, about
<1>5. CASE outcome # Outcome("overview_indices", <<>>, <<"index_session_context_unproved">>)
  BY <1>1, <1>2, <1>4, <1>5
<1> QED BY <1>3, <1>5

\* A leaf is made of its parts, and its brief says how it ended.
LeafShape(leaf) ==
  /\ leaf = [plan |-> leaf.plan, contract |-> leaf.contract, status |-> leaf.status,
             records |-> leaf.records, covered |-> leaf.covered, states |-> leaf.states,
             brief |-> leaf.brief]
  /\ leaf.brief.status = leaf.status /\ leaf.brief.records = leaf.records
  /\ leaf.brief.task = leaf.plan.task

LEMMA IdentityAccepted ==
  ASSUME NEW step, IdentityAsked(step)
  PROVE  /\ LeafShape(step.leaf) /\ LeafAccepted(step.leaf) /\ step.leaf # NoLeaf
         /\ step.leaf.plan.task = "security_identity" /\ LeafMatchesScope(step.leaf, step.scope)
<1> DEFINE leaf == step.leaf
<1>1. leaf \in IdentityLeaves /\ step.scope = Scope("identity", NoSubject)
  BY DEF IdentityAsked, StepIdentified
<1> HIDE DEF leaf
<1>2. leaf = IdentityLeaf(leaf.status, leaf.records) /\ leaf # NoLeaf
  BY <1>1, IdentityFacts
<1>3. LeafShape(leaf) /\ leaf.plan.task = "security_identity"
  <2>1. ASSUME NEW s, NEW l, NEW x, x = IdentityLeaf(s, l)
        PROVE  LeafShape(x) /\ x.plan.task = "security_identity"
    <3>1. x = [plan |-> [task |-> "security_identity"], contract |-> <<>>, status |-> s,
               records |-> l, covered |-> <<>>, states |-> <<>>,
               brief |-> [task |-> "security_identity", status |-> s, records |-> l]]
      BY <2>1 DEF IdentityLeaf
    <3> QED BY <3>1 DEF LeafShape
  <2> QED BY <1>2, <2>1
<1>4. \A x \in ToSet(leaf.records.observations) : x.key.scope = Unscoped
  <2>1. /\ \A s, l : Found(s, l).observations = <<SeenIdentity(s)>>
        /\ \A l : [NoRecords EXCEPT !.limitations = l].observations = <<>>
    BY DEF Found, NoRecords, Fields
  <2>2. \A status, l : IdentityLeaf(status, l).records = l
    BY DEF IdentityLeaf
  <2>3. leaf.records.observations = <<>> \/ \E s : leaf.records.observations = <<SeenIdentity(s)>>
    <3>1. PICK status, l :
            /\ leaf = IdentityLeaf(status, l) /\ status \in Statuses
            /\ \/ l = [NoRecords EXCEPT !.limitations = <<CodeOnly("identity_not_resolved")>>]
               \/ \E s \in Securities :
                    \/ l = Found(s, <<>>)
                    \/ l = Found(s, <<CodeOnly("experimental_identity_sources")>>)
                    \/ l = [NoRecords EXCEPT
                             !.observations = <<SeenIdentity(s)>>,
                             !.conflicts = <<CodeOnly("source_identity_conflict")>>,
                             !.limitations = <<CodeOnly("identity_conflict")>>]
      BY <1>1 DEF IdentityLeaves, Statuses
    <3>2. leaf.records = l
      BY <2>2, <3>1
    <3>3. CASE l = [NoRecords EXCEPT !.limitations = <<CodeOnly("identity_not_resolved")>>]
      <4>1. l.observations = <<>>
        BY <2>1, <3>3
      <4> QED BY <3>2, <4>1
    <3>4. ASSUME NEW s \in Securities,
                 \/ l = Found(s, <<>>)
                 \/ l = Found(s, <<CodeOnly("experimental_identity_sources")>>)
                 \/ l = [NoRecords EXCEPT
                          !.observations = <<SeenIdentity(s)>>,
                          !.conflicts = <<CodeOnly("source_identity_conflict")>>,
                          !.limitations = <<CodeOnly("identity_conflict")>>]
          PROVE  leaf.records.observations = <<SeenIdentity(s)>>
      <4>1. \A some : Found(s, some).observations = <<SeenIdentity(s)>>
        BY <2>1
      <4>2. CASE l = Found(s, <<>>) \/ l = Found(s, <<CodeOnly("experimental_identity_sources")>>)
        BY <3>2, <4>1, <4>2
      <4>3. CASE l = [NoRecords EXCEPT
                        !.observations = <<SeenIdentity(s)>>,
                        !.conflicts = <<CodeOnly("source_identity_conflict")>>,
                        !.limitations = <<CodeOnly("identity_conflict")>>]
        <5>1. l.observations = <<SeenIdentity(s)>>
          BY <4>3 DEF NoRecords, Fields
        <5> QED BY <3>2, <5>1
      <4> QED BY <3>4, <4>2, <4>3
    <3> QED BY <3>1, <3>3, <3>4
  <2>4. \A s : SeenIdentity(s).key.scope = Unscoped
    BY DEF SeenIdentity, Key
  <2>5. CASE leaf.records.observations = <<>>
    BY <2>5, ShortLists
  <2>6. ASSUME NEW s, leaf.records.observations = <<SeenIdentity(s)>> 
        PROVE  \A x \in ToSet(leaf.records.observations) : x.key.scope = Unscoped
    <3>1. ToSet(<<SeenIdentity(s)>>) = {SeenIdentity(s)}
      BY ShortLists
    <3> QED BY <2>4, <2>6, <3>1
  <2> QED BY <2>3, <2>5, <2>6
<1>5. step.scope.subject = NoSubject
  BY <1>1 DEF Scope
<1>6. LeafMatchesScope(leaf, step.scope)
  BY <1>4, <1>5 DEF LeafMatchesScope
<1> QED BY <1>1, <1>2, <1>3, <1>6 DEF leaf, LeafAccepted

LEMMA FoldShape ==
  ASSUME NEW input
  PROVE  LeafShape(Fold(input)) /\ Fold(input).plan = input.plan
BY DEF Fold, LeafShape

\* The fold for an owner of the foundation.
LEMMA OwnerAccepted ==
  ASSUME NEW step, NEW proof, StepFolded(step), OwnerAnswered(step, proof), step.row.task \in Foundation
  PROVE  \E outcome :
           /\ step.input = FoundationInput(step.row.task, outcome)
           /\ IsOutcome(outcome) /\ outcome.operation = step.row.task
           /\ \A k \in ToSet(outcome.seen) : k.scope = step.scope
           /\ IF step.row.task = "overview_session" THEN outcome = proof /\ proof \in SessionOutcomes(step.scope)
              ELSE outcome \in IndexOutcomes(step.scope, proof)
<1>1. CASE step.row.task = "overview_session"
  BY <1>1, SessionKeys DEF OwnerAnswered
<1>2. CASE step.row.task = "overview_indices"
  <2>1. PICK outcome \in IndexOutcomes(step.scope, proof) :
          step.input = FoundationInput("overview_indices", outcome)
    BY <1>2 DEF OwnerAnswered
  <2> QED BY <1>2, <2>1, IndexKeys
<1> QED BY <1>1, <1>2 DEF Foundation

LEMMA AnswerAccepted ==
  ASSUME NEW step, NEW subject, NEW proof, LeafAnswered(step, subject, proof),
         step.row.task # "security_identity",
         step.row.task \in Foundation => subject = NoSubject
  PROVE  /\ LeafShape(step.leaf) /\ LeafAccepted(step.leaf) /\ step.leaf # NoLeaf
         /\ step.leaf.plan.task = step.row.task /\ LeafMatchesScope(step.leaf, step.scope)
<1>1. /\ StepFolded(step) /\ step.scope = Scope(step.row.step, subject)
      /\ TaskInput(step.input) /\ Foldable(step.input) /\ step.leaf = Fold(step.input)
  BY DEF LeafAnswered, StepFolded
<1>2. LeafShape(step.leaf) /\ step.leaf.plan = step.input.plan /\ step.leaf # NoLeaf
  BY <1>1, FoldShape, FoldFacts
<1>3. CASE step.row.task \in Foundation
  <2>1. PICK outcome :
          /\ step.input = FoundationInput(step.row.task, outcome)
          /\ IsOutcome(outcome) /\ outcome.operation = step.row.task
          /\ \A k \in ToSet(outcome.seen) : k.scope = step.scope
    BY <1>1, <1>3, OwnerAccepted DEF LeafAnswered
  <2>2. /\ WellBuilt(step.input) /\ step.input.plan.task = step.row.task
        /\ ToSet(Records(step.input).observations) =
             {[operation |-> step.row.task, key |-> k] : k \in ToSet(outcome.seen)}
    BY <1>1, <1>3, <2>1, FoundationFold
  <2>3. Accepts(step.leaf)
    BY <1>1, <2>2, FoldIsAccepted
  <2>4. step.leaf.records = Records(step.input)
    BY <1>1, FoldFacts
  <2>5. \A x \in ToSet(step.leaf.records.observations) : x.key.scope = step.scope
    BY <2>1, <2>2, <2>4
  <2>6. step.scope.subject = NoSubject
    BY <1>1, <1>3 DEF Scope
  <2>7. LeafMatchesScope(step.leaf, step.scope)
    BY <2>5, <2>6 DEF LeafMatchesScope
  <2> QED BY <1>2, <2>2, <2>3, <2>7 DEF LeafAccepted
<1>4. CASE step.row.task \notin Foundation
  <2>1. Answers(step.input, step.row, step.scope)
    BY <1>4 DEF LeafAnswered
  <2>2. Accepts(step.leaf)
    BY <1>1, <2>1, FoldIsAccepted DEF Answers
  <2> QED BY <1>1, <1>2, <2>1, <2>2 DEF LeafAccepted, Answers
<1> QED BY <1>3, <1>4

\* Where a step behind us stands.
LEMMA StepFacts ==
  ASSUME PlanFollowed, PlacedInv, NEW i \in 1 .. Len(steps)
  PROVE  /\ StepPlaced(steps[i], BlockedAt(i), mode, Subject, session)
         /\ steps[i].row = Plans[workflow][i] /\ RowFacts(workflow, i)
         /\ workflow = "market_overview_research" => Subject = NoSubject
<1>1. /\ StepPlaced(steps[i], BlockedAt(i), mode, Subject, session)
      /\ steps[i].row = Plans[workflow][i] /\ RowFacts(workflow, i)
  BY StepsFacts, PlanRows DEF PlacedInv, StepsPlaced
<1>2. ASSUME workflow = "market_overview_research" PROVE Subject = NoSubject
  <2>1. 1 \in 1 .. Len(steps)
    BY StepsFacts
  <2>2. steps[1].row = Plans[workflow][1] /\ RowFacts(workflow, 1)
    BY <2>1, StepsFacts, PlanRows
  <2>3. steps[1].row # Gate
    BY <1>2, <2>2 DEF RowFacts, Gates
  <2> QED BY <2>3 DEF Subject
<1> QED BY <1>1, <1>2

\* A leaf behind us is accepted, and was asked what its step asks.
LEMMA ExecutedLeaf ==
  ASSUME PlanFollowed, PlacedInv, NEW i \in 1 .. Len(steps), steps[i].leaf # NoLeaf
  PROVE  LET step == steps[i]
             shut == step.row = Gate /\ Shut(step.leaf) IN
           /\ LeafShape(step.leaf) /\ LeafAccepted(step.leaf)
           /\ step.leaf.plan.task = step.row.task /\ LeafMatchesScope(step.leaf, step.scope)
           /\ step.scope = Scope(step.row.step, IF step.row = Gate THEN NoSubject ELSE Subject)
           /\ step.limits = IF shut THEN <<IdentityLimitation>> ELSE <<>>
           /\ step.state = IF shut THEN "blocked" ELSE step.leaf.status
           /\ step.state \in Statuses /\ ~BlockedAt(i) /\ ~Excused(step.row, mode)
<1> DEFINE step == steps[i]
<1>1. /\ StepPlaced(step, BlockedAt(i), mode, Subject, session)
      /\ RowFacts(workflow, i) /\ step.row = Plans[workflow][i]
      /\ workflow = "market_overview_research" => Subject = NoSubject
  BY StepFacts
<1>2. step.leaf # NoLeaf
  OBVIOUS
<1> HIDE DEF step
<1>3. /\ IdentityAsked(step) \/ LeafAnswered(step, Subject, session)
      /\ ~BlockedAt(i) /\ ~Excused(step.row, mode)
  BY <1>1, <1>2 DEF StepPlaced, StepLeftOut, StepSkipped
<1>4. CASE IdentityAsked(step)
  <2>1. /\ LeafShape(step.leaf) /\ LeafAccepted(step.leaf)
        /\ step.leaf.plan.task = "security_identity" /\ LeafMatchesScope(step.leaf, step.scope)
    BY <1>4, IdentityAccepted
  <2>2. /\ step.row = Gate /\ step.scope = Scope("identity", NoSubject)
        /\ step.state = (IF Shut(step.leaf) THEN "blocked" ELSE step.leaf.status)
        /\ step.limits = (IF Shut(step.leaf) THEN <<IdentityLimitation>> ELSE <<>>)
        /\ step.leaf.status \in Statuses
    BY <1>4, IdentityFacts DEF IdentityAsked, StepIdentified
  <2>3. Gate.step = "identity" /\ Gate.task = "security_identity"
    BY DEF Gate, Row
  <2> QED BY <1>3, <2>1, <2>2, <2>3 DEF step, Statuses
<1>5. CASE LeafAnswered(step, Subject, session)
  <2>1. /\ step.row # Gate /\ step.scope = Scope(step.row.step, Subject)
        /\ step.state = FoldedStatus(step.input) /\ step.limits = <<>> /\ step.leaf = Fold(step.input)
    BY <1>5 DEF LeafAnswered, StepFolded
  <2>2. step.leaf.status = FoldedStatus(step.input) /\ FoldedStatus(step.input) \in Statuses
    BY <2>1, FoldFacts
  <2>3. step.row.task # "security_identity" /\ (step.row.task \in Foundation => Subject = NoSubject)
    BY <1>1, <2>1 DEF RowFacts, Foundation
  <2>4. /\ LeafShape(step.leaf) /\ LeafAccepted(step.leaf)
        /\ step.leaf.plan.task = step.row.task /\ LeafMatchesScope(step.leaf, step.scope)
    BY <1>5, <2>3, AnswerAccepted
  <2> QED BY <1>3, <2>1, <2>2, <2>4 DEF step
<1> QED BY <1>3, <1>4, <1>5

-----------------------------------------------------------------------------
(* The published result is accepted. *)

LEMMA RefFacts ==
  ASSUME NEW step, NEW ref, ref = StepRef(step)
  PROVE  /\ ref.row = step.row /\ ref.state = step.state /\ ref.records = LeafRecords(step)
         /\ ref.limits = step.limits /\ ref.scope = step.scope
BY DEF StepRef

LEMMA SkippedRef ==
  ASSUME NEW step, NEW ref, ref = StepRef(step), step.leaf = NoLeaf
  PROVE  /\ ref.briefs = <<>> /\ ref.coverage = step.state /\ ref.leaf = NoLeaf
         /\ ref.records = NoRecords
BY DEF StepRef, LeafRecords, Executed

LEMMA FoldedRef ==
  ASSUME NEW step, NEW ref, ref = StepRef(step), step.leaf # NoLeaf
  PROVE  /\ ref.briefs = <<step.leaf.brief>> /\ ref.coverage = "complete"
         /\ ref.records = step.leaf.records
         /\ ref.leaf = [plan |-> step.leaf.plan, contract |-> step.leaf.contract,
                        covered |-> step.leaf.covered, states |-> step.leaf.states]
BY DEF StepRef, LeafRecords, Executed

\* A reader has the leaf back from what is published of its step.
LEMMA ExecutedRef ==
  ASSUME NEW step, NEW ref, ref = StepRef(step), step.leaf # NoLeaf, LeafShape(step.leaf)
  PROVE  /\ Rebuilt(ref) = step.leaf /\ Len(ref.briefs) = 1 /\ ToSet(ref.briefs) = {step.leaf.brief}
         /\ ref.briefs[1].records = ref.records /\ ref.briefs[1].status = step.leaf.status
         /\ ref.leaf # NoLeaf /\ ref.leaf.plan = step.leaf.plan /\ ref.leaf.covered = step.leaf.covered
<1> DEFINE leaf == step.leaf
           brief == leaf.brief
           part == [plan |-> leaf.plan, contract |-> leaf.contract, covered |-> leaf.covered,
                    states |-> leaf.states]
<1>1. ref.briefs = <<brief>> /\ ref.records = leaf.records /\ ref.leaf = part
  BY FoldedRef
<1>2. brief.status = leaf.status /\ brief.records = leaf.records
  BY DEF LeafShape
<1>3. Len(<<brief>>) = 1 /\ <<brief>>[1] = brief /\ ToSet(<<brief>>) = {brief}
  BY ShortLists
<1>4. /\ part # NoLeaf /\ part.plan = leaf.plan /\ part.covered = leaf.covered
      /\ part.contract = leaf.contract /\ part.states = leaf.states
  <2>1. DOMAIN part # DOMAIN NoLeaf
    BY DEF NoLeaf
  <2> QED BY <2>1
<1> HIDE DEF part
<1>5. Rebuilt(ref) =
        [plan |-> leaf.plan, contract |-> leaf.contract, status |-> leaf.status,
         records |-> leaf.records, covered |-> leaf.covered, states |-> leaf.states, brief |-> brief]
  BY <1>1, <1>2, <1>3, <1>4 DEF Rebuilt
<1>6. Rebuilt(ref) = leaf
  BY <1>5 DEF LeafShape
<1> QED BY <1>1, <1>2, <1>3, <1>4, <1>6

LEMMA RefsOf ==
  ASSUME PlanFollowed, NEW r, r = FoldWorkflow(workflow, mode, steps)
  PROVE  /\ IsList(r.steps) /\ Len(r.steps) = Len(steps) /\ DOMAIN r.steps = 1 .. Len(steps)
         /\ \A i \in 1 .. Len(steps) : r.steps[i] = StepRef(steps[i])
         /\ ToSet(r.steps) = {r.steps[i] : i \in 1 .. Len(steps)}
<1>1. r.steps = [i \in 1 .. Len(steps) |-> StepRef(steps[i])] /\ Len(steps) \in Nat
  BY PublishedFacts, StepsFacts
<1> DEFINE t == r.steps
<1>2. t = [i \in 1 .. Len(steps) |-> t[i]]
  BY <1>1
<1> HIDE DEF t
<1>3. IsList(t) /\ Len(t) = Len(steps) /\ DOMAIN t = 1 .. Len(steps)
  BY <1>1, <1>2, PlacesMakeList
<1>4. ToSet(t) = {t[i] : i \in 1 .. Len(steps)}
  BY <1>3 DEF ToSet
<1> QED BY <1>1, <1>3, <1>4 DEF t

\* The security the published steps name is the one the leaves were asked about.
LEMMA SubjectIsPublished ==
  ASSUME PlanFollowed, PlacedInv, NEW r, r = FoldWorkflow(workflow, mode, steps), steps # <<>>
  PROVE  PublishedSubject(r) = Subject
<1> DEFINE step == steps[1]
           ref == r.steps[1]
<1>1. 1 \in 1 .. Len(steps)
  <2>1. Len(steps) \in Nat /\ steps \in Seq(ToSet(steps))
    BY StepsFacts
  <2>2. Len(steps) # 0
    BY <2>1, EmptySeq
  <2> QED BY <2>1, <2>2
<1>2. ref = StepRef(step)
  BY <1>1, RefsOf
<1>3. ref.row = step.row
  BY <1>2, RefFacts
<1>4. CASE step.row # Gate
  BY <1>3, <1>4 DEF PublishedSubject, Subject
<1>5. CASE step.row = Gate /\ step.leaf = NoLeaf
  <2>1. ref.leaf = NoLeaf
    BY <1>2, <1>5, SkippedRef
  <2>2. CanonicalSubject(NoLeaf) = NoSubject
    BY DEF CanonicalSubject, NoLeaf
  <2> QED BY <1>5, <2>1, <2>2 DEF PublishedSubject, Subject
<1>6. CASE step.row = Gate /\ step.leaf # NoLeaf
  <2>1. LeafShape(step.leaf)
    BY <1>1, <1>6, ExecutedLeaf
  <2> HIDE DEF ref, step
  <2>2. Rebuilt(ref) = step.leaf /\ Len(ref.briefs) = 1 /\ ref.leaf # NoLeaf
    BY <1>2, <1>6, <2>1, ExecutedRef
  <2> QED BY <1>3, <1>6, <2>2 DEF PublishedSubject, Subject, ref, step
<1> QED BY <1>4, <1>5, <1>6

\* An element that is new to a list is appended to it once.
LEMMA AppendedOnce ==
  ASSUME NEW s, IsList(s), Distinct(s), NEW x, x \notin ToSet(s)
  PROVE  Distinct(Append(s, x)) /\ ToSet(Append(s, x)) = ToSet(s) \cup {x}
<1> DEFINE S == ToSet(s) \cup {x}
<1>1. Len(s) \in Nat /\ s \in Seq(S) /\ x \in S
  BY ListFacts, ListInto
<1> HIDE DEF S
<1>2. Len(Append(s, x)) = Len(s) + 1 /\ ToSet(Append(s, x)) = ToSet(s) \cup {x}
  BY <1>1, AppendedElement
<1>3. IsFiniteSet(ToSet(s))
  BY ListIsFinite
<1>4. Cardinality(ToSet(s) \cup {x}) = Cardinality(ToSet(s)) + 1
  BY <1>3, FS_AddElement
<1> QED BY <1>2, <1>4 DEF Distinct

\* The briefs are those of the steps and that of the result, none twice.
LEMMA PublishedBriefs ==
  ASSUME PlanFollowed, PlacedInv, NEW r, r = FoldWorkflow(workflow, mode, steps)
  PROVE  /\ Distinct(r.briefs) /\ r.brief.records = r.records /\ r.brief.status = r.status
         /\ ToSet(r.briefs) = {r.brief} \cup UNION {ToSet(ref.briefs) : ref \in ToSet(r.steps)}
<1> DEFINE lists == Map(LAMBDA ref : ref.briefs, r.steps)
           merged == MergeRecords(lists)
           brief == r.brief
<1>1. /\ r.briefs = Append(merged, brief) /\ brief.task = "research_workflow"
      /\ brief.records = r.records /\ brief.status = r.status
  BY DEF FoldWorkflow
<1>2. /\ IsList(r.steps) /\ Len(steps) \in Nat /\ DOMAIN r.steps = 1 .. Len(steps)
      /\ \A i \in 1 .. Len(steps) : r.steps[i] = StepRef(steps[i])
      /\ ToSet(r.steps) = {r.steps[i] : i \in 1 .. Len(steps)}
  BY RefsOf, StepsFacts
<1>3. lists = [i \in 1 .. Len(steps) |-> r.steps[i].briefs]
  BY <1>2 DEF Map
<1>4. ASSUME NEW i \in 1 .. Len(steps)
      PROVE  IsList(r.steps[i].briefs) /\ brief \notin ToSet(r.steps[i].briefs)
  <2>1. r.steps[i] = StepRef(steps[i])
    BY <1>2
  <2>2. CASE steps[i].leaf = NoLeaf
    <3>1. r.steps[i].briefs = <<>>
      BY <2>1, <2>2, SkippedRef
    <3> QED BY <3>1, ShortLists
  <2>3. CASE steps[i].leaf # NoLeaf
    <3>1. /\ steps[i].leaf.plan.task = steps[i].row.task /\ LeafShape(steps[i].leaf)
          /\ RowFacts(workflow, i) /\ steps[i].row = Plans[workflow][i]
      BY <2>3, ExecutedLeaf, StepFacts
    <3>2. steps[i].leaf.brief.task # "research_workflow"
      BY <3>1 DEF RowFacts, LeafShape
    <3>3. r.steps[i].briefs = <<steps[i].leaf.brief>>
      BY <2>1, <2>3, FoldedRef
    <3>4. IsList(<<steps[i].leaf.brief>>) /\ ToSet(<<steps[i].leaf.brief>>) = {steps[i].leaf.brief}
      BY ShortLists
    <3> QED BY <1>1, <3>2, <3>3, <3>4
  <2> QED BY <2>2, <2>3
<1> HIDE DEF lists, merged, brief
<1>5. IsList(lists) /\ DOMAIN lists = 1 .. Len(steps)
  <2>1. lists = [i \in 1 .. Len(steps) |-> lists[i]]
    BY <1>3
  <2> QED BY <1>2, <2>1, PlacesMakeList
<1>6. /\ IsList(merged) /\ Distinct(merged)
      /\ ToSet(merged) = UNION {ToSet(lists[i]) : i \in DOMAIN lists}
  <2>1. \A i \in DOMAIN lists : IsList(lists[i])
    BY <1>3, <1>4, <1>5
  <2> QED BY <1>5, <2>1, MergedRecords DEF merged
<1>7. ToSet(merged) = UNION {ToSet(ref.briefs) : ref \in ToSet(r.steps)}
  <2>1. {ToSet(lists[i]) : i \in DOMAIN lists} = {ToSet(ref.briefs) : ref \in ToSet(r.steps)}
    BY <1>2, <1>3, <1>5
  <2> QED BY <1>6, <2>1
<1>8. brief \notin ToSet(merged)
  BY <1>3, <1>4, <1>5, <1>6
<1>9. Distinct(Append(merged, brief)) /\ ToSet(Append(merged, brief)) = ToSet(merged) \cup {brief}
  BY <1>6, <1>8, AppendedOnce
<1> QED BY <1>1, <1>7, <1>9 DEF brief

\* What is published of a step holds against the plan and the result.
LEMMA StepsAreHeld ==
  ASSUME PlanFollowed, PlacedInv, NEW r, r = FoldWorkflow(workflow, mode, steps),
         Len(steps) = Len(Plans[workflow])
  PROVE  StepsHold(r)
<1>1. /\ Len(steps) \in Nat /\ DOMAIN steps = 1 .. Len(steps)
      /\ DOMAIN r.steps = 1 .. Len(steps) /\ r.workflow = workflow /\ r.mode = mode
      /\ \A i \in 1 .. Len(steps) : r.steps[i] = StepRef(steps[i]) /\ r.steps[i] \in ToSet(r.steps)
      /\ \A field \in Fields : RecordsOf(r, field) = ReferredIn(r.steps, field)
  <2>1. r.workflow = workflow /\ r.mode = mode
        /\ \A field \in Fields : ToSet(r.records[field]) = ReferredIn(r.steps, field)
    BY PublishedFacts
  <2> QED BY <2>1, StepsFacts, RefsOf DEF RecordsOf
<1>2. PublishedSubject(r) = Subject
  <2>1. Len(Plans[workflow]) >= 1 /\ Len(<<>>) = 0
    BY StepsFacts, PlanFacts
  <2> QED BY <2>1, SubjectIsPublished
<1>3. Map(LAMBDA ref : ref.row, r.steps) = Plans[workflow]
  <2>1. /\ IsList(Plans[workflow]) /\ DOMAIN Plans[workflow] = 1 .. Len(steps)
    BY StepsFacts, PlanFacts
  <2>2. Plans[workflow] = [i \in 1 .. Len(steps) |-> Plans[workflow][i]]
    BY <2>1, ListFacts
  <2>3. \A i \in 1 .. Len(steps) : r.steps[i].row = Plans[workflow][i]
    <3>1. ASSUME NEW i \in 1 .. Len(steps) PROVE r.steps[i].row = Plans[workflow][i]
      <4>1. r.steps[i] = StepRef(steps[i])
        BY <1>1
      <4>2. r.steps[i].row = steps[i].row
        BY <4>1, RefFacts
      <4> QED BY <4>2, StepsFacts
    <3> QED BY <3>1
  <2>4. Map(LAMBDA ref : ref.row, r.steps) = [i \in 1 .. Len(steps) |-> r.steps[i].row]
    BY <1>1 DEF Map
  <2> QED BY <2>2, <2>3, <2>4
<1>4. ASSUME NEW i \in 1 .. Len(steps)
      PROVE  LET ref == r.steps[i]
                 blocked == \E j \in 1 .. i - 1 : r.steps[j].row.step \in ref.row.depends
                                                /\ r.steps[j].state = "blocked" IN
               /\ \A field \in Fields : ToSet(ref.records[field]) \subseteq RecordsOf(r, field)
               /\ ToSet(ref.limits) \subseteq RecordsOf(r, "limitations")
               /\ ToSet(ref.briefs) \subseteq ToSet(r.briefs)
               /\ IF ref.state \in {"not_requested", "skipped_research_dependency"}
                  THEN UnexecutedHolds(r, ref, blocked)
                  ELSE ExecutedHolds(r, ref, blocked, PublishedSubject(r))
  <2> DEFINE step == steps[i]
             ref == r.steps[i]
             blocked == \E j \in 1 .. i - 1 : r.steps[j].row.step \in ref.row.depends
                                            /\ r.steps[j].state = "blocked"
  <2>1. ref = StepRef(step) /\ ref \in ToSet(r.steps)
    BY <1>1
  <2>2. blocked <=> BlockedAt(i)
    <3>1. \A j \in 1 .. i - 1 : j \in 1 .. Len(steps)
      BY <1>1
    <3>2. ASSUME NEW j \in 1 .. Len(steps) PROVE r.steps[j].row = steps[j].row /\ r.steps[j].state = steps[j].state
      <4>1. r.steps[j] = StepRef(steps[j])
        BY <1>1
      <4> QED BY <4>1, RefFacts
    <3> QED BY <3>1, <3>2 DEF BlockedAt
  <2>3. /\ \A field \in Fields : ToSet(ref.records[field]) \subseteq RecordsOf(r, field)
        /\ ToSet(ref.limits) \subseteq RecordsOf(r, "limitations")
    <3> HIDE DEF ref
    <3>1. ToSet(ref.limits) \subseteq ReferredIn(r.steps, "limitations")
      BY <2>1 DEF ReferredIn
    <3>2. \A field \in Fields : ToSet(ref.records[field]) \subseteq ReferredIn(r.steps, field)
      BY <2>1 DEF ReferredIn
    <3>3. "limitations" \in Fields
      BY DEF Fields
    <3> QED BY <1>1, <3>1, <3>2, <3>3
  <2>4. ToSet(ref.briefs) \subseteq ToSet(r.briefs)
    BY <2>1, PublishedBriefs
  <2>5. StepPlaced(step, BlockedAt(i), mode, Subject, session) /\ step.leaf = step.leaf
    BY StepFacts
  <2>6. CASE step.leaf = NoLeaf
    <3>1. \/ StepLeftOut(step) /\ step.scope = NoLeaf /\ Excused(step.row, mode)
          \/ StepSkipped(step) /\ step.scope = NoLeaf /\ BlockedAt(i)
      BY <2>5, <2>6, IdentityFacts, FoldFacts
         DEF StepPlaced, IdentityAsked, LeafAnswered, StepIdentified, StepFolded
    <3> HIDE DEF step, ref, blocked
    <3>2. /\ ref.row = step.row /\ ref.state = step.state /\ ref.limits = step.limits
          /\ ref.scope = step.scope /\ ref.briefs = <<>> /\ ref.coverage = step.state
          /\ ref.leaf = NoLeaf /\ ref.records = NoRecords
      BY <2>1, <2>6, RefFacts, SkippedRef
    <3>3. /\ ref.state \in {"not_requested", "skipped_research_dependency"}
          /\ UnexecutedHolds(r, ref, blocked)
      BY <1>1, <2>2, <3>1, <3>2 DEF UnexecutedHolds, StepLeftOut, StepSkipped
    <3> QED BY <2>3, <2>4, <3>3 DEF ref, blocked
  <2>7. CASE step.leaf # NoLeaf
    <3> DEFINE shut == step.row = Gate /\ Shut(step.leaf)
    <3>1. /\ LeafShape(step.leaf) /\ LeafAccepted(step.leaf)
          /\ step.leaf.plan.task = step.row.task /\ LeafMatchesScope(step.leaf, step.scope)
          /\ step.scope = Scope(step.row.step, IF step.row = Gate THEN NoSubject ELSE Subject)
          /\ step.limits = (IF shut THEN <<IdentityLimitation>> ELSE <<>>)
          /\ step.state = (IF shut THEN "blocked" ELSE step.leaf.status)
          /\ step.state \in Statuses /\ ~BlockedAt(i) /\ ~Excused(step.row, mode)
      BY <2>7, ExecutedLeaf
    <3> HIDE DEF step, ref, blocked
    <3>2. /\ ref.row = step.row /\ ref.state = step.state /\ ref.limits = step.limits
          /\ ref.scope = step.scope /\ ref.coverage = "complete"
      BY <2>1, <2>7, RefFacts, FoldedRef
    <3>3. /\ Rebuilt(ref) = step.leaf /\ Len(ref.briefs) = 1
          /\ ref.briefs[1].records = ref.records /\ ref.briefs[1].status = step.leaf.status
          /\ ref.leaf # NoLeaf /\ ref.leaf.plan = step.leaf.plan
      BY <2>1, <2>7, <3>1, ExecutedRef
    <3>4. shut <=> ref.row = Gate /\ CanonicalSubject(Rebuilt(ref)) = NoSubject
      BY <3>2, <3>3 DEF Shut
    <3>5. ref.state \notin {"not_requested", "skipped_research_dependency"}
      BY <3>1, <3>2 DEF Statuses
    <3> HIDE DEF shut
    <3>6. ExecutedHolds(r, ref, blocked, PublishedSubject(r))
      BY <1>1, <1>2, <2>2, <3>1, <3>2, <3>3, <3>4 DEF ExecutedHolds
    <3> QED BY <2>3, <2>4, <3>5, <3>6 DEF ref, blocked
  <2> QED BY <2>6, <2>7
<1> QED BY <1>1, <1>3, <1>4 DEF StepsHold

\* Only the owners of the foundation observe what the foundation is made of.
OwnerAt(task) == IF task = "overview_session" THEN 5 ELSE 6

LEMMA FoundationSeen ==
  ASSUME PlanFollowed, PlacedInv, NEW r, r = FoldWorkflow(workflow, mode, steps),
         workflow = "market_overview_research", Len(steps) = 6, NEW task \in Foundation
  PROVE  LET step == steps[OwnerAt(task)] IN
           {x \in RecordsOf(r, "observations") : x.operation = task} =
             IF step.leaf = NoLeaf THEN {}
             ELSE {x \in ToSet(step.leaf.records.observations) : x.operation = task}
<1> DEFINE k == OwnerAt(task)
           step == steps[k]
<1>1. /\ \A i \in 1 .. Len(steps) : r.steps[i] = StepRef(steps[i])
      /\ ToSet(r.steps) = {r.steps[i] : i \in 1 .. Len(steps)}
      /\ "observations" \in Fields
      /\ RecordsOf(r, "observations") = ReferredIn(r.steps, "observations")
  <2>1. "observations" \in Fields
    BY DEF Fields
  <2>2. ToSet(r.records["observations"]) = ReferredIn(r.steps, "observations")
    BY <2>1, PublishedFacts
  <2> QED BY <2>1, <2>2, RefsOf DEF RecordsOf
<1>2. ReferredIn(r.steps, "observations") = UNION {ToSet(ref.records.observations) : ref \in ToSet(r.steps)}
  BY DEF ReferredIn
<1>3. ASSUME NEW i \in 1 .. Len(steps), steps[i].leaf = NoLeaf
      PROVE  ToSet(r.steps[i].records.observations) = {}
  <2>1. r.steps[i] = StepRef(steps[i])
    BY <1>1
  <2>2. r.steps[i].records = NoRecords
    BY <1>3, <2>1, SkippedRef
  <2>3. NoRecords["observations"] = <<>>
    BY DEF NoRecords, Fields
  <2> QED BY <2>2, <2>3, ShortLists
<1>4. ASSUME NEW i \in 1 .. Len(steps), steps[i].leaf # NoLeaf
      PROVE  r.steps[i].records = steps[i].leaf.records
  <2>1. r.steps[i] = StepRef(steps[i])
    BY <1>1
  <2> QED BY <1>4, <2>1, FoldedRef
<1>5. k \in 1 .. Len(steps) /\ (k = 5 \/ k = 6)
  BY DEF OwnerAt
<1>6. ASSUME NEW i \in 1 .. Len(steps), steps[i].leaf # NoLeaf, i # k,
             NEW x \in ToSet(steps[i].leaf.records.observations)
      PROVE  x.operation # task
  <2> DEFINE other == steps[i]
  <2>1. /\ RowFacts(workflow, i) /\ other.row = Plans[workflow][i]
        /\ StepPlaced(other, BlockedAt(i), mode, Subject, session)
    BY StepFacts
  <2>2. other.leaf # NoLeaf /\ x \in ToSet(other.leaf.records.observations)
    BY <1>6
  <2> HIDE DEF other
  <2>3. other.row # Gate
    BY <2>1 DEF RowFacts, Gates
  <2>4. LeafAnswered(other, Subject, session)
    BY <2>1, <2>2, <2>3 DEF StepPlaced, StepLeftOut, StepSkipped, IdentityAsked, StepIdentified
  <2>5. /\ StepFolded(other) /\ TaskInput(other.input) /\ Foldable(other.input)
        /\ other.leaf = Fold(other.input) /\ other.leaf.records = Records(other.input)
    <3>1. StepFolded(other)
      BY <2>4 DEF LeafAnswered
    <3>2. other.leaf = Fold(other.input)
      BY <3>1 DEF StepFolded
    <3>3. other.leaf.records = Records(other.input)
      BY <3>2, FoldFacts
    <3> QED BY <3>1, <3>2, <3>3 DEF StepFolded
  <2>6. CASE other.row.task \in Foundation
    <3>1. PICK outcome :
            /\ other.input = FoundationInput(other.row.task, outcome)
            /\ IsOutcome(outcome) /\ outcome.operation = other.row.task
      BY <2>4, <2>5, <2>6, OwnerAccepted DEF LeafAnswered
    <3>2. ToSet(Records(other.input).observations) =
            {[operation |-> other.row.task, key |-> y] : y \in ToSet(outcome.seen)}
      BY <2>5, <2>6, <3>1, FoundationFold
    <3>3. x.operation = other.row.task
      BY <2>2, <2>5, <3>2
    <3>4. other.row.task # task
      BY <1>5, <1>6, <2>1, <2>6 DEF RowFacts, Foundation, OwnerAt
    <3> QED BY <3>3, <3>4
  <2>7. CASE other.row.task \notin Foundation
    <3>1. /\ WellBuilt(other.input) /\ OperationsOf(other.input.plan) \cap Foundation = {}
      BY <2>4, <2>7 DEF LeafAnswered, Answers
    <3>2. OwnershipHolds(Fold(other.input)) /\ Fold(other.input).plan = other.input.plan
      BY <2>5, <3>1, FoldOwns, FoldShape
    <3>3. x.operation \in OperationsOf(other.input.plan)
      BY <2>2, <2>5, <3>2 DEF OwnershipHolds, OwnedBy
    <3> QED BY <3>1, <3>3
  <2> QED BY <2>6, <2>7
<1> DEFINE seen == {x \in RecordsOf(r, "observations") : x.operation = task}
           own == IF step.leaf = NoLeaf THEN {}
                  ELSE {x \in ToSet(step.leaf.records.observations) : x.operation = task}
<1>7. ASSUME NEW x \in seen PROVE x \in own
  <2>1. PICK i \in 1 .. Len(steps) : x \in ToSet(r.steps[i].records.observations)
    BY <1>1, <1>2
  <2>2. steps[i].leaf # NoLeaf /\ x \in ToSet(steps[i].leaf.records.observations)
    BY <1>3, <1>4, <2>1
  <2>3. i = k
    BY <1>6, <2>2
  <2> QED BY <2>2, <2>3
<1>8. ASSUME NEW x \in own PROVE x \in seen
  <2>1. step.leaf # NoLeaf /\ x \in ToSet(step.leaf.records.observations) /\ x.operation = task
    OBVIOUS
  <2>2. r.steps[k].records = step.leaf.records
    BY <1>4, <1>5, <2>1
  <2> QED BY <1>1, <1>2, <1>5, <2>1, <2>2
<1> QED BY <1>7, <1>8

\* What the owner of a part of the foundation published.
LEMMA OwnerPublished ==
  ASSUME PlanFollowed, PlacedInv, NEW r, r = FoldWorkflow(workflow, mode, steps),
         workflow = "market_overview_research", Len(steps) = 6, NEW task \in Foundation,
         steps[OwnerAt(task)].leaf # NoLeaf
  PROVE  LET step == steps[OwnerAt(task)]
             rows == {x \in RecordsOf(r, "observations") : x.operation = task}
             capability == FoundationPlan(task).obligations[1].capability IN
           \E outcome :
             /\ IF task = "overview_session" THEN outcome = session /\ session \in SessionOutcomes(step.scope)
                ELSE outcome \in IndexOutcomes(step.scope, session)
             /\ rows = {[operation |-> task, key |-> y] : y \in ToSet(outcome.seen)}
             /\ step.leaf.plan = FoundationPlan(task)
             /\ step.leaf.records.calculations = <<>>
             /\ step.leaf.covered[task].state = outcome.state
             /\ Len(step.leaf.records.claims) = IF rows = {} THEN 0 ELSE 1
             /\ \A c \in ToSet(step.leaf.records.claims) :
                  c.kind = capability /\ c.use = capability /\ ToSet(c.over) = rows
<1> DEFINE k == OwnerAt(task)
           step == steps[k]
           rows == {x \in RecordsOf(r, "observations") : x.operation = task}
           capability == FoundationPlan(task).obligations[1].capability
<1>1. k \in 1 .. Len(steps) /\ (k = 5 <=> task = "overview_session") /\ (k = 6 <=> task = "overview_indices")
  BY DEF OwnerAt, Foundation
<1>2. /\ RowFacts(workflow, k) /\ step.row = Plans[workflow][k]
      /\ StepPlaced(step, BlockedAt(k), mode, Subject, session)
  BY <1>1, StepFacts
<1>3. rows = {x \in ToSet(step.leaf.records.observations) : x.operation = task}
  BY FoundationSeen
<1>4. step.leaf # NoLeaf
  OBVIOUS
<1> HIDE DEF step, rows, k
<1>5. step.row # Gate /\ step.row.task = task
  BY <1>1, <1>2 DEF RowFacts, Gates, Foundation
<1>6. LeafAnswered(step, Subject, session)
  BY <1>2, <1>4, <1>5 DEF StepPlaced, StepLeftOut, StepSkipped, IdentityAsked, StepIdentified
<1>7. StepFolded(step) /\ OwnerAnswered(step, session)
  BY <1>5, <1>6 DEF LeafAnswered
<1>8. PICK outcome :
        /\ step.input = FoundationInput(task, outcome)
        /\ IsOutcome(outcome) /\ outcome.operation = task
        /\ IF task = "overview_session" THEN outcome = session /\ session \in SessionOutcomes(step.scope)
           ELSE outcome \in IndexOutcomes(step.scope, session)
  BY <1>5, <1>7, OwnerAccepted
<1> DEFINE input == step.input
<1>9. /\ input.plan = FoundationPlan(task)
      /\ Records(input).calculations = <<>>
      /\ Fold(input).covered[task].state = outcome.state
      /\ ToSet(Records(input).observations) = {[operation |-> task, key |-> y] : y \in ToSet(outcome.seen)}
      /\ Len(Records(input).claims) = IF outcome.seen = <<>> THEN 0 ELSE 1
      /\ \A c \in ToSet(Records(input).claims) :
           c.kind = capability /\ c.use = capability /\ ToSet(c.over) = ToSet(Records(input).observations)
  BY <1>7, <1>8, FoundationFold DEF StepFolded
<1> HIDE DEF input, capability
<1>10. /\ step.leaf.records = Records(input) /\ step.leaf.plan = input.plan
       /\ step.leaf.covered = Fold(input).covered
  <2>1. step.leaf = Fold(input)
    BY <1>7 DEF StepFolded, input
  <2>2. Fold(input).plan = input.plan /\ Fold(input).records = Records(input)
    BY FoldParts
  <2> QED BY <2>1, <2>2
<1>11. rows = {[operation |-> task, key |-> y] : y \in ToSet(outcome.seen)}
  BY <1>3, <1>9, <1>10
<1>12. rows = {} <=> outcome.seen = <<>>
  <2>1. outcome.seen = <<>> <=> ToSet(outcome.seen) = {}
    BY <1>8, EmptyList DEF IsOutcome
  <2> QED BY <1>11, <2>1
<1>13. \A c \in ToSet(Records(input).claims) : ToSet(c.over) = rows
  BY <1>9, <1>11
<1>14. Len(Records(input).claims) = IF rows = {} THEN 0 ELSE 1
  BY <1>9, <1>12
<1> QED BY <1>8, <1>9, <1>10, <1>11, <1>13, <1>14 DEF step, rows, k, capability

\* The session of a market overview is always asked for.
LEMMA SessionIsAsked ==
  ASSUME PlanFollowed, PlacedInv, workflow = "market_overview_research", Len(steps) = 6
  PROVE  steps[5].leaf # NoLeaf
<1>1. 5 \in 1 .. Len(steps)
  OBVIOUS
<1>2. /\ StepPlaced(steps[5], BlockedAt(5), mode, Subject, session)
      /\ steps[5].row = Plans["market_overview_research"][5]
  BY <1>1, StepFacts
<1>3. steps[5].row.depends = {} /\ steps[5].row.criticality = "core"
  BY <1>2, OverviewRows
<1>4. ~BlockedAt(5) /\ ~Excused(steps[5].row, mode)
  BY <1>3 DEF BlockedAt, Excused
<1>5. StepIdentified(steps[5]) \/ StepFolded(steps[5])
  BY <1>2, <1>4 DEF StepPlaced, IdentityAsked, LeafAnswered
<1>6. CASE StepIdentified(steps[5])
  BY <1>6, IdentityFacts DEF StepIdentified
<1>7. CASE StepFolded(steps[5])
  <2>1. steps[5].leaf = Fold(steps[5].input)
    BY <1>7 DEF StepFolded
  <2> QED BY <2>1, FoldFacts
<1> QED BY <1>5, <1>6, <1>7

LEMMA FoundationIsHeld ==
  ASSUME PlanFollowed, PlacedInv, NEW r, r = FoldWorkflow(workflow, mode, steps),
         workflow = "market_overview_research", Len(steps) = 6
  PROVE  FoundationHolds(r)
<1> DEFINE contexts == {x \in RecordsOf(r, "observations") : x.operation = "overview_session"}
<1>1. /\ session \in SessionOutcomes(steps[5].scope)
      /\ contexts = {[operation |-> "overview_session", key |-> y] : y \in ToSet(session.seen)}
  <2>1. OwnerAt("overview_session") = 5 /\ "overview_session" \in Foundation
    BY DEF OwnerAt, Foundation
  <2> QED BY <2>1, SessionIsAsked, OwnerPublished
<1>2. /\ session.seen = <<>> \/ ToSet(session.seen) = {session.seen[1]}
      /\ session.state = "succeeded" => session.seen # <<>>
  BY <1>1, SessionKeys
<1> HIDE DEF contexts
<1>3. session.seen = <<>> => contexts = {}
  BY <1>1, ShortLists
<1> DEFINE context == [operation |-> "overview_session", key |-> session.seen[1]]
<1>4. session.seen # <<>> => contexts = {context}
  <2>1. ASSUME session.seen # <<>> PROVE contexts = {context}
    <3>1. ToSet(session.seen) = {session.seen[1]}
      BY <1>2, <2>1
    <3> QED BY <1>1, <3>1
  <2> QED BY <2>1
<1>5. context.key = session.seen[1]
  OBVIOUS
<1> HIDE DEF context
<1>6. Cardinality(contexts) <= 1 /\ (session.seen # <<>> => Cardinality(contexts) = 1)
  <2>1. CASE session.seen = <<>>
    <3>1. Cardinality({}) = 0
      BY FS_EmptySet
    <3>2. Cardinality(contexts) = 0
      BY <1>3, <2>1, <3>1
    <3> QED BY <2>1, <3>2
  <2>2. CASE session.seen # <<>>
    <3>1. Cardinality({context}) = 1
      BY FS_Singleton
    <3>2. Cardinality(contexts) = 1
      BY <1>4, <2>2, <3>1
    <3> QED BY <3>2
  <2> QED BY <2>1, <2>2
<1>7. ASSUME NEW ref \in ToSet(r.steps), ref.row.task \in Foundation, ref.leaf # NoLeaf
      PROVE  LET task == ref.row.task
                 rows == {x \in RecordsOf(r, "observations") : x.operation = task}
                 capability == FoundationPlan(task).obligations[1].capability IN
               /\ ref.leaf.plan.dependencies = FoundationPlan(task).dependencies
               /\ ref.leaf.plan.obligations = FoundationPlan(task).obligations
               /\ ref.records.calculations = <<>>
               /\ ref.leaf.covered[task].state = "succeeded" =>
                    Cardinality(rows) = IF task = "overview_session" THEN 1 ELSE Len(FixedIndices)
               /\ Len(ref.records.claims) = IF rows = {} THEN 0 ELSE 1
               /\ \A c \in ToSet(ref.records.claims) :
                    c.kind = capability /\ c.use = capability /\ ToSet(c.over) = rows
               /\ task = "overview_indices" =>
                    \A row \in rows : \E x \in contexts : row.key.about[2] = x.key.about
  <2> DEFINE task == ref.row.task
             rows == {x \in RecordsOf(r, "observations") : x.operation = task}
             capability == FoundationPlan(task).obligations[1].capability
  <2>1. PICK i \in 1 .. Len(steps) : ref = r.steps[i] /\ ref = StepRef(steps[i])
    BY RefsOf
  <2>2. steps[i].leaf # NoLeaf /\ ref.row = steps[i].row
    BY <1>7, <2>1, SkippedRef, RefFacts
  <2>3. i = OwnerAt(task)
    <3>1. RowFacts(workflow, i) /\ steps[i].row = Plans[workflow][i]
      BY StepFacts
    <3>2. task = "overview_session" \/ task = "overview_indices"
      BY <1>7 DEF Foundation
    <3> QED BY <2>2, <3>1, <3>2 DEF RowFacts, OwnerAt
  <2>4. /\ ref.records = steps[i].leaf.records /\ ref.leaf.plan = steps[i].leaf.plan
        /\ ref.leaf.covered = steps[i].leaf.covered
    <3>1. LeafShape(steps[i].leaf)
      BY <2>2, ExecutedLeaf
    <3> QED BY <2>1, <2>2, <3>1, ExecutedRef, FoldedRef, ZenonT(40)
  <2>5. PICK outcome :
             /\ IF task = "overview_session" THEN outcome = session /\ session \in SessionOutcomes(steps[i].scope)
                ELSE outcome \in IndexOutcomes(steps[i].scope, session)
             /\ rows = {[operation |-> task, key |-> y] : y \in ToSet(outcome.seen)}
             /\ steps[i].leaf.plan = FoundationPlan(task)
             /\ steps[i].leaf.records.calculations = <<>>
             /\ steps[i].leaf.covered[task].state = outcome.state
             /\ Len(steps[i].leaf.records.claims) = IF rows = {} THEN 0 ELSE 1
             /\ \A c \in ToSet(steps[i].leaf.records.claims) :
                  c.kind = capability /\ c.use = capability /\ ToSet(c.over) = rows
    <3>1. task \in Foundation /\ steps[OwnerAt(task)].leaf # NoLeaf
      BY <1>7, <2>2, <2>3
    <3> HIDE DEF task
    <3> QED BY <2>3, <3>1, OwnerPublished
  <2>6. outcome.state = "succeeded" =>
          Cardinality(rows) = IF task = "overview_session" THEN 1 ELSE Len(FixedIndices)
    <3>1. CASE task = "overview_session"
      <4>1. rows = contexts /\ outcome = session
        BY <2>5, <3>1 DEF contexts
      <4> QED BY <1>2, <1>6, <3>1, <4>1
    <3>2. CASE task # "overview_session"
      <4>1. task = "overview_indices"
        BY <1>7, <3>2 DEF Foundation
      <4>2. outcome \in IndexOutcomes(steps[i].scope, session) /\ rows = IndexRows(outcome.seen)
        BY <2>5, <4>1 DEF IndexRows
      <4> HIDE DEF task, rows
      <4>3. outcome.state = "succeeded" => Cardinality(IndexRows(outcome.seen)) = Len(FixedIndices)
        BY <4>2, IndexKeys
      <4> QED BY <3>2, <4>2, <4>3
    <3> QED BY <3>1, <3>2
  <2>7. ASSUME task = "overview_indices", NEW row \in rows
        PROVE  \E x \in contexts : row.key.about[2] = x.key.about
    <3>1. outcome \in IndexOutcomes(steps[i].scope, session)
      BY <2>5, <2>7
    <3>2. PICK y \in ToSet(outcome.seen) : row = [operation |-> task, key |-> y]
      BY <2>5, <2>7
    <3>3. row.key = y
      BY <3>2
    <3>4. y.about[2] = session.seen[1].about
      BY <3>1, <3>2, IndexKeys
    <3>5. outcome.seen # <<>>
      BY <3>2, ShortLists
    <3>6. session.seen # <<>>
      BY <3>1, <3>5, IndexKeys
    <3> QED BY <1>4, <1>5, <3>3, <3>4, <3>6
  <2> HIDE DEF task, rows, capability
  <2>8. /\ ref.leaf.plan.dependencies = FoundationPlan(task).dependencies
        /\ ref.leaf.plan.obligations = FoundationPlan(task).obligations
        /\ ref.records.calculations = <<>>
        /\ ref.leaf.covered[task].state = "succeeded" =>
             Cardinality(rows) = IF task = "overview_session" THEN 1 ELSE Len(FixedIndices)
        /\ Len(ref.records.claims) = IF rows = {} THEN 0 ELSE 1
        /\ \A c \in ToSet(ref.records.claims) :
             c.kind = capability /\ c.use = capability /\ ToSet(c.over) = rows
    BY <2>4, <2>5, <2>6
  <2> QED BY <2>7, <2>8 DEF task, rows, capability
<1> QED BY <1>6, <1>7 DEF FoundationHolds, contexts

LEMMA PublishedIsAccepted ==
  ASSUME PlanFollowed, PlacedInv, NEW r, r = FoldWorkflow(workflow, mode, steps),
         Len(steps) = Len(Plans[workflow])
  PROVE  AcceptsWorkflow(r)
<1>1. /\ r.workflow = workflow /\ r.mode = mode
      /\ r.status = DerivedStatus(workflow, StatesOf(r.steps))
      /\ \A field \in Fields :
           Distinct(r.records[field]) /\ ToSet(r.records[field]) = ReferredIn(r.steps, field)
  BY PublishedFacts
<1>2. r.inventory = IF workflow = "market_overview_research" THEN Inventory(mode) ELSE <<>>
  BY DEF FoldWorkflow
<1>3. StepsHold(r)
  BY StepsAreHeld
<1>4. Closed(r) /\ r.brief.status = r.status
  <2>1. /\ Distinct(r.briefs) /\ r.brief.records = r.records /\ r.brief.status = r.status
        /\ ToSet(r.briefs) = {r.brief} \cup UNION {ToSet(ref.briefs) : ref \in ToSet(r.steps)}
    BY PublishedBriefs
  <2> QED BY <1>1, <2>1 DEF Closed, ReferredIn, RecordsOf
<1>5. ASSUME workflow = "market_overview_research" PROVE FoundationHolds(r)
  <2>1. Len(steps) = 6
    BY <1>5, OverviewRows
  <2> QED BY <1>5, <2>1, FoundationIsHeld
<1> QED BY <1>1, <1>2, <1>3, <1>4, <1>5 DEF AcceptsWorkflow

LEMMA LastIsAccepted ==
  ASSUME PlanFollowed, PlacedInv, steps # <<>>, Executed(Last(steps))
  PROVE  LeafAccepted(Last(steps).leaf)
<1>1. Len(steps) \in Nat /\ Len(steps) # 0
  <2>1. Len(steps) \in Nat /\ steps \in Seq(ToSet(steps))
    BY StepsFacts
  <2>2. Len(steps) # 0
    BY <2>1, EmptySeq
  <2> QED BY <2>1, <2>2
<1>2. Len(steps) \in 1 .. Len(steps)
  BY <1>1
<1>3. Last(steps) = steps[Len(steps)]
  BY DEF Last
<1>4. steps[Len(steps)].leaf # NoLeaf
  BY <1>3 DEF Executed
<1> QED BY <1>2, <1>3, <1>4, ExecutedLeaf

(***************************************************************************)
(* Every leaf a workflow executes passes the validation of direct tasks,   *)
(* and every result it publishes that of workflow results                  *)
(* (validate_workflow_research_result): the steps are those of the plan    *)
(* and stand where what they wait for allows, the records and the briefs   *)
(* are exactly those the steps refer to, each once, the status follows     *)
(* from the states, and the foundation of a market overview is that of one *)
(* session.  What it rests on of the leaf tasks is LeafInputsAssumption.   *)
(***************************************************************************)
THEOREM ResultsAreAccepted == Spec => []ResultIsAccepted
<1>1. WorkflowInv /\ PlacedInv => ResultIsAccepted
  <2> SUFFICES ASSUME WorkflowInv, PlacedInv PROVE ResultIsAccepted
    OBVIOUS
  <2>1. PlanFollowed /\ ResultIsTheFold
    BY DEF WorkflowInv
  <2>2. ASSUME phase = "done" PROVE AcceptsWorkflow(result)
    <3>1. Len(steps) = Len(Plans[workflow]) /\ result = FoldWorkflow(workflow, mode, steps)
      BY <2>1, <2>2 DEF ResultIsTheFold
    <3> QED BY <2>1, <3>1, PublishedIsAccepted
  <2> QED BY <2>1, <2>2, LastIsAccepted DEF ResultIsAccepted
<1> QED BY <1>1, WorkflowKept, PlacesKept, PTL
===============================================================================
