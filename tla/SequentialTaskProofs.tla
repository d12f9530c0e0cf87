------------------------ MODULE SequentialTaskProofs ------------------------
(***************************************************************************)
(* Theorems about the tasks that run by themselves, for every world, every *)
(* answer of the sources and all limits, where MCSequentialTasks has small *)
(* instances of them.                                                      *)
(***************************************************************************)
EXTENDS EvidenceAudit, MarketSeries, IntradaySnapshot, SessionContext,
  ValuationComparison, EtfResearch, AShareUniverse, MarketFoundation, ObservationTasks,
  PagedSources, IntradayReplay, BundleValuation, FiniteSetTheorems, SequenceTheorems, TLAPS

-----------------------------------------------------------------------------
(* Numbers, finite sets and sequences. *)

\* A set of numbers has a smallest.
LEMMA SmallestOf ==
  ASSUME NEW S \in SUBSET Nat, S # {}
  PROVE  \E k \in S : \A l \in S : k <= l
<1>1. \E k \in S : \A l \in S : ~(<<l, k>> \in OpToRel(<, Nat))
  BY NatLessThanWellFounded, WFMin
<1>2. PICK k \in S : \A l \in S : ~(l < k)
  BY <1>1 DEF OpToRel
<1> QED BY <1>2

\* What a function makes of a finite set is finite.
LEMMA ImageIsFinite ==
  ASSUME NEW S, IsFiniteSet(S), NEW f, f = [x \in S |-> f[x]]
  PROVE  IsFiniteSet({f[x] : x \in S}) /\ Cardinality({f[x] : x \in S}) <= Cardinality(S)
<1>1. f \in Surjection(S, {f[x] : x \in S})
  BY DEF Surjection
<1> QED BY <1>1, FS_Surjection

\* A set that has two elements has more than one.
LEMMA MoreThanOne ==
  ASSUME NEW S, IsFiniteSet(S), NEW a \in S, NEW b \in S, a # b
  PROVE  Cardinality(S) > 1
<1>0. IsFiniteSet({a}) /\ Cardinality({a}) = 1 /\ b \notin {a}
  BY FS_Singleton
<1>1. Cardinality({a} \cup {b}) = 2
  BY <1>0, FS_AddElement
<1>2. Cardinality({a} \cup {b}) <= Cardinality(S) /\ Cardinality(S) \in Nat
  BY FS_Subset, FS_CardinalityType
<1> QED BY <1>1, <1>2

\* An element put into a sequence, and one taken out of it.
LEMMA InsertFacts ==
  ASSUME NEW S, NEW s \in Seq(S), NEW e \in S, NEW i \in 1 .. Len(s) + 1
  PROVE  /\ InsertAt(s, i, e) \in Seq(S) /\ Len(InsertAt(s, i, e)) = Len(s) + 1
         /\ \A j \in 1 .. Len(s) + 1 :
              InsertAt(s, i, e)[j] = IF j < i THEN s[j] ELSE IF j = i THEN e ELSE s[j - 1]
<1> DEFINE a == SubSeq(s, 1, i - 1)
           b == <<e>>
           c == SubSeq(s, i, Len(s))
<1>0. Len(s) \in Nat /\ i \in Nat /\ \A k \in 1 .. Len(s) : s[k] \in S
  BY LenProperties
<1>1. a \in Seq(S) /\ Len(a) = i - 1 /\ \A k \in 1 .. i - 1 : a[k] = s[k]
  BY <1>0, SubSeqProperties
<1>2. b \in Seq(S) /\ Len(b) = 1 /\ b[1] = e
  OBVIOUS
<1>3. c \in Seq(S) /\ Len(c) = Len(s) - i + 1 /\ \A k \in 1 .. Len(s) - i + 1 : c[k] = s[i + k - 1]
  BY <1>0, SubSeqProperties
<1> HIDE DEF a, b, c
<1>4. /\ a \o b \in Seq(S) /\ Len(a \o b) = i
      /\ \A k \in 1 .. i : (a \o b)[k] = IF k <= i - 1 THEN a[k] ELSE b[k - (i - 1)]
  <2>1. /\ a \o b \in Seq(S) /\ Len(a \o b) = Len(a) + Len(b)
        /\ \A k \in 1 .. Len(a) + Len(b) : (a \o b)[k] = IF k <= Len(a) THEN a[k] ELSE b[k - Len(a)]
    BY <1>1, <1>2, ConcatProperties
  <2>2. Len(a) + Len(b) = i
    BY <1>0, <1>1, <1>2
  <2> QED BY <1>1, <2>1, <2>2
<1>5. /\ (a \o b) \o c \in Seq(S) /\ Len((a \o b) \o c) = Len(s) + 1
      /\ \A k \in 1 .. Len(s) + 1 : ((a \o b) \o c)[k] = IF k <= i THEN (a \o b)[k] ELSE c[k - i]
  <2> DEFINE d == a \o b
  <2>0. d \in Seq(S) /\ Len(d) = i
    BY <1>4
  <2> HIDE DEF d
  <2>1. /\ d \o c \in Seq(S) /\ Len(d \o c) = Len(d) + Len(c)
        /\ \A k \in 1 .. Len(d) + Len(c) : (d \o c)[k] = IF k <= Len(d) THEN d[k] ELSE c[k - Len(d)]
    BY <1>3, <2>0, ConcatProperties
  <2>2. Len(d) + Len(c) = Len(s) + 1
    BY <1>0, <1>3, <2>0
  <2> QED BY <2>0, <2>1, <2>2 DEF d
<1>6. InsertAt(s, i, e) = (a \o b) \o c
  BY DEF InsertAt, a, b, c
<1>7. ASSUME NEW j \in 1 .. Len(s) + 1
      PROVE  ((a \o b) \o c)[j] = IF j < i THEN s[j] ELSE IF j = i THEN e ELSE s[j - 1]
  BY <1>0, <1>1, <1>2, <1>3, <1>4, <1>5
<1> QED BY <1>5, <1>6, <1>7

LEMMA RemoveFacts ==
  ASSUME NEW S, NEW s \in Seq(S), NEW i \in 1 .. Len(s)
  PROVE  /\ RemoveAt(s, i) \in Seq(S) /\ Len(RemoveAt(s, i)) = Len(s) - 1
         /\ \A j \in 1 .. Len(s) - 1 : RemoveAt(s, i)[j] = IF j < i THEN s[j] ELSE s[j + 1]
<1> DEFINE a == SubSeq(s, 1, i - 1)
           c == SubSeq(s, i + 1, Len(s))
<1>0. Len(s) \in Nat /\ i \in Nat /\ \A k \in 1 .. Len(s) : s[k] \in S
  BY LenProperties
<1>1. a \in Seq(S) /\ Len(a) = i - 1 /\ \A k \in 1 .. i - 1 : a[k] = s[k]
  BY <1>0, SubSeqProperties
<1>2. c \in Seq(S) /\ Len(c) = Len(s) - i /\ \A k \in 1 .. Len(s) - i : c[k] = s[i + k]
  BY <1>0, SubSeqProperties
<1> HIDE DEF a, c
<1>3. /\ a \o c \in Seq(S) /\ Len(a \o c) = Len(s) - 1
      /\ \A k \in 1 .. Len(s) - 1 : (a \o c)[k] = IF k <= i - 1 THEN a[k] ELSE c[k - (i - 1)]
  <2>1. /\ a \o c \in Seq(S) /\ Len(a \o c) = Len(a) + Len(c)
        /\ \A k \in 1 .. Len(a) + Len(c) : (a \o c)[k] = IF k <= Len(a) THEN a[k] ELSE c[k - Len(a)]
    BY <1>1, <1>2, ConcatProperties
  <2>2. Len(a) + Len(c) = Len(s) - 1
    BY <1>0, <1>1, <1>2
  <2> QED BY <1>1, <2>1, <2>2
<1>4. RemoveAt(s, i) = a \o c
  BY DEF RemoveAt, a, c
<1>5. ASSUME NEW j \in 1 .. Len(s) - 1
      PROVE  (a \o c)[j] = IF j < i THEN s[j] ELSE s[j + 1]
  <2>1. CASE j < i
    BY <1>0, <1>1, <1>3, <2>1
  <2>2. CASE ~(j < i)
    <3>1. j - (i - 1) \in 1 .. Len(s) - i /\ i + (j - (i - 1)) = j + 1
      BY <1>0, <2>2
    <3>2. (a \o c)[j] = c[j - (i - 1)]
      BY <1>0, <1>3, <2>2
    <3>3. c[j - (i - 1)] = s[i + (j - (i - 1))]
      BY <1>2, <3>1
    <3> QED BY <2>2, <3>1, <3>2, <3>3
  <2> QED BY <2>1, <2>2
<1> QED BY <1>3, <1>4, <1>5

\* What a sequence of two parts has, each of them has.
LEMMA RangeOfConcat ==
  ASSUME NEW S, NEW s \in Seq(S), NEW t \in Seq(S)
  PROVE  ToSet(s \o t) = ToSet(s) \cup ToSet(t)
<1>0. /\ Len(s) \in Nat /\ Len(t) \in Nat /\ DOMAIN s = 1 .. Len(s) /\ DOMAIN t = 1 .. Len(t)
      /\ DOMAIN (s \o t) = 1 .. Len(s) + Len(t)
      /\ \A i \in 1 .. Len(s) + Len(t) : (s \o t)[i] = IF i <= Len(s) THEN s[i] ELSE t[i - Len(s)]
  BY LenProperties, ConcatProperties
<1>1. ASSUME NEW x \in ToSet(s \o t) PROVE x \in ToSet(s) \cup ToSet(t)
  <2>1. PICK i \in 1 .. Len(s) + Len(t) : x = (s \o t)[i]
    BY <1>0 DEF ToSet
  <2> QED BY <1>0, <2>1 DEF ToSet
<1>2. ASSUME NEW x \in ToSet(s) PROVE x \in ToSet(s \o t)
  <2>1. PICK i \in 1 .. Len(s) : x = s[i]
    BY <1>0 DEF ToSet
  <2>2. i \in 1 .. Len(s) + Len(t) /\ (s \o t)[i] = x
    BY <1>0, <2>1
  <2> QED BY <1>0, <2>2 DEF ToSet
<1>3. ASSUME NEW x \in ToSet(t) PROVE x \in ToSet(s \o t)
  <2>1. PICK i \in 1 .. Len(t) : x = t[i]
    BY <1>0 DEF ToSet
  <2>2. Len(s) + i \in 1 .. Len(s) + Len(t) /\ (s \o t)[Len(s) + i] = x
    BY <1>0, <2>1
  <2> QED BY <1>0, <2>2 DEF ToSet
<1> QED BY <1>1, <1>2, <1>3

\* A sequence of different elements has as many as it is long.
LEMMA RangeOfDifferent ==
  ASSUME NEW S, NEW s \in Seq(S), \A i, j \in DOMAIN s : s[i] = s[j] => i = j
  PROVE  IsFiniteSet(ToSet(s)) /\ Cardinality(ToSet(s)) = Len(s)
<1>1. Len(s) \in Nat /\ DOMAIN s = 1 .. Len(s) /\ s \in [1 .. Len(s) -> S]
  BY LenProperties
<1>2. s \in Bijection(1 .. Len(s), ToSet(s))
  BY <1>1 DEF Bijection, Injection, Surjection, IsInjective, ToSet
<1>3. IsFiniteSet(1 .. Len(s)) /\ Cardinality(1 .. Len(s)) = Len(s)
  BY <1>1, FS_Interval
<1> QED BY <1>2, <1>3, FS_Bijection DEF ExistsBijection

\* A recursion over the numbers up to N has a value.
StepsOver(N, X) == [1 .. N -> [X -> X]]
Unfolds(N, X, initial, step, f) ==
  f \in [0 .. N -> X] /\ f[0] = initial /\ \A n \in 1 .. N : f[n] = step[n][f[n - 1]]

LEMMA RecursionExists ==
  ASSUME NEW N \in Nat, NEW X, NEW initial \in X, NEW step \in StepsOver(N, X)
  PROVE  \E f : Unfolds(N, X, initial, step, f)
<1>0. step \in [1 .. N -> [X -> X]]
  BY DEF StepsOver
<1> DEFINE Is(f, m) == f \in [0 .. m -> X] /\ f[0] = initial /\ \A n \in 1 .. m : f[n] = step[n][f[n - 1]]
           None == {m \in 0 .. N : ~ \E f : Is(f, m)}
<1>1. ASSUME None # {} PROVE FALSE
  <2> HIDE DEF Is
  <2>1. None \in SUBSET Nat
    OBVIOUS
  <2> HIDE DEF None
  <2>2. PICK m \in None : \A l \in None : m <= l
    BY <1>1, <2>1, SmallestOf
  <2>3. m \in 0 .. N /\ ~ \E f : Is(f, m)
    BY <2>2 DEF None
  <2>4. CASE m = 0
    <3>1. Is([k \in 0 .. 0 |-> initial], 0)
      BY DEF Is
    <3> QED BY <2>3, <2>4, <3>1
  <2>5. CASE m # 0
    <3>1. m \in Nat /\ m - 1 \in Nat /\ m - 1 \in 0 .. N /\ m \in 1 .. N /\ ~(m <= m - 1)
      BY <2>3, <2>5
    <3>2. PICK f : Is(f, m - 1)
      <4>1. m - 1 \notin None
        BY <2>2, <3>1
      <4> QED BY <3>1, <4>1 DEF None
    <3> DEFINE g == [k \in 0 .. m |-> IF k = m THEN step[m][f[m - 1]] ELSE f[k]]
    <3>3. g \in [0 .. m -> X] /\ g[0] = initial
      <4>1. f \in [0 .. m - 1 -> X] /\ f[0] = initial
        BY <3>2 DEF Is
      <4>2. f[m - 1] \in X
        BY <3>1, <4>1
      <4>3. step[m][f[m - 1]] \in X
        BY <1>0, <3>1, <4>2
      <4>4. \A k \in 0 .. m : k # m => k \in 0 .. m - 1
        BY <3>1
      <4>5. 0 \in 0 .. m /\ 0 # m
        BY <2>5, <3>1
      <4> QED BY <4>1, <4>3, <4>4, <4>5
    <3>4. ASSUME NEW n \in 1 .. m PROVE g[n] = step[n][g[n - 1]]
      <4>1. g[n - 1] = f[n - 1] /\ n - 1 \in 0 .. m
        BY <3>1
      <4>2. CASE n = m
        BY <4>1, <4>2
      <4>3. CASE n # m
        <5>1. n \in 1 .. m - 1
          BY <3>1, <4>3
        <5>2. f[n] = step[n][f[n - 1]]
          BY <3>2, <5>1 DEF Is
        <5> QED BY <4>1, <4>3, <5>2
      <4> QED BY <4>2, <4>3
    <3> HIDE DEF g
    <3>5. Is(g, m)
      BY <3>3, <3>4 DEF Is
    <3> QED BY <2>3, <3>5
  <2> QED BY <2>4, <2>5
<1>2. N \notin None
  BY <1>1
<1>3. PICK f : Is(f, N)
  BY <1>2
<1> QED BY <1>3 DEF Unfolds

LEMMA UpTo ==
  ASSUME NEW N \in Nat, NEW Good, 0 \in Good, \A n \in 1 .. N : n - 1 \in Good => n \in Good
  PROVE  0 .. N \subseteq Good
<1> DEFINE Bad == (0 .. N) \ Good
<1>1. ASSUME Bad # {} PROVE FALSE
  <2>1. Bad \in SUBSET Nat
    OBVIOUS
  <2> HIDE DEF Bad
  <2>2. PICK m \in Bad : \A l \in Bad : m <= l
    BY <1>1, <2>1, SmallestOf
  <2>3. m \in 0 .. N /\ m \notin Good
    BY <2>2 DEF Bad
  <2>4. m \in 1 .. N /\ m - 1 \in 0 .. N /\ ~(m <= m - 1)
    BY <2>3
  <2>5. m - 1 \in Good
    BY <2>2, <2>4 DEF Bad
  <2> QED BY <2>3, <2>4, <2>5
<1> QED BY <1>1

-----------------------------------------------------------------------------
(* EvidenceAudit.  The file never has a second record of the key, whichever *)
(* versions wrote it: a new one takes the place of what the lookup found,   *)
(* and the lookup finds the own record or, without one, all there is.       *)

OneRecord == \A r, s \in onFile : r = s
RecordsStamped == \A r \in onFile : r.at # NoHour /\ r.version # NoVersion
AuditInv == OneRecord /\ RecordsStamped /\ AuditsHoldUp

\* What a lookup finds is in the file, and all of it if it finds anything.
LEMMA FoundIsTheFile ==
  ASSUME OneRecord, NEW program, NEW mode
  PROVE  Found(program, mode) # {} => Found(program, mode) = onFile
BY DEF OneRecord, Found, Own
\* The audit of a record that was found fits that record.
LEMMA ReplacedAuditFits ==
  ASSUME RecordsStamped, NEW program, NEW now, NEW r \in onFile,
         r.version = program.version => Freshness(now, r) = "expired"
  PROVE  LET a == ReplacedAudit(program, now, r) IN
           /\ \/ <<a.lookup, a.freshness, a.reason>> = <<"expired", "expired", "freshness_expired">>
                 /\ a.stored = a.version
              \/ <<a.lookup, a.reason>> = <<"version_mismatch", "source_version_mismatch">>
                 /\ a.freshness \in {"fresh", "expired"} /\ a.stored # a.version
           /\ a.version = program.version /\ a.stored = r.version /\ a.stored # NoVersion
           /\ a.write = "replaced" /\ a.fitness = "unfit" /\ a.original = r.at /\ r.at # NoHour
           /\ a = [version |-> a.version, stored |-> a.stored, lookup |-> a.lookup,
                   write |-> a.write, original |-> a.original, result |-> a.result,
                   freshness |-> a.freshness, fitness |-> a.fitness, reason |-> a.reason]
<1>1. Freshness(now, r) \in {"fresh", "expired"}
  BY DEF Freshness
<1> QED BY <1>1 DEF ReplacedAudit, AuditOf, RecordsStamped

\* A request that acquires, and writes what it got or not.
LEMMA ReacquireKeepsAudit ==
  ASSUME OneRecord, RecordsStamped, AuditsHoldUp,
         NEW program \in Programs, NEW now, NEW outcome \in Outcomes,
         Reacquire(program, now, outcome)
  PROVE  OneRecord' /\ RecordsStamped' /\ AuditsHoldUp'
<1> DEFINE found == Found(program, "read_write")
           r == CHOOSE x \in found : TRUE
           a == ReplacedAudit(program, now, r)
<1>0. program.version # NoVersion /\ (outcome.usable => outcome.at # NoHour)
  BY VersionAssumption DEF Outcomes
<1>1. ASSUME found # {}
      PROVE  /\ found = onFile /\ r \in onFile
             /\ r.version = program.version => Freshness(now, r) = "expired"
  <2>1. found = onFile /\ r \in found
    BY <1>1, FoundIsTheFile
  <2> QED BY <2>1 DEF Reacquire, Own
<1>2. CASE audit' = Raised /\ UNCHANGED onFile
  BY <1>2 DEF OneRecord, RecordsStamped, AuditsHoldUp
<1>3. CASE /\ audit' = NotWritten(program, now, outcome) /\ UNCHANGED onFile
           /\ outcome.usable => outcome.at # NoHour
  <2>1. CASE found # {}
    <3>1. audit' = [a EXCEPT !.write = "not_written", !.result = outcome.at,
                             !.reason = "replacement_outcome_not_reusable"]
      BY <1>3, <2>1 DEF NotWritten
    <3> HIDE DEF a, r
    <3>2. AuditAccepted(audit') /\ audit'.write = "not_written" /\ audit'.lookup # "hit"
          /\ audit'.stored = r.version /\ audit'.original = r.at
      BY <1>1, <2>1, <3>1, ReplacedAuditFits
      DEF a, AuditAccepted, KnownFacts, TimesAgree, VersionsAgree
    <3> QED BY <1>1, <1>3, <2>1, <3>2 DEF OneRecord, RecordsStamped, AuditsHoldUp
  <2>2. CASE found = {}
    <3>1. AuditAccepted(audit') /\ audit'.write = "not_written" /\ audit'.lookup = "miss"
          /\ audit'.stored = NoVersion
      BY <1>3, <2>2 DEF NotWritten, AuditOf, AuditAccepted, KnownFacts, TimesAgree, VersionsAgree
    <3> QED BY <1>3, <3>1 DEF OneRecord, RecordsStamped, AuditsHoldUp
  <2> QED BY <2>1, <2>2
<1>4. CASE /\ audit' = Written(program, now, outcome) /\ outcome.usable
           /\ onFile' = (onFile \ found)
                \cup {[version |-> program.version, contract |-> program.contract,
                       at |-> outcome.at]}
  <2> DEFINE new == [version |-> program.version, contract |-> program.contract,
                     at |-> outcome.at]
  <2>0. onFile' = {new}
    <3>1. found = onFile
      <4>1. found = {} => onFile = {}
        BY DEF Found
      <4> QED BY <1>1, <4>1
    <3> QED BY <1>4, <3>1
  <2>1. OneRecord' /\ RecordsStamped'
    BY <1>0, <1>4, <2>0 DEF OneRecord, RecordsStamped
  <2>2. /\ AuditAccepted(audit') /\ audit'.version = program.version
        /\ audit'.result = outcome.at /\ audit'.write \in {"written", "replaced"}
        /\ audit'.lookup # "hit"
    <3>1. CASE found # {}
      <4>1. audit' = [a EXCEPT !.result = outcome.at]
        BY <1>4, <3>1 DEF Written
      <4> HIDE DEF a, r
      <4> QED BY <1>0, <1>1, <1>4, <3>1, <4>1, ReplacedAuditFits
              DEF a, AuditAccepted, KnownFacts, TimesAgree, VersionsAgree
    <3>2. CASE found = {}
      BY <1>4, <3>2 DEF Written, AuditOf, AuditAccepted, KnownFacts, TimesAgree, VersionsAgree
    <3> QED BY <3>1, <3>2
  <2> QED BY <2>0, <2>1, <2>2 DEF AuditsHoldUp
<1> QED BY <1>0, <1>2, <1>3, <1>4 DEF Reacquire
\* One request: each way it can be answered.
LEMMA RequestKeepsAudit ==
  ASSUME AuditInv, NEW program \in Programs, NEW now \in 0 .. hour, NEW outcome \in Outcomes,
         ServeRequest(program, now, outcome)
  PROVE  AuditInv'
<1> USE VersionAssumption DEF AuditInv
<1>0. program.version # NoVersion /\ (outcome.usable => outcome.at # NoHour)
  BY DEF Outcomes
<1>1. ASSUME NEW mode \in {"read_write", "delete"}, Raise(program, mode, now) PROVE AuditInv'
  BY <1>1 DEF Raise, OneRecord, RecordsStamped, AuditsHoldUp
<1>2. CASE NotPermitted(program, outcome)
  <2>1. AuditAccepted(audit')
    BY <1>2 DEF NotPermitted, AuditOf, AuditAccepted, KnownFacts, TimesAgree, VersionsAgree
  <2> QED BY <1>2, <2>1 DEF NotPermitted, AuditOf, OneRecord, RecordsStamped, AuditsHoldUp
<1>3. CASE DeleteAbsent(program, outcome)
  <2>1. AuditAccepted(audit')
    BY <1>3 DEF DeleteAbsent, AuditOf, AuditAccepted, KnownFacts, TimesAgree, VersionsAgree
  <2> QED BY <1>3, <2>1 DEF DeleteAbsent, AuditOf, OneRecord, RecordsStamped, AuditsHoldUp
<1>4. CASE DeleteFound(program, now, outcome)
  <2>1. PICK r \in Own(program) :
          /\ onFile' = onFile \ {r}
          /\ audit' = AuditOf(program, program.version, "deleted", "deleted", r.at, outcome.at,
                        Freshness(now, r), IF Freshness(now, r) = "fresh" THEN "fit" ELSE "unfit",
                        "explicit_delete")
    BY <1>4 DEF DeleteFound
  <2>2. onFile' = {} /\ r.at # NoHour
    BY <2>1 DEF OneRecord, RecordsStamped, Own
  <2>3. Freshness(now, r) \in {"fresh", "expired"}
    BY DEF Freshness
  <2>4. AuditAccepted(audit')
    BY <2>1, <2>2, <2>3 DEF AuditOf, AuditAccepted, KnownFacts, TimesAgree, VersionsAgree
  <2> QED BY <2>1, <2>2, <2>4 DEF AuditOf, OneRecord, RecordsStamped, AuditsHoldUp
<1>5. CASE Reuse(program, now)
  <2>1. PICK r \in Own(program) :
          audit' = AuditOf(program, program.version, "hit", "not_written", r.at, r.at,
                           "fresh", "fit", NoReason)
    BY <1>5 DEF Reuse
  <2>2. r \in onFile /\ r.version = program.version /\ r.at # NoHour /\ UNCHANGED onFile
    BY <1>5, <2>1 DEF RecordsStamped, Own, Reuse
  <2>3. AuditAccepted(audit')
    BY <2>1, <2>2 DEF AuditOf, AuditAccepted, KnownFacts, TimesAgree, VersionsAgree
  <2> QED BY <2>1, <2>2, <2>3 DEF AuditOf, OneRecord, RecordsStamped, AuditsHoldUp
<1>6. CASE Reacquire(program, now, outcome)
  BY <1>0, <1>6, ReacquireKeepsAudit
<1> QED
  BY <1>1, <1>2, <1>3, <1>4, <1>5, <1>6 DEF ServeRequest

\* Whatever requests of whatever installed versions and contracts follow one another, each
\* audit passes the validation and says of the file what is so.
THEOREM AuditsAreTrue == AuditSpec => []AuditsHoldUp
<1>1. AuditInit => AuditInv
  BY DEF AuditInit, AuditInv, OneRecord, RecordsStamped, AuditsHoldUp
<1>2. AuditInv /\ [AuditNext]_auditVars => AuditInv'
  <2> SUFFICES ASSUME AuditInv, [AuditNext]_auditVars PROVE AuditInv'
    OBVIOUS
  <2>1. CASE Pass \/ UNCHANGED auditVars
    BY <2>1 DEF Pass, auditVars, AuditInv, OneRecord, RecordsStamped, AuditsHoldUp
  <2>2. ASSUME NEW program \in Programs, NEW now \in 0 .. hour, NEW outcome \in Outcomes,
               ServeRequest(program, now, outcome)
        PROVE  AuditInv'
    BY <2>2, RequestKeepsAudit
  <2> QED BY <2>1, <2>2 DEF AuditNext
<1> QED BY <1>1, <1>2, PTL DEF AuditSpec, AuditInv

-----------------------------------------------------------------------------
(* MarketSeries.  The judgement is made once, over rows that do not change   *)
(* any more; what it needs is how a window of the last sessions looks when   *)
(* none of them is suspended.                                                *)

Sessions == record.over \in Nat /\ record.overThen \in Nat /\ record.wanted \in Nat
InTurn ==
  /\ secondary # NotStored => primary # NotStored
  /\ series # NoSeries => secondary # NotStored
CheckedSeries ==
  (series # NoSeries /\ series.status = "limited") =>
    /\ SuspendedInWindow = {} /\ ~(Cardinality(Window) < record.wanted) /\ SeriesConflicts = {}
    /\ series.bars = [s \in Window |-> Eligible(primary)[s].bar]
SeriesInv == Sessions /\ InTurn /\ CheckedSeries

\* Of the sessions 1 to n, those with at most k from them on are the last k.
LEMMA LastOfInterval ==
  ASSUME NEW n \in Nat, NEW k \in Nat
  PROVE  LastOf(k, 1 .. n) = {s \in 1 .. n : s > n - k}
<1> SUFFICES ASSUME NEW s \in 1 .. n
             PROVE  Cardinality({t \in 1 .. n : t >= s}) <= k <=> s > n - k
  BY DEF LastOf
<1>1. {t \in 1 .. n : t >= s} = s .. n
  OBVIOUS
<1>2. Cardinality(s .. n) = n - s + 1
  BY FS_Interval
<1>3. Cardinality({t \in 1 .. n : t >= s}) = n - s + 1
  BY <1>1, <1>2, Zenon
<1> QED BY <1>3

\* If none of the last k of n sessions is missing, and k are found, the last k that are
\* found are the last k sessions.
LEMMA LastOfUnbroken ==
  ASSUME NEW n \in Nat, NEW k \in Nat, NEW found \in SUBSET (1 .. n),
         \A s \in 1 .. n : s > n - k => s \in found,
         ~(Cardinality(LastOf(k, found)) < k)
  PROVE  LastOf(k, found) = n - k + 1 .. n
<1> DEFINE from(s) == {t \in found : t >= s}
<1>0. IsFiniteSet(1 .. n) /\ Cardinality(1 .. n) = n
  BY FS_Interval
<1>1. IsFiniteSet(found) /\ \A S \in SUBSET found :
        IsFiniteSet(S) /\ Cardinality(S) \in Nat
  BY <1>0, FS_Subset, FS_CardinalityType
<1>2. k <= n
  <2>1. LastOf(k, found) \subseteq 1 .. n
    BY DEF LastOf
  <2>2. Cardinality(LastOf(k, found)) <= n
    BY <1>0, <2>1, FS_Subset
  <2>3. Cardinality(LastOf(k, found)) \in Nat
    BY <1>1 DEF LastOf
  <2> QED BY <2>2, <2>3
<1>3. ASSUME NEW s \in found, s > n - k PROVE s \in LastOf(k, found)
  <2>0. s \in 1 .. n /\ from(s) \subseteq s .. n
    <3>1. \A t \in found : t \in 1 .. n
      OBVIOUS
    <3>2. ASSUME NEW t \in from(s) PROVE t \in s .. n
      <4>1. t \in 1 .. n /\ t >= s /\ s \in 1 .. n
        BY <3>1
      <4> QED BY <4>1
    <3> QED BY <3>1, <3>2
  <2>1. IsFiniteSet(s .. n) /\ Cardinality(s .. n) = n - s + 1
    BY <2>0, FS_Interval
  <2>2. Cardinality(from(s)) <= n - s + 1
    BY <2>0, <2>1, FS_Subset, Zenon
  <2>3. Cardinality(from(s)) \in Nat
    BY <1>1
  <2>4. Cardinality(from(s)) <= k
    BY <1>3, <2>0, <2>2, <2>3
  <2> QED BY <2>4 DEF LastOf
<1>4. ASSUME NEW s \in found, s <= n - k PROVE s \notin LastOf(k, found)
  <2> DEFINE last == n - k + 1 .. n
  <2>1. IsFiniteSet(last) /\ Cardinality(last) = k /\ s \notin last
    BY <1>2, <1>4, FS_Interval
  <2>2. last \cup {s} \subseteq from(s)
    BY <1>2, <1>4
  <2>3. IsFiniteSet(from(s)) /\ Cardinality(from(s)) \in Nat
    BY <1>1
  <2> HIDE DEF last, from
  <2>4. Cardinality(last \cup {s}) = k + 1
    BY <2>1, FS_AddElement
  <2>5. Cardinality(last \cup {s}) <= Cardinality(from(s))
    BY <2>2, <2>3, FS_Subset
  <2>6. ~(Cardinality(from(s)) <= k)
    BY <2>3, <2>4, <2>5
  <2> QED BY <2>6 DEF LastOf, from
<1>5. LastOf(k, found) \subseteq found
  BY DEF LastOf
<1>6. n - k + 1 .. n \subseteq found
  BY <1>2
<1>7. \A s \in found : s \in LastOf(k, found) <=> s > n - k
  BY <1>3, <1>4
<1> HIDE DEF from
<1>8. LastOf(k, found) = {s \in found : s > n - k}
  BY <1>5, <1>7
<1>9. ASSUME NEW s PROVE s \in found /\ s > n - k <=> s \in n - k + 1 .. n
  <2>1. s \in found => s \in 1 .. n
    OBVIOUS
  <2> QED BY <1>2, <1>6, <2>1
<1> QED BY <1>8, <1>9

\* The judgement, seen as a fact about the rows it was made of.
LEMMA CheckedSeriesIsTheRecord ==
  ASSUME SeriesInv PROVE SeriesIsTheRecord
<1> SUFFICES ASSUME series # NoSeries, series.status = "limited"
             PROVE  /\ SaysTheRecord(primary, OverWhenAsked) =>
                         DOMAIN series.bars = (OverWhenAsked - record.wanted + 1) .. OverWhenAsked
                    /\ (SaysTheRecord(primary, OverWhenAsked) \/ SaysNothingWrong(secondary)) =>
                         \A s \in DOMAIN series.bars :
                           series.bars[s] = record.bars[s] /\ record.bars[s] # 0
  BY DEF SeriesIsTheRecord
<1> DEFINE n == OverWhenAsked
           k == record.wanted
<1>0. /\ SuspendedInWindow = {} /\ ~(Cardinality(Window) < k) /\ SeriesConflicts = {}
      /\ series.bars = [s \in Window |-> Eligible(primary)[s].bar]
  BY DEF SeriesInv, CheckedSeries
<1>1. n \in Nat /\ k \in Nat
  BY DEF SeriesInv, Sessions, OverWhenAsked
<1>2. DOMAIN series.bars = Window /\ Window \subseteq TradedIn(primary)
  BY <1>0 DEF Window, LastOf
<1>3. ASSUME SaysTheRecord(primary, n) PROVE Window = n - k + 1 .. n
  <2> DEFINE found == TradedIn(primary)
  <2>1. DOMAIN Eligible(primary) = 1 .. n
    BY <1>3 DEF SaysTheRecord
  <2>2. found \in SUBSET (1 .. n)
    BY <2>1 DEF TradedIn
  <2>3. \A s \in 1 .. n : s > n - k => s \in found
    BY <1>0, <1>1, <2>1, LastOfInterval DEF SuspendedInWindow, TradedIn
  <2>4. ~(Cardinality(LastOf(k, found)) < k)
    BY <1>0 DEF Window
  <2> HIDE DEF found, n, k
  <2>5. LastOf(k, found) = n - k + 1 .. n
    BY <1>1, <2>2, <2>3, <2>4, LastOfUnbroken
  <2> QED BY <2>5 DEF Window, found, k
<1>4. ASSUME SaysTheRecord(primary, n) \/ SaysNothingWrong(secondary), NEW s \in Window
      PROVE  series.bars[s] = record.bars[s] /\ record.bars[s] # 0
  <2>1. /\ s \in TradedIn(primary) /\ series.bars[s] = Eligible(primary)[s].bar
        /\ Eligible(primary)[s].bar # 0
    BY <1>0, <1>2 DEF TradedIn
  <2>2. s \in TradedIn(secondary) /\ Eligible(secondary)[s].bar = Eligible(primary)[s].bar
    BY <1>0 DEF SeriesConflicts
  <2>3. CASE SaysTheRecord(primary, n)
    BY <2>1, <2>3 DEF SaysTheRecord, TradedIn
  <2>4. CASE SaysNothingWrong(secondary)
    BY <2>1, <2>2, <2>4 DEF SaysNothingWrong
  <2> QED BY <1>4, <2>3, <2>4
<1> QED BY <1>2, <1>3, <1>4

\* A series that is given is the record: if the first source says what is so, its sessions
\* are the last ones in a row; if either does, so is each bar.
THEOREM SeriesAreTrue == SeriesSpec => []SeriesIsTheRecord
<1>1. SeriesInit => SeriesInv
  BY RecordsAssumption DEF SeriesInit, SeriesInv, Sessions, InTurn, CheckedSeries
<1>2. SeriesInv /\ [SeriesNext]_seriesVars => SeriesInv'
  <2> SUFFICES ASSUME SeriesInv, [SeriesNext]_seriesVars PROVE SeriesInv'
    OBVIOUS
  <2> USE DEF SeriesInv, Sessions, InTurn
  <2>1. CASE AskFirst
    BY <2>1 DEF AskFirst, CheckedSeries
  <2>2. CASE AskSecond
    BY <2>2 DEF AskSecond, CheckedSeries
  <2>3. CASE Judge
    <3>1. Sessions' /\ InTurn'
      BY <2>3 DEF Judge
    <3>2. CheckedSeries'
      <4> SUFFICES ASSUME series'.status = "limited"
                   PROVE  /\ SuspendedInWindow' = {} /\ (~(Cardinality(Window) < record.wanted))'
                          /\ SeriesConflicts' = {}
                          /\ (series.bars = [s \in Window |-> Eligible(primary)[s].bar])'
        BY DEF CheckedSeries
      <4>1. UNCHANGED <<SuspendedInWindow, Window, SeriesConflicts>>
            /\ UNCHANGED <<record, primary>>
        BY <2>3 DEF Judge, SuspendedInWindow, Window, SeriesConflicts, TradedIn, Eligible, LastOf
      <4>2. /\ SuspendedInWindow = {} /\ ~(Cardinality(Window) < record.wanted)
            /\ SeriesConflicts = {}
            /\ series' = [status |-> "limited", why |-> "cross_checked",
                          bars |-> [s \in Window |-> Eligible(primary)[s].bar]]
        BY <2>3 DEF Judge, Refusal
      <4>4. series'.bars = [s \in Window |-> Eligible(primary)[s].bar]
        BY <4>2
      <4>5. Eligible(primary)' = Eligible(primary)
        BY <4>1 DEF Eligible
      <4> QED BY <4>1, <4>2, <4>4, <4>5
    <3> QED BY <3>1, <3>2
  <2>4. CASE UNCHANGED seriesVars
    BY <2>4 DEF seriesVars, CheckedSeries, SuspendedInWindow, Window, SeriesConflicts, TradedIn,
                Eligible, LastOf
  <2> QED BY <2>1, <2>2, <2>3, <2>4 DEF SeriesNext
<1>3. SeriesInv => SeriesIsTheRecord
  BY CheckedSeriesIsTheRecord
<1> QED BY <1>1, <1>2, <1>3, PTL DEF SeriesSpec

-----------------------------------------------------------------------------
(* IntradaySnapshot.  An observation says when it was seen and when it was    *)
(* retrieved: the baseline when the task began, the cross-check at a moment   *)
(* of the task.  The judgement is made over two of them that rest.            *)

Clocks ==
  /\ clock \in Nat
  /\ begun = NotAsked \/ (begun \in Nat /\ begun <= clock)
AskedInTurn ==
  /\ begun = NotAsked => baseline = NotAsked /\ snapshot = NoSnapshot
  /\ baseline = NotAsked => crossCheck = NotAsked
IsObservation(o) == o.seen \in Nat /\ o.session = SessionAt(o.seen)
ObservedAt ==
  /\ baseline \notin {NotAsked, SourceFailed} =>
       IsObservation(baseline) /\ baseline.at = begun /\ begun # NotAsked
  /\ crossCheck \notin {NotAsked, SourceFailed} =>
       IsObservation(crossCheck) /\ crossCheck.at \in begun .. clock /\ begun # NotAsked
SettledSnapshot ==
  [status |-> "limited", session |-> SessionAt(begun), suspended |-> Suspended,
   price |-> baseline.price, comparable |-> PreviousComparable, previous |-> baseline.previous]
JudgedFairly ==
  (snapshot # NoSnapshot /\ snapshot.status = "limited") =>
    /\ crossCheck # NotAsked /\ SourceFailed \notin Both
    /\ Compatible /\ Fresh /\ SuspensionSettled
    /\ snapshot = SettledSnapshot
SnapshotInv == Clocks /\ AskedInTurn /\ ObservedAt /\ JudgedFairly

\* Either source's answer is a failure or an observation, and says when it was retrieved.
LEMMA TongdaxinObserves ==
  ASSUME NEW o \in Observed(FromTongdaxin), clock \in Nat
  PROVE  o = SourceFailed \/ (IsObservation(o) /\ o.at = begun)
<1> SUFFICES ASSUME NEW t \in 0 .. (clock + 1), NEW p \in 1 .. 2, NEW shape \in QuoteShapes,
                    o = FromTongdaxin(Quoted(t, p, shape)), o # SourceFailed
             PROVE  IsObservation(o) /\ o.at = begun
  BY DEF Observed
<1> DEFINE q == Quoted(t, p, shape)
<1>1. q.seen = t
  BY ShapesAssumption DEF Quoted
<1> HIDE DEF q
<1>2. \E status : o = Observation(q, begun, status)
  BY DEF FromTongdaxin, q
<1> QED BY <1>1, <1>2 DEF Observation, IsObservation

LEMMA TencentObserves ==
  ASSUME NEW o \in Observed(FromTencent), clock \in Nat
  PROVE  o = SourceFailed \/ (IsObservation(o) /\ o.at = clock)
<1> SUFFICES ASSUME NEW t \in 0 .. (clock + 1), NEW p \in 1 .. 2, NEW shape \in QuoteShapes,
                    o = FromTencent(Quoted(t, p, shape)), o # SourceFailed
             PROVE  IsObservation(o) /\ o.at = clock
  BY DEF Observed
<1> DEFINE q == [Quoted(t, p, shape) EXCEPT !.cache = "source_timestamp"]
<1>1. q.seen = t
  BY ShapesAssumption DEF Quoted
<1> HIDE DEF q
<1>2. \E status : o = Observation(q, clock, status)
  BY DEF FromTencent, q
<1> QED BY <1>1, <1>2 DEF Observation, IsObservation

LEMMA SnapshotStep ==
  ASSUME SnapshotInv, [SnapshotNext]_snapshotVars PROVE SnapshotInv'
<1> USE DEF SnapshotInv
<1>1. ASSUME NEW current \in BOOLEAN, Begin(current) PROVE SnapshotInv'
  <2>1. Clocks' /\ AskedInTurn' /\ ObservedAt'
    BY <1>1, TicksAssumption DEF Begin, Clocks, AskedInTurn, ObservedAt, IsObservation
  <2>2. snapshot' = NoSnapshot \/ snapshot'.status = "blocked"
    BY <1>1 DEF Begin, SnapshotRefused
  <2> QED BY <2>1, <2>2 DEF JudgedFairly
<1>2. CASE TimePasses
  BY <1>2 DEF TimePasses, Asking, Clocks, AskedInTurn, ObservedAt, JudgedFairly, IsObservation
<1>3. CASE CollectBaseline
  <2>1. baseline' = SourceFailed \/ (IsObservation(baseline') /\ baseline'.at = begun)
    BY <1>3, TongdaxinObserves DEF CollectBaseline, Clocks
  <2> QED
    BY <1>3, <2>1 DEF CollectBaseline, Asking, Clocks, AskedInTurn, ObservedAt, JudgedFairly,
                      IsObservation
<1>4. CASE CollectCrossCheck
  <2>1. crossCheck' = SourceFailed \/ (IsObservation(crossCheck') /\ crossCheck'.at = clock)
    BY <1>4, TencentObserves DEF CollectCrossCheck, Clocks
  <2> QED
    BY <1>4, <2>1 DEF CollectCrossCheck, Asking, Clocks, AskedInTurn, ObservedAt, JudgedFairly,
                      IsObservation
<1>5. CASE SettleSnapshot
  <2>1. Clocks' /\ AskedInTurn' /\ ObservedAt'
    BY <1>5 DEF SettleSnapshot, Asking, Clocks, AskedInTurn, ObservedAt, IsObservation
  <2>2. /\ crossCheck # NotAsked
        /\ snapshot'.status = "limited" =>
             /\ SourceFailed \notin Both /\ Compatible /\ Fresh /\ SuspensionSettled
             /\ snapshot' = SettledSnapshot
    BY <1>5 DEF SettleSnapshot, SnapshotRefused, SettledSnapshot
  <2>3. /\ Compatible' = Compatible /\ Fresh' = Fresh /\ SuspensionSettled' = SuspensionSettled
        /\ SettledSnapshot' = SettledSnapshot /\ Both' = Both /\ crossCheck' = crossCheck
    BY <1>5 DEF SettleSnapshot, Compatible, Fresh, SuspensionSettled, SettledSnapshot, Both,
                SessionsFit, StatusesFit, Statuses, OutOfTime, Suspended, PreviousComparable
  <2> QED BY <2>1, <2>2, <2>3 DEF JudgedFairly
<1>6. CASE UNCHANGED snapshotVars
  BY <1>6 DEF snapshotVars, Clocks, AskedInTurn, ObservedAt, JudgedFairly, IsObservation,
              Compatible, Fresh, SuspensionSettled, SettledSnapshot, Both,
              SessionsFit, StatusesFit, Statuses, OutOfTime, Suspended, PreviousComparable
<1> QED BY <1>1, <1>2, <1>3, <1>4, <1>5, <1>6 DEF SnapshotNext

\* What the judgement compares is enough for the snapshot to be what one right source saw.
LEMMA FairJudgementIsTrue ==
  ASSUME SnapshotInv PROVE SnapshotWasTrue
<1> SUFFICES ASSUME snapshot # NoSnapshot, snapshot.status = "limited",
                    NEW o \in Both, SaysWhatIsSo(o)
             PROVE  /\ snapshot.suspended = tape.halted
                    /\ snapshot.comparable /\ (\E w \in Both : SaysWhatIsSo(w) /\ w.basis = "actual_close") =>
                         snapshot.previous = tape.previous
                    /\ IF snapshot.session = "midday_break"
                       THEN snapshot.price = tape.price[LastMorningTick]
                       ELSE \E t \in (begun - FreshFor) .. clock :
                              SessionAt(t) = snapshot.session /\ snapshot.price = tape.price[t]
  BY DEF SnapshotWasTrue
<1>1. /\ crossCheck # NotAsked /\ SourceFailed \notin Both /\ Compatible /\ Fresh
      /\ SuspensionSettled /\ snapshot = SettledSnapshot
  BY DEF SnapshotInv, JudgedFairly
<1>2. /\ snapshot.session = SessionAt(begun) /\ snapshot.suspended = Suspended
      /\ snapshot.price = baseline.price /\ snapshot.comparable = PreviousComparable
      /\ snapshot.previous = baseline.previous
  BY <1>1 DEF SettledSnapshot
<1>3. /\ begun \in Nat /\ clock \in Nat /\ begun <= clock
      /\ \A w \in Both : IsObservation(w) /\ w.at \in begun .. clock
  BY <1>1, TicksAssumption DEF SnapshotInv, Clocks, AskedInTurn, ObservedAt, Both
<1>4. o.price = baseline.price
  BY <1>1 DEF Compatible, Both
<1>5. snapshot.suspended = tape.halted
  <2>1. CASE Statuses = {"suspended"}
    <3>1. \A w \in Both : w.status = "suspended"
      BY <2>1 DEF Statuses
    <3>2. Suspended
      BY <1>1, <2>1, <3>1 DEF SuspensionSettled, Suspended, NoTrade
    <3>3. tape.halted = TRUE
      BY <3>1 DEF SaysWhatIsSo, NoTrade
    <3> QED BY <1>2, <3>2, <3>3 DEF Suspended
  <2>2. CASE Statuses \cap NoTrade = {}
    <3>1. o.status \notin NoTrade
      BY <2>2 DEF Statuses
    <3>2. ~Suspended /\ Suspended \in BOOLEAN
      <4>1. o.status # "suspended"
        BY <3>1 DEF NoTrade
      <4> QED BY <4>1, Zenon DEF Suspended
    <3>3. tape.halted = (o.status \in NoTrade)
      BY DEF SaysWhatIsSo
    <3>4. (o.status \in NoTrade) = FALSE /\ Suspended = FALSE
      BY <3>1, <3>2
    <3> QED BY <1>2, <3>3, <3>4
  <2> QED BY <1>1, <2>1, <2>2 DEF Compatible, StatusesFit
<1>6. ASSUME snapshot.comparable, NEW w \in Both, SaysWhatIsSo(w), w.basis = "actual_close"
      PROVE  snapshot.previous = tape.previous
  BY <1>2, <1>6 DEF PreviousComparable, Both, SaysWhatIsSo
<1>7. CASE SessionAt(begun) = "midday_break"
  <2>1. o.seen \in MorningTicks /\ o.boundary = "morning_last_compatible"
    BY <1>1, <1>7 DEF Compatible, SessionsFit
  <2>2. \A t \in o.seen .. LastMorningTick : tape.price[t] = o.price
    BY <2>1 DEF SaysWhatIsSo
  <2>3. LastMorningTick \in MorningTicks /\ \A t \in MorningTicks : t <= LastMorningTick
    BY TicksAssumption DEF LastMorningTick
  <2>4. LastMorningTick \in o.seen .. LastMorningTick
    BY <2>1, <2>3, TicksAssumption
  <2> QED BY <1>2, <1>4, <1>5, <1>6, <1>7, <2>2, <2>4
<1>8. CASE SessionAt(begun) # "midday_break"
  <2>1. o.session = SessionAt(begun) /\ ~OutOfTime(o)
    BY <1>1, <1>8 DEF Compatible, SessionsFit, Fresh
  <2>2. o.seen \in (begun - FreshFor) .. clock
    BY <1>3, <2>1, TicksAssumption DEF OutOfTime, IsObservation
  <2>3. SessionAt(o.seen) = snapshot.session /\ snapshot.price = tape.price[o.seen]
    BY <1>2, <1>3, <1>4, <2>1 DEF IsObservation, SaysWhatIsSo
  <2> QED BY <1>2, <1>5, <1>6, <1>8, <2>2, <2>3
<1> QED BY <1>7, <1>8

\* A snapshot was true at a moment that is fresh enough, whatever phase of the day it is
\* taken in and however long the sources took, if one of its two sources was right.
THEOREM SnapshotsAreTrue == SnapshotSpec => []SnapshotWasTrue
<1>1. SnapshotInit => SnapshotInv
  BY TicksAssumption
  DEF SnapshotInit, SnapshotInv, Clocks, AskedInTurn, ObservedAt, JudgedFairly, LastTick
<1>2. SnapshotInv /\ [SnapshotNext]_snapshotVars => SnapshotInv'
  BY SnapshotStep
<1>3. SnapshotInv => SnapshotWasTrue
  BY FairJudgementIsTrue
<1> QED BY <1>1, <1>2, <1>3, PTL DEF SnapshotSpec

-----------------------------------------------------------------------------
(* SessionContext.  A kept context is what its own calendars, checked against *)
(* each other, say of its own moment; a restored one is the same again, so    *)
(* nothing depends on what the caller or a later release changed.             *)

\* What was retrieved of the documents that a release registers.
OfRelease(calendars) ==
  \E documents \in Registrations, retrieved \in Int :
    calendars = [e \in Exchanges |-> Calendar(documents[e], retrieved)]
ProvedContext(context) ==
  /\ OfRelease(context.calendars)
  /\ context.requested \in Nat /\ context.now \in Nat /\ context.cutoff \in Nat
  /\ CalendarsProved(context.calendars, context.cutoff, context.checked)
  /\ context.screen # -1
  /\ context = Context(context.requested, context.now, context.calendars, context.checked)
Calendared == moment \in Nat /\ year \in Years /\ registered \in Registrations
KeptIsProved == kept # NoContext => ProvedContext(kept)
ToldIsProved ==
  (told # NoSession /\ told.context # NoContext) =>
    /\ ProvedContext(told.context)
    /\ \E checked \in Int :
         told.session = SessionOf(told.context.calendars, told.context.now, told.real, checked)
    /\ RegisteredNow(told.context.calendars) \/ kept # NoContext
ContextInv == Calendared /\ KeptIsProved /\ ToldIsProved

\* The moments of a day.
LEMMA DayOfMoment ==
  ASSUME NEW m \in Int
  PROVE  /\ DayOf(m) \in Int
         /\ \A d \in Int, slot \in Nat : At(d, slot) <= m => d <= DayOf(m)
         /\ \A d \in Int : At(d + 1, 0) <= m => d < DayOf(m)
         /\ DayOf(m) >= 0 <=> m >= 0
         /\ m % SlotsADay \in 0 .. 4
BY DEF DayOf, At, SlotsADay

\* The latest of some days up to a bound is one of them, unless there is none.
LEMMA LatestIsTheLast ==
  ASSUME NEW n \in Int, NEW days \in SUBSET {d \in Nat : d <= n}
  PROVE  /\ LatestOf(days) \in days \cup {-1}
         /\ \A d \in days : d <= LatestOf(days)
<1> DEFINE all == {-1} \cup days
           rest == {k \in Nat : k <= n + 1 /\ n - k \in all}
<1>1. CASE days = {}
  <2>1. \E x \in all : \A y \in all : x >= y
    BY <1>1
  <2> QED BY <1>1, <2>1 DEF LatestOf, Max
<1>2. CASE days # {}
  <2>0. n \in Nat
    <3>1. PICK d \in days : d \in Nat /\ d <= n
      BY <1>2
    <3> QED BY <3>1
  <2>1. rest # {} /\ rest \subseteq Nat
    <3>1. n + 1 \in rest
      BY <2>0
    <3> QED BY <3>1
  <2>2. \E k \in rest : \A l \in rest : ~(<<l, k>> \in OpToRel(<, Nat))
    <3> HIDE DEF rest
    <3> QED BY <2>1, NatLessThanWellFounded, WFMin
  <2>3. PICK k \in rest : \A l \in rest : ~(l < k)
    BY <2>1, <2>2 DEF OpToRel
  <2>4. n - k \in all /\ \A y \in all : n - k >= y
    <3>1. ASSUME NEW y \in all PROVE n - k >= y
      <4>1. y \in Int /\ y <= n /\ y >= -1
        BY <2>0
      <4>2. n - y \in rest
        BY <2>0, <4>1
      <4> QED BY <2>0, <2>3, <4>1, <4>2
    <3> QED BY <3>1
  <2>5. \E x \in all : \A y \in all : x >= y
    BY <2>4
  <2> QED BY <2>5 DEF LatestOf, Max
<1> QED BY <1>1, <1>2

\* Two sets of days with a common latest one.
LEMMA LatestIsUnique ==
  ASSUME NEW n \in Int, NEW days \in SUBSET {d \in Nat : d <= n},
         NEW d \in days, \A x \in days : x <= d
  PROVE  LatestOf(days) = d
<1>1. d \in Nat
  OBVIOUS
<1>2. LatestOf(days) \in days \cup {-1} /\ d <= LatestOf(days)
  BY LatestIsTheLast
<1>3. LatestOf(days) \in days
  BY <1>1, <1>2
<1>4. LatestOf(days) \in Nat /\ LatestOf(days) <= d
  BY <1>3
<1> QED BY <1>1, <1>2, <1>4

\* What a calendar of a release says.
LEMMA CalendarsOfRelease ==
  ASSUME NEW calendars, OfRelease(calendars), NEW e \in Exchanges
  PROVE  /\ \E from, to \in Nat : DOMAIN calendars[e].days = from .. to
         /\ \A d \in DOMAIN calendars[e].days :
              calendars[e].days[d] \in {"holiday", "weekend", "trading"}
         /\ calendars[e].published \in Int /\ calendars[e].completes \in Nat
         /\ calendars[e].available = At(calendars[e].published + 1, 0)
<1>1. PICK documents \in Registrations, retrieved \in Int :
        calendars = [f \in Exchanges |-> Calendar(documents[f], retrieved)]
  BY DEF OfRelease
<1>2. calendars[e] = Calendar(documents[e], retrieved)
  BY <1>1
<1> QED BY <1>2, CalendarAssumption DEF Calendar, Declared

\* One right calendar among calendars that agree is enough, and no day between those the
\* calendars know is passed over.
LEMMA ScreenIsTheLastOver ==
  ASSUME NEW context, ProvedContext(context), year \in Years,
         NEW right \in Exchanges, RightUntil(context.calendars[right], DayOf(context.cutoff))
  PROVE  context.screen = LatestOf({d \in year.open : At(d, year.completes) <= context.cutoff})
<1> DEFINE calendars == context.calendars
           until == context.cutoff
           n == DayOf(until)
           over == {d \in year.open : At(d, year.completes) <= until}
           agreed == {d \in 0 .. n : \A e \in Exchanges :
                        /\ Covers(calendars[e], d) /\ calendars[e].days[d] = "trading"
                        /\ At(d, calendars[e].completes) <= until}
<1>0. until \in Nat /\ n \in Int /\ year.open \subseteq Nat /\ year.completes \in Nat
  BY DayOfMoment, CalendarAssumption DEF ProvedContext
<1>1. context.screen = LatestOf(agreed) /\ LatestOf(agreed) # -1
  <2>1. context.screen = LatestCompleted(calendars, until, ByDay(calendars))
    <3>1. Context(context.requested, context.now, calendars, context.checked).screen
            = LatestCompleted(calendars, CutoffOf(context.requested, context.now), ByDay(calendars))
      BY DEF Context
    <3>2. Context(context.requested, context.now, calendars, context.checked).cutoff
            = CutoffOf(context.requested, context.now)
      BY DEF Context
    <3>3. context = Context(context.requested, context.now, calendars, context.checked)
      BY DEF ProvedContext
    <3> QED BY <3>1, <3>2, <3>3
  <2>2. LatestCompleted(calendars, until, ByDay(calendars)) = LatestOf(agreed)
    BY DEF LatestCompleted, ByDay
  <2> QED BY <2>1, <2>2 DEF ProvedContext
<1>2. /\ \A e \in Exchanges : Covers(calendars[e], n)
      /\ \A e \in Exchanges : calendars[e].completes = year.completes
      /\ \A d \in 0 .. n : (\A e \in Exchanges : Covers(calendars[e], d)) =>
           \A e \in Exchanges : calendars[e].days[d] = calendars[right].days[d]
      /\ \A d \in DOMAIN calendars[right].days : d <= n =>
           ((calendars[right].days[d] = "trading") = (d \in year.open))
  BY DEF ProvedContext, CalendarsProved, AgreeUntil, RightUntil
<1>3. over \in SUBSET {d \in Nat : d <= n} /\ agreed \in SUBSET {d \in Nat : d <= n}
  <2>1. ASSUME NEW d \in over PROVE d \in Nat /\ d <= n
    <3>1. d \in Nat /\ At(d, year.completes) <= until
      BY <1>0
    <3> QED BY <1>0, <3>1, DayOfMoment
  <2>2. agreed \in SUBSET {d \in Nat : d <= n}
    BY <1>0
  <2> QED BY <2>1, <2>2
<1> DEFINE last == LatestOf(agreed)
<1>4. last \in agreed /\ \A d \in agreed : d <= last
  BY <1>0, <1>1, <1>3, LatestIsTheLast, ZenonT(30)
<1>5. ASSUME NEW d \in 0 .. n, \A e \in Exchanges : Covers(calendars[e], d)
      PROVE  d \in over <=> d \in agreed
  <2>1. (calendars[right].days[d] = "trading") = (d \in year.open)
    BY <1>2, <1>5 DEF Covers
  <2>2. \A e \in Exchanges : calendars[e].days[d] = calendars[right].days[d]
    BY <1>2, <1>5
  <2> QED BY <1>2, <1>5, <2>1, <2>2
<1>6. last \in over
  <2>1. last \in 0 .. n /\ \A e \in Exchanges : Covers(calendars[e], last)
    BY <1>4
  <2> HIDE DEF last
  <2> QED BY <1>4, <1>5, <2>1
<1>7. ASSUME NEW d \in over, d > last PROVE FALSE
  <2>1. d \in Nat /\ d <= n /\ last \in Nat
    BY <1>3, <1>4
  <2> HIDE DEF last, over
  <2>2. ASSUME NEW e \in Exchanges PROVE Covers(calendars[e], d)
    <3>1. PICK from, to \in Nat : DOMAIN calendars[e].days = from .. to
      BY CalendarsOfRelease DEF ProvedContext
    <3>2. n \in from .. to /\ last \in from .. to
      BY <1>2, <1>4, <3>1 DEF Covers
    <3>3. d \in from .. to
      BY <1>7, <2>1, <3>2
    <3> QED BY <3>1, <3>3 DEF Covers
  <2>3. d \in agreed
    BY <1>0, <1>5, <1>7, <2>1, <2>2
  <2> QED BY <1>4, <1>7, <2>1, <2>3
<1>8. \A d \in over : d <= last
  <2>1. last \in Nat /\ \A d \in over : d \in Nat
    BY <1>3, <1>4
  <2> HIDE DEF last, over
  <2> QED BY <1>7, <2>1
<1> HIDE DEF over, agreed, last
<1>9. LatestOf(over) = last
  BY <1>0, <1>3, <1>6, <1>8, LatestIsUnique
<1> QED BY <1>1, <1>9 DEF over, agreed, last

\* The screening date of a context.
LEMMA ScreenIsADay ==
  ASSUME NEW context, ProvedContext(context) PROVE context.screen \in Int
<1> DEFINE days == {d \in 0 .. DayOf(context.cutoff) : \A e \in Exchanges :
                      /\ Covers(context.calendars[e], d)
                      /\ context.calendars[e].days[d] = "trading"
                      /\ At(d, context.calendars[e].completes) <= context.cutoff}
<1>1. context.screen = LatestOf(days)
  <2> DEFINE c == Context(context.requested, context.now, context.calendars, context.checked)
  <2>1. c.cutoff = CutoffOf(context.requested, context.now)
        /\ c.screen = LatestCompleted(context.calendars, CutoffOf(context.requested, context.now),
                                      ByDay(context.calendars))
    BY DEF Context
  <2>2. context = c
    BY DEF ProvedContext
  <2> HIDE DEF c
  <2>3. context.screen = LatestCompleted(context.calendars, context.cutoff,
                                         ByDay(context.calendars))
    BY <2>1, <2>2
  <2> QED BY <2>3 DEF LatestCompleted, ByDay
<1>2. DayOf(context.cutoff) \in Int
  BY DayOfMoment DEF ProvedContext
<1>3. days \in SUBSET {d \in Nat : d <= DayOf(context.cutoff)}
  BY <1>2
<1> HIDE DEF days
<1>4. LatestOf(days) \in days \cup {-1}
  BY <1>2, <1>3, LatestIsTheLast
<1>5. days \subseteq Int
  BY <1>3
<1>6. LatestOf(days) \in Int
  BY <1>4, <1>5, -1 \in Int
<1> QED BY <1>1, <1>6, Zenon

\* A session is called applicable only at its own moment, while it is on.
LEMMA ApplicableSessionIsOn ==
  ASSUME NEW context, ProvedContext(context), year \in Years, NEW real, NEW checked,
         SessionOf(context.calendars, context.now, real, checked).applicable,
         NEW right \in Exchanges, RightUntil(context.calendars[right], DayOf(context.now))
  PROVE  /\ context.now = real
         /\ DayOf(real) \in year.open /\ real % SlotsADay \in {1, 2}
<1> DEFINE calendars == context.calendars
           now == context.now
           some == CHOOSE e \in Exchanges : TRUE
           day == calendars[some].days[DayOf(now)]
           proved == /\ CalendarsProved(calendars, now, checked)
                     /\ LatestCompleted(calendars, now, ByDay(calendars)) # -1
           phase == IF ~proved THEN "unproved"
                    ELSE IF day # "trading" THEN day ELSE Phases[(now % SlotsADay) + 1]
<1>0. some \in Exchanges /\ now \in Nat
  BY DEF ProvedContext
<1>1. proved /\ now = real /\ phase \in {"continuous_auction", "midday_break"}
  BY DEF SessionOf
<1>2. /\ \A e \in Exchanges : Covers(calendars[e], DayOf(now))
      /\ AgreeUntil(calendars, DayOf(now))
  BY <1>1 DEF CalendarsProved
<1>3. day \in {"holiday", "weekend", "trading"}
  BY <1>0, <1>2, CalendarsOfRelease DEF ProvedContext, Covers
<1>4. day = "trading" /\ Phases[(now % SlotsADay) + 1] \in {"continuous_auction", "midday_break"}
  BY <1>1, <1>3
<1>5. now % SlotsADay \in {1, 2}
  <2>1. now % SlotsADay \in 0 .. 4
    BY <1>0, DayOfMoment
  <2> QED BY <1>4, <2>1 DEF Phases
<1>6. DayOf(now) \in 0 .. DayOf(now)
  BY <1>0, DayOfMoment
<1>7. calendars[right].days[DayOf(now)] = "trading"
  BY <1>0, <1>2, <1>4, <1>6 DEF AgreeUntil
<1>8. DayOf(now) \in year.open
  BY <1>2, <1>6, <1>7 DEF RightUntil, Covers
<1> QED BY <1>1, <1>5, <1>8

LEMMA ProvedContextLooksBack ==
  ASSUME ContextInv PROVE ScreeningLooksBackOnly
<1> SUFFICES ASSUME told # NoSession, told.context # NoContext
             PROVE  LET context == told.context
                        calendars == context.calendars IN
      /\ (\E e \in Exchanges : RightUntil(calendars[e], DayOf(context.cutoff))) =>
           context.screen = LatestOf({d \in year.open : At(d, year.completes) <= context.cutoff})
      /\ \A e \in Exchanges : calendars[e].published < DayOf(context.cutoff)
      /\ RegisteredNow(calendars) \/ kept # NoContext
      /\ (told.session.applicable /\ \E e \in Exchanges : RightUntil(calendars[e], DayOf(context.now))) =>
           /\ context.now = told.real
           /\ DayOf(told.real) \in year.open /\ told.real % SlotsADay \in {1, 2}
  BY DEF ScreeningLooksBackOnly
<1> DEFINE context == told.context
<1>1. ProvedContext(context) /\ year \in Years
  BY DEF ContextInv, Calendared, ToldIsProved
<1>2. PICK checked \in Int :
        told.session = SessionOf(context.calendars, context.now, told.real, checked)
  BY DEF ContextInv, ToldIsProved
<1>3. ASSUME NEW e \in Exchanges
      PROVE  context.calendars[e].published < DayOf(context.cutoff)
  <2>1. /\ context.calendars[e].published \in Int
        /\ context.calendars[e].available = At(context.calendars[e].published + 1, 0)
    BY <1>1, CalendarsOfRelease DEF ProvedContext
  <2>2. context.calendars[e].available <= context.cutoff /\ context.cutoff \in Nat
    BY <1>1 DEF ProvedContext, CalendarsProved
  <2> QED BY <2>1, <2>2, DayOfMoment
<1> HIDE DEF context
<1>4. ASSUME NEW e \in Exchanges, RightUntil(context.calendars[e], DayOf(context.cutoff))
      PROVE  context.screen = LatestOf({d \in year.open : At(d, year.completes) <= context.cutoff})
  BY <1>1, <1>4, ScreenIsTheLastOver
<1>5. ASSUME told.session.applicable,
             NEW e \in Exchanges, RightUntil(context.calendars[e], DayOf(context.now))
      PROVE  /\ context.now = told.real
             /\ DayOf(told.real) \in year.open /\ told.real % SlotsADay \in {1, 2}
  BY <1>1, <1>2, <1>5, ApplicableSessionIsOn
<1>6. RegisteredNow(context.calendars) \/ kept # NoContext
  BY DEF ContextInv, ToldIsProved, context
<1> QED BY <1>3, <1>4, <1>5, <1>6 DEF context

\* A context that is acquired is proved by its calendars.
LEMMA AcquireKeepsContext ==
  ASSUME ContextInv, NEW requested \in 0 .. FinalDay, Acquire(requested)
  PROVE  ContextInv'
<1> USE DEF ContextInv
<1>1. PICK checked \in moment .. moment + MaxFetching, retrieved \in moment .. moment + MaxFetching,
           answered \in BOOLEAN :
        LET calendars == [e \in Exchanges |-> Calendar(registered[e], retrieved)]
            until == CutoffOf(requested, moment)
            context == Context(requested, moment, calendars, checked) IN
          /\ told'.context = NoContext \/
               /\ told' = Told(context, moment, checked)
               /\ CalendarsProved(calendars, until, checked) /\ context.screen # -1
          /\ kept' = told'.context
          /\ moment' = checked
  BY DEF Acquire, Unproved
<1> DEFINE calendars == [e \in Exchanges |-> Calendar(registered[e], retrieved)]
           until == CutoffOf(requested, moment)
           context == Context(requested, moment, calendars, checked)
<1>2. /\ moment \in Nat /\ checked \in Nat /\ retrieved \in Int /\ requested \in Nat
      /\ year' = year /\ registered' = registered
  BY CalendarAssumption DEF Calendared, Acquire
<1>3. Calendared'
  BY <1>1, <1>2 DEF Calendared
<1>4. CASE told'.context = NoContext
  BY <1>1, <1>3, <1>4 DEF KeptIsProved, ToldIsProved
<1>5. CASE /\ told' = Told(context, moment, checked)
           /\ CalendarsProved(calendars, until, checked) /\ context.screen # -1
  <2>1. OfRelease(calendars)
    BY <1>2 DEF OfRelease, Calendared
  <2>2. until \in Nat
    BY <1>2 DEF CutoffOf, EndOf, At, SlotsADay
  <2>3. /\ context.requested = requested /\ context.now = moment /\ context.checked = checked
        /\ context.cutoff = until /\ context.calendars = calendars
    BY DEF Context
  <2> HIDE DEF calendars, until
  <2>4. ProvedContext(context)
    BY <1>2, <1>5, <2>1, <2>2, <2>3 DEF ProvedContext
  <2>5. /\ told'.context = context /\ told'.real = moment
        /\ told'.session = SessionOf(calendars, moment, moment, checked)
    BY <1>5, <2>3 DEF Told
  <2> HIDE DEF context
  <2>6. kept' = context
    BY <1>1, <2>5
  <2>7. KeptIsProved'
    BY <2>4, <2>6 DEF KeptIsProved
  <2>8. ToldIsProved'
    BY <1>2, <2>3, <2>4, <2>5, <2>6 DEF ToldIsProved
  <2> QED BY <1>3, <2>7, <2>8
<1> QED BY <1>1, <1>4, <1>5

\* A context that is restored is proved again, whatever was altered in it.
LEMMA RestoreKeepsContext ==
  ASSUME ContextInv, Restore PROVE ContextInv'
<1> USE DEF ContextInv
<1>1. PICK frozen \in Altered(kept), requested \in {kept.requested, 0} :
        told'.context = NoContext \/
          /\ told' = Told(frozen, moment, moment)
          /\ RegisteredNow(frozen.calendars) /\ requested = frozen.requested
          /\ ~(requested > DayOf(frozen.now))
          /\ CalendarsProved(frozen.calendars, CutoffOf(requested, frozen.now), frozen.checked)
          /\ frozen = Context(requested, frozen.now, frozen.calendars, frozen.checked)
  BY DEF Restore, Unproved
<1>2. Calendared' /\ kept' = NoContext /\ UNCHANGED registered /\ moment \in Nat
  BY DEF Restore, Calendared
<1>3. CASE told'.context = NoContext
  BY <1>2, <1>3 DEF KeptIsProved, ToldIsProved
<1>4. CASE /\ told' = Told(frozen, moment, moment)
           /\ RegisteredNow(frozen.calendars) /\ requested = frozen.requested
           /\ ~(requested > DayOf(frozen.now))
           /\ CalendarsProved(frozen.calendars, CutoffOf(requested, frozen.now), frozen.checked)
           /\ frozen = Context(requested, frozen.now, frozen.calendars, frozen.checked)
  <2>1. /\ ProvedContext(kept) /\ kept.requested \in Nat /\ kept.now \in Nat
        /\ OfRelease(kept.calendars) /\ kept.screen # -1
    BY DEF Restore, KeptIsProved, ProvedContext
  <2>2. kept = Context(kept.requested, kept.now, kept.calendars, kept.checked)
    BY <2>1 DEF ProvedContext
  <2>3. /\ frozen.calendars = kept.calendars /\ frozen.requested = kept.requested
        /\ frozen.now \in {kept.now, moment, kept.now - 1}
        /\ \/ frozen.screen = kept.screen
           \/ /\ frozen.screen = kept.screen - 1
              /\ frozen.now = kept.now
    BY <2>2 DEF Altered, Context
  <2>4. frozen.now \in Nat
    <3>1. frozen.now \in Int /\ DayOf(frozen.now) \in Int
      BY <1>2, <2>1, <2>3, DayOfMoment
    <3>2. DayOf(frozen.now) >= 0
      BY <1>4, <2>1, <2>3, <3>1
    <3> QED BY <3>1, <3>2, DayOfMoment
  <2>5. frozen.cutoff = CutoffOf(requested, frozen.now) /\ frozen.cutoff \in Nat
    <3>1. frozen.cutoff = CutoffOf(requested, frozen.now)
      BY <1>4 DEF Context
    <3>2. requested \in Nat
      BY <1>4, <2>1, <2>3
    <3> QED BY <2>4, <3>1, <3>2 DEF CutoffOf, EndOf, At, SlotsADay
  <2>6. kept.screen \in Int
    BY <2>1, ScreenIsADay
  <2>7. frozen.screen # -1
    <3>1. CASE frozen.screen = kept.screen
      BY <2>1, <3>1
    <3>2. CASE frozen.screen = kept.screen - 1 /\ frozen.now = kept.now
      <4>1. frozen.screen = LatestCompleted(kept.calendars, CutoffOf(kept.requested, kept.now),
                                            ByDay(kept.calendars))
        BY <1>4, <2>3, <3>2 DEF Context
      <4>2. kept.screen = LatestCompleted(kept.calendars, CutoffOf(kept.requested, kept.now),
                                          ByDay(kept.calendars))
        BY <2>2 DEF Context
      <4> QED BY <2>6, <3>2, <4>1, <4>2
    <3> QED BY <2>3, <3>1, <3>2
  <2>8. ProvedContext(frozen)
    BY <1>4, <2>1, <2>3, <2>4, <2>5, <2>7 DEF ProvedContext
  <2>9. /\ told'.context = frozen /\ told'.real = moment
        /\ told'.session = SessionOf(frozen.calendars, frozen.now, moment, moment)
    BY <1>4 DEF Told
  <2>10. RegisteredNow(frozen.calendars)'
    BY <1>2, <1>4 DEF RegisteredNow
  <2>11. ToldIsProved'
    BY <1>2, <2>8, <2>9, <2>10 DEF ToldIsProved
  <2> QED BY <1>2, <2>11 DEF KeptIsProved
<1> QED BY <1>1, <1>3, <1>4

\* The screening date is the last day that was over at the cutoff, a session is current
\* only while it is on, and no later document or release slips in: for any calendars that
\* were registered, before and after, any dates and any alteration of the kept context.
THEOREM ScreeningIsHonest == SessionSpec => []ScreeningLooksBackOnly
<1>1. ContextInit => ContextInv
  <2>1. ASSUME ContextInit PROVE moment \in Nat
    BY <2>1, CalendarAssumption DEF ContextInit, EndOf, At, SlotsADay
  <2> QED BY <2>1 DEF ContextInit, ContextInv, Calendared, KeptIsProved, ToldIsProved
<1>2. ContextInv /\ [ContextNext]_sessionVars => ContextInv'
  <2> SUFFICES ASSUME ContextInv, [ContextNext]_sessionVars PROVE ContextInv'
    OBVIOUS
  <2>1. CASE Wait \/ Release \/ UNCHANGED sessionVars
    <3>1. Calendared'
      BY <2>1 DEF Wait, Release, sessionVars, ContextInv, Calendared, SlotsADay
    <3>2. KeptIsProved' /\ ToldIsProved'
      BY <2>1 DEF Wait, Release, sessionVars, ContextInv, KeptIsProved, ToldIsProved,
                  RegisteredNow
    <3> QED BY <3>1, <3>2 DEF ContextInv
  <2> QED BY <2>1, AcquireKeepsContext, RestoreKeepsContext DEF ContextNext
<1>3. ContextInv => ScreeningLooksBackOnly
  BY ProvedContextLooksBack
<1> QED BY <1>1, <1>2, <1>3, PTL DEF SessionSpec

-----------------------------------------------------------------------------
(* AutomaticValuation.  What is established is said once, and only a valued   *)
(* estimate carries a price or reports.                                       *)

IsValued(w, e) ==
  /\ SelectedClose(w) # {} /\ e.price = SelectedClose(w)
  /\ e.reports = IF Selected(w) = {} THEN <<>> ELSE ChosenReports(w)
  /\ e.equity = IF Selected(w) = {} THEN {} ELSE {LatestReport(w)}
  /\ e.metrics = ClaimedMetrics(w) /\ e.calculations = Calculations(w)
AutoInv == world \in Worlds /\ (Limited => IsValued(world, estimate))

\* The quarters of a year end with its full report.
LEMMA YearsOfQuarters ==
  ASSUME NEW p \in Int
  PROVE  /\ PriorFullYear(p) \in Int /\ PriorFullYear(p) < p /\ p <= PriorFullYear(p) + 4
         /\ FullYear(p) <=> PriorFullYear(p) + 4 = p
         /\ PriorFullYear(PriorFullYear(p)) = PriorFullYear(p) - 4
         /\ PriorFullYear(MatchingPrior(p)) = PriorFullYear(p) - 4
BY DEF PriorFullYear, FullYear, MatchingPrior

\* The cumulative reports that are added and subtracted count each of the last four
\* quarters once.
LEMMA TtmIsFourQuarters ==
  ASSUME NEW latest \in Nat PROVE LastFourQuarters(TtmPeriods(latest), latest)
<1> SUFFICES ASSUME NEW q \in 1 .. latest + 4
             PROVE  TimesCounted(q, TtmPeriods(latest)) =
                      IF latest - 4 < q /\ q <= latest THEN 1 ELSE 0
  BY DEF LastFourQuarters
<1> DEFINE full == PriorFullYear(latest)
<1>1. /\ full \in Int /\ full < latest /\ latest <= full + 4
      /\ FullYear(latest) <=> full + 4 = latest
      /\ PriorFullYear(full) = full - 4
      /\ PriorFullYear(MatchingPrior(latest)) = full - 4
  BY YearsOfQuarters
<1>2. CASE FullYear(latest)
  <2>1. TtmPeriods(latest) = <<latest>>
    BY <1>2 DEF TtmPeriods
  <2>2. TimesCounted(q, TtmPeriods(latest)) = IF q \in Quarters(latest) THEN 1 ELSE 0
    BY <2>1 DEF TimesCounted
  <2> QED BY <1>1, <1>2, <2>2 DEF Quarters
<1>3. CASE ~FullYear(latest)
  <2> DEFINE in(p) == IF q \in Quarters(p) THEN 1 ELSE 0
  <2>1. TtmPeriods(latest) = <<full, latest, MatchingPrior(latest)>>
    BY <1>3 DEF TtmPeriods
  <2>2. TimesCounted(q, TtmPeriods(latest)) = in(full) + in(latest) - in(MatchingPrior(latest))
    BY <2>1 DEF TimesCounted
  <2>3. /\ in(full) = IF full - 3 <= q /\ q <= full THEN 1 ELSE 0
        /\ in(latest) = IF full + 1 <= q /\ q <= latest THEN 1 ELSE 0
        /\ in(MatchingPrior(latest)) = IF full - 3 <= q /\ q <= latest - 4 THEN 1 ELSE 0
    <3> HIDE DEF full
    <3> QED BY <1>1 DEF Quarters, MatchingPrior, full
  <2> HIDE DEF in, full
  <2> QED BY <1>1, <1>3, <2>2, <2>3
<1> QED BY <1>2, <1>3

\* A limited estimate is what the closes and the reports establish; any other has
\* neither a price nor a calculation.
LEMMA EstimateIsValued ==
  ASSUME NEW w
  PROVE  /\ Concluded(w).status = "limited" => IsValued(w, Concluded(w))
         /\ Concluded(w).status # "limited" =>
              Concluded(w).price = {} /\ Concluded(w).calculations = {}
<1>1. CASE Concluded(w) = Established(w)
  <2>1. CASE HasStock(w) /\ ~w.stock.sameName
    BY <1>1, <2>1 DEF Established, NotValued, Estimate
  <2>2. CASE ~(HasStock(w) /\ ~w.stock.sameName) /\ SelectedClose(w) = {}
    BY <1>1, <2>2 DEF Established, NotValued, Estimate
  <2>3. CASE ~(HasStock(w) /\ ~w.stock.sameName) /\ SelectedClose(w) # {}
    BY <1>1, <2>3 DEF Established, Estimate, IsValued
  <2> QED BY <2>1, <2>2, <2>3
<1>2. CASE Concluded(w) = [NotValued("contradicts_owned_facts") EXCEPT !.status = "refused"]
  BY <1>2 DEF NotValued, Estimate
<1> QED BY <1>1, <1>2 DEF Concluded

LEMMA AutoStep ==
  ASSUME AutoInv, [AutoNext]_autoVars PROVE AutoInv'
<1>1. UNCHANGED world
  BY DEF AutoNext, autoVars, StopAtGate, AskSource, Establish
<1>2. world \in Worlds /\ (Limited => IsValued(world, estimate))
  BY DEF AutoInv
<1>3. CASE estimate' = estimate
  BY <1>1, <1>2, <1>3 DEF AutoInv, Limited
<1>4. ASSUME NEW why, estimate' = NotValued(why) PROVE AutoInv'
  <2>1. estimate'.status = "blocked"
    BY <1>4 DEF NotValued, Estimate
  <2> QED BY <1>1, <1>2, <2>1 DEF AutoInv, Limited
<1>5. CASE estimate' = Concluded(world)
  <2>1. Limited' => IsValued(world, estimate')
    BY <1>5, EstimateIsValued DEF Limited
  <2> QED BY <1>1, <1>2, <2>1 DEF AutoInv
<1> QED BY <1>3, <1>4, <1>5 DEF AutoNext, autoVars, StopAtGate, AskSource, Establish

\* The largest of some days.
LEMMA MaxOfDays ==
  ASSUME NEW n \in Int, NEW days \in SUBSET {d \in Nat : d <= n}, days # {}
  PROVE  Max(days) \in days /\ \A d \in days : d <= Max(days)
<1> DEFINE last == LatestOf(days)
<1>1. last \in days \cup {-1} /\ \A d \in days : d <= last
  BY LatestIsTheLast
<1>2. last \in days
  <2>1. PICK d \in days : d \in Nat /\ d <= last
    BY <1>1
  <2>2. last # -1
    BY <2>1
  <2> QED BY <1>1, <2>2
<1> HIDE DEF last
<1>3. \E x \in days : \A y \in days : x >= y
  BY <1>1, <1>2
<1>4. Max(days) \in days /\ \A y \in days : Max(days) >= y
  BY <1>3 DEF Max
<1> QED BY <1>4

\* The latest closes of a source that tells the truth are the last close.
LEMMA TruthfulLatestClose ==
  ASSUME NEW w, IsWorld(w), NEW source, Truthful(w, source)
  PROVE  /\ LatestClose(w, source) # {}
         /\ \A row \in LatestClose(w, source) :
              row.day = Max(CompletedDays(w)) /\ row.price = w.closes[row.day]
<1> DEFINE last == Max(CompletedDays(w))
           stated == {r \in RowsFrom(source) : Applicable(w, r)}
           days == {row.day : row \in stated}
<1>1. RowsFrom(source) = source
  BY DEF Truthful, RowsFrom
<1>2. PICK top \in source : Applicable(w, top) /\ top.day = last
  BY DEF Truthful
<1>3. \A row \in stated : row.day \in CompletedDays(w) /\ row.price = w.closes[row.day]
  BY <1>1 DEF Truthful
<1>4. \E n \in Nat : CompletedDays(w) \in SUBSET {d \in Nat : d <= n}
  <2>1. DOMAIN w.closes = 1 .. Len(w.closes) /\ Len(w.closes) \in Nat
    BY DEF IsWorld
  <2>2. CompletedDays(w) \in SUBSET {d \in Nat : d <= Len(w.closes)}
    BY <2>1 DEF CompletedDays
  <2> QED BY <2>1, <2>2
<1>5. top \in stated /\ top.day \in CompletedDays(w)
  BY <1>1, <1>2, <1>3
<1>6. /\ CompletedDays(w) \subseteq Nat
      /\ \A d \in CompletedDays(w) : d <= last
  <2> DEFINE done == CompletedDays(w)
  <2>1. PICK n \in Nat : done \in SUBSET {d \in Nat : d <= n}
    BY <1>4
  <2>2. done # {} /\ n \in Int
    BY <1>5
  <2> HIDE DEF done
  <2>3. done \subseteq Nat /\ \A d \in done : d <= Max(done)
    BY <2>1, <2>2, MaxOfDays
  <2> QED BY <2>3 DEF done
<1>7. Max(days) = last
  <2>1. last \in days /\ days \subseteq CompletedDays(w)
    BY <1>2, <1>3, <1>5
  <2> HIDE DEF last, days
  <2>2. \A d \in days : d <= last /\ d \in Nat
    BY <1>6, <2>1
  <2>3. Max(days) \in days /\ \A d \in days : Max(days) >= d
    BY <2>1, <2>2 DEF Max
  <2> QED BY <2>1, <2>2, <2>3
<1>8. LatestClose(w, source) = {row \in RowsFrom(source) : Applicable(w, row) /\ row.day = Max(days)}
  BY DEF LatestClose
<1> HIDE DEF last, days
<1> QED BY <1>2, <1>3, <1>5, <1>7, <1>8 DEF last

\* One source of closes that tells the truth is enough, whatever the other one says.
LEMMA SelectedCloseIsTrue ==
  ASSUME NEW w, IsWorld(w), Truthful(w, w.official) \/ Truthful(w, w.second),
         NEW row \in SelectedClose(w)
  PROVE  row.day = Max(CompletedDays(w)) /\ row.price = w.closes[row.day]
<1>1. row \in LatestClose(w, w.official) /\ CloseConflicts(w) = {}
  BY DEF SelectedClose
<1>2. CASE Truthful(w, w.official)
  BY <1>1, <1>2, TruthfulLatestClose
<1>3. CASE Truthful(w, w.second)
  <2>1. PICK other \in LatestClose(w, w.second) :
          other.day = Max(CompletedDays(w)) /\ other.price = w.closes[other.day]
    BY <1>3, TruthfulLatestClose
  <2>2. row.day = other.day /\ row.price = other.price
    <3> DEFINE both == LatestClose(w, w.official) \X LatestClose(w, w.second)
    <3>1. <<row, other>> \in both /\ <<row, other>>[1] = row /\ <<row, other>>[2] = other
      BY <1>1
    <3>2. /\ ~(\E pair \in both : pair[1].day # pair[2].day)
          /\ ~(\E pair \in both : pair[1].day = pair[2].day /\ pair[1].price # pair[2].price)
      BY <1>1 DEF CloseConflicts
    <3> HIDE DEF both
    <3> QED BY <3>1, <3>2
  <2> QED BY <2>1, <2>2
<1> QED BY <1>2, <1>3

\* However stale or wrong the other source of closes is, the price of a valued estimate is
\* the true last close (execute_close_research).
THEOREM OneTruthIsEnough == AutoSpec => []OneTruthfulSourceIsEnough
<1>1. AutoInit => AutoInv
  BY DEF AutoInit, AutoInv, Limited
<1>2. AutoInv /\ [AutoNext]_autoVars => AutoInv'
  BY AutoStep
<1>3. AutoInv => OneTruthfulSourceIsEnough
  <2> SUFFICES ASSUME AutoInv, Limited,
                      Truthful(world, world.official) \/ Truthful(world, world.second),
                      NEW row \in estimate.price
               PROVE  /\ row.day = Max(CompletedDays(world))
                      /\ row.price = world.closes[row.day]
    BY DEF OneTruthfulSourceIsEnough
  <2>1. row \in SelectedClose(world) /\ IsWorld(world)
    BY WorldsAssumption DEF AutoInv, IsValued
  <2> QED BY <2>1, SelectedCloseIsTrue
<1> QED BY <1>1, <1>2, <1>3, PTL DEF AutoSpec

\* The profit of a valued estimate is that of the last four quarters of the period whose
\* equity is used, each counted once.
THEOREM ProfitIsOfFourQuarters == AutoSpec => []SelectedFourQuarters
<1>1. AutoInit => AutoInv
  BY DEF AutoInit, AutoInv, Limited
<1>2. AutoInv /\ [AutoNext]_autoVars => AutoInv'
  BY AutoStep
<1>3. AutoInv => SelectedFourQuarters
  <2> SUFFICES ASSUME AutoInv, Limited, estimate.reports # <<>>, NEW latest \in estimate.equity
               PROVE  latest = LatestReport(world) /\ LastFourQuarters(estimate.reports, latest)
    BY DEF SelectedFourQuarters
  <2>1. Selected(world) # {} /\ estimate.reports = ChosenReports(world) /\ latest = LatestReport(world)
    BY DEF AutoInv, IsValued
  <2>2. world.statements # Failed /\ Selected(world) = {TtmPeriods(LatestReport(world))}
    BY <2>1 DEF Selected, LatestReport
  <2>3. ChosenReports(world) = TtmPeriods(LatestReport(world))
    BY <2>2 DEF ChosenReports
  <2>4. LatestReport(world) \in Nat
    <3>1. /\ DOMAIN Income(world) \subseteq Nat
          /\ \E last \in DOMAIN Income(world) : \A p \in DOMAIN Income(world) : p <= last
      BY <2>2, WorldsAssumption DEF AutoInv, IsWorld, Income
    <3>2. \E last \in DOMAIN Income(world) : \A p \in DOMAIN Income(world) : last >= p
      BY <3>1
    <3>3. LatestReport(world) \in DOMAIN Income(world)
      BY <3>2 DEF LatestReport, Max
    <3> QED BY <3>1, <3>3
  <2> QED BY <2>1, <2>3, <2>4, TtmIsFourQuarters
<1> QED BY <1>1, <1>2, <1>3, PTL DEF AutoSpec

-----------------------------------------------------------------------------
(* ValuationComparison. *)

\* The forecasts of this year and the later ones are forecasts of the source.
LEMMA YearsAheadAreListed ==
  ASSUME NEW S, NEW s \in Seq(S) PROVE YearsAhead(s) \in Seq(S)
<1> DEFINE N == Len(s)
           step == [n \in 1 .. N |-> [b \in Seq(S) |->
                      IF s[n].year >= 0 THEN Append(b, s[n]) ELSE b]]
           Is(f) == f = [n \in 0 .. N |->
                           IF n = 0 THEN <<>>
                           ELSE IF s[n].year >= 0 THEN Append(f[n - 1], s[n]) ELSE f[n - 1]]
           F == CHOOSE f : Is(f)
<1>1. N \in Nat /\ \A n \in 1 .. N : s[n] \in S
  BY LenProperties
<1>2. step \in [1 .. N -> [Seq(S) -> Seq(S)]]
  BY <1>1, AppendProperties
<1>3. <<>> \in Seq(S)
  BY EmptySeq
<1>4. YearsAhead(s) = F[N]
  BY DEF YearsAhead
<1> HIDE DEF N
<1>5. PICK f \in [0 .. N -> Seq(S)] : f[0] = <<>> /\ \A n \in 1 .. N : f[n] = step[n][f[n - 1]]
  <2>1. step \in StepsOver(N, Seq(S))
    BY <1>2 DEF StepsOver
  <2> HIDE DEF step
  <2>2. \E f : Unfolds(N, Seq(S), <<>>, step, f)
    BY <1>1, <1>3, <2>1, RecursionExists
  <2> QED BY <2>2 DEF Unfolds
<1>6. \A n \in 1 .. N : /\ n - 1 \in 0 .. N
                        /\ f[n] = IF s[n].year >= 0 THEN Append(f[n - 1], s[n]) ELSE f[n - 1]
  <2>1. \A n \in 1 .. N : n - 1 \in 0 .. N
    BY <1>1
  <2>2. \A n \in 1 .. N : f[n - 1] \in Seq(S)
    BY <1>5, <2>1
  <2> QED BY <1>5, <2>1, <2>2
<1>7. Is(f)
  <2>1. \A n \in 0 .. N : n = 0 \/ n \in 1 .. N
    BY <1>1
  <2> QED BY <1>5, <1>6, <2>1
<1>8. Is(F)
  <2> HIDE DEF Is
  <2> QED BY <1>7
<1> HIDE DEF F
<1> DEFINE Good == {n \in 0 .. N : F[n] \in Seq(S)}
<1>9. 0 .. N \subseteq Good
  <2>1. 0 \in Good
    BY <1>1, <1>3, <1>8
  <2>2. ASSUME NEW n \in 1 .. N, n - 1 \in Good PROVE n \in Good
    <3>1. n \in 0 .. N /\ n # 0 /\ F[n - 1] \in Seq(S) /\ s[n] \in S
      BY <1>1, <2>2
    <3>2. F[n] = IF s[n].year >= 0 THEN Append(F[n - 1], s[n]) ELSE F[n - 1]
      BY <1>8, <3>1
    <3>3. Append(F[n - 1], s[n]) \in Seq(S)
      BY <3>1, AppendProperties
    <3> QED BY <3>1, <3>2, <3>3
  <2> HIDE DEF Good
  <2> QED BY <1>1, <2>1, <2>2, UpTo
<1> QED BY <1>1, <1>4, <1>9

\* What the metrics are calculated from are numbers.
LEMMA FiguresAreNumbers ==
  ASSUME NEW w, IsWorld(w)
  PROVE  /\ Selected(w) # {} => Ttm(w) \in Int /\ Mrq(w) \in Int
         /\ Forecasts(w) # <<>> => Forecasts(w)[1].eps \in Int /\ Forecasts(w)[2].eps \in Int
<1>1. ASSUME Selected(w) # {} PROVE Ttm(w) \in Int /\ Mrq(w) \in Int
  <2> DEFINE latest == LatestReport(w)
             periods == TtmPeriods(latest)
             profit(i) == Income(w)[periods[i]]
             balance == w.statements.balance
  <2>1. /\ w.statements # Failed /\ Selected(w) = {periods}
        /\ latest \in DOMAIN balance /\ balance[latest] # NoItem
        /\ \A i \in DOMAIN periods : periods[i] \in DOMAIN Income(w) /\ profit(i) # NoItem
    BY <1>1 DEF Selected, LatestReport, ReportedIn
  <2>2. /\ \A p \in DOMAIN balance : balance[p] # NoItem => balance[p] \in Int
        /\ \A p \in DOMAIN Income(w) : Income(w)[p] # NoItem => Income(w)[p] \in Int
    BY <2>1 DEF IsWorld, Income
  <2>3. Mrq(w) \in Int
    BY <2>1, <2>2 DEF Mrq
  <2>4. \A i \in DOMAIN periods : profit(i) \in Int
    BY <2>1, <2>2
  <2>5. \/ Len(periods) = 1 /\ 1 \in DOMAIN periods
        \/ Len(periods) # 1 /\ \A i \in {1, 2, 3} : i \in DOMAIN periods
    <3> HIDE DEF latest
    <3> QED BY DEF TtmPeriods
  <2>6. ChosenReports(w) = periods
    <3> HIDE DEF periods
    <3> QED BY <2>1 DEF ChosenReports
  <2>7. Ttm(w) = IF Len(periods) = 1 THEN profit(1) ELSE profit(1) + profit(2) - profit(3)
    BY <2>6 DEF Ttm
  <2> HIDE DEF periods, profit
  <2> QED BY <2>3, <2>4, <2>5, <2>7
<1>2. ASSUME Forecasts(w) # <<>>
      PROVE  Forecasts(w)[1].eps \in Int /\ Forecasts(w)[2].eps \in Int
  <2> DEFINE lines == [year : Int, institutions : Int, eps : Int]
             ahead == IF w.forecasts = Failed THEN <<>> ELSE YearsAhead(w.forecasts)
  <2>1. Forecasts(w) = ahead /\ Len(ahead) >= 2
    BY <1>2 DEF Forecasts
  <2>2. ahead \in Seq(lines)
    <3>1. CASE w.forecasts = Failed
      BY <3>1, EmptySeq
    <3>2. CASE w.forecasts # Failed
      <4>1. w.forecasts \in Seq(lines)
        BY <3>2 DEF IsWorld
      <4> HIDE DEF lines
      <4> QED BY <3>2, <4>1, YearsAheadAreListed
    <3> QED BY <3>1, <3>2
  <2> HIDE DEF lines, ahead
  <2>3. ahead[1] \in lines /\ ahead[2] \in lines
    <3>1. Len(ahead) \in Nat
      BY <2>2, LenProperties
    <3>2. 1 \in 1 .. Len(ahead) /\ 2 \in 1 .. Len(ahead)
      BY <2>1, <3>1
    <3> QED BY <2>2, <3>2, ElementOfSeq
  <2> QED BY <2>1, <2>3 DEF lines
<1> QED BY <1>1, <1>2

\* What the claim states to be calculated is what is calculated.
LEMMA CalculatedIsClaimed ==
  ASSUME NEW w, IsWorld(w), NEW m \in MetricNames
  PROVE  ClaimedMetrics(w)[m] = "calculated" <=> m \in Calculations(w)
<1> DEFINE none == Forecasts(w) = <<>>
           one == Forecasts(w)[1].eps
           two == Forecasts(w)[2].eps
           ahead(onLoss, onFall) ==
             IF none THEN "not_calculable" ELSE IF one <= 0 THEN onLoss
             ELSE IF two <= one THEN onFall ELSE "calculated"
           reported(value) ==
             IF Selected(w) = {} THEN "reports_unavailable" ELSE OverReported(w, value)
<1>1. /\ Selected(w) # {} => Ttm(w) \in Int /\ Mrq(w) \in Int
      /\ ~none => one \in Int /\ two \in Int
  BY FiguresAreNumbers
<1>2. /\ "market_capitalization" \in Calculations(w) <=> HasStock(w)
      /\ "pe_ttm" \in Calculations(w) <=> HasStock(w) /\ Selected(w) # {} /\ Ttm(w) > 0
      /\ "pb_mrq" \in Calculations(w) <=> HasStock(w) /\ Selected(w) # {} /\ Mrq(w) > 0
      /\ "forward_pe" \in Calculations(w) <=> ~none /\ one > 0
      /\ "forecast_eps_growth" \in Calculations(w) <=> ~none /\ one > 0
      /\ "peg" \in Calculations(w) <=> ~none /\ one > 0 /\ two > one
      /\ "pe_digestion_years" \in Calculations(w) <=> ~none /\ one > 0 /\ two > one
  BY DEF Calculations
<1>3. \A value \in Int :
        reported(value) = "calculated" <=> HasStock(w) /\ Selected(w) # {} /\ value > 0
  BY DEF OverReported
<1>4. /\ ahead("no_valuation_meaning", "calculated") = "calculated" <=> ~none /\ one > 0
      /\ ahead("not_calculable", "calculated") = "calculated" <=> ~none /\ one > 0
      /\ ahead("not_calculable", "no_valuation_meaning") = "calculated"
           <=> ~none /\ one > 0 /\ two > one
  BY <1>1
<1>5. CASE m = "market_capitalization"
  <2>1. ClaimedMetrics(w)[m] = IF HasStock(w) THEN "calculated" ELSE "shares_unavailable"
    BY <1>5 DEF ClaimedMetrics, MetricNames
  <2> QED BY <1>2, <1>5, <2>1
<1>6. CASE m = "pe_ttm"
  <2>1. ClaimedMetrics(w)[m] = reported(Ttm(w))
    BY <1>6 DEF ClaimedMetrics, MetricNames
  <2> HIDE DEF reported
  <2>2. Selected(w) = {} => reported(Ttm(w)) # "calculated"
    BY DEF reported
  <2> QED BY <1>1, <1>2, <1>3, <1>6, <2>1, <2>2
<1>7. CASE m = "pb_mrq"
  <2>1. ClaimedMetrics(w)[m] = reported(Mrq(w))
    BY <1>7 DEF ClaimedMetrics, MetricNames
  <2> HIDE DEF reported
  <2>2. Selected(w) = {} => reported(Mrq(w)) # "calculated"
    BY DEF reported
  <2> QED BY <1>1, <1>2, <1>3, <1>7, <2>1, <2>2
<1>8. CASE m = "forward_pe"
  <2>1. ClaimedMetrics(w)[m] = ahead("no_valuation_meaning", "calculated")
    BY <1>8 DEF ClaimedMetrics, MetricNames
  <2> HIDE DEF ahead, none, one
  <2> QED BY <1>2, <1>4, <1>8, <2>1
<1>9. CASE m = "forecast_eps_growth"
  <2>1. ClaimedMetrics(w)[m] = ahead("not_calculable", "calculated")
    BY <1>9 DEF ClaimedMetrics, MetricNames
  <2> HIDE DEF ahead, none, one
  <2> QED BY <1>2, <1>4, <1>9, <2>1
<1>10. CASE m \in {"peg", "pe_digestion_years"}
  <2>1. ClaimedMetrics(w)[m] = ahead("not_calculable", "no_valuation_meaning")
    BY <1>10 DEF ClaimedMetrics, MetricNames
  <2> HIDE DEF ahead, none, one, two
  <2> QED BY <1>2, <1>4, <1>10, <2>1
<1> QED BY <1>5, <1>6, <1>7, <1>8, <1>9, <1>10 DEF MetricNames

\* A row that is not refused states what was calculated of its member, and no price but
\* the selected close.
LEMMA RowIsOfItsMember ==
  ASSUME NEW w, IsWorld(w), MemberRow(w).status # "refused"
  PROVE  /\ {m \in MetricNames : MemberRow(w).metrics[m] = "calculated"}
              = MemberRow(w).calculations
         /\ MemberRow(w).price \subseteq SelectedClose(w)
<1> DEFINE e == Execution(w)
           figures == [m \in MetricNames |->
                         IF m \in DOMAIN e.metrics THEN e.metrics[m] ELSE "metric_unavailable"]
<1>1. /\ MemberRow(w).status = e.status /\ MemberRow(w).price = e.price
      /\ MemberRow(w).calculations = e.calculations /\ MemberRow(w).metrics = figures
  BY DEF MemberRow
<1>2. CASE ClosedGates(w) = {} /\ Concluded(w).status = "limited"
  <2>1. e = Concluded(w)
    BY <1>2 DEF Execution
  <2> HIDE DEF e
  <2>2. e.price = SelectedClose(w) /\ e.metrics = ClaimedMetrics(w) /\ e.calculations = Calculations(w)
    BY <1>2, <2>1, EstimateIsValued DEF IsValued
  <2>3. DOMAIN ClaimedMetrics(w) = MetricNames
    BY DEF ClaimedMetrics
  <2>4. \A m \in MetricNames : figures[m] = ClaimedMetrics(w)[m]
    BY <2>2, <2>3
  <2>5. Calculations(w) \subseteq MetricNames
    BY DEF Calculations, MetricNames
  <2> HIDE DEF figures
  <2>6. {m \in MetricNames : figures[m] = "calculated"} = Calculations(w)
    BY <2>4, <2>5, CalculatedIsClaimed
  <2> QED BY <1>1, <2>2, <2>6
<1>3. CASE \/ ClosedGates(w) # {}
           \/ Concluded(w).status # "limited"
  <2>1. /\ e.price = {} /\ e.calculations = {}
        /\ \A m \in DOMAIN e.metrics : e.metrics[m] # "calculated"
    <3>1. CASE ClosedGates(w) # {}
      <4> DEFINE why == CHOOSE y \in ClosedGates(w) : TRUE
      <4>1. e = NotValued(why)
        BY <3>1 DEF Execution
      <4> HIDE DEF why, e
      <4> QED BY <4>1 DEF NotValued, Estimate
    <3>2. CASE ClosedGates(w) = {}
      <4>1. e = Concluded(w) /\ e.status \notin {"limited", "refused"}
        BY <1>1, <1>3, <3>2 DEF Execution
      <4>2. CASE HasStock(w) /\ ~w.stock.sameName
        <5>1. e = [NotValued("automatic_valuation_evidence_conflict") EXCEPT
                     !.conflicts = CloseConflicts(w) \cup {"stock_information_identity_conflict"}]
          <6> HIDE DEF e
          <6>1. Concluded(w) = Established(w)
            BY <4>1 DEF Concluded, NotValued, Estimate
          <6> QED BY <4>1, <4>2, <6>1 DEF Established
        <5> HIDE DEF e
        <5> QED BY <5>1 DEF NotValued, Estimate
      <4>3. CASE ~(HasStock(w) /\ ~w.stock.sameName) /\ SelectedClose(w) = {}
        <5>1. e = [NotValued("valuation_price_not_established") EXCEPT
                     !.metrics = [m \in MetricNames |-> "not_calculable"],
                     !.conflicts = CloseConflicts(w)]
          <6> HIDE DEF e
          <6>1. Concluded(w) = Established(w)
            BY <4>1 DEF Concluded, NotValued, Estimate
          <6> QED BY <4>1, <4>3, <6>1 DEF Established
        <5> HIDE DEF e
        <5> QED BY <5>1 DEF NotValued, Estimate
      <4>4. CASE ~(HasStock(w) /\ ~w.stock.sameName) /\ SelectedClose(w) # {}
        <5> HIDE DEF e
        <5>1. Concluded(w) = Established(w)
          BY <4>1 DEF Concluded, NotValued, Estimate
        <5>2. e.status = "limited"
          BY <4>1, <4>4, <5>1 DEF Established, Estimate
        <5> QED BY <4>1, <5>2
      <4> QED BY <4>2, <4>3, <4>4
    <3> QED BY <3>1, <3>2
  <2> HIDE DEF e
  <2>2. \A m \in MetricNames : figures[m] # "calculated"
    BY <2>1
  <2> HIDE DEF figures
  <2> QED BY <1>1, <2>1, <2>2
<1> QED BY <1>2, <1>3

\* The rows are those of the first members, none of which is refused, and a comparison
\* that is returned has them all.
CompareInv ==
  /\ members \in Comparisons
  /\ rows \in Seq({MemberRow(members[i]) : i \in DOMAIN members})
  /\ Len(rows) <= Len(members)
  /\ \A i \in DOMAIN rows : rows[i] = MemberRow(members[i]) /\ rows[i].status # "refused"
  /\ comparison = "returned" => Len(rows) = Len(members)

LEMMA CompareStep ==
  ASSUME CompareInv, [ComparisonNext]_comparisonVars PROVE CompareInv'
<1>0. Len(members) \in Nat /\ DOMAIN members = 1 .. Len(members)
  BY ComparisonsAssumption DEF CompareInv
<1>1. CASE UNCHANGED comparisonVars
  BY <1>1 DEF CompareInv, comparisonVars
<1>2. CASE Fold
  BY <1>2 DEF CompareInv, Fold
<1>3. CASE CompareNext
  <2> DEFINE S == {MemberRow(members[i]) : i \in DOMAIN members}
             row == MemberRow(members[Len(rows) + 1])
  <2>1. rows \in Seq(S) /\ members' = members /\ Len(rows) < Len(members)
    BY <1>3 DEF CompareInv, CompareNext
  <2>2. Len(rows) \in Nat /\ DOMAIN rows = 1 .. Len(rows)
    BY <2>1, LenProperties
  <2>3. CASE rows' = rows /\ comparison' = "refused"
    BY <2>1, <2>3 DEF CompareInv
  <2>4. CASE rows' = Append(rows, row) /\ row.status # "refused" /\ UNCHANGED comparison
    <3>1. row \in S
      BY <1>0, <2>1, <2>2
    <3> HIDE DEF S
    <3>2. /\ Append(rows, row) \in Seq(S) /\ Len(Append(rows, row)) = Len(rows) + 1
          /\ \A i \in 1 .. Len(rows) : Append(rows, row)[i] = rows[i]
          /\ Append(rows, row)[Len(rows) + 1] = row
      BY <2>1, <3>1, AppendProperties
    <3>3. DOMAIN Append(rows, row) = 1 .. Len(rows) + 1
      BY <3>2, LenProperties
    <3>4. Len(rows') <= Len(members') /\ rows' \in Seq(S)
      BY <1>0, <2>1, <2>2, <2>4, <3>2
    <3>5. ASSUME NEW i \in DOMAIN rows'
          PROVE  rows'[i] = MemberRow(members[i]) /\ rows'[i].status # "refused"
      <4>1. CASE i = Len(rows) + 1
        BY <2>4, <3>2, <4>1
      <4>2. CASE i # Len(rows) + 1
        <5>1. i \in 1 .. Len(rows) /\ i \in DOMAIN rows
          BY <2>2, <2>4, <3>3, <3>5, <4>2
        <5> QED BY <2>4, <3>2, <5>1 DEF CompareInv
      <4> QED BY <4>1, <4>2
    <3>6. comparison' # "returned" \/ Len(rows) = Len(members)
      BY <2>4 DEF CompareInv
    <3>7. comparison' # "returned"
      <4> DEFINE n == Len(rows)
                 k == Len(members)
      <4>0. n \in Nat /\ k \in Nat /\ n < k
        BY <1>0, <2>1, <2>2
      <4> HIDE DEF n, k
      <4>1. n # k
        BY <4>0
      <4> QED BY <3>6, <4>1 DEF n, k
    <3> QED BY <2>1, <3>4, <3>5, <3>7 DEF CompareInv, S
  <2> QED BY <1>3, <2>3, <2>4 DEF CompareNext
<1> QED BY <1>1, <1>2, <1>3 DEF ComparisonNext

\* The rows of a comparison are those of the securities that were requested, each in its
\* place, with its own price and its own figures, whatever the sources say of the others
\* (build_valuation_comparison_result).
THEOREM RowsAreOfTheirMembers == ComparisonSpec => []ComparedRowsAreTheirs
<1>1. ComparisonInit => CompareInv
  <2> SUFFICES ASSUME ComparisonInit PROVE CompareInv
    OBVIOUS
  <2>1. Len(members) \in Nat /\ Len(rows) = 0 /\ DOMAIN rows = {}
    BY ComparisonsAssumption DEF ComparisonInit
  <2>2. rows \in Seq({MemberRow(members[i]) : i \in DOMAIN members})
    BY EmptySeq DEF ComparisonInit
  <2> QED BY <2>1, <2>2, ComparisonsAssumption DEF ComparisonInit, CompareInv
<1>2. CompareInv /\ [ComparisonNext]_comparisonVars => CompareInv'
  BY CompareStep
<1>3. CompareInv => ComparedRowsAreTheirs
  <2> SUFFICES ASSUME CompareInv, comparison = "returned"
               PROVE  ComparedRowsAreTheirs
    BY DEF ComparedRowsAreTheirs
  <2>1. Len(rows) = Len(members)
    BY DEF CompareInv
  <2>2. ASSUME NEW i \in DOMAIN rows
        PROVE  /\ {m \in MetricNames : rows[i].metrics[m] = "calculated"} = rows[i].calculations
               /\ (Truthful(members[i], members[i].official)
                     \/ Truthful(members[i], members[i].second)) =>
                    \A close \in rows[i].price :
                      /\ close.day = Max(CompletedDays(members[i]))
                      /\ close.price = members[i].closes[close.day]
    <3> DEFINE w == members[i]
    <3>1. IsWorld(w)
      <4>1. DOMAIN rows = 1 .. Len(rows) /\ DOMAIN members = 1 .. Len(members)
        BY LenProperties, ComparisonsAssumption DEF CompareInv
      <4> QED BY <2>1, <4>1, ComparisonsAssumption DEF CompareInv
    <3>2. rows[i] = MemberRow(w) /\ MemberRow(w).status # "refused"
      BY DEF CompareInv
    <3> HIDE DEF w
    <3>3. /\ {m \in MetricNames : MemberRow(w).metrics[m] = "calculated"}
               = MemberRow(w).calculations
          /\ MemberRow(w).price \subseteq SelectedClose(w)
      BY <3>1, <3>2, RowIsOfItsMember
    <3>4. ASSUME Truthful(w, w.official) \/ Truthful(w, w.second), NEW close \in rows[i].price
          PROVE  close.day = Max(CompletedDays(w)) /\ close.price = w.closes[close.day]
      <4>1. close \in SelectedClose(w)
        BY <3>2, <3>3
      <4> QED BY <3>1, <3>4, <4>1, SelectedCloseIsTrue
    <3> QED BY <3>2, <3>3, <3>4 DEF w
  <2> QED BY <2>1, <2>2 DEF ComparedRowsAreTheirs
<1> QED BY <1>1, <1>2, <1>3, PTL DEF ComparisonSpec

-----------------------------------------------------------------------------
(* EtfResearch.  What the requests brought so far, as long as nothing that    *)
(* could not be read was left out: the month is the selected one, and each    *)
(* side of the chain is all that is listed.                                   *)

AfterPuts == {"call_quotes", "put_quotes", "call_analytics", "put_analytics"}
AfterCalls == {"puts"} \cup AfterPuts
AfterMonths == {"calls"} \cup AfterCalls
Folding == stage = "fold" /\ inquiry.task = "options" /\ ~acquired.broken
Whole == acquired.stray = FALSE
MonthIsSelected ==
  ((stage \in AfterMonths \/ Folding) /\ Whole) => acquired.month \in SelectMonth(etf.months)
CallsAreListed ==
  ((stage \in AfterCalls \/ Folding) /\ Whole) => acquired.call = Listed(acquired.month, "call")
PutsAreListed ==
  ((stage \in AfterPuts \/ Folding) /\ Whole) => acquired.put = Listed(acquired.month, "put")
TimesAreOfTheDay ==
  /\ IsFiniteSet(acquired.times)
  /\ \A i \in acquired.times : i \in Int /\ EtfDay(i) = inquiry.day
EtfTypes ==
  /\ etf \in EtfWorlds /\ inquiry \in EtfRequests /\ instant \in Nat
  /\ acquired.stray \in BOOLEAN
  /\ stage = "line" => inquiry.task = "market"
ViewedLast ==
  (optionView # NotViewed /\ optionView.status = "adopted") => stage = "done" /\ OptionViewIsTrue
EtfInv ==
  EtfTypes /\ MonthIsSelected /\ CallsAreListed /\ PutsAreListed /\ TimesAreOfTheDay /\ ViewedLast

\* The nearest month that is still open, when there is one.
LEMMA SelectedMonth ==
  ASSUME etf \in EtfWorlds, inquiry \in EtfRequests, inquiry.expiry = NearestExpiry,
         NEW month \in SelectMonth(etf.months)
  PROVE  \A m \in etf.months : ExpiryOf(m) >= inquiry.day => ExpiryOf(month) <= ExpiryOf(m)
<1> DEFINE open == {m \in etf.months : m >= MonthOf(inquiry.day)}
<1>1. open # {} /\ month = Min(open)
  BY DEF SelectMonth
<1>2. etf.months \subseteq Nat /\ inquiry.day \in Nat /\ open \subseteq Nat
  BY EtfAssumption
<1>3. month \in open /\ \A m \in open : month <= m
  <2>1. \E k \in open : \A l \in open : ~(<<l, k>> \in OpToRel(<, Nat))
    <3> HIDE DEF open
    <3> QED BY <1>1, <1>2, NatLessThanWellFounded, WFMin
  <2>2. PICK k \in open : \A l \in open : ~(l < k)
    BY <1>2, <2>1 DEF OpToRel
  <2>3. \A l \in open : k <= l
    BY <1>2, <2>2
  <2>4. \E x \in open : \A y \in open : x =< y
    BY <2>3
  <2> HIDE DEF open
  <2> QED BY <1>1, <2>4 DEF Min
<1>4. ASSUME NEW m \in etf.months, ExpiryOf(m) >= inquiry.day
      PROVE  ExpiryOf(month) <= ExpiryOf(m)
  <2>1. m \in Nat /\ inquiry.day \in Nat /\ month \in Nat
    BY <1>2, <1>3
  <2>2. m >= 1 /\ ~(m >= MonthOf(inquiry.day)) => FALSE
    BY <1>4, <2>1 DEF ExpiryOf, MonthOf
  <2>3. CASE m >= MonthOf(inquiry.day)
    <3>1. month <= m
      BY <1>3, <2>3
    <3>2. month >= 1
      BY <1>3, <2>1 DEF MonthOf
    <3> QED BY <2>1, <3>1, <3>2 DEF ExpiryOf
  <2> QED BY <2>1, <2>2, <2>3 DEF ExpiryOf
<1> QED BY <1>4

\* What an adopted view was made of is enough for it to be true.
LEMMA AdoptedViewIsTrue ==
  ASSUME EtfInv, FoldOptions, OptionRefusal = "none"
  PROVE  OptionViewIsTrue'
<1> DEFINE month == acquired.month
           listed == Listed(month, "call") \cup Listed(month, "put")
           strikes == NearestOf(StandardStrikes(acquired.quotes), etf.price[acquired.reference])
<1>0. /\ etf' = etf /\ inquiry' = inquiry /\ acquired' = acquired
      /\ optionView' = AdoptedView(strikes)
  BY DEF FoldOptions
<1>1. /\ Folding /\ acquired.quotes # {} /\ QuotesComplete /\ Whole /\ SessionStands
      /\ ExpiryStands(acquired.quotes)
  BY DEF FoldOptions, OptionRefusal, Traceable, OnlyLocalFailures, Folding, Whole, EtfInv, EtfTypes
<1>2. acquired.quotes = listed /\ acquired.quotes \cap etf.unquoted = {}
  BY <1>1 DEF QuotesComplete, Codes, EtfInv, CallsAreListed, PutsAreListed
<1>3. month \in SelectMonth(etf.months) /\ etf \in EtfWorlds /\ inquiry \in EtfRequests
  BY <1>1 DEF EtfInv, MonthIsSelected, EtfTypes
<1>4. PICK at \in Int : acquired.times = {at} /\ EtfDay(at) = inquiry.day
  BY <1>1, FS_Singleton DEF EtfInv, TimesAreOfTheDay, SessionStands
<1>5. optionView'.at = at
  BY <1>0, <1>4 DEF AdoptedView, Min
<1>6. EtfDay(acquired.reference) = inquiry.day
  BY <1>1 DEF SessionStands
<1>7. inquiry.mode = "latest_completed" => at = CloseInstant(inquiry.day)
  <2>1. SUFFICES ASSUME inquiry.mode = "latest_completed" PROVE at = CloseInstant(inquiry.day)
    OBVIOUS
  <2>2. at % SlotsOfDay = CloseSlot
    BY <1>1, <1>4, <2>1 DEF SessionStands, MarketState
  <2> QED BY <1>4, <2>2 DEF EtfDay, CloseInstant, SlotsOfDay, CloseSlot
<1>8. \A c \in listed : c.month = month
  BY DEF Listed, Contract
<1>9. IF inquiry.expiry # NearestExpiry THEN ExpiryOf(month) = inquiry.expiry
      ELSE \A m \in etf.months : ExpiryOf(m) >= inquiry.day => ExpiryOf(month) <= ExpiryOf(m)
  <2>1. CASE inquiry.expiry # NearestExpiry
    <3>1. PICK c \in listed : ExpiryOf(c.month) = inquiry.expiry
      BY <1>1, <1>2, <2>1 DEF ExpiryStands
    <3> QED BY <1>8, <2>1, <3>1
  <2>2. CASE inquiry.expiry = NearestExpiry
    BY <1>3, <2>2, SelectedMonth
  <2> QED BY <2>1, <2>2
<1>10. StandardStrikes(listed) = etf.standard
  <2>1. ASSUME NEW k \in etf.standard PROVE k \in StandardStrikes(listed)
    <3>1. /\ Contract(month, "call", k, "M") \in listed
          /\ Contract(month, "call", k, "M").series = "M"
          /\ Contract(month, "call", k, "M").strike = k
      BY DEF Listed, Contract
    <3> QED BY <3>1 DEF StandardStrikes
  <2>2. ASSUME NEW c \in listed, c.series = "M" PROVE c.strike \in etf.standard
    BY <2>2 DEF Listed, Contract
  <2> QED BY <2>1, <2>2 DEF StandardStrikes
<1>11. optionView'.atm = NearestOf(etf.standard, etf.price[acquired.reference])
  BY <1>0, <1>2, <1>10 DEF AdoptedView
<1>12. optionView'.contracts =
         IF inquiry.view = "chain" THEN listed
         ELSE {c \in listed : c.series = "M" /\ c.strike \in optionView'.atm}
  BY <1>0, <1>2 DEF AdoptedView
<1>13. optionView'.contracts \cap etf.unquoted = {}
  BY <1>2, <1>12
<1>14. /\ Listed(acquired.month, "call")' = Listed(month, "call")
       /\ Listed(acquired.month, "put")' = Listed(month, "put")
  BY <1>0 DEF Listed
<1>15. NearestOf(etf.standard, etf.price[acquired.reference])'
         = NearestOf(etf.standard, etf.price[acquired.reference])
  BY <1>0
<1> HIDE DEF listed, month, strikes
<1>16. acquired'.times = {optionView'.at}
  BY <1>0, <1>4, <1>5
<1> QED BY <1>0, <1>4, <1>5, <1>6, <1>7, <1>9, <1>11, <1>12, <1>13, <1>14, <1>15, <1>16
        DEF OptionViewIsTrue, listed, month

\* The stages of the requests.
LEMMA EtfStages ==
  /\ AfterPuts \subseteq AfterCalls /\ AfterCalls \subseteq AfterMonths
  /\ \A s \in {"identity", "reference", "months", "line", "fold", "done"} : s \notin AfterMonths
BY DEF AfterPuts, AfterCalls, AfterMonths

\* A request that brings nothing of the chain, and one that breaks.
LEMMA BreaksKeepEtf ==
  ASSUME EtfInv, NEW here, here # "done", Breaks(here) PROVE EtfInv'
<1>1. /\ stage = here /\ stage' = "fold" /\ acquired' = [acquired EXCEPT !.broken = TRUE, !.faults = @ + 1]
      /\ UNCHANGED <<etf, inquiry, instant, optionView>>
  BY DEF Breaks
<1>2. /\ acquired'.broken /\ acquired'.stray = acquired.stray /\ acquired'.times = acquired.times
      /\ acquired'.month = acquired.month
  BY <1>1
<1>3. ~Folding' /\ stage' \notin AfterMonths /\ stage' \notin AfterCalls /\ stage' \notin AfterPuts
  BY <1>1, <1>2, EtfStages DEF Folding
<1>4. EtfTypes'
  BY <1>1, <1>2 DEF EtfInv, EtfTypes
<1>5. TimesAreOfTheDay'
  BY <1>1, <1>2 DEF EtfInv, TimesAreOfTheDay, EtfDay
<1>6. ViewedLast'
  BY <1>1 DEF EtfInv, ViewedLast
<1> QED BY <1>3, <1>4, <1>5, <1>6 DEF EtfInv, MonthIsSelected, CallsAreListed, PutsAreListed

\* A request that is answered: what the invariant asks of its answer.
LEMMA ReadsKeepEtf ==
  ASSUME EtfInv, NEW here, here \notin {"fold", "done"}, NEW next, next # "done", NEW got,
         Reads(here, next, got),
         got.stray \in BOOLEAN, IsFiniteSet(got.times),
         \A i \in got.times : i \in Int /\ EtfDay(i) = inquiry.day,
         next = "line" => inquiry.task = "market",
         LET fold == next = "fold" /\ inquiry.task = "options" /\ ~got.broken
             whole == got.stray = FALSE IN
           /\ (next \in AfterMonths \/ fold) /\ whole => got.month \in SelectMonth(etf.months)
           /\ (next \in AfterCalls \/ fold) /\ whole => got.call = Listed(got.month, "call")
           /\ (next \in AfterPuts \/ fold) /\ whole => got.put = Listed(got.month, "put")
  PROVE  EtfInv'
<1>1. /\ stage = here /\ stage' = next /\ acquired' = got
      /\ UNCHANGED <<etf, inquiry, instant, optionView>>
  BY DEF Reads
<1>2. EtfTypes' /\ TimesAreOfTheDay'
  BY <1>1 DEF EtfInv, EtfTypes, TimesAreOfTheDay, EtfDay
<1>3. ViewedLast'
  BY <1>1 DEF EtfInv, ViewedLast
<1>4. /\ SelectMonth(etf.months)' = SelectMonth(etf.months)
      /\ Listed(got.month, "call")' = Listed(got.month, "call")
      /\ Listed(got.month, "put")' = Listed(got.month, "put")
  BY <1>1 DEF SelectMonth, Listed
<1>5. MonthIsSelected' /\ CallsAreListed' /\ PutsAreListed'
  BY <1>1, <1>4 DEF MonthIsSelected, CallsAreListed, PutsAreListed, Folding, Whole
<1> QED BY <1>2, <1>3, <1>5 DEF EtfInv

\* A batch may lose rows; whether it had a line that fits none is a matter of yes or no.
LEMMA BatchMayBeStray ==
  ASSUME NEW codes, NEW got \in BatchOf(codes) PROVE got.stray = TRUE \/ got.stray = FALSE
<1>1. \/ got = BatchRows(codes, {}, FALSE, 0) \/ got = BatchRows({}, codes, FALSE, 1)
      \/ got = BatchRows(codes, {}, TRUE, 1)
      \/ \E c \in codes : got = BatchRows(codes \ {c}, {c}, FALSE, 1)
  BY DEF BatchOf
<1>2. ASSUME NEW c PROVE BatchRows(codes \ {c}, {c}, FALSE, 1).stray = FALSE
  BY DEF BatchRows
<1>3. /\ BatchRows(codes, {}, FALSE, 0).stray = FALSE /\ BatchRows({}, codes, FALSE, 1).stray = FALSE
      /\ BatchRows(codes, {}, TRUE, 1).stray = TRUE
  BY DEF BatchRows
<1> QED BY <1>1, <1>2, <1>3, Zenon

LEMMA ListMayBeShort ==
  ASSUME NEW all, NEW got \in ReadMost(all)
  PROVE  (got.stray = FALSE /\ got.kept = all) \/ got.stray = TRUE
<1>1. \/ got = [kept |-> all, stray |-> FALSE, faults |-> 0]
      \/ \E c \in all : got = [kept |-> all \ {c}, stray |-> TRUE, faults |-> 1]
  BY DEF ReadMost
<1>2. CASE got = [kept |-> all, stray |-> FALSE, faults |-> 0]
  BY <1>2
<1>3. CASE \E c \in all : got = [kept |-> all \ {c}, stray |-> TRUE, faults |-> 1]
  BY <1>3
<1> QED BY <1>1, <1>2, <1>3

\* Quotes of one batch have the moment that is shown, and only rows of the day are read.
LEMMA QuotesKeepEtf ==
  ASSUME EtfInv, NEW side, NEW here \in AfterPuts, NEW next \in AfterPuts,
         Quotes(side, here, next)
  PROVE  EtfInv'
<1>1. PICK got \in BatchOf(acquired[side]) :
        LET fit == Readable(got.rows) IN
          Reads(here, next,
                [acquired EXCEPT !.quotes = @ \cup fit, !.stray = @ \/ got.stray, !.faults = @ + got.faults,
                                 !.times = @ \cup {ShownAt(instant) : c \in fit}])
  BY DEF Quotes
<1> DEFINE fit == Readable(got.rows)
           new == [acquired EXCEPT !.quotes = @ \cup fit, !.stray = @ \/ got.stray,
                                   !.faults = @ + got.faults,
                                   !.times = @ \cup {ShownAt(instant) : c \in fit}]
<1>2. Reads(here, next, new)
  BY <1>1
<1>3. /\ new.month = acquired.month /\ new.call = acquired.call /\ new.put = acquired.put
      /\ new.broken = acquired.broken
      /\ new.stray = (acquired.stray \/ got.stray)
      /\ new.times = acquired.times \cup {ShownAt(instant) : c \in fit}
  OBVIOUS
<1>4. new.stray \in BOOLEAN
  BY <1>3
<1>5. new.stray = FALSE => acquired.stray = FALSE
  BY <1>3 DEF EtfInv, EtfTypes
<1>6. IsFiniteSet(new.times)
  <2>1. {ShownAt(instant) : c \in fit} \subseteq {ShownAt(instant)}
    OBVIOUS
  <2>2. IsFiniteSet({ShownAt(instant) : c \in fit})
    BY <2>1, FS_Singleton, FS_Subset
  <2>3. IsFiniteSet(acquired.times)
    BY DEF EtfInv, TimesAreOfTheDay
  <2> HIDE DEF new
  <2> QED BY <1>3, <2>2, <2>3, FS_Union, ZenonT(30)
<1>7. \A i \in new.times : i \in Int /\ EtfDay(i) = inquiry.day
  <2>1. ASSUME NEW c \in fit PROVE ShownAt(instant) \in Int /\ EtfDay(ShownAt(instant)) = inquiry.day
    BY DEF Readable, ShownAt, EtfInv, EtfTypes
  <2> QED BY <1>3, <2>1 DEF EtfInv, TimesAreOfTheDay
<1>8. stage = here /\ here \notin {"fold", "done", "line"} /\ next \notin {"fold", "done", "line"}
      /\ stage \in AfterMonths /\ stage \in AfterCalls /\ stage \in AfterPuts
  BY <1>2, EtfStages DEF Reads, AfterPuts
<1> HIDE DEF new, fit
<1> QED BY <1>2, <1>3, <1>4, <1>5, <1>6, <1>7, <1>8, ReadsKeepEtf
        DEF EtfInv, MonthIsSelected, CallsAreListed, PutsAreListed, Whole

LEMMA AnalyticsKeepEtf ==
  ASSUME EtfInv, NEW side, NEW here \in AfterPuts, NEW next \in AfterPuts \cup {"fold"},
         Analytics(side, here, next)
  PROVE  EtfInv'
<1>1. PICK got \in BatchOf(acquired[side]) :
        Reads(here, next,
              [acquired EXCEPT !.analytics = @ \cup (got.rows \cap acquired.quotes),
                               !.local = @ \cup got.lost, !.stray = @ \/ got.stray, !.faults = @ + got.faults])
  BY DEF Analytics
<1> DEFINE new == [acquired EXCEPT !.analytics = @ \cup (got.rows \cap acquired.quotes),
                                   !.local = @ \cup got.lost, !.stray = @ \/ got.stray,
                                   !.faults = @ + got.faults]
<1>2. Reads(here, next, new)
  BY <1>1
<1>3. /\ new.month = acquired.month /\ new.call = acquired.call /\ new.put = acquired.put
      /\ new.stray = (acquired.stray \/ got.stray) /\ new.times = acquired.times
  OBVIOUS
<1>4. new.stray \in BOOLEAN
  BY <1>3
<1>5. new.stray = FALSE => acquired.stray = FALSE
  BY <1>3 DEF EtfInv, EtfTypes
<1>6. IsFiniteSet(new.times) /\ \A i \in new.times : i \in Int /\ EtfDay(i) = inquiry.day
  BY <1>3 DEF EtfInv, TimesAreOfTheDay
<1>7. stage = here /\ here \notin {"fold", "done", "line"} /\ next \notin {"done", "line"}
      /\ stage \in AfterMonths /\ stage \in AfterCalls /\ stage \in AfterPuts
  BY <1>2, EtfStages DEF Reads, AfterPuts
<1> HIDE DEF new
<1> QED BY <1>2, <1>3, <1>4, <1>5, <1>6, <1>7, ReadsKeepEtf
        DEF EtfInv, MonthIsSelected, CallsAreListed, PutsAreListed, Whole

\* An answer that brings nothing of the chain, on a way that needs nothing of it.
LEMMA AsideKeepsEtf ==
  ASSUME EtfInv, NEW here, here \notin {"fold", "done"},
         NEW next \in {"reference", "months", "line", "fold"}, NEW got, Reads(here, next, got),
         got.stray = acquired.stray, got.times = acquired.times,
         next \in {"line", "fold"} => inquiry.task = "market"
  PROVE  EtfInv'
<1>1. next # "done" /\ next \notin AfterMonths /\ next \notin AfterCalls /\ next \notin AfterPuts
  BY EtfStages
<1>2. got.stray \in BOOLEAN
  BY DEF EtfInv, EtfTypes
<1>3. IsFiniteSet(got.times) /\ \A i \in got.times : i \in Int /\ EtfDay(i) = inquiry.day
  BY DEF EtfInv, TimesAreOfTheDay
<1>4. next = "fold" => inquiry.task # "options"
  OBVIOUS
<1> QED BY <1>1, <1>2, <1>3, <1>4, ReadsKeepEtf

LEMMA IdentifyKeepsEtf ==
  ASSUME EtfInv, IdentifyEtf PROVE EtfInv'
<1>1. CASE Breaks("identity")
  BY <1>1, BreaksKeepEtf
<1>2. CASE Reads("identity", "reference", acquired)
  BY <1>2, AsideKeepsEtf
<1> QED BY <1>1, <1>2 DEF IdentifyEtf

LEMMA SnapshotKeepsEtf ==
  ASSUME EtfInv, Snapshot PROVE EtfInv'
<1>1. ASSUME NEW i, Reads("reference", IF inquiry.task = "options" THEN "months" ELSE "line",
                          [acquired EXCEPT !.reference = i])
      PROVE  EtfInv'
  <2> DEFINE new == [acquired EXCEPT !.reference = i]
             next == IF inquiry.task = "options" THEN "months" ELSE "line"
  <2>1. new.stray = acquired.stray /\ new.times = acquired.times
    OBVIOUS
  <2>2. Reads("reference", next, new)
    BY <1>1
  <2>3. next \in {"months", "line"} /\ (next = "line" => inquiry.task = "market")
    BY EtfAssumption DEF EtfInv, EtfTypes
  <2> HIDE DEF new, next
  <2> QED BY <2>1, <2>2, <2>3, AsideKeepsEtf
<1>2. CASE Breaks("reference")
  BY <1>2, BreaksKeepEtf
<1>3. CASE inquiry.task = "market" /\ Reads("reference", "line", [acquired EXCEPT !.faults = @ + 1])
  <2> DEFINE new == [acquired EXCEPT !.faults = @ + 1]
  <2>1. new.stray = acquired.stray /\ new.times = acquired.times
    OBVIOUS
  <2> HIDE DEF new
  <2> QED BY <1>3, <2>1, AsideKeepsEtf DEF new
<1> QED BY <1>1, <1>2, <1>3 DEF Snapshot

LEMMA LineKeepsEtf ==
  ASSUME EtfInv, DailyLine PROVE EtfInv'
<1>1. ASSUME NEW got, Reads("line", "fold", got), got.stray = acquired.stray, got.times = acquired.times
      PROVE  EtfInv'
  <2>1. inquiry.task = "market"
    BY <1>1 DEF Reads, EtfInv, EtfTypes
  <2> QED BY <1>1, <2>1, AsideKeepsEtf
<1>2. /\ [acquired EXCEPT !.line = ShownAt(instant)].stray = acquired.stray
      /\ [acquired EXCEPT !.line = ShownAt(instant)].times = acquired.times
      /\ [acquired EXCEPT !.faults = @ + 1].stray = acquired.stray
      /\ [acquired EXCEPT !.faults = @ + 1].times = acquired.times
  OBVIOUS
<1> QED BY <1>1, <1>2 DEF DailyLine

\* A month is selected among the months that could be read.
LEMMA MonthsKeepEtf ==
  ASSUME EtfInv, ListMonths PROVE EtfInv'
<1>1. CASE Breaks("months")
  BY <1>1, BreaksKeepEtf
<1>2. ASSUME NEW got \in ReadMost(etf.months), NEW m \in SelectMonth(got.kept),
             Reads("months", "calls", [acquired EXCEPT !.month = m, !.stray = @ \/ got.stray,
                                                       !.faults = @ + got.faults])
      PROVE  EtfInv'
  <2> DEFINE new == [acquired EXCEPT !.month = m, !.stray = @ \/ got.stray, !.faults = @ + got.faults]
  <2>1. new.month = m /\ new.stray = (acquired.stray \/ got.stray) /\ new.times = acquired.times
    OBVIOUS
  <2>2. new.stray \in BOOLEAN
    BY <2>1
  <2>3. new.stray = FALSE => m \in SelectMonth(etf.months)
    BY <2>1, ListMayBeShort DEF EtfInv, EtfTypes
  <2>4. IsFiniteSet(new.times) /\ \A i \in new.times : i \in Int /\ EtfDay(i) = inquiry.day
    BY <2>1 DEF EtfInv, TimesAreOfTheDay
  <2>5. "calls" \notin AfterCalls /\ "calls" \notin AfterPuts
    BY DEF AfterCalls, AfterPuts
  <2>6. Reads("months", "calls", new)
    BY <1>2
  <2> HIDE DEF new
  <2> QED BY <2>1, <2>2, <2>3, <2>4, <2>5, <2>6, ReadsKeepEtf
<1> QED BY <1>1, <1>2 DEF ListMonths

LEMMA CallsKeepEtf ==
  ASSUME EtfInv, ListCalls PROVE EtfInv'
<1>1. CASE Breaks("calls")
  BY <1>1, BreaksKeepEtf
<1>2. ASSUME NEW got \in ReadMost(Listed(acquired.month, "call")),
             Reads("calls", "puts", [acquired EXCEPT !.call = got.kept, !.stray = @ \/ got.stray,
                                                     !.faults = @ + got.faults])
      PROVE  EtfInv'
  <2> DEFINE new == [acquired EXCEPT !.call = got.kept, !.stray = @ \/ got.stray,
                                     !.faults = @ + got.faults]
  <2>1. /\ new.month = acquired.month /\ new.call = got.kept
        /\ new.stray = (acquired.stray \/ got.stray) /\ new.times = acquired.times
    OBVIOUS
  <2>2. new.stray \in BOOLEAN
    BY <2>1
  <2>3. new.stray = FALSE => acquired.stray = FALSE /\ new.call = Listed(new.month, "call")
    BY <2>1, ListMayBeShort DEF EtfInv, EtfTypes
  <2>4. IsFiniteSet(new.times) /\ \A i \in new.times : i \in Int /\ EtfDay(i) = inquiry.day
    BY <2>1 DEF EtfInv, TimesAreOfTheDay
  <2>5. "puts" \notin AfterPuts /\ "calls" \in AfterMonths
    BY DEF AfterMonths, AfterPuts
  <2>6. Reads("calls", "puts", new) /\ stage = "calls"
    BY <1>2 DEF Reads
  <2>7. new.stray = FALSE => new.month \in SelectMonth(etf.months)
    BY <2>1, <2>3, <2>5, <2>6 DEF EtfInv, MonthIsSelected, Whole
  <2> HIDE DEF new
  <2> QED BY <2>2, <2>3, <2>4, <2>5, <2>6, <2>7, ReadsKeepEtf
<1> QED BY <1>1, <1>2 DEF ListCalls

LEMMA PutsKeepEtf ==
  ASSUME EtfInv, ListPuts PROVE EtfInv'
<1>1. CASE Breaks("puts")
  BY <1>1, BreaksKeepEtf
<1>2. ASSUME NEW got \in ReadMost(Listed(acquired.month, "put")),
             Reads("puts", "call_quotes", [acquired EXCEPT !.put = got.kept, !.stray = @ \/ got.stray,
                                                           !.faults = @ + got.faults])
      PROVE  EtfInv'
  <2> DEFINE new == [acquired EXCEPT !.put = got.kept, !.stray = @ \/ got.stray,
                                     !.faults = @ + got.faults]
  <2>1. /\ new.month = acquired.month /\ new.call = acquired.call /\ new.put = got.kept
        /\ new.stray = (acquired.stray \/ got.stray) /\ new.times = acquired.times
    OBVIOUS
  <2>2. new.stray \in BOOLEAN
    BY <2>1
  <2>3. new.stray = FALSE => acquired.stray = FALSE /\ new.put = Listed(new.month, "put")
    BY <2>1, ListMayBeShort DEF EtfInv, EtfTypes
  <2>4. IsFiniteSet(new.times) /\ \A i \in new.times : i \in Int /\ EtfDay(i) = inquiry.day
    BY <2>1 DEF EtfInv, TimesAreOfTheDay
  <2>5. "puts" \in AfterCalls /\ "puts" \in AfterMonths
    BY DEF AfterMonths, AfterCalls
  <2>6. Reads("puts", "call_quotes", new) /\ stage = "puts"
    BY <1>2 DEF Reads
  <2>7. new.stray = FALSE => new.month \in SelectMonth(etf.months)
    BY <2>1, <2>3, <2>5, <2>6 DEF EtfInv, MonthIsSelected, Whole
  <2>8. new.stray = FALSE => new.call = Listed(new.month, "call")
    BY <2>1, <2>3, <2>5, <2>6 DEF EtfInv, CallsAreListed, Whole
  <2> HIDE DEF new
  <2> QED BY <2>2, <2>3, <2>4, <2>6, <2>7, <2>8, ReadsKeepEtf
<1> QED BY <1>1, <1>2 DEF ListPuts

LEMMA EtfStep ==
  EtfInv /\ [EtfNext]_etfVars => EtfInv'
<1> SUFFICES ASSUME EtfInv, [EtfNext]_etfVars PROVE EtfInv'
  OBVIOUS
<1>1. CASE Moves
  <2>1. /\ UNCHANGED <<etf, inquiry, acquired, stage, optionView>> /\ instant' = instant + 1
    BY <1>1 DEF Moves
  <2> QED BY <2>1 DEF EtfInv, EtfTypes, MonthIsSelected, CallsAreListed, PutsAreListed,
                      TimesAreOfTheDay, ViewedLast, Folding, Whole, OptionViewIsTrue,
                      SelectMonth, Listed, EtfDay, NearestOf
<1>2. CASE CallQuotes \/ PutQuotes
  BY <1>2, QuotesKeepEtf DEF CallQuotes, PutQuotes, AfterPuts
<1>3. CASE CallAnalytics \/ PutAnalytics
  BY <1>3, AnalyticsKeepEtf DEF CallAnalytics, PutAnalytics, AfterPuts
<1>4. CASE FoldOptions
  <2>1. /\ stage' = "done" /\ UNCHANGED <<etf, inquiry, instant, acquired>>
    BY <1>4 DEF FoldOptions
  <2>2. ~Folding' /\ stage' \notin AfterMonths /\ stage' \notin AfterCalls /\ stage' \notin AfterPuts
    BY <2>1, EtfStages DEF Folding
  <2>3. EtfTypes' /\ TimesAreOfTheDay'
    BY <2>1 DEF EtfInv, EtfTypes, TimesAreOfTheDay, EtfDay
  <2>4. ViewedLast'
    <3>1. CASE OptionRefusal = "none"
      BY <1>4, <2>1, <3>1, AdoptedViewIsTrue DEF ViewedLast
    <3>2. CASE OptionRefusal # "none"
      <4>1. optionView' = [status |-> OptionRefusal]
        BY <1>4, <3>2 DEF FoldOptions
      <4>2. OptionRefusal # "adopted"
        BY DEF OptionRefusal
      <4> QED BY <4>1, <4>2 DEF ViewedLast
    <3> QED BY <3>1, <3>2
  <2> QED BY <2>2, <2>3, <2>4 DEF EtfInv, MonthIsSelected, CallsAreListed, PutsAreListed
<1>5. CASE FoldMarket
  <2>1. /\ stage' = "done" /\ UNCHANGED <<etf, inquiry, instant, acquired>>
        /\ optionView'.status # "adopted"
    BY <1>5 DEF FoldMarket
  <2>2. ~Folding' /\ stage' \notin AfterMonths /\ stage' \notin AfterCalls /\ stage' \notin AfterPuts
    BY <2>1, EtfStages DEF Folding
  <2>3. EtfTypes' /\ TimesAreOfTheDay'
    BY <2>1 DEF EtfInv, EtfTypes, TimesAreOfTheDay, EtfDay
  <2>4. ViewedLast'
    BY <2>1 DEF ViewedLast
  <2> QED BY <2>2, <2>3, <2>4 DEF EtfInv, MonthIsSelected, CallsAreListed, PutsAreListed
<1>6. CASE UNCHANGED etfVars
  BY <1>6 DEF etfVars, EtfInv, EtfTypes, MonthIsSelected, CallsAreListed, PutsAreListed,
              TimesAreOfTheDay, ViewedLast, Folding, Whole, OptionViewIsTrue,
              SelectMonth, Listed, EtfDay, NearestOf
<1> QED BY <1>1, <1>2, <1>3, <1>4, <1>5, <1>6, IdentifyKeepsEtf, SnapshotKeepsEtf, LineKeepsEtf,
           MonthsKeepEtf, CallsKeepEtf, PutsKeepEtf DEF EtfNext

(* An adopted option view is of the market as it was at one moment of the day *)
(* that was asked for, made of the whole of the selected month, with the      *)
(* strikes at the money among all listed standard ones: whatever is listed,   *)
(* however the market moves, and whichever requests lose what they asked for. *)
THEOREM OptionViewsAreTrue == EtfSpec => []OptionViewIsTrue
<1>1. EtfInit => EtfInv
  <2> SUFFICES ASSUME EtfInit PROVE EtfInv
    OBVIOUS
  <2>1. /\ acquired.stray = FALSE /\ acquired.times = {} /\ stage = "identity"
        /\ etf \in EtfWorlds /\ inquiry \in EtfRequests /\ instant \in StartInstants
        /\ optionView = NotViewed
    BY DEF EtfInit, NothingYet
  <2>2. EtfTypes
    BY <2>1, EtfAssumption DEF EtfTypes
  <2>3. TimesAreOfTheDay
    BY <2>1, FS_EmptySet DEF TimesAreOfTheDay
  <2>4. ~Folding /\ stage \notin AfterMonths /\ stage \notin AfterCalls /\ stage \notin AfterPuts
    BY <2>1, EtfStages DEF Folding
  <2> QED BY <2>1, <2>2, <2>3, <2>4
          DEF EtfInv, MonthIsSelected, CallsAreListed, PutsAreListed, ViewedLast
<1>2. EtfInv /\ [EtfNext]_etfVars => EtfInv'
  BY EtfStep
<1>3. EtfInv => OptionViewIsTrue
  BY DEF EtfInv, ViewedLast, OptionViewIsTrue
<1> QED BY <1>1, <1>2, <1>3, PTL DEF EtfSpec

-----------------------------------------------------------------------------
(* AShareUniverse.  A partition never says more of a share than was on record *)
(* at the cutoff; a list that is whole has every share in force; and a        *)
(* complete partition, which has as many identities as its list has codes,    *)
(* has one of each.                                                           *)

UniverseExchanges == {"SSE", "SZSE", "BSE"}
UniverseTypes ==
  /\ register \in Registers /\ universeAsked \in UniverseAsked
  /\ universe = NotStated => RequestIsValid(universeAsked)
\* Partitions are built in the order of the exchanges.
PartitionsInOrder == DOMAIN partitions \in {{}, {"SSE"}, {"SSE", "SZSE"}, UniverseExchanges}
CodesOf(shares) == {row.code : row \in shares}
InForceCodes(exchange) == CodesOf({s \in register[exchange] : InForce(s)})
ExpectedCodes(securities) == {code \in DOMAIN securities : securities[code].state = "expected"}
\* A list that is taken has all codes in force, each of a share, under its own name.
ListIsWhole(exchange, list) ==
  /\ CodesOf(list.rows) \subseteq CodesOf(register[exchange])
  /\ InForceCodes(exchange) \subseteq CodesOf(list.rows)
  /\ \A row \in list.rows : row.name = row.code
  /\ list.total = Cardinality(CodesOf(list.rows))
PendingIsWhole ==
  pendingList # NotStated => \A exchange : AsksFor(exchange) => ListIsWhole(exchange, pendingList)
\* What a state and its reasons say of a share.
TellsOf(security, share) ==
  /\ security.state = "excluded" => ~InForce(share)
  /\ security.reasons = {} => InForce(share)
PartitionTells(exchange, securities) ==
  \A share \in register[exchange] :
    share.code \in DOMAIN securities => TellsOf(securities[share.code], share)
PartitionProves(exchange, partition) ==
  partition.complete => ExpectedCodes(partition.securities) = InForceCodes(exchange)
PartitionsHold ==
  \A exchange \in DOMAIN partitions :
    /\ PartitionTells(exchange, partitions[exchange].securities)
    /\ PartitionProves(exchange, partitions[exchange])
FullIsComplete ==
  universe = TRUE =>
    DOMAIN partitions = UniverseExchanges /\ \A exchange \in UniverseExchanges : partitions[exchange].complete
UniverseInv ==
  UniverseTypes /\ PartitionsInOrder /\ PendingIsWhole /\ PartitionsHold /\ FullIsComplete

\* What is on record is on record later too.
LEMMA RegisterFacts ==
  ASSUME UniverseTypes, NEW exchange \in UniverseExchanges
  PROVE  /\ IsFiniteSet(register[exchange])
         /\ \A s, t \in register[exchange] : s.code = t.code => s = t
         /\ \A s \in register[exchange] :
              /\ s.filed \in Int /\ s.endFiled \in Int /\ s.from \in Int
              /\ s.end # NotStated => s.end \in Int /\ s.filed <= s.endFiled
         /\ universeAsked.screen \in Int /\ universeAsked.cutoff \in Int
         /\ universeAsked.now \in Int /\ universeAsked.now <= 14
BY UniverseAssumption DEF UniverseTypes, UniverseExchanges, LastMoment

\* An exchange that is asked is the next one.
LEMMA AskedInOrder ==
  ASSUME UniverseInv, NEW exchange, AsksFor(exchange)
  PROVE  /\ universe = NotStated /\ exchange \in UniverseExchanges /\ exchange \notin DOMAIN partitions
         /\ DOMAIN partitions \cup {exchange} \in {{}, {"SSE"}, {"SSE", "SZSE"}, UniverseExchanges}
<1>1. universe = NotStated /\ Cardinality(DOMAIN partitions) < 3
      /\ exchange = ExchangeOrder[Cardinality(DOMAIN partitions) + 1]
  BY DEF AsksFor, ExchangeOrder
<1>2. /\ Cardinality({}) = 0 /\ Cardinality({"SSE"}) = 1 /\ Cardinality({"SSE", "SZSE"}) = 2
      /\ Cardinality(UniverseExchanges) = 3
  <2>1. Cardinality({}) = 0 /\ IsFiniteSet({})
    BY FS_EmptySet
  <2>2. {"SSE"} = {} \cup {"SSE"} /\ {"SSE", "SZSE"} = {"SSE"} \cup {"SZSE"}
        /\ UniverseExchanges = {"SSE", "SZSE"} \cup {"BSE"}
    BY DEF UniverseExchanges
  <2>3. Cardinality({"SSE"}) = 1 /\ IsFiniteSet({"SSE"})
    BY FS_Singleton
  <2>4. Cardinality({"SSE", "SZSE"}) = 2 /\ IsFiniteSet({"SSE", "SZSE"})
    BY <2>2, <2>3, FS_AddElement
  <2>5. Cardinality(UniverseExchanges) = 3
    BY <2>2, <2>4, FS_AddElement
  <2> QED BY <2>1, <2>3, <2>4, <2>5
<1>3. DOMAIN partitions \in {{}, {"SSE"}, {"SSE", "SZSE"}, UniverseExchanges}
  BY DEF UniverseInv, PartitionsInOrder
<1>4. CASE DOMAIN partitions = {}
  BY <1>1, <1>2, <1>4 DEF ExchangeOrder, UniverseExchanges
<1>5. CASE DOMAIN partitions = {"SSE"}
  BY <1>1, <1>2, <1>5 DEF ExchangeOrder, UniverseExchanges
<1>6. CASE DOMAIN partitions = {"SSE", "SZSE"}
  BY <1>1, <1>2, <1>6 DEF ExchangeOrder, UniverseExchanges
<1> QED BY <1>1, <1>2, <1>3, <1>4, <1>5, <1>6

\* The cutoff is not after the moments at which sources answer.
LEMMA AnsweredAfterCutoff ==
  ASSUME UniverseInv, universe = NotStated, NEW at \in UniverseMoments
  PROVE  at \in Int /\ universeAsked.cutoff <= at
<1>1. /\ universeAsked.cutoff \in Int /\ universeAsked.now \in Int /\ universeAsked.now <= 14
      /\ universeAsked.cutoff <= universeAsked.now
  BY RegisterFacts DEF UniverseInv, UniverseTypes, RequestIsValid, UniverseExchanges
<1> QED BY <1>1 DEF UniverseMoments, LastMoment

\* Evidence of a share that was on record at the cutoff tells what it was then, whether it
\* is of then or of later.
LEMMA RowTells ==
  ASSUME UniverseInv, NEW exchange \in UniverseExchanges, NEW share \in register[exchange],
         NEW row, NEW of \in Int, universeAsked.cutoff <= of,
         \/ row.available = NotStated
         \/ /\ row.available = RecordFiled(share, of)
            /\ row.to = IF EndKnown(share, of) THEN share.end ELSE NotStated,
         row.from = share.from \/ row.from = NotStated
  PROVE  /\ Classified(row).state \in {"expected", "excluded"}
         /\ Classified(row).state = "expected" =>
              Classified(row).reasons \subseteq {"listing_state_unproven", "as_of_unproven"}
         /\ TellsOf(Classified(row), share)
<1>1. StateReasons(row) \subseteq {"listing_state_unproven"}
  BY DEF StateReasons
<1>2. CASE ~ProvedByCutoff(row)
  <2>1. Classified(row) = Security("expected", StateReasons(row) \cup {"as_of_unproven"})
    BY <1>2 DEF Classified
  <2> QED BY <1>1, <2>1 DEF Security, TellsOf
<1>3. CASE ProvedByCutoff(row)
  <2> DEFINE screen == universeAsked.screen
             outside == \/ row.from # NotStated /\ row.from > screen
                        \/ row.to # NotStated /\ row.to < screen
             reasons == StateReasons(row) \cup (IF row.from = NotStated THEN {"as_of_unproven"} ELSE {})
  <2>1. Classified(row) = IF outside THEN Security("excluded", {"outside_listing_interval"})
                          ELSE Security("expected", reasons)
    BY <1>3 DEF Classified, ClassifiedWhenever
  <2>2. /\ row.available # NotStated /\ RecordFiled(share, of) <= universeAsked.cutoff
        /\ row.to = IF EndKnown(share, of) THEN share.end ELSE NotStated
    BY <1>3 DEF ProvedByCutoff
  <2>3. /\ share.filed \in Int /\ share.endFiled \in Int /\ share.from \in Int
        /\ share.end # NotStated => share.end \in Int /\ share.filed <= share.endFiled
        /\ universeAsked.cutoff \in Int /\ screen \in Int
    BY RegisterFacts DEF UniverseInv
  <2>4. EndKnown(share, of) <=> EndKnown(share, universeAsked.cutoff)
    BY <2>2, <2>3 DEF EndKnown, RecordFiled
  <2>5. share.filed <= universeAsked.cutoff
    BY <2>2, <2>3 DEF EndKnown, RecordFiled
  <2>6. outside => ~InForce(share)
    BY <2>2, <2>3, <2>4 DEF InForce, EndKnown
  <2>7. ~outside /\ row.from # NotStated => InForce(share)
    BY <2>2, <2>3, <2>4, <2>5 DEF InForce, EndKnown
  <2> HIDE DEF outside
  <2>8. CASE outside
    BY <2>1, <2>6, <2>8 DEF Security, TellsOf
  <2>9. CASE ~outside
    BY <1>1, <2>1, <2>7, <2>9 DEF Security, TellsOf
  <2> QED BY <2>8, <2>9
<1> QED BY <1>2, <1>3

\* A row of evidence that passes is of a share of the exchange, unless what it says of the
\* time is not stated.
RowIsOf(row, share, of) ==
  /\ row.code = share.code
  /\ \/ row.available = NotStated
     \/ /\ row.available = RecordFiled(share, of)
        /\ row.to = IF EndKnown(share, of) THEN share.end ELSE NotStated
  /\ row.from = share.from \/ row.from = NotStated
NamedAsListed(row, list) == \E listed \in list.rows : listed.code = row.code /\ listed.name = row.name

LEMMA TrueRowIsOf ==
  ASSUME NEW share, NEW of PROVE RowIsOf(IdentityRow(share, of), share, of)
BY DEF RowIsOf, IdentityRow

LEMMA FlawedRowIsOf ==
  ASSUME NEW share, NEW of, NEW at \in Int, NEW row \in RowFlaws(IdentityRow(share, of), at),
         row.from # NotStated /\ row.to # NotStated => row.from <= row.to,
         row.available # NotStated => row.available <= at,
         NEW list, \A listed \in list.rows : listed.name = listed.code, NamedAsListed(row, list)
  PROVE  RowIsOf(row, share, of)
<1> DEFINE true == IdentityRow(share, of)
<1>1. /\ true.code = share.code /\ true.name = share.code /\ true.from = share.from
      /\ true.to = (IF EndKnown(share, of) THEN share.end ELSE NotStated)
      /\ true.available = RecordFiled(share, of)
      /\ DOMAIN true = {"code", "name", "stateKnown", "from", "to", "observed", "available"}
      /\ true = [f \in DOMAIN true |-> true[f]]
  BY DEF IdentityRow
<1>2. \/ row = [true EXCEPT !.available = NotStated] \/ row = [true EXCEPT !.stateKnown = FALSE]
      \/ row = [true EXCEPT !.from = NotStated] \/ row = [true EXCEPT !.available = NotStated, !.observed = at]
      \/ row = [true EXCEPT !.available = at + 1] \/ row = [true EXCEPT !.name = "other"]
      \/ row = [true EXCEPT !.code = "other"] \/ row = [true EXCEPT !.from = 3, !.to = 2]
  BY DEF RowFlaws
<1> HIDE DEF true
<1>3. CASE row = [true EXCEPT !.available = NotStated] \/ row = [true EXCEPT !.available = NotStated, !.observed = at]
  BY <1>1, <1>3 DEF RowIsOf
<1>4. CASE row = [true EXCEPT !.stateKnown = FALSE] \/ row = [true EXCEPT !.name = "other"]
  BY <1>1, <1>4 DEF RowIsOf
<1>5. CASE row = [true EXCEPT !.from = NotStated]
  BY <1>1, <1>5 DEF RowIsOf
<1>6. CASE row = [true EXCEPT !.available = at + 1]
  <2>1. row.available = at + 1
    BY <1>1, <1>6
  <2> QED BY <2>1, UniverseAssumption
<1>7. CASE row = [true EXCEPT !.code = "other"]
  <2>1. /\ row.name = share.code /\ row.from = share.from /\ row.available = true.available
        /\ row.to = true.to
    BY <1>1, <1>7
  <2>2. row.code = row.name
    BY DEF NamedAsListed
  <2> QED BY <1>1, <2>1, <2>2 DEF RowIsOf
<1>8. CASE row = [true EXCEPT !.from = 3, !.to = 2]
  <2>1. row.from = 3 /\ row.to = 2
    BY <1>1, <1>8
  <2> QED BY <2>1, UniverseAssumption
<1> QED BY <1>2, <1>3, <1>4, <1>5, <1>6, <1>7, <1>8

\* So is every row of a batch that passes.
LEMMA BatchIsOfShares ==
  ASSUME UniverseInv, NEW exchange \in UniverseExchanges, ListIsWhole(exchange, pendingList),
         NEW at \in Int, NEW of,
         NEW given \in {TrueIdentities(exchange, of, at)} \cup FlawedIdentities(exchange, of, at),
         IdentitiesAreValid(exchange, given), Reconciles(pendingList, given)
  PROVE  \A row \in given.rows : \E share \in register[exchange] : RowIsOf(row, share, of)
<1> DEFINE true == TrueIdentities(exchange, of, at)
           shares == {s \in register[exchange] : s.code \in {row.code : row \in pendingList.rows}}
<1>1. /\ true.retrieved = at /\ true.rows = {IdentityRow(s, of) : s \in shares}
      /\ true = [exchange |-> exchange, total |-> pendingList.total, retrieved |-> at, rows |-> true.rows,
                 result |-> true.result]
  BY DEF TrueIdentities
<1>2. ASSUME NEW row \in true.rows
      PROVE  \E share \in register[exchange] : RowIsOf(row, share, of) /\ row = IdentityRow(share, of)
  BY <1>1, <1>2, TrueRowIsOf
<1> HIDE DEF true, shares
<1>3. /\ given.retrieved = at
      /\ \A row \in given.rows :
           row \in true.rows \/ \E r \in true.rows : row \in RowFlaws(r, at)
  <2>1. CASE given = true
    BY <1>1, <2>1
  <2>2. CASE \E lines \in SUBSET true.rows, result \in SourceResults :
               given = BatchAs(true, lines, result)
    BY <1>1, <2>2 DEF BatchAs
  <2>3. CASE \/ given = [true EXCEPT !.total = @ + 1, !.result = "partial"]
             \/ given = [true EXCEPT !.exchange = "other"]
    BY <1>1, <2>3
  <2>4. CASE \E row \in true.rows, flawed \in UNION {RowFlaws(r, at) : r \in true.rows} :
               given = [true EXCEPT !.rows = (@ \ {row}) \cup {flawed}]
    <3>1. PICK row \in true.rows, flawed \in UNION {RowFlaws(r, at) : r \in true.rows} :
                 given = [true EXCEPT !.rows = (@ \ {row}) \cup {flawed}]
      BY <2>4
    <3>2. given.retrieved = at /\ given.rows = (true.rows \ {row}) \cup {flawed}
      BY <1>1, <3>1
    <3> QED BY <3>2
  <2>5. \/ given = true
        \/ given \in {BatchAs(true, lines, result) : lines \in SUBSET true.rows, result \in SourceResults}
        \/ given \in {[true EXCEPT !.total = @ + 1, !.result = "partial"], [true EXCEPT !.exchange = "other"]}
        \/ given \in {[true EXCEPT !.rows = (@ \ {row}) \cup {flawed}] :
                        row \in true.rows, flawed \in UNION {RowFlaws(r, at) : r \in true.rows}}
    BY DEF FlawedIdentities, true
  <2> QED BY <2>1, <2>2, <2>3, <2>4, <2>5
<1>4. SUFFICES ASSUME NEW row \in given.rows
               PROVE  \E share \in register[exchange] : RowIsOf(row, share, of)
  OBVIOUS
<1>5. CASE row \in true.rows
  BY <1>2, <1>5
<1>6. CASE \E r \in true.rows : row \in RowFlaws(r, at)
  <2>1. PICK r \in true.rows : row \in RowFlaws(r, at)
    BY <1>6
  <2>2. PICK share \in register[exchange] : r = IdentityRow(share, of)
    BY <1>2
  <2>3. /\ row.from # NotStated /\ row.to # NotStated => row.from <= row.to
        /\ row.available # NotStated => row.available <= at
    BY <1>3 DEF IdentitiesAreValid
  <2>4. NamedAsListed(row, pendingList) /\ \A listed \in pendingList.rows : listed.name = listed.code
    BY DEF Reconciles, NamedAsListed, ListIsWhole
  <2> QED BY <2>1, <2>2, <2>3, <2>4, FlawedRowIsOf
<1> QED BY <1>3, <1>5, <1>6

\* What is reconciled tells of each share what was on record at the cutoff, and if it is
\* complete it tells of all.
LEMMA ReconciledHolds ==
  ASSUME UniverseInv, NEW exchange \in UniverseExchanges, ListIsWhole(exchange, pendingList),
         NEW of \in Int, universeAsked.cutoff <= of, NEW given,
         \A row \in given.rows : \E share \in register[exchange] : RowIsOf(row, share, of),
         IdentitiesAreValid(exchange, given), Reconciles(pendingList, given)
  PROVE  LET partition == Reconciled(pendingList, given) IN
           PartitionTells(exchange, partition.securities) /\ PartitionProves(exchange, partition)
<1> DEFINE codes == CodesOf(pendingList.rows)
           resolved == CodesOf(given.rows)
           rowOf(code) == CHOOSE row \in given.rows : row.code = code
           securities == [code \in codes |-> IF code \in resolved THEN Classified(rowOf(code))
                                             ELSE UnresolvedSecurity]
           partition == Reconciled(pendingList, given)
<1>1. partition.securities = securities
  BY DEF Reconciled, CodesOf
<1>2. partition.complete =>
        /\ Cardinality(given.rows) = pendingList.total
        /\ \A code \in codes : securities[code].state = "expected" =>
             securities[code].reasons \cap {"listing_state_unproven", "as_of_unproven"} = {}
  BY DEF Reconciled, CodesOf
<1> HIDE DEF partition
<1>3. ASSUME NEW share \in register[exchange], share.code \in resolved
      PROVE  /\ Classified(rowOf(share.code)).state \in {"expected", "excluded"}
             /\ Classified(rowOf(share.code)).state = "expected" =>
                  Classified(rowOf(share.code)).reasons \subseteq {"listing_state_unproven", "as_of_unproven"}
             /\ TellsOf(Classified(rowOf(share.code)), share)
  <2> DEFINE row == rowOf(share.code)
  <2>1. row \in given.rows /\ row.code = share.code
    BY <1>3 DEF CodesOf
  <2>2. PICK s \in register[exchange] : RowIsOf(row, s, of)
    BY <2>1
  <2>3. s = share
    BY <2>1, <2>2, RegisterFacts DEF RowIsOf, UniverseInv
  <2> HIDE DEF row
  <2>4. /\ Classified(row).state \in {"expected", "excluded"}
        /\ Classified(row).state = "expected" =>
             Classified(row).reasons \subseteq {"listing_state_unproven", "as_of_unproven"}
        /\ TellsOf(Classified(row), share)
    BY <2>2, <2>3, RowTells DEF RowIsOf
  <2> QED BY <2>4 DEF row
<1>4. PartitionTells(exchange, securities)
  <2> SUFFICES ASSUME NEW share \in register[exchange], share.code \in codes
               PROVE  TellsOf(securities[share.code], share)
    BY DEF PartitionTells
  <2>1. CASE share.code \in resolved
    BY <1>3, <2>1
  <2>2. CASE share.code \notin resolved
    BY <2>2 DEF UnresolvedSecurity, Security, TellsOf
  <2> QED BY <2>1, <2>2
<1>5. ASSUME partition.complete PROVE ExpectedCodes(securities) = InForceCodes(exchange)
  <2>1. resolved \subseteq codes
    BY DEF Reconciles, CodesOf
  <2>2. IsFiniteSet(codes)
    <3> DEFINE all == CodesOf(register[exchange])
               code == [s \in register[exchange] |-> s.code]
    <3>1. code \in Surjection(register[exchange], all)
      BY DEF CodesOf, Surjection
    <3>2. IsFiniteSet(all)
      BY <3>1, RegisterFacts, FS_Surjection DEF UniverseInv
    <3> QED BY <3>2, FS_Subset DEF ListIsWhole
  <2>3. Cardinality(resolved) = Cardinality(codes)
    BY <1>2, <1>5 DEF IdentitiesAreValid, CodesOf, ListIsWhole
  <2>4. resolved = codes
    <3> HIDE DEF resolved, codes
    <3> QED BY <2>1, <2>2, <2>3, FS_Subset
  <2>5. ASSUME NEW code \in codes, securities[code].state = "expected"
        PROVE  code \in InForceCodes(exchange)
    <3>1. PICK share \in register[exchange] : share.code = code
      BY DEF ListIsWhole, CodesOf
    <3>2. securities[code] = Classified(rowOf(share.code)) /\ share.code \in resolved
      BY <2>4, <3>1
    <3>3. securities[code].reasons = {}
      BY <1>2, <1>3, <1>5, <2>5, <3>2
    <3>4. InForce(share)
      BY <1>3, <3>2, <3>3 DEF TellsOf
    <3> QED BY <3>1, <3>4 DEF InForceCodes, CodesOf
  <2>6. ASSUME NEW code \in InForceCodes(exchange)
        PROVE  code \in codes /\ securities[code].state = "expected"
    <3>1. PICK share \in register[exchange] : share.code = code /\ InForce(share)
      BY DEF InForceCodes, CodesOf
    <3>2. code \in codes /\ code \in resolved
      BY <2>4 DEF ListIsWhole
    <3>3. securities[code] = Classified(rowOf(share.code))
      BY <3>1, <3>2
    <3> QED BY <1>3, <3>1, <3>2, <3>3 DEF TellsOf
  <2> HIDE DEF codes
  <2>7. DOMAIN securities = codes
    OBVIOUS
  <2> HIDE DEF securities
  <2> QED BY <2>5, <2>6, <2>7 DEF ExpectedCodes
<1> QED BY <1>1, <1>4, <1>5 DEF PartitionProves, partition

\* A list that is valid and complete has every share in force, whatever it lost or claims:
\* no more is left out of it than its total tells, and every share in force is on record
\* when sources answer.
LEMMA TakenListIsWhole ==
  ASSUME UniverseInv, universe = NotStated, NEW exchange \in UniverseExchanges,
         NEW at \in UniverseMoments,
         NEW list \in {TrueList(exchange, at)} \cup DefaultLists(exchange, at) \cup FlawedLists(exchange, at),
         ListIsValid(exchange, list), ListIsComplete(list)
  PROVE  ListIsWhole(exchange, list)
<1> DEFINE true == TrueList(exchange, at)
           onRecord == {x \in register[exchange] : x.filed <= at /\ x.from <= universeAsked.screen}
           filed == {x \in register[exchange] : x.filed <= at}
           wide == {ListRow(exchange, s) : s \in filed}
           All == {ListRow(exchange, s) : s \in register[exchange]}
           InForceRows == {ListRow(exchange, s) : s \in {x \in register[exchange] : InForce(x)}}
<1>1. /\ true.rows = {ListRow(exchange, s) : s \in onRecord}
      /\ true.total = Cardinality(true.rows)
      /\ true = [exchange |-> true.exchange, date |-> true.date, attempted |-> true.attempted, rows |-> true.rows,
                 total |-> true.total, pages |-> true.pages, received |-> true.received,
                 retrieved |-> true.retrieved, result |-> true.result]
  BY DEF TrueList
<1>2. IsFiniteSet(true.rows)
  <2> DEFINE row == [s \in onRecord |-> ListRow(exchange, s)]
  <2>1. IsFiniteSet(onRecord)
    BY RegisterFacts, FS_Subset DEF UniverseInv
  <2>2. row \in Surjection(onRecord, true.rows)
    BY <1>1 DEF Surjection
  <2> HIDE DEF row, onRecord, true
  <2> QED BY <2>1, <2>2, FS_Surjection
<1>3. InForceRows \subseteq true.rows /\ true.rows \subseteq All /\ InForceRows \subseteq wide /\ wide \subseteq All
  <2>1. ASSUME NEW s \in register[exchange], InForce(s) PROVE s \in onRecord /\ s \in filed
    BY <2>1, AnsweredAfterCutoff, RegisterFacts DEF InForce, UniverseInv
  <2> QED BY <1>1, <2>1
<1>4. list.total # NotStated /\ Cardinality(list.rows) = list.total
  BY DEF ListIsComplete
<1> HIDE DEF true, wide, All, InForceRows
<1>5. InForceRows \subseteq list.rows /\ list.rows \subseteq All
  <2>1. CASE list = true
    BY <1>3, <2>1
  <2>2. CASE list \in DefaultLists(exchange, at)
    <3>1. ASSUME NEW lines, NEW pages, list = ListAs(true, lines, true.received, NotStated, pages, "partial")
          PROVE  FALSE
      BY <1>1, <1>4, <3>1 DEF ListAs
    <3>2. ASSUME NEW a, list = [ListAs(true, {}, 0, NotStated, NotStated, "unavailable") EXCEPT !.attempted = a]
          PROVE  FALSE
      BY <1>1, <1>4, <3>2 DEF ListAs
    <3> QED BY <2>2, <3>1, <3>2 DEF DefaultLists, true
  <2>3. CASE list \in FlawedLists(exchange, at)
    <3>1. ASSUME NEW lines \in SUBSET true.rows, NEW received, NEW stated \in {true.total, NotStated}, NEW pages,
                 NEW result, list = ListAs(true, lines, received, stated, pages, result)
          PROVE  list.rows = true.rows
      <4>1. list.rows = lines /\ list.total = stated
        BY <1>1, <3>1 DEF ListAs
      <4>2. Cardinality(lines) = Cardinality(true.rows)
        BY <1>1, <1>4, <4>1
      <4> QED BY <1>2, <4>1, <4>2, FS_Subset
    <3>2. ASSUME \/ list = [true EXCEPT !.date = universeAsked.screen - 1] \/ list = [true EXCEPT !.attempted = FALSE]
                 \/ list = [true EXCEPT !.exchange = "other"]
          PROVE  list.rows = true.rows
      BY <1>1, <3>2
    <3>3. ASSUME list = [true EXCEPT !.rows = wide, !.total = Cardinality(filed)]
          PROVE  list.rows = wide
      BY <1>1, <3>3
    <3>4. \/ list \in {ListAs(true, lines, received, stated, pages, result) :
                         lines \in SUBSET true.rows, received \in 0 .. true.pages, stated \in {true.total, NotStated},
                         pages \in {true.pages, NotStated}, result \in SourceResults}
          \/ list \in {[true EXCEPT !.date = universeAsked.screen - 1], [true EXCEPT !.attempted = FALSE],
                       [true EXCEPT !.exchange = "other"],
                       [true EXCEPT !.rows = wide, !.total = Cardinality(filed)]}
      BY <2>3 DEF FlawedLists, true, wide
    <3> QED BY <1>3, <3>1, <3>2, <3>3, <3>4
  <2> QED BY <2>1, <2>2, <2>3 DEF true
<1>6. \A s : ListRow(exchange, s).code = s.code /\ ListRow(exchange, s).name = s.code
  BY DEF ListRow
<1>7. CodesOf(list.rows) \subseteq CodesOf(register[exchange]) /\ \A row \in list.rows : row.name = row.code
  BY <1>5, <1>6 DEF All, CodesOf
<1>8. InForceCodes(exchange) \subseteq CodesOf(list.rows)
  BY <1>5, <1>6 DEF InForceRows, InForceCodes, CodesOf
<1>9. list.total = Cardinality(CodesOf(list.rows))
  BY <1>4 DEF ListIsValid, CodesOf
<1> QED BY <1>7, <1>8, <1>9 DEF ListIsWhole

\* A partition without identities says nothing of any share.
LEMMA UnresolvedHolds ==
  ASSUME NEW exchange, NEW lines, NEW stated, NEW limitation
  PROVE  LET partition == UnresolvedPartition(lines, stated, limitation) IN
           PartitionTells(exchange, partition.securities) /\ PartitionProves(exchange, partition)
BY DEF UnresolvedPartition, UnresolvedSecurity, Security, PartitionTells, TellsOf, PartitionProves

\* One more partition of which both hold.
LEMMA AddedPartitionHolds ==
  ASSUME UniverseInv, NEW exchange, AsksFor(exchange), NEW partition, Adds(exchange, partition),
         PartitionTells(exchange, partition.securities), PartitionProves(exchange, partition),
         UNCHANGED <<register, universeAsked>>
  PROVE  UniverseInv'
<1>1. /\ universe = NotStated /\ exchange \in UniverseExchanges /\ exchange \notin DOMAIN partitions
      /\ DOMAIN partitions \cup {exchange} \in {{}, {"SSE"}, {"SSE", "SZSE"}, UniverseExchanges}
  BY AskedInOrder
<1>2. /\ DOMAIN partitions' = DOMAIN partitions \cup {exchange}
      /\ partitions'[exchange] = partition
      /\ \A e \in DOMAIN partitions : partitions'[e] = partitions[e]
      /\ pendingList' = NotStated /\ universe' = universe
  BY <1>1 DEF Adds
<1>3. UniverseTypes' /\ PartitionsInOrder' /\ PendingIsWhole' /\ FullIsComplete'
  BY <1>1, <1>2, UniverseAssumption
  DEF UniverseInv, UniverseTypes, PartitionsInOrder, PendingIsWhole, FullIsComplete, RequestIsValid
<1>4. \A share : InForce(share)' <=> InForce(share)
  BY DEF InForce, EndKnown
<1>5. PartitionsHold'
  <2> SUFFICES ASSUME NEW e \in DOMAIN partitions'
               PROVE  PartitionTells(e, partitions[e].securities)' /\ PartitionProves(e, partitions[e])'
    BY DEF PartitionsHold
  <2>1. CASE e = exchange
    BY <1>2, <1>4, <2>1 DEF PartitionTells, TellsOf, PartitionProves, ExpectedCodes, InForceCodes, CodesOf
  <2>2. CASE e # exchange
    <3>1. PartitionTells(e, partitions[e].securities) /\ PartitionProves(e, partitions[e])
          /\ partitions'[e] = partitions[e]
      BY <1>2, <2>2 DEF UniverseInv, PartitionsHold
    <3> QED BY <1>4, <3>1 DEF PartitionTells, TellsOf, PartitionProves, ExpectedCodes, InForceCodes, CodesOf
  <2> QED BY <2>1, <2>2
<1> QED BY <1>3, <1>5 DEF UniverseInv

\* A step that builds no partition and takes no list.
LEMMA NoPartitionAdded ==
  ASSUME UniverseInv, UNCHANGED <<register, universeAsked, partitions>>,
         universe' = NotStated => universe = NotStated,
         PendingIsWhole', FullIsComplete'
  PROVE  UniverseInv'
<1>1. \A share : InForce(share)' <=> InForce(share)
  BY DEF InForce, EndKnown
<1>2. PartitionsHold'
  BY <1>1 DEF UniverseInv, PartitionsHold, PartitionTells, TellsOf, PartitionProves, ExpectedCodes,
              InForceCodes, CodesOf
<1>3. UniverseTypes' /\ PartitionsInOrder'
  BY DEF UniverseInv, UniverseTypes, PartitionsInOrder, RequestIsValid
<1> QED BY <1>2, <1>3 DEF UniverseInv

LEMMA RefusalKeepsUniverse ==
  ASSUME UniverseInv, universe = NotStated, RefusesUniverse, UNCHANGED <<register, universeAsked>>
  PROVE  UniverseInv'
<1>1. PendingIsWhole' /\ FullIsComplete'
  BY UniverseAssumption DEF RefusesUniverse, PendingIsWhole, FullIsComplete
<1> QED BY <1>1, NoPartitionAdded DEF RefusesUniverse

LEMMA TakenListKeepsUniverse ==
  ASSUME UniverseInv, NEW exchange, AsksFor(exchange), NEW at \in UniverseMoments,
         NEW list \in {TrueList(exchange, at)} \cup DefaultLists(exchange, at) \cup FlawedLists(exchange, at),
         TakesList(exchange, list), UNCHANGED <<register, universeAsked>>
  PROVE  UniverseInv'
<1>1. universe = NotStated /\ exchange \in UniverseExchanges
  BY AskedInOrder
<1>2. CASE RefusesUniverse
  BY <1>1, <1>2, RefusalKeepsUniverse
<1>3. CASE Adds(exchange, IncompleteList(list))
  BY <1>3, UnresolvedHolds, AddedPartitionHolds DEF IncompleteList
<1>4. CASE /\ ListIsValid(exchange, list) /\ ListIsComplete(list)
           /\ pendingList' = list /\ UNCHANGED <<partitions, universe>>
  <2>1. ListIsWhole(exchange, list)
    BY <1>1, <1>4, TakenListIsWhole
  <2>2. \A e : AsksFor(e)' => e = exchange
    BY <1>4 DEF AsksFor
  <2>3. ListIsWhole(exchange, list)'
    <3>1. \A share : InForce(share)' <=> InForce(share)
      BY DEF InForce, EndKnown
    <3> QED BY <2>1, <3>1 DEF ListIsWhole, CodesOf, InForceCodes
  <2>4. PendingIsWhole'
    BY <1>4, <2>2, <2>3 DEF PendingIsWhole
  <2>5. FullIsComplete'
    BY <1>4 DEF UniverseInv, FullIsComplete
  <2> QED BY <1>4, <2>4, <2>5, NoPartitionAdded
<1> QED BY <1>2, <1>3, <1>4 DEF TakesList

LEMMA ResolutionKeepsUniverse ==
  ASSUME UniverseInv, NEW exchange, ResolveIdentities(exchange)
  PROVE  UniverseInv'
<1>1. AsksFor(exchange) /\ pendingList # NotStated /\ UNCHANGED <<register, universeAsked>>
  BY DEF ResolveIdentities
<1>2. PICK at, of, given :
        /\ at \in UniverseMoments
        /\ of \in {universeAsked.cutoff, at}
        /\ given \in {TrueIdentities(exchange, of, at)} \cup FlawedIdentities(exchange, of, at)
        /\ TakesIdentities(exchange, given)
  BY DEF ResolveIdentities
<1>3. /\ universe = NotStated /\ exchange \in UniverseExchanges /\ at \in Int /\ of \in Int
      /\ universeAsked.cutoff <= of
  BY <1>1, <1>2, AskedInOrder, AnsweredAfterCutoff, RegisterFacts DEF UniverseInv
<1>4. ListIsWhole(exchange, pendingList)
  BY <1>1 DEF UniverseInv, PendingIsWhole
<1>5. CASE RefusesUniverse
  BY <1>1, <1>3, <1>5, RefusalKeepsUniverse
<1>6. CASE /\ IdentitiesAreValid(exchange, given) /\ Reconciles(pendingList, given)
           /\ Adds(exchange, Reconciled(pendingList, given))
  <2>1. \A row \in given.rows : \E share \in register[exchange] : RowIsOf(row, share, of)
    BY <1>2, <1>3, <1>4, <1>6, BatchIsOfShares
  <2>2. /\ PartitionTells(exchange, Reconciled(pendingList, given).securities)
        /\ PartitionProves(exchange, Reconciled(pendingList, given))
    BY <1>3, <1>4, <1>6, <2>1, ReconciledHolds
  <2> QED BY <1>1, <1>6, <2>2, AddedPartitionHolds
<1> QED BY <1>2, <1>5, <1>6 DEF TakesIdentities

LEMMA UniverseStep ==
  UniverseInv /\ [UniverseNext]_universeVars => UniverseInv'
<1> SUFFICES ASSUME UniverseInv, [UniverseNext]_universeVars PROVE UniverseInv'
  OBVIOUS
<1>1. ASSUME NEW exchange, MissingList(exchange) \/ MissingIdentity(exchange) PROVE UniverseInv'
  BY <1>1, UnresolvedHolds, AddedPartitionHolds DEF MissingList, MissingIdentity
<1>2. ASSUME NEW exchange, AcquireList(exchange) PROVE UniverseInv'
  <2>1. AsksFor(exchange) /\ UNCHANGED <<register, universeAsked>>
    BY <1>2 DEF AcquireList
  <2>2. PICK at, list :
          /\ at \in UniverseMoments
          /\ list \in {TrueList(exchange, at)} \cup DefaultLists(exchange, at) \cup FlawedLists(exchange, at)
          /\ TakesList(exchange, list)
    BY <1>2 DEF AcquireList
  <2> QED BY <2>1, <2>2, TakenListKeepsUniverse
<1>3. CASE AdapterRaises
  BY <1>3, RefusalKeepsUniverse DEF AdapterRaises
<1>4. CASE BuildUniverse
  <2>1. /\ UNCHANGED <<register, universeAsked, pendingList, partitions>> /\ universe = NotStated
        /\ Cardinality(DOMAIN partitions) = 3
        /\ universe' = \A exchange \in DOMAIN partitions : partitions[exchange].complete
    BY <1>4 DEF BuildUniverse, ExchangeOrder
  <2>2. DOMAIN partitions = UniverseExchanges
    <3>1. Cardinality({}) = 0 /\ IsFiniteSet({})
      BY FS_EmptySet
    <3>2. Cardinality({"SSE"}) = 1 /\ IsFiniteSet({"SSE"})
      BY FS_Singleton
    <3>3. {"SSE", "SZSE"} = {"SSE"} \cup {"SZSE"}
      OBVIOUS
    <3>4. Cardinality({"SSE", "SZSE"}) = 2
      BY <3>2, <3>3, FS_AddElement
    <3> QED BY <2>1, <3>1, <3>2, <3>4 DEF UniverseInv, PartitionsInOrder
  <2>3. \A e : ~AsksFor(e)'
    <3>1. Cardinality(DOMAIN partitions)' = 3 /\ Len(ExchangeOrder) = 3
      BY <2>1 DEF ExchangeOrder
    <3> QED BY <3>1 DEF AsksFor
  <2>4. FullIsComplete'
    BY <2>1, <2>2 DEF FullIsComplete
  <2> QED BY <2>1, <2>3, <2>4, NoPartitionAdded DEF PendingIsWhole
<1>5. CASE UNCHANGED universeVars
  <2>1. PendingIsWhole' /\ FullIsComplete'
    <3>1. UNCHANGED <<register, universeAsked, pendingList, partitions, universe>>
      BY <1>5 DEF universeVars
    <3>2. \A share : InForce(share)' <=> InForce(share)
      BY <3>1 DEF InForce, EndKnown
    <3>3. \A e : AsksFor(e)' <=> AsksFor(e)
      BY <3>1 DEF AsksFor
    <3>4. ASSUME NEW e, ListIsWhole(e, pendingList) PROVE ListIsWhole(e, pendingList)'
      BY <3>1, <3>2, <3>4 DEF ListIsWhole, CodesOf, InForceCodes
    <3> QED BY <3>1, <3>3, <3>4 DEF UniverseInv, PendingIsWhole, FullIsComplete
  <2> QED BY <1>5, <2>1, NoPartitionAdded DEF universeVars
<1> QED BY <1>1, <1>2, <1>3, <1>4, <1>5, ResolutionKeepsUniverse DEF UniverseNext

(* A universe that is called full is exactly what was in force on the three   *)
(* exchanges by the record of the cutoff, and no universe says of a share     *)
(* what was not on record then: whatever the exchanges have on record, and    *)
(* however many answers of their adapters are wrong or missing.               *)
THEOREM FullUniversesAreProved == UniverseSpec => []FullUniverseIsProved
<1>1. UniverseInit => UniverseInv
  <2> SUFFICES ASSUME UniverseInit PROVE UniverseInv
    OBVIOUS
  <2>1. DOMAIN partitions = {}
    BY DEF UniverseInit
  <2>2. UniverseTypes /\ FullIsComplete /\ PendingIsWhole
    BY UniverseAssumption DEF UniverseInit, UniverseTypes, FullIsComplete, PendingIsWhole
  <2> QED BY <2>1, <2>2 DEF UniverseInv, PartitionsInOrder, PartitionsHold
<1>2. UniverseInv /\ [UniverseNext]_universeVars => UniverseInv'
  BY UniverseStep
<1>3. UniverseInv => FullUniverseIsProved
  <2> SUFFICES ASSUME UniverseInv PROVE FullUniverseIsProved
    OBVIOUS
  <2>1. ASSUME NEW exchange \in DOMAIN partitions, NEW share \in register[exchange],
               share.code \in DOMAIN partitions[exchange].securities
        PROVE  TellsOf(partitions[exchange].securities[share.code], share)
    BY <2>1 DEF UniverseInv, PartitionsHold, PartitionTells
  <2>2. ASSUME universe = TRUE, NEW exchange \in UniverseExchanges
        PROVE  ExpectedCodes(partitions[exchange].securities) = InForceCodes(exchange)
    BY <2>2 DEF UniverseInv, PartitionsHold, PartitionProves, FullIsComplete
  <2>3. \A i \in DOMAIN ExchangeOrder : ExchangeOrder[i] \in UniverseExchanges
    BY DEF ExchangeOrder, UniverseExchanges
  <2> QED BY <2>1, <2>2, <2>3 DEF FullUniverseIsProved, TellsOf, ExpectedCodes, InForceCodes, CodesOf
<1> QED BY <1>1, <1>2, <1>3, PTL DEF UniverseSpec

-----------------------------------------------------------------------------
(* MarketFoundation.  A report that counts was read at a moment from which it  *)
(* says what its exchange said, and nothing was corrected between the cutoff   *)
(* and that moment; a total is the sum of what three such reports say, and so  *)
(* is every total that a kept result may have.                                 *)

SaysTheTruth(venue, row, at) ==
  \A metric \in Metrics : Usable(row, metric) => row.metrics[metric] = TrueMetric(venue, metric, at)
ReportIsTrue(venue, row) ==
  \E at \in Int :
    cutoff <= at /\ row.published = VersionAt(venue, at) /\ SaysTheTruth(venue, row, at)
IsAReport(row) ==
  row = [result |-> row.result, published |-> row.published, metrics |-> row.metrics,
         completeMetrics |-> row.completeMetrics, issued |-> row.issued]
KeptIsTrue ==
  /\ retained = [rows |-> retained.rows, totals |-> retained.totals, sameDay |-> retained.sameDay]
  /\ retained.rows = [venue \in Venues |-> retained.rows[venue]]
  /\ \A venue \in Venues :
       IsAReport(retained.rows[venue]) /\ SaysTheTruth(venue, retained.rows[venue], cutoff)
  /\ retained.totals = TotalsOf(retained.rows)
FoundationInv ==
  /\ public \in Publics /\ cutoff \in Cutoffs
  /\ \A venue \in Venues :
       Material(venue) => IsAReport(outcomes[venue]) /\ ReportIsTrue(venue, outcomes[venue])
  /\ total # NotFolded => WholeMarket(total)
  /\ retained # NotFolded => KeptIsTrue

\* The sum over what a report has of a metric is that over what there is.
LEMMA MetricOfFields ==
  ASSUME NEW venue \in Venues, NEW fields \in SUBSET SourceFields(venue), NEW metric \in Metrics,
         fields = SourceFields(venue) \/ (public.kind = "margin" /\ metric \in {MetricOf(f) : f \in fields})
  PROVE  {f \in fields : MetricOf(f) = metric} = {f \in SourceFields(venue) : MetricOf(f) = metric}
<1>1. CASE fields = SourceFields(venue)
  BY <1>1
<1>2. CASE public.kind = "margin" /\ metric \in {MetricOf(f) : f \in fields}
  <2>1. \A f \in fields : f \in {"money", "shares"} /\ MetricOf(f) = f
    BY <1>2 DEF SourceFields, MetricOf
  <2>2. SourceFields(venue) = {"money", "shares"} /\ \A f \in {"money", "shares"} : MetricOf(f) = f
    BY <1>2 DEF SourceFields, MetricOf
  <2> QED BY <1>2, <2>1, <2>2
<1> QED BY <1>1, <1>2

LEMMA AdoptedSaysTheTruth ==
  ASSUME public \in Publics, NEW venue \in Venues, NEW at \in Int, NEW report,
         report.fields \subseteq SourceFields(venue),
         TimeIsValid(venue, report, at), InventoryIsValid(venue, report), Attested(report)
  PROVE  SaysTheTruth(venue, AdoptedReport(venue, report, at), at)
<1> DEFINE row == AdoptedReport(venue, report, at)
<1> SUFFICES ASSUME NEW metric \in Metrics, Usable(row, metric)
             PROVE  row.metrics[metric] = TrueMetric(venue, metric, at)
  BY DEF SaysTheTruth
<1>1. /\ DOMAIN row.metrics = {MetricOf(f) : f \in report.fields}
      /\ metric \in DOMAIN row.metrics
      /\ row.metrics[metric] = SumOf([f \in {g \in report.fields : MetricOf(g) = metric} |->
                                        AmountStated(venue, report, f, at)])
  BY DEF AdoptedReport, Usable
<1>2. report.complete => report.fields = SourceFields(venue)
  BY <1>1 DEF InventoryIsValid
<1>3. report.complete \/ public.kind = "margin"
  BY DEF AdoptedReport, Usable
<1>4. {f \in report.fields : MetricOf(f) = metric} = {f \in SourceFields(venue) : MetricOf(f) = metric}
  BY <1>1, <1>2, <1>3, MetricOfFields
<1>5. ASSUME NEW f PROVE AmountStated(venue, report, f, at) = AmountAt(venue, f, at)
  <2>1. report.unit = "contract" /\ report.sameDay /\ report.scope = "qualified" /\ report.date = "matches"
    BY <1>1 DEF InventoryIsValid, Attested, TimeIsValid
  <2>2. public.amounts[venue] \in Int
    BY FoundationAssumption
  <2>3. AmountAt(venue, f, at) \in Int
    BY <2>2 DEF AmountAt
  <2> QED BY <2>1, <2>3 DEF AmountStated
<1> QED BY <1>1, <1>4, <1>5 DEF TrueMetric

\* What an operation brings of a report is true, if it counts.
LEMMA NormalizedIsTrue ==
  ASSUME public \in Publics, cutoff \in Cutoffs, NEW venue \in Venues, NEW at \in Int, cutoff <= at,
         NEW report, report.fields \subseteq SourceFields(venue),
         Normalized(venue, report, at).published # NotDated
  PROVE  IsAReport(Normalized(venue, report, at)) /\ ReportIsTrue(venue, Normalized(venue, report, at))
<1>1. /\ TimeIsValid(venue, report, at) /\ InventoryIsValid(venue, report) /\ Attested(report)
      /\ Normalized(venue, report, at) = AdoptedReport(venue, report, at)
  BY DEF Normalized, NotReported
<1>2. /\ IsAReport(AdoptedReport(venue, report, at))
      /\ AdoptedReport(venue, report, at).published = VersionAt(venue, at)
  BY DEF AdoptedReport, IsAReport
<1> QED BY <1>1, <1>2, AdoptedSaysTheTruth DEF ReportIsTrue

\* What is true of a moment depends on nothing but what happens.
LEMMA TruthStays ==
  ASSUME UNCHANGED public
  PROVE  /\ Metrics' = Metrics
         /\ \A venue, metric, at : TrueMetric(venue, metric, at)' = TrueMetric(venue, metric, at)
         /\ \A row, metric : Usable(row, metric)' = Usable(row, metric)
         /\ \A venue, at : VersionAt(venue, at)' = VersionAt(venue, at)
         /\ \A lines : TotalsOf(lines)' = TotalsOf(lines)
<1>1. Metrics' = Metrics
  BY DEF Metrics
<1>2. ASSUME NEW venue, NEW metric, NEW at
      PROVE  TrueMetric(venue, metric, at)' = TrueMetric(venue, metric, at)
  BY DEF TrueMetric, AmountAt, SourceFields
<1>3. ASSUME NEW row, NEW metric PROVE Usable(row, metric)' = Usable(row, metric)
  BY DEF Usable
<1>4. ASSUME NEW venue, NEW at PROVE VersionAt(venue, at)' = VersionAt(venue, at)
  BY DEF VersionAt
<1>5. ASSUME NEW lines PROVE TotalsOf(lines)' = TotalsOf(lines)
  BY <1>1 DEF TotalsOf, TotalOf, Usable
<1> QED BY <1>1, <1>2, <1>3, <1>4, <1>5

\* Whatever an operation ends with, the reports that count stay true.
LEMMA CompletesKeepsTruth ==
  ASSUME FoundationInv, NEW venue \in Venues, NEW outcome, Completes(venue, outcome),
         outcome.issued /\ outcome.published # NotDated =>
           IsAReport(outcome) /\ ReportIsTrue(venue, outcome)
  PROVE  FoundationInv'
<1>1. UNCHANGED <<public, cutoff, total, retained>>
  BY DEF Completes
<1>2. ASSUME NEW v \in Venues, Material(v)'
      PROVE  (IsAReport(outcomes[v]) /\ ReportIsTrue(v, outcomes[v]))'
  <2>1. IsAReport(outcomes'[v]) /\ ReportIsTrue(v, outcomes'[v])
    <3>1. CASE v = venue
      <4>1. outcomes'[v] = outcome
        BY <3>1 DEF Completes
      <4> QED BY <3>1, <4>1, <1>2 DEF Material
    <3>2. CASE v # venue
      <4>1. v \in DOMAIN outcomes /\ outcomes'[v] = outcomes[v]
        BY <1>2, <3>2 DEF Material, Completes
      <4> QED BY <1>2, <4>1 DEF Material, FoundationInv
    <3> QED BY <3>1, <3>2
  <2> QED BY <1>1, <2>1, TruthStays DEF ReportIsTrue, IsAReport, SaysTheTruth
<1>3. (total # NotFolded => WholeMarket(total))'
  BY <1>1, TruthStays DEF FoundationInv, WholeMarket
<1>4. (retained # NotFolded => KeptIsTrue)'
  BY <1>1, TruthStays DEF FoundationInv, KeptIsTrue, IsAReport, SaysTheTruth
<1> QED BY <1>1, <1>2, <1>3, <1>4 DEF FoundationInv

\* A total of reports that say the truth of a moment is the whole market's at that moment.
LEMMA TotalsOfTruth ==
  ASSUME NEW lines, NEW until, \A venue \in Venues : SaysTheTruth(venue, lines[venue], until),
         NEW metric \in Metrics, TotalOf(lines, metric) # NoTotal
  PROVE  TotalOf(lines, metric) = SumOf([venue \in Venues |-> TrueMetric(venue, metric, until)])
<1>1. \A venue \in Venues : Usable(lines[venue], metric)
  BY DEF TotalOf
<1>2. [venue \in Venues |-> lines[venue].metrics[metric]]
        = [venue \in Venues |-> TrueMetric(venue, metric, until)]
  BY <1>1 DEF SaysTheTruth
<1> QED BY <1>1, <1>2 DEF TotalOf

\* The reports of a fold say the truth of its cutoff.
LEMMA FoldedSaysTheTruth ==
  ASSUME FoundationInv, NEW until \in Cutoffs, until <= cutoff, NEW venue \in Venues
  PROVE  IsAReport(FoldedBy(until)[venue]) /\ SaysTheTruth(venue, FoldedBy(until)[venue], until)
<1>0. until \in Int /\ cutoff \in Int
  BY FoundationAssumption DEF FoundationInv
<1>1. CASE Material(venue) /\ outcomes[venue].published <= until
  <2>1. FoldedBy(until)[venue] = outcomes[venue] /\ IsAReport(outcomes[venue])
    BY <1>1 DEF FoldedBy, FoundationInv
  <2>2. PICK at \in Int : /\ cutoff <= at /\ outcomes[venue].published = VersionAt(venue, at)
                          /\ SaysTheTruth(venue, outcomes[venue], at)
    BY <1>1 DEF FoundationInv, ReportIsTrue
  <2>3. venue = public.corrected => (at >= SecondVersion <=> until >= SecondVersion)
    BY <1>0, <1>1, <2>2 DEF VersionAt, SecondVersion, FirstVersion
  <2>4. \A field : AmountAt(venue, field, at) = AmountAt(venue, field, until)
    BY <2>3 DEF AmountAt
  <2>5. \A metric : TrueMetric(venue, metric, at) = TrueMetric(venue, metric, until)
    BY <2>4 DEF TrueMetric
  <2> QED BY <2>1, <2>2, <2>5 DEF SaysTheTruth
<1>2. CASE ~(Material(venue) /\ outcomes[venue].published <= until)
  <2>1. FoldedBy(until)[venue] = NotReported("unavailable")
    BY <1>2 DEF FoldedBy
  <2> QED BY <2>1 DEF NotReported, IsAReport, SaysTheTruth, Usable
<1> QED BY <1>1, <1>2

LEMMA FoldKeepsTruth ==
  ASSUME FoundationInv, FoldReports
  PROVE  FoundationInv'
<1>1. PICK until \in Cutoffs :
        /\ until <= cutoff /\ cutoff' = until /\ UNCHANGED <<public, outcomes>>
        /\ total' = TotalsOf(FoldedBy(until))
        /\ retained' = [rows |-> FoldedBy(until), totals |-> TotalsOf(FoldedBy(until)), sameDay |-> TRUE]
  BY DEF FoldReports
<1>0. until \in Int /\ cutoff \in Int
  BY FoundationAssumption DEF FoundationInv
<1> DEFINE lines == FoldedBy(until)
<1>2. \A venue \in Venues : IsAReport(lines[venue]) /\ SaysTheTruth(venue, lines[venue], until)
  BY <1>1, FoldedSaysTheTruth
<1>3. \A metric \in Metrics :
        TotalsOf(lines)[metric] # NoTotal =>
          TotalsOf(lines)[metric] = SumOf([venue \in Venues |-> TrueMetric(venue, metric, until)])
  BY <1>2, TotalsOfTruth DEF TotalsOf
<1>4. WholeMarket(total)'
  BY <1>1, <1>3, TruthStays DEF WholeMarket, TotalsOf
<1>5. KeptIsTrue'
  <2>1. lines = [venue \in Venues |-> lines[venue]]
    BY DEF FoldedBy
  <2>2. TotalsOf(lines) = TotalsOf(retained'.rows)
    BY <1>1
  <2>3. TotalsOf(retained'.rows) = TotalsOf(retained.rows)'
    BY <1>1, TruthStays
  <2> QED BY <1>1, <1>2, <2>1, <2>2, <2>3, TruthStays DEF KeptIsTrue, IsAReport, SaysTheTruth
<1>6. \A venue \in Venues : (Material(venue) => IsAReport(outcomes[venue]) /\ ReportIsTrue(venue, outcomes[venue]))'
  <2> SUFFICES ASSUME NEW venue \in Venues, Material(venue)'
               PROVE  (IsAReport(outcomes[venue]) /\ ReportIsTrue(venue, outcomes[venue]))'
    OBVIOUS
  <2>1. Material(venue)
    BY <1>1 DEF Material
  <2>2. PICK at \in Int : /\ cutoff <= at /\ outcomes[venue].published = VersionAt(venue, at)
                          /\ SaysTheTruth(venue, outcomes[venue], at)
    BY <2>1 DEF FoundationInv, ReportIsTrue
  <2>3. cutoff' <= at
    BY <1>0, <1>1, <2>2
  <2>4. outcomes'[venue].published = VersionAt(venue, at)' /\ SaysTheTruth(venue, outcomes[venue], at)'
    BY <1>1, <2>2, TruthStays DEF SaysTheTruth
  <2>5. IsAReport(outcomes[venue])'
    BY <1>1, <2>1 DEF FoundationInv, IsAReport
  <2> QED BY <2>3, <2>4, <2>5 DEF ReportIsTrue
<1> QED BY <1>1, <1>4, <1>5, <1>6 DEF FoundationInv

\* A kept result can only be read with less in it than it was kept with.
LEMMA RetainKeepsTruth ==
  ASSUME FoundationInv, Retain
  PROVE  FoundationInv'
<1>1. UNCHANGED <<public, cutoff, outcomes, total>> /\ retained # NotFolded /\ KeptIsTrue
  BY DEF Retain, FoundationInv
<1> DEFINE Less(changed) ==
      /\ changed = [rows |-> changed.rows, totals |-> changed.totals, sameDay |-> changed.sameDay]
      /\ changed.rows = [venue \in Venues |-> changed.rows[venue]]
      /\ \A venue \in Venues :
           IsAReport(changed.rows[venue]) /\ SaysTheTruth(venue, changed.rows[venue], cutoff)
<1>2. ASSUME NEW m, NEW t PROVE Less([retained EXCEPT !.totals[m] = t])
  BY <1>1 DEF KeptIsTrue
<1>3. ASSUME NEW v \in Venues PROVE Less([retained EXCEPT !.rows[v] = NotReported("unavailable")])
  <2>1. IsAReport(NotReported("unavailable")) /\ SaysTheTruth(v, NotReported("unavailable"), cutoff)
    BY DEF NotReported, IsAReport, SaysTheTruth, Usable
  <2> QED BY <1>1, <2>1 DEF KeptIsTrue
<1>4. ASSUME NEW v \in Venues PROVE Less([retained EXCEPT !.rows[v].completeMetrics = {}])
  <2> DEFINE row == retained.rows[v]
             less == [row EXCEPT !.completeMetrics = {}]
  <2>1. IsAReport(row) /\ SaysTheTruth(v, row, cutoff)
    BY <1>1 DEF KeptIsTrue
  <2>2. /\ less = [result |-> row.result, published |-> row.published, metrics |-> row.metrics,
                   completeMetrics |-> {}, issued |-> row.issued]
    BY <2>1 DEF IsAReport
  <2>3. IsAReport(less) /\ SaysTheTruth(v, less, cutoff)
    BY <2>1, <2>2 DEF IsAReport, SaysTheTruth, Usable
  <2>4. [retained EXCEPT !.rows[v].completeMetrics = {}]
          = [rows |-> [venue \in Venues |-> IF venue = v THEN less ELSE retained.rows[venue]],
             totals |-> retained.totals, sameDay |-> retained.sameDay]
    BY <1>1, SMTT(30) DEF KeptIsTrue
  <2> HIDE DEF row, less
  <2> QED BY <1>1, <2>3, <2>4 DEF KeptIsTrue
<1>5. ASSUME NEW e PROVE Less([retained EXCEPT !.sameDay = e])
  <2>1. [retained EXCEPT !.sameDay = e] = [rows |-> retained.rows, totals |-> retained.totals, sameDay |-> e]
    BY <1>1 DEF KeptIsTrue
  <2> QED BY <1>1, <2>1 DEF KeptIsTrue
<1>6. ASSUME retained' # NotFolded
      PROVE  Less(retained') /\ retained'.totals = TotalsOf(retained'.rows)
  <2> HIDE DEF Less
  <2>1. PICK changed :
          /\ changed \in {[retained EXCEPT !.totals[m] = t] : m \in Metrics, t \in {NoTotal, 0, 7}}
               \cup {[retained EXCEPT !.rows[v] = NotReported("unavailable")] : v \in Venues}
               \cup {[retained EXCEPT !.rows[v].completeMetrics = {}] : v \in Venues}
               \cup {[retained EXCEPT !.sameDay = FALSE]}
          /\ retained' = IF ResultIsValid(changed) THEN changed ELSE NotFolded
    BY DEF Retain
  <2>2. Less(changed)
    <3>1. CASE changed \in {[retained EXCEPT !.totals[m] = t] : m \in Metrics, t \in {NoTotal, 0, 7}}
      BY <3>1, <1>2
    <3>2. CASE changed \in {[retained EXCEPT !.rows[v] = NotReported("unavailable")] : v \in Venues}
      BY <3>2, <1>3
    <3>3. CASE changed \in {[retained EXCEPT !.rows[v].completeMetrics = {}] : v \in Venues}
      BY <3>3, <1>4
    <3>4. CASE changed = [retained EXCEPT !.sameDay = FALSE]
      BY <3>4, <1>5
    <3> QED BY <2>1, <3>1, <3>2, <3>3, <3>4
  <2> QED BY <1>6, <2>1, <2>2 DEF ResultIsValid
<1>7. (retained # NotFolded => KeptIsTrue)'
  <2> SUFFICES ASSUME retained' # NotFolded PROVE KeptIsTrue'
    OBVIOUS
  <2>1. TotalsOf(retained'.rows) = TotalsOf(retained.rows)'
    BY <1>1, TruthStays
  <2> QED BY <1>1, <1>6, <2>1, TruthStays DEF KeptIsTrue, IsAReport, SaysTheTruth
<1>8. (total # NotFolded => WholeMarket(total))'
  BY <1>1, TruthStays DEF FoundationInv, WholeMarket
<1>9. \A venue \in Venues : (Material(venue) => IsAReport(outcomes[venue]) /\ ReportIsTrue(venue, outcomes[venue]))'
  <2>1. \A venue \in Venues : Material(venue)' = Material(venue)
    BY <1>1 DEF Material
  <2> QED BY <1>1, <2>1, TruthStays DEF FoundationInv, ReportIsTrue, IsAReport, SaysTheTruth
<1> QED BY <1>1, <1>7, <1>8, <1>9 DEF FoundationInv

LEMMA OperationsKeepTruth ==
  ASSUME FoundationInv, NEW venue \in Venues,
         Execute(venue) \/ ExecuteSupplied(venue) \/ Unanswerable(venue) \/ Substitute(venue)
  PROVE  FoundationInv'
<1>0. public \in Publics /\ cutoff \in Cutoffs /\ cutoff \in Int
      /\ \A at \in Moments : at \in Int /\ cutoff <= at
  BY FoundationAssumption DEF FoundationInv, Moments, LastRetrieval
<1>1. CASE Execute(venue)
  <2>1. PICK answered \in BOOLEAN, at \in Moments :
          Completes(venue, Normalized(venue, DefaultReport(venue, answered), at))
    BY <1>1 DEF Execute
  <2>2. ~DefaultReport(venue, answered).dated
    BY DEF DefaultReport, Venues, SseReport, SzseReport, BseReport, Undated, RowlessReport, MoneyOnly, WholeReport
  <2>3. Normalized(venue, DefaultReport(venue, answered), at) = NotReported("unavailable")
    BY <2>2 DEF Normalized, Attested
  <2> QED BY <2>1, <2>3, CompletesKeepsTruth DEF NotReported
<1>2. CASE ExecuteSupplied(venue)
  <2>1. PICK shape \in ReportShapes, at \in Moments :
          Completes(venue, Normalized(venue, SuppliedReport(venue, shape), at))
    BY <1>2 DEF ExecuteSupplied
  <2>2. SuppliedReport(venue, shape).fields \subseteq SourceFields(venue)
    BY DEF SuppliedReport, WholeReport
  <2> QED BY <1>0, <2>1, <2>2, NormalizedIsTrue, CompletesKeepsTruth
<1>3. CASE Unanswerable(venue)
  BY <1>3, CompletesKeepsTruth DEF Unanswerable, NotReported
<1>4. CASE Substitute(venue)
  BY <1>4, CompletesKeepsTruth DEF Substitute, AdoptedReport
<1> QED BY <1>1, <1>2, <1>3, <1>4

(* A total that is given is what the three exchanges had published of it at    *)
(* the cutoff, all of it and nothing else, and so is any that a kept result    *)
(* gives: whatever they publish and correct, and whatever a transport returns. *)
THEOREM TotalsAreOfTheMarket == FoundationSpec => []TotalIsTheWholeMarket
<1>1. FoundationInit => FoundationInv
  BY DEF FoundationInit, FoundationInv, Material
<1>2. FoundationInv /\ [FoundationNext]_foundationVars => FoundationInv'
  <2> SUFFICES ASSUME FoundationInv, [FoundationNext]_foundationVars PROVE FoundationInv'
    OBVIOUS
  <2>1. CASE UNCHANGED foundationVars
    <3>1. UNCHANGED <<public, cutoff, outcomes, total, retained>>
      BY <2>1 DEF foundationVars
    <3>2. \A venue \in Venues : Material(venue)' = Material(venue)
      BY <3>1 DEF Material
    <3> QED BY <3>1, <3>2, TruthStays
      DEF FoundationInv, ReportIsTrue, IsAReport, SaysTheTruth, KeptIsTrue, WholeMarket
  <2> QED BY <2>1, OperationsKeepTruth, FoldKeepsTruth, RetainKeepsTruth DEF FoundationNext
<1>3. FoundationInv => TotalIsTheWholeMarket
  <2> SUFFICES ASSUME FoundationInv, retained # NotFolded PROVE WholeMarket(retained.totals)
    BY DEF FoundationInv, TotalIsTheWholeMarket
  <2>1. KeptIsTrue
    BY DEF FoundationInv
  <2> QED BY <2>1, TotalsOfTruth DEF KeptIsTrue, WholeMarket, TotalsOf
<1> QED BY <1>1, <1>2, <1>3, PTL DEF FoundationSpec

-----------------------------------------------------------------------------
(* ObservationTasks.  Rows are ordered by the place of who found them and      *)
(* their own; the first of a type is always within the limit, and what is not  *)
(* has as many before it as the limit allows.                                  *)

AnswersAreOfTurns ==
  /\ request \in Asked
  /\ batches \in Seq(ToSet(batches)) /\ Len(batches) <= Len(request.operations)
  /\ \A i \in DOMAIN batches : \E n \in Nat : DOMAIN batches[i].seen = 1 .. n
TasksInv ==
  /\ AnswersAreOfTurns
  /\ Over => AllAsked
  /\ EmptyIsProved /\ DisagreementIsShown

LEMMA TurnsOfAnswers ==
  ASSUME AnswersAreOfTurns
  PROVE  /\ IsFiniteSet(DOMAIN batches) /\ DOMAIN batches \subseteq Nat
         /\ \A i \in DOMAIN batches : PlaceOf(i) \in Nat
         /\ \A i, j \in DOMAIN batches : PlaceOf(i) = PlaceOf(j) => i = j
<1>1. /\ DOMAIN batches = 1 .. Len(batches) /\ Len(batches) \in Nat
      /\ DOMAIN request.operations = 1 .. Len(request.operations) /\ Len(request.operations) \in Nat
  BY AskedAssumption DEF AnswersAreOfTurns
<1>2. DOMAIN batches \subseteq DOMAIN Turns(request) /\ DOMAIN request.operations \subseteq Nat
  BY <1>1, AskedAssumption DEF AnswersAreOfTurns
<1>3. IsFiniteSet(DOMAIN batches)
  BY <1>1, FS_Interval
<1>4. ASSUME NEW i \in DOMAIN batches, request.task = "content"
      PROVE  /\ PlaceOf(i) \in DOMAIN request.operations
             /\ request.operations[PlaceOf(i)].id = Turns(request)[i].id
  BY <1>2, <1>4, AskedAssumption DEF PlaceOf, AnswersAreOfTurns
<1>5. ASSUME NEW i \in DOMAIN batches PROVE PlaceOf(i) \in Nat
  BY <1>1, <1>2, <1>4 DEF PlaceOf
<1>6. ASSUME NEW i \in DOMAIN batches, NEW j \in DOMAIN batches, PlaceOf(i) = PlaceOf(j)
      PROVE  i = j
  <2>1. CASE request.task = "content"
    <3>1. Turns(request)[i].id = Turns(request)[j].id
      BY <1>4, <1>6, <2>1
    <3> QED BY <3>1, <1>2, AskedAssumption DEF AnswersAreOfTurns
  <2>2. CASE request.task # "content"
    BY <1>6, <2>2 DEF PlaceOf
  <2> QED BY <2>1, <2>2
<1> QED BY <1>1, <1>3, <1>5, <1>6

LEMMA RowsInOrder ==
  ASSUME AnswersAreOfTurns
  PROVE  /\ IsFiniteSet(OwnedRows)
         /\ \A x \in OwnedRows : x.place \in Nat /\ x.at \in Nat
         /\ \A x, y \in OwnedRows : x.place = y.place /\ x.at = y.at => x = y
<1>1. ASSUME NEW i \in DOMAIN batches
      PROVE  IsFiniteSet(KeyedRows(i)) /\ Kept(batches[i]) \subseteq Nat
  <2>1. PICK n \in Nat : DOMAIN batches[i].seen = 1 .. n
    BY DEF AnswersAreOfTurns
  <2>2. IsFiniteSet(Kept(batches[i])) /\ Kept(batches[i]) \subseteq Nat
    BY <2>1, FS_Interval, FS_Subset DEF Kept
  <2> DEFINE key == [at \in Kept(batches[i]) |->
                       [row |-> batches[i].seen[at], by |-> Turns(request)[i].id,
                        place |-> PlaceOf(i), at |-> at]]
  <2>3. KeyedRows(i) = {key[at] : at \in Kept(batches[i])}
    BY DEF KeyedRows
  <2>4. key = [at \in Kept(batches[i]) |-> key[at]]
    OBVIOUS
  <2> HIDE DEF key
  <2> QED BY <2>2, <2>3, <2>4, ImageIsFinite
<1>2. IsFiniteSet(OwnedRows)
  <2> DEFINE lines == [i \in DOMAIN batches |-> KeyedRows(i)]
  <2>1. lines = [i \in DOMAIN batches |-> lines[i]]
        /\ {KeyedRows(i) : i \in DOMAIN batches} = {lines[i] : i \in DOMAIN batches}
        /\ \A T \in {KeyedRows(i) : i \in DOMAIN batches} : IsFiniteSet(T)
    BY <1>1
  <2> HIDE DEF lines
  <2>2. IsFiniteSet({KeyedRows(i) : i \in DOMAIN batches})
    <3>1. IsFiniteSet(DOMAIN batches)
      BY TurnsOfAnswers
    <3>2. IsFiniteSet({lines[i] : i \in DOMAIN batches})
      BY <2>1, <3>1, ImageIsFinite
    <3> QED BY <2>1, <3>2
  <2> QED BY <2>1, <2>2, FS_UNION DEF OwnedRows
<1>3. ASSUME NEW x \in OwnedRows
      PROVE  \E i \in DOMAIN batches : \E at \in Kept(batches[i]) :
               /\ x = [row |-> batches[i].seen[at], by |-> Turns(request)[i].id,
                       place |-> PlaceOf(i), at |-> at]
               /\ x.place = PlaceOf(i) /\ x.at = at
  BY DEF OwnedRows, KeyedRows
<1>4. ASSUME NEW x \in OwnedRows PROVE x.place \in Nat /\ x.at \in Nat
  BY <1>1, <1>3, TurnsOfAnswers
<1>5. ASSUME NEW x \in OwnedRows, NEW y \in OwnedRows, x.place = y.place, x.at = y.at
      PROVE  x = y
  <2>1. PICK i \in DOMAIN batches : \E at \in Kept(batches[i]) :
               /\ x = [row |-> batches[i].seen[at], by |-> Turns(request)[i].id,
                       place |-> PlaceOf(i), at |-> at]
               /\ x.place = PlaceOf(i) /\ x.at = at
    BY <1>3
  <2>2. PICK j \in DOMAIN batches : \E at \in Kept(batches[j]) :
               /\ y = [row |-> batches[j].seen[at], by |-> Turns(request)[j].id,
                       place |-> PlaceOf(j), at |-> at]
               /\ y.place = PlaceOf(j) /\ y.at = at
    BY <1>3
  <2>3. i = j
    BY <1>5, <2>1, <2>2, TurnsOfAnswers
  <2> QED BY <1>5, <2>1, <2>2, <2>3
<1> QED BY <1>2, <1>4, <1>5

\* Some row of any that there are has none of them before it.
LEMMA FirstOfRows ==
  ASSUME NEW lines, \A x \in lines : x.place \in Nat /\ x.at \in Nat, lines # {}
  PROVE  \E x \in lines : \A y \in lines : ~Before(y, x)
<1> DEFINE places == {x.place : x \in lines}
<1>1. PICK p \in places : \A q \in places : p <= q
  <2>1. places \in SUBSET Nat /\ places # {}
    OBVIOUS
  <2> HIDE DEF places
  <2> QED BY <2>1, SmallestOf
<1> DEFINE there == {x \in lines : x.place = p}
           ats == {x.at : x \in there}
<1>2. PICK a \in ats : \A b \in ats : a <= b
  <2>1. ats \in SUBSET Nat /\ ats # {}
    BY <1>1
  <2> HIDE DEF ats
  <2> QED BY <2>1, SmallestOf
<1>3. PICK x \in lines : x.place = p /\ x.at = a
  BY <1>2
<1>4. ASSUME NEW y \in lines PROVE ~Before(y, x)
  <2>1. p <= y.place /\ p \in Nat /\ a \in Nat /\ y.place \in Nat /\ y.at \in Nat
    BY <1>1, <1>3
  <2>2. y.place = p => a <= y.at
    BY <1>2
  <2> QED BY <1>3, <2>1, <2>2 DEF Before
<1> QED BY <1>4

\* The first of a type is always within the limit.
LEMMA SomeWithinLimit ==
  ASSUME request \in Asked, NEW lines, \A x \in lines : x.place \in Nat /\ x.at \in Nat,
         NEW x \in lines
  PROVE  \E y \in WithinLimit(lines) : y.row.type = x.row.type
<1> DEFINE alike == {y \in lines : y.row.type = x.row.type}
<1>1. PICK y \in alike : \A z \in alike : ~Before(z, y)
  BY FirstOfRows
<1>2. {z \in lines : z.row.type = y.row.type /\ Before(z, y)} = {}
  BY <1>1
<1>3. 0 < request.limit
  BY AskedAssumption
<1> QED BY <1>1, <1>2, <1>3, FS_EmptySet DEF WithinLimit

\* What must hold of a verdict.
EmptyFits(v) ==
  \A t \in request.types \ {"intersection"} :
    v.coverage[t] \in {"observed_empty", "unavailable"} =>
      /\ AdoptableOf(t) = {}
      /\ v.coverage[t] = "observed_empty" =>
           /\ ~ FailedSomewhere(batches, t)
           /\ \E i \in Contributing(batches, t) :
                batches[i].states[t] \in {"observed_empty", "observed_nonempty"}
DisagreementFits(v) ==
  \A x, y \in Adoptable :
    (x.row.type = y.row.type /\ x.row.item = y.row.item /\ x.row.says # y.row.says)
    => \/ \E g \in v.conflicts : {x, y} \subseteq g
       \/ v.cut
       \/ /\ request.task = "content"
          /\ Cardinality({z.row.item : z \in AdoptableOf(x.row.type)}) > request.limit

\* What the coverage of a type has read when it says that there is nothing.
LEMMA EmptyCoverage ==
  ASSUME NEW t, NEW count, CoverageOfType(batches, t, count) \in {"observed_empty", "unavailable"}
  PROVE  /\ ~(count > 0) /\ ~ FailedSomewhere(batches, t)
         /\ \E i \in Contributing(batches, t) :
              batches[i].states[t] \in {"observed_empty", "observed_nonempty"}
<1>1. CASE request.task = "signals"
  <2>1. /\ ~(count > 0) /\ ~ FailedSomewhere(batches, t)
        /\ "observed_empty" \in StatesOf(batches, t)
    BY <1>1 DEF CoverageOfType, SignalCoverage
  <2>2. PICK i \in Contributing(batches, t) :
          EffectiveState(Turns(request)[i], batches[i], t) = "observed_empty"
    BY <2>1 DEF StatesOf
  <2>3. batches[i].states[t] = "observed_empty"
    BY <2>2 DEF EffectiveState
  <2> QED BY <2>1, <2>3
<1>2. CASE request.task # "signals"
  <2> DEFINE spoken(i) == [count |-> CountIn(batches[i], t),
                         complete |-> /\ batches[i].fault = "none"
                                      /\ batches[i].states[t] \in {"observed_nonempty", "observed_empty"},
                         failed |-> t \in FailedTypes(Turns(request)[i], batches[i])]
             reads == {spoken(i) : i \in Contributing(batches, t)}
  <2>1. CapitalCoverage(reads, count) \in {"observed_empty", "unavailable"}
    BY <1>2 DEF CoverageOfType
  <2>2. \A i \in Contributing(batches, t) :
          /\ spoken(i) \in reads /\ spoken(i).failed = (t \in FailedTypes(Turns(request)[i], batches[i]))
          /\ spoken(i).complete => batches[i].states[t] \in {"observed_nonempty", "observed_empty"}
    OBVIOUS
  <2>3. \A c \in reads : \E i \in Contributing(batches, t) : c = spoken(i)
    OBVIOUS
  <2> HIDE DEF spoken, reads
  <2>4. /\ ~(count > 0) /\ (\E c \in reads : c.complete) /\ ~ \E c \in reads : c.failed
    BY <2>1 DEF CapitalCoverage
  <2> QED BY <2>2, <2>3, <2>4 DEF FailedSomewhere
<1> QED BY <1>1, <1>2

\* Rows about one thing that do not say the same are among the conflicts.
LEMMA TwoConflict ==
  ASSUME NEW lines, IsFiniteSet(lines), NEW x \in lines, NEW y \in lines,
         x.row.type = y.row.type, x.row.item = y.row.item, x.row.day = y.row.day,
         x.row.says # y.row.says
  PROVE  \E g \in Conflicts(lines) : {x, y} \subseteq g
<1> DEFINE group == Group(lines, x)
<1>1. x \in group /\ y \in group /\ group \subseteq lines
  BY DEF Group
<1> DEFINE says == [z \in group |-> z.row.says]
<1>2. says = [z \in group |-> says[z]] /\ {z.row.says : z \in group} = {says[z] : z \in group}
      /\ says[x] # says[y]
  BY <1>1
<1> HIDE DEF group
<1>3. IsFiniteSet(group)
  BY <1>1, FS_Subset
<1>4. IsFiniteSet({says[z] : z \in group})
  <2> HIDE DEF says
  <2> QED BY <1>2, <1>3, ImageIsFinite
<1>5. Cardinality({z.row.says : z \in group}) > 1
  <2> HIDE DEF says
  <2> QED BY <1>1, <1>2, <1>4, MoreThanOne
<1> QED BY <1>1, <1>5 DEF Conflicts, group

LEMMA AdoptableInOrder ==
  ASSUME AnswersAreOfTurns
  PROVE  /\ IsFiniteSet(Adoptable) /\ Adoptable \subseteq OwnedRows
         /\ \A x \in Adoptable : x.place \in Nat /\ x.at \in Nat /\ x.row.day = 2
BY RowsInOrder, FS_Subset DEF Adoptable, InTaskWindow

LEMMA SignalsOrCapitalFit ==
  ASSUME AnswersAreOfTurns, NEW resolved, request.task # "content"
  PROVE  EmptyFits(SignalsOrCapital(resolved)) /\ DisagreementFits(SignalsOrCapital(resolved))
<1> DEFINE v == SignalsOrCapital(resolved)
           selected == WithinLimit(Adoptable)
<1>1. ASSUME NEW t \in request.types \ {"intersection"},
             v.coverage[t] \in {"observed_empty", "unavailable"}
      PROVE  /\ AdoptableOf(t) = {} /\ ~ FailedSomewhere(batches, t)
             /\ \E i \in Contributing(batches, t) :
                  batches[i].states[t] \in {"observed_empty", "observed_nonempty"}
  <2> DEFINE some == {x \in selected : x.row.type = t}
  <2>1. v.coverage[t] = CoverageOfType(batches, t, Cardinality(some))
    BY DEF SignalsOrCapital
  <2>2. ~(Cardinality(some) > 0)
    BY <1>1, <2>1, EmptyCoverage
  <2>3. IsFiniteSet(some)
    BY AdoptableInOrder, FS_Subset DEF WithinLimit
  <2> HIDE DEF some
  <2>4. some = {}
    <3>1. Cardinality(some) \in Nat
      BY <2>3, FS_CardinalityType
    <3>2. Cardinality(some) = 0
      BY <2>2, <3>1
    <3> QED BY <2>3, <3>2, FS_EmptySet
  <2>5. AdoptableOf(t) = {}
    BY <2>4, AdoptableInOrder, SomeWithinLimit DEF AdoptableOf, AnswersAreOfTurns, some
  <2> QED BY <1>1, <2>1, <2>5, EmptyCoverage
<1>2. ASSUME NEW x \in Adoptable, NEW y \in Adoptable, ~v.cut,
             x.row.type = y.row.type, x.row.item = y.row.item, x.row.says # y.row.says
      PROVE  \E g \in v.conflicts : {x, y} \subseteq g
  <2>1. selected = Adoptable /\ v.conflicts = Conflicts(selected)
    BY <1>2 DEF SignalsOrCapital
  <2> QED BY <1>2, <2>1, AdoptableInOrder, TwoConflict
<1> QED BY <1>1, <1>2 DEF EmptyFits, DisagreementFits

\* Heads of one type are of different items.
LEMMA HeadsDiffer ==
  ASSUME AnswersAreOfTurns, NEW x \in Heads(Adoptable), NEW y \in Heads(Adoptable),
         x.row.type = y.row.type, x.row.item = y.row.item
  PROVE  x = y
<1>1. ~Before(x, y) /\ ~Before(y, x)
  BY DEF Heads
<1>2. x \in OwnedRows /\ y \in OwnedRows
  BY AdoptableInOrder DEF Heads
<1> QED BY <1>1, <1>2, RowsInOrder DEF Before

\* What is adoptable has a head.
LEMMA HeadOfRow ==
  ASSUME AnswersAreOfTurns, NEW x \in Adoptable
  PROVE  \E h \in Heads(Adoptable) : h.row.type = x.row.type /\ h.row.item = x.row.item
<1> DEFINE same == {y \in Adoptable : y.row.type = x.row.type /\ y.row.item = x.row.item}
<1>1. PICK h \in same : \A y \in same : ~Before(y, h)
  BY AdoptableInOrder, FirstOfRows
<1> QED BY <1>1 DEF Heads

\* A head beyond the limit has as many other items before it as the limit allows.
LEMMA ItemsBeyondLimit ==
  ASSUME AnswersAreOfTurns, NEW h \in Heads(Adoptable), h \notin WithinLimit(Heads(Adoptable))
  PROVE  Cardinality({z.row.item : z \in AdoptableOf(h.row.type)}) > request.limit
<1> DEFINE heads == Heads(Adoptable)
           before == {y \in heads : y.row.type = h.row.type /\ Before(y, h)}
           item == [y \in before |-> y.row.item]
           items == {z.row.item : z \in AdoptableOf(h.row.type)}
<1>1. heads \subseteq Adoptable /\ IsFiniteSet(before)
  BY AdoptableInOrder, FS_Subset DEF Heads
<1>2. ~(Cardinality(before) < request.limit) /\ request.limit \in Nat
  BY AskedAssumption DEF WithinLimit, AnswersAreOfTurns
<1>3. h \notin before
  BY <1>1, AdoptableInOrder DEF Before
<1>4. \A y, z \in before : y.row.item = z.row.item => y = z
  BY HeadsDiffer
<1>5. item \in Bijection(before, {item[y] : y \in before})
  BY <1>4 DEF Bijection, Injection, Surjection, IsInjective
<1>6. /\ IsFiniteSet({item[y] : y \in before})
      /\ Cardinality({item[y] : y \in before}) = Cardinality(before)
  <2> HIDE DEF item, before
  <2> QED BY <1>1, <1>5, FS_Bijection DEF ExistsBijection
<1>7. h.row.item \notin {item[y] : y \in before}
  BY <1>3, HeadsDiffer
<1>8. {item[y] : y \in before} \cup {h.row.item} \subseteq items
  BY <1>1 DEF AdoptableOf
<1>9. IsFiniteSet(items)
  <2> DEFINE of == [z \in AdoptableOf(h.row.type) |-> z.row.item]
  <2>1. of = [z \in AdoptableOf(h.row.type) |-> of[z]] /\ items = {of[z] : z \in AdoptableOf(h.row.type)}
    OBVIOUS
  <2>2. IsFiniteSet(AdoptableOf(h.row.type))
    BY AdoptableInOrder, FS_Subset DEF AdoptableOf
  <2> HIDE DEF of, items
  <2> QED BY <2>1, <2>2, ImageIsFinite
<1> DEFINE others == {item[y] : y \in before}
<1>10. Cardinality(others \cup {h.row.item}) = Cardinality(before) + 1
  <2> HIDE DEF others, before
  <2> QED BY <1>6, <1>7, FS_AddElement DEF others
<1>11. Cardinality(others \cup {h.row.item}) <= Cardinality(items) /\ Cardinality(items) \in Nat
  <2> HIDE DEF others, items
  <2> QED BY <1>8, <1>9, FS_Subset, FS_CardinalityType DEF others
<1>12. Cardinality(before) \in Nat
  BY <1>1, FS_CardinalityType
<1> HIDE DEF items, others, before
<1> QED BY <1>2, <1>10, <1>11, <1>12 DEF items

LEMMA ContentFits ==
  ASSUME AnswersAreOfTurns, request.task = "content"
  PROVE  EmptyFits(Content) /\ DisagreementFits(Content)
<1> DEFINE heads == Heads(Adoptable)
           documents == Documents(Adoptable)
           shown == {x \in Adoptable : <<x.row.type, x.row.item>> \in documents}
<1>0. heads \subseteq Adoptable /\ \A h \in heads : h.place \in Nat /\ h.at \in Nat
  BY AdoptableInOrder DEF Heads
<1>1. ASSUME NEW t \in request.types, Content.coverage[t] \in {"observed_empty", "unavailable"},
             NEW x \in AdoptableOf(t)
      PROVE  FALSE
  <2>1. ~ \E d \in documents : d[1] = t
    BY <1>1 DEF Content
  <2>2. PICK h \in heads : h.row.type = t
    BY <1>1, HeadOfRow DEF AdoptableOf
  <2>3. PICK k \in WithinLimit(heads) : k.row.type = t
    BY <1>0, <2>2, SomeWithinLimit DEF AnswersAreOfTurns
  <2>4. <<k.row.type, k.row.item>> \in documents /\ <<k.row.type, k.row.item>>[1] = t
    BY <2>3 DEF Documents
  <2> QED BY <2>1, <2>4
<1>2. ASSUME NEW t \in request.types PROVE Content.coverage[t] # "observed_empty"
  BY DEF Content
<1>3. ASSUME NEW x \in Adoptable, NEW y \in Adoptable,
             x.row.type = y.row.type, x.row.item = y.row.item, x.row.says # y.row.says,
             ~(Cardinality({z.row.item : z \in AdoptableOf(x.row.type)}) > request.limit)
      PROVE  \E g \in Content.conflicts : {x, y} \subseteq g
  <2>1. PICK h \in heads : h.row.type = x.row.type /\ h.row.item = x.row.item
    BY HeadOfRow
  <2>2. h \in WithinLimit(heads)
    BY <1>3, <2>1, ItemsBeyondLimit
  <2>3. x \in shown /\ y \in shown
    BY <1>3, <2>1, <2>2 DEF Documents
  <2>4. IsFiniteSet(shown) /\ \A z \in shown : z.row.day = 2
    BY AdoptableInOrder, FS_Subset
  <2>5. Content.conflicts = Conflicts(shown)
    BY DEF Content
  <2> HIDE DEF shown
  <2> QED BY <1>3, <2>3, <2>4, <2>5, TwoConflict
<1> QED BY <1>1, <1>2, <1>3 DEF EmptyFits, DisagreementFits

\* What the properties of a verdict speak of rests with the request and the answers.
LEMMA AnswersRest ==
  ASSUME UNCHANGED <<request, batches>>
  PROVE  /\ Adoptable' = Adoptable
         /\ \A t : /\ AdoptableOf(t)' = AdoptableOf(t)
                  /\ Contributing(batches, t)' = Contributing(batches, t)
                  /\ FailedSomewhere(batches, t)' = FailedSomewhere(batches, t)
<1>1. \A i : PlaceOf(i)' = PlaceOf(i)
  BY DEF PlaceOf
<1>2. \A i : KeyedRows(i)' = KeyedRows(i)
  BY <1>1 DEF KeyedRows
<1>3. Adoptable' = Adoptable
  BY <1>2 DEF Adoptable, OwnedRows
<1>4. \A t : AdoptableOf(t)' = AdoptableOf(t)
  BY <1>3 DEF AdoptableOf
<1>5. \A o : Relevant(o)' = Relevant(o)
  BY DEF Relevant, Collected
<1>6. \A o, b : FailedTypes(o, b)' = FailedTypes(o, b)
  BY <1>5 DEF FailedTypes
<1>7. \A t : Contributing(batches, t)' = Contributing(batches, t)
  BY <1>5 DEF Contributing
<1>8. \A t : FailedSomewhere(batches, t)' = FailedSomewhere(batches, t)
  BY <1>6, <1>7 DEF FailedSomewhere
<1> QED BY <1>3, <1>4, <1>7, <1>8

LEMMA TaskStep ==
  ASSUME TasksInv, [TaskNext]_taskVars
  PROVE  TasksInv'
<1>1. CASE UNCHANGED <<request, batches, verdict>> /\ (identity # "unknown" => identity' # "unknown")
  <2>1. EmptyIsProved' /\ DisagreementIsShown'
    BY <1>1, AnswersRest DEF TasksInv, EmptyIsProved, DisagreementIsShown, Over
  <2> QED BY <1>1, <2>1 DEF TasksInv, AnswersAreOfTurns, Over, AllAsked
<1>2. CASE Identify
  BY <1>1, <1>2 DEF Identify
<1>3. CASE Collect
  <2>1. PICK given : batches' = Append(batches, given) /\ \E n \in Nat : DOMAIN given.seen = 1 .. n
    <3>1. \A reason : \E n \in Nat : DOMAIN Skip(reason).seen = 1 .. n
      BY DEF Skip, Batch
    <3>2. \A o : \A b \in Faults(o) : \E n \in Nat : DOMAIN b.seen = 1 .. n
      BY DEF Faults, Batch
    <3>3. \A o : \A b \in Sound(o) : \E n \in Nat : DOMAIN b.seen = 1 .. n
      BY DEF Sound, Batch
    <3> QED BY <1>3, <3>1, <3>2, <3>3 DEF Collect
  <2>2. /\ UNCHANGED <<request, identity, verdict>> /\ Len(batches) < Len(request.operations)
    BY <1>3 DEF Collect
  <2>3. Len(batches) \in Nat /\ Len(request.operations) \in Nat /\ DOMAIN batches = 1 .. Len(batches)
    BY AskedAssumption DEF TasksInv, AnswersAreOfTurns
  <2>4. ~Over
    BY <2>2, <2>3 DEF TasksInv, AllAsked
  <2>5. /\ Len(batches') = Len(batches) + 1 /\ DOMAIN batches' = 1 .. (Len(batches) + 1)
        /\ \A i \in DOMAIN batches' : batches'[i] = IF i <= Len(batches) THEN batches[i] ELSE given
    BY <2>1, <2>3 DEF TasksInv, AnswersAreOfTurns
  <2>6. batches' \in Seq(ToSet(batches'))
    BY <2>1, <2>3, <2>5 DEF TasksInv, AnswersAreOfTurns, ToSet
  <2>7. AnswersAreOfTurns'
    BY <2>1, <2>2, <2>3, <2>5, <2>6 DEF TasksInv, AnswersAreOfTurns
  <2> QED BY <2>2, <2>4, <2>7 DEF TasksInv, Over, EmptyIsProved, DisagreementIsShown
<1>4. CASE Conclude
  <2>1. AnswersAreOfTurns /\ AllAsked /\ UNCHANGED <<request, identity, batches>>
    BY <1>4 DEF Conclude, TasksInv
  <2>2. EmptyFits(verdict') /\ DisagreementFits(verdict')
    BY <1>4, <2>1, SignalsOrCapitalFit, ContentFits DEF Conclude
  <2>3. EmptyIsProved' /\ DisagreementIsShown'
    BY <2>1, <2>2, AnswersRest DEF EmptyFits, DisagreementFits, EmptyIsProved, DisagreementIsShown
  <2> QED BY <2>1, <2>3 DEF TasksInv, AnswersAreOfTurns, AllAsked
<1> QED BY <1>1, <1>2, <1>3, <1>4 DEF TaskNext, taskVars

LEMMA TasksAreSound == TaskSpec => []TasksInv
<1>1. TaskInit => TasksInv
  BY AskedAssumption DEF TaskInit, TasksInv, AnswersAreOfTurns, Over, EmptyIsProved, DisagreementIsShown, ToSet
<1>2. TasksInv /\ [TaskNext]_taskVars => TasksInv'
  BY TaskStep
<1> QED BY <1>1, <1>2, PTL DEF TaskSpec

(* A type that is called empty was read as a whole by a source that did not    *)
(* fail, and nothing of it was found: whatever requests, sources and limits.   *)
THEOREM EmptyTypesAreProved == TaskSpec => []EmptyIsProved
<1>1. TasksInv => EmptyIsProved
  BY DEF TasksInv
<1> QED BY <1>1, TasksAreSound, PTL

(* Rows that contradict each other are shown as a conflict, unless the result  *)
(* says that it was cut or is at the limit of its documents.                   *)
THEOREM DisagreementsAreShown == TaskSpec => []DisagreementIsShown
<1>1. TasksInv => DisagreementIsShown
  BY DEF TasksInv
<1> QED BY <1>1, TasksAreSound, PTL

-----------------------------------------------------------------------------
(* PagedSources.  While only the front of the listing grows, or its length is  *)
(* pinned, what was listed all along up to the pages read has been read; while *)
(* pages only come short, as soon as enough rows are read; and rows that only  *)
(* change their places are all read once as many different ones are.           *)

Covered(upto, lines) ==
  \A q \in DOMAIN listing : q <= upto /\ listing[q] \in steady => listing[q] \in ToSet(lines)
Behind == (page - 1) * PageSize
PublishedOnly ==
  changes \subseteq {"published"} =>
    /\ page > 1 => first.total <= Len(listing)
    /\ policy.order = "dated" \/ page = 1 \/ first.total = Len(listing) => Covered(Behind, read)
WithdrawnOnly ==
  changes \subseteq {"withdrawn"} =>
    /\ page > 1 => Len(listing) <= first.total
    /\ page = 1 \/ first.total = Len(listing) => Covered(Behind, read)
ClippedOnly ==
  changes \subseteq {"clipped"} =>
    /\ page > 1 => first.total = Len(listing)
    /\ Len(read) <= Len(listing)
    /\ Len(read) >= Len(listing) \/ Len(read) >= Behind => Covered(Behind, read)
RerankedOnly ==
  changes \subseteq {"reranked"} =>
    /\ page > 1 => first.total = Len(listing)
    /\ ToSet(read) \subseteq ToSet(listing)
Collecting ==
  /\ page \in Nat \ {0} /\ read \in Seq(Rows) /\ Len(read) <= Behind
  /\ page > 1 => first.total \in Nat
  /\ PublishedOnly /\ WithdrawnOnly /\ ClippedOnly /\ RerankedOnly
Kinds == {"published", "withdrawn", "reranked", "clipped", "failed"}
ListingKept ==
  /\ policy \in Sources
  /\ listing \in Seq(Rows) /\ \A i, j \in DOMAIN listing : listing[i] = listing[j] => i = j
  /\ policy.order = "dated" => NewestFirst(listing)
  /\ steady \subseteq ToSet(listing)
  /\ changes \subseteq Kinds
PagesInv ==
  /\ ListingKept
  /\ batch = Nothing => Collecting
  /\ batch # Nothing => CompleteMissesNothing

\* What the collectors have in common.
LEMMA PolicyFacts ==
  ASSUME policy \in Sources
  PROVE  /\ policy.order \in {"dated", "coded", "ranked"}
         /\ policy.order # "dated" => "total" \in policy.pinned
         /\ "older" \in policy.ends =>
              /\ policy.order = "dated" /\ policy.window = "client" /\ "total" \notin policy.pinned
              /\ "pages" \in policy.ends /\ ~policy.exact
         /\ policy.ends \subseteq {"limit", "total", "pages", "older", "nothing"}
<1> DEFINE Fits(p) ==
      /\ p.order \in {"dated", "coded", "ranked"}
      /\ p.order # "dated" => "total" \in p.pinned
      /\ "older" \in p.ends =>
           /\ p.order = "dated" /\ p.window = "client" /\ "total" \notin p.pinned
           /\ "pages" \in p.ends /\ ~p.exact
      /\ p.ends \subseteq {"limit", "total", "pages", "older", "nothing"}
<1>1. Fits(StockNews) /\ Fits(SzseAnnouncements) /\ Fits(CninfoAnnouncements) /\ Fits(SseAnnouncements)
  BY DEF StockNews, SzseAnnouncements, CninfoAnnouncements, SseAnnouncements, Bounded
<1>2. Fits(Reports) /\ Fits(ThemeReports)
  BY DEF ThemeReports, Reports, Bounded
<1>3. Fits(CompanyCapital) /\ Fits(FallbackDates)
  BY DEF CompanyCapital, FallbackDates, Bounded
<1>4. Fits(SevereMovements) /\ Fits(TradingReports) /\ Fits(BoardFlow)
  BY DEF SevereMovements, TradingReports, BoardFlow, Bounded
<1>5. Fits(BoardMembership) /\ Fits(IndustryRotation)
  BY DEF IndustryRotation, BoardMembership, Bounded
<1>6. Fits(SzseList) /\ Fits(BseList) /\ Fits(SseList)
  BY DEF BseList, SseList, SzseList, Bounded
<1> HIDE DEF Fits
<1>7. Fits(policy)
  BY <1>1, <1>2, <1>3, <1>4, <1>5, <1>6 DEF Sources
<1> QED BY <1>7 DEF Fits

LEMMA BehindFacts ==
  ASSUME page \in Nat \ {0}
  PROVE  /\ Behind \in Nat /\ page * PageSize = Behind + PageSize /\ PageSize \in Nat \ {0}
         /\ page = 1 <=> Behind = 0
<1>1. PageSize \in Nat \ {0}
  BY BoundsAssumption
<1>2. PICK k \in Nat : page = k + 1
  <2>1. page - 1 \in Nat /\ page = (page - 1) + 1
    OBVIOUS
  <2> QED BY <2>1
<1>3. Behind = k * PageSize /\ k * PageSize \in Nat /\ (k + 1) * PageSize = k * PageSize + PageSize
  BY <1>1, <1>2 DEF Behind
<1>4. k # 0 => k * PageSize # 0
  BY <1>1
<1>5. k = 0 => k * PageSize = 0
  BY <1>1
<1> QED BY <1>1, <1>2, <1>3, <1>4, <1>5

\* A page is the part of the listing behind those that were read.
LEMMA PageFacts ==
  ASSUME ListingKept, page \in Nat \ {0}
  PROVE  LET got == PageOf(page) IN
           /\ got \in Seq(Rows)
           /\ Len(got) = IF Len(listing) <= Behind THEN 0
                         ELSE IF Behind + PageSize < Len(listing) THEN PageSize
                         ELSE Len(listing) - Behind
           /\ Len(got) \in Nat /\ Len(got) <= PageSize
           /\ Len(listing) <= Behind => Len(got) = 0
           /\ ~(Len(listing) <= Behind) => Len(got) <= Len(listing) - Behind
           /\ \A j \in 1 .. Len(got) : got[j] = listing[Behind + j]
<1> DEFINE upto == IF Behind + PageSize < Len(listing) THEN Behind + PageSize ELSE Len(listing)
<1>0. Len(listing) \in Nat /\ \A k \in 1 .. Len(listing) : listing[k] \in Rows
  BY LenProperties DEF ListingKept
<1>1. Behind \in Nat /\ PageSize \in Nat \ {0} /\ page * PageSize = Behind + PageSize
  BY BehindFacts
<1>2. PageOf(page) = SubSeq(listing, Behind + 1, upto)
  BY <1>1 DEF PageOf, Behind
<1>3. Behind + 1 \in Int /\ upto \in Int /\ \A i \in Behind + 1 .. upto : listing[i] \in Rows
  BY <1>0, <1>1
<1>4. /\ SubSeq(listing, Behind + 1, upto) \in Seq(Rows)
      /\ Len(SubSeq(listing, Behind + 1, upto)) = IF Behind + 1 <= upto THEN upto - (Behind + 1) + 1 ELSE 0
      /\ \A i \in 1 .. upto - (Behind + 1) + 1 :
           SubSeq(listing, Behind + 1, upto)[i] = listing[Behind + 1 + i - 1]
  BY <1>3, SubSeqProperties
<1>5. Len(PageOf(page)) = IF Len(listing) <= Behind THEN 0
                          ELSE IF Behind + PageSize < Len(listing) THEN PageSize
                          ELSE Len(listing) - Behind
  BY <1>0, <1>1, <1>2, <1>4
<1>6. CASE Len(listing) <= Behind
  BY <1>0, <1>1, <1>2, <1>4, <1>5, <1>6
<1>7. CASE ~(Len(listing) <= Behind)
  <2>1. CASE Behind + PageSize < Len(listing)
    <3>1. upto = Behind + PageSize /\ Len(PageOf(page)) = PageSize
      BY <1>5, <1>7, <2>1
    <3>2. \A j \in 1 .. PageSize : PageOf(page)[j] = listing[Behind + j]
      BY <1>0, <1>1, <1>2, <1>4, <3>1
    <3> QED BY <1>0, <1>1, <1>2, <1>4, <1>5, <1>7, <2>1, <3>1, <3>2
  <2>2. CASE ~(Behind + PageSize < Len(listing))
    <3>1. upto = Len(listing) /\ Len(PageOf(page)) = Len(listing) - Behind
      BY <1>5, <1>7, <2>2
    <3>2. \A j \in 1 .. Len(listing) - Behind : PageOf(page)[j] = listing[Behind + j]
      BY <1>0, <1>1, <1>2, <1>4, <3>1
    <3>3. Len(listing) - Behind \in Nat /\ Len(listing) - Behind <= PageSize
      BY <1>0, <1>1, <1>7, <2>2
    <3> QED BY <1>2, <1>4, <1>5, <1>7, <3>1, <3>2, <3>3
  <2> QED BY <2>1, <2>2
<1> QED BY <1>6, <1>7

LEMMA PrefixFacts ==
  ASSUME NEW S, NEW s \in Seq(S), NEW t \in Prefixes(s)
  PROVE  /\ t \in Seq(S) /\ Len(t) \in Nat /\ Len(t) <= Len(s) /\ \A j \in 1 .. Len(t) : t[j] = s[j]
         /\ Len(t) >= Len(s) => t = s
         /\ s \in Prefixes(s)
<1>0. Len(s) \in Nat /\ \A k \in 1 .. Len(s) : s[k] \in S
  BY LenProperties
<1>1. PICK l \in 0 .. Len(s) : t = SubSeq(s, 1, l)
  BY DEF Prefixes
<1>2. t \in Seq(S) /\ Len(t) = l /\ \A j \in 1 .. l : t[j] = s[j]
  BY <1>0, <1>1, SubSeqProperties
<1>3. SubSeq(s, 1, Len(s)) = s
  BY SubSeqFull
<1>4. s \in Prefixes(s)
  <2>1. SubSeq(s, 1, Len(s)) \in Prefixes(s)
    BY <1>0 DEF Prefixes
  <2> QED BY <1>3, <2>1
<1>5. Len(t) >= Len(s) => t = s
  <2>1. Len(t) >= Len(s) => l = Len(s)
    BY <1>0, <1>1, <1>2
  <2> QED BY <1>1, <1>3, <2>1
<1>6. Len(t) \in Nat /\ Len(t) <= Len(s)
  BY <1>0, <1>1, <1>2
<1>7. \A j \in 1 .. Len(t) : t[j] = s[j]
  BY <1>2
<1> QED BY <1>2, <1>4, <1>5, <1>6, <1>7

\* A whole page covers the part of the listing it is of.
LEMMA CoverGrows ==
  ASSUME ListingKept, page \in Nat \ {0}, read \in Seq(Rows), Covered(Behind, read)
  PROVE  Covered(Behind + PageSize, read \o PageOf(page))
<1> DEFINE got == PageOf(page)
<1>0. /\ Behind \in Nat /\ PageSize \in Nat \ {0}
      /\ Len(listing) \in Nat /\ DOMAIN listing = 1 .. Len(listing)
  BY BehindFacts, LenProperties DEF ListingKept
<1>1. /\ got \in Seq(Rows) /\ DOMAIN got = 1 .. Len(got) /\ Len(got) \in Nat
      /\ Len(got) = IF Len(listing) <= Behind THEN 0
                    ELSE IF Behind + PageSize < Len(listing) THEN PageSize
                    ELSE Len(listing) - Behind
      /\ \A j \in 1 .. Len(got) : got[j] = listing[Behind + j]
  <2>1. got \in Seq(Rows)
    BY PageFacts
  <2> QED BY <2>1, PageFacts, LenProperties
<1> HIDE DEF got
<1>2. ASSUME NEW q \in DOMAIN listing, q <= Behind + PageSize, listing[q] \in steady
      PROVE  listing[q] \in ToSet(read) \cup ToSet(got)
  <2>1. CASE q <= Behind
    BY <1>2, <2>1 DEF Covered
  <2>2. CASE ~(q <= Behind)
    <3>0. /\ q \in Nat /\ q <= Len(listing) /\ q <= Behind + PageSize /\ q > Behind
          /\ Behind \in Nat /\ PageSize \in Nat /\ Len(listing) \in Nat
      BY <1>0, <1>2, <2>2
    <3>a. Len(got) = IF Behind + PageSize < Len(listing) THEN PageSize ELSE Len(listing) - Behind
      BY <1>1, <3>0
    <3>1. q - Behind \in 1 .. Len(got) /\ Behind + (q - Behind) = q
      BY <3>0, <3>a
    <3>2. got[q - Behind] = listing[q]
      BY <1>1, <3>1
    <3> QED BY <1>1, <3>1, <3>2 DEF ToSet
  <2> QED BY <2>1, <2>2
<1>3. ToSet(read \o got) = ToSet(read) \cup ToSet(got)
  BY <1>1, RangeOfConcat
<1> QED BY <1>2, <1>3 DEF Covered, got

\* What covers the whole listing has all that was listed all along.
LEMMA CoverOfAll ==
  ASSUME ListingKept, NEW upto \in Nat, Len(listing) <= upto, NEW lines, Covered(upto, lines)
  PROVE  steady \subseteq ToSet(lines)
<1>1. DOMAIN listing = 1 .. Len(listing) /\ Len(listing) \in Nat
  BY LenProperties DEF ListingKept
<1>2. ASSUME NEW row \in steady PROVE row \in ToSet(lines)
  <2>1. PICK q \in DOMAIN listing : listing[q] = row
    BY DEF ListingKept, ToSet
  <2>2. q <= upto
    BY <1>1
  <2> QED BY <2>1, <2>2 DEF Covered
<1> QED BY <1>2

\* The number of pages that are stated is enough for the listing.
LEMMA PagesAreEnough ==
  ASSUME ListingKept, page \in Nat \ {0}, page >= Totals.pages
  PROVE  Len(listing) <= Behind + PageSize
<1>0. /\ PageSize \in Nat \ {0} /\ Len(listing) \in Nat /\ page * PageSize = Behind + PageSize
  BY BehindFacts, LenProperties DEF ListingKept
<1> DEFINE n == Len(listing) + PageSize - 1
           k == n \div PageSize
<1>1. n \in Nat /\ k \in Nat /\ n < (k + 1) * PageSize
  BY <1>0
<1>2. page >= k
  BY DEF Totals
<1> HIDE DEF k
<1>3. (k + 1) * PageSize <= (page + 1) * PageSize
  BY <1>0, <1>1, <1>2
<1>4. (page + 1) * PageSize = page * PageSize + PageSize
  BY <1>0
<1> QED BY <1>0, <1>1, <1>3, <1>4

\* The numbers of a collection, and those of what it got.
LEMMA FetchedLengths ==
  ASSUME ListingKept, Collecting, NEW got \in Prefixes(PageOf(page))
  PROVE  /\ Behind \in Nat /\ PageSize \in Nat \ {0} /\ Len(listing) \in Nat
         /\ Len(read) \in Nat /\ Len(got) \in Nat /\ Len(read) <= Behind
         /\ got \in Seq(Rows) /\ read \o got \in Seq(Rows)
         /\ Len(read \o got) = Len(read) + Len(got)
         /\ Len(got) <= PageSize
         /\ Len(listing) <= Behind => Len(got) = 0
         /\ ~(Len(listing) <= Behind) => Len(got) <= Len(listing) - Behind
         /\ got = PageOf(page) \/ Len(got) < PageSize
         /\ got = PageOf(page) \/ (Behind < Len(listing) /\ Len(got) < Len(listing) - Behind)
         /\ ToSet(got) \subseteq ToSet(listing)
         /\ ToSet(read \o got) = ToSet(read) \cup ToSet(got)
<1> DEFINE W == PageOf(page)
<1>1. /\ Behind \in Nat /\ PageSize \in Nat \ {0} /\ Len(listing) \in Nat /\ DOMAIN listing = 1 .. Len(listing)
      /\ read \in Seq(Rows) /\ Len(read) \in Nat /\ Len(read) <= Behind /\ page \in Nat \ {0}
  BY BehindFacts, LenProperties DEF ListingKept, Collecting
<1>2. /\ W \in Seq(Rows)
      /\ Len(W) = IF Len(listing) <= Behind THEN 0
                  ELSE IF Behind + PageSize < Len(listing) THEN PageSize
                  ELSE Len(listing) - Behind
      /\ Len(W) \in Nat /\ Len(W) <= PageSize
      /\ Len(listing) <= Behind => Len(W) = 0
      /\ ~(Len(listing) <= Behind) => Len(W) <= Len(listing) - Behind
      /\ \A j \in 1 .. Len(W) : W[j] = listing[Behind + j]
  BY <1>1, PageFacts
<1> HIDE DEF W
<1>3. /\ got \in Seq(Rows) /\ Len(got) \in Nat /\ Len(got) <= Len(W)
      /\ \A j \in 1 .. Len(got) : got[j] = W[j]
      /\ got = W \/ Len(got) < Len(W)
  <2>1. got \in Prefixes(W)
    BY DEF W
  <2>2. Len(W) \in Nat
    BY <1>2, LenProperties
  <2>3. /\ got \in Seq(Rows) /\ Len(got) \in Nat /\ Len(got) <= Len(W)
        /\ \A j \in 1 .. Len(got) : got[j] = W[j]
        /\ Len(got) >= Len(W) => got = W
    BY <1>2, <2>1, PrefixFacts
  <2> QED BY <2>2, <2>3
<1>4. /\ read \o got \in Seq(Rows) /\ Len(read \o got) = Len(read) + Len(got)
      /\ ToSet(read \o got) = ToSet(read) \cup ToSet(got)
  BY <1>1, <1>3, ConcatProperties, RangeOfConcat
<1>5. ASSUME NEW x \in ToSet(got) PROVE x \in ToSet(listing)
  <2>0. DOMAIN got = 1 .. Len(got)
    BY <1>3, LenProperties
  <2>1. PICK j \in 1 .. Len(got) : x = got[j]
    BY <2>0 DEF ToSet
  <2>2. x = listing[Behind + j]
    BY <1>2, <1>3, <2>1
  <2>3. j \in 1 .. Len(W) /\ Len(W) \in Nat
    BY <1>2, <1>3, <2>1
  <2>4. j >= 1 /\ j \in Nat /\ j <= Len(listing) - Behind
    <3> DEFINE b == Behind
               n == Len(listing)
               w == Len(W)
    <3>0. /\ b \in Nat /\ n \in Nat /\ w \in Nat /\ j \in 1 .. w
          /\ (n <= b => w = 0) /\ (~(n <= b) => w <= n - b)
      BY <1>1, <1>2, <2>3
    <3> HIDE DEF b, n, w
    <3>1. j >= 1 /\ j \in Nat /\ j <= n - b
      BY <3>0
    <3> QED BY <3>1 DEF n, b
  <2>5. Behind + j \in 1 .. Len(listing)
    BY <1>1, <2>4
  <2> QED BY <1>1, <2>2, <2>5 DEF ToSet
<1>6. /\ Len(got) <= PageSize
      /\ Len(listing) <= Behind => Len(got) = 0
      /\ ~(Len(listing) <= Behind) => Len(got) <= Len(listing) - Behind
      /\ got = W \/ Len(got) < PageSize
      /\ got = W \/ (Behind < Len(listing) /\ Len(got) < Len(listing) - Behind)
  <2> DEFINE b == Behind
             n == Len(listing)
             w == Len(W)
             g == Len(got)
  <2>0. /\ b \in Nat /\ n \in Nat /\ w \in Nat /\ g \in Nat /\ PageSize \in Nat
        /\ g <= w /\ w <= PageSize /\ (n <= b => w = 0) /\ (~(n <= b) => w <= n - b)
        /\ got = W \/ g < w
    BY <1>1, <1>2, <1>3
  <2> HIDE DEF b, n, w, g
  <2>1. /\ g <= PageSize /\ (n <= b => g = 0) /\ (~(n <= b) => g <= n - b)
        /\ got = W \/ g < PageSize
        /\ got = W \/ (b < n /\ g < n - b)
    BY <2>0
  <2> QED BY <2>1 DEF b, n, g
<1> QED BY <1>1, <1>3, <1>4, <1>5, <1>6 DEF W

\* Where all was covered so far, a rule that ends the collection has the rest.
LEMMA WholeByRule ==
  ASSUME ListingKept, Collecting, Covered(Behind, read),
         NEW rule \in policy.ends \ {"nothing", "limit"},
         Reached(rule, PageOf(page), read \o PageOf(page))
  PROVE  {row \in steady : InWindow(row)} \subseteq ToSet(read \o PageOf(page))
<1> DEFINE got == PageOf(page)
           lines == read \o got
           upto == Behind + PageSize
<1>0. PageOf(page) \in Prefixes(PageOf(page))
  <2>1. PageOf(page) \in Seq(Rows)
    BY PageFacts DEF Collecting
  <2> HIDE DEF got
  <2>2. SubSeq(PageOf(page), 1, 0) \in Prefixes(PageOf(page))
    BY <2>1, LenProperties DEF Prefixes
  <2> QED BY <2>1, <2>2, PrefixFacts
<1>1. Covered(upto, lines)
  BY CoverGrows DEF Collecting
<1>2. /\ Behind \in Nat /\ PageSize \in Nat \ {0} /\ Len(listing) \in Nat /\ upto \in Nat
      /\ Len(lines) <= upto /\ Len(lines) \in Nat
      /\ DOMAIN listing = 1 .. Len(listing)
  <2>1. /\ Behind \in Nat /\ PageSize \in Nat \ {0} /\ Len(listing) \in Nat
        /\ Len(read) \in Nat /\ Len(got) \in Nat /\ Len(read) <= Behind
        /\ Len(got) <= PageSize /\ Len(lines) = Len(read) + Len(got)
    BY <1>0, FetchedLengths
  <2>2. DOMAIN listing = 1 .. Len(listing)
    BY LenProperties DEF ListingKept
  <2> HIDE DEF got, lines
  <2> QED BY <2>1, <2>2
<1>3. rule \in {"total", "pages", "older"}
  BY PolicyFacts DEF ListingKept
<1>4. ASSUME Len(listing) <= upto PROVE steady \subseteq ToSet(lines)
  BY <1>1, <1>2, <1>4, CoverOfAll
<1>5. CASE rule = "pages"
  <2>1. page >= Totals.pages
    BY <1>5 DEF Reached
  <2> QED BY <2>1, <1>4, PagesAreEnough DEF Collecting
<1>6. CASE rule = "total"
  <2>1. Len(lines) >= Len(listing)
    BY <1>6 DEF Reached
  <2>2. Len(listing) <= upto
    BY <1>2, <2>1
  <2> QED BY <1>4, <2>2
<1>7. CASE rule = "older"
  <2>1. /\ policy.order = "dated" /\ policy.window = "client" /\ NewestFirst(listing)
    BY <1>7, PolicyFacts DEF ListingKept
  <2>2. PICK r \in ToSet(got) : r < From
    BY <1>7 DEF Reached
  <2>3. PICK j \in 1 .. Len(got) : r = got[j] /\ r = listing[Behind + j] /\ Behind + j \in DOMAIN listing
                                 /\ j <= PageSize
    <3>1. /\ got \in Seq(Rows)
          /\ Len(got) \in Nat /\ Len(got) <= PageSize
          /\ Len(listing) <= Behind => Len(got) = 0
          /\ ~(Len(listing) <= Behind) => Len(got) <= Len(listing) - Behind
          /\ \A j \in 1 .. Len(got) : got[j] = listing[Behind + j]
      BY PageFacts DEF Collecting
    <3> HIDE DEF got, lines
    <3>2. DOMAIN got = 1 .. Len(got) /\ Len(got) \in Nat
      BY <3>1, LenProperties
    <3>3. PICK j \in 1 .. Len(got) : r = got[j]
      BY <2>2, <3>2 DEF ToSet
    <3>4. Behind + j \in 1 .. Len(listing) /\ j <= PageSize
      BY <1>2, <3>1, <3>2, <3>3
    <3> QED BY <1>2, <3>1, <3>3, <3>4
  <2>4. ASSUME NEW row \in steady, InWindow(row) PROVE row \in ToSet(lines)
    <3>1. row \in From .. To /\ From \in Nat
      BY <2>1, <2>4, BoundsAssumption DEF InWindow
    <3>2. PICK q \in DOMAIN listing : listing[q] = row
      BY DEF ListingKept, ToSet
    <3>3. r \in Nat /\ row \in Nat
      <4>1. \A k \in DOMAIN listing : listing[k] \in Rows
        BY <1>2, ElementOfSeq DEF ListingKept
      <4>2. listing[Behind + j] \in Rows /\ listing[q] \in Rows
        BY <2>3, <3>2, <4>1
      <4> QED BY <2>3, <3>2, <4>2, RowsAssumption
    <3>4. q <= Behind + j
      <4>1. Behind + j < q => r > row
        BY <2>1, <2>3, <3>2 DEF NewestFirst
      <4>2. ~(r > row)
        BY <2>2, <3>1, <3>3
      <4> QED BY <1>2, <2>3, <3>2, <4>1, <4>2
    <3>5. q <= upto
      BY <1>2, <2>3, <3>2, <3>4
    <3> QED BY <1>1, <3>2, <3>5 DEF Covered
  <2> QED BY <2>4
<1> QED BY <1>3, <1>4, <1>5, <1>6, <1>7

\* Pages that may come short have the listing when as many rows were read.
LEMMA WholeByNumber ==
  ASSUME ListingKept, Collecting, changes \subseteq {"clipped"}, NEW got \in Prefixes(PageOf(page)),
         Len(read \o got) >= Len(listing) \/ Len(read \o got) >= Behind + PageSize
  PROVE  Covered(Behind + PageSize, read \o got)
<1>1. /\ Behind \in Nat /\ PageSize \in Nat \ {0} /\ Len(listing) \in Nat
      /\ Len(read) \in Nat /\ Len(got) \in Nat /\ Len(read) <= Behind
      /\ Len(read \o got) = Len(read) + Len(got) /\ Len(got) <= PageSize
      /\ Len(listing) <= Behind => Len(got) = 0
      /\ ~(Len(listing) <= Behind) => Len(got) <= Len(listing) - Behind
      /\ got = PageOf(page) \/ Len(got) < PageSize
      /\ got = PageOf(page) \/ (Behind < Len(listing) /\ Len(got) < Len(listing) - Behind)
  BY FetchedLengths
<1>2. /\ Len(read) <= Len(listing)
      /\ Len(read) >= Len(listing) \/ Len(read) >= Behind => Covered(Behind, read)
  BY DEF Collecting, ClippedOnly
<1>3. /\ Len(read) >= Len(listing) \/ Len(read) >= Behind
      /\ got = PageOf(page)
  BY <1>1, <1>2
<1> QED BY <1>2, <1>3, CoverGrows DEF Collecting

\* Different rows of the listing, as many as it has, are the listing.
LEMMA WholeByDifference ==
  ASSUME ListingKept, NEW lines \in Seq(Rows), IsInjective(lines), Len(lines) = Len(listing),
         ToSet(lines) \subseteq ToSet(listing)
  PROVE  ToSet(lines) = ToSet(listing)
<1>1. IsFiniteSet(ToSet(listing)) /\ Cardinality(ToSet(listing)) = Len(listing)
  BY RangeOfDifferent DEF ListingKept
<1>2. Cardinality(ToSet(lines)) = Len(lines)
  BY RangeOfDifferent DEF IsInjective
<1> QED BY <1>1, <1>2, FS_Subset

\* The rows that are handed on are all those in the window, or the policy cuts
\* them and as many are left as the query asks for.
LEMMA HandedOnFacts ==
  ASSUME NEW lines \in Seq(Rows)
  PROVE  /\ HandedOn(lines) \subseteq DOMAIN lines
         /\ Cardinality(HandedOn(lines)) \in Nat
         /\ \/ \A i \in DOMAIN lines : InWindow(lines[i]) => i \in HandedOn(lines)
            \/ policy.cut /\ Cardinality(HandedOn(lines)) >= Limit
         /\ Counted(lines) >= Limit => Cardinality(HandedOn(lines)) >= Limit
<1> DEFINE W == {i \in DOMAIN lines : InWindow(lines[i])}
           upto(i) == {j \in W : j <= i}
           over == {i \in W : Cardinality(upto(i)) > Limit}
<1>0. /\ DOMAIN lines = 1 .. Len(lines) /\ Len(lines) \in Nat
      /\ \A k \in 1 .. Len(lines) : lines[k] \in Rows
      /\ Limit \in Nat \ {0}
  BY LenProperties, BoundsAssumption
<1>1. W \subseteq Nat /\ IsFiniteSet(W)
  <2>1. IsFiniteSet(DOMAIN lines)
    BY <1>0, FS_Interval
  <2>2. W \in SUBSET (DOMAIN lines)
    OBVIOUS
  <2> QED BY <1>0, <2>1, <2>2, FS_Subset
<1>2. ASSUME NEW i \in DOMAIN lines
      PROVE  Counted(SubSeq(lines, 1, i)) = Cardinality(upto(i))
  <2>1. /\ DOMAIN SubSeq(lines, 1, i) = 1 .. i
        /\ \A j \in 1 .. i : SubSeq(lines, 1, i)[j] = lines[j]
    BY <1>0, SubSeqProperties
  <2>2. {j \in DOMAIN SubSeq(lines, 1, i) : InWindow(SubSeq(lines, 1, i)[j])} = upto(i)
    BY <1>0, <2>1
  <2> QED BY <2>2 DEF Counted
<1>3. HandedOn(lines) = IF policy.cut THEN W \ over ELSE W
  <2>1. \A i \in W : Cardinality(upto(i)) <= Limit <=> i \notin over
    <3>1. ASSUME NEW i \in W PROVE Cardinality(upto(i)) \in Nat
      <4>1. upto(i) \in SUBSET W
        OBVIOUS
      <4> QED BY <1>1, <4>1, FS_Subset, FS_CardinalityType
    <3> QED BY <1>0, <3>1
  <2>2. HandedOn(lines) = {i \in W : policy.cut => Cardinality(upto(i)) <= Limit}
    BY <1>2 DEF HandedOn
  <2> HIDE DEF W, upto, over
  <2> QED BY <2>1, <2>2 DEF over
<1>4. HandedOn(lines) \in SUBSET W
  BY <1>3
<1>5. IsFiniteSet(HandedOn(lines)) /\ Cardinality(HandedOn(lines)) \in Nat
  BY <1>1, <1>4, FS_Subset, FS_CardinalityType
<1>6. CASE HandedOn(lines) = W
  BY <1>5, <1>6 DEF Counted
<1>7. CASE HandedOn(lines) # W
  <2>1. policy.cut /\ over # {}
    BY <1>3, <1>7
  <2>2. PICK m \in over : \A l \in over : m <= l
    BY <1>1, <2>1, SmallestOf
  <2>3. upto(m) \ {m} \in SUBSET HandedOn(lines)
    BY <1>1, <1>3, <2>1, <2>2
  <2>4. IsFiniteSet(upto(m)) /\ m \in upto(m) /\ Cardinality(upto(m)) \in Nat
    <3>1. upto(m) \in SUBSET W
      OBVIOUS
    <3> QED BY <1>1, <2>2, <3>1, FS_Subset, FS_CardinalityType
  <2>5. Cardinality(upto(m) \ {m}) = Cardinality(upto(m)) - 1
    BY <2>4, FS_RemoveElement
  <2>6. Cardinality(upto(m) \ {m}) <= Cardinality(HandedOn(lines))
    BY <1>5, <2>3, FS_Subset
  <2>7. Cardinality(HandedOn(lines)) >= Limit
    BY <1>0, <1>5, <2>2, <2>4, <2>5, <2>6
  <2> QED BY <1>4, <1>5, <2>1, <2>7
<1> QED BY <1>6, <1>7

\* The batch of an answer.
HandedBatch(complete, lines) ==
  [complete |-> complete, rows |-> {lines[i] : i \in HandedOn(lines)},
   number |-> Cardinality(HandedOn(lines))]

\* An answer is told from no answer.
LEMMA AnswerIsGiven ==
  ASSUME NEW complete \in BOOLEAN, NEW lines \in Seq(Rows)
  PROVE  HandedBatch(complete, lines) # Nothing
<1>1. {lines[i] : i \in HandedOn(lines)} \in SUBSET Rows
  BY HandedOnFacts, LenProperties
<1>2. Cardinality(HandedOn(lines)) \in Nat
  BY HandedOnFacts
<1> QED BY <1>1, <1>2, NothingAssumption DEF HandedBatch

\* What is handed on as complete, after changes of one kind that is withstood.
LEMMA FetchedIsWhole ==
  ASSUME ListingKept, Collecting, NEW got \in Prefixes(PageOf(page)),
         ~Refused(got), Proved(got, read \o got),
         NEW kind \in {"published", "withdrawn", "clipped", "reranked"}, changes \subseteq {kind},
         kind # "clipped" => got = PageOf(page), kind \in Withstood
  PROVE  \/ {row \in steady : InWindow(row)} \subseteq ToSet(read \o got)
         \/ "limit" \in policy.ends /\ Counted(read \o got) >= Limit
<1> DEFINE lines == read \o got
<1>0. PICK rule \in policy.ends \ {"nothing"} : Reached(rule, got, lines)
  BY DEF Proved
<1>1. CASE rule = "limit"
  BY <1>0, <1>1 DEF Reached
<1>2. rule \in {"limit", "total", "pages", "older"}
  BY PolicyFacts DEF ListingKept
<1>3. ASSUME "total" \in policy.pinned PROVE page = 1 \/ first.total = Len(listing)
  <2>1. ~Drifted /\ page \in Nat \ {0}
    BY DEF Refused, Collecting
  <2>2. page > 1 => Totals["total"] = first["total"]
    BY <1>3, <2>1 DEF Drifted
  <2> QED BY <2>1, <2>2 DEF Totals
<1>4. CASE rule # "limit" /\ kind \in {"published", "withdrawn"}
  <2>1. got = PageOf(page)
    BY <1>4
  <2>2. Covered(Behind, read)
    <3>1. CASE kind = "published"
      <4>1. policy.order = "dated" \/ page = 1 \/ first.total = Len(listing)
        BY <1>3, PolicyFacts DEF ListingKept
      <4> QED BY <3>1, <4>1 DEF Collecting, PublishedOnly
    <3>2. CASE kind = "withdrawn"
      <4>1. page = 1 \/ first.total = Len(listing)
        BY <1>3, <3>2 DEF Withstood
      <4> QED BY <3>2, <4>1 DEF Collecting, WithdrawnOnly
    <3> QED BY <1>4, <3>1, <3>2
  <2> QED BY <1>0, <1>4, <2>1, <2>2, WholeByRule
<1>5. CASE rule # "limit" /\ kind = "clipped"
  <2>1. policy.exact \/ "pages" \notin policy.ends
    BY <1>5 DEF Withstood
  <2>2. rule \in {"total", "pages"}
    BY <1>0, <1>2, <1>5, <2>1, PolicyFacts DEF ListingKept
  <2>3. page = 1 \/ first.total = Len(listing)
    BY <1>5 DEF Collecting, ClippedOnly
  <2>4. Len(lines) >= Len(listing)
    <3>1. CASE rule = "total"
      BY <1>0, <3>1 DEF Reached
    <3>2. CASE rule = "pages"
      <4>1. policy.exact
        BY <1>0, <2>1, <3>2
      <4>2. Len(lines) = Stated.total
        BY <4>1 DEF Proved
      <4>3. Stated.total = Len(listing)
        BY <2>3 DEF Stated, Totals
      <4>4. Len(listing) \in Nat
        BY LenProperties DEF ListingKept
      <4> QED BY <4>2, <4>3, <4>4
    <3> QED BY <2>2, <3>1, <3>2
  <2>5. Covered(Behind + PageSize, lines)
    BY <1>5, <2>4, WholeByNumber
  <2>6. Len(listing) <= Behind + PageSize /\ Behind + PageSize \in Nat
    <3> DEFINE b == Behind
               n == Len(listing)
               g == Len(got)
               l == Len(read)
               r == Len(lines)
    <3>0. /\ b \in Nat /\ n \in Nat /\ g \in Nat /\ l \in Nat /\ PageSize \in Nat
          /\ r = l + g /\ l <= b /\ g <= PageSize /\ r >= n
      BY <2>4, FetchedLengths
    <3> HIDE DEF b, n, g, l, r
    <3>1. n <= b + PageSize /\ b + PageSize \in Nat
      BY <3>0
    <3> QED BY <3>1 DEF b, n
  <2> QED BY <2>5, <2>6, CoverOfAll
<1>6. CASE rule # "limit" /\ kind = "reranked"
  <2>1. got = PageOf(page) /\ policy.exact /\ policy.unique
    BY <1>6 DEF Withstood
  <2>2. IsInjective(lines) /\ Len(lines) = Stated.total
    BY <2>1 DEF Proved
  <2>3. page = 1 \/ first.total = Len(listing)
    BY <1>6 DEF Collecting, RerankedOnly
  <2>4. Stated.total = Len(listing)
    BY <2>3 DEF Stated, Totals
  <2>5. ToSet(lines) \subseteq ToSet(listing) /\ lines \in Seq(Rows)
    BY <1>6, FetchedLengths DEF Collecting, RerankedOnly
  <2>6. ToSet(lines) = ToSet(listing)
    BY <2>2, <2>4, <2>5, WholeByDifference
  <2> QED BY <2>6 DEF ListingKept
<1> QED BY <1>1, <1>4, <1>5, <1>6

\* What is collected goes on being collected as long as there is a next page.
LEMMA NextPageCollects ==
  ASSUME ListingKept, Collecting, NEW got \in Prefixes(PageOf(page)), ~Refused(got),
         UNCHANGED <<policy, listing, steady>>,
         page' = page + 1, read' = read \o got, first' = Stated,
         \/ got = PageOf(page) /\ changes' = changes
         \/ changes' = changes \cup {"clipped"}
  PROVE  Collecting'
<1> DEFINE lines == read \o got
<1>1. /\ Behind \in Nat /\ PageSize \in Nat \ {0} /\ Len(listing) \in Nat
      /\ Len(read) \in Nat /\ Len(got) \in Nat /\ Len(read) <= Behind /\ lines \in Seq(Rows)
      /\ Len(lines) = Len(read) + Len(got) /\ Len(got) <= PageSize
      /\ Len(listing) <= Behind => Len(got) = 0
      /\ ~(Len(listing) <= Behind) => Len(got) <= Len(listing) - Behind
      /\ ToSet(got) \subseteq ToSet(listing)
      /\ ToSet(lines) = ToSet(read) \cup ToSet(got)
  BY FetchedLengths
<1>2. /\ page \in Nat \ {0} /\ page' \in Nat \ {0} /\ page' > 1 /\ page' # 1
      /\ Behind' = Behind + PageSize
  <2>1. page \in Nat \ {0} /\ page' \in Nat \ {0} /\ page' > 1 /\ page' # 1
    BY DEF Collecting
  <2>2. Behind' = page * PageSize
    BY <2>1 DEF Behind
  <2> QED BY <2>1, <2>2, BehindFacts
<1>3. Len(lines) <= Behind'
  <2> DEFINE b == Behind
             g == Len(got)
             l == Len(read)
  <2>0. b \in Nat /\ g \in Nat /\ l \in Nat /\ PageSize \in Nat /\ l <= b /\ g <= PageSize
    BY <1>1
  <2> HIDE DEF b, g, l
  <2>1. l + g <= b + PageSize
    BY <2>0
  <2> QED BY <1>1, <1>2, <2>1 DEF b, g, l
<1>4. (page = 1 => first'.total = Len(listing)) /\ (page # 1 => page > 1 /\ first' = first)
  BY <1>2 DEF Stated, Totals
<1>5. first'.total \in Nat
  BY <1>1, <1>4 DEF Collecting
<1>6. ASSUME Covered(Behind + PageSize, lines) PROVE Covered(Behind, read)'
  BY <1>2, <1>6 DEF Covered
<1>a. changes \subseteq changes'
  OBVIOUS
<1>b. "clipped" \notin changes' => got = PageOf(page)
  OBVIOUS
<1>7. PublishedOnly'
  <2> SUFFICES ASSUME changes' \subseteq {"published"}
               PROVE  /\ first'.total <= Len(listing)
                      /\ policy.order = "dated" \/ first'.total = Len(listing) => Covered(Behind, read)'
    BY <1>2 DEF PublishedOnly
  <2>1. changes \subseteq {"published"} /\ got = PageOf(page)
    BY <1>a, <1>b
  <2>2. first'.total <= Len(listing)
    BY <1>1, <1>4, <2>1 DEF Collecting, PublishedOnly
  <2>3. ASSUME policy.order = "dated" \/ first'.total = Len(listing) PROVE Covered(Behind, read)
    BY <1>4, <2>1, <2>3 DEF Collecting, PublishedOnly
  <2> QED BY <1>6, <2>1, <2>2, <2>3, CoverGrows DEF Collecting
<1>8. WithdrawnOnly'
  <2> SUFFICES ASSUME changes' \subseteq {"withdrawn"}
               PROVE  /\ Len(listing) <= first'.total
                      /\ first'.total = Len(listing) => Covered(Behind, read)'
    BY <1>2 DEF WithdrawnOnly
  <2>1. changes \subseteq {"withdrawn"} /\ got = PageOf(page)
    BY <1>a, <1>b
  <2>2. Len(listing) <= first'.total
    BY <1>1, <1>4, <2>1 DEF Collecting, WithdrawnOnly
  <2>3. ASSUME first'.total = Len(listing) PROVE Covered(Behind, read)
    BY <1>4, <2>1, <2>3 DEF Collecting, WithdrawnOnly
  <2> QED BY <1>6, <2>1, <2>2, <2>3, CoverGrows DEF Collecting
<1>9. ClippedOnly'
  <2> SUFFICES ASSUME changes' \subseteq {"clipped"}
               PROVE  /\ first'.total = Len(listing) /\ Len(lines) <= Len(listing)
                      /\ Len(lines) >= Len(listing) \/ Len(lines) >= Behind' => Covered(Behind, read)'
    BY <1>2 DEF ClippedOnly
  <2>1. changes \subseteq {"clipped"}
    OBVIOUS
  <2>2. first'.total = Len(listing)
    BY <1>4, <2>1 DEF Collecting, ClippedOnly
  <2>3. Len(lines) <= Len(listing)
    <3> DEFINE b == Behind
               g == Len(got)
               l == Len(read)
               n == Len(listing)
    <3>0. /\ b \in Nat /\ g \in Nat /\ l \in Nat /\ n \in Nat /\ l <= b /\ l <= n
          /\ (n <= b => g = 0) /\ (~(n <= b) => g <= n - b)
      BY <1>1, <2>1 DEF Collecting, ClippedOnly
    <3> HIDE DEF b, g, l, n
    <3>1. l + g <= n
      BY <3>0
    <3> QED BY <1>1, <3>1 DEF g, l, n
  <2>4. ASSUME Len(lines) >= Len(listing) \/ Len(lines) >= Behind' PROVE Covered(Behind + PageSize, lines)
    BY <1>2, <2>1, <2>4, WholeByNumber
  <2> QED BY <1>6, <2>2, <2>3, <2>4
<1>10. RerankedOnly'
  <2> SUFFICES ASSUME changes' \subseteq {"reranked"}
               PROVE  first'.total = Len(listing) /\ ToSet(lines) \subseteq ToSet(listing)
    BY <1>2 DEF RerankedOnly
  <2>1. changes \subseteq {"reranked"}
    OBVIOUS
  <2> QED BY <1>1, <1>4, <2>1 DEF Collecting, RerankedOnly
<1> QED BY <1>1, <1>2, <1>3, <1>5, <1>7, <1>8, <1>9, <1>10 DEF Collecting

\* Changes of at most one kind that are withstood are those of a kind that is.
LEMMA OneKind ==
  ASSUME NEW kinds, kinds \subseteq Kinds, Cardinality(kinds) <= 1, kinds \subseteq Withstood
  PROVE  \E kind \in {"published", "withdrawn", "clipped", "reranked"} :
           kinds \subseteq {kind} /\ kind \in Withstood
<1>1. IsFiniteSet(kinds)
  <2>1. IsFiniteSet({"published"}) /\ IsFiniteSet({"withdrawn"}) /\ IsFiniteSet({"reranked"})
        /\ IsFiniteSet({"clipped"}) /\ IsFiniteSet({"failed"})
    BY FS_Singleton
  <2>2. Kinds = {"published"} \cup ({"withdrawn"} \cup ({"reranked"} \cup ({"clipped"} \cup {"failed"})))
    BY DEF Kinds
  <2>3. IsFiniteSet(Kinds)
    BY <2>1, <2>2, FS_Union
  <2> QED BY <2>3, FS_Subset
<1>2. CASE kinds = {}
  <2>1. "published" \in Withstood
    BY DEF Withstood
  <2> QED BY <1>2, <2>1
<1>3. CASE kinds # {}
  <2>1. PICK kind \in kinds : TRUE
    BY <1>3
  <2>2. ASSUME NEW other \in kinds PROVE other = kind
    <3>1. ASSUME other # kind PROVE FALSE
      <4>1. Cardinality(kinds) > 1
        BY <1>1, <2>1, <3>1, MoreThanOne
      <4>2. Cardinality(kinds) \in Nat
        BY <1>1, FS_CardinalityType
      <4> QED BY <4>1, <4>2
    <3> QED BY <3>1
  <2>3. kind \in {"published", "withdrawn", "clipped", "reranked"}
    BY <2>1 DEF Withstood
  <2> QED BY <2>1, <2>2, <2>3
<1> QED BY <1>2, <1>3

\* What no collection has handed on as complete misses nothing.
LEMMA IncompleteIsHarmless ==
  ASSUME NEW lines \in Seq(Rows),
         batch' = HandedBatch(FALSE, lines)
  PROVE  batch' # Nothing /\ CompleteMissesNothing'
<1>1. batch' # Nothing
  BY AnswerIsGiven
<1>2. ~batch'.complete
  BY DEF HandedBatch
<1> QED BY <1>1, <1>2 DEF CompleteMissesNothing

LEMMA FetchKeeps ==
  ASSUME PagesInv, FetchPage
  PROVE  PagesInv'
<1>0. /\ ListingKept /\ Collecting /\ batch = Nothing /\ first' = Stated
      /\ UNCHANGED <<policy, listing, steady>> /\ read \in Seq(Rows)
  BY DEF PagesInv, FetchPage, Collecting
<1>1. PICK got \in Prefixes(PageOf(page)) :
       /\ IF got = PageOf(page) THEN UNCHANGED <<changes, used>> ELSE Changes("clipped")
       /\ IF Refused(got)
          THEN Answer(FALSE, read) /\ UNCHANGED <<page, read>>
          ELSE read' = read \o got /\ Continue(got, read \o got)
  BY DEF FetchPage
<1>2. \/ got = PageOf(page) /\ changes' = changes
      \/ changes' = changes \cup {"clipped"}
  BY <1>1 DEF Changes
<1>3. changes' \subseteq Kinds
  BY <1>0, <1>2 DEF ListingKept, Kinds
<1>4. ListingKept'
  BY <1>0, <1>3 DEF ListingKept, NewestFirst
<1>5. read \o got \in Seq(Rows)
  BY <1>0, FetchedLengths
<1>6. CASE Refused(got)
  <2>1. batch' = HandedBatch(FALSE, read)
    BY <1>1, <1>6 DEF Answer, HandedBatch
  <2> QED BY <1>0, <1>4, <2>1, IncompleteIsHarmless DEF PagesInv
<1>7. CASE ~Refused(got) /\ \E rule \in policy.ends : Reached(rule, got, read \o got)
  <2>1. batch' = HandedBatch(Proved(got, read \o got), read \o got)
    BY <1>1, <1>7 DEF Answer, Continue, HandedBatch
  <2>2. CASE ~Proved(got, read \o got)
    <3>1. batch' = HandedBatch(FALSE, read \o got)
      <4>1. Proved(got, read \o got) \in BOOLEAN
        BY DEF Proved
      <4>2. Proved(got, read \o got) = FALSE
        BY <2>2, <4>1
      <4> QED BY <2>1, <4>2
    <3> QED BY <1>4, <1>5, <3>1, IncompleteIsHarmless DEF PagesInv
  <2>3. CASE Proved(got, read \o got)
    <3>1. batch' = HandedBatch(TRUE, read \o got)
      <4>1. Proved(got, read \o got) \in BOOLEAN
        BY DEF Proved
      <4>2. Proved(got, read \o got) = TRUE
        BY <2>3, <4>1
      <4> QED BY <2>1, <4>2
    <3>2. batch' # Nothing
      BY <1>5, <3>1, AnswerIsGiven
    <3>3. /\ batch'.rows = {(read \o got)[i] : i \in HandedOn(read \o got)}
          /\ batch'.number = Cardinality(HandedOn(read \o got))
      BY <3>1 DEF HandedBatch
    <3>4. ASSUME Cardinality(changes') <= 1, changes' \subseteq Withstood'
          PROVE  \/ {row \in steady : InWindow(row)} \subseteq ToSet(read \o got)
                 \/ "limit" \in policy.ends /\ Counted(read \o got) >= Limit
      <4>1. Withstood' = Withstood
        BY <1>0 DEF Withstood
      <4>2. PICK kind \in {"published", "withdrawn", "clipped", "reranked"} :
              changes' \subseteq {kind} /\ kind \in Withstood
        BY <1>3, <3>4, <4>1, OneKind
      <4>3. changes \subseteq {kind} /\ (kind # "clipped" => got = PageOf(page))
        BY <1>2, <4>2
      <4> QED BY <1>0, <1>7, <2>3, <4>2, <4>3, FetchedIsWhole
    <3>5. ASSUME Cardinality(changes') <= 1, changes' \subseteq Withstood'
          PROVE  \/ {row \in steady : InWindow(row)} \subseteq batch'.rows
                 \/ ("limit" \in policy.ends \/ policy.cut) /\ batch'.number >= Limit
      <4>1. CASE policy.cut /\ Cardinality(HandedOn(read \o got)) >= Limit
        BY <3>3, <4>1
      <4>2. CASE "limit" \in policy.ends /\ Counted(read \o got) >= Limit
        BY <1>5, <3>3, <4>2, HandedOnFacts
      <4>3. CASE /\ {row \in steady : InWindow(row)} \subseteq ToSet(read \o got)
                 /\ \A i \in DOMAIN (read \o got) :
                      InWindow((read \o got)[i]) => i \in HandedOn(read \o got)
        <5>1. {row \in steady : InWindow(row)} \subseteq batch'.rows
          BY <3>3, <4>3 DEF ToSet
        <5> QED BY <5>1
      <4> QED BY <1>5, <3>4, <3>5, <4>1, <4>2, <4>3, HandedOnFacts
    <3>6. CompleteMissesNothing'
      <4>1. {row \in steady : InWindow(row)}' = {row \in steady : InWindow(row)}
        BY <1>0 DEF InWindow
      <4> QED BY <1>0, <3>5, <4>1 DEF CompleteMissesNothing, AskedFor
    <3> QED BY <1>4, <3>2, <3>6 DEF PagesInv
  <2> QED BY <2>2, <2>3
<1>8. CASE ~Refused(got) /\ ~\E rule \in policy.ends : Reached(rule, got, read \o got)
  <2>1. CASE policy.capped /\ page >= MaxPages
    <3>1. batch' = HandedBatch(FALSE, read \o got)
      BY <1>1, <1>8, <2>1 DEF Answer, Continue, HandedBatch
    <3> QED BY <1>4, <1>5, <3>1, IncompleteIsHarmless DEF PagesInv
  <2>2. CASE ~(policy.capped /\ page >= MaxPages)
    <3>1. page' = page + 1 /\ batch' = batch /\ read' = read \o got
      BY <1>1, <1>8, <2>2 DEF Continue
    <3>2. Collecting'
      BY <1>0, <1>2, <1>8, <3>1, NextPageCollects
    <3> QED BY <1>0, <1>4, <3>1, <3>2 DEF PagesInv
  <2> QED BY <2>1, <2>2
<1> QED BY <1>6, <1>7, <1>8

LEMMA FailureKeeps ==
  ASSUME PagesInv, PageFails
  PROVE  PagesInv'
<1>0. /\ ListingKept /\ read \in Seq(Rows)
      /\ UNCHANGED <<policy, listing, steady>>
      /\ changes' = changes \cup {"failed"}
      /\ batch' = HandedBatch(FALSE, read)
  BY DEF PagesInv, PageFails, Collecting, Answer, HandedBatch
<1>1. changes' \subseteq Kinds
  BY <1>0 DEF ListingKept, Kinds
<1>2. ListingKept'
  BY <1>0, <1>1 DEF ListingKept, NewestFirst
<1> QED BY <1>0, <1>2, IncompleteIsHarmless DEF PagesInv

\* Before any change of the listing, and what a change leaves as it was.
LEMMA ChangeFacts ==
  ASSUME PagesInv, NEW kind \in {"published", "withdrawn", "reranked"}, Changes(kind)
  PROVE  /\ ListingKept /\ Collecting /\ batch = Nothing
         /\ Len(listing) \in Nat /\ DOMAIN listing = 1 .. Len(listing)
         /\ \A j \in 1 .. Len(listing) : listing[j] \in Rows /\ listing[j] \in Nat
         /\ \A j, k \in 1 .. Len(listing) : listing[j] = listing[k] => j = k
         /\ changes \subseteq changes' /\ kind \in changes' /\ changes' \subseteq Kinds
<1>1. ListingKept /\ Collecting /\ batch = Nothing
  BY DEF PagesInv, Changes
<1>2. Len(listing) \in Nat /\ DOMAIN listing = 1 .. Len(listing)
      /\ \A j \in 1 .. Len(listing) : listing[j] \in Rows
  BY <1>1, LenProperties DEF ListingKept
<1>3. changes' = changes \cup {kind} /\ changes \subseteq Kinds
  BY <1>1 DEF Changes, ListingKept
<1>4. kind \in Kinds
  BY DEF Kinds
<1>5. \A j, k \in 1 .. Len(listing) : listing[j] = listing[k] => j = k
  BY <1>1, <1>2 DEF ListingKept
<1>6. \A j \in 1 .. Len(listing) : listing[j] \in Nat
  BY <1>2, RowsAssumption
<1> QED BY <1>1, <1>2, <1>3, <1>4, <1>5, <1>6

LEMMA PublishKeeps ==
  ASSUME PagesInv, Publish
  PROVE  PagesInv'
<1> DEFINE n == Len(listing)
<1>1. /\ ListingKept /\ Collecting /\ batch = Nothing
      /\ n \in Nat /\ DOMAIN listing = 1 .. n
      /\ \A j \in 1 .. n : listing[j] \in Rows /\ listing[j] \in Nat
      /\ \A j, k \in 1 .. n : listing[j] = listing[k] => j = k
      /\ changes \subseteq changes' /\ "published" \in changes' /\ changes' \subseteq Kinds
  BY ChangeFacts DEF Publish
<1>2. UNCHANGED <<policy, steady, page, first, read, batch>>
  BY DEF Publish
<1>3. PICK row \in {new \in Rows \ ToSet(listing) : Queried(new)}, i \in 1 .. n + 1 :
       /\ policy.order = "dated" => i = 1 /\ \A old \in ToSet(listing) : old < row
       /\ listing' = InsertAt(listing, i, row)
  BY DEF Publish
<1>4. /\ row \in Rows /\ i \in Nat /\ i >= 1 /\ i <= n + 1
      /\ \A j \in 1 .. n : listing[j] # row
      /\ policy.order = "dated" => i = 1 /\ \A j \in 1 .. n : listing[j] < row
      /\ row \notin ToSet(listing)
  BY <1>1, <1>3 DEF ToSet
<1>5. /\ listing' \in Seq(Rows) /\ Len(listing') = n + 1 /\ DOMAIN listing' = 1 .. n + 1
      /\ \A j \in 1 .. n + 1 :
           listing'[j] = IF j < i THEN listing[j] ELSE IF j = i THEN row ELSE listing[j - 1]
  <2>1. listing \in Seq(Rows) /\ i \in 1 .. Len(listing) + 1
    BY <1>1 DEF ListingKept
  <2>2. /\ InsertAt(listing, i, row) \in Seq(Rows) /\ Len(InsertAt(listing, i, row)) = n + 1
        /\ \A j \in 1 .. n + 1 :
             InsertAt(listing, i, row)[j]
               = IF j < i THEN listing[j] ELSE IF j = i THEN row ELSE listing[j - 1]
    BY <1>4, <2>1, InsertFacts
  <2>3. listing' = InsertAt(listing, i, row)
    BY <1>3
  <2> QED BY <2>2, <2>3, LenProperties
<1> HIDE DEF n
<1>6. ASSUME NEW j \in 1 .. n + 1, NEW k \in 1 .. n + 1, listing'[j] = listing'[k] PROVE j = k
  BY <1>1, <1>4, <1>5, <1>6
<1>7. ASSUME policy.order = "dated", NEW j \in 1 .. n + 1, NEW k \in 1 .. n + 1, j < k
      PROVE  listing'[j] > listing'[k]
  <2>1. i = 1 /\ k - 1 \in 1 .. n /\ listing'[k] = listing[k - 1]
    BY <1>1, <1>4, <1>5, <1>7
  <2>2. CASE j = 1
    <3>1. listing'[j] = row /\ listing[k - 1] < row
      BY <1>4, <1>5, <1>7, <2>1, <2>2
    <3>2. row \in Nat /\ listing[k - 1] \in Nat
      BY <1>1, <1>4, <2>1, RowsAssumption
    <3> QED BY <2>1, <3>1, <3>2
  <2>3. CASE j # 1
    <3>1. j - 1 \in 1 .. n /\ listing'[j] = listing[j - 1] /\ j - 1 < k - 1
      BY <1>1, <1>4, <1>5, <1>7, <2>1, <2>3
    <3> QED BY <1>1, <1>7, <2>1, <3>1 DEF ListingKept, NewestFirst
  <2> QED BY <2>2, <2>3
<1>8. ASSUME NEW old \in steady PROVE old \in ToSet(listing')
  <2>1. PICK q \in 1 .. n : listing[q] = old
    BY <1>1 DEF ListingKept, ToSet
  <2>2. CASE q < i
    <3>1. q \in 1 .. n + 1 /\ listing'[q] = old
      BY <1>1, <1>5, <2>1, <2>2
    <3> QED BY <1>5, <3>1 DEF ToSet
  <2>3. CASE ~(q < i)
    <3>1. q + 1 \in 1 .. n + 1 /\ listing'[q + 1] = old
      BY <1>1, <1>4, <1>5, <2>1, <2>3
    <3> QED BY <1>5, <3>1 DEF ToSet
  <2> QED BY <2>2, <2>3
<1>9. ListingKept'
  <2>1. \A j, k \in DOMAIN listing' : listing'[j] = listing'[k] => j = k
    BY <1>5, <1>6
  <2>2. policy.order = "dated" => NewestFirst(listing')
    BY <1>5, <1>7 DEF NewestFirst
  <2>3. policy \in Sources
    BY <1>1 DEF ListingKept
  <2> QED BY <1>1, <1>2, <1>5, <1>8, <2>1, <2>2, <2>3 DEF ListingKept
<1>10. PublishedOnly'
  <2> SUFFICES ASSUME changes' \subseteq {"published"}
               PROVE  /\ page > 1 => first.total <= n + 1
                      /\ policy.order = "dated" \/ page = 1 \/ first.total = n + 1 => Covered(Behind, read)'
    BY <1>2, <1>5 DEF PublishedOnly
  <2>1. page \in Nat \ {0} /\ (page > 1 => first.total \in Nat /\ first.total <= n)
        /\ (policy.order = "dated" => Covered(Behind, read))
    BY <1>1 DEF Collecting, PublishedOnly, n
  <2>2. Behind' = Behind /\ Behind \in Nat
    BY <1>2, <2>1, BehindFacts DEF Behind
  <2>3. CASE page = 1
    <3>1. Behind = 0
      BY <2>1, <2>3, BehindFacts
    <3> QED BY <1>5, <2>2, <2>3, <3>1 DEF Covered
  <2>4. CASE page > 1
    <3>1. first.total <= n + 1 /\ first.total # n + 1
      BY <1>1, <2>1, <2>4
    <3>2. ASSUME policy.order = "dated", NEW q \in 1 .. n + 1, q <= Behind, listing'[q] \in steady
          PROVE  listing'[q] \in ToSet(read)
      <4>1. listing'[q] # row
        BY <1>1, <1>4, <3>2 DEF ListingKept
      <4>2. q - 1 \in 1 .. n /\ listing'[q] = listing[q - 1] /\ q - 1 <= Behind
        BY <1>1, <1>4, <1>5, <2>2, <3>2, <4>1
      <4> QED BY <1>1, <2>1, <3>2, <4>2 DEF Covered
    <3> QED BY <1>2, <1>5, <2>2, <2>4, <3>1, <3>2 DEF Covered
  <2> QED BY <2>1, <2>3, <2>4
<1>11. WithdrawnOnly' /\ ClippedOnly' /\ RerankedOnly'
  BY <1>1 DEF WithdrawnOnly, ClippedOnly, RerankedOnly
<1>12. Collecting'
  BY <1>1, <1>2, <1>10, <1>11 DEF Collecting, Behind
<1> QED BY <1>1, <1>2, <1>9, <1>12 DEF PagesInv

LEMMA WithdrawKeeps ==
  ASSUME PagesInv, Withdraw
  PROVE  PagesInv'
<1> DEFINE n == Len(listing)
<1>1. /\ ListingKept /\ Collecting /\ batch = Nothing
      /\ n \in Nat /\ DOMAIN listing = 1 .. n
      /\ \A j \in 1 .. n : listing[j] \in Rows /\ listing[j] \in Nat
      /\ \A j, k \in 1 .. n : listing[j] = listing[k] => j = k
      /\ changes \subseteq changes' /\ "withdrawn" \in changes' /\ changes' \subseteq Kinds
  BY ChangeFacts DEF Withdraw
<1>2. UNCHANGED <<policy, page, first, read, batch>>
  BY DEF Withdraw
<1>3. PICK i \in 1 .. n : listing' = RemoveAt(listing, i) /\ steady' = steady \ {listing[i]}
  BY <1>1 DEF Withdraw
<1>4. /\ listing' \in Seq(Rows) /\ Len(listing') = n - 1 /\ DOMAIN listing' = 1 .. n - 1
      /\ \A j \in 1 .. n - 1 : listing'[j] = IF j < i THEN listing[j] ELSE listing[j + 1]
  <2>1. listing \in Seq(Rows)
    BY <1>1 DEF ListingKept
  <2>2. /\ listing' \in Seq(Rows) /\ Len(listing') = n - 1
        /\ \A j \in 1 .. n - 1 : listing'[j] = IF j < i THEN listing[j] ELSE listing[j + 1]
    BY <1>3, <2>1, RemoveFacts
  <2> QED BY <2>2, LenProperties
<1> HIDE DEF n
<1>5. i \in Nat /\ i >= 1 /\ i <= n
  BY <1>1, <1>3
<1>6. ASSUME NEW j \in 1 .. n - 1, NEW k \in 1 .. n - 1, listing'[j] = listing'[k] PROVE j = k
  BY <1>1, <1>4, <1>5, <1>6
<1>7. ASSUME policy.order = "dated", NEW j \in 1 .. n - 1, NEW k \in 1 .. n - 1, j < k
      PROVE  listing'[j] > listing'[k]
  <2> DEFINE place(q) == IF q < i THEN q ELSE q + 1
  <2>1. /\ place(j) \in 1 .. n /\ place(k) \in 1 .. n /\ place(j) < place(k)
        /\ listing'[j] = listing[place(j)] /\ listing'[k] = listing[place(k)]
    BY <1>1, <1>4, <1>5, <1>7
  <2> HIDE DEF place
  <2> QED BY <1>1, <1>7, <2>1 DEF ListingKept, NewestFirst
<1>8. ASSUME NEW old \in steady' PROVE old \in ToSet(listing')
  <2>1. PICK q \in 1 .. n : listing[q] = old
    BY <1>1, <1>3 DEF ListingKept, ToSet
  <2>2. q # i
    BY <1>3, <2>1
  <2>3. CASE q < i
    <3>1. q \in 1 .. n - 1 /\ listing'[q] = old
      BY <1>1, <1>4, <1>5, <2>1, <2>3
    <3> QED BY <1>4, <3>1 DEF ToSet
  <2>4. CASE ~(q < i)
    <3>1. q - 1 \in 1 .. n - 1 /\ ~(q - 1 < i) /\ (q - 1) + 1 = q
      BY <1>1, <1>5, <2>1, <2>2, <2>4
    <3>2. listing'[q - 1] = listing[(q - 1) + 1]
      BY <1>4, <3>1
    <3> QED BY <1>4, <2>1, <3>1, <3>2 DEF ToSet
  <2> QED BY <2>3, <2>4
<1>9. ListingKept'
  <2>1. \A j, k \in DOMAIN listing' : listing'[j] = listing'[k] => j = k
    BY <1>4, <1>6
  <2>2. policy.order = "dated" => NewestFirst(listing')
    BY <1>4, <1>7 DEF NewestFirst
  <2>3. policy \in Sources
    BY <1>1 DEF ListingKept
  <2> QED BY <1>1, <1>2, <1>4, <1>8, <2>1, <2>2, <2>3 DEF ListingKept
<1>10. WithdrawnOnly'
  <2> SUFFICES ASSUME changes' \subseteq {"withdrawn"}
               PROVE  /\ page > 1 => n - 1 <= first.total
                      /\ page = 1 \/ first.total = n - 1 => Covered(Behind, read)'
    BY <1>2, <1>4 DEF WithdrawnOnly
  <2>1. page \in Nat \ {0} /\ (page > 1 => first.total \in Nat /\ n <= first.total)
    BY <1>1 DEF Collecting, WithdrawnOnly, n
  <2>2. CASE page = 1
    <3>1. Behind' = 0
      BY <1>2, <2>1, <2>2, BehindFacts DEF Behind
    <3> QED BY <1>4, <2>2, <3>1 DEF Covered
  <2>3. CASE page > 1
    BY <1>1, <2>1, <2>3
  <2> QED BY <2>1, <2>2, <2>3
<1>11. PublishedOnly' /\ ClippedOnly' /\ RerankedOnly'
  BY <1>1 DEF PublishedOnly, ClippedOnly, RerankedOnly
<1>12. Collecting'
  BY <1>1, <1>2, <1>10, <1>11 DEF Collecting, Behind
<1> QED BY <1>1, <1>2, <1>9, <1>12 DEF PagesInv

LEMMA RerankKeeps ==
  ASSUME PagesInv, Rerank
  PROVE  PagesInv'
<1> DEFINE n == Len(listing)
<1>1. /\ ListingKept /\ Collecting /\ batch = Nothing
      /\ n \in Nat /\ DOMAIN listing = 1 .. n
      /\ \A j \in 1 .. n : listing[j] \in Rows /\ listing[j] \in Nat
      /\ \A j, k \in 1 .. n : listing[j] = listing[k] => j = k
      /\ changes \subseteq changes' /\ "reranked" \in changes' /\ changes' \subseteq Kinds
  BY ChangeFacts DEF Rerank
<1>2. UNCHANGED <<policy, steady, page, first, read, batch>> /\ policy.order = "ranked"
  BY DEF Rerank
<1>3. PICK i \in 1 .. n, j \in 1 .. n :
        i < j /\ listing' = [listing EXCEPT ![i] = listing[j], ![j] = listing[i]]
  BY <1>1 DEF Rerank
<1>4. /\ listing' \in Seq(Rows) /\ Len(listing') = n /\ DOMAIN listing' = 1 .. n
      /\ \A k \in 1 .. n : listing'[k] = IF k = j THEN listing[i]
                                         ELSE IF k = i THEN listing[j] ELSE listing[k]
  <2>1. listing \in [1 .. n -> Rows]
    BY <1>1, LenProperties DEF ListingKept
  <2>2. /\ listing' \in [1 .. n -> Rows]
        /\ \A k \in 1 .. n : listing'[k] = IF k = j THEN listing[i]
                                           ELSE IF k = i THEN listing[j] ELSE listing[k]
    BY <1>3, <2>1
  <2> HIDE DEF n
  <2>3. listing' \in Seq(Rows)
    BY <1>1, <2>2, IsASeq
  <2>4. Len(listing') = n
    BY <1>1, <2>2, <2>3, LenProperties
  <2> QED BY <2>2, <2>3, <2>4
<1> HIDE DEF n
<1>5. i \in 1 .. n /\ j \in 1 .. n /\ i # j
  BY <1>1, <1>3
<1>6. ASSUME NEW k \in 1 .. n, NEW l \in 1 .. n, listing'[k] = listing'[l] PROVE k = l
  BY <1>1, <1>4, <1>5, <1>6
<1>7. ToSet(listing') = ToSet(listing)
  <2>1. ASSUME NEW x \in ToSet(listing') PROVE x \in ToSet(listing)
    BY <1>1, <1>4, <1>5, <2>1 DEF ToSet
  <2>2. ASSUME NEW x \in ToSet(listing) PROVE x \in ToSet(listing')
    <3>1. PICK q \in 1 .. n : listing[q] = x
      BY <1>1 DEF ToSet
    <3>2. \E k \in 1 .. n : listing'[k] = x
      <4>1. listing'[i] = listing[j] /\ listing'[j] = listing[i]
        BY <1>4, <1>5
      <4>2. q # i /\ q # j => listing'[q] = listing[q]
        BY <1>4
      <4> QED BY <1>5, <3>1, <4>1, <4>2
    <3> QED BY <1>4, <3>2 DEF ToSet
  <2> QED BY <2>1, <2>2
<1>8. ListingKept'
  <2>1. \A k, l \in DOMAIN listing' : listing'[k] = listing'[l] => k = l
    BY <1>4, <1>6
  <2>2. policy \in Sources /\ steady \subseteq ToSet(listing)
    BY <1>1 DEF ListingKept
  <2> QED BY <1>1, <1>2, <1>4, <1>7, <2>1, <2>2 DEF ListingKept
<1>9. RerankedOnly'
  BY <1>1, <1>2, <1>4, <1>7 DEF Collecting, RerankedOnly, n
<1>10. PublishedOnly' /\ WithdrawnOnly' /\ ClippedOnly'
  BY <1>1 DEF PublishedOnly, WithdrawnOnly, ClippedOnly
<1>11. Collecting'
  BY <1>1, <1>2, <1>9, <1>10 DEF Collecting, Behind
<1> QED BY <1>1, <1>2, <1>8, <1>11 DEF PagesInv

LEMMA PagesInitHolds ==
  ASSUME PagesInit
  PROVE  PagesInv
<1>1. PICK n \in 0 .. Cardinality(Rows) : listing \in [1 .. n -> Rows]
  BY DEF PagesInit
<1>2. n \in Nat
  BY <1>1
<1>3. listing \in Seq(Rows)
  BY <1>1, <1>2, IsASeq
<1>4. Len(listing) \in Nat /\ DOMAIN listing = 1 .. Len(listing)
      /\ \A j \in 1 .. Len(listing) : listing[j] \in Rows /\ listing[j] \in Nat
  BY <1>3, LenProperties, RowsAssumption
<1>5. NewestFirst(listing)
  BY DEF PagesInit
<1>6. ASSUME NEW j \in DOMAIN listing, NEW k \in DOMAIN listing, listing[j] = listing[k] PROVE j = k
  <2>1. ~(j < k) /\ ~(k < j)
    BY <1>4, <1>5, <1>6 DEF NewestFirst
  <2> QED BY <1>4, <2>1
<1>7. ListingKept
  BY <1>3, <1>5, <1>6 DEF PagesInit, ListingKept, Kinds
<1>8. page = 1 /\ read = <<>> /\ Len(read) = 0 /\ read \in Seq(Rows) /\ ToSet(read) = {} /\ batch = Nothing
  BY EmptySeq DEF PagesInit, ToSet
<1>9. Behind = 0
  BY <1>8, BehindFacts
<1>10. Covered(Behind, read)
  BY <1>4, <1>9 DEF Covered
<1>11. PublishedOnly /\ WithdrawnOnly /\ ClippedOnly /\ RerankedOnly
  BY <1>4, <1>8, <1>10 DEF PublishedOnly, WithdrawnOnly, ClippedOnly, RerankedOnly
<1>12. Collecting
  BY <1>8, <1>9, <1>11 DEF Collecting
<1> QED BY <1>7, <1>8, <1>12 DEF PagesInv

LEMMA PagesRest ==
  ASSUME PagesInv, UNCHANGED pagesVars
  PROVE  PagesInv'
<1>1. UNCHANGED <<policy, listing, steady, changes, used, page, first, read, batch>>
  BY DEF pagesVars, upstream
<1>2. ListingKept' = ListingKept
  BY <1>1 DEF ListingKept
<1>3. Collecting' = Collecting
  <2>1. Covered(Behind, read)' = Covered(Behind, read)
    BY <1>1 DEF Covered, Behind
  <2>2. Behind' = Behind
    BY <1>1 DEF Behind
  <2> QED BY <1>1, <2>1, <2>2
          DEF Collecting, PublishedOnly, WithdrawnOnly, ClippedOnly, RerankedOnly
<1>4. CompleteMissesNothing' = CompleteMissesNothing
  <2>1. Withstood' = Withstood /\ {row \in steady : InWindow(row)}' = {row \in steady : InWindow(row)}
    BY <1>1 DEF Withstood, InWindow
  <2> QED BY <1>1, <2>1 DEF CompleteMissesNothing, AskedFor
<1> QED BY <1>1, <1>2, <1>3, <1>4 DEF PagesInv

\* A collection handed on as complete has every row that was listed all along and
\* lies in the window, or as many as were asked for, although the listing changed
\* between its pages in one of the ways the policy of the collector withstands.
THEOREM CompleteCollections == PagesSpec => []CompleteMissesNothing
<1>1. PagesInit => PagesInv
  BY PagesInitHolds
<1>2. PagesInv /\ [PagesNext]_pagesVars => PagesInv'
  BY PublishKeeps, WithdrawKeeps, RerankKeeps, FetchKeeps, FailureKeeps, PagesRest DEF PagesNext
<1>3. PagesInv => CompleteMissesNothing
  BY DEF PagesInv, CompleteMissesNothing
<1> QED BY <1>1, <1>2, <1>3, PTL DEF PagesSpec

-----------------------------------------------------------------------------
(* The replay of a trading day. *)

\* How many numbers of a set are not above one.
RankIn(S, n) == Cardinality({m \in S : m <= n})

\* The numbers of a finite set have the ranks from one on, each one its own.
LEMMA Ranks ==
  ASSUME NEW S \in SUBSET Int, IsFiniteSet(S)
  PROVE  /\ Cardinality(S) \in Nat
         /\ \A n \in S : RankIn(S, n) \in 1 .. Cardinality(S)
         /\ \A m, n \in S : m < n => RankIn(S, m) < RankIn(S, n)
         /\ \A k \in 1 .. Cardinality(S) : \E n \in S : RankIn(S, n) = k
<1> DEFINE upto(n) == {m \in S : m <= n}
           N == Cardinality(S)
<1>1. N \in Nat
  BY FS_CardinalityType
<1>2. ASSUME NEW n \in S
      PROVE  IsFiniteSet(upto(n)) /\ RankIn(S, n) = Cardinality(upto(n)) /\ RankIn(S, n) \in 1 .. N
  <2>1. upto(n) \subseteq S /\ n \in upto(n) /\ RankIn(S, n) = Cardinality(upto(n))
    BY DEF RankIn
  <2> HIDE DEF upto
  <2>2. IsFiniteSet(upto(n)) /\ Cardinality(upto(n)) <= N
    BY <2>1, FS_Subset
  <2>3. Cardinality(upto(n)) \in Nat /\ Cardinality(upto(n)) # 0
    BY <2>1, <2>2, FS_CardinalityType, FS_EmptySet
  <2> HIDE DEF N
  <2> QED BY <1>1, <2>1, <2>2, <2>3
<1>3. ASSUME NEW m \in S, NEW n \in S, m < n PROVE RankIn(S, m) < RankIn(S, n)
  <2>0. m \in Int /\ n \in Int /\ ~(n <= m) /\ n <= n /\ \A x \in S : x <= m => x <= n
    <3>1. \A x \in S : x \in Int
      OBVIOUS
    <3> QED BY <1>3, <3>1
  <2>1. upto(m) \subseteq upto(n) /\ n \in upto(n) /\ n \notin upto(m)
    BY <2>0
  <2> HIDE DEF upto
  <2>2. upto(m) # upto(n)
    BY <2>1
  <2>3. Cardinality(upto(m)) <= Cardinality(upto(n)) /\ Cardinality(upto(m)) # Cardinality(upto(n))
    BY <1>2, <2>1, <2>2, FS_Subset
  <2> HIDE DEF N
  <2>4. RankIn(S, m) \in Int /\ RankIn(S, n) \in Int
    BY <1>1, <1>2
  <2> QED BY <1>2, <2>3, <2>4
<1> DEFINE rank == [n \in S |-> RankIn(S, n)]
<1>4. rank \in Injection(S, 1 .. N)
  <2>1. rank \in [S -> 1 .. N]
    BY <1>2
  <2>2. ASSUME NEW m \in S, NEW n \in S, rank[m] = rank[n] PROVE m = n
    <3>1. m < n \/ n < m \/ m = n
      OBVIOUS
    <3>2. RankIn(S, m) = RankIn(S, n)
      BY <2>2
    <3> HIDE DEF N, rank
    <3>3. RankIn(S, m) \in Int
      <4> HIDE DEF upto
      <4>1. RankIn(S, m) \in 1 .. N
        BY <1>2
      <4> QED BY <1>1, <4>1
    <3> QED BY <1>3, <3>1, <3>2, <3>3
  <2> HIDE DEF rank, N
  <2> QED BY <2>1, <2>2 DEF Injection, IsInjective
<1>5. IsFiniteSet(1 .. N) /\ Cardinality(1 .. N) = N
  BY <1>1, FS_Interval
<1>6. rank \in Surjection(S, 1 .. N)
  <2> HIDE DEF rank
  <2> QED BY <1>4, <1>5, FS_Injection
<1>7. ASSUME NEW k \in 1 .. N PROVE \E n \in S : RankIn(S, n) = k
  <2>1. \E n \in S : rank[n] = k
    <3> HIDE DEF rank
    <3> QED BY <1>6 DEF Surjection
  <2> QED BY <2>1
<1> QED BY <1>1, <1>2, <1>3, <1>7

\* Two numbers of a set that have one rank are the same.
LEMMA RankTells ==
  ASSUME NEW S \in SUBSET Int, IsFiniteSet(S), NEW m \in S, NEW n \in S, RankIn(S, m) = RankIn(S, n)
  PROVE  m = n
<1>1. m < n \/ n < m \/ m = n
  OBVIOUS
<1>2. RankIn(S, m) \in Int /\ RankIn(S, n) \in Int
  BY Ranks
<1>3. (m < n => RankIn(S, m) < RankIn(S, n)) /\ (n < m => RankIn(S, n) < RankIn(S, m))
  BY Ranks
<1> QED BY <1>1, <1>2, <1>3

\* What InOrder lists.
LEMMA Ordered ==
  ASSUME NEW S \in SUBSET Int, IsFiniteSet(S)
  PROVE  /\ Cardinality(S) \in Nat
         /\ InOrder(S) \in [1 .. Cardinality(S) -> S]
         /\ \A k \in 1 .. Cardinality(S) : RankIn(S, InOrder(S)[k]) = k
         /\ \A i, j \in 1 .. Cardinality(S) : i < j => InOrder(S)[i] < InOrder(S)[j]
         /\ \A n \in S : \E k \in 1 .. Cardinality(S) : InOrder(S)[k] = n
<1> DEFINE N == Cardinality(S)
           f == InOrder(S)
<1>1. N \in Nat
  BY Ranks
<1>2. f = [k \in 1 .. N |-> CHOOSE n \in S : RankIn(S, n) = k]
  BY DEF InOrder, RankIn
<1>3. ASSUME NEW k \in 1 .. N PROVE f[k] \in S /\ RankIn(S, f[k]) = k
  <2>1. \E n \in S : RankIn(S, n) = k
    BY Ranks
  <2> HIDE DEF f, N
  <2> QED BY <1>2, <2>1
<1>4. f \in [1 .. N -> S]
  <2> HIDE DEF f, N
  <2> QED BY <1>2, <1>3
<1>5. ASSUME NEW i \in 1 .. N, NEW j \in 1 .. N, i < j PROVE f[i] < f[j]
  <2>1. f[i] \in S /\ f[j] \in S /\ RankIn(S, f[i]) = i /\ RankIn(S, f[j]) = j
    BY <1>3
  <2> HIDE DEF f, N
  <2>2. f[j] < f[i] => RankIn(S, f[j]) < RankIn(S, f[i])
    BY <2>1, Ranks
  <2>3. f[i] # f[j] /\ ~(f[j] < f[i])
    BY <1>5, <2>1, <2>2, <1>1
  <2>4. f[i] \in Int /\ f[j] \in Int
    BY <2>1
  <2> QED BY <2>3, <2>4
<1>6. ASSUME NEW n \in S PROVE \E k \in 1 .. N : f[k] = n
  <2>1. RankIn(S, n) \in 1 .. N
    BY Ranks
  <2> DEFINE m == f[RankIn(S, n)]
  <2>2. m \in S /\ RankIn(S, m) = RankIn(S, n)
    BY <1>3, <2>1
  <2> HIDE DEF f, m
  <2>3. m = n
    BY <2>2, RankTells
  <2> QED BY <2>1, <2>3 DEF m
<1> QED BY <1>1, <1>3, <1>4, <1>5, <1>6

\* There is one way to list a set in its order.
LEMMA OrderIsUnique ==
  ASSUME NEW S \in SUBSET Int, IsFiniteSet(S), NEW N \in Nat, NEW f \in [1 .. N -> S],
         \A i, j \in 1 .. N : i < j => f[i] < f[j],
         \A n \in S : \E k \in 1 .. N : f[k] = n
  PROVE  N = Cardinality(S) /\ f = InOrder(S)
<1>0. \A i, j \in 1 .. N : f[i] = f[j] => i = j
  <2> SUFFICES ASSUME NEW i \in 1 .. N, NEW j \in 1 .. N, f[i] = f[j] PROVE i = j
    OBVIOUS
  <2>1. i < j \/ j < i \/ i = j
    OBVIOUS
  <2>2. f[i] \in Int /\ f[j] \in Int
    OBVIOUS
  <2> QED BY <2>1, <2>2
<1>1. f \in Bijection(1 .. N, S)
  BY <1>0 DEF Bijection, Injection, Surjection, IsInjective
<1>2. IsFiniteSet(1 .. N) /\ Cardinality(1 .. N) = N
  BY FS_Interval
<1>3. N = Cardinality(S)
  BY <1>1, <1>2, FS_Bijection DEF ExistsBijection
<1>4. ASSUME NEW k \in 1 .. N PROVE RankIn(S, f[k]) = k
  <2> DEFINE below == {m \in S : m <= f[k]}
             g == [i \in 1 .. k |-> f[i]]
  <2>1. ASSUME NEW i \in 1 .. N PROVE f[i] <= f[k] <=> i <= k
    <3>1. i < k \/ k < i \/ i = k
      OBVIOUS
    <3>2. f[i] \in Int /\ f[k] \in Int
      OBVIOUS
    <3>3. (i < k => f[i] < f[k]) /\ (k < i => f[k] < f[i])
      OBVIOUS
    <3> QED BY <3>1, <3>2, <3>3
  <2>2. g \in [1 .. k -> below]
    BY <2>1
  <2>3. \A m \in below : \E i \in 1 .. k : g[i] = m
    <3> SUFFICES ASSUME NEW m \in below PROVE \E i \in 1 .. k : g[i] = m
      OBVIOUS
    <3>1. PICK i \in 1 .. N : f[i] = m
      OBVIOUS
    <3>2. i \in 1 .. k
      BY <2>1, <3>1
    <3> QED BY <3>1, <3>2
  <2>4. \A i, j \in 1 .. k : g[i] = g[j] => i = j
    <3>1. \A i \in 1 .. k : i \in 1 .. N
      OBVIOUS
    <3> QED BY <1>0, <3>1
  <2>5. g \in Bijection(1 .. k, below)
    <3> HIDE DEF g, below
    <3> QED BY <2>2, <2>3, <2>4 DEF Bijection, Injection, Surjection, IsInjective
  <2>6. IsFiniteSet(1 .. k) /\ Cardinality(1 .. k) = k
    BY FS_Interval
  <2>7. Cardinality(below) = k
    <3> HIDE DEF g, below
    <3> QED BY <2>5, <2>6, FS_Bijection DEF ExistsBijection
  <2> QED BY <2>7 DEF RankIn
<1>5. ASSUME NEW k \in 1 .. N PROVE f[k] = InOrder(S)[k]
  <2>1. RankIn(S, InOrder(S)[k]) = k /\ InOrder(S)[k] \in S
    BY <1>3, Ordered
  <2> QED BY <1>4, <2>1, RankTells
<1>6. InOrder(S) \in [1 .. N -> S]
  BY <1>3, Ordered
<1> QED BY <1>3, <1>5, <1>6

\* What is picked from an ordered list is in order.
LEMMA PickedInOrder ==
  ASSUME NEW K \in SUBSET Int, IsFiniteSet(K), NEW Q \in SUBSET K, NEW places,
         places = {i \in 1 .. Cardinality(K) : InOrder(K)[i] \in Q}
  PROVE  /\ IsFiniteSet(Q) /\ Cardinality(Q) = Cardinality(places) /\ Cardinality(places) \in Nat
         /\ InOrder(places) \in [1 .. Cardinality(places) -> places]
         /\ \A j \in 1 .. Cardinality(places) : InOrder(Q)[j] = InOrder(K)[InOrder(places)[j]]
<1> DEFINE N == Cardinality(K)
           f == InOrder(K)
           n == Cardinality(places)
           order == InOrder(places)
           g == [j \in 1 .. n |-> f[order[j]]]
<1>1. /\ N \in Nat /\ f \in [1 .. N -> K]
      /\ \A i, j \in 1 .. N : i < j => f[i] < f[j]
      /\ \A m \in K : \E k \in 1 .. N : f[k] = m
  BY Ordered
<1>2. IsFiniteSet(1 .. N) /\ places \subseteq 1 .. N /\ places \subseteq Int
  BY <1>1, FS_Interval
<1>3. IsFiniteSet(places) /\ IsFiniteSet(Q) /\ Q \subseteq Int
  <2> HIDE DEF N, f
  <2> QED BY <1>2, FS_Subset
<1>4. /\ n \in Nat /\ order \in [1 .. n -> places]
      /\ \A i, j \in 1 .. n : i < j => order[i] < order[j]
      /\ \A m \in places : \E k \in 1 .. n : order[k] = m
  <2> HIDE DEF N, f
  <2>1. places \in SUBSET Int
    BY <1>2
  <2> QED BY <1>3, <2>1, Ordered
<1>5. \A i \in 1 .. N : i \in places <=> f[i] \in Q
  OBVIOUS
<1> HIDE DEF N, f, n, order
<1>6. \A j \in 1 .. n : order[j] \in places /\ order[j] \in 1 .. N /\ f[order[j]] \in Q
  BY <1>2, <1>4, <1>5
<1>7. g \in [1 .. n -> Q] /\ \A i, j \in 1 .. n : i < j => g[i] < g[j]
  BY <1>1, <1>4, <1>6
<1>8. ASSUME NEW m \in Q PROVE \E j \in 1 .. n : g[j] = m
  <2>1. PICK i \in 1 .. N : f[i] = m
    BY <1>1
  <2>2. PICK j \in 1 .. n : order[j] = i
    BY <1>4, <1>5, <2>1
  <2> QED BY <2>1, <2>2
<1> HIDE DEF g
<1>9. n = Cardinality(Q) /\ g = InOrder(Q)
  BY <1>3, <1>4, <1>7, <1>8, OrderIsUnique
<1>10. \A j \in 1 .. n : InOrder(Q)[j] = f[order[j]]
  BY <1>9 DEF g
<1> QED BY <1>3, <1>4, <1>9, <1>10 DEF f, n, order

\* The ends of a list in order.
LEMMA EndsOfOrder ==
  ASSUME NEW S \in SUBSET Int, IsFiniteSet(S), S # {}
  PROVE  /\ Cardinality(S) \in Nat \ {0}
         /\ InOrder(S)[1] \in S /\ \A n \in S : InOrder(S)[1] <= n
         /\ InOrder(S)[Cardinality(S)] \in S /\ \A n \in S : n <= InOrder(S)[Cardinality(S)]
<1> DEFINE N == Cardinality(S)
           f == InOrder(S)
<1>1. /\ N \in Nat /\ f \in [1 .. N -> S]
      /\ \A i, j \in 1 .. N : i < j => f[i] < f[j]
      /\ \A m \in S : \E k \in 1 .. N : f[k] = m
  BY Ordered
<1>2. N # 0
  BY FS_EmptySet
<1> HIDE DEF N, f
<1>3. 1 \in 1 .. N /\ N \in 1 .. N /\ \A k \in 1 .. N : k \in Nat /\ (k = 1 \/ 1 < k) /\ (k = N \/ k < N)
  BY <1>1, <1>2
<1>4. ASSUME NEW n \in S PROVE f[1] <= n /\ n <= f[N]
  <2>1. PICK k \in 1 .. N : f[k] = n
    BY <1>1
  <2>2. f[1] = f[k] \/ f[1] < f[k]
    BY <1>1, <1>3
  <2>3. f[k] = f[N] \/ f[k] < f[N]
    BY <1>1, <1>3
  <2>4. f[1] \in Int /\ f[k] \in Int /\ f[N] \in Int
    BY <1>1, <1>3
  <2> QED BY <2>1, <2>2, <2>3, <2>4
<1> QED BY <1>1, <1>2, <1>3, <1>4 DEF N, f

-----------------------------------------------------------------------------
(* The rows of a day. *)

Closes == {s \in Slots(truth.final) : s >= ClosingStart}
\* Where the row of a slot is put.
RowAt(s) ==
  [start |-> s,
   end   |-> IF s = 0 THEN 0 ELSE IF s >= ClosingStart /\ truth.final THEN DayEnd ELSE s + 1,
   phase |-> IF s = 0 THEN "opening_auction"
             ELSE IF s >= ClosingStart THEN "closing_auction" ELSE PhaseOf(s, s + 1),
   price |-> truth.trades[s]]
RowsAt(slots) == [i \in 1 .. Cardinality(slots) |-> RowAt(InOrder(slots)[i])]

\* The stages follow one another, and the truth has a price for each slot.
LEMMA Session ==
  ASSUME truth \in Truths
  PROVE  /\ truth.final \in BOOLEAN /\ truth.trades \in [Slots(truth.final) -> Nat]
         /\ ClosingStart \in Nat /\ DayEnd \in Nat /\ ClosingStart < DayEnd
         /\ Slots(truth.final) \subseteq Nat /\ IsFiniteSet(Slots(truth.final))
         /\ Slots(truth.final) = {0} \cup Minutes \cup Closes
         /\ \A s \in Minutes : /\ s \in Nat /\ 0 < s /\ s < ClosingStart
                               /\ PhaseOf(s, s + 1) \in {"continuous_morning", "continuous_afternoon"}
         /\ \A s \in Closes : s \in Nat /\ 0 < s /\ ClosingStart <= s
<1>1. /\ truth.final \in BOOLEAN /\ truth.trades \in [Slots(truth.final) -> Nat]
      /\ Morning \in Nat \ {0} /\ Afternoon \in Nat \ {0} /\ Closing \in Nat \ {0}
  BY SessionAssumption
<1>2. /\ MorningEnd = Morning + 1 /\ AfternoonStart = Morning + 2
      /\ ClosingStart = Morning + 2 + Afternoon /\ DayEnd = Morning + 2 + Afternoon + Closing
  BY <1>1 DEF MorningEnd, AfternoonStart, ClosingStart, DayEnd
<1>3. Minutes = (1 .. Morning) \cup (Morning + 2 .. Morning + 1 + Afternoon)
  BY <1>1, <1>2 DEF Minutes
<1>4. Slots(truth.final) =
        {0} \cup Minutes \cup (IF truth.final THEN {ClosingStart} ELSE ClosingStart .. DayEnd - 1)
  BY DEF Slots
<1>5. \A s \in Minutes : s \in Nat /\ 0 < s /\ s < ClosingStart
  BY <1>1, <1>2, <1>3
<1>6. ASSUME NEW s \in Minutes
      PROVE  PhaseOf(s, s + 1) \in {"continuous_morning", "continuous_afternoon"}
  <2>1. CASE s \in 1 .. Morning
    BY <1>1, <1>2, <2>1 DEF PhaseOf
  <2>2. CASE s \in Morning + 2 .. Morning + 1 + Afternoon
    BY <1>1, <1>2, <2>2 DEF PhaseOf
  <2> QED BY <1>3, <2>1, <2>2
<1>7. ClosingStart \in Nat /\ DayEnd \in Nat /\ ClosingStart < DayEnd /\ 0 < ClosingStart
  BY <1>1, <1>2
<1>8. Closes = IF truth.final THEN {ClosingStart} ELSE ClosingStart .. DayEnd - 1
  BY <1>4, <1>5, <1>7 DEF Closes
<1>9. Slots(truth.final) = {0} \cup Minutes \cup Closes
  BY <1>4, <1>8
<1>10. \A s \in Closes : s \in Nat /\ 0 < s /\ ClosingStart <= s
  BY <1>7, <1>8
<1>11. Slots(truth.final) \subseteq Nat /\ \A s \in Slots(truth.final) : s <= DayEnd
  BY <1>5, <1>7, <1>8, <1>9
<1>12. IsFiniteSet(Slots(truth.final))
  BY <1>7, <1>11, FS_BoundedSetOfNaturals
<1> QED BY <1>1, <1>5, <1>6, <1>7, <1>9, <1>10, <1>11, <1>12

\* A truthful row is put where its slot is, whatever its stamp means.
LEMMA TrueRowsArePlaced ==
  ASSUME truth \in Truths, NEW means \in Means, NEW s \in Slots(truth.final)
  PROVE  Placed(TrueRow(s, means)) = RowAt(s)
<1> DEFINE raw == TrueRow(s, means)
<1> SUFFICES Placed(raw) = RowAt(s)
  OBVIOUS
<1>0. /\ truth.final \in BOOLEAN /\ ClosingStart \in Nat /\ DayEnd \in Nat /\ ClosingStart < DayEnd
      /\ s \in Nat /\ means \in {"interval_start", "interval_end"}
      /\ raw.means = means /\ raw.price = truth.trades[s]
      /\ 0 < ClosingStart
  BY Session DEF Means, TrueRow, Raw, Closes
<1>1. CASE s = 0
  <2>1. raw.phase = "opening_auction" /\ raw.stamp = 0
    BY <1>1 DEF TrueRow, Raw
  <2> HIDE DEF raw
  <2> QED BY <1>0, <1>1, <2>1 DEF Placed, RowAt
<1>2. CASE s \in Minutes
  <2>1. /\ 0 < s /\ s < ClosingStart /\ ~(s >= ClosingStart) /\ s # 0
        /\ PhaseOf(s, s + 1) \in {"continuous_morning", "continuous_afternoon"}
    BY <1>0, <1>2, Session
  <2>2. raw.phase = "continuous" /\ raw.stamp = IF means = "interval_start" THEN s ELSE s + 1
    BY <1>0, <1>2, <2>1 DEF TrueRow, Raw
  <2>3. (IF raw.means = "interval_start" THEN raw.stamp ELSE raw.stamp - 1) = s
    BY <1>0, <2>2
  <2> HIDE DEF raw
  <2> QED BY <1>0, <2>1, <2>2, <2>3 DEF Placed, RowAt
<1>3. CASE s \in Closes
  <2>1. 0 < s /\ s >= ClosingStart /\ s # 0
    BY <1>0, <1>3, Session
  <2>2. raw.phase = "closing_auction"
    BY <1>0, <2>1 DEF TrueRow, Raw
  <2>3. CASE truth.final
    <3>1. s = ClosingStart
      BY <1>0, <1>3, <2>1, <2>3, Session DEF Closes, Slots
    <3>2. raw.stamp \in {ClosingStart, DayEnd}
      BY <1>0, <2>1, <2>3, <3>1 DEF TrueRow, Raw
    <3> HIDE DEF raw
    <3> QED BY <1>0, <2>1, <2>2, <2>3, <3>1, <3>2 DEF Placed, RowAt
  <2>4. CASE ~truth.final
    <3>1. ClosingStart <= s /\ s < DayEnd
      BY <1>0, <1>3, <2>1, <2>4, Session DEF Closes, Slots
    <3>2. raw.stamp = IF means = "interval_start" THEN s ELSE s + 1
      BY <1>0, <2>1, <2>4 DEF TrueRow, Raw
    <3>3. (IF raw.means = "interval_start" THEN raw.stamp ELSE raw.stamp - 1) = s
      BY <1>0, <3>2
    <3> HIDE DEF raw
    <3> QED BY <1>0, <2>1, <2>2, <2>4, <3>1, <3>3 DEF Placed, RowAt
  <2> QED BY <1>0, <2>3, <2>4
<1> QED BY <1>1, <1>2, <1>3, Session

\* The rows of some slots are a list with one row for each.
LEMMA RowsOfSlots ==
  ASSUME truth \in Truths, NEW Q \in SUBSET Slots(truth.final)
  PROVE  /\ Q \subseteq Int /\ IsFiniteSet(Q) /\ Cardinality(Q) \in Nat
         /\ DOMAIN RowsAt(Q) = 1 .. Cardinality(Q) /\ Len(RowsAt(Q)) = Cardinality(Q)
         /\ InOrder(Q) \in [1 .. Cardinality(Q) -> Q]
         /\ \A i \in 1 .. Cardinality(Q) : RowsAt(Q)[i] = RowAt(InOrder(Q)[i])
         /\ ToSet(RowsAt(Q)) = {RowAt(s) : s \in Q}
         /\ RowsAt(Q) = <<>> <=> Q = {}
<1> DEFINE N == Cardinality(Q)
           f == InOrder(Q)
           lines == RowsAt(Q)
           R == {RowAt(s) : s \in Q}
<1>1. Q \subseteq Int /\ IsFiniteSet(Q)
  BY Session, FS_Subset
<1>2. N \in Nat /\ f \in [1 .. N -> Q] /\ \A n \in Q : \E k \in 1 .. N : f[k] = n
  BY <1>1, Ordered
<1>3. lines = [i \in 1 .. N |-> RowAt(f[i])]
  BY DEF RowsAt
<1>4. N = 0 <=> Q = {}
  BY <1>1, FS_EmptySet
<1> HIDE DEF N, f, lines
<1>5. lines \in [1 .. N -> R]
  BY <1>2, <1>3
<1>6. lines \in Seq(R)
  <2> HIDE DEF R
  <2> QED BY <1>2, <1>5, SeqDef
<1>7. DOMAIN lines = 1 .. N /\ Len(lines) = N
  <2>1. Len(lines) \in Nat /\ DOMAIN lines = 1 .. Len(lines)
    <3> HIDE DEF R
    <3> QED BY <1>6, LenProperties
  <2> QED BY <1>2, <1>5, <2>1
<1>8. ToSet(lines) = R
  <2>1. \A i \in 1 .. N : lines[i] \in R
    BY <1>5
  <2>2. ASSUME NEW s \in Q PROVE \E i \in 1 .. N : lines[i] = RowAt(s)
    <3>1. PICK i \in 1 .. N : f[i] = s
      BY <1>2
    <3> QED BY <1>3, <3>1
  <2> QED BY <1>7, <2>1, <2>2 DEF ToSet
<1>9. lines = <<>> <=> N = 0
  <2>1. lines # <<>> => Len(lines) # 0
    <3> HIDE DEF R
    <3> QED BY <1>6, EmptySeq
  <2>2. Len(<<>>) = 0
    OBVIOUS
  <2> QED BY <1>7, <2>1, <2>2
<1> QED BY <1>1, <1>2, <1>3, <1>4, <1>7, <1>8, <1>9 DEF N, f, lines

\* Rows picked by their slots.
LEMMA PickedRows ==
  ASSUME truth \in Truths, NEW K \in SUBSET Slots(truth.final), NEW Q \in SUBSET K, NEW places,
         places = {i \in 1 .. Cardinality(K) : InOrder(K)[i] \in Q}
  PROVE  AtPlaces(RowsAt(K), places) = RowsAt(Q)
<1> DEFINE n == Cardinality(places)
           order == InOrder(places)
<1>1. K \subseteq Int /\ IsFiniteSet(K)
  BY RowsOfSlots
<1>2. /\ Cardinality(Q) = n /\ n \in Nat /\ order \in [1 .. n -> places]
      /\ \A j \in 1 .. n : InOrder(Q)[j] = InOrder(K)[order[j]]
  <2>1. K \in SUBSET Int /\ Q \in SUBSET K
    BY <1>1
  <2> HIDE DEF n, order
  <2>2. /\ Cardinality(Q) = Cardinality(places) /\ Cardinality(places) \in Nat
        /\ InOrder(places) \in [1 .. Cardinality(places) -> places]
        /\ \A j \in 1 .. Cardinality(places) : InOrder(Q)[j] = InOrder(K)[InOrder(places)[j]]
    BY <1>1, <2>1, PickedInOrder, SMTT(30)
  <2> QED BY <2>2 DEF n, order
<1>3. \A i \in 1 .. Cardinality(K) : RowsAt(K)[i] = RowAt(InOrder(K)[i])
  BY RowsOfSlots
<1>4. AtPlaces(RowsAt(K), places) = [j \in 1 .. n |-> RowsAt(K)[order[j]]]
  BY <1>2 DEF AtPlaces
<1> HIDE DEF n, order
<1>5. \A j \in 1 .. n : order[j] \in 1 .. Cardinality(K)
  BY <1>2
<1>6. \A j \in 1 .. n : RowsAt(K)[order[j]] = RowAt(InOrder(Q)[j])
  BY <1>2, <1>3, <1>5
<1>7. RowsAt(Q) = [j \in 1 .. n |-> RowAt(InOrder(Q)[j])]
  BY <1>2 DEF RowsAt
<1> QED BY <1>4, <1>6, <1>7

\* The rows with a trade, those of the minutes, and those of one phase.
LEMMA RowsWithATrade ==
  ASSUME truth \in Truths, NEW K \in SUBSET Slots(truth.final)
  PROVE  Traded(RowsAt(K)) = RowsAt({s \in K : truth.trades[s] # 0})
<1> DEFINE Q == {s \in K : truth.trades[s] # 0}
           places == {i \in DOMAIN RowsAt(K) : RowsAt(K)[i].price # 0}
<1>1. places = {i \in 1 .. Cardinality(K) : InOrder(K)[i] \in Q}
  <2>1. DOMAIN RowsAt(K) = 1 .. Cardinality(K)
    BY RowsOfSlots
  <2>2. \A i \in 1 .. Cardinality(K) : InOrder(K)[i] \in K /\ RowsAt(K)[i] = RowAt(InOrder(K)[i])
    BY RowsOfSlots
  <2>3. \A s \in K : RowAt(s).price = truth.trades[s]
    BY DEF RowAt
  <2> QED BY <2>1, <2>2, <2>3
<1>2. Traded(RowsAt(K)) = AtPlaces(RowsAt(K), places)
  BY DEF Traded
<1>3. Q \subseteq K
  OBVIOUS
<1> HIDE DEF Q, places
<1>4. AtPlaces(RowsAt(K), places) = RowsAt(Q)
  BY <1>1, <1>3, PickedRows
<1> QED BY <1>2, <1>4 DEF Q

LEMMA RowsOfPhase ==
  ASSUME truth \in Truths, NEW K \in SUBSET Slots(truth.final), NEW phase
  PROVE  OfPhase(RowsAt(K), phase) = RowsAt({s \in K : RowAt(s).phase = phase})
<1> DEFINE Q == {s \in K : RowAt(s).phase = phase}
           places == {i \in DOMAIN RowsAt(K) : RowsAt(K)[i].phase = phase}
<1>1. places = {i \in 1 .. Cardinality(K) : InOrder(K)[i] \in Q}
  <2>1. DOMAIN RowsAt(K) = 1 .. Cardinality(K)
    BY RowsOfSlots
  <2>2. \A i \in 1 .. Cardinality(K) : InOrder(K)[i] \in K /\ RowsAt(K)[i] = RowAt(InOrder(K)[i])
    BY RowsOfSlots
  <2> QED BY <2>1, <2>2
<1>2. OfPhase(RowsAt(K), phase) = AtPlaces(RowsAt(K), places)
  BY DEF OfPhase
<1>3. Q \subseteq K
  OBVIOUS
<1> HIDE DEF Q, places
<1>4. AtPlaces(RowsAt(K), places) = RowsAt(Q)
  BY <1>1, <1>3, PickedRows
<1> QED BY <1>2, <1>4 DEF Q

\* The phase of a slot.
LEMMA PhaseOfSlot ==
  ASSUME truth \in Truths, NEW s \in Slots(truth.final)
  PROVE  /\ RowAt(s).phase = "opening_auction" <=> s = 0
         /\ RowAt(s).phase = "closing_auction" <=> s \in Closes
         /\ IsContinuous(RowAt(s)) <=> s \in Minutes
         /\ s \in Minutes => RowAt(s).phase = PhaseOf(s, s + 1)
<1>0. /\ s \in Nat /\ ClosingStart \in Nat /\ (s = 0 \/ s \in Minutes \/ s \in Closes)
      /\ RowAt(s).phase = IF s = 0 THEN "opening_auction"
                          ELSE IF s >= ClosingStart THEN "closing_auction" ELSE PhaseOf(s, s + 1)
  BY Session DEF RowAt
<1>1. s \in Minutes => /\ s # 0 /\ ~(s >= ClosingStart) /\ s \notin Closes
                       /\ PhaseOf(s, s + 1) \in {"continuous_morning", "continuous_afternoon"}
  BY <1>0, Session
<1>2. s \in Closes => s # 0 /\ s >= ClosingStart
  BY <1>0, Session
<1> QED BY <1>0, <1>1, <1>2 DEF IsContinuous

LEMMA RowsOfMinutes ==
  ASSUME truth \in Truths, NEW K \in SUBSET Slots(truth.final)
  PROVE  Continuous(RowsAt(K)) = RowsAt(K \cap Minutes)
<1> DEFINE Q == K \cap Minutes
           places == {i \in DOMAIN RowsAt(K) : IsContinuous(RowsAt(K)[i])}
<1>0. \A i \in 1 .. Cardinality(K) : /\ InOrder(K)[i] \in K
                                     /\ IsContinuous(RowsAt(K)[i]) <=> InOrder(K)[i] \in Minutes
  BY RowsOfSlots, PhaseOfSlot
<1>1. places = {i \in 1 .. Cardinality(K) : InOrder(K)[i] \in Q}
  BY <1>0, RowsOfSlots
<1>2. Continuous(RowsAt(K)) = AtPlaces(RowsAt(K), places)
  BY DEF Continuous
<1>3. Q \subseteq K
  OBVIOUS
<1> HIDE DEF Q, places
<1>4. AtPlaces(RowsAt(K), places) = RowsAt(Q)
  BY <1>1, <1>3, PickedRows
<1> QED BY <1>2, <1>4 DEF Q

\* Rows of different slots are all kept.
LEMMA NothingTwice ==
  ASSUME truth \in Truths, NEW K \in SUBSET Slots(truth.final), NEW placed,
         placed = {RowAt(s) : s \in K}
  PROVE  Deduplicated(placed) = RowsAt(K)
<1>0. \A s \in K : RowAt(s).start = s
  BY DEF RowAt
<1>1. {row.start : row \in placed} = K
  <2>1. \A row \in placed : row.start \in K
    BY <1>0
  <2>2. \A s \in K : RowAt(s) \in placed /\ RowAt(s).start = s
    BY <1>0
  <2> QED BY <2>1, <2>2
<1>2. ASSUME NEW s \in K PROVE (CHOOSE row \in placed : row.start = s) = RowAt(s)
  <2>1. \A row \in placed : row.start = s => row = RowAt(s)
    BY <1>0
  <2>2. RowAt(s) \in placed /\ RowAt(s).start = s
    BY <1>0
  <2> QED BY <2>1, <2>2
<1>3. InOrder(K) \in [1 .. Cardinality(K) -> K]
  BY RowsOfSlots
<1> DEFINE starts == InOrder({row.start : row \in placed})
<1>4. Deduplicated(placed) = [i \in DOMAIN InOrder(K) |-> CHOOSE row \in placed : row.start = InOrder(K)[i]]
  <2>1. Deduplicated(placed) = [i \in DOMAIN starts |-> CHOOSE row \in placed : row.start = starts[i]]
    BY DEF Deduplicated
  <2>2. starts = InOrder(K)
    BY <1>1
  <2> HIDE DEF starts
  <2> QED BY <2>1, <2>2
<1>5. \A i \in 1 .. Cardinality(K) : (CHOOSE row \in placed : row.start = InOrder(K)[i]) = RowAt(InOrder(K)[i])
  BY <1>2, <1>3
<1> QED BY <1>3, <1>4, <1>5 DEF RowsAt

-----------------------------------------------------------------------------
(* A day called complete. *)

TradedSlots == {s \in Slots(truth.final) : truth.trades[s] # 0}
FirstTraded == truth.trades[InOrder(TradedSlots)[1]]
LastTraded == truth.trades[InOrder(TradedSlots)[Cardinality(TradedSlots)]]

\* The first and the last row are those of the first and the last slot.
LEMMA FirstAndLastRow ==
  ASSUME truth \in Truths, NEW Q \in SUBSET Slots(truth.final), Q # {}
  PROVE  /\ RowsAt(Q)[1] = RowAt(InOrder(Q)[1]) /\ Last(RowsAt(Q)) = RowAt(InOrder(Q)[Cardinality(Q)])
         /\ InOrder(Q)[1] \in Q /\ \A n \in Q : InOrder(Q)[1] <= n
         /\ InOrder(Q)[Cardinality(Q)] \in Q /\ \A n \in Q : n <= InOrder(Q)[Cardinality(Q)]
<1>1. /\ Q \subseteq Int /\ IsFiniteSet(Q) /\ Len(RowsAt(Q)) = Cardinality(Q)
      /\ \A i \in 1 .. Cardinality(Q) : RowsAt(Q)[i] = RowAt(InOrder(Q)[i])
  BY RowsOfSlots
<1>2. /\ Cardinality(Q) \in Nat \ {0}
      /\ InOrder(Q)[1] \in Q /\ \A n \in Q : InOrder(Q)[1] <= n
      /\ InOrder(Q)[Cardinality(Q)] \in Q /\ \A n \in Q : n <= InOrder(Q)[Cardinality(Q)]
  BY <1>1, EndsOfOrder
<1>3. 1 \in 1 .. Cardinality(Q) /\ Cardinality(Q) \in 1 .. Cardinality(Q)
  BY <1>2
<1> QED BY <1>1, <1>2, <1>3 DEF Last

\* The prices of the day are those of the rows of its trades.
LEMMA PricesOfTheDay ==
  ASSUME truth \in Truths, TruePrices # <<>>
  PROVE  /\ PricesOf(RowsAt(TradedSlots)) = TruePrices /\ TradedSlots # {}
         /\ ValuesOf(TruePrices).open = FirstTraded /\ ValuesOf(TruePrices).close = LastTraded
<1> DEFINE T == TradedSlots
           N == Cardinality(T)
           order == InOrder(T)
<1>1. truth.trades \in [Slots(truth.final) -> Nat] /\ T \subseteq Slots(truth.final)
  BY Session DEF TradedSlots
<1>2. /\ N \in Nat /\ order \in [1 .. N -> T] /\ DOMAIN RowsAt(T) = 1 .. N
      /\ \A i \in 1 .. N : RowsAt(T)[i] = RowAt(order[i])
      /\ T \subseteq Int /\ IsFiniteSet(T)
  <2> HIDE DEF T
  <2> QED BY <1>1, RowsOfSlots
<1>3. TruePrices = [i \in 1 .. N |-> truth.trades[order[i]]]
  <2>1. T = {s \in DOMAIN truth.trades : truth.trades[s] # 0}
    BY <1>1 DEF TradedSlots
  <2>2. TruePrices = AtPlaces(truth.trades, T)
    BY <2>1 DEF TruePrices
  <2> DEFINE list == truth.trades
  <2> HIDE DEF T, list
  <2>3. AtPlaces(list, T) = [i \in DOMAIN order |-> list[order[i]]]
    BY DEF AtPlaces
  <2>4. DOMAIN order = 1 .. N
    BY <1>2
  <2> HIDE DEF order, N
  <2>5. TruePrices = [i \in 1 .. N |-> list[order[i]]]
    BY <2>2, <2>3, <2>4 DEF list
  <2> QED BY <2>5 DEF list
<1> HIDE DEF T, N, order
<1>4. PricesOf(RowsAt(T)) = TruePrices
  <2>1. PricesOf(RowsAt(T)) = [i \in 1 .. N |-> RowsAt(T)[i].price]
    BY <1>2 DEF PricesOf
  <2>2. \A i \in 1 .. N : RowsAt(T)[i].price = truth.trades[order[i]]
    BY <1>2 DEF RowAt
  <2> QED BY <1>3, <2>1, <2>2
<1>5. TruePrices \in Seq(Nat)
  <2>1. TruePrices \in [1 .. N -> Nat]
    BY <1>1, <1>2, <1>3
  <2> QED BY <1>2, <2>1, SeqDef
<1>6. Len(TruePrices) = N /\ N # 0
  <2>1. Len(TruePrices) \in Nat /\ DOMAIN TruePrices = 1 .. Len(TruePrices) /\ Len(TruePrices) # 0
    BY <1>5, LenProperties, EmptySeq
  <2> DEFINE l == Len(TruePrices)
  <2>2. 1 .. l = 1 .. N
    BY <1>3, <2>1
  <2> HIDE DEF l
  <2>3. l \in Nat /\ l # 0
    BY <2>1 DEF l
  <2>4. l = N
    <3>1. l \in 1 .. N /\ (N # 0 => N \in 1 .. l)
      BY <1>2, <2>2, <2>3
    <3> QED BY <1>2, <2>3, <3>1
  <2> QED BY <2>3, <2>4 DEF l
<1>7. T # {}
  BY <1>2, <1>6, FS_EmptySet DEF N
<1>8. ValuesOf(TruePrices).open = TruePrices[1] /\ ValuesOf(TruePrices).close = TruePrices[N]
  BY <1>6 DEF ValuesOf
<1>9. TruePrices[1] = truth.trades[order[1]] /\ TruePrices[N] = truth.trades[order[N]]
  BY <1>2, <1>3, <1>6
<1> QED BY <1>4, <1>7, <1>8, <1>9 DEF FirstTraded, LastTraded, T, N, order

\* When the coverage is complete, no trade of the day is missing.
LEMMA NoTradeIsMissing ==
  ASSUME truth \in Truths, NEW K \in SUBSET Slots(truth.final), NEW bounded,
         Coverage(RowsAt(K), bounded) = "complete", truth.trades[0] # 0 => 0 \in K
  PROVE  {s \in K : truth.trades[s] # 0} = TradedSlots
<1>1. /\ {row.start : row \in ToSet(Continuous(RowsAt(K)))} = Minutes
      /\ Missing(RowsAt(K)) = {}
  BY DEF Coverage
<1>2. Minutes \subseteq K
  <2> DEFINE Q == K \cap Minutes
  <2>1. Continuous(RowsAt(K)) = RowsAt(Q) /\ Q \in SUBSET Slots(truth.final)
    BY RowsOfMinutes
  <2>2. Q \subseteq K /\ \A s \in Q : RowAt(s).start = s
    BY DEF RowAt
  <2> HIDE DEF Q
  <2>3. ToSet(RowsAt(Q)) = {RowAt(s) : s \in Q}
    BY <2>1, RowsOfSlots
  <2> QED BY <1>1, <2>1, <2>2, <2>3
<1>3. ASSUME NEW s \in Closes PROVE s \in K
  <2>0. /\ ClosingStart \in Nat /\ DayEnd \in Nat /\ ClosingStart < DayEnd /\ truth.final \in BOOLEAN
        /\ s \in Nat /\ ClosingStart <= s /\ (truth.final => s = ClosingStart) /\ s < DayEnd
    BY Session DEF Closes, Slots
  <2> DEFINE Q == {q \in K : RowAt(q).phase = "closing_auction"}
  <2>1. ToSet(OfPhase(RowsAt(K), "closing_auction")) = {RowAt(q) : q \in Q}
    <3>1. OfPhase(RowsAt(K), "closing_auction") = RowsAt(Q)
      BY RowsOfPhase
    <3>2. Q \subseteq Slots(truth.final)
      OBVIOUS
    <3> HIDE DEF Q
    <3> QED BY <3>1, <3>2, RowsOfSlots
  <2>2. \E row \in ToSet(OfPhase(RowsAt(K), "closing_auction")) : s \in row.start .. row.end - 1
    <3>1. s \in ClosingStart .. DayEnd - 1 /\ s \notin Missing(RowsAt(K))
      BY <1>1, <2>0
    <3> QED BY <3>1 DEF Missing
  <2>3. PICK q \in Q : s \in RowAt(q).start .. RowAt(q).end - 1
    <3> HIDE DEF Q
    <3> QED BY <2>1, <2>2
  <2>4. q \in Closes /\ q \in K
    BY <2>3, PhaseOfSlot
  <2>5. /\ q \in Nat /\ q # 0 /\ ClosingStart <= q /\ (truth.final => q = ClosingStart)
        /\ RowAt(q).start = q /\ RowAt(q).end = IF truth.final THEN DayEnd ELSE q + 1
    BY <2>0, <2>4, Session DEF Closes, Slots, RowAt
  <2>6. s = q
    BY <2>0, <2>3, <2>5
  <2> QED BY <2>4, <2>6
<1>4. \A s \in Slots(truth.final) : s = 0 \/ s \in Minutes \/ s \in Closes
  BY Session
<1> QED BY <1>2, <1>3, <1>4 DEF TradedSlots

\* The slots of a day called complete that traded, and its rows with a trade.
LEMMA RowsOfTrades ==
  ASSUME truth \in Truths, NEW K \in SUBSET Slots(truth.final),
         {s \in K : truth.trades[s] # 0} = TradedSlots
  PROVE  /\ Traded(RowsAt(K)) = RowsAt(TradedSlots)
         /\ Traded(Continuous(RowsAt(K))) = RowsAt(TradedSlots \cap Minutes)
         /\ Traded(OfPhase(RowsAt(K), "opening_auction")) = RowsAt(TradedSlots \cap {0})
         /\ Traded(OfPhase(RowsAt(K), "closing_auction")) = RowsAt(TradedSlots \cap Closes)
         /\ TradedSlots \subseteq Slots(truth.final)
<1>0. TradedSlots \subseteq Slots(truth.final)
  BY DEF TradedSlots
<1>1. Traded(RowsAt(K)) = RowsAt(TradedSlots)
  BY RowsWithATrade
<1>2. ASSUME NEW S, NEW Q \in SUBSET K, Q = K \cap S PROVE Traded(RowsAt(Q)) = RowsAt(TradedSlots \cap S)
  <2>1. Q \in SUBSET Slots(truth.final)
    OBVIOUS
  <2>2. Traded(RowsAt(Q)) = RowsAt({s \in Q : truth.trades[s] # 0})
    BY <2>1, RowsWithATrade
  <2>3. {s \in Q : truth.trades[s] # 0} = TradedSlots \cap S
    BY <1>2
  <2> QED BY <2>2, <2>3
<1>3. Traded(Continuous(RowsAt(K))) = RowsAt(TradedSlots \cap Minutes)
  <2>1. Continuous(RowsAt(K)) = RowsAt(K \cap Minutes)
    BY RowsOfMinutes
  <2> QED BY <1>2, <2>1
<1>4. \A s \in K : /\ RowAt(s).phase = "opening_auction" <=> s \in {0}
                   /\ RowAt(s).phase = "closing_auction" <=> s \in Closes
  BY PhaseOfSlot
<1>5. Traded(OfPhase(RowsAt(K), "opening_auction")) = RowsAt(TradedSlots \cap {0})
  <2>1. OfPhase(RowsAt(K), "opening_auction") = RowsAt({s \in K : RowAt(s).phase = "opening_auction"})
    BY RowsOfPhase
  <2>2. {s \in K : RowAt(s).phase = "opening_auction"} = K \cap {0}
    BY <1>4
  <2> QED BY <1>2, <2>1, <2>2
<1>6. Traded(OfPhase(RowsAt(K), "closing_auction")) = RowsAt(TradedSlots \cap Closes)
  <2>1. OfPhase(RowsAt(K), "closing_auction") = RowsAt({s \in K : RowAt(s).phase = "closing_auction"})
    BY RowsOfPhase
  <2>2. {s \in K : RowAt(s).phase = "closing_auction"} = K \cap Closes
    BY <1>4
  <2> QED BY <1>2, <2>1, <2>2
<1> QED BY <1>0, <1>1, <1>3, <1>5, <1>6

\* The open is the first trade, or not established.
LEMMA OpenIsTheFirstTrade ==
  ASSUME truth \in Truths, NEW K \in SUBSET Slots(truth.final),
         {s \in K : truth.trades[s] # 0} = TradedSlots
  PROVE  OpenOf(RowsAt(K)) \in {0, FirstTraded}
<1> DEFINE T == TradedSlots
           opening == T \cap {0}
           others == T \cap Minutes
<1>0. /\ T \subseteq Slots(truth.final) /\ opening \subseteq Slots(truth.final) /\ others \subseteq Slots(truth.final)
      /\ Traded(OfPhase(RowsAt(K), "opening_auction")) = RowsAt(opening)
      /\ Traded(Continuous(RowsAt(K))) = RowsAt(others)
  BY RowsOfTrades
<1>1. /\ \A s \in T : s \in Nat /\ (s = 0 \/ s \in Minutes \/ s \in Closes)
      /\ \A s \in Minutes : s \in Nat /\ 0 < s /\ s < ClosingStart
      /\ \A s \in Closes : ClosingStart <= s
      /\ ClosingStart \in Nat
  BY <1>0, Session
<1>2. CASE opening # {}
  <2>1. 0 \in T /\ opening = {0} /\ ~NoRows(RowsAt(opening)) /\ RowsAt(opening)[1] = RowAt(0)
    <3>1. 0 \in T /\ opening = {0}
      BY <1>2
    <3> HIDE DEF opening
    <3>2. RowsAt(opening) # <<>> /\ RowsAt(opening)[1] = RowAt(InOrder(opening)[1]) /\ InOrder(opening)[1] \in opening
      BY <1>0, <1>2, FirstAndLastRow, RowsOfSlots
    <3> QED BY <3>1, <3>2 DEF NoRows
  <2>2. InOrder(T)[1] = 0
    <3>1. InOrder(T)[1] \in T /\ InOrder(T)[1] <= 0
      BY <1>0, <2>1, FirstAndLastRow
    <3> QED BY <1>1, <3>1
  <2>3. RowAt(0).price = FirstTraded
    BY <2>2 DEF FirstTraded, RowAt
  <2> HIDE DEF opening
  <2>4. OpenOf(RowsAt(K)) = RowAt(0).price
    BY <1>0, <2>1 DEF OpenOf
  <2> QED BY <2>3, <2>4
<1>3. CASE opening = {}
  <2>1. NoRows(RowsAt(opening))
    BY <1>0, <1>3, RowsOfSlots DEF NoRows
  <2>2. CASE others = {}
    <3>1. NoRows(RowsAt(others))
      BY <1>0, <2>2, RowsOfSlots DEF NoRows
    <3> HIDE DEF opening, others
    <3> QED BY <1>0, <2>1, <3>1 DEF OpenOf
  <2>3. CASE others # {}
    <3>1. /\ RowsAt(others)[1] = RowAt(InOrder(others)[1])
          /\ InOrder(others)[1] \in others /\ \A n \in others : InOrder(others)[1] <= n
      <4> HIDE DEF others
      <4> QED BY <1>0, <2>3, FirstAndLastRow
    <3>2. T # {} /\ InOrder(T)[1] \in T /\ \A n \in T : InOrder(T)[1] <= n
      <4>1. T # {}
        BY <2>3
      <4> HIDE DEF T
      <4> QED BY <1>0, <4>1, FirstAndLastRow
    <3> DEFINE a == InOrder(T)[1]
               b == InOrder(others)[1]
    <3>3. a \in T /\ b \in T /\ b \in Minutes /\ a <= b /\ (a \in Minutes => b <= a) /\ a # 0
      BY <1>3, <3>1, <3>2
    <3> HIDE DEF a, b
    <3>4. a = b
      BY <1>1, <3>3
    <3>5. RowsAt(others)[1].price = FirstTraded
      <4>1. RowsAt(others)[1] = RowAt(b)
        BY <3>1 DEF b
      <4>2. FirstTraded = truth.trades[a]
        BY DEF a, FirstTraded
      <4> QED BY <3>4, <4>1, <4>2 DEF RowAt
    <3> HIDE DEF opening, others
    <3> QED BY <1>0, <2>1, <3>5 DEF OpenOf
  <2> QED BY <2>2, <2>3
<1> QED BY <1>2, <1>3

\* The close is the last trade, or what the daily source says, or not established.
LEMMA CloseIsTheLastTrade ==
  ASSUME truth \in Truths, NEW K \in SUBSET Slots(truth.final), NEW coverage, NEW boundary,
         {s \in K : truth.trades[s] # 0} = TradedSlots,
         boundary = "cross_checked" => daily.values.close = LastTraded
  PROVE  CloseOf(RowsAt(K), coverage, boundary) \in {0, LastTraded}
<1> DEFINE T == TradedSlots
           closes == T \cap Closes
           others == T \cap Minutes
           N == Cardinality(T)
<1>0. /\ T \subseteq Slots(truth.final) /\ closes \subseteq Slots(truth.final) /\ others \subseteq Slots(truth.final)
      /\ Traded(OfPhase(RowsAt(K), "closing_auction")) = RowsAt(closes)
      /\ Traded(Continuous(RowsAt(K))) = RowsAt(others)
  BY RowsOfTrades
<1>1. /\ \A s \in T : s \in Nat /\ (s = 0 \/ s \in Minutes \/ s \in Closes)
      /\ \A s \in Minutes : s \in Nat /\ 0 < s /\ s < ClosingStart
      /\ \A s \in Closes : s \in Nat /\ ClosingStart <= s
      /\ ClosingStart \in Nat
  BY <1>0, Session
<1>2. T # {} => InOrder(T)[N] \in T /\ \A n \in T : n <= InOrder(T)[N]
  <2> HIDE DEF T
  <2> QED BY <1>0, FirstAndLastRow
<1>3. CASE closes # {}
  <2>1. /\ Last(RowsAt(closes)) = RowAt(InOrder(closes)[Cardinality(closes)])
        /\ InOrder(closes)[Cardinality(closes)] \in closes
        /\ \A n \in closes : n <= InOrder(closes)[Cardinality(closes)]
        /\ ~NoRows(RowsAt(closes))
    <3> HIDE DEF closes
    <3> QED BY <1>0, <1>3, FirstAndLastRow, RowsOfSlots DEF NoRows
  <2> DEFINE a == InOrder(T)[N]
             b == InOrder(closes)[Cardinality(closes)]
  <2>2. a \in T /\ b \in T /\ b \in Closes /\ b <= a /\ (a \in Closes => a <= b)
    BY <1>2, <1>3, <2>1
  <2> HIDE DEF a, b
  <2>3. a = b
    BY <1>1, <2>2
  <2>4. Last(RowsAt(closes)).price = LastTraded
    <3>1. Last(RowsAt(closes)) = RowAt(b)
      BY <2>1 DEF b
    <3>2. LastTraded = truth.trades[a]
      BY DEF a, LastTraded
    <3> QED BY <2>3, <3>1, <3>2 DEF RowAt
  <2> HIDE DEF closes, others
  <2> QED BY <1>0, <2>1, <2>4 DEF CloseOf
<1>4. CASE closes = {}
  <2>1. NoRows(RowsAt(closes))
    <3> HIDE DEF closes
    <3> QED BY <1>0, <1>4, RowsOfSlots DEF NoRows
  <2>2. CASE others = {}
    <3>1. NoRows(RowsAt(others))
      <4> HIDE DEF others
      <4> QED BY <1>0, <2>2, RowsOfSlots DEF NoRows
    <3> HIDE DEF closes, others
    <3> QED BY <1>0, <2>1, <3>1 DEF CloseOf
  <2>3. CASE others # {}
    <3>1. /\ Last(RowsAt(others)) = RowAt(InOrder(others)[Cardinality(others)])
          /\ InOrder(others)[Cardinality(others)] \in others
          /\ \A n \in others : n <= InOrder(others)[Cardinality(others)]
      <4> HIDE DEF others
      <4> QED BY <1>0, <2>3, FirstAndLastRow
    <3> DEFINE a == InOrder(T)[N]
               b == InOrder(others)[Cardinality(others)]
    <3>2. a \in T /\ a \notin Closes /\ b \in T /\ b \in Minutes /\ b <= a /\ (a \in Minutes => a <= b)
      BY <1>2, <1>4, <2>3, <3>1
    <3> HIDE DEF a, b
    <3>3. a = b
      BY <1>1, <3>2
    <3>4. Last(RowsAt(others)).price = LastTraded
      BY <3>1, <3>3 DEF a, b, LastTraded, RowAt
    <3> HIDE DEF closes, others
    <3> QED BY <1>0, <2>1, <3>4 DEF CloseOf
  <2> QED BY <2>2, <2>3
<1> QED BY <1>3, <1>4

\* The share of a half is the number of its minutes that traded.
LEMMA SharesAreOfTheTrades ==
  ASSUME truth \in Truths, NEW K \in SUBSET Slots(truth.final),
         {s \in K : truth.trades[s] # 0} = TradedSlots,
         NEW phase, NEW share \in VolumeShare(RowsAt(K), phase)
  PROVE  share[2] = Cardinality(HalfTrades(share[1]))
<1> DEFINE others == TradedSlots \cap Minutes
           half == {s \in others : RowAt(s).phase = phase}
<1>0. /\ others \subseteq Slots(truth.final) /\ half \subseteq Slots(truth.final)
      /\ Traded(Continuous(RowsAt(K))) = RowsAt(others)
  BY RowsOfTrades
<1>1. OfPhase(RowsAt(others), phase) = RowsAt(half)
  <2> HIDE DEF others
  <2> QED BY <1>0, RowsOfPhase
<1>2. \A s \in Minutes : s \in Slots(truth.final) /\ RowAt(s).phase = PhaseOf(s, s + 1)
  BY Session, PhaseOfSlot
<1>3. half = HalfTrades(phase)
  BY <1>2 DEF TradedSlots, HalfOf, HalfTrades
<1> HIDE DEF others, half
<1>4. Len(RowsAt(half)) = Cardinality(half)
  BY <1>0, RowsOfSlots
<1>5. share = <<phase, Len(RowsAt(half)), Len(RowsAt(others))>>
  BY <1>0, <1>1 DEF VolumeShare
<1>6. share[1] = phase /\ share[2] = Len(RowsAt(half))
  BY <1>5
<1> QED BY <1>3, <1>4, <1>6

\* The ends of the halves are their first and last trades.
LEMMA HalvesAreOfTheTrades ==
  ASSUME truth \in Truths, NEW K \in SUBSET Slots(truth.final),
         {s \in K : truth.trades[s] # 0} = TradedSlots,
         NEW halves, halves = UNION {SessionReturn(RowsAt(K), p) : p \in Halves}
  PROVE  /\ {<<half[1].start, half[2].start>> : half \in halves} = TrueHalves
         /\ \A half \in halves, i \in {1, 2} : half[i].price = truth.trades[half[i].start]
<1>0. ASSUME NEW p \in Halves
      PROVE  /\ HalfTrades(p) \subseteq Slots(truth.final) /\ HalfTrades(p) \subseteq Minutes
             /\ HalfTrades(p) \subseteq Nat
             /\ Traded(OfPhase(RowsAt(K), p)) = RowsAt(HalfTrades(p))
  <2> DEFINE Q == {s \in K : RowAt(s).phase = p}
  <2>1. Q \in SUBSET Slots(truth.final) /\ OfPhase(RowsAt(K), p) = RowsAt(Q)
    BY RowsOfPhase
  <2>2. Traded(RowsAt(Q)) = RowsAt({s \in Q : truth.trades[s] # 0})
    <3> HIDE DEF Q
    <3> QED BY <2>1, RowsWithATrade
  <2>3. \A s \in Slots(truth.final) : RowAt(s).phase = p <=> s \in Minutes /\ PhaseOf(s, s + 1) = p
    BY PhaseOfSlot, Session DEF Halves, IsContinuous
  <2>4. {s \in Q : truth.trades[s] # 0} = HalfTrades(p)
    BY <2>3, Session DEF TradedSlots, HalfTrades, HalfOf
  <2> QED BY <2>1, <2>2, <2>4, Session DEF HalfTrades, HalfOf
<1>1. ASSUME NEW p \in Halves, HalfTrades(p) = {} PROVE SessionReturn(RowsAt(K), p) = {}
  BY <1>0, <1>1, RowsOfSlots DEF SessionReturn, NoRows
<1>2. ASSUME NEW p \in Halves, HalfTrades(p) # {}
      PROVE  \E a, b \in HalfTrades(p) :
               /\ \A t \in HalfTrades(p) : a <= t /\ t <= b
               /\ SessionReturn(RowsAt(K), p) = {<<RowAt(a), RowAt(b)>>}
  <2> DEFINE Q == HalfTrades(p)
             a == InOrder(Q)[1]
             b == InOrder(Q)[Cardinality(Q)]
  <2>1. Q \in SUBSET Slots(truth.final) /\ Q # {} /\ Traded(OfPhase(RowsAt(K), p)) = RowsAt(Q)
    BY <1>0, <1>2
  <2> HIDE DEF Q
  <2>2. /\ RowsAt(Q)[1] = RowAt(a) /\ Last(RowsAt(Q)) = RowAt(b) /\ ~NoRows(RowsAt(Q))
        /\ a \in Q /\ b \in Q /\ \A t \in Q : a <= t /\ t <= b
    BY <2>1, FirstAndLastRow, RowsOfSlots DEF NoRows
  <2> HIDE DEF a, b
  <2>3. SessionReturn(RowsAt(K), p) = {<<RowAt(a), RowAt(b)>>}
    BY <2>1, <2>2 DEF SessionReturn
  <2> QED BY <2>2, <2>3 DEF Q
<1>3. ASSUME NEW half \in halves
      PROVE  /\ <<half[1].start, half[2].start>> \in TrueHalves
             /\ \A i \in {1, 2} : half[i].price = truth.trades[half[i].start]
  <2>1. PICK p \in Halves : half \in SessionReturn(RowsAt(K), p)
    OBVIOUS
  <2>2. PICK a, b \in HalfTrades(p) : /\ \A t \in HalfTrades(p) : a <= t /\ t <= b
                                      /\ half = <<RowAt(a), RowAt(b)>>
    BY <1>1, <1>2, <2>1
  <2>3. /\ half[1].start = a /\ half[2].start = b
        /\ half[1].price = truth.trades[a] /\ half[2].price = truth.trades[b]
    BY <2>2 DEF RowAt
  <2>4. <<a, b>> \in TrueHalves
    BY <1>0, <2>2 DEF TrueHalves
  <2> QED BY <2>3, <2>4
<1>4. ASSUME NEW ends \in TrueHalves
      PROVE  \E half \in halves : ends = <<half[1].start, half[2].start>>
  <2>1. PICK p \in Halves : /\ ends[1] \in HalfTrades(p) /\ ends[2] \in HalfTrades(p)
                            /\ \A t \in HalfTrades(p) : ends[1] <= t /\ t <= ends[2]
    BY DEF TrueHalves
  <2>2. PICK a, b \in HalfTrades(p) : /\ \A t \in HalfTrades(p) : a <= t /\ t <= b
                                      /\ SessionReturn(RowsAt(K), p) = {<<RowAt(a), RowAt(b)>>}
    BY <1>2, <2>1
  <2>3. ends[1] = a /\ ends[2] = b
    BY <1>0, <2>1, <2>2
  <2>4. ends = <<a, b>>
    BY <2>3 DEF TrueHalves
  <2>5. <<RowAt(a), RowAt(b)>> \in halves
    BY <2>2
  <2>6. <<RowAt(a), RowAt(b)>>[1].start = a /\ <<RowAt(a), RowAt(b)>>[2].start = b
    BY DEF RowAt
  <2> QED BY <2>4, <2>5, <2>6
<1>5. {<<half[1].start, half[2].start>> : half \in halves} = TrueHalves
  BY <1>3, <1>4
<1> QED BY <1>3, <1>5

\* Two sets of numbers of which one is a part and reaches as high have one maximum.
LEMMA SteepestOfPart ==
  ASSUME NEW A \in SUBSET Int, NEW B \in SUBSET Int, A \subseteq B,
         \A b \in B : \E a \in A : b <= a
  PROVE  Steepest(A) = Steepest(B)
<1>1. {x \in A : \A y \in A : x >= y} = {x \in B : \A y \in B : x >= y}
  <2>1. ASSUME NEW x \in A, \A y \in A : x >= y PROVE \A y \in B : x >= y
    <3>1. ASSUME NEW y \in B PROVE x >= y
      <4>1. PICK a \in A : y <= a
        OBVIOUS
      <4>2. x >= a /\ x \in Int /\ a \in Int /\ y \in Int
        BY <2>1
      <4> QED BY <4>1, <4>2
    <3> QED BY <3>1
  <2>2. ASSUME NEW x \in B, \A y \in B : x >= y PROVE x \in A
    <3>1. PICK a \in A : x <= a
      OBVIOUS
    <3>2. x >= a /\ x \in Int /\ a \in Int
      BY <2>2
    <3>3. x = a
      BY <3>1, <3>2
    <3> QED BY <3>3
  <2> QED BY <2>1, <2>2
<1>2. \A C : Max(C) = CHOOSE x \in {z \in C : \A y \in C : z >= y} : TRUE
  <2>1. ASSUME NEW C PROVE Max(C) = CHOOSE x \in {z \in C : \A y \in C : z >= y} : TRUE
    <3>1. \A x : (x \in C /\ \A y \in C : x >= y) <=> (x \in {z \in C : \A y \in C : z >= y} /\ TRUE)
      OBVIOUS
    <3> QED BY <3>1 DEF Max
  <2> QED BY <2>1
<1>3. Max(A) = Max(B)
  BY <1>1, <1>2
<1>4. A = {} <=> B = {}
  OBVIOUS
<1> QED BY <1>3, <1>4 DEF Steepest

\* The minutes with a trade, and those from which there is one each up to a minute.
MinuteTrades == TradedSlots \cap Minutes
SamePhase(s, t) == PhaseOf(s, s + 1) = PhaseOf(t, t + 1)
Back(i, s) == i \in Minutes /\ i <= s /\ i .. s \subseteq HalfTrades(PhaseOf(s, s + 1))

LEMMA MinuteTradeFacts ==
  ASSUME truth \in Truths
  PROVE  /\ MinuteTrades \subseteq Slots(truth.final) /\ MinuteTrades \subseteq Nat
         /\ MinuteTrades \subseteq Minutes /\ IsFiniteSet(MinuteTrades)
         /\ \A s \in MinuteTrades :
              /\ truth.trades[s] \in Nat /\ PhaseOf(s, s + 1) \in Halves
              /\ RowAt(s).start = s /\ RowAt(s).end = s + 1
              /\ RowAt(s).phase = PhaseOf(s, s + 1) /\ RowAt(s).price = truth.trades[s]
         /\ \A phase \in Halves :
              HalfTrades(phase) = {s \in MinuteTrades : PhaseOf(s, s + 1) = phase}
<1>1. /\ truth.trades \in [Slots(truth.final) -> Nat]
      /\ Slots(truth.final) \subseteq Nat /\ IsFiniteSet(Slots(truth.final))
      /\ Minutes \subseteq Slots(truth.final) /\ ClosingStart \in Nat
      /\ \A s \in Minutes : /\ s \in Nat /\ 0 < s /\ s < ClosingStart
                            /\ PhaseOf(s, s + 1) \in Halves
  BY Session DEF Halves
<1>2. MinuteTrades \in SUBSET Slots(truth.final) /\ MinuteTrades \subseteq Minutes
  BY DEF MinuteTrades, TradedSlots
<1>3. IsFiniteSet(MinuteTrades)
  BY <1>1, <1>2, FS_Subset
<1>4. ASSUME NEW s \in MinuteTrades
      PROVE  /\ truth.trades[s] \in Nat /\ PhaseOf(s, s + 1) \in Halves
             /\ RowAt(s).start = s /\ RowAt(s).end = s + 1
             /\ RowAt(s).phase = PhaseOf(s, s + 1) /\ RowAt(s).price = truth.trades[s]
  <2>1. s \in Minutes /\ s \in Nat /\ s # 0 /\ ~(s >= ClosingStart) /\ truth.trades[s] \in Nat
    BY <1>1, <1>2
  <2> QED BY <1>1, <2>1 DEF RowAt
<1>5. \A phase \in Halves : HalfTrades(phase) = {s \in MinuteTrades : PhaseOf(s, s + 1) = phase}
  BY <1>1 DEF HalfTrades, HalfOf, MinuteTrades, TradedSlots
<1> QED BY <1>1, <1>2, <1>3, <1>4, <1>5

\* The minutes back from a trade are those back from the minute before, and its own.
LEMMA BackGrows ==
  ASSUME truth \in Truths, NEW s \in MinuteTrades, NEW i
  PROVE  Back(i, s) <=> \/ i = s
                        \/ s - 1 \in MinuteTrades /\ SamePhase(s - 1, s) /\ Back(i, s - 1)
<1> DEFINE phase == PhaseOf(s, s + 1)
<1>0. /\ s \in Nat /\ s \in Minutes /\ phase \in Halves /\ Minutes \subseteq Nat
      /\ HalfTrades(phase) = {t \in MinuteTrades : PhaseOf(t, t + 1) = phase}
  BY MinuteTradeFacts, Session
<1>1. Back(s, s)
  <2>1. s .. s = {s}
    BY <1>0
  <2> QED BY <1>0, <2>1 DEF Back
<1>2. ASSUME Back(i, s), i # s
      PROVE  s - 1 \in MinuteTrades /\ SamePhase(s - 1, s) /\ Back(i, s - 1)
  <2>1. i \in Minutes /\ i \in Nat /\ i < s /\ i .. s \subseteq HalfTrades(phase)
    BY <1>0, <1>2 DEF Back
  <2>2. s - 1 \in i .. s /\ i <= s - 1 /\ i .. (s - 1) \subseteq i .. s
    BY <1>0, <2>1
  <2>3. s - 1 \in MinuteTrades /\ SamePhase(s - 1, s)
    BY <1>0, <2>1, <2>2 DEF SamePhase
  <2>4. i .. (s - 1) \subseteq HalfTrades(PhaseOf(s - 1, s - 1 + 1))
    BY <2>1, <2>2, <2>3 DEF SamePhase
  <2> QED BY <2>1, <2>2, <2>3, <2>4 DEF Back
<1>3. ASSUME s - 1 \in MinuteTrades, SamePhase(s - 1, s), Back(i, s - 1)
      PROVE  Back(i, s)
  <2>1. i \in Minutes /\ i \in Nat /\ i <= s - 1 /\ i .. (s - 1) \subseteq HalfTrades(phase)
    BY <1>0, <1>3 DEF Back, SamePhase
  <2>2. \A t \in i .. s : t = s \/ t \in i .. (s - 1)
    BY <1>0, <2>1
  <2>3. s \in HalfTrades(phase)
    BY <1>0
  <2>4. i .. s \subseteq HalfTrades(phase) /\ i <= s
    BY <1>0, <2>1, <2>2, <2>3
  <2> QED BY <2>1, <2>4 DEF Back
<1> QED BY <1>1, <1>2, <1>3

\* A row goes on with a stretch when the minute before it, of its half, has a trade.
LEMMA GoesOnWithTheMinute ==
  ASSUME truth \in Truths, NEW n \in 1 .. Cardinality(MinuteTrades)
  PROVE  LET lines == RowsAt(MinuteTrades)
             at == InOrder(MinuteTrades) IN
           /\ GoesOn(lines, n) <=> at[n] - 1 \in MinuteTrades /\ SamePhase(at[n] - 1, at[n])
           /\ GoesOn(lines, n) => n - 1 \in 1 .. Cardinality(MinuteTrades) /\ at[n - 1] = at[n] - 1
<1> DEFINE Q == MinuteTrades
           N == Cardinality(Q)
           at == InOrder(Q)
           lines == RowsAt(Q)
<1>0. Q \in SUBSET Slots(truth.final) /\ Q \in SUBSET Int /\ IsFiniteSet(Q)
  BY MinuteTradeFacts
<1>1. /\ N \in Nat /\ at \in [1 .. N -> Q]
      /\ \A i, j \in 1 .. N : i < j => at[i] < at[j]
      /\ \A m \in Q : \E k \in 1 .. N : at[k] = m
  <2> HIDE DEF Q
  <2> QED BY <1>0, Ordered
<1>2. ASSUME NEW k \in 1 .. N
      PROVE  /\ at[k] \in Q /\ at[k] \in Int /\ lines[k].start = at[k] /\ lines[k].end = at[k] + 1
             /\ lines[k].phase = PhaseOf(at[k], at[k] + 1)
  <2>1. lines[k] = RowAt(at[k])
    BY <1>0, RowsOfSlots
  <2>2. at[k] \in Q
    BY <1>1
  <2> QED BY <1>0, <2>1, <2>2, MinuteTradeFacts
<1> HIDE DEF Q, N, at, lines
<1>3. n \in 1 .. N
  BY DEF N, Q
<1>4. ASSUME GoesOn(lines, n)
      PROVE  /\ n - 1 \in 1 .. N /\ at[n - 1] = at[n] - 1
             /\ at[n] - 1 \in Q /\ SamePhase(at[n] - 1, at[n])
  <2>1. n - 1 \in 1 .. N /\ lines[n - 1].phase = lines[n].phase /\ lines[n - 1].end = lines[n].start
    BY <1>1, <1>3, <1>4 DEF GoesOn
  <2>2. at[n - 1] + 1 = at[n] /\ at[n - 1] \in Int /\ at[n] \in Int
    BY <1>2, <1>3, <2>1
  <2>3. at[n - 1] = at[n] - 1
    BY <2>2
  <2>4. PhaseOf(at[n - 1], at[n - 1] + 1) = PhaseOf(at[n], at[n] + 1)
    BY <1>2, <1>3, <2>1
  <2> QED BY <1>2, <2>1, <2>3, <2>4 DEF SamePhase
<1>5. ASSUME at[n] - 1 \in Q, SamePhase(at[n] - 1, at[n])
      PROVE  GoesOn(lines, n)
  <2>1. PICK k \in 1 .. N : at[k] = at[n] - 1
    BY <1>1, <1>5
  <2>2. at[k] \in Int /\ at[n] \in Int /\ k \in Int /\ n \in Int
    BY <1>2, <1>3
  <2>3. k < n
    <3>1. ~(n < k) /\ n # k
      BY <1>1, <1>3, <2>1, <2>2
    <3> QED BY <2>2, <3>1
  <2>4. n - 1 \in 1 .. N /\ n > 1
    BY <1>1, <1>3, <2>3
  <2>5. at[n - 1] < at[n] /\ at[n - 1] \in Int
    BY <1>1, <1>2, <1>3, <2>4
  <2>6. k = n - 1
    <3>1. k < n - 1 => at[k] < at[n - 1]
      BY <1>1, <2>4
    <3> QED BY <2>1, <2>2, <2>3, <2>5, <3>1
  <2>7. at[n - 1] = at[n] - 1
    BY <2>1, <2>6
  <2>8. lines[n - 1].phase = lines[n].phase /\ lines[n - 1].end = lines[n].start
    <3>1. lines[n - 1].phase = PhaseOf(at[n - 1], at[n - 1] + 1) /\ lines[n - 1].end = at[n - 1] + 1
      BY <1>2, <2>4
    <3>2. lines[n].phase = PhaseOf(at[n], at[n] + 1) /\ lines[n].start = at[n]
      BY <1>2, <1>3
    <3>3. PhaseOf(at[n - 1], at[n - 1] + 1) = PhaseOf(at[n], at[n] + 1)
      BY <1>5, <2>7 DEF SamePhase
    <3> QED BY <2>2, <2>7, <3>1, <3>2, <3>3
  <2> QED BY <2>4, <2>8 DEF GoesOn
<1> QED BY <1>4, <1>5 DEF Q, N, at, lines

\* The running peak at a trade is the highest one of the minutes back from it.
HighestBack(peak, s) ==
  /\ \E i : Back(i, s) /\ peak = truth.trades[i]
  /\ \A i : Back(i, s) => truth.trades[i] <= peak

LEMMA PeaksAreHighest ==
  ASSUME truth \in Truths, NEW lines, lines = RowsAt(MinuteTrades)
  PROVE  \E peak :
           /\ Drawdown(lines) = Steepest({peak[n - 1] - lines[n].price : n \in Further(lines)})
           /\ \A n \in 1 .. Cardinality(MinuteTrades) :
                HighestBack(peak[n], InOrder(MinuteTrades)[n])
<1> DEFINE N == Len(lines)
           at == InOrder(MinuteTrades)
           step == [n \in 1 .. N |-> [b \in Nat |->
                      IF GoesOn(lines, n) /\ b > lines[n].price THEN b ELSE lines[n].price]]
           Is(f) == f = [n \in 0 .. N |->
                           IF n = 0 THEN 0
                           ELSE IF GoesOn(lines, n) /\ f[n - 1] > lines[n].price THEN f[n - 1]
                           ELSE lines[n].price]
           F == CHOOSE f : Is(f)
<1>0. /\ MinuteTrades \in SUBSET Slots(truth.final) /\ N = Cardinality(MinuteTrades) /\ N \in Nat
      /\ \A n \in 1 .. N : /\ at[n] \in MinuteTrades /\ lines[n].price = truth.trades[at[n]]
                           /\ lines[n].price \in Nat
  <2>1. MinuteTrades \in SUBSET Slots(truth.final)
    BY MinuteTradeFacts
  <2>2. /\ N = Cardinality(MinuteTrades) /\ N \in Nat
        /\ \A n \in 1 .. N : at[n] \in MinuteTrades /\ lines[n] = RowAt(at[n])
    BY <2>1, RowsOfSlots
  <2> HIDE DEF N, at
  <2>3. \A n \in 1 .. N : lines[n].price = truth.trades[at[n]] /\ lines[n].price \in Nat
    BY <2>2, MinuteTradeFacts
  <2> QED BY <2>1, <2>2, <2>3
<1>1. Drawdown(lines) = Steepest({F[n - 1] - lines[n].price : n \in Further(lines)})
  BY DEF Drawdown
<1> HIDE DEF N
<1>2. \A n \in 1 .. N : n \in 0 .. N /\ n # 0 /\ n - 1 \in 0 .. N
  BY <1>0
<1>3. step \in [1 .. N -> [Nat -> Nat]]
  BY <1>0
<1>4. PICK f \in [0 .. N -> Nat] : f[0] = 0 /\ \A n \in 1 .. N : f[n] = step[n][f[n - 1]]
  <2>1. step \in StepsOver(N, Nat)
    BY <1>3 DEF StepsOver
  <2> HIDE DEF step
  <2>2. \E f : Unfolds(N, Nat, 0, step, f)
    BY <1>0, <2>1, RecursionExists
  <2> QED BY <2>2 DEF Unfolds
<1>5. \A n \in 1 .. N : f[n] = IF GoesOn(lines, n) /\ f[n - 1] > lines[n].price THEN f[n - 1]
                               ELSE lines[n].price
  <2>1. \A n \in 1 .. N : f[n - 1] \in Nat
    BY <1>2, <1>4
  <2> QED BY <1>4, <2>1
<1>6. Is(f)
  <2>1. \A n \in 0 .. N : n = 0 \/ n \in 1 .. N
    BY <1>0
  <2> QED BY <1>4, <1>5, <2>1
<1>7. Is(F)
  <2> HIDE DEF Is
  <2> QED BY <1>6
<1> HIDE DEF F
<1>8. ASSUME NEW n \in 1 .. N
      PROVE  F[n] = IF GoesOn(lines, n) /\ F[n - 1] > lines[n].price THEN F[n - 1] ELSE lines[n].price
  BY <1>2, <1>7, <1>8
<1> HIDE DEF Is, step
<1> DEFINE Good == {n \in 0 .. N : n = 0 \/ HighestBack(F[n], at[n])}
<1>9. 0 .. N \subseteq Good
  <2>1. 0 \in Good
    BY <1>0
  <2>2. ASSUME NEW n \in 1 .. N, n - 1 \in Good PROVE n \in Good
    <3> DEFINE s == at[n]
               own == truth.trades[s]
    <3>1. /\ n \in 0 .. N /\ s \in MinuteTrades /\ own \in Nat /\ s \in Nat
          /\ F[n] = IF GoesOn(lines, n) /\ F[n - 1] > own THEN F[n - 1] ELSE own
      BY <1>0, <1>2, <1>8, MinuteTradeFacts
    <3>2. /\ GoesOn(lines, n) <=> s - 1 \in MinuteTrades /\ SamePhase(s - 1, s)
          /\ GoesOn(lines, n) => n - 1 \in 1 .. N /\ at[n - 1] = s - 1
      BY <1>0, GoesOnWithTheMinute
    <3>3. \A i : Back(i, s) <=> i = s \/ (s - 1 \in MinuteTrades /\ SamePhase(s - 1, s) /\ Back(i, s - 1))
      BY <3>1, BackGrows
    <3>4. CASE GoesOn(lines, n)
      <4>1. HighestBack(F[n - 1], s - 1)
        BY <2>2, <3>2, <3>4
      <4>2. \A i : Back(i, s) <=> i = s \/ Back(i, s - 1)
        BY <3>2, <3>3, <3>4
      <4>3. \A i : Back(i, s - 1) => truth.trades[i] \in Nat
        <5>1. \A i : Back(i, s - 1) => i \in MinuteTrades
          <6>1. s - 1 \in MinuteTrades /\ s - 1 \in Int
            BY <3>1, <3>2, <3>4
          <6>2. ASSUME NEW i, Back(i, s - 1) PROVE i \in MinuteTrades
            <7>1. i \in Minutes /\ i <= s - 1 /\ i .. (s - 1) \subseteq HalfTrades(PhaseOf(s - 1, s - 1 + 1))
              BY <6>2 DEF Back
            <7>2. i \in i .. (s - 1) /\ PhaseOf(s - 1, s - 1 + 1) \in Halves
              BY <6>1, <7>1, MinuteTradeFacts, Session
            <7> QED BY <7>1, <7>2, MinuteTradeFacts
          <6> QED BY <6>2
        <5> QED BY <5>1, MinuteTradeFacts
      <4>4. PICK i : Back(i, s - 1) /\ F[n - 1] = truth.trades[i]
        BY <4>1 DEF HighestBack
      <4>5. F[n - 1] \in Nat
        BY <4>3, <4>4
      <4>6. \A j : Back(j, s - 1) => truth.trades[j] <= F[n - 1]
        BY <4>1 DEF HighestBack
      <4> HIDE DEF s
      <4>7. \A j : Back(j, s) => truth.trades[j] <= F[n]
        <5>1. own <= F[n] /\ F[n - 1] <= F[n] /\ F[n] \in Nat
          BY <3>1, <3>4, <4>5
        <5>2. ASSUME NEW j, Back(j, s) PROVE truth.trades[j] <= F[n]
          <6>1. CASE j = s
            BY <5>1, <6>1
          <6>2. CASE Back(j, s - 1)
            <7>1. truth.trades[j] <= F[n - 1] /\ truth.trades[j] \in Nat
              BY <4>3, <4>6, <6>2
            <7> QED BY <4>5, <5>1, <7>1
          <6> QED BY <4>2, <5>2, <6>1, <6>2
        <5> QED BY <5>2
      <4>8. \E j : Back(j, s) /\ F[n] = truth.trades[j]
        <5>1. Back(i, s) /\ Back(s, s)
          BY <4>2, <4>4
        <5>2. F[n] = F[n - 1] \/ F[n] = truth.trades[s]
          BY <3>1
        <5> QED BY <4>4, <5>1, <5>2
      <4> QED BY <3>1, <4>7, <4>8 DEF HighestBack, s
    <3>5. CASE ~GoesOn(lines, n)
      <4>1. F[n] = own /\ \A i : Back(i, s) <=> i = s
        BY <3>1, <3>2, <3>3, <3>5
      <4> QED BY <3>1, <4>1 DEF HighestBack
    <3> QED BY <3>4, <3>5
  <2> HIDE DEF Good
  <2> QED BY <1>0, <2>1, <2>2, UpTo
<1>10. \A n \in 1 .. N : HighestBack(F[n], at[n])
  BY <1>2, <1>9
<1> QED BY <1>0, <1>1, <1>10

\* The moves of the summary are those of the unbroken stretches of trades.
LEMMA MovesAreOfTheTrades ==
  ASSUME truth \in Truths, NEW lines, lines = RowsAt(MinuteTrades)
  PROVE  StepChanges(lines) = TrueSteps /\ Drawdown(lines) = Steepest(TrueFalls)
<1> DEFINE N == Cardinality(MinuteTrades)
           at == InOrder(MinuteTrades)
<1>0. MinuteTrades \in SUBSET Int /\ IsFiniteSet(MinuteTrades)
      /\ MinuteTrades \in SUBSET Slots(truth.final)
  BY MinuteTradeFacts
<1>1. /\ N \in Nat /\ DOMAIN lines = 1 .. N
      /\ \A m \in MinuteTrades : \E k \in 1 .. N : at[k] = m
      /\ \A n \in 1 .. N : at[n] \in MinuteTrades /\ lines[n] = RowAt(at[n])
  BY <1>0, Ordered, RowsOfSlots
<1>2. \A n \in 1 .. N : lines[n].price = truth.trades[at[n]] /\ lines[n].price \in Nat
  BY <1>1, MinuteTradeFacts
<1>3. ASSUME NEW n \in 1 .. N
      PROVE  /\ n \in Further(lines) <=> at[n] - 1 \in MinuteTrades /\ SamePhase(at[n] - 1, at[n])
             /\ n \in Further(lines) => n - 1 \in 1 .. N /\ at[n - 1] = at[n] - 1
  BY <1>1, GoesOnWithTheMinute DEF Further
<1>4. ASSUME NEW a, NEW b
      PROVE  <<a, b>> \in Unbroken <=> b \in MinuteTrades /\ Back(a, b) /\ a # b
  <2>1. Minutes \subseteq Nat /\ MinuteTrades \subseteq Minutes
    BY Session, MinuteTradeFacts
  <2>2. ASSUME <<a, b>> \in Unbroken PROVE b \in MinuteTrades /\ Back(a, b) /\ a # b
    <3>1. PICK phase \in Halves : a .. b \subseteq HalfTrades(phase)
      BY <2>2 DEF Unbroken
    <3>2. a \in Minutes /\ b \in Minutes /\ a \in Nat /\ b \in Nat /\ a < b
      BY <2>1, <2>2 DEF Unbroken
    <3>3. b \in HalfTrades(phase)
      BY <3>1, <3>2
    <3>4. b \in MinuteTrades /\ PhaseOf(b, b + 1) = phase
      BY <3>3, MinuteTradeFacts
    <3> QED BY <3>1, <3>2, <3>4 DEF Back
  <2>3. ASSUME b \in MinuteTrades, Back(a, b), a # b PROVE <<a, b>> \in Unbroken
    <3>1. a \in Minutes /\ b \in Minutes /\ a \in Nat /\ b \in Nat /\ a <= b
      BY <2>1, <2>3 DEF Back
    <3>2. PhaseOf(b, b + 1) \in Halves /\ a .. b \subseteq HalfTrades(PhaseOf(b, b + 1))
      BY <2>3, MinuteTradeFacts DEF Back
    <3>3. a < b
      BY <2>3, <3>1
    <3> QED BY <3>1, <3>2, <3>3 DEF Unbroken
  <2> QED BY <2>2, <2>3
<1>5. ASSUME NEW n \in 1 .. N, NEW i
      PROVE  <<i, at[n]>> \in Unbroken <=> n \in Further(lines) /\ Back(i, at[n] - 1)
  <2>1. at[n] \in MinuteTrades /\ at[n] \in Int
    BY <1>0, <1>1
  <2>2. ~Back(at[n], at[n] - 1)
    BY <2>1 DEF Back
  <2> HIDE DEF at
  <2> QED BY <1>3, <1>4, <2>1, <2>2, BackGrows
<1>6. ASSUME NEW p \in Unbroken
      PROVE  /\ p = <<p[1], p[2]>> /\ truth.trades[p[1]] \in Nat
             /\ \E n \in 1 .. N : at[n] = p[2]
  <2>1. p = <<p[1], p[2]>>
    BY DEF Unbroken
  <2>2. p[2] \in MinuteTrades /\ Back(p[1], p[2])
    BY <1>4, <2>1
  <2>3. p[1] \in Nat /\ p[2] \in Nat /\ p[1] \in p[1] .. p[2]
    BY <2>2, MinuteTradeFacts, Session DEF Back
  <2>4. p[1] \in MinuteTrades
    BY <2>2, <2>3, MinuteTradeFacts DEF Back
  <2> QED BY <1>1, <2>1, <2>2, <2>4, MinuteTradeFacts
<1> HIDE DEF N, at
<1>7. StepChanges(lines) = TrueSteps
  <2>1. ASSUME NEW n \in Further(lines)
        PROVE  lines[n].price - lines[n - 1].price \in TrueSteps
    <3>1. n \in 1 .. N /\ n - 1 \in 1 .. N /\ at[n - 1] = at[n] - 1 /\ at[n] \in Int
      BY <1>0, <1>1, <1>3 DEF Further
    <3>2. at[n - 1] \in MinuteTrades
      BY <1>1, <3>1
    <3>3. <<at[n - 1], at[n]>> \in Unbroken
      BY <1>5, <3>1, <3>2, BackGrows
    <3>4. at[n] = at[n - 1] + 1
      BY <3>1
    <3>5. truth.trades[at[n]] - truth.trades[at[n - 1]] \in TrueSteps
      BY <3>3, <3>4 DEF TrueSteps
    <3> QED BY <1>2, <3>1, <3>5
  <2>2. ASSUME NEW p \in Unbroken, p[2] = p[1] + 1
        PROVE  truth.trades[p[2]] - truth.trades[p[1]] \in StepChanges(lines)
    <3>1. PICK n \in 1 .. N : at[n] = p[2]
      BY <1>6
    <3>2. n \in Further(lines)
      BY <1>5, <1>6, <3>1
    <3>3. n - 1 \in 1 .. N /\ at[n - 1] = p[2] - 1 /\ p[1] \in Int
      <4>1. p[1] \in Int
        BY Session DEF Unbroken
      <4> QED BY <1>3, <3>1, <3>2, <4>1
    <3>4. at[n - 1] = p[1]
      BY <2>2, <3>3
    <3> QED BY <1>2, <3>1, <3>2, <3>3, <3>4 DEF StepChanges
  <2> QED BY <2>1, <2>2 DEF StepChanges, TrueSteps
<1>8. Drawdown(lines) = Steepest(TrueFalls)
  <2>1. PICK peak : /\ Drawdown(lines) = Steepest({peak[n - 1] - lines[n].price : n \in Further(lines)})
                    /\ \A n \in 1 .. N : HighestBack(peak[n], at[n])
    BY PeaksAreHighest DEF N, at
  <2> DEFINE falls == {peak[n - 1] - lines[n].price : n \in Further(lines)}
  <2>2. ASSUME NEW n \in Further(lines)
        PROVE  /\ n \in 1 .. N /\ n - 1 \in 1 .. N /\ at[n - 1] = at[n] - 1
               /\ lines[n].price = truth.trades[at[n]] /\ lines[n].price \in Nat
               /\ HighestBack(peak[n - 1], at[n] - 1)
    <3>1. n \in 1 .. N
      BY <1>1 DEF Further
    <3>2. n - 1 \in 1 .. N /\ at[n - 1] = at[n] - 1
      BY <1>3, <3>1
    <3> QED BY <1>2, <2>1, <3>1, <3>2
  <2>3. TrueFalls \in SUBSET Int
    <3>1. ASSUME NEW p \in Unbroken PROVE truth.trades[p[1]] - truth.trades[p[2]] \in Int
      <4>1. truth.trades[p[1]] \in Nat
        BY <1>6
      <4>2. truth.trades[p[2]] \in Nat
        BY <1>2, <1>6
      <4> QED BY <4>1, <4>2
    <3> QED BY <3>1 DEF TrueFalls
  <2>4. falls \subseteq TrueFalls
    <3>1. ASSUME NEW n \in Further(lines) PROVE peak[n - 1] - lines[n].price \in TrueFalls
      <4>1. PICK i : Back(i, at[n] - 1) /\ peak[n - 1] = truth.trades[i]
        BY <2>2 DEF HighestBack
      <4>2. <<i, at[n]>> \in Unbroken
        BY <1>5, <2>2, <4>1
      <4>3. truth.trades[i] - truth.trades[at[n]] \in TrueFalls
        BY <4>2 DEF TrueFalls
      <4> QED BY <2>2, <4>1, <4>3
    <3> QED BY <3>1
  <2>5. ASSUME NEW fall \in TrueFalls PROVE \E deeper \in falls : fall <= deeper
    <3>1. PICK p \in Unbroken : fall = truth.trades[p[1]] - truth.trades[p[2]]
      BY DEF TrueFalls
    <3>2. PICK n \in 1 .. N : at[n] = p[2]
      BY <1>6
    <3>3. n \in Further(lines) /\ Back(p[1], at[n] - 1)
      BY <1>5, <1>6, <3>2
    <3>4. truth.trades[p[1]] <= peak[n - 1] /\ peak[n - 1] - lines[n].price \in falls
      BY <2>2, <3>3 DEF HighestBack
    <3>5. peak[n - 1] \in Nat
      <4>1. PICK i : Back(i, at[n] - 1) /\ peak[n - 1] = truth.trades[i]
        BY <2>2, <3>3 DEF HighestBack
      <4>2. <<i, at[n]>> \in Unbroken
        BY <1>5, <3>3, <4>1
      <4>3. truth.trades[<<i, at[n]>>[1]] \in Nat
        BY <1>6, <4>2
      <4> QED BY <4>1, <4>3
    <3>6. truth.trades[p[1]] \in Nat /\ lines[n].price \in Nat /\ lines[n].price = truth.trades[p[2]]
      BY <1>2, <1>6, <3>2
    <3>7. fall <= peak[n - 1] - lines[n].price
      BY <3>1, <3>4, <3>5, <3>6
    <3> QED BY <3>4, <3>7
  <2> HIDE DEF falls
  <2>6. falls \in SUBSET Int
    BY <2>3, <2>4
  <2>7. Steepest(falls) = Steepest(TrueFalls)
    BY <2>3, <2>4, <2>5, <2>6, SteepestOfPart
  <2> QED BY <2>1, <2>7 DEF falls
<1> QED BY <1>7, <1>8

\* What CompleteIsTrue says of a summary.
TellsTheDay(summary) ==
  /\ summary.traded = {ValuesOf(TruePrices)}
  /\ summary.open \in {0, ValuesOf(TruePrices).open}
  /\ summary.close \in {0, ValuesOf(TruePrices).close}
  /\ summary.change \subseteq {ValuesOf(TruePrices).close - ValuesOf(TruePrices).open}
  /\ \A share \in summary.shares : share[2] = Cardinality(HalfTrades(share[1]))
  /\ {<<half[1].start, half[2].start>> : half \in summary.halves} = TrueHalves
  /\ \A half \in summary.halves, i \in {1, 2} : half[i].price = truth.trades[half[i].start]
  /\ summary.drawdown = Steepest(TrueFalls)
  /\ summary.rise = Steepest({c \in TrueSteps : c > 0})
  /\ summary.fall = Steepest({-c : c \in {d \in TrueSteps : d < 0}})

\* So a replay of truthful rows that calls the day complete tells it.
LEMMA CompleteReplayTellsTheDay ==
  ASSUME truth \in Truths, NEW placed, placed = {Placed(raw) : raw \in minutes.rows},
         HonestMinutes, HonestDaily, TruePrices # <<>>,
         Adjudicated(placed).status = "limited", Adjudicated(placed).rows # <<>>,
         Adjudicated(placed).coverage = "complete",
         truth.trades[0] # 0 => \E row \in ToSet(Adjudicated(placed).rows) : row.start = 0
  PROVE  TellsTheDay(Adjudicated(placed).summary)
<1> DEFINE lines == Deduplicated(placed)
           coverage == Coverage(lines, minutes.bounded)
           boundary == Boundary(lines)
           summary == Summary(lines, coverage, boundary)
<1>1. /\ Adjudicated(placed).rows = lines /\ Adjudicated(placed).coverage = coverage
      /\ Adjudicated(placed).summary = summary
  BY DEF Adjudicated
<1>2. PICK means \in Means : minutes.rows \subseteq TrueRows(means)
  BY DEF HonestMinutes
<1> DEFINE K == {s \in Slots(truth.final) : TrueRow(s, means) \in minutes.rows}
<1>3. DOMAIN truth.trades = Slots(truth.final)
  BY Session
<1>4. placed = {RowAt(s) : s \in K}
  <2>1. \A s \in K : Placed(TrueRow(s, means)) = RowAt(s)
    BY TrueRowsArePlaced
  <2>2. \A raw \in minutes.rows : \E s \in K : raw = TrueRow(s, means)
    BY <1>2, <1>3 DEF TrueRows
  <2>3. \A s \in K : TrueRow(s, means) \in minutes.rows
    OBVIOUS
  <2> HIDE DEF K
  <2> QED BY <2>1, <2>2, <2>3
<1>5. K \in SUBSET Slots(truth.final)
  OBVIOUS
<1> HIDE DEF K
<1>6. lines = RowsAt(K)
  BY <1>4, <1>5, NothingTwice
<1>7. truth.trades[0] # 0 => 0 \in K
  <2>1. ToSet(RowsAt(K)) = {RowAt(s) : s \in K}
    BY <1>5, RowsOfSlots
  <2> HIDE DEF lines
  <2>2. ToSet(lines) = {RowAt(s) : s \in K}
    BY <1>6, <2>1
  <2> QED BY <1>1, <2>2 DEF RowAt
<1>8. {s \in K : truth.trades[s] # 0} = TradedSlots
  <2>1. Coverage(RowsAt(K), minutes.bounded) = "complete"
    BY <1>1, <1>6
  <2> QED BY <1>5, <1>7, <2>1, NoTradeIsMissing
<1> HIDE DEF lines
<1>9. Traded(lines) = RowsAt(TradedSlots) /\ TradedSlots \subseteq Slots(truth.final)
  BY <1>5, <1>6, <1>8, RowsOfTrades
<1>10. /\ PricesOf(Traded(lines)) = TruePrices /\ ~NoRows(Traded(lines))
       /\ ValuesOf(TruePrices).open = FirstTraded /\ ValuesOf(TruePrices).close = LastTraded
  BY <1>9, PricesOfTheDay, RowsOfSlots DEF NoRows
<1>11. boundary = "cross_checked" => daily.values.close = LastTraded
  BY <1>10 DEF Boundary, HonestDaily
<1> HIDE DEF coverage, boundary
<1> DEFINE open == OpenOf(lines)
           close == CloseOf(lines, coverage, boundary)
<1>12. open \in {0, FirstTraded}
  BY <1>5, <1>6, <1>8, OpenIsTheFirstTrade
<1>13. close \in {0, LastTraded}
  BY <1>5, <1>6, <1>8, <1>11, CloseIsTheLastTrade
<1>14. /\ summary.open = open /\ summary.close = close
       /\ summary.change = OpenToClose(open, close)
       /\ summary.traded = TradedValues(lines)
       /\ summary.shares = UNION {VolumeShare(lines, p) : p \in Halves}
       /\ summary.halves = UNION {SessionReturn(lines, p) : p \in Halves}
       /\ summary.drawdown = Drawdown(Traded(Continuous(lines)))
       /\ summary.rise = Steepest({c \in StepChanges(Traded(Continuous(lines))) : c > 0})
       /\ summary.fall =
            Steepest({-c : c \in {d \in StepChanges(Traded(Continuous(lines))) : d < 0}})
  BY DEF Summary
<1> HIDE DEF summary, open, close
<1>15. summary.traded = {ValuesOf(TruePrices)}
  BY <1>10, <1>14 DEF TradedValues
<1>16. summary.change \subseteq {LastTraded - FirstTraded}
  BY <1>12, <1>13, <1>14 DEF OpenToClose
<1>17. ASSUME NEW share \in summary.shares
       PROVE  share[2] = Cardinality(HalfTrades(share[1]))
  <2>1. PICK p \in Halves : share \in VolumeShare(lines, p)
    BY <1>14
  <2> QED BY <1>5, <1>6, <1>8, <2>1, SharesAreOfTheTrades
<1>18. /\ {<<half[1].start, half[2].start>> : half \in summary.halves} = TrueHalves
       /\ \A half \in summary.halves, i \in {1, 2} : half[i].price = truth.trades[half[i].start]
  <2>1. summary.halves = UNION {SessionReturn(RowsAt(K), p) : p \in Halves}
    BY <1>6, <1>14
  <2> QED BY <1>5, <1>8, <2>1, HalvesAreOfTheTrades
<1>19. /\ StepChanges(Traded(Continuous(lines))) = TrueSteps
       /\ Drawdown(Traded(Continuous(lines))) = Steepest(TrueFalls)
  <2>1. Traded(Continuous(lines)) = RowsAt(MinuteTrades)
    BY <1>5, <1>6, <1>8, RowsOfTrades DEF MinuteTrades
  <2> QED BY <2>1, MovesAreOfTheTrades
<1>20. TellsTheDay(summary)
  BY <1>10, <1>12, <1>13, <1>14, <1>15, <1>16, <1>17, <1>18, <1>19 DEF TellsTheDay
<1> QED BY <1>1, <1>20

\* From sources that say only what is so, and with the opening auction if it traded, a
\* day called complete is the whole day, for any length of its stages and any trades: no
\* row of a slot is lost or counted twice on its way into the values of the summary, its
\* open and close, and the volume and the ends of each half, and the moves it states are
\* the deepest and the steepest ones within an unbroken stretch of trades.
THEOREM CompleteDaysAreTrue == ReplaySpec => []CompleteIsTrue
<1> DEFINE Inv == truth \in Truths /\ CompleteIsTrue
<1>1. ReplayInit => Inv
  BY DEF ReplayInit, CompleteIsTrue, CompleteDay, Adopted
<1>2. ASSUME Inv, [ReplayNext]_replayVars PROVE Inv'
  <2>1. CASE UNCHANGED replayVars
    <3>1. /\ truth' = truth /\ replay' = replay /\ daily' = daily /\ minutes' = minutes
      BY <2>1 DEF replayVars
    <3>2. /\ TruePrices' = TruePrices /\ HonestMinutes' = HonestMinutes /\ HonestDaily' = HonestDaily
      BY <3>1 DEF TruePrices, HonestMinutes, HonestDaily, TrueRows, TrueRow
    <3> QED BY <1>2, <3>1, <3>2 DEF CompleteIsTrue, CompleteDay, Adopted, TrueHalves, HalfTrades,
                                     Unbroken, TrueSteps, TrueFalls
  <2>2. CASE RefuseRequest
    <3>1. truth' = truth /\ replay'.status # "limited"
      BY <2>2 DEF RefuseRequest, Blocked
    <3> QED BY <1>2, <3>1 DEF CompleteIsTrue, CompleteDay, Adopted
  <2>3. CASE AskDaily
    <3>1. truth' = truth /\ replay' = Unknown
      BY <2>3 DEF AskDaily
    <3> QED BY <1>2, <3>1 DEF CompleteIsTrue, CompleteDay, Adopted
  <2>4. CASE AskMinutes
    <3>1. truth' = truth /\ (replay' = Unknown \/ replay'.status # "limited")
      BY <2>4 DEF AskMinutes, Blocked
    <3> QED BY <1>2, <3>1 DEF CompleteIsTrue, CompleteDay, Adopted
  <2>5. CASE Adjudicate
    <3> DEFINE placed == {Placed(raw) : raw \in minutes.rows}
    <3>1. /\ truth' = truth /\ daily' = daily /\ minutes' = minutes
          /\ replay' = Blocked("row_outside_session") \/ replay' = Adjudicated(placed)
      BY <2>5 DEF Adjudicate
    <3>2. /\ TruePrices' = TruePrices /\ HonestMinutes' = HonestMinutes /\ HonestDaily' = HonestDaily
          /\ \A s : TellsTheDay(s)' = TellsTheDay(s)
      BY <3>1 DEF TruePrices, HonestMinutes, HonestDaily, TrueRows, TrueRow, TellsTheDay,
                         TrueHalves, HalfTrades, Unbroken, TrueSteps, TrueFalls
    <3>3. SUFFICES ASSUME Adopted', HonestMinutes, HonestDaily, replay'.coverage = "complete",
                          TruePrices # <<>>,
                          truth.trades[0] # 0 => \E row \in ToSet(replay'.rows) : row.start = 0
                   PROVE  TellsTheDay(replay'.summary)
      BY <1>2, <3>1, <3>2 DEF CompleteIsTrue, CompleteDay, TellsTheDay
    <3>4. replay' = Adjudicated(placed)
      BY <3>1, <3>3 DEF Adopted, Blocked
    <3>5. /\ Adjudicated(placed).status = "limited" /\ Adjudicated(placed).rows # <<>>
          /\ Adjudicated(placed).coverage = "complete"
          /\ truth.trades[0] # 0 => \E row \in ToSet(Adjudicated(placed).rows) : row.start = 0
      BY <3>3, <3>4 DEF Adopted
    <3> HIDE DEF placed
    <3>6. TellsTheDay(Adjudicated(placed).summary)
      BY <1>2, <3>3, <3>5, CompleteReplayTellsTheDay DEF placed
    <3> QED BY <3>4, <3>6
  <2> QED BY <1>2, <2>1, <2>2, <2>3, <2>4, <2>5 DEF ReplayNext
<1>3. Inv => CompleteIsTrue
  OBVIOUS
<1> QED BY <1>1, <1>2, <1>3, PTL DEF ReplaySpec

-----------------------------------------------------------------------------
(* The valuation of a bundle. *)

\* The elements of a finite set as a list: each one is on it.
LEMMA ListOfSet ==
  ASSUME NEW S, IsFiniteSet(S)
  PROVE  SetToSeq(S) \in Seq(S) /\ ToSet(SetToSeq(S)) = S
<1> DEFINE N == Cardinality(S)
<1>1. N \in Nat /\ ExistsBijection(1 .. N, S)
  BY FS_CardinalityType
<1>2. PICK f : f \in Bijection(1 .. N, S)
  BY <1>1 DEF ExistsBijection
<1>3. f \in [1 .. N -> S] /\ IsInjective(f)
  BY <1>2 DEF Bijection, Injection, IsInjective
<1>4. SetToSeq(S) \in [1 .. N -> S] /\ IsInjective(SetToSeq(S))
  BY <1>3 DEF SetToSeq
<1> DEFINE list == SetToSeq(S)
<1>5. list \in Seq(S) /\ DOMAIN list = 1 .. N
  BY <1>1, <1>4
<1> HIDE DEF list
<1>6. list \in Injection(1 .. N, S)
  BY <1>4 DEF list, Injection, IsInjective
<1>7. IsFiniteSet(1 .. N) /\ Cardinality(1 .. N) = N
  BY <1>1, FS_Interval
<1>8. ToSet(list) \subseteq S /\ list \in Surjection(1 .. N, ToSet(list))
  BY <1>4, <1>5 DEF list, ToSet, Surjection
<1>9. list \in Injection(1 .. N, ToSet(list))
  BY <1>6, <1>8 DEF Injection, Surjection
<1>10. Cardinality(ToSet(list)) = N
  <2> DEFINE T == ToSet(list)
  <2>1. list \in Surjection(1 .. N, T) /\ list \in Injection(1 .. N, T)
    BY <1>8, <1>9
  <2> HIDE DEF T
  <2>2. Cardinality(T) = Cardinality(1 .. N)
    BY <1>7, <2>1, FS_Surjection
  <2> QED BY <1>7, <2>2 DEF T
<1>11. ToSet(list) = S
  BY <1>8, <1>10, FS_Subset
<1> QED BY <1>5, <1>11 DEF list

WalkStates(V) == [reached : SUBSET V, pending : Seq(V), again : BOOLEAN]

\* What one step of a walk does to its state.
StepOfWalk(below, s, t) ==
  \/ (s.pending = <<>> \/ s.again) /\ t = s
  \/ /\ s.pending # <<>> /\ ~s.again
     /\ Len(s.pending) \in Nat \ {0}
     /\ t.reached = s.reached \cup {s.pending[Len(s.pending)]}
     /\ t.again <=> s.pending[Len(s.pending)] \in s.reached
     /\ \A i \in 1 .. Len(s.pending) - 1 : i \in DOMAIN t.pending /\ t.pending[i] = s.pending[i]
     /\ \A x \in below[s.pending[Len(s.pending)]] :
          \E j \in DOMAIN t.pending : j >= Len(s.pending) /\ t.pending[j] = x
     /\ \A j \in DOMAIN t.pending :
          j >= Len(s.pending) => t.pending[j] \in below[s.pending[Len(s.pending)]]

LEMMA VisitedIsAStep ==
  ASSUME NEW V, NEW below \in [V -> SUBSET V], \A v \in V : IsFiniteSet(below[v]),
         NEW s \in WalkStates(V)
  PROVE  Visited(below, s) \in WalkStates(V) /\ StepOfWalk(below, s, Visited(below, s))
<1> DEFINE p == s.pending
           n == Len(p)
           w == p[n]
<1>1. p \in Seq(V) /\ s.reached \in SUBSET V /\ s.again \in BOOLEAN
  BY DEF WalkStates
<1>2. CASE p = <<>> \/ s.again
  BY <1>2 DEF Visited, StepOfWalk
<1>3. CASE p # <<>> /\ ~s.again
  <2>1. n \in Nat \ {0} /\ DOMAIN p = 1 .. n /\ \A i \in 1 .. n : p[i] \in V
    BY <1>1, <1>3, LenProperties, EmptySeq
  <2>2. w \in V /\ below[w] \in SUBSET V /\ IsFiniteSet(below[w])
    BY <2>1
  <2> DEFINE front == SubSeq(p, 1, n - 1)
             more == SetToSeq(below[w])
             t == [reached |-> s.reached \cup {w}, pending |-> front \o more,
                   again |-> w \in s.reached]
  <2>3. Visited(below, s) = t
    BY <1>3, Zenon DEF Visited, Last, Front
  <2>4. front \in Seq(V) /\ Len(front) = n - 1 /\ \A i \in 1 .. n - 1 : front[i] = p[i]
    <3>1. 1 \in Int /\ n - 1 \in Int /\ \A i \in 1 .. n - 1 : p[i] \in V
      BY <2>1
    <3> HIDE DEF n, p
    <3>2. /\ front \in Seq(V) /\ Len(front) = IF 1 <= n - 1 THEN (n - 1) - 1 + 1 ELSE 0
          /\ \A i \in 1 .. (n - 1) - 1 + 1 : front[i] = p[1 + i - 1]
      BY <3>1, SubSeqProperties
    <3>3. (n - 1) - 1 + 1 = n - 1 /\ (1 <= n - 1 \/ n - 1 = 0)
      BY <2>1
    <3>4. \A i \in 1 .. n - 1 : 1 + i - 1 = i
      BY <2>1
    <3> QED BY <2>1, <3>2, <3>3, <3>4
  <2>5. more \in Seq(below[w]) /\ ToSet(more) = below[w]
    BY <2>2, ListOfSet
  <2>6. more \in Seq(V) /\ Len(more) \in Nat /\ DOMAIN more = 1 .. Len(more)
    <3> HIDE DEF more, w
    <3>1. more \in Seq(V)
      BY <2>2, <2>5, SeqMonotonic
    <3> QED BY <3>1, LenProperties
  <2> HIDE DEF front, more, n, p, w
  <2>7. /\ front \o more \in Seq(V) /\ Len(front \o more) = n - 1 + Len(more)
        /\ \A i \in 1 .. n - 1 + Len(more) :
             (front \o more)[i] = IF i <= n - 1 THEN front[i] ELSE more[i - (n - 1)]
    <3>1. /\ front \o more \in Seq(V) /\ Len(front \o more) = Len(front) + Len(more)
          /\ \A i \in 1 .. Len(front) + Len(more) :
               (front \o more)[i] = IF i <= Len(front) THEN front[i] ELSE more[i - Len(front)]
      BY <2>4, <2>6, ConcatProperties
    <3> QED BY <2>4, <3>1
  <2>8. DOMAIN (front \o more) = 1 .. n - 1 + Len(more)
    BY <2>7, LenProperties
  <2>9. \A i \in 1 .. n - 1 : i \in DOMAIN (front \o more) /\ (front \o more)[i] = p[i]
    BY <2>1, <2>4, <2>6, <2>7, <2>8
  <2>10. ASSUME NEW x \in below[w]
         PROVE  \E j \in DOMAIN (front \o more) : j >= n /\ (front \o more)[j] = x
    <3>1. PICK k \in 1 .. Len(more) : more[k] = x
      BY <2>5, <2>6 DEF ToSet
    <3>2. /\ n - 1 + k \in 1 .. n - 1 + Len(more) /\ n - 1 + k >= n /\ ~(n - 1 + k <= n - 1)
          /\ (n - 1 + k) - (n - 1) = k
      BY <2>1, <2>6, <3>1
    <3> QED BY <2>7, <2>8, <3>1, <3>2
  <2>11. ASSUME NEW j \in DOMAIN (front \o more), j >= n
         PROVE  (front \o more)[j] \in below[w]
    <3>1. j \in 1 .. n - 1 + Len(more) /\ ~(j <= n - 1) /\ j - (n - 1) \in 1 .. Len(more)
      BY <2>1, <2>6, <2>8, <2>11
    <3>2. (front \o more)[j] = more[j - (n - 1)]
      BY <2>7, <3>1
    <3> QED BY <2>5, <2>6, <3>1, <3>2 DEF ToSet
  <2>12. t \in WalkStates(V)
    BY <1>1, <2>2, <2>7 DEF WalkStates
  <2>13. StepOfWalk(below, s, t)
    <3> DEFINE l == front \o more
    <3>1. t.reached = s.reached \cup {w} /\ t.pending = l /\ (t.again <=> w \in s.reached)
      OBVIOUS
    <3> HIDE DEF t, l
    <3>2. /\ \A i \in 1 .. n - 1 : i \in DOMAIN l /\ l[i] = p[i]
          /\ \A x \in below[w] : \E j \in DOMAIN l : j >= n /\ l[j] = x
          /\ \A j \in DOMAIN l : j >= n => l[j] \in below[w]
      BY <2>9, <2>10, <2>11 DEF l
    <3> QED BY <1>3, <2>1, <3>1, <3>2, Zenon DEF StepOfWalk, n, p, w
  <2> QED BY <2>3, <2>12, <2>13
<1> QED BY <1>2, <1>3

\* A walk: its states up to a number of steps.
IsWalk(f, N, V, below, head) ==
  /\ f \in [0 .. N -> WalkStates(V)]
  /\ f[0] = [reached |-> {}, pending |-> <<head>>, again |-> FALSE]
  /\ \A n \in 1 .. N : StepOfWalk(below, f[n - 1], f[n])

LEMMA WalkRecursion ==
  ASSUME NEW V, IsFiniteSet(V), NEW below \in [V -> SUBSET V],
         \A v \in V : IsFiniteSet(below[v]), NEW head \in V
  PROVE  \E f : /\ IsWalk(f, Cardinality(V) + 1, V, below, head)
                /\ Walk(below, head) = f[Cardinality(V) + 1]
<1> DEFINE N == Cardinality(V) + 1
           initial == [reached |-> {}, pending |-> <<head>>, again |-> FALSE]
           visit == [s \in WalkStates(V) |-> Visited(below, s)]
           step == [n \in 1 .. N |-> visit]
           Is(f) == f = [n \in 0 .. N |->
                           IF n = 0 THEN [reached |-> {}, pending |-> <<head>>, again |-> FALSE]
                           ELSE Visited(below, f[n - 1])]
           F == CHOOSE f : Is(f)
<1>1. N \in Nat /\ Cardinality(V) \in Nat /\ DOMAIN below = V
  BY FS_CardinalityType
<1>2. visit \in [WalkStates(V) -> WalkStates(V)]
  BY VisitedIsAStep
<1>3. initial \in WalkStates(V)
  BY DEF WalkStates
<1>4. Walk(below, head) = F[N]
  BY <1>1 DEF Walk
<1> HIDE DEF N, visit, initial
<1>5. PICK f \in [0 .. N -> WalkStates(V)] :
        f[0] = initial /\ \A n \in 1 .. N : f[n] = step[n][f[n - 1]]
  <2>1. step \in StepsOver(N, WalkStates(V))
    BY <1>2 DEF StepsOver
  <2> HIDE DEF step
  <2>2. \E f : Unfolds(N, WalkStates(V), initial, step, f)
    BY <1>1, <1>3, <2>1, RecursionExists
  <2> QED BY <2>2 DEF Unfolds
<1>6. \A n \in 1 .. N : n - 1 \in 0 .. N /\ f[n - 1] \in WalkStates(V) /\ f[n] = Visited(below, f[n - 1])
  <2>1. \A n \in 1 .. N : n - 1 \in 0 .. N
    BY <1>1
  <2>2. \A n \in 1 .. N : f[n - 1] \in WalkStates(V)
    BY <1>5, <2>1
  <2> QED BY <1>5, <2>1, <2>2 DEF visit
<1>7. Is(f)
  <2>1. \A n \in 0 .. N : n = 0 \/ n \in 1 .. N
    BY <1>1
  <2> QED BY <1>5, <1>6, <2>1 DEF initial
<1>8. Is(F)
  <2> HIDE DEF Is
  <2> QED BY <1>7
<1> HIDE DEF F
<1> DEFINE Good == {n \in 0 .. N : F[n] = f[n]}
<1>9. 0 .. N \subseteq Good
  <2>1. 0 \in Good
    BY <1>1, <1>5, <1>8 DEF initial
  <2>2. ASSUME NEW n \in 1 .. N, n - 1 \in Good PROVE n \in Good
    <3>1. n \in 0 .. N /\ n # 0 /\ F[n - 1] = f[n - 1]
      BY <1>1, <2>2
    <3>2. F[n] = Visited(below, F[n - 1])
      BY <1>8, <3>1
    <3> QED BY <1>6, <3>1, <3>2
  <2> HIDE DEF Good
  <2> QED BY <1>1, <2>1, <2>2, UpTo
<1>10. F[N] = f[N]
  BY <1>1, <1>9
<1>11. \A n \in 1 .. N : StepOfWalk(below, f[n - 1], f[n])
  BY <1>6, VisitedIsAStep
<1>12. IsWalk(f, N, V, below, head)
  BY <1>5, <1>11 DEF IsWalk, initial
<1> QED BY <1>4, <1>10, <1>12 DEF N

\* Every version but the head is superseded by exactly one.
ByOne(V, below, head) ==
  \A v \in V \ {head} :
    \E s \in V : v \in below[s] /\ \A t \in V : v \in below[t] => t = s

\* Of versions without the head one is superseded by none of them.
NoRing(V, below, head) ==
  \A G \in (SUBSET (V \ {head})) \ {{}} : \E v \in G : \A s \in G : v \notin below[s]

\* What holds along a walk that has met no version twice.
WalkedOnce(s, n, below, head) ==
  /\ \A v \in s.reached : \A x \in below[v] : x \in s.reached \/ x \in ToSet(s.pending)
  /\ \A v, w \in s.reached : \A x \in below[v] \cap below[w] :
       \/ v = w
       \/ x \in s.reached /\ x \in ToSet(s.pending)
       \/ \E i, j \in DOMAIN s.pending : i # j /\ s.pending[i] = x /\ s.pending[j] = x
  /\ \A x \in ToSet(s.pending) : x = head \/ \E v \in s.reached : x \in below[v]
  /\ s.pending = <<>> \/ Cardinality(s.reached) = n
  /\ Cardinality(s.reached) <= n

LEMMA WalkGoesOn ==
  ASSUME NEW V, IsFiniteSet(V), NEW below \in [V -> SUBSET V], NEW head \in V,
         NEW n \in Nat \ {0}, NEW s \in WalkStates(V), NEW t \in WalkStates(V),
         StepOfWalk(below, s, t), ~t.again,
         ~s.again => WalkedOnce(s, n - 1, below, head)
  PROVE  ~s.again /\ WalkedOnce(t, n, below, head)
<1>1. /\ s.pending \in Seq(V) /\ t.pending \in Seq(V) /\ s.reached \in SUBSET V
      /\ t.reached \in SUBSET V
  BY DEF WalkStates
<1>2. /\ IsFiniteSet(s.reached) /\ IsFiniteSet(t.reached)
      /\ Cardinality(s.reached) \in Nat /\ Cardinality(t.reached) \in Nat
  BY <1>1, FS_Subset, FS_CardinalityType
<1>3. ~s.again
  <2>1. t = s => ~s.again
    OBVIOUS
  <2> QED BY <2>1, Zenon DEF StepOfWalk
<1>4. /\ \A v \in s.reached : \A x \in below[v] : x \in s.reached \/ x \in ToSet(s.pending)
      /\ \A v, w \in s.reached : \A x \in below[v] \cap below[w] :
           \/ v = w
           \/ x \in s.reached /\ x \in ToSet(s.pending)
           \/ \E i, j \in DOMAIN s.pending : i # j /\ s.pending[i] = x /\ s.pending[j] = x
      /\ \A x \in ToSet(s.pending) : x = head \/ \E v \in s.reached : x \in below[v]
      /\ s.pending = <<>> \/ Cardinality(s.reached) = n - 1
      /\ Cardinality(s.reached) <= n - 1
  BY <1>3 DEF WalkedOnce
<1>5. CASE s.pending = <<>>
  <2>1. t = s
    BY <1>5, Zenon DEF StepOfWalk
  <2>2. Cardinality(s.reached) <= n
    BY <1>2, <1>4
  <2> QED BY <1>4, <1>5, <2>1, <2>2 DEF WalkedOnce
<1>6. CASE s.pending # <<>>
  <2> DEFINE p == s.pending
             q == t.pending
             m == Len(s.pending)
             w == s.pending[Len(s.pending)]
  <2>1. /\ m \in Nat \ {0} /\ t.reached = s.reached \cup {w} /\ w \notin s.reached
        /\ \A i \in 1 .. m - 1 : i \in DOMAIN q /\ q[i] = p[i]
        /\ \A x \in below[w] : \E j \in DOMAIN q : j >= m /\ q[j] = x
        /\ \A j \in DOMAIN q : j >= m => q[j] \in below[w]
    BY <1>3, <1>6, Zenon DEF StepOfWalk
  <2>2. /\ DOMAIN p = 1 .. m /\ w \in V /\ w = p[m] /\ Len(q) \in Nat /\ DOMAIN q = 1 .. Len(q)
        /\ w \in ToSet(p)
    <3>1. DOMAIN p = 1 .. m /\ p \in [1 .. m -> V] /\ Len(q) \in Nat /\ DOMAIN q = 1 .. Len(q)
      BY <1>1, LenProperties
    <3>2. m \in 1 .. m /\ w = p[m]
      BY <2>1
    <3> HIDE DEF m, w
    <3> QED BY <3>1, <3>2 DEF ToSet
  <2> HIDE DEF p, q, m, w
  <2>3. \A i \in DOMAIN p : i = m \/ i \in 1 .. m - 1
    BY <2>1, <2>2
  <2>4. \A x \in ToSet(p) : x = w \/ x \in ToSet(q)
    BY <2>1, <2>2, <2>3 DEF ToSet
  <2>5. \A x \in below[w] : x \in ToSet(q)
    BY <2>1 DEF ToSet
  <2>6. ASSUME NEW v \in t.reached, NEW x \in below[v]
        PROVE  x \in t.reached \/ x \in ToSet(q)
    BY <1>4, <2>1, <2>4, <2>5, <2>6 DEF p
  <2>7. ASSUME NEW v \in s.reached, NEW x \in below[v] \cap below[w]
        PROVE  \/ x \in t.reached /\ x \in ToSet(q)
               \/ \E i, j \in DOMAIN q : i # j /\ q[i] = x /\ q[j] = x
    <3>1. x \in ToSet(q)
      BY <2>5
    <3>2. CASE x \in t.reached
      BY <3>1, <3>2
    <3>3. CASE x \notin t.reached
      <4>1. x \in ToSet(p) /\ x # w
        BY <1>4, <2>1, <3>3 DEF p
      <4>2. PICK i \in DOMAIN p : p[i] = x
        BY <4>1 DEF ToSet
      <4>3. i \in 1 .. m - 1 /\ i \in DOMAIN q /\ q[i] = x
        BY <2>1, <2>2, <2>3, <4>1, <4>2
      <4>4. PICK j \in DOMAIN q : j >= m /\ q[j] = x
        BY <2>1
      <4>5. i # j
        BY <2>1, <2>2, <4>3, <4>4
      <4> QED BY <4>3, <4>4, <4>5
    <3> QED BY <3>2, <3>3
  <2>8. ASSUME NEW v \in s.reached, NEW u \in s.reached, v # u, NEW x \in below[v] \cap below[u]
        PROVE  \/ x \in t.reached /\ x \in ToSet(q)
               \/ \E i, j \in DOMAIN q : i # j /\ q[i] = x /\ q[j] = x
    <3>1. CASE x \in s.reached /\ x \in ToSet(p)
      BY <2>1, <2>4, <3>1
    <3>2. CASE \E i, j \in DOMAIN p : i # j /\ p[i] = x /\ p[j] = x
      <4>1. PICK i \in DOMAIN p, j \in DOMAIN p : i # j /\ p[i] = x /\ p[j] = x
        BY <3>2
      <4>2. CASE x = w
        <5>1. i \in 1 .. m - 1 \/ j \in 1 .. m - 1
          BY <2>3, <4>1
        <5>2. x \in ToSet(q)
          BY <2>1, <4>1, <5>1 DEF ToSet
        <5> QED BY <2>1, <4>2, <5>2
      <4>3. CASE x # w
        <5>1. i \in 1 .. m - 1 /\ j \in 1 .. m - 1
          BY <2>2, <2>3, <4>1, <4>3
        <5>2. i \in DOMAIN q /\ j \in DOMAIN q /\ q[i] = x /\ q[j] = x
          BY <2>1, <4>1, <5>1
        <5> QED BY <4>1, <5>2
      <4> QED BY <4>2, <4>3
    <3> QED BY <1>4, <2>8, <3>1, <3>2 DEF p
  <2>9. ASSUME NEW v \in t.reached, NEW u \in t.reached, v # u, NEW x \in below[v] \cap below[u]
        PROVE  \/ x \in t.reached /\ x \in ToSet(q)
               \/ \E i, j \in DOMAIN q : i # j /\ q[i] = x /\ q[j] = x
    <3>1. CASE v \in s.reached /\ u \in s.reached
      BY <2>8, <2>9, <3>1
    <3>2. CASE v = w
      <4>1. u \in s.reached /\ x \in below[u] \cap below[w]
        BY <2>1, <2>9, <3>2
      <4> QED BY <2>7, <4>1
    <3>3. CASE u = w
      <4>1. v \in s.reached /\ x \in below[v] \cap below[w]
        BY <2>1, <2>9, <3>3
      <4> QED BY <2>7, <4>1
    <3> QED BY <2>1, <3>1, <3>2, <3>3
  <2>10. ASSUME NEW x \in ToSet(q) PROVE x = head \/ \E v \in t.reached : x \in below[v]
    <3>1. PICK j \in DOMAIN q : q[j] = x
      BY DEF ToSet
    <3>2. CASE j >= m
      BY <2>1, <3>1, <3>2
    <3>3. CASE ~(j >= m)
      <4>1. j \in 1 .. m - 1
        BY <2>1, <2>2, <3>3
      <4>2. j \in DOMAIN p /\ p[j] = x
        BY <2>1, <2>2, <3>1, <4>1
      <4>3. x \in ToSet(p)
        BY <4>2 DEF ToSet
      <4> QED BY <1>4, <2>1, <4>3 DEF p
    <3> QED BY <3>2, <3>3
  <2>11. Cardinality(t.reached) = n
    <3>1. Cardinality(s.reached \cup {w}) = Cardinality(s.reached) + 1
      BY <1>2, <2>1, FS_AddElement
    <3>2. Cardinality(s.reached) = n - 1
      BY <1>4, <1>6
    <3> QED BY <2>1, <3>1, <3>2
  <2>12. Cardinality(t.reached) <= n
    BY <2>11
  <2>13. \A v \in t.reached : \A x \in below[v] : x \in t.reached \/ x \in ToSet(t.pending)
    BY <2>6 DEF q
  <2>14. \A v, u \in t.reached : \A x \in below[v] \cap below[u] :
           \/ v = u
           \/ x \in t.reached /\ x \in ToSet(t.pending)
           \/ \E i, j \in DOMAIN t.pending : i # j /\ t.pending[i] = x /\ t.pending[j] = x
    BY <2>9 DEF q
  <2>15. \A x \in ToSet(t.pending) : x = head \/ \E v \in t.reached : x \in below[v]
    BY <2>10 DEF q
  <2> QED BY <1>3, <2>11, <2>12, <2>13, <2>14, <2>15 DEF WalkedOnce
<1> QED BY <1>5, <1>6

\* Versions that a walk from the head reaches, each of them once, are superseded by
\* one each, and by way of others by the head.
LEMMA WalkTells ==
  ASSUME NEW V, IsFiniteSet(V), NEW below \in [V -> SUBSET V], NEW head \in V,
         \A v \in V : IsFiniteSet(below[v]), V \ UNION {below[v] : v \in V} = {head},
         ~Walk(below, head).again, Walk(below, head).reached = V
  PROVE  ByOne(V, below, head) /\ NoRing(V, below, head)
<1> DEFINE N == Cardinality(V) + 1
<1>1. PICK f : IsWalk(f, N, V, below, head) /\ Walk(below, head) = f[N]
  BY WalkRecursion
<1>2. /\ N \in Nat \ {0} /\ N # Cardinality(V)
  BY FS_CardinalityType
<1> HIDE DEF N
<1>3. /\ f[0] = [reached |-> {}, pending |-> <<head>>, again |-> FALSE]
      /\ \A n \in 0 .. N : f[n] \in WalkStates(V)
      /\ \A n \in 1 .. N : StepOfWalk(below, f[n - 1], f[n])
  BY <1>1 DEF IsWalk
<1>4. ~f[N].again /\ f[N].reached = V
  BY <1>1
<1>5. WalkedOnce(f[0], 0, below, head)
  <2>1. f[0].reached = {} /\ f[0].pending = <<head>> /\ ToSet(<<head>>) = {head}
    BY <1>3 DEF ToSet
  <2>2. Cardinality({}) = 0
    BY FS_EmptySet
  <2> QED BY <2>1, <2>2 DEF WalkedOnce
<1> DEFINE Once == {n \in 0 .. N : ~f[n].again => WalkedOnce(f[n], n, below, head)}
           Never == {n \in 0 .. N : ~f[N - n].again}
<1>6. 0 .. N \subseteq Once
  <2>1. 0 \in Once
    BY <1>2, <1>5
  <2>2. ASSUME NEW n \in 1 .. N, n - 1 \in Once PROVE n \in Once
    <3>1. /\ n \in 0 .. N /\ n - 1 \in 0 .. N /\ n \in Nat \ {0}
          /\ f[n - 1] \in WalkStates(V) /\ f[n] \in WalkStates(V)
          /\ StepOfWalk(below, f[n - 1], f[n])
          /\ ~f[n - 1].again => WalkedOnce(f[n - 1], n - 1, below, head)
      BY <1>2, <1>3, <2>2
    <3>2. ASSUME ~f[n].again PROVE WalkedOnce(f[n], n, below, head)
      BY <3>1, <3>2, WalkGoesOn
    <3> QED BY <3>1, <3>2
  <2> HIDE DEF Once
  <2> QED BY <1>2, <2>1, <2>2, UpTo
<1>7. 0 .. N \subseteq Never
  <2>1. 0 \in Never
    BY <1>2, <1>4
  <2>2. ASSUME NEW n \in 1 .. N, n - 1 \in Never PROVE n \in Never
    <3> DEFINE m == N - (n - 1)
    <3>1. /\ m \in 0 .. N /\ m - 1 \in 0 .. N /\ m \in 1 .. N /\ m \in Nat \ {0}
          /\ n \in 0 .. N /\ N - n = m - 1
      BY <1>2
    <3>2. ~f[m].again
      BY <2>2
    <3> HIDE DEF m
    <3>3. /\ f[m - 1] \in WalkStates(V) /\ f[m] \in WalkStates(V)
          /\ StepOfWalk(below, f[m - 1], f[m])
          /\ ~f[m - 1].again => WalkedOnce(f[m - 1], m - 1, below, head)
      BY <1>3, <1>6, <3>1
    <3>4. ~f[m - 1].again
      BY <3>1, <3>2, <3>3, WalkGoesOn
    <3> QED BY <3>1, <3>4
  <2> HIDE DEF Never
  <2> QED BY <1>2, <2>1, <2>2, UpTo
<1>8. ASSUME NEW n \in 0 .. N PROVE ~f[n].again /\ WalkedOnce(f[n], n, below, head)
  <2>1. N - n \in 0 .. N /\ N - (N - n) = n
    BY <1>2
  <2>2. ~f[n].again
    BY <1>7, <2>1
  <2> QED BY <1>6, <2>2
<1> HIDE DEF Once, Never
<1>9. /\ f[N].pending = <<>>
      /\ \A v, w \in V : \A x \in below[v] \cap below[w] : v = w
  <2>1. WalkedOnce(f[N], N, below, head)
    BY <1>2, <1>8
  <2>2. f[N].pending = <<>>
    BY <1>2, <1>4, <2>1 DEF WalkedOnce
  <2>3. ToSet(f[N].pending) = {} /\ DOMAIN f[N].pending = {}
    BY <2>2 DEF ToSet
  <2>4. \A v, w \in V : \A x \in below[v] \cap below[w] :
          \/ v = w
          \/ x \in V /\ x \in ToSet(f[N].pending)
          \/ \E i, j \in DOMAIN f[N].pending : i # j /\ f[N].pending[i] = x /\ f[N].pending[j] = x
    BY <1>4, <2>1 DEF WalkedOnce
  <2> QED BY <2>2, <2>3, <2>4
<1>10. ByOne(V, below, head)
  <2>1. SUFFICES ASSUME NEW v \in V \ {head}
                 PROVE  \E s \in V : v \in below[s] /\ \A t \in V : v \in below[t] => t = s
    BY DEF ByOne
  <2>2. v \in UNION {below[s] : s \in V}
    OBVIOUS
  <2>3. PICK s \in V : v \in below[s]
    BY <2>2
  <2> QED BY <1>9, <2>3
<1>11. NoRing(V, below, head)
  <2>1. SUFFICES ASSUME NEW G \in (SUBSET (V \ {head})) \ {{}}
                 PROVE  \E v \in G : \A s \in G : v \notin below[s]
    BY DEF NoRing
  <2> DEFINE Met == {n \in 0 .. N : f[n].reached \cap G # {}}
  <2>2. N \in Met
    BY <1>2, <1>4
  <2>3. Met \in SUBSET Nat
    OBVIOUS
  <2> HIDE DEF Met
  <2>4. PICK n \in Met : \A l \in Met : n <= l
    BY <2>2, <2>3, SmallestOf
  <2>5. n \in 0 .. N /\ f[n].reached \cap G # {}
    BY <2>4 DEF Met
  <2>6. n # 0
    BY <1>3, <2>5
  <2>7. n \in 1 .. N /\ n - 1 \in 0 .. N /\ ~(n <= n - 1)
    BY <1>2, <2>5, <2>6
  <2>8. f[n - 1].reached \cap G = {}
    BY <2>4, <2>7 DEF Met
  <2> DEFINE p == f[n - 1].pending
             w == f[n - 1].pending[Len(f[n - 1].pending)]
  <2>9. f[n] # f[n - 1]
    BY <2>5, <2>8
  <2>10. f[n].reached = f[n - 1].reached \cup {w} /\ Len(p) \in Nat \ {0}
    BY <1>3, <2>7, <2>9, Zenon DEF StepOfWalk
  <2>11. w \in G
    BY <2>5, <2>8, <2>10
  <2>12. w \in ToSet(p)
    <3>1. p \in Seq(V)
      BY <1>3, <2>7 DEF WalkStates
    <3>2. DOMAIN p = 1 .. Len(p) /\ Len(p) \in 1 .. Len(p)
      BY <2>10, <3>1, LenProperties
    <3> QED BY <3>2 DEF ToSet
  <2>13. PICK s \in f[n - 1].reached : w \in below[s]
    <3>1. WalkedOnce(f[n - 1], n - 1, below, head)
      BY <1>8, <2>7
    <3>2. \A x \in ToSet(p) : x = head \/ \E v \in f[n - 1].reached : x \in below[v]
      BY <3>1 DEF WalkedOnce
    <3> QED BY <2>11, <2>12, <3>2
  <2>14. s \in V /\ s \notin G
    <3>1. f[n - 1].reached \in SUBSET V
      BY <1>3, <2>7 DEF WalkStates
    <3> QED BY <2>8, <2>13, <3>1
  <2>15. ASSUME NEW t \in G, w \in below[t] PROVE FALSE
    BY <1>9, <2>13, <2>14, <2>15
  <2> QED BY <2>11, <2>15
<1> QED BY <1>10, <1>11

\* No other report of the period corrects the one that is used, one other corrects
\* each of the rest, and of any of them one is corrected by none of these.
StandsAlone(counted, reports) ==
  /\ counted \in reports
  /\ \A s \in reports : counted.version \notin s.supersedes
  /\ \A r \in reports \ {counted} :
       \E s \in reports : {t \in reports : r.version \in t.supersedes} = {s}
  /\ \A group \in (SUBSET (reports \ {counted})) \ {{}} :
       \E r \in group : \A s \in group : r.version \notin s.supersedes

LEMMA ResolvedIsInForce ==
  ASSUME NEW reports, IsFiniteSet(reports), \A r \in reports : IsFiniteSet(r.supersedes),
         Resolved(reports) # NoReport
  PROVE  \E counted : Resolved(reports) = {counted} /\ StandsAlone(counted, reports)
<1> DEFINE V == {r.version : r \in reports}
           heads == V \ SupersededIn(reports)
           below == [v \in V |-> OfVersion(reports, v).supersedes]
           head == CHOOSE v \in heads : TRUE
<1>1. /\ Cardinality(V) = Cardinality(reports) /\ SupersededIn(reports) \subseteq V
      /\ Cardinality(heads) = 1
      /\ ~Walk(below, head).again /\ Walk(below, head).reached = V
      /\ Resolved(reports) = {OfVersion(reports, head)}
  BY Zenon DEF Resolved
<1>2. IsFiniteSet(V) /\ \A r, s \in reports : r.version = s.version => r = s
  <2> DEFINE f == [r \in reports |-> r.version]
  <2>1. f \in Surjection(reports, V)
    BY DEF Surjection
  <2>2. \A r \in reports : f[r] = r.version
    OBVIOUS
  <2> HIDE DEF f, V
  <2>3. IsFiniteSet(V) /\ f \in Injection(reports, V)
    BY <1>1, <2>1, FS_Surjection
  <2>4. \A r, s \in reports : f[r] = f[s] => r = s
    BY <2>3 DEF Injection, IsInjective
  <2> QED BY <2>2, <2>3, <2>4
<1>3. \A v \in V : OfVersion(reports, v) \in reports /\ OfVersion(reports, v).version = v
  <2>1. SUFFICES ASSUME NEW v \in V
                 PROVE  OfVersion(reports, v) \in reports /\ OfVersion(reports, v).version = v
    OBVIOUS
  <2>2. \E r \in reports : r.version = v
    OBVIOUS
  <2> QED BY <2>2 DEF OfVersion
<1>4. \A r \in reports : r.version \in V /\ OfVersion(reports, r.version) = r
  <2>1. \A r \in reports : r.version \in V
    OBVIOUS
  <2> QED BY <1>2, <1>3, <2>1
<1>5. \A r \in reports : below[r.version] = r.supersedes /\ r.supersedes \subseteq SupersededIn(reports)
  BY <1>4 DEF SupersededIn
<1> HIDE DEF below
<1>6. \A v \in V : \E r \in reports : v = r.version /\ below[v] = r.supersedes
  BY <1>3, <1>5
<1>7. below \in [V -> SUBSET V] /\ \A v \in V : IsFiniteSet(below[v])
  <2>1. below = [v \in V |-> below[v]]
    BY DEF below
  <2> HIDE DEF V
  <2>2. \A v \in V : below[v] \in SUBSET V /\ IsFiniteSet(below[v])
    BY <1>1, <1>5, <1>6
  <2> QED BY <2>1, <2>2
<1>8. head \in heads /\ heads = {head}
  <2> HIDE DEF heads
  <2>1. IsFiniteSet(heads)
    <3>1. heads \subseteq V
      BY DEF heads
    <3> HIDE DEF V
    <3> QED BY <1>2, <3>1, FS_Subset
  <2>2. \E x : heads = {x}
    BY <1>1, <2>1, FS_Singleton
  <2> QED BY <2>2
<1>9. UNION {below[v] : v \in V} = SupersededIn(reports)
  <2>1. ASSUME NEW x \in SupersededIn(reports) PROVE x \in UNION {below[v] : v \in V}
    <3>1. PICK r \in reports : x \in r.supersedes
      BY DEF SupersededIn
    <3>2. r.version \in V /\ x \in below[r.version]
      BY <1>4, <1>5, <3>1
    <3> HIDE DEF V
    <3> QED BY <3>2
  <2>2. ASSUME NEW x \in UNION {below[v] : v \in V} PROVE x \in SupersededIn(reports)
    <3> HIDE DEF V
    <3>1. PICK v \in V : x \in below[v]
      OBVIOUS
    <3>2. PICK r \in reports : below[v] = r.supersedes
      BY <1>6
    <3> QED BY <1>5, <3>1, <3>2
  <2> QED BY <2>1, <2>2
<1>10. head \in V /\ V \ UNION {below[v] : v \in V} = {head}
  BY <1>8, <1>9
<1> HIDE DEF V, heads, head
<1>11. ByOne(V, below, head) /\ NoRing(V, below, head)
  BY <1>1, <1>2, <1>7, <1>10, WalkTells
<1> DEFINE counted == OfVersion(reports, head)
<1>12. counted \in reports /\ counted.version = head
  BY <1>3, <1>10
<1> HIDE DEF counted
<1>13. \A s \in reports : counted.version \notin s.supersedes
  BY <1>5, <1>8, <1>12 DEF heads
<1>14. \A r \in reports \ {counted} : r.version \in V \ {head}
  BY <1>2, <1>4, <1>12
<1>15. ASSUME NEW r \in reports \ {counted}
       PROVE  \E s \in reports : {t \in reports : r.version \in t.supersedes} = {s}
  <2>1. PICK v \in V : r.version \in below[v] /\ \A t \in V : r.version \in below[t] => t = v
    BY <1>11, <1>14 DEF ByOne
  <2>2. PICK s \in reports : v = s.version /\ below[v] = s.supersedes
    BY <1>6
  <2>3. \A t \in reports : r.version \in t.supersedes => t = s
    BY <1>2, <1>4, <1>5, <2>1, <2>2
  <2> QED BY <2>1, <2>2, <2>3
<1>16. ASSUME NEW group \in (SUBSET (reports \ {counted})) \ {{}}
       PROVE  \E r \in group : \A s \in group : r.version \notin s.supersedes
  <2> DEFINE G == {r.version : r \in group}
  <2>1. G \in (SUBSET (V \ {head})) \ {{}}
    BY <1>14
  <2>2. PICK v \in G : \A s \in G : v \notin below[s]
    BY <1>11, <2>1 DEF NoRing
  <2>3. PICK r \in group : v = r.version
    OBVIOUS
  <2>4. ASSUME NEW s \in group PROVE r.version \notin s.supersedes
    <3>1. s.version \in G /\ s \in reports
      OBVIOUS
    <3> QED BY <1>5, <2>2, <2>3, <3>1
  <2> QED BY <2>4
<1>17. StandsAlone(counted, reports)
  BY <1>12, <1>13, <1>15, <1>16 DEF StandsAlone
<1> QED BY <1>1, <1>17 DEF counted

\* A report of a metric is the one in force of its period, and nothing of its basis
\* was left out.
UsedInForce(counted, basis) ==
  /\ Rejected({basis}) = {}
  /\ \E period \in PeriodsOf(basis) :
       StandsAlone(counted, {item \in With({basis}) : item.day = period})

LEMMA TheReportIsInForce ==
  ASSUME manifest \in Manifests, NEW basis, NEW period \in PeriodsOf(basis),
         Rejected({basis}) = {}, AllResolved(basis)
  PROVE  UsedInForce(TheReport(basis, period), basis)
<1> DEFINE reports == {item \in With({basis}) : item.day = period}
<1>1. IsFiniteSet(reports) /\ \A r \in reports : IsFiniteSet(r.supersedes)
  <2>1. IsFiniteSet(manifest.items) /\ \A item \in manifest.items : IsFiniteSet(item.supersedes)
    BY BundleAssumption
  <2>2. reports \subseteq manifest.items
    BY DEF With
  <2> HIDE DEF reports
  <2> QED BY <2>1, <2>2, FS_Subset
<1>2. ReportOf(basis, period) = Resolved(reports) /\ Resolved(reports) # NoReport
  BY DEF ReportOf, AllResolved
<1> HIDE DEF reports
<1>3. PICK counted : Resolved(reports) = {counted} /\ StandsAlone(counted, reports)
  BY <1>1, <1>2, ResolvedIsInForce
<1>4. TheReport(basis, period) = counted
  BY <1>2, <1>3 DEF TheReport
<1> QED BY <1>3, <1>4 DEF UsedInForce, reports

LEMMA LatestIsResolved ==
  ASSUME manifest \in Manifests, NEW basis, LatestApplicable(basis) # {}
  PROVE  /\ Rejected({basis}) = {} /\ AllResolved(basis)
         /\ LatestApplicable(basis) \subseteq PeriodsOf(basis)
<1>1. /\ Rejected({basis}) = {} /\ AllResolved(basis) /\ PeriodsOf(basis) # {}
      /\ LatestApplicable(basis) \subseteq {Max(PeriodsOf(basis))}
  BY DEF LatestApplicable
<1>2. PeriodsOf(basis) \in SUBSET {d \in Nat : d <= AsOf} /\ AsOf \in Int
  BY BundleAssumption DEF PeriodsOf, With, Admissible
<1> DEFINE days == PeriodsOf(basis)
<1> HIDE DEF days
<1>3. Max(days) \in days
  BY <1>1, <1>2, MaxOfDays DEF days
<1> QED BY <1>1, <1>3 DEF days

LEMMA ProfitIsInForce ==
  ASSUME manifest \in Manifests, NEW counted \in ToSet(TtmProfit.items)
  PROVE  UsedInForce(counted, "profit")
<1> DEFINE latest == CHOOSE p \in LatestApplicable("profit") : TRUE
           periods == TtmPeriods(latest)
           reports == [i \in DOMAIN periods |-> TheReport("profit", periods[i])]
           amount == IF Len(periods) = 1 THEN reports[1].value
                     ELSE reports[1].value + reports[2].value - reports[3].value
<1>0. ToSet(<<>>) = {} /\ NotCalculable.items = <<>>
  BY DEF ToSet, NotCalculable, Operand
<1>1. LatestApplicable("profit") # {}
  BY <1>0, Zenon DEF TtmProfit
<1>2. /\ \A i \in DOMAIN periods : periods[i] \in PeriodsOf("profit")
      /\ TtmProfit.items = reports
  <2>1. TtmProfit = IF \E i \in DOMAIN periods : periods[i] \notin PeriodsOf("profit")
                    THEN NotCalculable ELSE Denominator(reports, amount)
    BY <1>1, Zenon DEF TtmProfit
  <2> HIDE DEF periods, reports, amount
  <2>2. ~ \E i \in DOMAIN periods : periods[i] \notin PeriodsOf("profit")
    BY <1>0, <2>1
  <2>3. Denominator(reports, amount).items = reports
    BY DEF Denominator, Operand
  <2> QED BY <2>1, <2>2, <2>3
<1> HIDE DEF periods
<1>3. PICK i \in DOMAIN periods : counted = TheReport("profit", periods[i])
  BY <1>2 DEF ToSet
<1>4. Rejected({"profit"}) = {} /\ AllResolved("profit")
  BY <1>1, LatestIsResolved
<1> QED BY <1>2, <1>3, <1>4, TheReportIsInForce

LEMMA EquityIsInForce ==
  ASSUME manifest \in Manifests, NEW counted \in ToSet(MrqEquity.items)
  PROVE  UsedInForce(counted, "equity")
<1> DEFINE latest == CHOOSE p \in LatestApplicable("equity") : TRUE
           report == TheReport("equity", latest)
<1>0. ToSet(<<>>) = {} /\ NotCalculable.items = <<>>
  BY DEF ToSet, NotCalculable, Operand
<1>1. LatestApplicable("equity") # {}
  BY <1>0, Zenon DEF MrqEquity
<1>2. MrqEquity.items = <<report>>
  <2>1. MrqEquity = Denominator(<<report>>, report.value)
    BY <1>1, Zenon DEF MrqEquity
  <2> HIDE DEF report
  <2> QED BY <2>1 DEF Denominator, Operand
<1>3. counted = report
  <2> HIDE DEF report
  <2> QED BY <1>2 DEF ToSet
<1>4. /\ Rejected({"equity"}) = {} /\ AllResolved("equity")
      /\ LatestApplicable("equity") \subseteq PeriodsOf("equity")
  BY <1>1, LatestIsResolved
<1>5. latest \in PeriodsOf("equity")
  BY <1>1, <1>4
<1> HIDE DEF latest
<1> QED BY <1>3, <1>4, <1>5, TheReportIsInForce

\* What the property asks of a report that is used.
NothingCorrects(counted) ==
  LET rivals == {item \in manifest.items : item.basis = counted.basis /\ item.day = counted.day}
      above(r) == {s \in rivals : r.version \in s.supersedes} IN
    /\ above(counted) = {}
    /\ \A r \in rivals \ {counted} : Cardinality(above(r)) = 1
    /\ \A group \in (SUBSET (rivals \ {counted})) \ {{}} :
         \E r \in group : above(r) \cap group = {}

LEMMA NothingCorrectsTheUsed ==
  ASSUME NEW counted, NEW basis, UsedInForce(counted, basis)
  PROVE  NothingCorrects(counted)
<1> DEFINE rivals == {item \in manifest.items : item.basis = counted.basis /\ item.day = counted.day}
           above(r) == {s \in rivals : r.version \in s.supersedes}
<1>1. PICK period \in PeriodsOf(basis) :
        StandsAlone(counted, {item \in With({basis}) : item.day = period})
  BY DEF UsedInForce
<1>2. rivals = {item \in With({basis}) : item.day = period}
  <2>1. counted \in With({basis}) /\ counted.day = period
    BY <1>1 DEF StandsAlone
  <2>2. counted.basis = basis
    BY <2>1 DEF With
  <2>3. \A item \in manifest.items : item.basis = basis => Admissible(item)
    BY DEF UsedInForce, Rejected
  <2> QED BY <2>1, <2>2, <2>3 DEF With
<1>3. StandsAlone(counted, rivals)
  BY <1>1, <1>2
<1> HIDE DEF rivals
<1>4. above(counted) = {}
  BY <1>3 DEF StandsAlone
<1>5. ASSUME NEW r \in rivals \ {counted} PROVE Cardinality(above(r)) = 1
  <2>1. PICK s \in rivals : above(r) = {s}
    BY <1>3 DEF StandsAlone
  <2> QED BY <2>1, FS_Singleton
<1>6. ASSUME NEW group \in (SUBSET (rivals \ {counted})) \ {{}}
      PROVE  \E r \in group : above(r) \cap group = {}
  <2>1. PICK r \in group : \A s \in group : r.version \notin s.supersedes
    BY <1>3 DEF StandsAlone
  <2> QED BY <2>1
<1> QED BY <1>4, <1>5, <1>6 DEF NothingCorrects, rivals

-----------------------------------------------------------------------------
\* No report enters a metric of a bundle that another one there corrects, forks from
\* or supersedes in a ring, whatever a caller hands in (_resolved_report_period,
\* _ttm_applicability, _mrq_applicability).
THEOREM OperandsStandUncorrected == BundleSpec => []OperandsAreInForce
<1> DEFINE Inv == manifest \in Manifests /\ OperandsAreInForce
<1>1. BundleInit => Inv
  BY DEF BundleInit, OperandsAreInForce, Valued
<1>2. Inv /\ [BundleNext]_bundleVars => Inv'
  <2> SUFFICES ASSUME manifest \in Manifests, OperandsAreInForce, [BundleNext]_bundleVars
               PROVE  Inv'
    OBVIOUS
  <2>1. CASE UNCHANGED bundleVars
    BY <2>1 DEF bundleVars, OperandsAreInForce, Valued
  <2>2. CASE Value
    <3>1. /\ manifest' = manifest /\ valuation'.profit = TtmProfit.items
          /\ valuation'.equity = MrqEquity.items
      BY <2>2 DEF Value
    <3>2. ASSUME NEW counted \in ToSet(valuation'.profit) \cup ToSet(valuation'.equity)
          PROVE  NothingCorrects(counted)
      <4>1. CASE counted \in ToSet(TtmProfit.items)
        BY <4>1, ProfitIsInForce, NothingCorrectsTheUsed
      <4>2. CASE counted \in ToSet(MrqEquity.items)
        BY <4>2, EquityIsInForce, NothingCorrectsTheUsed
      <4> QED BY <3>1, <3>2, <4>1, <4>2
    <3> QED BY <3>1, <3>2 DEF OperandsAreInForce, NothingCorrects
  <2> QED BY <2>1, <2>2 DEF BundleNext
<1> QED BY <1>1, <1>2, PTL DEF BundleSpec
=============================================================================
