----------------------- MODULE IdentityResearchProofs -----------------------
(***************************************************************************)
(* The safety of IdentityResearch, for any codes, names, limits and        *)
(* requests: a decision nothing seems to be missing from rests on every    *)
(* candidate, a claim is contradicted by nothing that was adopted, and the *)
(* plan of the capability is used as PlanContract allows.                  *)
(***************************************************************************)
EXTENDS IdentityResearch, FiniteSetTheorems, TLAPS

Exchanges == Official \cup {"BSE", NoExchange}
AllRows   == [source : Sources, code : Codes, name : Names, exchange : Exchanges,
              today : BOOLEAN]
Outcomes  == [state : ExecutionStates, complete : BOOLEAN, seen : SUBSET AllRows,
              errors : SUBSET {"source_failed"}, attempts : Nat]
Asks      == Sources \X (Codes \cup Names) \X {1, 2}
Stages    == {"initial", "followup", "returned", "raised"}
First     == {<<o, request.clue, 1>> : o \in {o \in Sources : Scheduled(o)}}

TypeOK ==
  /\ request \in Requests
  /\ stage \in Stages
  /\ asked \in SUBSET Asks /\ owed \in SUBSET asked /\ IsFiniteSet(asked)
  /\ outcome \in [Sources -> Outcomes]
  /\ late \in BOOLEAN

\* What is seen is finite, a failure has an error, and the records of the
\* dictionary, which is asked once, were all retrieved on one day.
Sound ==
  /\ \A o \in Sources : /\ IsFiniteSet(outcome[o].seen)
                        /\ outcome[o].state = "failed" <=> outcome[o].errors # {}
  /\ \E today \in BOOLEAN : \A row \in Seen({Dictionary}) : row.today = today

\* The course of the plan.
Course ==
  /\ owed # {} => stage \in {"initial", "followup"}
  /\ Precondition # "none" => stage = "returned" /\ asked = {}
                              /\ \A o \in Sources : outcome[o].errors = {}
  /\ stage = "initial" =>
       /\ asked = First
       /\ \A ask \in owed : outcome[ask[1]] = LocalOutcome(SkippedState(ask[1]))
  /\ stage = "followup" => \A ask \in owed : ask[1] \in Official

\* Whatever the dictionary saw has been looked for officially, or it is more
\* than the follow-ups could look for.
LookedFor(key) ==
  \/ \E row \in Seen(Official) : row.code = key[2]
  \/ \A o \in Official : key[1] \in {NoExchange, o} => <<o, key[2], 2>> \in asked
Checked ==
  stage \in {"followup", "returned"} /\ Precondition = "none" /\ ~late /\ ~Errors =>
    \/ \A key \in Keys(Seen({Dictionary})) : LookedFor(key)
    \/ Cardinality(Keys(Seen({Dictionary}))) > CandidateLimit

Folded == result # NoResult => stage = "returned" /\ result = Decision

IdentityInv == TypeOK /\ Sound /\ Course /\ Checked /\ Folded

-----------------------------------------------------------------------------
(* What sources answer.                                                    *)

LEMMA AnswersSound ==
  ASSUME NEW o \in Sources, NEW query, NEW seen \in Answers(o, query)
  PROVE  /\ seen \in SUBSET AllRows /\ IsFiniteSet(seen)
         /\ \E today \in BOOLEAN : \A row \in seen : row.today = today
<1> DEFINE Rows(S) == [S -> {n \in Names \X ExchangesOf(o) :
                               \A c \in S : Matches(o, query, c, n[1])}]
<1>0. PICK today \in BOOLEAN,
           row \in UNION {Rows(S) : S \in {S \in SUBSET Codes : o \in Official =>
                                                             Cardinality(S) <= MaxRows}} :
        seen = {Row(o, c, row[c][1], row[c][2], today) : c \in DOMAIN row}
  BY DEF Answers
<1>1. PICK S \in SUBSET Codes : row \in Rows(S)
  BY <1>0
<1> DEFINE f == [c \in S |-> Row(o, c, row[c][1], row[c][2], today)]
<1>2. DOMAIN row = S /\ \A c \in S : row[c] \in Names \X ExchangesOf(o)
  BY <1>1
<1>3. ExchangesOf(o) \subseteq Exchanges
  BY ReportedAssumption DEF ExchangesOf, Exchanges
<1>4. \A c \in S : Row(o, c, row[c][1], row[c][2], today) \in AllRows
  BY <1>0, <1>2, <1>3 DEF Row, AllRows
<1>5. IsFiniteSet(S)
  BY CodesAssumption, FS_Subset
<1>6. f \in Surjection(S, seen)
  BY <1>0, <1>2 DEF Surjection
<1>7. IsFiniteSet(seen)
  BY <1>5, <1>6, FS_Surjection
<1>8. \A r \in seen : r.today = today
  BY <1>0 DEF Row
<1> QED
  BY <1>0, <1>2, <1>4, <1>7, <1>8

\* An outcome whose records are finite and from one day, with an error iff failed.
Whole(x) ==
  /\ x \in Outcomes /\ IsFiniteSet(x.seen)
  /\ x.state = "failed" <=> x.errors # {}

LEMMA ResponseWhole ==
  ASSUME NEW o \in Sources, NEW query, NEW new \in Responses(o, query)
  PROVE  /\ Whole(new)
         /\ \E today \in BOOLEAN : \A row \in new.seen : row.today = today
<1>1. CASE new = Failed("source_failed", 1)
  BY <1>1, FS_EmptySet DEF Failed, Whole, Outcomes, ExecutionStates
<1>2. CASE \E complete \in BOOLEAN, seen \in Answers(o, query) : new = Succeeded(complete, seen, 1)
  <2>1. PICK complete \in BOOLEAN, seen \in Answers(o, query) : new = Succeeded(complete, seen, 1)
    BY <1>2
  <2>2. seen \in SUBSET AllRows /\ IsFiniteSet(seen)
        /\ \E today \in BOOLEAN : \A row \in seen : row.today = today
    BY AnswersSound
  <2>3. /\ new.seen = seen /\ new.state = "succeeded" /\ new.errors = {}
        /\ new \in Outcomes
    BY <2>1, <2>2 DEF Succeeded, Outcomes, ExecutionStates
  <2> QED
    BY <2>2, <2>3 DEF Whole
<1> QED
  BY <1>1, <1>2 DEF Responses

LEMMA MergeWhole ==
  ASSUME NEW x, NEW y, Whole(x), Whole(y)
  PROVE  /\ Whole(Merge(x, y))
         /\ Merge(x, y).seen = x.seen \cup y.seen
         /\ Merge(x, y).errors = x.errors \cup y.errors
<1>1. Merge(x, y) \in Outcomes
  BY DEF Merge, Whole, Outcomes, ExecutionStates
<1>2. IsFiniteSet(x.seen \cup y.seen)
  BY FS_Union DEF Whole
<1> QED
  BY <1>1, <1>2 DEF Merge, Whole

LEMMA LocalWhole ==
  ASSUME NEW s \in Skipped
  PROVE  Whole(LocalOutcome(s)) /\ LocalOutcome(s).seen = {} /\ LocalOutcome(s).errors = {}
         /\ LocalOutcome(s).state # "failed"
  BY FS_EmptySet DEF LocalOutcome, Whole, Outcomes, ExecutionStates, Skipped

LEMMA SkippedType == \A o : SkippedState(o) \in Skipped
  BY DEF SkippedState, Skipped

-----------------------------------------------------------------------------
(* The course of the plan.                                                 *)

CourseInv == TypeOK /\ Sound /\ Course

LEMMA CourseInit == Init => CourseInv
<1> SUFFICES ASSUME Init PROVE CourseInv
  OBVIOUS
<1>1. \A o \in Sources : /\ Whole(outcome[o]) /\ outcome[o].seen = {} /\ outcome[o].errors = {}
                         /\ outcome[o] = LocalOutcome(SkippedState(o))
  BY SkippedType, LocalWhole DEF Init
<1>2. request \in RequestType /\ request.clue \in Codes \cup Names
  BY RequestsAssumption DEF Init, RequestType
<1>3. First \in SUBSET Asks /\ IsFiniteSet(First)
  <2>1. First \in SUBSET Asks
    BY <1>2 DEF First, Asks
  <2>2. First \subseteq {<<"SSE", request.clue, 1>>, <<"SZSE", request.clue, 1>>,
                         <<Dictionary, request.clue, 1>>}
    BY DEF First, Sources, Official
  <2>3. IsFiniteSet({<<"SSE", request.clue, 1>>, <<"SZSE", request.clue, 1>>,
                     <<Dictionary, request.clue, 1>>})
    <3>1. IsFiniteSet({<<"SSE", request.clue, 1>>} \cup {<<"SZSE", request.clue, 1>>}
                      \cup {<<Dictionary, request.clue, 1>>})
      BY FS_Singleton, FS_Union
    <3>2. {<<"SSE", request.clue, 1>>} \cup {<<"SZSE", request.clue, 1>>}
            \cup {<<Dictionary, request.clue, 1>>}
          = {<<"SSE", request.clue, 1>>, <<"SZSE", request.clue, 1>>,
             <<Dictionary, request.clue, 1>>}
      OBVIOUS
    <3> QED
      BY <3>1, <3>2
  <2> QED
    BY <2>1, <2>2, <2>3, FS_Subset
<1>4. owed = (IF stage = "initial" THEN First ELSE {}) /\ asked = owed
  BY DEF Init, First
<1>5. stage = IF Precondition = "none" THEN "initial" ELSE "returned"
  BY DEF Init
<1>6. outcome \in [Sources -> Outcomes]
  BY <1>1 DEF Init, Whole
<1>7. TypeOK
  BY <1>3, <1>4, <1>5, <1>6, FS_EmptySet DEF TypeOK, Init, Stages
<1>8. Sound
  BY <1>1 DEF Sound, Whole, Seen, Sources
<1>9. Course
  BY <1>1, <1>3, <1>4, <1>5 DEF Course, Asks
<1> QED
  BY <1>7, <1>8, <1>9 DEF CourseInv

\* What an answer leaves of what is known.
LEMMA AnswerShape ==
  ASSUME CourseInv, NEW ask \in owed, Answer(ask)
  PROVE  /\ ask[1] \in Sources
         /\ \E new : /\ Whole(new) /\ Whole(Into(ask[1], new))
                     /\ outcome' = [outcome EXCEPT ![ask[1]] = Into(ask[1], new)]
                     /\ \E today \in BOOLEAN : \A row \in new.seen : row.today = today
         /\ \A o \in Sources : /\ Whole(outcome[o]) /\ Whole(outcome'[o])
                               /\ o # ask[1] => outcome'[o] = outcome[o]
                               /\ outcome[o].seen \subseteq outcome'[o].seen
                               /\ outcome[o].errors \subseteq outcome'[o].errors
         /\ stage = "followup" => ask[1] \in Official
         /\ stage \in {"initial", "followup"}
<1>1. ask \in Asks /\ ask[1] \in Sources /\ stage \in {"initial", "followup"}
  BY DEF CourseInv, TypeOK, Asks, Course
<1> DEFINE o == ask[1]
<1>2. PICK new \in Responses(o, ask[2]) : outcome' = [outcome EXCEPT ![o] = Into(o, new)]
  BY DEF Answer
<1>3. Whole(new) /\ \E today \in BOOLEAN : \A row \in new.seen : row.today = today
  BY <1>1, ResponseWhole
<1>4. \A p \in Sources : Whole(outcome[p])
  BY DEF CourseInv, TypeOK, Sound, Whole
<1>5. stage = "initial" => outcome[o].seen = {} /\ outcome[o].errors = {}
  <2>1. stage = "initial" => outcome[o] = LocalOutcome(SkippedState(o))
    BY DEF CourseInv, Course
  <2> QED
    BY <2>1, SkippedType, LocalWhole
<1>6. /\ Whole(Into(o, new))
      /\ outcome[o].seen \subseteq Into(o, new).seen
      /\ outcome[o].errors \subseteq Into(o, new).errors
  <2>1. CASE stage = "followup"
    BY <1>1, <1>3, <1>4, <2>1, MergeWhole DEF Into
  <2>2. CASE stage = "initial"
    BY <1>3, <1>5, <2>2 DEF Into
  <2> QED
    BY <1>1, <2>1, <2>2
<1>7. DOMAIN outcome = Sources
  BY DEF CourseInv, TypeOK
<1>8. stage = "followup" => o \in Official
  BY DEF CourseInv, Course
<1> HIDE DEF o
<1>9. \A p \in Sources : outcome'[p] = IF p = o THEN Into(o, new) ELSE outcome[p]
  BY <1>2, <1>7
<1> QED
  BY <1>1, <1>2, <1>3, <1>4, <1>6, <1>8, <1>9 DEF o

LEMMA AnswerCourse ==
  ASSUME CourseInv, NEW ask \in owed, Answer(ask)
  PROVE  CourseInv'
<1> DEFINE o == ask[1]
<1>1. /\ o \in Sources
      /\ \A p \in Sources : /\ Whole(outcome'[p])
                            /\ p # o => outcome'[p] = outcome[p]
      /\ stage = "followup" => o \in Official
      /\ stage \in {"initial", "followup"}
  BY AnswerShape
<1>2. PICK new : /\ outcome' = [outcome EXCEPT ![o] = Into(o, new)]
                 /\ Whole(Into(o, new))
                 /\ \E today \in BOOLEAN : \A row \in new.seen : row.today = today
  BY AnswerShape
<1>3. UNCHANGED <<request, stage, asked, late>> /\ owed' = owed \ {ask}
  BY DEF Answer
<1>4. TypeOK'
  BY <1>1, <1>2, <1>3 DEF CourseInv, TypeOK, Whole
<1>5. Sound'
  <2>1. \A p \in Sources : IsFiniteSet(outcome'[p].seen)
                           /\ (outcome'[p].state = "failed" <=> outcome'[p].errors # {})
    BY <1>1 DEF Whole
  <2>2. Seen({Dictionary}) = outcome[Dictionary].seen
        /\ Seen({Dictionary})' = outcome'[Dictionary].seen
    BY DEF Seen
  <2>3. \E today \in BOOLEAN : \A row \in outcome'[Dictionary].seen : row.today = today
    <3>1. CASE o # Dictionary
      BY <1>1, <2>2, <3>1 DEF CourseInv, Sound, Sources
    <3>2. CASE o = Dictionary
      <4>1. stage # "followup"
        BY <1>1, <3>2, DictionaryAssumption
      <4>2. outcome'[Dictionary] = new
        BY <1>1, <1>2, <3>2, <4>1 DEF Into, CourseInv, TypeOK
      <4> QED
        BY <1>2, <4>2
    <3> QED
      BY <3>1, <3>2
  <2> QED
    BY <2>1, <2>2, <2>3 DEF Sound
<1>6. Course'
  <2>1. Precondition' = Precondition /\ First' = First
    BY <1>3 DEF Precondition, First, Scheduled
  <2>2. stage' # "returned" /\ Precondition = "none"
    BY <1>1, <1>3 DEF CourseInv, Course
  <2>3. ASSUME stage = "initial", NEW a \in owed'
        PROVE  outcome'[a[1]] = LocalOutcome(SkippedState(a[1])')
    <3>1. a \in First /\ ask \in First /\ a # ask
      BY <1>3, <2>3 DEF CourseInv, Course, TypeOK
    <3>2. a[1] # o /\ a[1] \in Sources
      BY <3>1 DEF First
    <3>3. SkippedState(a[1])' = SkippedState(a[1])
      BY <1>3 DEF SkippedState, Scheduled
    <3>4. outcome[a[1]] = LocalOutcome(SkippedState(a[1]))
      BY <1>3, <2>3 DEF CourseInv, Course
    <3> QED
      BY <1>1, <3>2, <3>3, <3>4
  <2>4. stage = "initial" => asked = First
    BY DEF CourseInv, Course
  <2>5. stage = "followup" => \A a \in owed' : a[1] \in Official
    BY <1>3 DEF CourseInv, Course
  <2> QED
    BY <1>1, <1>3, <2>1, <2>2, <2>3, <2>4, <2>5 DEF Course
<1> QED
  BY <1>4, <1>5, <1>6 DEF CourseInv

\* A follow-up is asked of a list, for a code the dictionary saw.
LEMMA FollowupsType ==
  ASSUME NEW kept
  PROVE  /\ Followups(kept) \in SUBSET Asks /\ IsFiniteSet(Followups(kept))
         /\ \A ask \in Followups(kept) : ask[1] \in Official /\ ask[3] = 2
<1>1. Followups(kept) \subseteq Official \X Codes \X {2}
  BY DEF Followups
<1>2. IsFiniteSet(Official) /\ IsFiniteSet({2})
  <2>1. IsFiniteSet({"SSE"} \cup {"SZSE"})
    BY FS_Singleton, FS_Union
  <2>2. Official = {"SSE"} \cup {"SZSE"}
    BY DEF Official
  <2> QED
    BY <2>1, <2>2, FS_Singleton
<1> DEFINE three == {<<x[1], x[2], 2>> : x \in Official \X Codes}
           f == [x \in Official \X Codes |-> <<x[1], x[2], 2>>]
<1>3. IsFiniteSet(Official \X Codes)
  BY <1>2, CodesAssumption, FS_Product
<1>4. f \in Surjection(Official \X Codes, three)
  BY DEF Surjection
<1>5. IsFiniteSet(three)
  BY <1>3, <1>4, FS_Surjection
<1>6. ASSUME NEW ask \in Followups(kept)
      PROVE  ask \in three
  <2>1. ask = <<ask[1], ask[2], 2>> /\ ask[1] \in Official /\ ask[2] \in Codes
    BY <1>1
  <2>2. <<ask[1], ask[2]>> \in Official \X Codes
    BY <2>1
  <2> DEFINE x == <<ask[1], ask[2]>>
  <2>3. <<x[1], x[2], 2>> \in three
    BY <2>2
  <2> QED
    BY <2>1, <2>3
<1>7. IsFiniteSet(Followups(kept))
  BY <1>5, <1>6, FS_Subset
<1> QED
  BY <1>1, <1>7 DEF Asks, Sources

LEMMA RestCourse ==
  ASSUME CourseInv,
         \/ \E kept \in SUBSET CandidateKeys : Plan(kept)
         \/ ReturnLate \/ Return \/ Fold \/ UNCHANGED vars
  PROVE  CourseInv'
<1>1. UNCHANGED <<request, outcome>>
  BY DEF Plan, ReturnLate, Return, Fold, vars
<1>2. Precondition' = Precondition /\ First' = First /\ (\A o : SkippedState(o)' = SkippedState(o))
      /\ Seen({Dictionary})' = Seen({Dictionary})
  BY <1>1 DEF Precondition, First, Scheduled, SkippedState, Seen
<1>3. Sound'
  BY <1>1, <1>2 DEF CourseInv, Sound
<1>4. CASE \E kept \in SUBSET CandidateKeys : Plan(kept)
  <2>1. PICK kept \in SUBSET CandidateKeys : Plan(kept)
    BY <1>4
  <2> DEFINE more == Followups(kept)
  <2>2. /\ more \in SUBSET Asks /\ IsFiniteSet(more)
        /\ \A ask \in more : ask[1] \in Official /\ ask[3] = 2
    BY FollowupsType
  <2>3. /\ stage = "initial" /\ owed = {} /\ late' = late
        /\ \/ stage' \in {"raised", "returned"} /\ UNCHANGED <<asked, owed>>
           \/ stage' = "followup" /\ asked' = asked \cup more /\ owed' = more
    BY <2>1 DEF Plan, AllAnswered
  <2> HIDE DEF more
  <2>4. IsFiniteSet(asked \cup more)
    BY <2>2, FS_Union DEF CourseInv, TypeOK
  <2>5. TypeOK'
    BY <1>1, <2>2, <2>3, <2>4 DEF CourseInv, TypeOK, Stages
  <2>6. Precondition = "none"
    BY <2>3 DEF CourseInv, Course
  <2>7. Course'
    BY <1>2, <2>2, <2>3, <2>6 DEF Course
  <2> QED
    BY <1>3, <2>5, <2>7 DEF CourseInv
<1>5. CASE ReturnLate \/ Return
  <2>1. /\ stage \in {"initial", "followup"} /\ stage' = "returned" /\ owed = {}
        /\ UNCHANGED <<asked, owed>> /\ late' \in BOOLEAN
    BY <1>5 DEF ReturnLate, Return, AllAnswered, CourseInv, TypeOK
  <2>2. TypeOK'
    BY <1>1, <2>1 DEF CourseInv, TypeOK, Stages
  <2>3. Precondition = "none"
    BY <2>1 DEF CourseInv, Course
  <2>4. Course'
    BY <1>2, <2>1, <2>3 DEF Course
  <2> QED
    BY <1>3, <2>2, <2>4 DEF CourseInv
<1>6. CASE Fold \/ UNCHANGED vars
  <2>1. UNCHANGED <<request, stage, asked, owed, outcome, late>>
    BY <1>6 DEF Fold, vars
  <2>2. TypeOK' /\ Course'
    BY <1>2, <2>1 DEF CourseInv, TypeOK, Course
  <2> QED
    BY <1>3, <2>2 DEF CourseInv
<1> QED
  BY <1>4, <1>5, <1>6

LEMMA CourseStep == CourseInv /\ [Next]_vars => CourseInv'
  BY AnswerCourse, RestCourse DEF Next

-----------------------------------------------------------------------------
(* What was looked for.                                                    *)

LEMMA PairMin ==
  ASSUME NEW a \in Nat, NEW b \in Nat, b <= a
  PROVE  Min({a, b}) = b
<1>1. \E x \in {a, b} : \A y \in {a, b} : x <= y
  OBVIOUS
<1> QED
  BY <1>1 DEF Min

LEMMA PairMax ==
  ASSUME NEW a \in Nat, NEW b \in Nat
  PROVE  Max({a, b}) \in {a, b} /\ Max({a, b}) >= a /\ Max({a, b}) >= b
<1>1. \E x \in {a, b} : \A y \in {a, b} : x >= y
  OBVIOUS
<1> QED
  BY <1>1 DEF Max

LEMMA LimitType == CandidateLimit \in Nat
<1> DEFINE a == MaxRequests["SSE"] - 1
           b == MaxRequests["SZSE"] - 1
<1>1. a \in Nat /\ b \in Nat
  BY LimitsAssumption DEF Official
<1>2. {MaxRequests[o] - 1 : o \in Official} = {a, b}
  BY DEF Official
<1>3. {a, b} = {b, a}
  OBVIOUS
<1> HIDE DEF a, b
<1>4. Min({a, b}) \in Nat
  BY <1>1, <1>3, PairMin
<1> QED
  BY <1>2, <1>4 DEF CandidateLimit

LEMMA KeysType ==
  ASSUME NEW rows \in SUBSET AllRows
  PROVE  /\ Keys(rows) \subseteq Exchanges \X Codes
         /\ IsFiniteSet(Keys(rows)) /\ Cardinality(Keys(rows)) \in Nat
<1>1. Keys(rows) \subseteq Exchanges \X Codes
  BY DEF Keys, Key, AllRows
<1>2. IsFiniteSet(Exchanges)
  <2>1. IsFiniteSet({"SSE"} \cup {"SZSE"} \cup {"BSE"} \cup {NoExchange})
    BY FS_Singleton, FS_Union
  <2>2. Exchanges = {"SSE"} \cup {"SZSE"} \cup {"BSE"} \cup {NoExchange}
    BY DEF Exchanges, Official
  <2> QED
    BY <2>1, <2>2
<1>3. IsFiniteSet(Exchanges \X Codes)
  BY <1>2, CodesAssumption, FS_Product
<1> QED
  BY <1>1, <1>3, FS_Subset, FS_CardinalityType

LEMMA SeenType ==
  ASSUME CourseInv
  PROVE  /\ Seen({Dictionary}) \in SUBSET AllRows /\ Seen(Official) \in SUBSET AllRows
         /\ Seen({Dictionary}) = outcome[Dictionary].seen
  BY DEF CourseInv, TypeOK, Outcomes, Seen, Sources

\* Follow-ups look for every candidate, unless there are too many or a list failed.
LEMMA PlanChecks ==
  ASSUME CourseInv, NEW kept \in SUBSET CandidateKeys, Plan(kept)
  PROVE  Checked'
<1> DEFINE K == Keys(Seen({Dictionary}))
           more == Followups(kept)
<1>1. UNCHANGED <<request, outcome>>
  BY DEF Plan
<1>2. /\ Seen({Dictionary})' = Seen({Dictionary}) /\ Seen(Official)' = Seen(Official)
      /\ Errors' = Errors
  BY <1>1 DEF Seen, Errors
<1>3. stage' \in {"followup", "returned"} => asked' = asked \cup more
  BY DEF Plan
<1>4. K \subseteq Exchanges \X Codes /\ IsFiniteSet(K) /\ Cardinality(K) \in Nat
  BY SeenType, KeysType
<1>5. CandidateKeys \subseteq K
  BY DEF CandidateKeys
<1>6. IsFiniteSet(CandidateKeys) /\ Cardinality(CandidateKeys) <= Cardinality(K)
      /\ Cardinality(CandidateKeys) \in Nat
  BY <1>4, <1>5, FS_Subset, FS_CardinalityType
<1>7. Cardinality(kept) = Min({CandidateLimit, Cardinality(CandidateKeys)})
  BY DEF Plan, Chosen
<1> SUFFICES ASSUME stage' \in {"followup", "returned"}, ~Errors,
                    ~(Cardinality(K) > CandidateLimit),
                    NEW key \in K
             PROVE  LookedFor(key)'
  BY <1>2 DEF Checked
<1>8. \A o \in Official : outcome[o].state # "failed"
  BY DEF CourseInv, Sound, Errors, Sources
<1>9. kept = CandidateKeys
  <2>1. Cardinality(kept) = Cardinality(CandidateKeys)
    BY <1>4, <1>6, <1>7, LimitType, PairMin
  <2> QED
    BY <1>6, <2>1, FS_Subset
<1>10. CASE \E row \in Seen(Official) : row.code = key[2]
  BY <1>2, <1>10 DEF LookedFor
<1>11. CASE ~(\E row \in Seen(Official) : row.code = key[2])
  <2>1. key \in kept /\ key[2] \in Codes
    BY <1>4, <1>9, <1>11 DEF CandidateKeys
  <2>2. \A o \in Official : key[1] \in {NoExchange, o} => <<o, key[2], 2>> \in more
    BY <1>8, <2>1 DEF Followups
  <2> HIDE DEF more, K
  <2> QED
    BY <1>3, <2>2 DEF LookedFor
<1> QED
  BY <1>10, <1>11

LEMMA CheckedStep ==
  ASSUME CourseInv, Checked, [Next]_vars
  PROVE  Checked'
<1>1. ASSUME NEW ask \in owed, Answer(ask)
      PROVE  Checked'
  <2>1. /\ ask[1] \in Sources /\ stage \in {"initial", "followup"}
        /\ \A o \in Sources : /\ o # ask[1] => outcome'[o] = outcome[o]
                              /\ outcome[o].seen \subseteq outcome'[o].seen
                              /\ outcome[o].errors \subseteq outcome'[o].errors
        /\ stage = "followup" => ask[1] \in Official
    BY <1>1, AnswerShape
  <2>2. UNCHANGED <<request, stage, asked, late>>
    BY <1>1 DEF Answer
  <2>3. CASE stage = "initial"
    BY <2>2, <2>3 DEF Checked
  <2>4. CASE stage = "followup"
    <3>1. Seen({Dictionary})' = Seen({Dictionary})
      BY <2>1, <2>4, DictionaryAssumption DEF Seen, Sources
    <3>2. Seen(Official) \subseteq Seen(Official)'
      BY <2>1 DEF Seen, Sources
    <3>3. Errors => Errors'
      BY <2>1 DEF Errors
    <3>4. \A key : LookedFor(key) => LookedFor(key)'
      BY <2>2, <3>2 DEF LookedFor
    <3>5. Precondition' = Precondition
      BY <2>2 DEF Precondition
    <3>6. /\ \A key \in Keys(Seen({Dictionary})) : LookedFor(key) => LookedFor(key)'
          /\ Keys(Seen({Dictionary})') = Keys(Seen({Dictionary}))
      BY <3>1, <3>4
    <3> QED
      BY <2>2, <3>1, <3>3, <3>5, <3>6 DEF Checked
  <2> QED
    BY <2>1, <2>3, <2>4
<1>2. ASSUME NEW kept \in SUBSET CandidateKeys, Plan(kept)
      PROVE  Checked'
  BY <1>2, PlanChecks
<1>3. ASSUME UNCHANGED <<request, outcome, asked>>
      PROVE  /\ Seen({Dictionary})' = Seen({Dictionary}) /\ Seen(Official)' = Seen(Official)
             /\ Errors' = Errors /\ Precondition' = Precondition
             /\ \A key : LookedFor(key)' <=> LookedFor(key)
  BY <1>3 DEF Seen, Errors, Precondition, LookedFor
<1>4. CASE ReturnLate
  <2>1. /\ UNCHANGED <<request, outcome, asked>> /\ late' = (CandidateKeys # {})
    BY <1>4 DEF ReturnLate
  <2>2. CandidateKeys = {} => \A key \in Keys(Seen({Dictionary})) : LookedFor(key)
    BY DEF CandidateKeys, LookedFor
  <2> QED
    BY <1>3, <2>1, <2>2 DEF Checked
<1>5. CASE Return
  <2>1. UNCHANGED <<request, outcome, asked, late>> /\ stage = "followup" /\ stage' = "returned"
    BY <1>5 DEF Return
  <2> QED
    BY <1>3, <2>1 DEF Checked
<1>6. CASE Fold \/ UNCHANGED vars
  <2>1. UNCHANGED <<request, outcome, asked, late, stage>>
    BY <1>6 DEF Fold, vars
  <2> QED
    BY <1>3, <2>1 DEF Checked
<1> QED
  BY <1>1, <1>2, <1>4, <1>5, <1>6 DEF Next

\* A claim or refusal stands: nothing happens after the fold.
LEMMA DecisionStays ==
  ASSUME UNCHANGED <<request, outcome>>
  PROVE  Decision' = Decision
<1>1. /\ Seen({Dictionary})' = Seen({Dictionary}) /\ Seen(Official)' = Seen(Official)
      /\ Errors' = Errors /\ Precondition' = Precondition
  BY DEF Seen, Errors, Precondition
<1>2. Supporting' = Supporting /\ Corroborating' = Corroborating
  BY <1>1 DEF Supporting, Corroborating
<1>3. \A row : Conflicting(row)' <=> Conflicting(row)
  BY <1>2 DEF Conflicting
<1>4. (BoundaryExceeded' <=> BoundaryExceeded) /\ Candidates' = Candidates
  BY <1>2, <1>3 DEF BoundaryExceeded, Candidates
<1>5. \A row : Claim(row)' = Claim(row)
  BY <1>2 DEF Claim
<1>6. \A row : Limits(row)' = Limits(row)
  BY <1>1, <1>5 DEF Limits
<1>7. \A status, claim, reasons : Decided(status, claim, reasons)' = Decided(status, claim, reasons)
  BY DEF Decided
<1> QED
  BY <1>1, <1>2, <1>3, <1>4, <1>5, <1>6, <1>7 DEF Decision, Blocked

LEMMA FoldedStep ==
  ASSUME CourseInv, Folded, [Next]_vars
  PROVE  Folded'
<1>1. CASE Fold \/ UNCHANGED vars
  <2>1. UNCHANGED <<request, outcome, stage>> /\ (result' = result \/ (stage = "returned" /\ result' = Decision))
    BY <1>1 DEF Fold, vars
  <2> QED
    BY <2>1, DecisionStays DEF Folded
<1>2. CASE \/ \E ask \in owed : Answer(ask)
           \/ \E kept \in SUBSET CandidateKeys : Plan(kept)
           \/ ReturnLate \/ Return
  <2>1. stage \in {"initial", "followup"} /\ result' = result
    BY <1>2 DEF CourseInv, Course, Answer, Plan, ReturnLate, Return
  <2> QED
    BY <2>1 DEF Folded
<1> QED
  BY <1>1, <1>2 DEF Next

LEMMA IdentityInvariant == Spec => []IdentityInv
<1>1. Init => Checked /\ Folded
  BY DEF Init, Checked, Folded
<1>2. CourseInv /\ Checked /\ Folded /\ [Next]_vars => Checked' /\ Folded'
  BY CheckedStep, FoldedStep
<1>3. IdentityInv <=> CourseInv /\ Checked /\ Folded
  BY DEF IdentityInv, CourseInv
<1> QED
  BY <1>1, <1>2, <1>3, CourseInit, CourseStep, PTL DEF Spec

-----------------------------------------------------------------------------
(* What a decision rests on.                                               *)

LEMMA AllLookedFor ==
  ASSUME IdentityInv, stage = "returned", Precondition = "none", ~late, ~Errors,
         ~BoundaryExceeded, NEW key \in Keys(Corroborating)
  PROVE  LookedFor(key)
<1> DEFINE D  == Seen({Dictionary})
           KC == Keys(Corroborating)
           A  == {row.code : row \in Supporting}
           B  == {k[2] : k \in KC}
<1>1. CourseInv
  BY DEF IdentityInv, CourseInv
<1>2. D \in SUBSET AllRows /\ IsFiniteSet(KC) /\ Cardinality(KC) \in Nat
  <2>1. D \in SUBSET AllRows /\ Corroborating \in SUBSET AllRows
    BY <1>1, SeenType DEF Corroborating, Adopted
  <2> QED
    BY <2>1, KeysType
<1>3. KC = Keys(D)
  <2>1. PICK today \in BOOLEAN : \A row \in D : row.today = today
    BY DEF IdentityInv, Sound
  <2>2. PICK r \in Corroborating : TRUE
    BY DEF Keys
  <2>3. today = TRUE
    BY <2>1, <2>2 DEF Corroborating, Adopted
  <2> QED
    BY <2>1, <2>3 DEF Keys, Corroborating, Adopted
<1>4. CASE \A k \in Keys(D) : LookedFor(k)
  BY <1>3, <1>4
<1>5. CASE Cardinality(KC) > CandidateLimit
  <2> DEFINE f == [k \in KC |-> k[2]]
  <2>1. f \in Surjection(KC, B)
    BY DEF Surjection
  <2>2. IsFiniteSet(B) /\ Cardinality(B) <= Cardinality(KC)
    BY <1>2, <2>1, FS_Surjection
  <2>3. /\ A \cap B \subseteq B
        /\ Cardinality(A \cap B) <= Cardinality(B)
        /\ Cardinality(A \cap B) \in Nat /\ Cardinality(B) \in Nat
        /\ Cardinality(A \cap B) = Cardinality(B) => A \cap B = B
    <3>1. A \cap B \in SUBSET B
      OBVIOUS
    <3> QED
      BY <2>2, <3>1, FS_Subset, FS_CardinalityType
  <2>4. ~(Cardinality(KC) > Max({CandidateLimit, Cardinality(A \cap B)}))
    BY DEF BoundaryExceeded
  <2>5. A \cap B = B
    <3> DEFINE m == Cardinality(A \cap B)
               b == Cardinality(B)
               n == Cardinality(KC)
    <3>1. /\ m \in Nat /\ b \in Nat /\ n \in Nat /\ m <= b /\ b <= n
          /\ n > CandidateLimit /\ ~(n > Max({CandidateLimit, m}))
      BY <1>2, <1>5, <2>2, <2>3, <2>4
    <3> HIDE DEF m, b, n
    <3>2. m = b
      BY <3>1, LimitType, PairMax
    <3> QED
      BY <2>3, <3>2 DEF m, b
  <2>6. key[2] \in A
    BY <2>5
  <2>7. Supporting \subseteq Seen(Official)
    BY DEF Supporting, Adopted
  <2> QED
    BY <2>6, <2>7 DEF LookedFor
<1> QED
  BY <1>3, <1>4, <1>5 DEF IdentityInv, Checked

\* A plain decision was made with nothing barred, failed or beyond the bound.
LEMMA PlainDecision ==
  ASSUME Folded, Plain
  PROVE  stage = "returned" /\ Precondition = "none" /\ ~Errors /\ ~BoundaryExceeded
<1>1. result = Decision /\ stage = "returned"
  BY DEF Folded, Plain
<1>2. Precondition # "identity_not_resolved"
  BY DEF Precondition
<1>3. CASE result.claim = NoClaim
  <2>1. "identity_not_resolved" \in result.reasons
    BY <1>3 DEF Plain
  <2> QED
    BY <1>1, <1>2, <1>3, <2>1 DEF Decision, Blocked, Decided, Limits
<1>4. CASE result.claim # NoClaim
  <2>1. \E row : result = Decided("limited", Claim(row), Limits(row))
        /\ Precondition = "none" /\ ~BoundaryExceeded
    BY <1>1, <1>4 DEF Decision, Blocked, Decided
  <2>2. \/ "identity_source_partially_failed" \notin result.reasons
        \/ "identity_not_resolved" \in result.reasons
    BY DEF Plain
  <2> QED
    BY <1>1, <2>1, <2>2 DEF Decided, Limits
<1> QED
  BY <1>3, <1>4

\* No candidate is forgotten: every security the dictionary saw on the day was
\* seen by an official list, asked of each list that could hold it, or the
\* decision says that something is missing.
THEOREM NoCandidateIsForgotten == Spec => []NoUncheckedCandidate
<1>1. IdentityInv => NoUncheckedCandidate
  BY AllLookedFor, PlainDecision DEF NoUncheckedCandidate, LookedFor, IdentityInv
<1> QED
  BY <1>1, IdentityInvariant, PTL

\* A claim is unanimous: no adopted record speaks against it.
THEOREM ClaimsAreUnanimous == Spec => []ClaimIsUnanimous
<1>1. ASSUME IdentityInv
      PROVE  ClaimIsUnanimous
  <2> SUFFICES ASSUME result # NoResult, result.claim # NoClaim
               PROVE  /\ \A row \in Supporting : row.code = result.claim.code
                      /\ \A row \in Supporting \cup Corroborating : row.code = result.claim.code =>
                           /\ row.name = result.claim.name
                           /\ row.exchange \in {NoExchange, result.claim.exchange}
                      /\ request.hint \in {NoExchange, result.claim.exchange}
    BY DEF ClaimIsUnanimous
  <2>1. result = Decision
    BY <1>1 DEF IdentityInv, Folded
  <2>2. /\ \A row \in Supporting : ~Conflicting(row)
        /\ ~(Cardinality(Candidates) > 1) /\ Candidates # {}
        /\ result.claim = Claim(CHOOSE row \in Candidates : TRUE)
    BY <2>1 DEF Decision, Blocked, Decided
  <2>3. Candidates = Supporting
    BY <2>2 DEF Candidates
  <2>4. IsFiniteSet(Candidates)
    <3>1. IsFiniteSet(outcome["SSE"].seen \cup outcome["SZSE"].seen)
      BY <1>1, FS_Union DEF IdentityInv, Sound, Sources, Official
    <3>2. Candidates \in SUBSET (outcome["SSE"].seen \cup outcome["SZSE"].seen)
      BY DEF Candidates, Supporting, Adopted, Seen, Official
    <3> QED
      BY <3>1, <3>2, FS_Subset
  <2>5. PICK row \in Candidates : Candidates = {row}
    <3>1. Cardinality(Candidates) \in Nat /\ Cardinality(Candidates) # 0
      BY <2>2, <2>4, FS_CardinalityType, FS_EmptySet
    <3>2. Cardinality(Candidates) = 1
      BY <2>2, <3>1
    <3> QED
      BY <2>4, <3>2, FS_Singleton
  <2>6. result.claim = Claim(row)
    BY <2>2, <2>5
  <2>7. /\ result.claim.code = row.code /\ result.claim.name = row.name
        /\ result.claim.exchange = row.exchange
    BY <2>6 DEF Claim
  <2>8. ~Conflicting(row) /\ Supporting = {row}
    BY <2>2, <2>3, <2>5
  <2> QED
    BY <2>7, <2>8 DEF Conflicting, Same
<1> QED
  BY <1>1, IdentityInvariant, PTL

-----------------------------------------------------------------------------
(* The research uses its plan as the contract allows.                      *)

\* What the contract sees.
StageOf  == IF Precondition # "none" /\ result = NoResult THEN "initial" ELSE stage
BoundOf  == [o \in Sources |-> IF Precondition # "none" \/ ~Scheduled(o) THEN 0
                               ELSE IF o \in Official THEN MaxRequests[o] ELSE 1]
AskedOf  == [o \in Sources |-> Count(asked, o)]
OwedOf   == [o \in Sources |-> Count(owed, o)]
FailedOf == [o \in Sources |-> outcome[o].state = "failed"]

LEMMA CountType ==
  ASSUME NEW S, IsFiniteSet(S), NEW o
  PROVE  /\ Count(S, o) \in Nat /\ IsFiniteSet({ask \in S : ask[1] = o})
         /\ Count({}, o) = 0
<1>1. {ask \in S : ask[1] = o} \in SUBSET S /\ {ask \in {} : ask[1] = o} = {}
  OBVIOUS
<1> QED
  BY <1>1, FS_Subset, FS_CardinalityType, FS_EmptySet DEF Count

LEMMA CountRemove ==
  ASSUME NEW S, IsFiniteSet(S), NEW x \in S
  PROVE  /\ Count(S \ {x}, x[1]) = Count(S, x[1]) - 1 /\ Count(S, x[1]) > 0
         /\ \A o : o # x[1] => Count(S \ {x}, o) = Count(S, o)
<1> DEFINE T == {ask \in S : ask[1] = x[1]}
<1>1. IsFiniteSet(T) /\ x \in T
  BY CountType
<1>2. {ask \in S \ {x} : ask[1] = x[1]} = T \ {x}
  OBVIOUS
<1>3. Cardinality(T \ {x}) = Cardinality(T) - 1
  BY <1>1, FS_RemoveElement
<1>4. Cardinality(T) # 0 /\ Cardinality(T) \in Nat
  BY <1>1, FS_EmptySet, FS_CardinalityType
<1>5. ASSUME NEW o, o # x[1]
      PROVE  {ask \in S \ {x} : ask[1] = o} = {ask \in S : ask[1] = o}
  BY <1>5
<1>6. Count(S \ {x}, x[1]) = Cardinality(T \ {x}) /\ Count(S, x[1]) = Cardinality(T)
  BY <1>2 DEF Count
<1>7. \A o : o # x[1] => Count(S \ {x}, o) = Count(S, o)
  BY <1>5 DEF Count
<1> HIDE DEF T
<1> QED
  BY <1>3, <1>4, <1>6, <1>7

LEMMA CountMore ==
  ASSUME NEW S, IsFiniteSet(S), NEW T, IsFiniteSet(T), S \cap T = {}, NEW o
  PROVE  Count(S \cup T, o) = Count(S, o) + Count(T, o)
<1> DEFINE A == {ask \in S : ask[1] = o}
           B == {ask \in T : ask[1] = o}
<1>1. IsFiniteSet(A) /\ IsFiniteSet(B) /\ Cardinality(A) \in Nat /\ Cardinality(B) \in Nat
  BY CountType, FS_CardinalityType
<1>2. {ask \in S \cup T : ask[1] = o} = A \cup B /\ A \cap B = {}
  OBVIOUS
<1>3. Cardinality(A \cup B) = Cardinality(A) + Cardinality(B) - Cardinality({})
  <2> HIDE DEF A, B
  <2> QED
    BY <1>1, <1>2, FS_Union
<1>4. Count(S \cup T, o) = Cardinality(A \cup B)
  BY <1>2 DEF Count
<1>5. Count(S, o) = Cardinality(A) /\ Count(T, o) = Cardinality(B) /\ Cardinality({}) = 0
  BY FS_EmptySet DEF Count
<1> HIDE DEF A, B
<1> QED
  BY <1>1, <1>3, <1>4, <1>5

\* Every scheduled source is asked once at first.
LEMMA CountFirst ==
  ASSUME NEW o \in Sources
  PROVE  Count(First, o) = IF Scheduled(o) THEN 1 ELSE 0
<1>1. {ask \in First : ask[1] = o} = IF Scheduled(o) THEN {<<o, request.clue, 1>>} ELSE {}
  BY DEF First
<1> QED
  BY <1>1, FS_Singleton, FS_EmptySet DEF Count

LEMMA BoundType == BoundOf \in [Sources -> Nat] /\ \A o \in Sources : BoundOf[o] =
  IF Precondition # "none" \/ ~Scheduled(o) THEN 0 ELSE IF o \in Official THEN MaxRequests[o] ELSE 1
<1>1. \A o \in Official : MaxRequests[o] \in Nat
  BY LimitsAssumption
<1> QED
  BY <1>1 DEF BoundOf

LEMMA ContractInit ==
  ASSUME Init
  PROVE  Contract!Init
<1>1. CourseInv
  BY CourseInit
<1>2. StageOf = "initial" /\ asked = owed
  BY DEF Init, StageOf
<1>3. \A o \in Sources : AskedOf[o] = IF BoundOf[o] > 0 THEN 1 ELSE 0
  <2> SUFFICES ASSUME NEW o \in Sources
               PROVE  Count(asked, o) = IF BoundOf[o] > 0 THEN 1 ELSE 0
    BY DEF AskedOf
  <2>1. CASE Precondition = "none"
    <3>1. asked = First
      BY <2>1 DEF Init, First
    <3>2. o \in Official => MaxRequests[o] \in Nat \ {0}
      BY LimitsAssumption
    <3> QED
      BY <2>1, <3>1, <3>2, CountFirst, BoundType
  <2>2. CASE Precondition # "none"
    <3>1. asked = {}
      BY <2>2 DEF Init
    <3> QED
      BY <2>2, <3>1, CountType, FS_EmptySet, BoundType
  <2> QED
    BY <2>1, <2>2
<1>4. AskedOf = [o \in Sources |-> IF BoundOf[o] > 0 THEN 1 ELSE 0]
  <2>1. AskedOf = [o \in Sources |-> AskedOf[o]]
    BY DEF AskedOf
  <2> HIDE DEF AskedOf
  <2> QED
    BY <1>3, <2>1
<1>5. OwedOf = AskedOf
  BY <1>2 DEF OwedOf, AskedOf
<1>6. FailedOf = [o \in Sources |-> FALSE]
  <2>1. \A o \in Sources : FailedOf[o] = FALSE
    BY SkippedType, LocalWhole DEF Init, FailedOf
  <2>2. FailedOf = [o \in Sources |-> FailedOf[o]]
    BY DEF FailedOf
  <2> HIDE DEF FailedOf
  <2> QED
    BY <2>1, <2>2
<1> QED
  BY <1>2, <1>4, <1>5, <1>6, BoundType
  DEF Contract!Init, StageOf, BoundOf, AskedOf, OwedOf, FailedOf

LEMMA AnswerMeets ==
  ASSUME CourseInv, NEW ask \in owed, Answer(ask)
  PROVE  Contract!Answer
<1> DEFINE o == ask[1]
<1>1. /\ o \in Sources /\ stage \in {"initial", "followup"}
      /\ \A p \in Sources : /\ Whole(outcome[p]) /\ Whole(outcome'[p])
                            /\ p # o => outcome'[p] = outcome[p]
                            /\ outcome[p].errors \subseteq outcome'[p].errors
  BY AnswerShape
<1>2. UNCHANGED <<request, stage, asked, result>> /\ owed' = owed \ {ask}
  BY DEF Answer
<1>3. Precondition = "none" /\ Precondition' = Precondition
  BY <1>1, <1>2 DEF CourseInv, Course, Precondition
<1>4. UNCHANGED <<StageOf, BoundOf, AskedOf>> /\ StageOf \in {"initial", "followup"}
  BY <1>1, <1>2, <1>3 DEF StageOf, BoundOf, AskedOf, Count, Scheduled
<1>5. IsFiniteSet(owed)
  BY FS_Subset DEF CourseInv, TypeOK
<1>6. /\ \A p \in Sources : Count(owed, p) \in Nat
      /\ Count(owed', o) = Count(owed, o) - 1 /\ Count(owed, o) > 0
      /\ \A p \in Sources : p # o => Count(owed', p) = Count(owed, p)
  BY <1>2, <1>5, CountRemove, CountType
<1>7. /\ DOMAIN OwedOf = Sources /\ DOMAIN OwedOf' = Sources
      /\ \A p \in Sources : OwedOf[p] = Count(owed, p) /\ OwedOf'[p] = Count(owed', p)
  BY DEF OwedOf, Count
<1>8. /\ DOMAIN FailedOf' = Sources
      /\ \A p \in Sources : /\ FailedOf'[p] \in BOOLEAN
                            /\ FailedOf[p] => FailedOf'[p]
                            /\ p # o => FailedOf'[p] = FailedOf[p]
  <2>1. \A p \in Sources : /\ FailedOf[p] <=> outcome[p].errors # {}
                           /\ FailedOf'[p] <=> outcome'[p].errors # {}
    BY <1>1 DEF FailedOf, Whole
  <2>2. DOMAIN FailedOf' = Sources /\ \A p \in Sources : FailedOf'[p] \in BOOLEAN
    BY DEF FailedOf
  <2>3. \A p \in Sources : p # o => FailedOf'[p] = FailedOf[p]
    BY <1>1 DEF FailedOf
  <2> QED
    BY <1>1, <2>1, <2>2, <2>3
<1> HIDE DEF o
<1>9. OwedOf' # OwedOf /\ \A p \in Sources : OwedOf'[p] \in 0..OwedOf[p]
  BY <1>1, <1>6, <1>7
<1>10. \A p \in Sources : OwedOf'[p] = OwedOf[p] => FailedOf'[p] = FailedOf[p]
  BY <1>1, <1>6, <1>7, <1>8
<1> QED
  BY <1>4, <1>7, <1>8, <1>9, <1>10
  DEF Contract!Answer, Contract!Running, StageOf, BoundOf, AskedOf, OwedOf, FailedOf

\* The contract sees no change of what it does not speak of.
LEMMA SameContract ==
  ASSUME UNCHANGED <<request, outcome>>
  PROVE  UNCHANGED <<BoundOf, FailedOf>> /\ Precondition' = Precondition
  BY DEF BoundOf, FailedOf, Precondition, Scheduled

LEMMA NothingLeft ==
  ASSUME owed = {}
  PROVE  \A o \in Sources : OwedOf[o] = 0
  BY CountType, FS_EmptySet DEF OwedOf

LEMMA PlanMeets ==
  ASSUME CourseInv, NEW kept \in SUBSET CandidateKeys, Plan(kept)
  PROVE  Contract!Followup \/ Contract!Return \/ Contract!Raise
<1> DEFINE more == Followups(kept)
<1>1. /\ UNCHANGED <<request, outcome, result>> /\ stage = "initial" /\ owed = {}
  BY DEF Plan, AllAnswered
<1>2. /\ UNCHANGED <<BoundOf, FailedOf>> /\ Precondition' = Precondition /\ Precondition = "none"
      /\ asked = First /\ \A o \in Sources : OwedOf[o] = 0
  BY <1>1, SameContract, NothingLeft DEF CourseInv, Course
<1>3. StageOf = "initial" /\ StageOf' = stage'
  BY <1>1, <1>2 DEF StageOf
<1>4. CASE stage' \in {"raised", "returned"} /\ UNCHANGED <<asked, owed>>
  <2>1. UNCHANGED <<AskedOf, OwedOf>>
    BY <1>4 DEF AskedOf, OwedOf, Count
  <2> QED
    BY <1>2, <1>3, <1>4, <2>1
    DEF Contract!Return, Contract!Raise, Contract!Running, Contract!NothingOwed,
      StageOf, BoundOf, AskedOf, OwedOf, FailedOf
<1>5. CASE WithinPlan(more) /\ stage' = "followup" /\ asked' = asked \cup more /\ owed' = more
  <2>1. /\ IsFiniteSet(more) /\ IsFiniteSet(asked)
        /\ \A a \in more : a[1] \in Official /\ a[3] = 2
    BY FollowupsType DEF CourseInv, TypeOK
  <2>2. asked \cap more = {}
    BY <1>2, <2>1 DEF First
  <2> HIDE DEF more
  <2>3. \A o \in Sources : /\ Count(asked', o) = Count(asked, o) + Count(more, o)
                           /\ Count(asked, o) \in Nat /\ Count(more, o) \in Nat
    <3> SUFFICES ASSUME NEW o \in Sources
                 PROVE  /\ Count(asked \cup more, o) = Count(asked, o) + Count(more, o)
                        /\ Count(asked, o) \in Nat /\ Count(more, o) \in Nat
      BY <1>5
    <3>1. Count(asked \cup more, o) = Count(asked, o) + Count(more, o)
      BY <2>1, <2>2, CountMore
    <3> QED
      BY <2>1, <3>1, CountType
  <2>4. ASSUME NEW o \in Sources
        PROVE  Count(asked', o) <= BoundOf[o]
    <3>1. CASE o \in Official
      <4>1. Count(asked', o) <= MaxRequests[o]
        BY <1>5, <3>1 DEF WithinPlan, Count
      <4>2. Scheduled(o)
        BY <3>1 DEF Scheduled
      <4> QED
        BY <1>2, <3>1, <4>1, <4>2, BoundType
    <3>2. CASE o \notin Official
      <4>1. {a \in more : a[1] = o} = {}
        BY <2>1, <3>2
      <4>2. Count(more, o) = 0
        BY <4>1, FS_EmptySet DEF Count
      <4>3. Count(asked, o) = IF Scheduled(o) THEN 1 ELSE 0
        BY <1>2, CountFirst
      <4> QED
        BY <1>2, <2>3, <3>2, <4>2, <4>3, BoundType
    <3> QED
      BY <3>1, <3>2
  <2>5. /\ DOMAIN AskedOf' = Sources
        /\ \A o \in Sources : AskedOf[o] = Count(asked, o) /\ AskedOf'[o] = Count(asked', o)
        /\ OwedOf' = [o \in Sources |-> Count(more, o)]
    BY <1>5 DEF AskedOf, OwedOf, Count
  <2>6. OwedOf' = [o \in Sources |-> AskedOf'[o] - AskedOf[o]]
    <3>1. \A o \in Sources : Count(more, o) = AskedOf'[o] - AskedOf[o]
      BY <2>3, <2>5
    <3> HIDE DEF AskedOf, OwedOf
    <3> QED
      BY <2>5, <3>1
  <2>7. \A o \in Sources : AskedOf'[o] \in AskedOf[o]..BoundOf[o]
    BY <2>3, <2>4, <2>5, BoundType
  <2> QED
    BY <1>2, <1>3, <1>5, <2>5, <2>6, <2>7
    DEF Contract!Followup, Contract!NothingOwed, StageOf, BoundOf, AskedOf, OwedOf, FailedOf
<1> QED
  BY <1>4, <1>5 DEF Plan

LEMMA ContractStep ==
  ASSUME CourseInv, [Next]_vars
  PROVE  [Contract!Next]_(Contract!plan)
<1>1. CASE ReturnLate \/ Return
  <2>1. /\ UNCHANGED <<request, outcome, result, asked, owed>> /\ stage \in {"initial", "followup"}
        /\ owed = {} /\ stage' = "returned"
    BY <1>1 DEF ReturnLate, Return, AllAnswered
  <2>2. /\ UNCHANGED <<BoundOf, FailedOf, AskedOf, OwedOf>> /\ Precondition = "none"
        /\ Precondition' = Precondition /\ \A o \in Sources : OwedOf[o] = 0
    BY <2>1, SameContract, NothingLeft DEF CourseInv, Course, AskedOf, OwedOf, Count
  <2>3. StageOf \in {"initial", "followup"} /\ StageOf' = "returned"
    BY <2>1, <2>2 DEF StageOf
  <2>4. Contract!Return
    BY <2>2, <2>3
    DEF Contract!Return, Contract!Running, Contract!NothingOwed,
      StageOf, BoundOf, AskedOf, OwedOf, FailedOf
  <2> QED
    BY <2>4 DEF Contract!Next
<1>2. CASE Fold \/ UNCHANGED vars
  <2>1. /\ UNCHANGED <<request, outcome, stage, asked, owed>>
        /\ result' = result \/ (stage = "returned" /\ result = NoResult)
    BY <1>2 DEF Fold, vars
  <2>2. /\ UNCHANGED <<BoundOf, FailedOf, AskedOf, OwedOf>> /\ Precondition' = Precondition
    BY <2>1, SameContract DEF AskedOf, OwedOf, Count
  <2>3. CASE StageOf' = StageOf
    BY <2>2, <2>3 DEF Contract!plan, StageOf, BoundOf, AskedOf, OwedOf, FailedOf
  <2>4. CASE StageOf' # StageOf
    <3>1. /\ StageOf = "initial" /\ StageOf' = "returned" /\ owed = {}
      BY <2>1, <2>2, <2>4 DEF StageOf, CourseInv, Course
    <3>2. \A o \in Sources : OwedOf[o] = 0
      BY <3>1, NothingLeft
    <3>3. Contract!Return
      BY <2>2, <3>1, <3>2
      DEF Contract!Return, Contract!Running, Contract!NothingOwed,
        StageOf, BoundOf, AskedOf, OwedOf, FailedOf
    <3> QED
      BY <3>3 DEF Contract!Next
  <2> QED
    BY <2>3, <2>4
<1> QED
  BY <1>1, <1>2, AnswerMeets, PlanMeets DEF Next, Contract!Next

\* Sources are asked once, follow-ups only when all have answered and within
\* the bound of each list, and a failure is never forgotten.
THEOREM ResearchUsesItsPlan == Spec => UsesContract
<1>1. Init => Contract!Init
  BY ContractInit
<1>2. CourseInv /\ [Next]_vars => [Contract!Next]_(Contract!plan)
  BY ContractStep
<1> QED
  BY <1>1, <1>2, CourseInit, CourseStep, PTL DEF Spec, UsesContract, Contract!Spec
=============================================================================
