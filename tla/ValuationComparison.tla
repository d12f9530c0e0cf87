------------------------- MODULE ValuationComparison -------------------------
(***************************************************************************)
(* Several securities valued on one basis (build_valuation_comparison_     *)
(* result).  Each is valued alone, one after the other, by the execution   *)
(* that AutomaticValuation models; its outcome becomes a row.  A value     *)
(* that is refused ends the comparison.  If a row is valued, the rows are  *)
(* validated against the observations of each member                       *)
(* (_validate_comparison_domain_facts) before the comparison is returned.  *)
(*                                                                         *)
(* A member is the world its sources see; which observations an identity   *)
(* that is not resolved leaves behind is left out.                         *)
(***************************************************************************)
EXTENDS AutomaticValuation

CONSTANTS
  Comparisons,    \* sequences of worlds, of the securities requested
  NotCompared

ASSUME ComparisonsAssumption ==
  /\ \A c \in Comparisons :
       Len(c) \in Nat /\ DOMAIN c = 1 .. Len(c) /\ \A i \in DOMAIN c : IsWorld(c[i])
  /\ NotCompared # "returned"

VARIABLES
  members,
  rows,           \* of the members valued so far
  comparison      \* "returned" or "refused", when it is over

comparisonVars == <<members, rows, comparison>>

ComparisonInit == members \in Comparisons /\ rows = <<>> /\ comparison = NotCompared

-----------------------------------------------------------------------------
(* The execution of one member. *)

Execution(w) ==
  IF ClosedGates(w) = {} THEN Concluded(w)
  ELSE NotValued(CHOOSE why \in ClosedGates(w) : TRUE)

\* Whether some operation of the member failed, a selection that did not apply included.
IdentityAsked(w) == w.policy /\ w.classes = "one"
SomeOperationFailed(w) ==
  \/ IdentityAsked(w) /\ w.identity \in {"partly", "failed"}
  \/ /\ ClosedGates(w) = {}
     /\ \/ Failed \in {w.stock, w.statements, w.forecasts, w.official, w.second}
        \/ Selected(w) = {} \/ Forecasts(w) = <<>>

\* _valuation_member_material: a row names its security only from a claim, and of the
\* blocked executions only one that lacks the price makes a claim.
MemberRow(w) ==
  LET execution == Execution(w) IN
    [status |-> execution.status, why |-> execution.why,
     named |-> execution.why \in {"valued", "valuation_price_not_established"},
     price |-> execution.price, calculations |-> execution.calculations,
     metrics |-> [m \in MetricNames |->
                    IF m \in DOMAIN execution.metrics THEN execution.metrics[m]
                    ELSE "metric_unavailable"]]

-----------------------------------------------------------------------------
(* The validation of the rows. *)

\* _valuation_owned_facts expects a ratio, if only for want of shares, as soon as its own
\* choice of reports gives a positive denominator.
ExpectedMetricsHold(w, metrics) ==
  LET expected == IF w.stock = Failed THEN "shares_unavailable" ELSE "calculated" IN
    /\ Positive(OwnedTtm(w)) => metrics["pe_ttm"] = expected
    /\ Positive(OwnedEquity(w)) => metrics["pb_mrq"] = expected

RowAccepted(w, row) ==
  IF row.calculations # {}
  THEN row.status = "limited" /\ ExpectedMetricsHold(w, row.metrics)
  ELSE /\ row.status = "blocked" /\ SomeOperationFailed(w)
       /\ row.why = "security_identity_not_resolved" \/ row.named

-----------------------------------------------------------------------------
\* Mutant: rows are put before those of earlier members.
CompareNextFirst ==
  /\ comparison = NotCompared /\ Len(rows) < Len(members)
  /\ LET row == MemberRow(members[Len(rows) + 1]) IN
       IF row.status = "refused"
       THEN comparison' = "refused" /\ UNCHANGED rows
       ELSE rows' = <<row>> \o rows /\ UNCHANGED comparison
  /\ UNCHANGED members
CompareNext ==
  /\ comparison = NotCompared /\ Len(rows) < Len(members)
  /\ LET row == MemberRow(members[Len(rows) + 1]) IN
       IF row.status = "refused"
       THEN comparison' = "refused" /\ UNCHANGED rows
       ELSE rows' = Append(rows, row) /\ UNCHANGED comparison
  /\ UNCHANGED members

\* A comparison of which no row is valued is a diagnosis, whose rows are not validated.
Fold ==
  /\ comparison = NotCompared /\ Len(rows) = Len(members)
  /\ comparison' =
       IF (\E i \in DOMAIN rows : rows[i].status # "blocked")
          /\ (\E i \in DOMAIN rows : ~RowAccepted(members[i], rows[i]))
       THEN "refused" ELSE "returned"
  /\ UNCHANGED <<members, rows>>

ComparisonNext == CompareNext \/ Fold
ComparisonSpec == ComparisonInit /\ [][ComparisonNext]_comparisonVars

-----------------------------------------------------------------------------
(* Properties. *)

\* The rows of a comparison that is returned are those of the requested securities, all of
\* them and each in its place: the price of a row is the true last close of its security
\* if one source of closes tells the truth, and its figures are its calculations.
ComparedRowsAreTheirs ==
  comparison = "returned" =>
    /\ Len(rows) = Len(members)
    /\ \A i \in DOMAIN rows :
         LET w == members[i] IN
           /\ {m \in MetricNames : rows[i].metrics[m] = "calculated"} = rows[i].calculations
           /\ (Truthful(w, w.official) \/ Truthful(w, w.second)) =>
                \A close \in rows[i].price :
                  /\ close.day = Max(CompletedDays(w))
                  /\ close.price = w.closes[close.day]

\* Every requested row is in the comparison, with a blocked identity or a missing forecast
\* explicit in the row (references/valuation-methodology.md:72).  The validations refuse
\* whole comparisons instead: checked as a violation.
EveryRowIsKept == comparison # NotCompared => comparison = "returned" /\ Len(rows) = Len(members)
=============================================================================
