--------------------------- MODULE ReportedPeriods ---------------------------
(***************************************************************************)
(* Report periods of the two valuations (valuation_inputs.py and           *)
(* automatic_valuation.py).  A period is the number of the quarter it ends *)
(* with; reports are cumulative, so the period of a quarter begins with    *)
(* the first quarter of its year, and every fourth one is a full year.     *)
(***************************************************************************)
EXTENDS Integers, FiniteSets, SequencesExt

FullYear(period) == period % 4 = 0
PriorFullYear(period) == 4 * ((period - 1) \div 4)
MatchingPrior(period) == period - 4

\* The periods whose profits are added, added and subtracted.
TtmPeriods(latest) ==
  IF FullYear(latest) THEN <<latest>>
  ELSE <<PriorFullYear(latest), latest, MatchingPrior(latest)>>

\* How often a quarter counts in a sum of such periods.
Quarters(period) == PriorFullYear(period) + 1 .. period
TimesCounted(quarter, periods) ==
  LET in(i) == IF quarter \in Quarters(periods[i]) THEN 1 ELSE 0 IN
    IF Len(periods) = 1 THEN in(1) ELSE in(1) + in(2) - in(3)

\* The four quarters that end with the latest, each once, and no other.
LastFourQuarters(periods, latest) ==
  \A q \in 1 .. latest + 4 :
    TimesCounted(q, periods) = IF latest - 4 < q /\ q <= latest THEN 1 ELSE 0
=============================================================================
