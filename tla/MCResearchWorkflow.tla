------------------------- MODULE MCResearchWorkflow -------------------------
(***************************************************************************)
(* Leaf tasks as capital_events.py builds them: the identity operation of  *)
(* the security, if there is one, and a source; a claim over the identity  *)
(* and one over what the source found.  The comparison has the richer      *)
(* material of valuation: two sources, roles and calculations.             *)
(***************************************************************************)
EXTENDS ResearchWorkflow

Obl(operation, capability, experimental, roles) ==
  [operation |-> operation, capability |-> capability, experimental |-> experimental,
   roles |-> roles]
Needs(consumer, use, minimum, core) ==
  [consumer |-> consumer, use |-> use, minimum |-> minimum, core |-> core]
Over(kind, use, keys) == [kind |-> kind, use |-> use, over |-> keys]

\* How a source may end: in full, with errors that read alike, empty, or not run.
SourceOutcome(operation, row, end) ==
  CASE end = "full"    -> Outcome(operation, <<row>>, <<>>)
    [] end = "partial" -> Outcome(operation, <<row>>, <<"bad_row", "bad_row">>)
    [] end = "empty"   -> Outcome(operation, <<>>, <<>>)
    [] end = "dead"    -> Outcome(operation, <<>>, <<"unreachable">>)
    [] end = "skipped" -> [Outcome(operation, <<>>, <<>>) EXCEPT
                             !.state = "skipped_research_dependency", !.complete = FALSE]

\* A task about a security: unless its own identity step fails, the source is asked.
AboutSecurity(task, scope, end, experimental) ==
  LET known == end # "skipped"
      seen == Key(Unscoped, scope.subject)
      source == SourceOutcome(task, Key(scope, "row"), end) IN
    [plan |-> [task |-> task,
               obligations |-> <<Obl("identity", "security_identity", experimental,
                                     ("security_identity" :> "supporting")),
                                 Obl(task, task, experimental, (task :> "supporting"))>>,
               dependencies |-> {Needs(task, task, 1, TRUE)}
                 \cup IF known THEN {Needs("subject_identity", "security_identity", 1, TRUE)}
                      ELSE {}],
     outcomes |-> <<IF known THEN Outcome("identity", <<seen>>, <<>>)
                    ELSE Outcome("identity", <<>>, <<"unreachable">>), source>>,
     claims |-> (IF known THEN <<Over("subject_identity", "security_identity", <<seen>>)>>
                 ELSE <<>>)
                \o (IF source.seen = <<>> THEN <<>> ELSE <<Over(task, task, source.seen)>>),
     calculations |-> <<Over("coverage", task, source.seen)>>,
     conflicts |-> <<>>,
     limitations |-> IF experimental THEN <<CodeOnly("experimental_sources")>> ELSE <<>>]

\* A task about the market: the source alone.
AboutMarket(task, scope, end) ==
  LET source == SourceOutcome(task, Key(scope, "row"), end) IN
    [plan |-> [task |-> task, obligations |-> <<Obl(task, task, TRUE, (task :> "supporting"))>>,
               dependencies |-> {Needs(task, task, 1, TRUE)}],
     outcomes |-> <<source>>,
     claims |-> IF source.seen = <<>> THEN <<>> ELSE <<Over(task, task, source.seen)>>,
     calculations |-> <<>>, conflicts |-> <<>>,
     limitations |-> <<CodeOnly("experimental_sources")>>]

\* Two sources of one capability, one of them supporting on a condition only; a claim
\* and a calculation over what they found, which may disagree.
Comparison(scope, first, second, second_role, minimum, clash, experimental) ==
  LET a == SourceOutcome("prices", Key(scope, "price"), first)
      b == SourceOutcome("reports", Key(scope, "report"), second)
      both == a.seen \o b.seen IN
    [plan |-> [task |-> "valuation_compare",
               obligations |-> <<Obl("prices", "valuation", experimental,
                                     [pe |-> "supporting"]),
                                 Obl("reports", "valuation", experimental,
                                     [pe |-> second_role])>>,
               dependencies |-> {Needs("metrics", "pe", minimum, TRUE),
                                 Needs("ratio", "pe", 1, FALSE)}],
     outcomes |-> <<a, b>>,
     claims |-> IF both = <<>> THEN <<>> ELSE <<Over("metrics", "pe", both)>>,
     calculations |-> IF a.seen = <<>> THEN <<>> ELSE <<Over("ratio", "pe", a.seen)>>,
     conflicts |-> IF clash /\ Len(both) = 2
                   THEN <<[code |-> "conflict", over |-> both]>> ELSE <<>>,
     limitations |-> <<>>]

Ends == {"full", "partial", "empty", "dead"}

MCLeafInputs(row, scope) ==
  IF row.task = "valuation_compare"
  THEN {Comparison(scope, a, b, role, minimum, clash, experimental) :
          a \in Ends, b \in Ends,
          role \in {"supporting", "conditional_supporting", "contextual"},
          minimum \in {1, 2}, clash \in BOOLEAN, experimental \in BOOLEAN}
  ELSE IF scope.subject = NoSubject THEN {AboutMarket(row.task, scope, end) : end \in Ends}
  ELSE {AboutSecurity(row.task, scope, end, FALSE) :
          end \in {"full", "skipped"} \cup
                   (IF row.task \in {"market_trend", "security_valuation"}
                    THEN {"partial"} ELSE {})}
       \cup (IF row.task = "market_trend"
             THEN {AboutSecurity(row.task, scope, "full", TRUE)} ELSE {})
=============================================================================
