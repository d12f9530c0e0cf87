------------------------- MODULE MCIdentityResearch -------------------------
(* Instances of IdentityResearch for TLC.                                  *)
EXTENDS IdentityResearch, TLC

Usable ==
  [clue : Codes \cup Names, hint : {NoExchange, "SSE"}, mode : {"standard", "fast"},
   experimental : {TRUE}, form : {"usable"}]
Barred ==
  [clue : Names, hint : {NoExchange, "BSE"}, mode : {"standard", "fast"},
   experimental : BOOLEAN, form : {"usable", "malformed", "bse_code"}]
SomeRequests ==
  Usable \cup {r \in Barred : ~r.experimental \/ r.form # "usable" \/ r.hint = "BSE"}

\* The policies of identity_sources.py.
ThreeEach == [o \in Official |-> 3]

SomeExchanges == {NoExchange, "SSE", "BSE"}

Symmetry == Permutations(Codes) \cup Permutations(Names)
=============================================================================
