----------------------------- MODULE MCM1Report -----------------------------
EXTENDS M1Report

CONSTANTS c1, c2, t1, t2

Natural(pf, passed, legs) ==
  [pf |-> pf, stop |-> IF pf = "none" THEN "completed_natural" ELSE "parse_failure",
   capped |-> FALSE, passed |-> passed, reason |-> "none", legs |-> legs]

MCPass       == Natural("none", TRUE, <<"passed">>)
MCRed        == Natural("none", FALSE, <<"failed">>)
MCThrottled  == Natural("refused", FALSE, <<"failed">>)
MCRefused    == Natural("auth", FALSE, <<"failed">>)
MCIncapable  == Natural("none", FALSE, <<"incapable">>)
MCCappedPass == [MCPass EXCEPT !.stop = "max_rounds", !.capped = TRUE]

MCConds     == {c1, c2}
MCCorpus    == <<t1, t2>>
MCModelRuns == [c \in MCConds |-> IF c = c1 THEN {MCPass, MCThrottled, MCRefused}
                                  ELSE {MCCappedPass, MCIncapable}]
MCBaseRuns  == {MCRed, MCIncapable}
=============================================================================
