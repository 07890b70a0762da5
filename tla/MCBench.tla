------------------------------ MODULE MCBench ------------------------------
EXTENDS Bench

CONSTANTS default, planning, collision, fileA, fileB, condA, condB

Natural(pf, passed) ==
  [pf |-> pf, stop |-> IF pf = "none" THEN "completed_natural" ELSE "parse_failure",
   capped |-> FALSE, passed |-> passed, reason |-> "none", legs |-> <<>>]

MCPass      == Natural("none", TRUE)
MCMiss      == Natural("none", FALSE)
MCThrottled == Natural("refused", FALSE)
MCCapped    == [MCPass EXCEPT !.stop = "safety_cap", !.capped = TRUE]

\* Two configurations, and a third whose slug is the second's.
MCConfigs == {default, planning, collision}
MCCondOf  == [c \in MCConfigs |-> IF c = collision THEN condB ELSE condA]
MCFileOf  == [c \in MCConfigs |-> IF c = default THEN fileA ELSE fileB]
MCOrder   == <<fileA, fileB>>
MCHosted  == {fileA, fileB}
MCCorpus  == <<2, 1>>
MCOutcomes == [c \in MCConfigs |-> CASE c = default -> {MCPass, MCMiss}
                                     [] c = planning -> {MCPass, MCCapped}
                                     [] c = collision -> {MCThrottled}]
MCTierOf       == [t \in {1, 2} |-> IF t = 1 THEN "T1" ELSE "T3"]
MCCapabilityOf == [t \in {1, 2} |-> IF t = 1 THEN "search" ELSE "chain"]
=============================================================================
