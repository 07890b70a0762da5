--------------------------- MODULE MCWorldTrials ---------------------------
(* WorldTrials: the tasks of MCTicketTrial and the tree of MCOracleGrading. *)
EXTENDS WorldTrials, MCOracleGrading, MCTicketTrial
=============================================================================
