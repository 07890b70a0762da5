-------------------------- MODULE MCOracleGrading --------------------------
(* OracleGrading with two spellings of one name, two more names, and one    *)
(* name each that is not canonical, reserved, too long, and not encodable.  *)
(* A task has two node suites, one of which brings a file to a directory    *)
(* the model may write to and one a file at the root, or a pytest suite.    *)
EXTENDS OracleGrading

CONSTANTS low, up, lib, bad, reserved, long, text, surrogate, inLib, atRoot, tests

MCSegs == {low, up, lib, bad, reserved, long, surrogate}
MCCanon == [s \in MCSegs |-> IF s = up THEN low ELSE s]
MCPaths == {<<lib>>, <<lib, low>>, <<lib, up>>, <<lib, low, low>>, <<lib, reserved>>,
            <<low>>, <<up>>, <<long>>, <<surrogate>>, <<reserved>>, <<lib, bad>>}
MCReserved == {<<reserved>>}
MCOracle == [s \in {inLib, atRoot, tests} |-> IF s = tests THEN "pytest" ELSE "node"]
MCHeldOut == [s \in {inLib, atRoot, tests} |->
                IF s = inLib THEN {<<lib, low>>} ELSE {<<low>>}]
MCInitialTrees == {{}, {<<lib, low>>, <<low>>}}
=============================================================================
