--------------------------- MODULE MCOvertureRun ---------------------------
(* Instances of OvertureRun for TLC.                                        *)
EXTENDS OvertureRunProps, TLC

CONSTANTS f1, f2

Two    == <<"place", "segment">>
Mixed  == [f \in Writers |-> IF f = f1 THEN BOOLEAN ELSE {FALSE}]
MCKeys == [type : Types, cli : CliVersions]
=============================================================================
