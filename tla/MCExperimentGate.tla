--------------------------- MODULE MCExperimentGate ---------------------------
(* Small instances of ExperimentGate.                                        *)
EXTENDS ExperimentGate
CONSTANTS c1, c2
=============================================================================
