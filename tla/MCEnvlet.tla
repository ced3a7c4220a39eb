------------------------------ MODULE MCEnvlet ------------------------------
(* Workers and jobs of every kind. *)
EXTENDS Envlet, TLC

CONSTANTS j1, j2

MCKindOf == [j \in Jobs |-> IF j = j1 THEN "normal" ELSE "badCapture"]
=============================================================================
