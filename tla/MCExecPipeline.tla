--------------------------- MODULE MCExecPipeline ---------------------------
(* Instances of the pipeline. *)
EXTENDS ExecPipeline, TLC

CONSTANTS c1, c2

MCNormal == [c \in Calls |-> "normal"]
MCNoBinary == [c \in Calls |-> "empty"]
MCQueueName == [c \in Calls |-> "jobs"]
MCEmptyQueue == [c \in Calls |-> IF c = c1 THEN "jobs" ELSE "empty"]
MCBlankQueue == [c \in Calls |-> IF c = c1 THEN "jobs" ELSE "blank"]
MCExitCodes == {0, -1}
EnvletSymmetry == Permutations(Envlets)
=============================================================================
