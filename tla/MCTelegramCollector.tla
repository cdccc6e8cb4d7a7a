------------------------ MODULE MCTelegramCollector ------------------------
(* Instances of TelegramCollector for TLC. *)
EXTENDS TelegramCollector

CONSTANTS c1

\* Any two of an update, a crash, a shutdown and an unknown commit, or one of the others.
FaultWeight ==
  [e \in Event |-> IF e \in {"deliver", "crash", "shutdown", "unknown commit"} THEN 1 ELSE 2]
=============================================================================
