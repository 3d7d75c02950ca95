--------------------------- MODULE MCLogicAnalyzer ---------------------------
(* Instances of LogicAnalyzer for TLC *)
EXTENDS LogicAnalyzer

EnvNone  == {}
EnvExit  == {"exit_busy"}
EnvEarly == {"overrun", "exit_busy"}
EnvAny   == Behaviours
=============================================================================
