---------------------------- MODULE MCEngineLoop ----------------------------
(* A small instance of EngineLoop: two valid configurations with different push *)
(* intervals, one that does not parse.                                          *)
EXTENDS EngineLoop

MCPeriod == [v \in Valid |-> [t \in Timers |-> IF v = "B" THEN 2 ELSE 1]]

=============================================================================
