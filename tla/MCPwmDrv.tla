------------------------------- MODULE MCPwmDrv -------------------------------
(* Values of PwmDrv's constants for TLC. *)
EXTENDS PwmDrv

\* EpwmInc is 200, 100 and 300 of a period of 31250.
SmallIncrement == [p \in Phase |-> IF p = 0 THEN 2 ELSE IF p = 1 THEN 1 ELSE 3]
=============================================================================
