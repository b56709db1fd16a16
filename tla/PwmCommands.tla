------------------------------ MODULE PwmCommands ------------------------------
(***************************************************************************)
(* What the current controller promises the PWM: the order of its calls.   *)
(* It samples, starts the PWM once, samples, updates the duties for as     *)
(* long as it likes, and may stop at any time.  A stop is final.           *)
(*                                                                         *)
(* The two sides of the contract are MotorTasks, which shows that the      *)
(* controller keeps it, and PwmHandoff, which relies on it.                *)
(***************************************************************************)

VARIABLES
  stage,     \* "offset", "rcalc", "pi" or "error"
  on         \* the outputs were enabled last

vars == <<stage, on>>

Init == stage = "offset" /\ on = FALSE

\* The offset calibration ended: duties, dead time and enable are set.
Start == stage = "offset" /\ stage' = "rcalc" /\ on' = TRUE

\* The resistance is known: every iteration sets the duties from now on.
CloseLoop == stage = "rcalc" /\ stage' = "pi" /\ UNCHANGED on

Stop == stage' = "error" /\ on' = FALSE

Next == Start \/ CloseLoop \/ Stop

Spec == Init /\ [][Next]_vars
=============================================================================
