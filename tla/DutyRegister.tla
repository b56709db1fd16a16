----------------------------- MODULE DutyRegister -----------------------------
(***************************************************************************)
(* What the duty-cycle handoff promises, without banks, words or places in *)
(* the code: a register of three duties that is set in one step, and PWM   *)
(* periods that sample it once and shape both edges of their pulses after  *)
(* that one sample.  A setter that keeps up with the periods never sets    *)
(* the register over a value no period has sampled.                        *)
(*                                                                         *)
(* Nothing makes the R5 keep up.  A period that samples while the R5 still *)
(* works is late: its pulses may mix values, but the edges still fit the   *)
(* half period with the dead time around them.                             *)
(*                                                                         *)
(* PwmHandoff implements this module.                                      *)
(***************************************************************************)
EXTENDS Integers

CONSTANTS Phases, PeriodHalf, DeadTicks, MinDuty, MaxDuty

VARIABLES
  register,   \* the duties set last
  sampled,    \* a period has sampled them
  sample,     \* the duties the last period sampled
  onTime,     \* the setter was idle when it was last asked for duties
  half,       \* how far the period is: see Next
  high,       \* when the high sides switch; Unset while that is recomputed
  low         \* when the low sides switch

vars == <<register, sampled, sample, onTime, half, high, low>>

Unset == [p \in Phases |-> 0]

Init ==
  /\ register = Unset /\ sampled = TRUE /\ sample = Unset /\ onTime = TRUE
  /\ half = "idle" /\ high = Unset /\ low = Unset

\* A whole set of duties, within the limits, replaces the one before it.
Set ==
  /\ onTime => sampled
  /\ register' \in [Phases -> MinDuty..MaxDuty]
  /\ sampled' = FALSE
  /\ UNCHANGED <<sample, onTime, half, high, low>>

\* Between periods the setter is asked for duties that no period waits for.
Ask ==
  /\ half = "idle"
  /\ onTime' \in BOOLEAN
  /\ UNCHANGED <<register, sampled, sample, half, high, low>>

\* A period begins.
Sample ==
  /\ half = "idle" /\ half' = "rising"
  /\ sample' = register /\ sampled' = TRUE
  /\ onTime' \in BOOLEAN
  /\ UNCHANGED <<register, high, low>>

\* The first half: low side off, dead time, high side on.
Rise ==
  /\ half = "rising" /\ half' = "first"
  /\ \A p \in Phases :
       /\ onTime => high'[p] = PeriodHalf - (sample[p] \div 2)
       /\ 0 < low'[p] /\ low'[p] + DeadTicks = high'[p] /\ high'[p] < PeriodHalf
  /\ UNCHANGED <<register, sampled, sample, onTime>>

\* The first half is over and its edges are replaced.
Turn ==
  /\ half = "first" /\ half' = "falling"
  /\ high' = Unset /\ low' = Unset
  /\ UNCHANGED <<register, sampled, sample, onTime>>

\* The second half: high side off, dead time, low side on.
Fall ==
  /\ half = "falling" /\ half' = "second"
  /\ \A p \in Phases :
       /\ onTime => high'[p] = sample[p] \div 2
       /\ 0 < high'[p] /\ high'[p] + DeadTicks = low'[p] /\ low'[p] < PeriodHalf
  /\ UNCHANGED <<register, sampled, sample, onTime>>

Finish ==
  /\ half = "second" /\ half' = "idle"
  /\ high' = Unset /\ low' = Unset
  /\ UNCHANGED <<register, sampled, sample, onTime>>

Next == Set \/ Ask \/ Sample \/ Rise \/ Turn \/ Fall \/ Finish

Spec == Init /\ [][Next]_vars
=============================================================================
