-------------------------------- MODULE PwmDrv --------------------------------
(***************************************************************************)
(* The EPWM driver PwmDrv: a master timer and three PWMs in a sync chain.  *)
(*                                                                         *)
(* epwm_duty_cycle_sync_init configures the four modules one after the     *)
(* other, while those already configured count; a sync of the master then  *)
(* brings all four in phase.  The master interrupts at every zero.         *)
(* AppEpwm_epwmIntrISR writes the duties of the three PWMs to their        *)
(* compares; epwm_duty_cycle_sync_task changes the duties, one by one, in  *)
(* steps that bounce between zero and the period, and only if there was an *)
(* interrupt since it last began.  The two share EpwmDuty, IsrHits,        *)
(* gEpwmIsrCnt and gUpdOutIsr without a lock.                              *)
(*                                                                         *)
(* The counters and the event trigger are the device's.  Nothing in the    *)
(* repository calls this driver: it is modelled as it would run.           *)
(***************************************************************************)
EXTENDS Integers

CONSTANTS
  TbClk,        \* the time-base clock and the frequency of the output, in Hz
  OutFreq,
  Increment,    \* EpwmInc, as initialized
  DutyPercent,  \* APP_EPWM1_DUTY_CYCLE
  Threshold,    \* SET_UPDOUTISR_THR
  Half,         \* 2^15: an int16_t is below it
  StartCounts   \* where the counters of modules not yet configured stand

Phase == 0..2               \* an output: index of EpwmDuty, EpwmInc, gEpwmBaseAddr
Module == 0..3              \* 0 is the master, p + 1 the PWM of output p

\* roundf of a / b.
Rounded(a, b) == (2 * a + b) \div (2 * b)

\* tbPwmFreqCfg, with a counter that goes up and down.
Period == Rounded(TbClk, 2 * OutFreq)

\* A counter at t has been counting up for t ticks if t < Period, and down since then.
Time == 0..(2 * Period - 1)

ASSUME ConstantAssumption ==
  /\ TbClk \in Nat /\ OutFreq \in Nat \ {0} /\ Threshold \in Nat /\ Half \in Nat
  /\ DutyPercent \in 0..100 /\ StartCounts \subseteq Time /\ Period \in Nat \ {0}
  /\ Increment \in [Phase -> Int]

\* What the values of the source satisfy: the period fits in an int16_t, and twice an
\* increment in a period.
ASSUME RangeAssumption ==
  /\ Period < Half
  /\ \A p \in Phase : -Period <= 2 * Increment[p] /\ 2 * Increment[p] <= Period

VARIABLES
  at,        \* where init, and then the task, is
  i,         \* the module being configured, or the index of the loop over the duties
  updOut,    \* gUpdOutIsr
  isrCnt,    \* gEpwmIsrCnt, up to Threshold + 1
  isrHits,   \* IsrHits
  duty,      \* EpwmDuty
  inc,       \* EpwmInc
  ctr,       \* the time-base counter of each module
  cmpA,      \* CMPA of the three PWMs
  etFlag,    \* ETFLG.INT of the master
  irq        \* the interrupt is pending in the interrupt controller

vars == <<at, i, updOut, isrCnt, isrHits, duty, inc, ctr, cmpA, etFlag, irq>>

Abs(x) == IF x < 0 THEN -x ELSE x

-----------------------------------------------------------------------------
(* The timers *)

\* Mutant: the second PWM does not pass the sync on.
SyncOutStops == [m \in Module |-> IF m = 0 THEN "zero" ELSE IF m = 1 THEN "in" ELSE "off"]
\* tbSyncOutMode: at zero of the counter, whenever a sync comes in, or not.
SyncOut == [m \in Module |-> IF m = 0 THEN "zero" ELSE IF m = 3 THEN "off" ELSE "in"]

Running == IF at = "config" THEN 0..(i - 1) ELSE Module

\* The modules that a sync of the master reaches.
Synced == {m \in Running : \A n \in 0..(m - 1) : SyncOut[n] # "off"}

\* The counters when the master's gets to zero.
AfterZero(c) == [m \in Module |-> IF m \in Synced THEN 0 ELSE c[m]]

Advanced == [m \in Module |-> IF m \in Running THEN (ctr[m] + 1) % (2 * Period) ELSE ctr[m]]

\* A tick of the clock.  At zero the master syncs the others and, once configured, sets
\* its flag; only a flag that was clear raises an interrupt.
Tick ==
  /\ 0 \in Running
  /\ IF Advanced[0] = 0
     THEN /\ ctr' = AfterZero(Advanced)
          /\ etFlag' = TRUE /\ irq' = (irq \/ ~etFlag)
     ELSE ctr' = Advanced /\ UNCHANGED <<etFlag, irq>>
  /\ UNCHANGED <<at, i, updOut, isrCnt, isrHits, duty, inc, cmpA>>

-----------------------------------------------------------------------------
(* epwm_duty_cycle_sync_init *)

\* CMPA of a duty in percent: the output is high above it.
ComparePercent == Rounded(Period * (100 - DutyPercent), 100)

Init ==
  /\ at = "config" /\ i = 0
  /\ updOut = FALSE /\ isrCnt = 0 /\ isrHits = FALSE
  /\ duty = [p \in Phase |-> 0] /\ inc = Increment
  /\ ctr \in [Module -> StartCounts]
  /\ cmpA = [p \in Phase |-> 0] /\ etFlag = FALSE /\ irq = FALSE

\* epwmInit of the next module.
EpwmInit ==
  /\ at = "config"
  /\ cmpA' = IF i = 0 THEN cmpA ELSE [cmpA EXCEPT ![i - 1] = ComparePercent]
  /\ IF i = 3 THEN at' = "read" /\ i' = 0 ELSE at' = at /\ i' = i + 1
  /\ UNCHANGED <<updOut, isrCnt, isrHits, duty, inc, ctr, etFlag, irq>>

\* The duties are read, all of them from the first PWM, and the interrupt flag cleared.
ReadDuties ==
  /\ at = "read"
  /\ duty' = [p \in Phase |-> cmpA[0]]
  /\ etFlag' = FALSE
  /\ at' = "sync"
  /\ UNCHANGED <<i, updOut, isrCnt, isrHits, inc, ctr, cmpA, irq>>

\* EPWM_tbTriggerSwSync: the master loads its phase, zero.
SwSync ==
  /\ at = "sync"
  /\ ctr' = AfterZero(ctr)
  /\ etFlag' = TRUE /\ irq' = (irq \/ ~etFlag)
  /\ at' = "top"
  /\ UNCHANGED <<i, updOut, isrCnt, isrHits, duty, inc, cmpA>>

-----------------------------------------------------------------------------
(* The task *)

\* Mutant: the count must be met exactly.
ExactlyEnough == isrCnt = Threshold
EnoughIsrs == Threshold < isrCnt

\* WAIT_SYNC, while gUpdOutIsr is clear; the task sleeps about 10 ms after each round.
WaitSync ==
  /\ at = "top" /\ ~updOut
  /\ updOut' = EnoughIsrs
  /\ at' = "sleep"
  /\ UNCHANGED <<i, isrCnt, isrHits, duty, inc, ctr, cmpA, etFlag, irq>>

\* Mutant: the flag is not cleared.
HitsKept == isrHits' = isrHits
HitsCleared == isrHits' = FALSE

ActualProgram ==
  /\ at = "top" /\ updOut
  /\ IF isrHits
     THEN HitsCleared /\ i' = 0 /\ at' = "change"
     ELSE at' = "sleep" /\ UNCHANGED <<i, isrHits>>
  /\ UNCHANGED <<updOut, isrCnt, duty, inc, ctr, cmpA, etFlag, irq>>

\* The value of an int16_t.
Int16(x) == IF x < Half THEN x ELSE x - 2 * Half

\* Mutant: the lower end is not tested.
BounceAtTop(d, s) == IF Int16(Period) < Int16(d) + s THEN -s ELSE s
\* Epwm_Change_Duty: the increment changes its sign at both ends.
Bounce(d, s) == IF Int16(Period) < Int16(d) + s \/ Int16(d) + s < 0 THEN -s ELSE s
NextDuty(d, s) == (Int16(d) + Bounce(d, s)) % (2 * Half)

ChangeDuty ==
  /\ at = "change"
  /\ inc' = [inc EXCEPT ![i] = Bounce(duty[i], inc[i])]
  /\ duty' = [duty EXCEPT ![i] = NextDuty(duty[i], inc[i])]
  /\ IF i = 2 THEN at' = "sleep" /\ i' = 0 ELSE at' = at /\ i' = i + 1
  /\ UNCHANGED <<updOut, isrCnt, isrHits, ctr, cmpA, etFlag, irq>>

Wake ==
  /\ at = "sleep"
  /\ at' = "top"
  /\ UNCHANGED <<i, updOut, isrCnt, isrHits, duty, inc, ctr, cmpA, etFlag, irq>>

Task == EpwmInit \/ ReadDuties \/ SwSync \/ WaitSync \/ ActualProgram \/ ChangeDuty \/ Wake

-----------------------------------------------------------------------------
(* The interrupt *)

\* Mutant: the flag of the event trigger is not cleared.
EtKept == etFlag' = etFlag
EtClear == etFlag' = FALSE

\* AppEpwm_epwmIntrISR, which no task interrupts.  An interrupt whose flag init has
\* cleared is only counted.
Isr ==
  /\ irq /\ at \notin {"config", "read"}
  /\ irq' = FALSE
  /\ isrCnt' = IF Threshold < isrCnt THEN isrCnt ELSE isrCnt + 1
  /\ IF etFlag
     THEN /\ cmpA' = IF updOut THEN duty ELSE cmpA
          /\ isrHits' = TRUE /\ EtClear
     ELSE UNCHANGED <<cmpA, isrHits, etFlag>>
  /\ UNCHANGED <<at, i, updOut, duty, inc, ctr>>

Next == Task \/ Tick \/ Isr

Spec == Init /\ [][Next]_vars
FairSpec == Spec /\ WF_vars(Task) /\ WF_vars(Tick) /\ WF_vars(Isr)

-----------------------------------------------------------------------------
(* Properties *)

\* Every variable stays in its type.
TypeOK ==
  /\ at \in {"config", "read", "sync", "top", "change", "sleep"}
  /\ i \in Module /\ (at = "change" => i \in Phase)
  /\ updOut \in BOOLEAN /\ isrHits \in BOOLEAN /\ etFlag \in BOOLEAN /\ irq \in BOOLEAN
  /\ isrCnt \in 0..(Threshold + 1)
  /\ duty \in [Phase -> 0..(2 * Half - 1)] /\ inc \in [Phase -> Int]
  /\ ctr \in [Module -> Time] /\ cmpA \in [Phase -> Int]

\* No duty leaves 0..Period, in spite of the 16-bit types: at both ends the step turns
\* and the turned step has room.  The compares therefore stay in the period too, so every
\* period of every output has its edges.
DutyInRange ==
  /\ \A p \in Phase : duty[p] \in 0..Period /\ cmpA[p] \in 0..Period
  /\ \A p \in Phase : inc[p] \in {Increment[p], -Increment[p]}

\* Wherever the counters stood when they were configured, from the software sync on the
\* four modules count in phase: the sync runs down the chain.
InPhase == at \notin {"config", "read", "sync"} => \A m \in Module : ctr[m] = ctr[0]

\* A compare is at most two steps behind its duty: IsrHits is cleared before the duties
\* are changed, so an interrupt in the middle of the loop, which writes some duties of
\* this round and some of the last, lets one more round begin, but not two.
LagsByTwoSteps ==
  updOut => \A p \in Phase : Abs(duty[p] - cmpA[p]) <= 2 * Abs(Increment[p])

\* An event flag that is set has its interrupt pending: otherwise it would stay set, no
\* zero would raise an interrupt again and the outputs would freeze.
NeverDeaf == etFlag => irq

\* Every output sweeps up and down for ever.
KeepsSweeping == \A p \in Phase : []<>(cmpA[p] < duty[p]) /\ []<>(duty[p] < cmpA[p])
=============================================================================
