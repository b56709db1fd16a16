------------------------------- MODULE MotorTasks -------------------------------
(***************************************************************************)
(* The R5 firmware after its initialisation: the three tasks main.c        *)
(* creates, under the preemptive priorities it gives them, and the         *)
(* watchdog's interrupt.                                                   *)
(*                                                                         *)
(*   freertos_main  highest  Ads8688_Isr, then CurrentCtlr_Isr, for ever   *)
(*   Wd_Task        middle   clears the watchdog every WdPeriod            *)
(*   Igd_Task       lowest   samples the gate driver's fault pins          *)
(*                                                                         *)
(* They share CurrentCtlr_Enable and Igd_Start without a lock.  Time is    *)
(* counted in ticks that pass only when no task is ready or when the main  *)
(* task spins; everything else a task does takes no time.                  *)
(***************************************************************************)
EXTENDS Naturals

CONSTANTS
  SampleMax,   \* V_OFFSET_CALC_PHASE_MAX_CNT and R_CALC_PHASE_MAX_CNT
  WdPeriod,    \* WD_TASK_WAIT, in ticks
  WdExpire,    \* the watchdog's expiration time, in ticks
  IgdPeriod    \* IGD_TASK_WAIT, in ticks

ASSUME TimeAssumption ==
  /\ SampleMax \in Nat \ {0, 1}
  /\ WdPeriod \in Nat \ {0} /\ IgdPeriod \in Nat \ {0}
  /\ WdExpire \in Nat /\ WdPeriod < WdExpire

VARIABLES
  enable,      \* CurrentCtlr_Enable: 0 stop, 1 running, 2 requested
  state,       \* CurrentCtlr_State
  isrCnt,      \* CurrentCtlr_IsrCnt
  outputs,     \* the enable word of the PRU memory
  igdOffset,   \* Igd_voltageOffset
  theta,       \* CurrentCtlr_MainData.theta
  main,        \* where freertos_main is
  adcSem,      \* AdcSem
  igdStart,    \* Igd_Start
  gate,        \* the gate driver's enable pin
  fault,       \* the nFAULT and nOCTW pins, TRUE when they read GPIO_PIN_HIGH
  igd,         \* where Igd_Main is, and what it has read
  igdRead,
  igdTimer,    \* ticks until Igd_Task wakes
  wdTimer,     \* ticks until Wd_Task wakes
  dog,         \* ticks since Watchdog_clear
  sum,         \* history: samples in the accumulator of the current phase
  averaged,    \* history: samples in the accumulators that were divided
  piRuns,      \* history: iterations of the PI phase, up to two
  hog,         \* history: ticks the main task has spun since Watchdog_clear
  tripped,     \* history: the controller has turned the gate driver off
  sinceStop    \* history: iterations started since enable became 0, up to one

ctlVars == <<state, isrCnt, outputs, igdOffset, theta, sum, averaged, piRuns>>
igdVars == <<igd, igdRead, igdTimer>>
dogVars == <<wdTimer, dog, hog>>
vars == <<enable, ctlVars, main, adcSem, igdStart, gate, fault, igdVars, dogVars,
          tripped, sinceStop>>

States == {"V_OFFSET", "R_CALC", "PI", "ERROR"}
Pins == {"nFault", "nOctw"}
SpinPlaces == {"spin1", "spin2"}
TransferPlaces == {"transfer1", "transfer2"}

-----------------------------------------------------------------------------
(* After the init functions.  The lower tasks have run while Ads8688_Init       *)
(* blocked in its transfers, and may be anywhere.                             *)

\* Wd_Init has requested the PWM, CurrentCtlr_Init has taken the first sample.
ControllerInit ==
  /\ enable = 2 /\ state = "V_OFFSET" /\ isrCnt = 1
  /\ outputs = FALSE /\ igdOffset = "zero" /\ theta = "zero"
  /\ main = "pend" /\ adcSem \in BOOLEAN

\* Igd_Init sets Igd_Start, whatever Igd_Task has found so far.
GateDriverInit ==
  /\ igdStart = TRUE /\ gate = FALSE /\ fault \in [Pins -> BOOLEAN]
  /\ \/ igd = "sleep" /\ igdRead = FALSE /\ igdTimer \in 0..IgdPeriod
     \/ igd \in {"octw", "both"} /\ igdRead \in BOOLEAN /\ igdTimer = 0

WatchdogInit == wdTimer \in 0..WdPeriod /\ dog = WdPeriod - wdTimer

HistoryInit ==
  /\ sum = 1 /\ averaged = {} /\ piRuns = 0
  /\ hog = 0 /\ tripped = FALSE /\ sinceStop = 0

Init == ControllerInit /\ GateDriverInit /\ WatchdogInit /\ HistoryInit

-----------------------------------------------------------------------------
(* freertos_main *)

\* The event of the PRU, through PRU_IPC_Isr.
PruEvent ==
  /\ adcSem' = TRUE
  /\ UNCHANGED <<enable, ctlVars, main, igdStart, gate, fault, igdVars, dogVars,
                 tripped, sinceStop>>

MainGoes(from, to) == main = from /\ main' = to

\* Ads8688_Isr: the pend.
Pend ==
  /\ MainGoes("pend", "transfer1")
  /\ adcSem
  /\ adcSem' = FALSE
  /\ UNCHANGED <<enable, ctlVars, igdStart, gate, fault, igdVars, dogVars,
                 tripped, sinceStop>>

AfterTransfer(place) ==
  IF place \in {"transfer1", "spin1"} THEN "transfer2" ELSE "gate"

\* Ads8688_Main: a blocking transfer ends well, or with a status other than 0.
\* The loop that waits for the status has no effect and its condition is not
\* volatile, so that a build may also drop it.
TransferEnd ==
  /\ main \in TransferPlaces
  /\ \/ main' = AfterTransfer(main)
     \/ main' = IF main = "transfer1" THEN "spin1" ELSE "spin2"
  /\ UNCHANGED <<enable, ctlVars, adcSem, igdStart, gate, fault, igdVars, dogVars,
                 tripped, sinceStop>>

\* The driver sets the status of a late transfer after all, and the loop sees it.
SpinEnd ==
  /\ main \in SpinPlaces
  /\ main' = AfterTransfer(main)
  /\ UNCHANGED <<enable, ctlVars, adcSem, igdStart, gate, fault, igdVars, dogVars,
                 tripped, sinceStop>>

\* Mutant: the pin follows Igd_Start alone.
GateFollowsStart == igdStart

\* Igd_Enable, given CurrentCtlr_Enable == 2: only a pending request turns it on.
IgdEnable == IF igdStart /\ enable = 2 THEN TRUE
             ELSE IF ~igdStart THEN FALSE ELSE gate

\* CurrentCtlr_Main, first statement.
GateDriver ==
  /\ MainGoes("gate", "stop")
  /\ gate' = IgdEnable
  /\ tripped' = (tripped \/ ~igdStart)
  /\ sinceStop' = IF enable = 0 THEN 1 ELSE sinceStop
  /\ UNCHANGED <<enable, ctlVars, adcSem, igdStart, fault, igdVars, dogVars>>

\* Mutant: the state is not set.
StopOutputs == outputs' = FALSE /\ state' = state
StopController == outputs' = FALSE /\ state' = "ERROR"

\* Second statement, first branch: CurrentCtlr_Enable == 0.
CheckStop ==
  /\ main = "stop"
  /\ IF enable = 0
     THEN /\ main' = "switch"
          /\ StopController
     ELSE /\ main' = "request"
          /\ UNCHANGED <<outputs, state>>
  /\ UNCHANGED <<enable, isrCnt, igdOffset, theta, sum, averaged, piRuns, adcSem,
                 igdStart, gate, fault, igdVars, dogVars, tripped, sinceStop>>

\* Second branch: CurrentCtlr_Enable == 2.  The watchdog's interrupt may come
\* between the test and the assignment.
CheckRequest ==
  /\ main = "request"
  /\ IF enable = 2 THEN main' = "ack" /\ state' = "V_OFFSET"
                   ELSE main' = "switch" /\ UNCHANGED state
  /\ UNCHANGED <<enable, isrCnt, outputs, igdOffset, theta, sum, averaged, piRuns,
                 adcSem, igdStart, gate, fault, igdVars, dogVars, tripped,
                 sinceStop>>

Acknowledge ==
  /\ MainGoes("ack", "switch")
  /\ enable' = 1
  /\ UNCHANGED <<ctlVars, adcSem, igdStart, gate, fault, igdVars, dogVars,
                 tripped, sinceStop>>

InCase(st) == MainGoes("switch", "pend") /\ state = st

\* Mutant: one sample too many.
OneSampleMore == SampleMax <= isrCnt

\* A phase that averages SampleMax samples takes the last one when its counter
\* is at SampleMax - 1.
LastSample == SampleMax - 1 <= isrCnt

Sample(st) ==
  /\ InCase(st) /\ ~LastSample
  /\ sum' = sum + 1
  /\ isrCnt' = isrCnt + 1
  /\ UNCHANGED <<state, outputs, igdOffset, theta, averaged, piRuns>>

\* How many offsets Igd_UpdateVoltageOffset copies.
CopiedOffsets(size) == IF size > 2 THEN 2 ELSE 0

OffsetEnd ==
  /\ InCase("V_OFFSET") /\ LastSample
  /\ isrCnt' = 0
  /\ averaged' = averaged \cup {sum + 1}
  /\ sum' = 0
  /\ igdOffset' = IF CopiedOffsets(2) = 2 THEN "calibrated" ELSE igdOffset
  /\ outputs' = TRUE
  /\ state' = "R_CALC"
  /\ UNCHANGED <<theta, piRuns>>

ResistanceEnd ==
  /\ InCase("R_CALC") /\ LastSample
  /\ isrCnt' = 0
  /\ theta' = "zero"
  /\ averaged' = averaged \cup {sum + 1}
  /\ sum' = 0
  /\ state' = "PI"
  /\ UNCHANGED <<outputs, igdOffset, piRuns>>

\* The increment of the counter at the end of this case is commented out.
PiControl ==
  /\ InCase("PI")
  /\ theta' = IF isrCnt = 0 THEN "zero" ELSE "estimated"
  /\ piRuns' = IF piRuns < 2 THEN piRuns + 1 ELSE piRuns
  /\ UNCHANGED <<state, isrCnt, outputs, igdOffset, sum, averaged>>

ErrorState == InCase("ERROR") /\ UNCHANGED ctlVars

Switch ==
  /\ \/ Sample("V_OFFSET") \/ Sample("R_CALC")
     \/ OffsetEnd \/ ResistanceEnd \/ PiControl \/ ErrorState
  /\ UNCHANGED <<enable, adcSem, igdStart, gate, fault, igdVars, dogVars, tripped,
                 sinceStop>>

MainStep == Pend \/ GateDriver \/ CheckStop \/ CheckRequest \/ Acknowledge \/ Switch

\* The lower tasks run only while this one is blocked.
CpuFree == main \in TransferPlaces \/ (main = "pend" /\ ~adcSem)

-----------------------------------------------------------------------------
(* Wd_Task and the watchdog *)

\* Mutant: the task's period is as long as the watchdog's.
SlowPeriod == WdExpire
WdTaskWait == WdPeriod

\* Wd_Task: clear the watchdog, then sleep.
WdClear ==
  /\ CpuFree /\ wdTimer = 0
  /\ wdTimer' = WdTaskWait
  /\ dog' = 0 /\ hog' = 0
  /\ UNCHANGED <<enable, ctlVars, main, adcSem, igdStart, gate, fault, igdVars,
                 tripped, sinceStop>>

\* Mutant: the handler stops a controller that is only requested as well.
StopAny == 0
StopRunning == IF enable = 1 THEN 0 ELSE enable

\* Safety_Exception_Handler: clear the watchdog, then stop a running controller.
WdInterrupt ==
  /\ dog = WdExpire
  /\ dog' = 0 /\ hog' = 0
  /\ enable' = StopRunning
  /\ UNCHANGED <<ctlVars, main, adcSem, igdStart, gate, fault, igdVars, wdTimer,
                 tripped, sinceStop>>

-----------------------------------------------------------------------------
(* Igd_Task: Igd_Main reads the pins one after the other, then sleeps *)

IgdMayRun == CpuFree /\ wdTimer > 0

IgdFault ==
  /\ IgdMayRun /\ igd = "sleep" /\ igdTimer = 0
  /\ igdRead' = fault["nFault"]
  /\ igdStart' = (igdStart /\ ~fault["nFault"])
  /\ igd' = "octw"
  /\ UNCHANGED <<enable, ctlVars, main, adcSem, gate, fault, igdTimer, dogVars,
                 tripped, sinceStop>>

\* Mutant: what the first pin read is forgotten.
SecondPinOnly == fault["nOctw"]
EitherPin == igdRead \/ fault["nOctw"]

IgdOctw ==
  /\ IgdMayRun /\ igd = "octw"
  /\ igdRead' = EitherPin
  /\ igdStart' = (igdStart /\ ~fault["nOctw"])
  /\ igd' = "both"
  /\ UNCHANGED <<enable, ctlVars, main, adcSem, gate, fault, igdTimer, dogVars,
                 tripped, sinceStop>>

\* igdRead holds whether either pin was read HIGH.
IgdBoth ==
  /\ IgdMayRun /\ igd = "both"
  /\ igdStart' = IF igdRead THEN igdStart ELSE TRUE
  /\ igd' = "sleep" /\ igdTimer' = IgdPeriod
  /\ igdRead' = FALSE
  /\ UNCHANGED <<enable, ctlVars, main, adcSem, gate, fault, dogVars, tripped,
                 sinceStop>>

IgdStep == IgdFault \/ IgdOctw \/ IgdBoth

-----------------------------------------------------------------------------
(* The world *)

PinChange ==
  /\ \E p \in Pins : fault' = [fault EXCEPT ![p] = ~@]
  /\ UNCHANGED <<enable, ctlVars, main, adcSem, igdStart, gate, igdVars, dogVars,
                 tripped, sinceStop>>

Down(t) == IF t > 0 THEN t - 1 ELSE 0

Tick ==
  /\ dog < WdExpire
  /\ \/ CpuFree /\ wdTimer > 0 /\ igd = "sleep" /\ igdTimer > 0
     \/ main \in SpinPlaces
  /\ dog' = dog + 1
  /\ wdTimer' = Down(wdTimer) /\ igdTimer' = Down(igdTimer)
  /\ hog' = IF main \in SpinPlaces THEN hog + 1 ELSE hog
  /\ UNCHANGED <<enable, ctlVars, main, adcSem, igdStart, gate, fault, igd,
                 igdRead, tripped, sinceStop>>

-----------------------------------------------------------------------------
Next == \/ PruEvent \/ MainStep \/ TransferEnd \/ SpinEnd
        \/ WdClear \/ WdInterrupt \/ IgdStep \/ PinChange \/ Tick

Spec == Init /\ [][Next]_vars

\* What the code and the board give: the PRU keeps pacing the loop, a transfer
\* ends or times out, the scheduler runs a ready task when no higher one is, time
\* passes.  The lower tasks are preempted again and again: strong fairness.  Nothing
\* is assumed of a spin: after a failed transfer no code sets the status it waits for.
FairSpec ==
  /\ Spec
  /\ WF_vars(PruEvent) /\ WF_vars(MainStep) /\ WF_vars(TransferEnd)
  /\ SF_vars(WdClear) /\ WF_vars(WdInterrupt) /\ SF_vars(IgdStep) /\ SF_vars(Tick)

-----------------------------------------------------------------------------
(* Properties *)

\* Every variable stays in its type; an accumulator never holds more samples
\* than it is divided by.
TypeOK ==
  /\ enable \in 0..2 /\ state \in States /\ isrCnt \in 0..SampleMax
  /\ outputs \in BOOLEAN /\ igdOffset \in {"zero", "calibrated"}
  /\ theta \in {"zero", "estimated"}
  /\ main \in {"pend", "gate", "stop", "request", "ack", "switch"}
               \cup TransferPlaces \cup SpinPlaces
  /\ adcSem \in BOOLEAN /\ igdStart \in BOOLEAN /\ gate \in BOOLEAN
  /\ fault \in [Pins -> BOOLEAN]
  /\ igd \in {"sleep", "octw", "both"} /\ igdRead \in BOOLEAN
  /\ igdTimer \in 0..IgdPeriod /\ wdTimer \in 0..WdPeriod /\ dog \in 0..WdExpire
  /\ sum \in 0..SampleMax /\ averaged \subseteq Nat /\ piRuns \in 0..2
  /\ hog \in 0..WdExpire /\ tripped \in BOOLEAN /\ sinceStop \in {0, 1}

\* A mean is taken over exactly as many samples as it is divided by: the sample
\* CurrentCtlr_Init takes is counted, and the second phase starts from zero.
MeansAreExact == averaged \subseteq {SampleMax}

\* A stop of the watchdog's interrupt is in effect after one more iteration at
\* the latest, wherever it interrupted the loop, EnableOutputs(true) included.
StopWithinOneIteration ==
  (enable = 0 /\ sinceStop = 1 /\ main \in {"switch", "pend"}) =>
    ~outputs /\ state = "ERROR"

\* The acknowledgement of the start request never overwrites a stop: the two
\* writers of CurrentCtlr_Enable need no lock.
StopNotOverwritten == [][enable = 0 => enable' = 0]_vars

\* Once the controller has turned the gate driver off after a fault it stays off,
\* although Igd_Task sets Igd_Start again when the fault goes away.
GateOffIsFinal == tripped => ~gate

\* The watchdog interrupts only a main task that has spun for at least the margin
\* between the expiration and Wd_Task's period: a loop that blocks is never
\* stopped by mistake.
WatchdogMargin == dog = WdExpire => WdExpire - WdPeriod <= hog

\* No spin of the main task is for ever.  The code does not give this.
EverySpinEnds == []<>(main \notin SpinPlaces)

\* If no spin is for ever, a pin that stays at fault is found by the lowest task and
\* opens the gate driver for good, however the other tasks preempt Igd_Main between its
\* reads and however often a transfer fails.  The premise is needed: a spin without end
\* starves Igd_Task, and the fault is never read.
PersistentFaultOpensGate ==
  EverySpinEnds => \A p \in Pins : <>[](fault[p]) => <>[]~gate

\* The comments in Safety_Exception_Handler say that it stops the current controller:
\* the outputs go off, and stay so.
StopStopsPwm == (enable = 0) ~> []~outputs

\* The controller keeps its contract with the PWM.
stage == CASE state = "V_OFFSET" -> "offset" [] state = "R_CALC" -> "rcalc"
           [] state = "PI" -> "pi" [] state = "ERROR" -> "error"
Commands == INSTANCE PwmCommands WITH on <- outputs
KeepsContract == Commands!Spec

\* The comment in CurrentCtlr_Main says the offsets of the calibration are given
\* to the gate driver, whose current computation subtracts them in the PI phase.
CalibrationApplied == state = "PI" => igdOffset = "calibrated"

\* The comment in the PI case says theta is 0 in the first run: later runs take
\* it from CurrentCtlr_CalcTheta.
ThetaEstimated == piRuns = 2 => theta = "estimated"
=============================================================================
