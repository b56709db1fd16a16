--------------------------- MODULE MotorTasks_proofs ---------------------------
(***************************************************************************)
(* Proofs about MotorTasks, for every number of samples and every choice   *)
(* of the periods: types, the means, the stop protocol, the gate driver,   *)
(* the watchdog's margin, and that the controller keeps PwmCommands.       *)
(***************************************************************************)
EXTENDS MotorTasks, TLAPS

\* The counter and the accumulator of the current phase agree.
CountInv ==
  /\ isrCnt < SampleMax
  /\ state \in {"V_OFFSET", "R_CALC"} => sum = isrCnt
  /\ MeansAreExact

\* The start request is pending until the first iteration has acknowledged it,
\* and only a stop leads to the error state.
EnableInv ==
  /\ enable = 2 => state = "V_OFFSET" /\ ~outputs /\ main # "switch"
  /\ main = "ack" => enable = 2
  /\ state = "ERROR" => enable = 0 /\ ~outputs
  /\ state \in {"R_CALC", "PI"} => outputs

\* Where the iteration is that the stop was, or was not, seen by.
StopInv ==
  /\ sinceStop = 1 => enable = 0
  /\ enable = 0 /\ sinceStop = 1 =>
       main = "stop" \/ (~outputs /\ state = "ERROR")

GateInv ==
  /\ tripped => ~gate
  /\ tripped => enable # 2 \/ main \in {"stop", "request", "ack"}

DogInv == dog + wdTimer <= hog + WdPeriod /\ hog <= dog

Inv == TypeOK /\ CountInv /\ EnableInv /\ StopInv /\ GateInv /\ DogInv

-----------------------------------------------------------------------------
(* Types *)

\* The Boolean variables apart from the others: TypeOK is their conjunction.
BoolOK ==
  /\ outputs \in BOOLEAN /\ adcSem \in BOOLEAN /\ igdStart \in BOOLEAN
  /\ gate \in BOOLEAN /\ igdRead \in BOOLEAN /\ tripped \in BOOLEAN

DataOK ==
  /\ enable \in 0..2 /\ state \in States /\ isrCnt \in 0..SampleMax
  /\ igdOffset \in {"zero", "calibrated"} /\ theta \in {"zero", "estimated"}
  /\ main \in {"pend", "gate", "stop", "request", "ack", "switch"}
               \cup TransferPlaces \cup SpinPlaces
  /\ fault \in [Pins -> BOOLEAN] /\ igd \in {"sleep", "octw", "both"}
  /\ igdTimer \in 0..IgdPeriod /\ wdTimer \in 0..WdPeriod /\ dog \in 0..WdExpire
  /\ sum \in 0..SampleMax /\ averaged \subseteq Nat /\ piRuns \in 0..2
  /\ hog \in 0..WdExpire /\ sinceStop \in {0, 1}

LEMMA TypeParts == TypeOK <=> BoolOK /\ DataOK
BY DEF TypeOK, BoolOK, DataOK

LEMMA BoolStep == BoolOK /\ DataOK /\ [Next]_vars => BoolOK'
<1> SUFFICES ASSUME BoolOK, DataOK, [Next]_vars PROVE BoolOK'
  OBVIOUS
<1> USE DEF BoolOK, ctlVars, igdVars, dogVars
<1>1. CASE PruEvent
  BY <1>1, Zenon DEF PruEvent
<1>2. CASE Pend
  BY <1>2, Zenon DEF Pend, MainGoes
<1>3. CASE TransferEnd
  BY <1>3, Zenon DEF TransferEnd
<1>4. CASE SpinEnd
  BY <1>4, Zenon DEF SpinEnd
<1>5. CASE GateDriver
  BY <1>5, Zenon DEF GateDriver, IgdEnable, MainGoes
<1>6. CASE CheckStop
  BY <1>6, Zenon DEF CheckStop, StopController
<1>7. CASE CheckRequest
  BY <1>7, Zenon DEF CheckRequest
<1>8. CASE Acknowledge
  BY <1>8, Zenon DEF Acknowledge, MainGoes
<1>9. CASE WdClear
  BY <1>9, Zenon DEF WdClear
<1>10. CASE WdInterrupt
  BY <1>10, Zenon DEF WdInterrupt
<1>11. CASE IgdFault
  <2>1. fault["nFault"] \in BOOLEAN
    BY DEF DataOK, Pins
  <2>. QED
    BY <1>11, <2>1, Zenon DEF IgdFault
<1>12. CASE IgdOctw
  BY <1>12, Zenon DEF IgdOctw, EitherPin
<1>13. CASE IgdBoth
  BY <1>13, Zenon DEF IgdBoth
<1>14. CASE PinChange
  BY <1>14, Zenon DEF PinChange
<1>15. CASE Tick
  BY <1>15, Zenon DEF Tick
<1>16. CASE Switch
  <2>1. UNCHANGED <<adcSem, igdStart, gate, igdRead, tripped>>
    BY <1>16 DEF Switch
  <2>2. outputs' = outputs \/ outputs' = TRUE
    BY <1>16 DEF Switch, Sample, OffsetEnd, ResistanceEnd, PiControl, ErrorState
  <2>. QED
    BY <2>1, <2>2, Zenon
<1>17. CASE UNCHANGED vars
  BY <1>17, Zenon DEF vars
<1>. QED
  BY <1>1, <1>2, <1>3, <1>4, <1>5, <1>6, <1>7, <1>8, <1>9, <1>10, <1>11, <1>12,
     <1>13, <1>14, <1>15, <1>16, <1>17
  DEF Next, MainStep, IgdStep

\* The counters fit because the counter and the accumulator agree.
LEMMA DataStep == TypeOK /\ CountInv /\ DogInv /\ [Next]_vars => DataOK'
<1> SUFFICES ASSUME DataOK, CountInv, DogInv, [Next]_vars PROVE DataOK'
  BY TypeParts
<1> USE TimeAssumption DEF DataOK, ctlVars, igdVars, dogVars, MainGoes
<1>1. CASE PruEvent \/ Pend \/ Acknowledge
  <2>1. CASE PruEvent
    BY <2>1 DEF PruEvent
  <2>2. CASE Pend
    BY <2>2 DEF Pend, TransferPlaces
  <2>3. CASE Acknowledge
    BY <2>3 DEF Acknowledge
  <2>. QED
    BY <1>1, <2>1, <2>2, <2>3
<1>2. CASE TransferEnd \/ SpinEnd
  BY <1>2 DEF TransferEnd, SpinEnd, AfterTransfer, TransferPlaces, SpinPlaces
<1>3. CASE GateDriver
  BY <1>3 DEF GateDriver
<1>4. CASE CheckStop
  BY <1>4 DEF CheckStop, StopController, States
<1>5. CASE CheckRequest
  BY <1>5 DEF CheckRequest, States
<1>6. CASE WdClear \/ WdInterrupt
  <2>1. CASE WdClear
    BY <2>1 DEF WdClear, WdTaskWait
  <2>2. CASE WdInterrupt
    BY <2>2 DEF WdInterrupt, StopRunning
  <2>. QED
    BY <1>6, <2>1, <2>2
<1>7. CASE IgdStep
  <2>1. igd' \in {"sleep", "octw", "both"} /\ igdTimer' \in 0..IgdPeriod
    <3>1. CASE IgdFault
      BY <3>1 DEF IgdFault
    <3>2. CASE IgdOctw
      BY <3>2 DEF IgdOctw
    <3>3. CASE IgdBoth
      BY <3>3 DEF IgdBoth
    <3>. QED
      BY <1>7, <3>1, <3>2, <3>3 DEF IgdStep
  <2>2. UNCHANGED <<enable, ctlVars, main, fault, dogVars, sinceStop>>
    BY <1>7 DEF IgdStep, IgdFault, IgdOctw, IgdBoth
  <2>. QED
    BY <2>1, <2>2
<1>8. CASE PinChange
  BY <1>8 DEF PinChange, Pins
<1>9. CASE Tick
  <2>1. wdTimer' \in 0..WdPeriod /\ igdTimer' \in 0..IgdPeriod
    BY <1>9 DEF Tick, Down
  <2>2. dog' \in 0..WdExpire
    BY <1>9 DEF Tick
  <2>3. hog' \in 0..WdExpire
    BY <1>9 DEF Tick, DogInv
  <2>. QED
    BY <1>9, <2>1, <2>2, <2>3 DEF Tick
<1>10. CASE Switch
  <2>1. /\ isrCnt' \in 0..SampleMax /\ sum' \in 0..SampleMax
        /\ averaged' \subseteq Nat
    <3>1. CASE \E st \in {"V_OFFSET", "R_CALC"} : Sample(st)
      BY <3>1 DEF Sample, InCase, LastSample, CountInv
    <3>2. CASE OffsetEnd \/ ResistanceEnd
      <4>1. isrCnt' = 0 /\ sum' = 0 /\ averaged' = averaged \cup {sum + 1}
        BY <3>2 DEF OffsetEnd, ResistanceEnd
      <4>2. sum + 1 \in Nat
        OBVIOUS
      <4>. QED
        BY <4>1, <4>2
    <3>3. CASE PiControl \/ ErrorState
      BY <3>3 DEF PiControl, ErrorState
    <3>. QED
      BY <1>10, <3>1, <3>2, <3>3 DEF Switch
  <2>2. /\ state' \in States /\ igdOffset' \in {"zero", "calibrated"}
        /\ theta' \in {"zero", "estimated"} /\ piRuns' \in 0..2 /\ main' = "pend"
    BY <1>10 DEF Switch, Sample, OffsetEnd, ResistanceEnd, PiControl, ErrorState,
                 InCase, States
  <2>. QED
    BY <1>10, <2>1, <2>2 DEF Switch
<1>11. CASE UNCHANGED vars
  BY <1>11 DEF vars
<1>. QED
  BY <1>1, <1>2, <1>3, <1>4, <1>5, <1>6, <1>7, <1>8, <1>9, <1>10, <1>11
  DEF Next, MainStep

-----------------------------------------------------------------------------
(* The parts of the invariant *)

LEMMA CountStep ==
  TypeOK /\ CountInv /\ EnableInv /\ [Next]_vars => CountInv'
<1> SUFFICES ASSUME DataOK, CountInv, EnableInv, [Next]_vars PROVE CountInv'
  BY TypeParts
<1> USE TimeAssumption DEF CountInv, MeansAreExact, ctlVars
<1>1. CASE CheckStop
  <2>1. /\ UNCHANGED <<isrCnt, sum, averaged>>
        /\ state' = state \/ state' = "ERROR"
    BY <1>1 DEF CheckStop, StopController
  <2>. QED
    BY <2>1
<1>2. CASE CheckRequest
  <2>1. UNCHANGED <<isrCnt, sum, averaged, state>>
    BY <1>2 DEF CheckRequest, EnableInv
  <2>. QED
    BY <2>1
<1>3. CASE \E st \in {"V_OFFSET", "R_CALC"} : Sample(st)
  BY <1>3 DEF Sample, InCase, LastSample, DataOK
<1>4. CASE OffsetEnd \/ ResistanceEnd
  <2>1. /\ state \in {"V_OFFSET", "R_CALC"} /\ SampleMax - 1 <= isrCnt
        /\ isrCnt' = 0 /\ sum' = 0 /\ averaged' = averaged \cup {sum + 1}
    BY <1>4 DEF OffsetEnd, ResistanceEnd, InCase, LastSample
  <2>2. sum + 1 = SampleMax
    BY <2>1 DEF DataOK
  <2>3. averaged' \subseteq {SampleMax}
    BY <2>1, <2>2
  <2>4. isrCnt' < SampleMax /\ sum' = isrCnt'
    BY <2>1
  <2>. QED
    BY <2>3, <2>4
<1>5. CASE PiControl \/ ErrorState
  <2>1. UNCHANGED <<isrCnt, sum, averaged, state>>
    BY <1>5 DEF PiControl, ErrorState
  <2>. QED
    BY <2>1
<1>6. CASE \/ PruEvent \/ Pend \/ TransferEnd \/ SpinEnd \/ GateDriver
           \/ Acknowledge \/ WdClear \/ WdInterrupt \/ IgdStep \/ PinChange
           \/ Tick \/ UNCHANGED vars
  <2>1. UNCHANGED ctlVars
    BY <1>6 DEF PruEvent, Pend, TransferEnd, SpinEnd, GateDriver, Acknowledge,
         WdClear, WdInterrupt, IgdStep, IgdFault, IgdOctw, IgdBoth, PinChange,
         Tick, vars
  <2>. QED
    BY <2>1
<1>. QED
  BY <1>1, <1>2, <1>3, <1>4, <1>5, <1>6 DEF Next, MainStep, Switch

\* What the steps that are not part of CurrentCtlr_Main leave alone.
Elsewhere ==
  \/ PruEvent \/ Pend \/ TransferEnd \/ SpinEnd \/ WdClear \/ IgdStep
  \/ PinChange \/ Tick \/ UNCHANGED vars

LEMMA ElsewhereFrame ==
  Elsewhere => /\ UNCHANGED <<enable, ctlVars, gate, tripped, sinceStop>>
               /\ main' = main \/ main' \in {"transfer1", "transfer2", "spin1",
                                             "spin2", "gate"}
               /\ main' # main => main \in {"pend", "transfer1", "transfer2",
                                            "spin1", "spin2"}
BY DEF Elsewhere, PruEvent, Pend, TransferEnd, SpinEnd, WdClear, IgdStep, IgdFault,
       IgdOctw, IgdBoth, PinChange, Tick, vars, MainGoes, AfterTransfer,
       TransferPlaces, SpinPlaces

LEMMA InterruptFrame ==
  WdInterrupt => /\ UNCHANGED <<ctlVars, gate, tripped, sinceStop, main>>
                 /\ enable' = IF enable = 1 THEN 0 ELSE enable
BY DEF WdInterrupt, StopRunning

LEMMA NextParts ==
  [Next]_vars => \/ Elsewhere \/ WdInterrupt \/ GateDriver \/ CheckStop
                 \/ CheckRequest \/ Acknowledge \/ Switch
BY DEF Next, MainStep, Elsewhere

LEMMA EnableStep == TypeOK /\ EnableInv /\ [Next]_vars => EnableInv'
<1> SUFFICES ASSUME TypeOK, EnableInv, [Next]_vars PROVE EnableInv'
  OBVIOUS
<1> USE DEF EnableInv, ctlVars
<1>1. CASE Elsewhere
  BY <1>1, ElsewhereFrame
<1>2. CASE WdInterrupt
  BY <1>2, InterruptFrame DEF TypeOK
<1>3. CASE GateDriver
  BY <1>3 DEF GateDriver, MainGoes
<1>4. CASE CheckStop
  <2>1. CASE enable = 0
    <3>1. state' = "ERROR" /\ ~outputs' /\ enable' = 0 /\ main' = "switch"
      BY <1>4, <2>1 DEF CheckStop, StopController
    <3>. QED
      BY <3>1
  <2>2. CASE enable # 0
    <3>1. UNCHANGED <<state, outputs, enable>> /\ main' = "request"
      BY <1>4, <2>2 DEF CheckStop
    <3>. QED
      BY <3>1
  <2>. QED
    BY <2>1, <2>2
<1>5. CASE CheckRequest
  <2>1. UNCHANGED <<enable, outputs, state>>
        /\ main' = IF enable = 2 THEN "ack" ELSE "switch"
    BY <1>5 DEF CheckRequest
  <2>. QED
    BY <2>1
<1>6. CASE Acknowledge
  <2>1. UNCHANGED <<outputs, state>> /\ enable' = 1 /\ main' = "switch"
        /\ main = "ack"
    BY <1>6 DEF Acknowledge, MainGoes
  <2>. QED
    BY <2>1
<1>7. CASE Switch
  <2>1. main = "switch" /\ main' = "pend" /\ UNCHANGED enable
    BY <1>7 DEF Switch, Sample, OffsetEnd, ResistanceEnd, PiControl, ErrorState,
                InCase, MainGoes
  <2>2. \/ UNCHANGED <<state, outputs>>
        \/ outputs' /\ state' = "R_CALC"
        \/ state = "R_CALC" /\ UNCHANGED outputs /\ state' = "PI"
    BY <1>7 DEF Switch, Sample, OffsetEnd, ResistanceEnd, PiControl, ErrorState,
                InCase
  <2>. QED
    BY <2>1, <2>2
<1>. QED
  BY <1>1, <1>2, <1>3, <1>4, <1>5, <1>6, <1>7, NextParts

LEMMA StopStep == TypeOK /\ EnableInv /\ StopInv /\ [Next]_vars => StopInv'
<1> SUFFICES ASSUME TypeOK, EnableInv, StopInv, [Next]_vars PROVE StopInv'
  OBVIOUS
<1> USE DEF StopInv, ctlVars
<1>1. CASE Elsewhere
  BY <1>1, ElsewhereFrame
<1>2. CASE WdInterrupt
  BY <1>2, InterruptFrame DEF TypeOK
<1>3. CASE GateDriver
  <2>1. /\ UNCHANGED enable /\ main' = "stop"
        /\ sinceStop' = IF enable = 0 THEN 1 ELSE sinceStop
    BY <1>3 DEF GateDriver, MainGoes
  <2>. QED
    BY <2>1
<1>4. CASE CheckStop
  <2>1. CASE enable = 0
    <3>1. state' = "ERROR" /\ ~outputs' /\ enable' = 0
      BY <1>4, <2>1 DEF CheckStop, StopController
    <3>. QED
      BY <3>1
  <2>2. CASE enable # 0
    <3>1. UNCHANGED <<enable, sinceStop>>
      BY <1>4 DEF CheckStop
    <3>. QED
      BY <2>2, <3>1
  <2>. QED
    BY <2>1, <2>2
<1>5. CASE CheckRequest
  <2>1. UNCHANGED <<enable, outputs, state, sinceStop>> /\ main = "request"
    BY <1>5 DEF CheckRequest, EnableInv
  <2>. QED
    BY <2>1
<1>6. CASE Acknowledge
  <2>1. UNCHANGED sinceStop /\ enable = 2
    BY <1>6 DEF Acknowledge, MainGoes, EnableInv
  <2>2. sinceStop # 1
    BY <2>1
  <2>. QED
    BY <2>1, <2>2
<1>7. CASE Switch
  <2>1. main = "switch" /\ UNCHANGED <<enable, sinceStop>>
    BY <1>7 DEF Switch, Sample, OffsetEnd, ResistanceEnd, PiControl, ErrorState,
                InCase, MainGoes
  <2>2. state = "ERROR" => UNCHANGED <<state, outputs>>
    BY <1>7 DEF Switch, Sample, OffsetEnd, ResistanceEnd, PiControl, ErrorState,
                InCase
  <2>. QED
    BY <2>1, <2>2
<1>. QED
  BY <1>1, <1>2, <1>3, <1>4, <1>5, <1>6, <1>7, NextParts

LEMMA GateStep == TypeOK /\ EnableInv /\ GateInv /\ [Next]_vars => GateInv'
<1> SUFFICES ASSUME TypeOK, EnableInv, GateInv, [Next]_vars PROVE GateInv'
  OBVIOUS
<1> USE DEF GateInv
<1>1. CASE Elsewhere
  BY <1>1, ElsewhereFrame
<1>2. CASE WdInterrupt
  BY <1>2, InterruptFrame DEF TypeOK
<1>3. CASE GateDriver
  <2>1. main = "gate" /\ main' = "stop" /\ UNCHANGED enable
    BY <1>3 DEF GateDriver, MainGoes
  <2>2. tripped' => ~gate'
    BY <1>3, <2>1 DEF GateDriver, IgdEnable, TypeOK
  <2>. QED
    BY <2>1, <2>2
<1>4. CASE CheckStop
  <2>1. /\ UNCHANGED <<enable, gate, tripped>>
        /\ enable = 2 => main' = "request"
    BY <1>4 DEF CheckStop
  <2>. QED
    BY <2>1
<1>5. CASE CheckRequest
  <2>1. UNCHANGED <<enable, gate, tripped>> /\ (enable = 2 => main' = "ack")
    BY <1>5 DEF CheckRequest
  <2>. QED
    BY <2>1
<1>6. CASE Acknowledge
  <2>1. UNCHANGED <<gate, tripped>> /\ enable' = 1
    BY <1>6 DEF Acknowledge
  <2>. QED
    BY <2>1
<1>7. CASE Switch
  <2>1. UNCHANGED <<gate, tripped, enable>> /\ enable # 2
    BY <1>7 DEF Switch, Sample, OffsetEnd, ResistanceEnd, PiControl, ErrorState,
                InCase, MainGoes, EnableInv
  <2>. QED
    BY <2>1
<1>. QED
  BY <1>1, <1>2, <1>3, <1>4, <1>5, <1>6, <1>7, NextParts

LEMMA DogStep == TypeOK /\ DogInv /\ [Next]_vars => DogInv'
<1> SUFFICES ASSUME DataOK, DogInv, [Next]_vars PROVE DogInv'
  BY TypeParts
<1> USE TimeAssumption DEF DogInv, DataOK, dogVars
<1>1. CASE Tick
  <2>1. /\ dog' = dog + 1 /\ wdTimer' = Down(wdTimer)
        /\ \/ main \in SpinPlaces /\ hog' = hog + 1
           \/ wdTimer > 0 /\ (hog' = hog \/ hog' = hog + 1)
    BY <1>1 DEF Tick
  <2>. QED
    BY <2>1 DEF Down
<1>2. CASE WdClear
  BY <1>2 DEF WdClear, WdTaskWait
<1>3. CASE WdInterrupt
  BY <1>3 DEF WdInterrupt
<1>4. CASE \/ PruEvent \/ MainStep \/ TransferEnd \/ SpinEnd \/ IgdStep
           \/ PinChange \/ UNCHANGED vars
  <2>1. UNCHANGED dogVars
    BY <1>4 DEF PruEvent, MainStep, Pend, GateDriver, CheckStop, CheckRequest,
       Acknowledge, Switch, TransferEnd, SpinEnd, IgdStep, IgdFault, IgdOctw,
       IgdBoth, PinChange, vars
  <2>. QED
    BY <2>1
<1>. QED
  BY <1>1, <1>2, <1>3, <1>4 DEF Next

LEMMA InitInv == Init => Inv
<1> SUFFICES ASSUME Init PROVE Inv
  OBVIOUS
<1>1. BoolOK
  <2>1. igdRead \in BOOLEAN
    BY Zenon DEF Init, ControllerInit, GateDriverInit, WatchdogInit, HistoryInit
  <2>. QED
    BY <2>1, Zenon DEF Init, ControllerInit, GateDriverInit, WatchdogInit,
                       HistoryInit, BoolOK
<1>2. DataOK
  BY TimeAssumption DEF Init, ControllerInit, GateDriverInit, WatchdogInit,
                        HistoryInit, DataOK, States
<1>3. CountInv /\ EnableInv /\ StopInv /\ GateInv /\ DogInv
  BY TimeAssumption DEF Init, ControllerInit, GateDriverInit, WatchdogInit,
                        HistoryInit, CountInv, MeansAreExact, EnableInv,
                        StopInv, GateInv,
                        DogInv
<1>. QED
  BY <1>1, <1>2, <1>3, TypeParts DEF Inv

LEMMA NextInv == Inv /\ [Next]_vars => Inv'
<1> SUFFICES ASSUME Inv, [Next]_vars PROVE Inv'
  OBVIOUS
<1>1. TypeOK'
  <2>1. (BoolOK /\ DataOK)'
    BY TypeParts, BoolStep, DataStep DEF Inv
  <2>. QED
    BY <2>1 DEF TypeOK, BoolOK, DataOK
<1>. QED
  BY <1>1, CountStep, EnableStep, StopStep, GateStep, DogStep DEF Inv

LEMMA InvAlways == Spec => []Inv
BY InitInv, NextInv, PTL DEF Spec

-----------------------------------------------------------------------------
(* Theorems *)

\* Every variable stays in its type: no accumulator outgrows its divisor.
THEOREM TypeCorrect == Spec => []TypeOK
BY InvAlways, PTL DEF Inv

\* Both means are over exactly SampleMax samples, the first taken by
\* CurrentCtlr_Init.
THEOREM MeansExact == Spec => []MeansAreExact
<1>1. Inv => MeansAreExact
  BY DEF Inv, CountInv
<1>. QED
  BY <1>1, InvAlways, PTL

\* A stop takes effect by the end of the first iteration begun after it.
THEOREM StopBounded == Spec => []StopWithinOneIteration
<1>1. Inv => StopWithinOneIteration
  BY DEF Inv, StopInv, StopWithinOneIteration
<1>. QED
  BY <1>1, InvAlways, PTL

\* The gate driver stays off after the controller has turned it off.
THEOREM GateFinal == Spec => []GateOffIsFinal
<1>1. Inv => GateOffIsFinal
  BY DEF Inv, GateInv, GateOffIsFinal
<1>. QED
  BY <1>1, InvAlways, PTL

\* The watchdog interrupts only a main task that has spun for the margin.
THEOREM MarginKept == Spec => []WatchdogMargin
<1>1. Inv => WatchdogMargin
  BY TimeAssumption DEF Inv, DogInv, WatchdogMargin, TypeOK
<1>. QED
  BY <1>1, InvAlways, PTL

\* A stop is never overwritten by the acknowledgement of the start request.
THEOREM StopFinal == Spec => StopNotOverwritten
<1>1. Inv /\ [Next]_vars => [enable = 0 => enable' = 0]_vars
  <2> SUFFICES ASSUME Inv, [Next]_vars, enable = 0 PROVE enable' = 0
    OBVIOUS
  <2>1. CASE Elsewhere
    BY <2>1, ElsewhereFrame
  <2>2. CASE WdInterrupt
    BY <2>2, InterruptFrame
  <2>3. CASE GateDriver \/ CheckStop \/ CheckRequest \/ Switch
    BY <2>3 DEF GateDriver, CheckStop, CheckRequest, Switch
  <2>4. CASE Acknowledge
    BY <2>4 DEF Acknowledge, MainGoes, Inv, EnableInv
  <2>. QED
    BY <2>1, <2>2, <2>3, <2>4, NextParts
<1>. QED
  BY <1>1, InvAlways, PTL DEF Spec, StopNotOverwritten

\* What a step does to the PWM is a command of the contract, or nothing.
LEMMA CommandStep == Inv /\ [Next]_vars => [Commands!Next]_(Commands!vars)
<1> SUFFICES ASSUME Inv, [Next]_vars PROVE [Commands!Next]_(Commands!vars)
  OBVIOUS
<1> USE DEF ctlVars
<1>1. UNCHANGED <<state, outputs>> => UNCHANGED Commands!vars
  BY DEF Commands!vars, stage
<1>2. CASE Elsewhere
  BY <1>1, <1>2, ElsewhereFrame
<1>3. CASE WdInterrupt
  BY <1>1, <1>3, InterruptFrame
<1>4. CASE GateDriver \/ Acknowledge
  BY <1>1, <1>4 DEF GateDriver, Acknowledge
<1>5. CASE CheckStop
  <2>1. CASE enable = 0
    <3>1. state' = "ERROR" /\ outputs' = FALSE
      BY <1>5, <2>1 DEF CheckStop, StopController
    <3>2. Commands!Stop
      BY <3>1 DEF Commands!Stop, stage
    <3>. QED
      BY <3>2 DEF Commands!Next
  <2>2. CASE enable # 0
    BY <1>1, <1>5, <2>2 DEF CheckStop
  <2>. QED
    BY <2>1, <2>2
<1>6. CASE CheckRequest
  <2>1. UNCHANGED <<state, outputs>>
    BY <1>6 DEF CheckRequest, Inv, EnableInv
  <2>. QED
    BY <1>1, <2>1
<1>7. CASE Switch
  <2>1. CASE OffsetEnd
    <3>1. state = "V_OFFSET" /\ state' = "R_CALC" /\ outputs' = TRUE
      BY <2>1 DEF OffsetEnd, InCase
    <3>2. Commands!Start
      BY <3>1 DEF Commands!Start, stage
    <3>. QED
      BY <3>2 DEF Commands!Next
  <2>2. CASE ResistanceEnd
    <3>1. state = "R_CALC" /\ state' = "PI" /\ outputs' = outputs
      BY <2>2 DEF ResistanceEnd, InCase
    <3>2. Commands!CloseLoop
      BY <3>1 DEF Commands!CloseLoop, stage
    <3>. QED
      BY <3>2 DEF Commands!Next
  <2>3. CASE \/ Sample("V_OFFSET") \/ Sample("R_CALC")
             \/ PiControl \/ ErrorState
    <3>1. UNCHANGED <<state, outputs>>
      BY <2>3 DEF Sample, PiControl, ErrorState
    <3>. QED
      BY <1>1, <3>1
  <2>. QED
    BY <1>7, <2>1, <2>2, <2>3 DEF Switch
<1>. QED
  BY <1>2, <1>3, <1>4, <1>5, <1>6, <1>7, NextParts

\* Under every interleaving of the tasks and the watchdog, the controller gives the
\* PWM the commands of PwmCommands, in that order, and never restarts it.
THEOREM ContractKept == Spec => KeepsContract
<1>1. Init => Commands!Init
  BY DEF Init, ControllerInit, GateDriverInit, WatchdogInit, HistoryInit,
         Commands!Init, stage
<1>. QED
  BY <1>1, CommandStep, InvAlways, PTL DEF Spec, KeepsContract, Commands!Spec

-----------------------------------------------------------------------------
(* What the calibration and the estimator leave unused *)

\* Igd_UpdateVoltageOffset copies nothing when it is given two offsets, and theta is
\* estimated only with a counter that the PI phase never moves from zero.
EstimatesUnused ==
  /\ igdOffset = "zero" /\ theta = "zero"
  /\ state = "PI" => isrCnt = 0

LEMMA UnusedStep == Inv /\ EstimatesUnused /\ [Next]_vars => EstimatesUnused'
<1> SUFFICES ASSUME Inv, EstimatesUnused, [Next]_vars PROVE EstimatesUnused'
  OBVIOUS
<1> USE DEF EstimatesUnused, ctlVars
<1>1. CASE Elsewhere \/ WdInterrupt
  BY <1>1, ElsewhereFrame, InterruptFrame
<1>2. CASE GateDriver \/ Acknowledge
  BY <1>2 DEF GateDriver, Acknowledge
<1>3. CASE CheckStop
  <2>1. UNCHANGED <<igdOffset, theta, isrCnt>> /\ state' \in {state, "ERROR"}
    BY <1>3 DEF CheckStop, StopController
  <2>. QED
    BY <2>1
<1>4. CASE CheckRequest
  <2>1. UNCHANGED <<igdOffset, theta, isrCnt>> /\ state' \in {state, "V_OFFSET"}
    BY <1>4 DEF CheckRequest
  <2>. QED
    BY <2>1
<1>5. CASE Switch
  <2>1. CASE OffsetEnd
    <3>1. /\ igdOffset' = IF CopiedOffsets(2) = 2 THEN "calibrated" ELSE igdOffset
          /\ UNCHANGED theta /\ state' = "R_CALC"
      BY <2>1 DEF OffsetEnd
    <3>2. CopiedOffsets(2) = 0
      BY DEF CopiedOffsets
    <3>. QED
      BY <3>1, <3>2
  <2>2. CASE ResistanceEnd
    BY <2>2 DEF ResistanceEnd
  <2>3. CASE PiControl
    <3>1. isrCnt = 0
      BY <2>3 DEF PiControl, InCase
    <3>. QED
      BY <2>3, <3>1 DEF PiControl
  <2>4. CASE ErrorState
    BY <2>4 DEF ErrorState
  <2>5. ASSUME NEW st \in {"V_OFFSET", "R_CALC"}, Sample(st) PROVE EstimatesUnused'
    BY <2>5 DEF Sample, InCase
  <2>. QED
    BY <1>5, <2>1, <2>2, <2>3, <2>4, <2>5 DEF Switch
<1>. QED
  BY <1>1, <1>2, <1>3, <1>4, <1>5, NextParts

\* Whatever the number of samples, the offsets of the calibration never reach the gate
\* driver and theta is zero in every iteration: the two comments that say otherwise
\* (CalibrationApplied, ThetaEstimated) are false of the whole PI phase.
THEOREM NothingIsEstimated == Spec => []EstimatesUnused
<1>1. Init => EstimatesUnused
  BY DEF Init, ControllerInit, EstimatesUnused
<1>. QED
  BY <1>1, UnusedStep, InvAlways, PTL DEF Spec

-----------------------------------------------------------------------------
(* A pin that stays at fault *)

\* Every scan of Igd_Main that is under way has found the pin, or is yet to read it.
ScanHolds(p) ==
  igd = "sleep" \/ (igdRead /\ ~igdStart) \/ (igd = "octw" /\ p = "nOctw")

\* What a scan changes, and that nothing else changes Igd_Start or what was read.
LEMMA ScanFrame ==
  [Next]_vars => IgdStep \/ UNCHANGED <<igd, igdRead, igdStart>>
BY DEF Next, PruEvent, MainStep, Pend, GateDriver, CheckStop, CheckRequest, Acknowledge,
       Switch, TransferEnd, SpinEnd, WdClear, WdInterrupt, PinChange, Tick, vars, igdVars

\* While a pin is at fault, a scan begun under the fault finds it whichever pin it is,
\* leaves Igd_Start FALSE when it ends, and no scan sets Igd_Start again: preempted
\* between its two reads or not, Igd_Main has the fault from one scan on.
THEOREM FaultHoldsStart ==
  ASSUME NEW p \in Pins
  PROVE  Spec => [][fault[p] /\ fault'[p] /\ ScanHolds(p) =>
                      /\ ScanHolds(p)'
                      /\ igdStart' => igdStart
                      /\ igd # "sleep" /\ igd' = "sleep" => ~igdStart']_vars
<1> DEFINE Held == fault[p] /\ fault'[p] /\ ScanHolds(p) =>
                     /\ ScanHolds(p)'
                     /\ igdStart' => igdStart
                     /\ igd # "sleep" /\ igd' = "sleep" => ~igdStart'
<1>1. Inv /\ [Next]_vars => Held
  <2> SUFFICES ASSUME Inv, [Next]_vars, fault[p], ScanHolds(p)
               PROVE  /\ ScanHolds(p)'
                      /\ igdStart' => igdStart
                      /\ igd # "sleep" /\ igd' = "sleep" => ~igdStart'
    OBVIOUS
  <2> USE DEF ScanHolds
  <2>1. CASE IgdFault
    <3>1. /\ igd = "sleep" /\ igd' = "octw"
          /\ igdRead' = fault["nFault"]
          /\ igdStart' = (igdStart /\ ~fault["nFault"])
      BY <2>1 DEF IgdFault
    <3>2. CASE p = "nFault"
      BY <3>1, <3>2
    <3>3. CASE p = "nOctw"
      BY <3>1, <3>3
    <3>. QED
      BY <3>2, <3>3 DEF Pins
  <2>2. CASE IgdOctw
    <3>1. /\ igd = "octw" /\ igd' = "both"
          /\ igdRead' = (igdRead \/ fault["nOctw"])
          /\ igdStart' = (igdStart /\ ~fault["nOctw"])
      BY <2>2 DEF IgdOctw, EitherPin
    <3>2. CASE p = "nFault"
      BY <3>1, <3>2
    <3>3. CASE p = "nOctw"
      BY <3>1, <3>3
    <3>. QED
      BY <3>2, <3>3 DEF Pins
  <2>3. CASE IgdBoth
    <3>1. igd = "both" /\ igd' = "sleep" /\ (igdRead => igdStart' = igdStart)
      BY <2>3 DEF IgdBoth
    <3>. QED
      BY <3>1
  <2>4. CASE UNCHANGED <<igd, igdRead, igdStart>>
    BY <2>4
  <2>. QED
    BY <2>1, <2>2, <2>3, <2>4, ScanFrame DEF IgdStep
<1>. QED
  BY <1>1, InvAlways, PTL DEF Spec
=============================================================================
