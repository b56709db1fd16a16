---------------------------- MODULE PwmPace_proofs ----------------------------
(***************************************************************************)
(* Proofs about PwmHandoff, for every value of its constants, that rest on *)
(* how the PRU paces the R5 and itself: no update is skipped by an R5 that *)
(* keeps up, the events keep their cadence, and the PWM ends within three  *)
(* reloads of the stop.  The R5's commands to the PWM are those of the     *)
(* contract PwmCommands.                                                   *)
(***************************************************************************)
EXTENDS PwmHandoff_proofs

\* The enable word follows the controller's state: written when the offset phase ends
\* and cleared when the error state is entered.  Before that the PWM has not been started.
EnableFollows ==
  /\ enable <=> ctl \in {"rcalc", "pi"}
  /\ r5 \in {"write", "publish"} => ctl \in {"offset", "pi"}
  /\ r5 \in {"deadtime", "enable"} => ctl = "offset"
  /\ ctl = "offset" => pwmMainSt = "INIT" /\ ~pwmEnable

LEMMA EnableStep == TypeOK /\ PruPlace /\ EnableFollows /\ [Next]_vars => EnableFollows'
<1> SUFFICES ASSUME TypeOK, PruPlace, EnableFollows, [Next]_vars PROVE EnableFollows'
  OBVIOUS
<1> USE DEF EnableFollows
<1>1. CASE R5Isr \/ R5Main
  <2>0. UNCHANGED <<pwmMainSt, pwmEnable>>
    BY <1>1, R5Frame DEF pruvars
  <2>1. CASE R5Isr \/ Pend
    BY <2>0, <2>1 DEF R5Isr, IsrPost, IsrClear, Pend, shared, r5vars
  <2>2. CASE ControlSample \/ SetDutycycle
    BY <2>0, <2>2 DEF ControlSample, SetDutycycle, R5At, shared
  <2>3. CASE WriteDutyWord \/ SetDeadTime
    BY <2>0, <2>3 DEF WriteDutyWord, SetDeadTime, R5At
  <2>4. CASE PublishIndex
    BY <2>0, <2>4 DEF PublishIndex, R5At
  <2>5. CASE EnableOutputs \/ DisableOutputs
    BY <2>0, <2>5 DEF EnableOutputs, DisableOutputs, R5At
  <2>. QED
    BY <1>1, <2>1, <2>2, <2>3, <2>4, <2>5 DEF R5Main
<1>2. CASE Pru
  <2>0. UNCHANGED <<enable, r5, ctl>>
    BY <1>2, PruFrame DEF shared, r5vars
  <2>1. CASE InitSkip \/ InitDisabled \/ LowStart \/ HighStart \/ Latch \/ RaiseEvent \/ HighSide
    BY <2>0, <2>1 DEF InitSkip, InitDisabled, LowStart, HighStart, Latch, RaiseEvent, HighSide
  <2>2. CASE InitEnabled \/ Restart
    BY <2>0, <2>2 DEF InitEnabled, Restart
  <2>3. CASE LowSide \/ CheckEnable
    <3>1. ctl # "offset"
      BY <2>3 DEF LowSide, CheckEnable, PruPlace
    <3>. QED
      BY <2>0, <3>1
  <2>. QED
    BY <1>2, <2>1, <2>2, <2>3 DEF Pru
<1>3. CASE UNCHANGED vars
  BY <1>3, IdleFrame DEF shared, r5vars, pruvars
<1>. QED
  BY <1>1, <1>2, <1>3 DEF Next

-----------------------------------------------------------------------------
(* The updates *)

LEMMA CtlValues == TypeOK => ctl \in {"offset", "rcalc", "pi", "error"}
BY DEF TypeOK

\* An R5 that is on time has at most one iteration to do, and none when the PRU is
\* about to ask for one.  An update it has published and the PRU has not latched is
\* its last until then: the iteration is over, or goes on to enable the PWM.
Paced ==
  ~late =>
    /\ AtMostOne
    /\ pru = "event" => R5Idle
    /\ ~taken /\ ctl # "error" =>
         ~Outstanding /\ r5 \notin {"write", "publish"} /\ pru # "event"

\* In the offset phase the first update leads straight to the enable word.
FirstUpdate == ctl = "offset" /\ ~taken => r5 \in {"deadtime", "enable"}

LEMMA FirstUpdateStep == FirstUpdate /\ [Next]_vars => FirstUpdate'
<1> SUFFICES ASSUME FirstUpdate, [Next]_vars PROVE FirstUpdate'
  OBVIOUS
<1> USE DEF FirstUpdate
<1>1. CASE R5Isr \/ Pend
  BY <1>1 DEF R5Isr, IsrPost, IsrClear, Pend, R5At, r5vars, history
<1>2. CASE ControlSample \/ SetDutycycle \/ WriteDutyWord
  BY <1>2 DEF ControlSample, SetDutycycle, WriteDutyWord, R5At, history
<1>3. CASE PublishIndex \/ SetDeadTime \/ EnableOutputs \/ DisableOutputs
  BY <1>3 DEF PublishIndex, SetDeadTime, EnableOutputs, DisableOutputs, R5At, history
<1>4. CASE Pru
  <2>1. UNCHANGED <<r5, ctl>> /\ (~taken' => ~taken)
    BY <1>4 DEF Pru, InitSkip, InitDisabled, InitEnabled, LowStart, HighStart, Restart,
                Latch, RaiseEvent, HighSide, LowSide, CheckEnable, r5vars, history
  <2>. QED
    BY <2>1
<1>5. CASE UNCHANGED vars
  BY <1>5 DEF vars, r5vars, history
<1>. QED
  BY <1>1, <1>2, <1>3, <1>4, <1>5 DEF Next, R5Main

\* The R5's half: it works off what it was asked for.
LEMMA PacedR5 ==
  EnableFollows /\ Paced /\ (R5Isr \/ R5Main) => Paced'
<1> SUFFICES ASSUME EnableFollows, Paced, R5Isr \/ R5Main, ~late' PROVE Paced'
  BY DEF Paced
<1>0. UNCHANGED pru /\ ~late
  BY R5Frame DEF pruvars
<1> USE <1>0 DEF Paced
<1>1. CASE R5Isr
  <2>1. UNCHANGED <<r5, ctl, taken>> /\ pru # "event"
    BY <1>1 DEF R5Isr, IsrPost, IsrClear, R5Idle, r5vars, history
  <2>2. AtMostOne' /\ (Outstanding' => Outstanding)
    BY <1>1, <2>1 DEF R5Isr, IsrPost, IsrClear, AtMostOne, Outstanding
  <2>. QED
    BY <2>1, <2>2
<1>2. CASE Pend
  <2>1. /\ UNCHANGED <<sysEvent, isr, ctl, taken>> /\ adcSem /\ ~adcSem'
        /\ isr = "none" /\ r5' = "control" /\ pru # "event"
    BY <1>2 DEF Pend, R5At, R5Idle
  <2>2. AtMostOne' /\ Outstanding
    BY <2>1 DEF AtMostOne, Outstanding
  <2>. QED
    BY <2>1, <2>2
<1>3. CASE ControlSample \/ SetDutycycle
  <2>1. /\ UNCHANGED <<sysEvent, adcSem, isr, taken>> /\ r5 = "control" /\ pru # "event"
        /\ r5' \in {"pend", "write"} /\ (ctl = "error" => ctl' = "error")
    BY <1>3 DEF ControlSample, SetDutycycle, R5At, R5Idle, history
  <2>2. AtMostOne' /\ ~Outstanding' /\ Outstanding
    BY <2>1 DEF AtMostOne, Outstanding
  <2>3. taken' \/ ctl' = "error"
    BY <2>1, <2>2
  <2>. QED
    BY <2>1, <2>2, <2>3
<1>4. CASE DisableOutputs
  <2>1. /\ UNCHANGED <<sysEvent, adcSem, isr, taken>> /\ r5 = "control" /\ pru # "event"
        /\ r5' = "pend" /\ ctl' = "error"
    BY <1>4 DEF DisableOutputs, R5At, R5Idle
  <2>2. AtMostOne'
    BY <2>1 DEF AtMostOne
  <2>. QED
    BY <2>1, <2>2
<1>5. CASE WriteDutyWord
  <2>1. /\ UNCHANGED <<sysEvent, adcSem, isr, ctl, taken>> /\ r5 = "write"
        /\ r5' \in {"write", "publish"} /\ pru # "event"
    BY <1>5 DEF WriteDutyWord, R5At, R5Idle, history
  <2>2. AtMostOne'
    BY <2>1 DEF AtMostOne
  <2>. QED
    BY <2>1, <2>2
<1>6. CASE PublishIndex \/ SetDeadTime \/ EnableOutputs
  <2>1. /\ UNCHANGED <<sysEvent, adcSem, isr>> /\ r5 \in {"publish", "deadtime", "enable"}
        /\ r5' \in {"pend", "deadtime", "enable"} /\ pru # "event"
    BY <1>6 DEF PublishIndex, SetDeadTime, EnableOutputs, R5At, R5Idle
  <2>2. AtMostOne' /\ ~Outstanding'
    BY <2>1 DEF AtMostOne, Outstanding
  <2>. QED
    BY <2>1, <2>2
<1>. QED
  BY <1>1, <1>2, <1>3, <1>4, <1>5, <1>6 DEF R5Main

\* The PRU's half: it takes the R5 as on time only if it is idle, and latches what it
\* has published before it asks for more, unless the PWM is still off.
LEMMA PacedPru ==
  TypeOK /\ PruPlace /\ EnableFollows /\ FirstUpdate /\ Paced /\ Pru => Paced'
<1> SUFFICES ASSUME TypeOK, PruPlace, EnableFollows, FirstUpdate, Paced, Pru, ~late'
             PROVE  Paced'
  BY DEF Paced
<1>0. UNCHANGED <<isr, adcSem, r5, ctl, enable>>
  BY PruFrame DEF shared, r5vars
<1> USE <1>0
<1>1. CASE \/ InitSkip \/ InitEnabled \/ LowStart \/ HighStart \/ Restart
           \/ HighSide \/ LowSide \/ CheckEnable
  <2>1. UNCHANGED <<sysEvent, taken, late>> /\ pru' # "event"
    BY <1>1 DEF InitSkip, InitEnabled, LowStart, HighStart, Restart, HighSide, LowSide,
                CheckEnable, Reload, history
  <2>2. (AtMostOne' <=> AtMostOne) /\ (Outstanding' <=> Outstanding)
    BY <2>1 DEF AtMostOne, Outstanding
  <2>. QED
    BY <2>1, <2>2 DEF Paced
<1>2. CASE InitDisabled
  <2>1. UNCHANGED <<sysEvent, taken>> /\ R5Idle /\ ~enable
    BY <1>2 DEF InitDisabled
  <2>2. AtMostOne' /\ R5Idle'
    BY <2>1 DEF AtMostOne, R5Idle
  <2>3. taken \/ ctl = "error"
    <3>1. ctl = "offset" => taken
      BY <2>1 DEF FirstUpdate, R5Idle
    <3>2. ctl \notin {"rcalc", "pi"}
      BY <2>1 DEF EnableFollows
    <3>. QED
      BY <2>1, <3>1, <3>2, CtlValues
  <2>. QED
    BY <2>1, <2>2, <2>3 DEF Paced
<1>3. CASE Latch
  <2>1. UNCHANGED sysEvent /\ R5Idle /\ taken'
    BY <1>3 DEF Latch
  <2>2. AtMostOne' /\ R5Idle'
    BY <2>1 DEF AtMostOne, R5Idle
  <2>. QED
    BY <2>1, <2>2 DEF Paced
<1>4. CASE RaiseEvent
  <2>1. UNCHANGED <<taken, late>> /\ pru = "event" /\ pru' # "event"
    BY <1>4 DEF RaiseEvent
  <2>2. R5Idle /\ (taken \/ ctl = "error")
    BY <2>1 DEF Paced
  <2>3. AtMostOne'
    BY <2>2 DEF AtMostOne, R5Idle
  <2>. QED
    BY <2>1, <2>2, <2>3 DEF Paced
<1>. QED
  BY <1>1, <1>2, <1>3, <1>4 DEF Pru

PaceInv == TypeOK /\ PruPlace /\ EnableFollows /\ FirstUpdate /\ Paced

LEMMA PaceAlways == Spec => []PaceInv
<1>1. Init => PaceInv
  <2> SUFFICES ASSUME Init PROVE PaceInv
    OBVIOUS
  <2>1. PruPlace /\ EnableFollows /\ FirstUpdate /\ Paced
    BY DEF Init, SharedInit, R5Init, PruInit, HistoryInit, PruPlace, EnableFollows,
           FirstUpdate, Paced, AtMostOne
  <2>. QED
    BY <2>1, InitTypeOK DEF PaceInv
<1>2. PaceInv /\ [Next]_vars => PaceInv'
  <2> SUFFICES ASSUME PaceInv, [Next]_vars PROVE PaceInv'
    OBVIOUS
  <2>1. TypeOK' /\ PruPlace' /\ EnableFollows' /\ FirstUpdate'
    BY NextTypeOK, PruPlaceStep, EnableStep, FirstUpdateStep DEF PaceInv
  <2>2. CASE Next
    BY <2>1, <2>2, PacedR5, PacedPru DEF PaceInv, Next
  <2>3. CASE UNCHANGED vars
    <3>1. Paced'
      BY <2>3 DEF PaceInv, Paced, AtMostOne, R5Idle, Outstanding, vars, shared, r5vars,
                  pruvars, history
    <3>. QED
      BY <2>1, <3>1 DEF PaceInv
  <2>. QED
    BY <2>2, <2>3
<1>. QED
  BY <1>1, <1>2, PTL DEF Spec

\* Two banks without an acknowledgement are enough: an R5 that was on time never publishes
\* in the closed loop over an update that the PRU has not latched.
THEOREM UpdatesUsed == Spec => []NoUpdateSkipped
<1>1. PaceInv => NoUpdateSkipped
  BY DEF PaceInv, Paced, NoUpdateSkipped
<1>. QED
  BY <1>1, PaceAlways, PTL

-----------------------------------------------------------------------------
(* The events *)

\* How many reloads ago the last event was, at each place of the PRU.
Cadence ==
  /\ pru # "poll" \/ pwmMainSt # "INIT" => isrCnt = 1
  /\ pru = "poll" /\ pwmMainSt = "INIT" =>
       IF isrCnt = 1 THEN gap \in {0, 2} ELSE gap \in {1, 3}
  /\ pru = "poll" /\ pwmMainSt = "HIGH" => gap = 0
  /\ pru = "poll" /\ pwmMainSt \in {"LOW", "RESTART"} => gap = 1
  /\ pru \in {"latch", "event"} => gap \in {2, 4}
  /\ pru \in {"high", "low"} => gap = IF pwmMainSt = "HIGH" THEN 1 ELSE 0
  /\ pru = "check" => gap = 1

CadenceInv == TypeOK /\ PruPlace /\ Cadence

LEMMA CadenceStep == CadenceInv /\ [Next]_vars => CadenceInv'
<1> SUFFICES ASSUME CadenceInv, [Next]_vars PROVE CadenceInv'
  OBVIOUS
<1>0. TypeOK' /\ PruPlace'
  BY NextTypeOK, PruPlaceStep DEF CadenceInv
<1> SUFFICES Cadence'
  BY <1>0 DEF CadenceInv
<1> USE DEF CadenceInv, Cadence
<1>1. CASE R5Isr \/ R5Main \/ UNCHANGED vars
  <2>1. UNCHANGED <<pruvars, gap>>
    BY <1>1, R5Frame, IdleFrame DEF R5Isr, R5Main, IsrPost, IsrClear, Pend, ControlSample,
       SetDutycycle, WriteDutyWord, PublishIndex, SetDeadTime, EnableOutputs,
       DisableOutputs, vars, history
  <2>. QED
    BY <2>1 DEF pruvars
<1>2. CASE InitSkip \/ InitDisabled \/ InitEnabled
  BY <1>2 DEF InitSkip, InitDisabled, InitEnabled, Reload, MaxGap, TypeOK
<1>3. CASE LowStart \/ HighStart \/ Restart
  BY <1>3 DEF LowStart, HighStart, Restart, Reload, MaxGap
<1>4. CASE Latch
  BY <1>4 DEF Latch
<1>5. CASE RaiseEvent
  BY <1>5 DEF RaiseEvent, PruPlace
<1>6. CASE HighSide \/ LowSide
  BY <1>6 DEF HighSide, LowSide, SecondHalf, PruPlace, history
<1>7. CASE CheckEnable
  BY <1>7 DEF CheckEnable, PruPlace, history
<1>. QED
  BY <1>1, <1>2, <1>3, <1>4, <1>5, <1>6, <1>7 DEF Next, Pru

\* The R5 is paced every two reloads, and once every four across a restart: what isr_cnt
\* is left with when the PWM starts is what it is found with when the PWM has ended.
THEOREM EventsInCadence == Spec => []EventCadence
<1>1. Init => CadenceInv
  <2> SUFFICES ASSUME Init PROVE CadenceInv
    OBVIOUS
  <2>1. PruPlace /\ Cadence
    BY DEF Init, PruInit, HistoryInit, PruPlace, Cadence
  <2>. QED
    BY <2>1, InitTypeOK DEF CadenceInv
<1>2. CadenceInv => EventCadence
  BY DEF CadenceInv, Cadence, EventCadence
<1>. QED
  BY <1>1, <1>2, CadenceStep, PTL DEF Spec

-----------------------------------------------------------------------------
(* The stop *)

\* Before the PWM starts and after it has ended the outputs are off.  After a stop the
\* place of the PRU bounds the reloads it has made.
Quiet ==
  /\ pwmMainSt = "INIT" /\ ~pwmEnable =>
       tripReset /\ cmpHigh = ZeroDuty /\ cmpLow = ZeroDuty
  /\ ctl = "error" =>
       /\ pwmMainSt = "LOW" /\ pru = "poll" => sinceStop = 0
       /\ pwmEnable /\ pwmMainSt \in {"INIT", "LOW"} => sinceStop <= 1
       /\ pwmMainSt = "HIGH" => sinceStop <= IF pru = "poll" THEN 1 ELSE 2
       /\ pwmMainSt = "RESTART" => sinceStop <= 2

QuietInv == TypeOK /\ PruPlace /\ EnableFollows /\ Quiet

LEMMA QuietStep == QuietInv /\ [Next]_vars => QuietInv'
<1> SUFFICES ASSUME QuietInv, [Next]_vars PROVE QuietInv'
  OBVIOUS
<1>0. TypeOK' /\ PruPlace' /\ EnableFollows'
  BY NextTypeOK, PruPlaceStep, EnableStep DEF QuietInv
<1> SUFFICES Quiet'
  BY <1>0 DEF QuietInv
<1> USE DEF QuietInv, Quiet
<1>1. CASE DisableOutputs
  <2>1. UNCHANGED pruvars /\ (sinceStop' = 0 \/ (sinceStop' = sinceStop /\ ~enable))
    BY <1>1 DEF DisableOutputs
  <2>2. sinceStop' = 0 \/ ctl = "error" \/ (pwmMainSt = "INIT" /\ ~pwmEnable)
    BY <2>1, CtlValues DEF EnableFollows
  <2>. QED
    BY <2>1, <2>2 DEF pruvars
<1>2. CASE \/ R5Isr \/ Pend \/ ControlSample \/ SetDutycycle \/ WriteDutyWord
           \/ PublishIndex \/ SetDeadTime \/ EnableOutputs \/ UNCHANGED vars
  <2>1. UNCHANGED <<pruvars, sinceStop>> /\ (ctl' = "error" => ctl = "error")
    BY <1>2 DEF R5Isr, IsrPost, IsrClear, Pend, ControlSample, SetDutycycle,
       WriteDutyWord, PublishIndex, SetDeadTime, EnableOutputs, vars, r5vars, history
  <2>. QED
    BY <2>1 DEF pruvars
<1>3. CASE Pru
  <2>0. UNCHANGED <<ctl, enable>>
    BY <1>3, PruFrame DEF shared, r5vars
  <2>1. CASE InitSkip \/ InitDisabled \/ InitEnabled
    BY <2>0, <2>1 DEF InitSkip, InitDisabled, InitEnabled, Reload, EnableFollows, PruPlace
  <2>2. CASE LowStart \/ HighStart
    BY <2>0, <2>2 DEF LowStart, HighStart, Reload, MaxSinceStop, TypeOK
  <2>3. CASE Restart
    BY <2>0, <2>3 DEF Restart, Reload, PruPlace
  <2>4. CASE Latch \/ RaiseEvent
    BY <2>0, <2>4 DEF Latch, RaiseEvent, PruPlace
  <2>5. CASE HighSide \/ LowSide
    <3>1. pwmEnable /\ pwmMainSt \in {"INIT", "LOW", "HIGH"}
      BY <2>5 DEF HighSide, LowSide, PruPlace, TypeOK
    <3>. QED
      BY <2>0, <2>5, <3>1 DEF HighSide, LowSide, SecondHalf, history
  <2>6. CASE CheckEnable
    BY <2>0, <2>6 DEF CheckEnable, PruPlace, EnableFollows, history
  <2>. QED
    BY <1>3, <2>1, <2>2, <2>3, <2>4, <2>5, <2>6 DEF Pru
<1>. QED
  BY <1>1, <1>2, <1>3 DEF Next, R5Main

\* Three reloads after the stop the PWM is off, wherever in its period the stop met it.
THEOREM SilentInTime == Spec => []SilentAfterStop
<1>1. Init => QuietInv
  <2> SUFFICES ASSUME Init PROVE QuietInv
    OBVIOUS
  <2>1. PruPlace /\ EnableFollows /\ Quiet
    BY DEF Init, SharedInit, R5Init, PruInit, HistoryInit, PruPlace, EnableFollows, Quiet
  <2>. QED
    BY <2>1, InitTypeOK DEF QuietInv
<1>2. QuietInv => SilentAfterStop
  BY DEF QuietInv, Quiet, PruPlace, TypeOK, SilentAfterStop
<1>. QED
  BY <1>1, <1>2, QuietStep, PTL DEF Spec

-----------------------------------------------------------------------------
(* The contract *)

LEMMA CommandStep == EnableFollows /\ [Next]_vars => [Commands!Next]_(Commands!vars)
<1> SUFFICES ASSUME EnableFollows, [Next]_vars PROVE [Commands!Next]_(Commands!vars)
  OBVIOUS
<1>1. UNCHANGED <<ctl, enable>> => UNCHANGED Commands!vars
  BY DEF Commands!vars
<1>2. CASE Pru \/ UNCHANGED vars
  BY <1>1, <1>2, PruFrame, IdleFrame DEF shared, r5vars
<1>3. CASE R5Isr \/ Pend \/ SetDutycycle \/ WriteDutyWord \/ PublishIndex \/ SetDeadTime
  <2>1. UNCHANGED <<ctl, enable>>
    BY <1>3 DEF R5Isr, IsrPost, IsrClear, Pend, SetDutycycle, WriteDutyWord,
                PublishIndex, SetDeadTime, shared, r5vars
  <2>. QED
    BY <1>1, <2>1
<1>4. CASE ControlSample
  <2>1. UNCHANGED enable /\ (ctl' = ctl \/ (ctl = "rcalc" /\ ctl' = "pi"))
    BY <1>4 DEF ControlSample, shared
  <2>. QED
    BY <1>1, <2>1 DEF Commands!Next, Commands!CloseLoop
<1>5. CASE EnableOutputs
  <2>1. ctl = "offset" /\ ctl' = "rcalc" /\ enable' = TRUE
    BY <1>5 DEF EnableOutputs, R5At, EnableFollows
  <2>. QED
    BY <2>1 DEF Commands!Next, Commands!Start
<1>6. CASE DisableOutputs
  <2>1. ctl' = "error" /\ enable' = FALSE
    BY <1>6 DEF DisableOutputs
  <2>. QED
    BY <2>1 DEF Commands!Next, Commands!Stop
<1>. QED
  BY <1>2, <1>3, <1>4, <1>5, <1>6 DEF Next, R5Main

\* The commands that reach the enable word are those of the contract, in its order: the
\* PWM is started once, and a stop is final.
THEOREM ContractKept == Spec => KeepsContract
<1>1. Init => Commands!Init
  BY DEF Init, SharedInit, R5Init, Commands!Init
<1>2. PaceInv => EnableFollows
  BY DEF PaceInv
<1>. QED
  BY <1>1, <1>2, CommandStep, PaceAlways, PTL DEF Spec, KeepsContract, Commands!Spec

-----------------------------------------------------------------------------
(* The two banks as one register *)

\* What a period is computed from when it is on time, and its numbers when it is not.
RegisterInv == DeadTimeInv /\ FullPulseInv /\ PaceInv

LEMMA RegisterAlways == Spec => []RegisterInv
<1>1. Spec => []DeadTimeInv
  BY InitDeadTimeInv, NextDeadTimeInv, PTL DEF Spec
<1>2. Spec => []FullPulseInv
  BY InitPulseInv, NextPulseInv, PTL DEF Spec
<1>. QED
  BY <1>1, <1>2, PaceAlways, PTL DEF RegisterInv

\* A compare of the first half that lies in it is the difference itself: a difference that
\* had wrapped would lie beyond the half period.
LEMMA RiseUnwrapped ==
  ASSUME NEW d \in Word, RiseHigh(d) < PeriodHalf
  PROVE  RiseHigh(d) = PeriodHalf - (d \div 2)
<1>1. d \div 2 \in Int /\ 0 <= d \div 2 /\ d \div 2 < WordSize
  BY TickAssumption DEF Word
<1>2. PeriodHalf - (d \div 2) < WordSize
  BY <1>1, TickAssumption
<1>3. PeriodHalf - (d \div 2) + WordSize > PeriodHalf
  BY <1>1, TickAssumption
<1>. QED
  BY <1>1, <1>2, <1>3, TickAssumption DEF RiseHigh, Wrap

\* A complete half of a period is as the register's specification describes it.
HalvesAsSpecified ==
  /\ FirstHalfSet => \A p \in Phases :
       /\ ~late => cmpHigh[p] = PeriodHalf - (latched[p] \div 2)
       /\ 0 < cmpLow[p] /\ cmpLow[p] + DeadTicks = cmpHigh[p] /\ cmpHigh[p] < PeriodHalf
  /\ SecondHalfSet => \A p \in Phases :
       /\ ~late => cmpHigh[p] = latched[p] \div 2
       /\ 0 < cmpHigh[p] /\ cmpHigh[p] + DeadTicks = cmpLow[p] /\ cmpLow[p] < PeriodHalf

LEMMA HalvesCorrect == RegisterInv => HalvesAsSpecified
<1> SUFFICES ASSUME RegisterInv PROVE HalvesAsSpecified
  OBVIOUS
<1>1. DeadTimeKept
  BY DeadTimeInvKept DEF RegisterInv
<1>2. PulseFromOneDutySet
  BY DEF RegisterInv, FullPulseInv, PulseInv, PulseLatched, PulseFromOneDutySet
<1>3. \A p \in Phases : latched[p] \in Word
  BY DEF RegisterInv, PaceInv, TypeOK, DutySet
<1>4. FirstHalfSet => \A p \in Phases :
        /\ ~late => cmpHigh[p] = PeriodHalf - (latched[p] \div 2)
        /\ 0 < cmpLow[p] /\ cmpLow[p] + DeadTicks = cmpHigh[p] /\ cmpHigh[p] < PeriodHalf
  BY <1>1, <1>2, <1>3, RiseUnwrapped DEF DeadTimeKept, PulseFromOneDutySet
<1>. QED
  BY <1>1, <1>2, <1>4 DEF HalvesAsSpecified, DeadTimeKept, PulseFromOneDutySet, FallHigh

LEMMA HalvesCorrectNext == RegisterInv' => HalvesAsSpecified'
BY HalvesCorrect, PTL

\* What a step leaves alone of what the register's specification sees.
LEMMA Unseen ==
  UNCHANGED <<published, taken, latched, late, Half, SetCompares(cmpHigh), SetCompares(cmpLow)>>
    => UNCHANGED Register!vars
BY DEF Register!vars

\* The R5's part: one step of it sets the register, whole and within the limits.
LEMMA RegisterStepR5 ==
  RegisterInv /\ (R5Isr \/ R5Main) => [Register!Next]_(Register!vars)
<1> SUFFICES ASSUME RegisterInv, R5Isr \/ R5Main PROVE [Register!Next]_(Register!vars)
  OBVIOUS
<1>0. UNCHANGED <<latched, late, Half, SetCompares(cmpHigh), SetCompares(cmpLow)>>
  BY R5Frame DEF pruvars, Half, SetCompares, FirstHalfSet, SecondHalfSet, SecondHalf
<1>1. CASE PublishIndex
  <2>1. r5 = "publish" /\ published' = pwmArrayLoc /\ taken' = FALSE
    BY <1>1 DEF PublishIndex, R5At
  <2>2. pwmArrayLoc \in [Phases -> MinDuty..MaxDuty]
    <3>1. pwmArrayLoc \in DutySet /\ \A p \in Phases : Clamped(pwmArrayLoc[p])
      BY <2>1 DEF RegisterInv, PaceInv, TypeOK, FullPulseInv, R5Clamped
    <3>2. \A p \in Phases : pwmArrayLoc[p] \in MinDuty..MaxDuty
      BY <3>1, TickAssumption DEF DutySet, Word, Clamped
    <3>. QED
      BY <3>1, <3>2 DEF DutySet
  <2>3. ~late => taken
    <3>1. ctl \in {"offset", "pi"}
      BY <2>1 DEF RegisterInv, PaceInv, EnableFollows
    <3>2. ctl = "offset" => taken
      BY <2>1 DEF RegisterInv, PaceInv, FirstUpdate
    <3>. QED
      BY <2>1, <3>1, <3>2 DEF RegisterInv, PaceInv, Paced
  <2>. QED
    BY <1>0, <2>1, <2>2, <2>3 DEF Register!Next, Register!Set
<1>2. CASE \/ R5Isr \/ Pend \/ ControlSample \/ SetDutycycle \/ WriteDutyWord
           \/ SetDeadTime \/ EnableOutputs \/ DisableOutputs
  <2>1. UNCHANGED <<published, taken>>
    BY <1>2 DEF R5Isr, IsrPost, IsrClear, Pend, ControlSample, SetDutycycle,
       WriteDutyWord, SetDeadTime, EnableOutputs, DisableOutputs, history
  <2>. QED
    BY <1>0, <2>1, Unseen
<1>. QED
  BY <1>1, <1>2 DEF R5Main

\* The PRU's part: the latch samples the register, the last compare of a half completes it.
LEMMA RegisterStepPru ==
  RegisterInv /\ RegisterInv' /\ Pru => [Register!Next]_(Register!vars)
<1> SUFFICES ASSUME RegisterInv, RegisterInv', Pru PROVE [Register!Next]_(Register!vars)
  OBVIOUS
<1>0. PruPlace /\ TypeOK /\ UNCHANGED published
  BY PruFrame DEF RegisterInv, PaceInv
<1> USE <1>0 DEF PruPlace, Half, SetCompares, FirstHalfSet, SecondHalfSet, SecondHalf
<1>1. CASE InitSkip \/ InitEnabled \/ LowStart \/ Restart
  <2>1. /\ UNCHANGED <<taken, latched, late>> /\ pru = "poll" /\ pwmMainSt # "HIGH"
        /\ pru' = "latch" \/ (pru' = "poll" /\ pwmMainSt' # "HIGH")
    BY <1>1 DEF InitSkip, InitEnabled, LowStart, Restart, Reload
  <2>. QED
    BY <2>1, Unseen
<1>2. CASE InitDisabled
  <2>1. /\ UNCHANGED <<taken, latched, pwmEnable>> /\ pru = "poll" /\ pwmMainSt = "INIT"
        /\ pru' = "event" /\ late' = ~R5Idle /\ ~pwmEnable
    BY <1>2 DEF InitDisabled, Reload
  <2>2. (~late') \in BOOLEAN
    OBVIOUS
  <2>. QED
    BY <2>1, <2>2 DEF Register!Next, Register!Ask
<1>3. CASE Latch
  <2>1. /\ pru = "latch" /\ pru' = "event" /\ pwmEnable' /\ latched' = published /\ taken' = TRUE
    BY <1>3 DEF Latch
  <2>2. (~late') \in BOOLEAN
    OBVIOUS
  <2>. QED
    BY <2>1, <2>2 DEF Register!Next, Register!Sample
<1>4. CASE RaiseEvent
  <2>1. /\ UNCHANGED <<taken, latched, late, pwmEnable, pwmMainSt>> /\ pru = "event"
        /\ pru' = IF pwmEnable THEN "high" ELSE "poll"
        /\ pwmMainSt \in {"INIT", "LOW"} /\ (~pwmEnable => pwmMainSt = "INIT")
    BY <1>4 DEF RaiseEvent
  <2>. QED
    BY <2>1, Unseen
<1>5. CASE HighStart
  <2>1. /\ UNCHANGED <<taken, latched, late, pwmMainSt>>
        /\ pru = "poll" /\ pwmMainSt = "HIGH" /\ pru' = "high"
    BY <1>5 DEF HighStart, Reload
  <2>. QED
    BY <2>1 DEF Register!Next, Register!Turn, Register!Unset, ZeroDuty
<1>6. CASE HighSide
  <2>1. /\ UNCHANGED <<taken, latched, late, pwmMainSt>>
        /\ pru = "high" /\ pru' \in {"high", "low"}
    BY <1>6 DEF HighSide, history
  <2>. QED
    BY <2>1, Unseen
<1>7. CASE LowSide /\ phase < 2
  <2>1. /\ UNCHANGED <<taken, latched, late, pwmMainSt>> /\ pru = "low" /\ pru' = "low"
    BY <1>7 DEF LowSide, history
  <2>. QED
    BY <2>1, Unseen
<1>8. CASE LowSide /\ ~(phase < 2)
  <2>1. /\ UNCHANGED <<taken, latched, late>> /\ pru = "low"
        /\ IF pwmMainSt = "HIGH" THEN pru' = "check" /\ UNCHANGED pwmMainSt
                                 ELSE pru' = "poll" /\ pwmMainSt' = "HIGH"
    BY <1>8 DEF LowSide, history
  <2>2. CASE pwmMainSt = "HIGH"
    <3>1. Half = "falling" /\ SecondHalfSet'
      BY <2>1, <2>2
    <3>2. \A p \in Phases :
            /\ ~late' => cmpHigh'[p] = latched'[p] \div 2
            /\ 0 < cmpHigh'[p] /\ cmpHigh'[p] + DeadTicks = cmpLow'[p] /\ cmpLow'[p] < PeriodHalf
      BY <3>1, HalvesCorrectNext DEF HalvesAsSpecified
    <3>. QED
      BY <2>1, <3>1, <3>2 DEF Register!Next, Register!Fall
  <2>3. CASE pwmMainSt # "HIGH"
    <3>1. Half = "rising" /\ FirstHalfSet'
      BY <2>1, <2>3
    <3>2. \A p \in Phases :
            /\ ~late' => cmpHigh'[p] = PeriodHalf - (latched'[p] \div 2)
            /\ 0 < cmpLow'[p] /\ cmpLow'[p] + DeadTicks = cmpHigh'[p] /\ cmpHigh'[p] < PeriodHalf
      BY <3>1, HalvesCorrectNext DEF HalvesAsSpecified
    <3>. QED
      BY <2>1, <3>1, <3>2 DEF Register!Next, Register!Rise
  <2>. QED
    BY <2>2, <2>3
<1>9. CASE CheckEnable
  <2>1. /\ UNCHANGED <<taken, latched, late>> /\ pru = "check" /\ pru' = "poll"
        /\ pwmMainSt' # "HIGH"
    BY <1>9 DEF CheckEnable, history
  <2>. QED
    BY <2>1 DEF Register!Next, Register!Finish, Register!Unset, ZeroDuty
<1>. QED
  BY <1>1, <1>2, <1>3, <1>4, <1>5, <1>6, <1>7, <1>8, <1>9 DEF Pru

\* The double buffer of six words and an index, written and read word by word by two cores
\* without a lock, is a register that is set and sampled in one step each, for every
\* number of ticks and every set of requests.
THEOREM RegisterImplemented == Spec => ImplementsRegister
<1>1. Init => Register!Init
  <2> SUFFICES ASSUME Init PROVE Register!Init
    OBVIOUS
  <2>1. Half = "idle" /\ SetCompares(cmpHigh) = ZeroDuty /\ SetCompares(cmpLow) = ZeroDuty
    BY DEF Init, PruInit, Half, SetCompares, FirstHalfSet, SecondHalfSet
  <2>2. published = ZeroDuty /\ latched = ZeroDuty /\ ~late /\ taken = TRUE
    BY DEF Init, HistoryInit
  <2>. QED
    BY <2>1, <2>2 DEF Register!Init, Register!Unset, ZeroDuty
<1>2. RegisterInv /\ RegisterInv' /\ [Next]_vars => [Register!Next]_(Register!vars)
  <2> SUFFICES ASSUME RegisterInv, RegisterInv', [Next]_vars
               PROVE  [Register!Next]_(Register!vars)
    OBVIOUS
  <2>1. CASE UNCHANGED vars
    <3>1. UNCHANGED <<published, taken, latched, late, pruvars>>
      BY <2>1 DEF vars, history
    <3>. QED
      BY <3>1, Unseen DEF pruvars, Half, SetCompares, FirstHalfSet, SecondHalfSet, SecondHalf
  <2>. QED
    BY <2>1, RegisterStepR5, RegisterStepPru DEF Next
<1>. QED
  BY <1>1, <1>2, RegisterAlways, PTL DEF Spec, ImplementsRegister, Register!Spec
=============================================================================
