--------------------------- MODULE PwmHandoff_proofs ---------------------------
(***************************************************************************)
(* Proofs about PwmHandoff, for every value of its constants: the types,   *)
(* the dead time, that the pulse of a period comes from one duty set, and  *)
(* that no event is lost.                                                  *)
(***************************************************************************)
EXTENDS PwmHandoff, TLAPS

Clamped(d) == MinDuty <= d /\ d <= MaxDuty

-----------------------------------------------------------------------------
(* The inductive invariant, by parts *)

\* Where the PRU's handler can be in each state of its switch.
PruPlace ==
  /\ pru \in {"latch", "high", "low", "check"} => pwmEnable
  /\ pru = "latch" => pwmMainSt \in {"INIT", "LOW"}
  /\ pru = "event" => pwmMainSt \in {"INIT", "LOW"}
  /\ pru \in {"high", "low"} => pwmMainSt # "RESTART"
  /\ pru = "check" => pwmMainSt = "HIGH"
  /\ pwmMainSt \in {"LOW", "HIGH"} => pwmEnable
  /\ pru = "poll" /\ pwmMainSt \in {"INIT", "RESTART"} => ~pwmEnable

\* The duties the R5 is writing are clamped, and so is every word the PRU may
\* read once the PWM has been enabled.
R5Clamped ==
  /\ r5 \in {"write", "publish"} => \A p \in Phases : Clamped(pwmArrayLoc[p])
  /\ r5 = "write" => \A p \in Phases :
        p < word => dutyBuf[doublebuf][p] = pwmArrayLoc[p]
  /\ r5 = "publish" => \A p \in Phases : dutyBuf[doublebuf][p] = pwmArrayLoc[p]

\* The PWM is enabled, is about to be, or has not been turned off yet.
Live == enable \/ pwmEnable \/ r5 = "enable"

MemoryReady ==
  /\ (Live \/ r5 = "deadtime") => \A p \in Phases : Clamped(dutyBuf[bufIdx][p])
  /\ Live => deadTime = DeadTicks
  /\ pwmEnable /\ pru # "latch" =>
        \A p \in Phases : Clamped(dutyBuf[pwmDoublebuf][p])

\* The compares of phase p are right for the half period being set.
HighSet(p) ==
  IF SecondHalf THEN 0 < cmpHigh[p] /\ cmpHigh[p] + DeadTicks < PeriodHalf
                ELSE DeadTicks < cmpHigh[p] /\ cmpHigh[p] < PeriodHalf
LowSet(p) ==
  IF SecondHalf THEN cmpLow[p] = cmpHigh[p] + DeadTicks
                ELSE cmpLow[p] + DeadTicks = cmpHigh[p]

ComparesSet ==
  /\ pru = "high" => \A p \in Phases : p < phase => HighSet(p)
  /\ pru = "low" => \A p \in Phases :
        HighSet(p) /\ (p < phase => LowSet(p))
  /\ FirstHalfSet => \A p \in Phases :
        /\ DeadTicks < cmpHigh[p] /\ cmpHigh[p] < PeriodHalf
        /\ cmpLow[p] + DeadTicks = cmpHigh[p]
  /\ SecondHalfSet => \A p \in Phases : HighSet(p) /\ LowSet(p)

DeadTimeInv == TypeOK /\ PruPlace /\ R5Clamped /\ MemoryReady /\ ComparesSet

-----------------------------------------------------------------------------
(* The R5 and the PRU around the latch *)

\* The first update has been published: the index word is initialized.
Started == Live \/ r5 = "deadtime" \/ ctl \in {"rcalc", "pi"}

\* What is published is what the published bank holds, until the next publish.
PublishedBank ==
  /\ ctl = "offset" => ~enable /\ ~pwmEnable
  /\ Started => \A p \in Phases : dutyBuf[bufIdx][p] = published[p]
  /\ Started /\ r5 \in {"write", "publish"} => bufIdx # doublebuf
  /\ /\ ctl \in {"rcalc", "pi"} \/ r5 \in {"deadtime", "enable"}
     /\ r5 \notin {"write", "publish"}
     => bufIdx = doublebuf

\* How much the R5 may still do on what it has been told: at most one of an
\* event to be raised, an event, a semaphore and an iteration is outstanding.
AtMostOne ==
  /\ r5 # "pend" => isr = "none" /\ ~adcSem /\ ~sysEvent
  /\ isr = "clear" => adcSem
  /\ adcSem /\ isr = "none" => ~sysEvent

\* An iteration that may write is outstanding.
Outstanding == sysEvent \/ adcSem \/ r5 = "control"

\* A period that the R5 met on time and that the PRU has not finished reading.
OpenPeriod ==
  /\ ~late
  /\ \/ pru = "event" /\ pwmEnable
     \/ pru \in {"high", "low", "check"}
     \/ pru = "poll" /\ pwmMainSt = "HIGH"

BankStable ==
  OpenPeriod =>
    /\ \A p \in Phases : dutyBuf[pwmDoublebuf][p] = latched[p]
    /\ AtMostOne
    /\ pru = "event" => R5Idle
    /\ pru = "event" \/ Outstanding => bufIdx = pwmDoublebuf
    /\ r5 \in {"write", "publish"} => bufIdx = pwmDoublebuf

\* The compares already written come from the latched duties.
PulseLatched ==
  ~late =>
    /\ pru = "high" => \A p \in Phases : p < phase =>
         cmpHigh[p] = IF SecondHalf THEN FallHigh(latched[p])
                                    ELSE RiseHigh(latched[p])
    /\ pru = "low" => \A p \in Phases :
         cmpHigh[p] = IF SecondHalf THEN FallHigh(latched[p])
                                    ELSE RiseHigh(latched[p])
    /\ FirstHalfSet => \A p \in Phases : cmpHigh[p] = RiseHigh(latched[p])
    /\ SecondHalfSet => \A p \in Phases : cmpHigh[p] = FallHigh(latched[p])

PulseInv == TypeOK /\ PruPlace /\ PublishedBank /\ BankStable /\ PulseLatched

-----------------------------------------------------------------------------
(* Numbers *)

LEMMA WrapInRange ==
  ASSUME NEW x \in Int, 0 <= x, x < WordSize
  PROVE  Wrap(x) = x
BY TickAssumption DEF Wrap

LEMMA WrapWord ==
  ASSUME NEW x \in Int, 0 < x + WordSize, x < 2 * WordSize
  PROVE  Wrap(x) \in Word
BY TickAssumption DEF Wrap, Word

\* Half of any word is a word; half of a clamped duty leaves room for the dead
\* time on both sides.
LEMMA HalfWord ==
  ASSUME NEW d \in Word
  PROVE  d \div 2 \in Word
BY TickAssumption DEF Word

LEMMA HalfClamped ==
  ASSUME NEW d \in Word, Clamped(d)
  PROVE  0 < d \div 2 /\ (d \div 2) + DeadTicks < PeriodHalf
BY TickAssumption, MarginAssumption DEF Word, Clamped

LEMMA ClampClamps ==
  ASSUME NEW d \in Word
  PROVE  Clamp(d) \in Word /\ Clamped(Clamp(d))
BY TickAssumption DEF Word, Clamp, Clamped

LEMMA EdgeWords ==
  ASSUME NEW d \in Word, NEW c \in Word
  PROVE  /\ RiseHigh(d) \in Word /\ FallHigh(d) \in Word
         /\ RiseLow(c, d) \in Word /\ FallLow(c, d) \in Word
<1>1. d \div 2 \in Word
  BY HalfWord
<1>2. RiseHigh(d) \in Word
  <2>1. PeriodHalf - (d \div 2) \in Int
    BY <1>1, TickAssumption DEF Word
  <2>2. 0 < PeriodHalf - (d \div 2) + WordSize /\ PeriodHalf - (d \div 2) < 2 * WordSize
    BY <1>1, TickAssumption DEF Word
  <2>. QED  BY <2>1, <2>2, WrapWord DEF RiseHigh
<1>3. RiseLow(c, d) \in Word
  BY WrapWord, TickAssumption DEF RiseLow, Word
<1>4. FallLow(c, d) \in Word
  BY WrapWord, TickAssumption DEF FallLow, Word
<1>. QED  BY <1>1, <1>2, <1>3, <1>4 DEF FallHigh

-----------------------------------------------------------------------------
(* Types *)

LEMMA InitTypeOK == Init => TypeOK
<1> SUFFICES ASSUME Init PROVE TypeOK
  OBVIOUS
<1>1. /\ bufIdx \in Bank /\ enable \in BOOLEAN /\ sysEvent \in BOOLEAN
      /\ adcSem \in BOOLEAN /\ doublebuf \in Bank /\ pwmEnable \in BOOLEAN
      /\ pwmDoublebuf \in Bank /\ tripReset \in BOOLEAN /\ late \in BOOLEAN
      /\ taken \in BOOLEAN /\ owed \in BOOLEAN
  BY Zenon DEF Init, SharedInit, R5Init, PruInit, HistoryInit, Bank
<1>2. ZeroDuty \in DutySet /\ 0 \in Word /\ 0 \in Phases
  BY TickAssumption DEF ZeroDuty, DutySet, Word, Phases
<1>3. dutyBuf \in [Bank -> DutySet]
  BY <1>2 DEF Init, SharedInit, R5Init, PruInit, HistoryInit
<1>. QED
  BY <1>1, <1>2, <1>3 DEF Init, SharedInit, R5Init, PruInit, HistoryInit,
                          TypeOK, MaxGap, MaxSinceStop

\* A reload moves the two counters of the history within their bounds.
LEMMA ReloadCounts ==
  ASSUME TypeOK, NEW st, Reload(st)
  PROVE  gap' \in 0..MaxGap /\ sinceStop' \in 0..MaxSinceStop
BY DEF TypeOK, Reload, MaxGap, MaxSinceStop

LEMMA NextTypeOK == TypeOK /\ [Next]_vars => TypeOK'
<1> SUFFICES ASSUME TypeOK, [Next]_vars PROVE TypeOK'
  OBVIOUS
<1> USE DEF vars, shared, r5vars, pruvars, history
<1>1. CASE IsrPost
  BY <1>1 DEF IsrPost, TypeOK
<1>2. CASE IsrClear
  <2>1. sysEvent' \in BOOLEAN
    BY <1>2, Zenon DEF IsrClear
  <2>. QED
    BY <1>2, <2>1 DEF IsrClear, TypeOK
<1>3. CASE Pend
  <2>1. adcSem' \in BOOLEAN /\ owed' \in BOOLEAN
    BY <1>3, Zenon DEF Pend
  <2>. QED
    BY <1>3, <2>1 DEF Pend, R5At, TypeOK
<1>4. CASE ControlSample
  BY <1>4 DEF ControlSample, R5At, TypeOK
<1>5. CASE SetDutycycle
  <2>1. PICK request \in DutySet : pwmArrayLoc' = [p \in Phases |-> Clamp(request[p])]
    BY <1>5, RequestAssumption DEF SetDutycycle
  <2>2. \A p \in Phases : Clamp(request[p]) \in Word
    BY ClampClamps DEF DutySet
  <2>3. pwmArrayLoc' \in DutySet
    BY <2>1, <2>2 DEF DutySet
  <2>. QED
    BY <1>5, <2>3 DEF SetDutycycle, R5At, OtherBank, TypeOK, Phases, Bank
<1>6. CASE WriteDutyWord
  <2>1. pwmArrayLoc[word] \in Word
    BY DEF TypeOK, DutySet
  <2>2. dutyBuf' \in [Bank -> DutySet]
    BY <1>6, <2>1 DEF WriteDutyWord, TypeOK, DutySet
  <2>3. word' \in Phases /\ r5' \in {"write", "publish"}
    BY <1>6 DEF WriteDutyWord, LastWord, TypeOK, Phases
  <2>. QED
    BY <1>6, <2>2, <2>3 DEF WriteDutyWord, TypeOK
<1>7. CASE PublishIndex
  <2>1. taken' \in BOOLEAN
    BY <1>7, Zenon DEF PublishIndex
  <2>. QED
    BY <1>7, <2>1 DEF PublishIndex, R5At, TypeOK
<1>8. CASE SetDeadTime
  <2>1. DeadTicks \in Word
    BY TickAssumption, MarginAssumption DEF Word
  <2>. QED
    BY <1>8, <2>1 DEF SetDeadTime, R5At, TypeOK
<1>9. CASE EnableOutputs
  BY <1>9 DEF EnableOutputs, R5At, TypeOK
<1>10. CASE DisableOutputs
  <2>1. enable' \in BOOLEAN
    BY <1>10, Zenon DEF DisableOutputs
  <2>. QED
    BY <1>10, <2>1 DEF DisableOutputs, R5At, TypeOK, MaxSinceStop
<1>11. CASE InitSkip
  BY <1>11, ReloadCounts DEF InitSkip, TypeOK
<1>12. CASE InitDisabled
  <2>1. isrCnt' \in {0, 1} /\ late' \in BOOLEAN
    BY <1>12 DEF InitDisabled, TypeOK, R5Idle
  <2>. QED
    BY <1>12, <2>1, ReloadCounts DEF InitDisabled, TypeOK
<1>13. CASE InitEnabled
  <2>1. isrCnt' \in {0, 1}
    BY <1>13 DEF InitEnabled, TypeOK
  <2>2. tripReset' \in BOOLEAN
    BY <1>13, Zenon DEF InitEnabled
  <2>. QED
    BY <1>13, <2>1, <2>2, ReloadCounts DEF InitEnabled, TypeOK
<1>14. CASE LowStart
  BY <1>14, ReloadCounts DEF LowStart, TypeOK
<1>15. CASE HighStart
  BY <1>15, ReloadCounts DEF HighStart, TypeOK, Phases
<1>16. CASE Restart
  <2>1. ZeroDuty \in DutySet
    BY TickAssumption DEF ZeroDuty, DutySet, Word
  <2>. QED
    BY <1>16, <2>1, ReloadCounts DEF Restart, TypeOK
<1>17. CASE Latch
  BY <1>17 DEF Latch, TypeOK, R5Idle
<1>18. CASE RaiseEvent
  <2>1. sysEvent' \in BOOLEAN /\ owed' \in BOOLEAN
    BY <1>18, Zenon DEF RaiseEvent
  <2>. QED
    BY <1>18, <2>1 DEF RaiseEvent, TypeOK, Phases, MaxGap
<1>19. CASE HighSide
  <2>1. dutyBuf[pwmDoublebuf][phase] \in Word
    BY DEF TypeOK, DutySet
  <2>2. cmpHigh' \in DutySet
    BY <1>19, <2>1, EdgeWords DEF HighSide, TypeOK, DutySet
  <2>3. pru' \in {"high", "low"} /\ phase' \in Phases
    BY <1>19 DEF HighSide, TypeOK, Phases
  <2>. QED
    BY <1>19, <2>2, <2>3 DEF HighSide, TypeOK
<1>20. CASE LowSide
  <2>1. cmpHigh[phase] \in Word /\ deadTime \in Word
    BY DEF TypeOK, DutySet
  <2>2. cmpLow' \in DutySet
    BY <1>20, <2>1, EdgeWords DEF LowSide, TypeOK, DutySet
  <2>3. /\ pru' \in {"low", "check", "poll"} /\ phase' \in Phases
        /\ pwmMainSt' \in {"INIT", "LOW", "HIGH", "RESTART"}
    BY <1>20 DEF LowSide, TypeOK, Phases
  <2>. QED
    BY <1>20, <2>2, <2>3 DEF LowSide, TypeOK
<1>21. CASE CheckEnable
  <2>1. pwmEnable' \in BOOLEAN
    BY <1>21, Zenon DEF CheckEnable, TypeOK
  <2>. QED
    BY <1>21, <2>1 DEF CheckEnable, TypeOK
<1>22. CASE UNCHANGED vars
  BY <1>22 DEF TypeOK
<1>. QED
  BY <1>1, <1>2, <1>3, <1>4, <1>5, <1>6, <1>7, <1>8, <1>9, <1>10, <1>11, <1>12,
     <1>13, <1>14, <1>15, <1>16, <1>17, <1>18, <1>19, <1>20, <1>21, <1>22
  DEF Next, R5Isr, R5Main, Pru

\* Every variable stays in its type, for every number of ticks and every set of
\* requested duties.
THEOREM TypeCorrect == Spec => []TypeOK
BY InitTypeOK, NextTypeOK, PTL DEF Spec

-----------------------------------------------------------------------------
(* What each core leaves alone *)

LEMMA R5Frame == R5Isr \/ R5Main => UNCHANGED <<pruvars, latched, late>>
BY DEF R5Isr, R5Main, IsrPost, IsrClear, Pend, ControlSample, SetDutycycle,
       WriteDutyWord, PublishIndex, SetDeadTime, EnableOutputs, DisableOutputs,
       shared, r5vars, pruvars, history

LEMMA PruFrame ==
  Pru => UNCHANGED <<shared, isr, adcSem, r5vars, published>>
BY DEF Pru, InitSkip, InitDisabled, InitEnabled, LowStart, HighStart, Restart,
       Latch, RaiseEvent, HighSide, LowSide, CheckEnable,
       shared, r5vars, pruvars, history

LEMMA IdleFrame ==
  UNCHANGED vars =>
    UNCHANGED <<shared, sysEvent, isr, adcSem, r5vars, pruvars, published, latched, late>>
BY DEF vars, history

-----------------------------------------------------------------------------
(* The dead time *)

LEMMA PruPlaceStep == TypeOK /\ PruPlace /\ [Next]_vars => PruPlace'
<1> SUFFICES ASSUME TypeOK, PruPlace, [Next]_vars PROVE PruPlace'
  OBVIOUS
<1>1. CASE R5Isr \/ R5Main \/ UNCHANGED vars
  BY <1>1, R5Frame, IdleFrame DEF PruPlace, pruvars
<1>2. CASE InitSkip
  BY <1>2 DEF InitSkip, Reload, PruPlace
<1>3. CASE InitDisabled
  BY <1>3 DEF InitDisabled, Reload, PruPlace
<1>4. CASE InitEnabled
  BY <1>4 DEF InitEnabled, Reload, PruPlace
<1>5. CASE LowStart
  BY <1>5 DEF LowStart, Reload, PruPlace
<1>6. CASE HighStart
  BY <1>6 DEF HighStart, Reload, PruPlace
<1>7. CASE Restart
  BY <1>7 DEF Restart, Reload, PruPlace
<1>8. CASE Latch
  BY <1>8 DEF Latch, PruPlace
<1>9. CASE RaiseEvent
  BY <1>9 DEF RaiseEvent, PruPlace
<1>10. CASE HighSide
  BY <1>10 DEF HighSide, PruPlace
<1>11. CASE LowSide
  BY <1>11 DEF LowSide, SecondHalf, PruPlace
<1>12. CASE CheckEnable
  BY <1>12 DEF CheckEnable, PruPlace
<1>. QED
  BY <1>1, <1>2, <1>3, <1>4, <1>5, <1>6, <1>7, <1>8, <1>9, <1>10, <1>11, <1>12
  DEF Next, Pru

LEMMA R5ClampedStep == TypeOK /\ R5Clamped /\ [Next]_vars => R5Clamped'
<1> SUFFICES ASSUME TypeOK, R5Clamped, [Next]_vars PROVE R5Clamped'
  OBVIOUS
<1> USE DEF shared, r5vars
<1>1. CASE Pru \/ UNCHANGED vars
  BY <1>1, PruFrame, IdleFrame DEF R5Clamped
<1>2. CASE R5Isr
  BY <1>2 DEF R5Isr, IsrPost, IsrClear, R5Clamped
<1>3. CASE Pend \/ ControlSample
  BY <1>3 DEF Pend, ControlSample, R5Clamped
<1>4. CASE SetDutycycle
  <2>1. PICK request \in DutySet : pwmArrayLoc' = [p \in Phases |-> Clamp(request[p])]
    BY <1>4, RequestAssumption DEF SetDutycycle
  <2>2. \A p \in Phases : Clamped(pwmArrayLoc'[p])
    BY <2>1, ClampClamps DEF DutySet
  <2>3. r5' = "write" /\ word' = 0
    BY <1>4 DEF SetDutycycle
  <2>. QED
    BY <2>2, <2>3 DEF R5Clamped, Phases, Clamped
<1>5. CASE WriteDutyWord
  <2>1. \A p \in Phases : p < word => dutyBuf'[doublebuf][p] = pwmArrayLoc[p]
    BY <1>5 DEF WriteDutyWord, R5At, R5Clamped, TypeOK, DutySet
  <2>2. dutyBuf'[doublebuf][word] = pwmArrayLoc[word]
    BY <1>5 DEF WriteDutyWord, TypeOK, DutySet
  <2>3. CASE word = 2
    BY <1>5, <2>1, <2>2, <2>3
    DEF WriteDutyWord, LastWord, R5At, R5Clamped, Phases, Clamped
  <2>4. CASE word # 2
    BY <1>5, <2>1, <2>2, <2>4
    DEF WriteDutyWord, LastWord, R5At, R5Clamped, TypeOK, Phases, Clamped
  <2>. QED
    BY <2>3, <2>4
<1>6. CASE PublishIndex \/ SetDeadTime \/ EnableOutputs \/ DisableOutputs
  <2>1. r5' \notin {"write", "publish"}
    BY <1>6 DEF PublishIndex, SetDeadTime, EnableOutputs, DisableOutputs
  <2>. QED
    BY <2>1 DEF R5Clamped
<1>. QED
  BY <1>1, <1>2, <1>3, <1>4, <1>5, <1>6 DEF Next, R5Main

LEMMA MemoryReadyStep ==
  TypeOK /\ PruPlace /\ R5Clamped /\ MemoryReady /\ [Next]_vars => MemoryReady'
<1> SUFFICES ASSUME TypeOK, PruPlace, R5Clamped, MemoryReady, [Next]_vars
             PROVE MemoryReady'
  OBVIOUS
<1> USE DEF MemoryReady, Live, Clamped
<1>1. CASE UNCHANGED vars
  BY <1>1, IdleFrame DEF shared, r5vars, pruvars
<1>2. CASE R5Isr
  BY <1>2 DEF R5Isr, IsrPost, IsrClear, shared, r5vars, pruvars
<1>3. CASE Pend \/ ControlSample \/ SetDutycycle
  <2>1. UNCHANGED <<shared, pruvars>> /\ r5' \notin {"deadtime", "enable"}
    BY <1>3 DEF Pend, ControlSample, SetDutycycle
  <2>. QED
    BY <2>1 DEF shared, pruvars
<1>4. CASE WriteDutyWord
  <2>1. \A b \in Bank, p \in Phases :
          Clamped(dutyBuf[b][p]) => Clamped(dutyBuf'[b][p])
    BY <1>4 DEF WriteDutyWord, R5At, R5Clamped, TypeOK, DutySet
  <2>2. /\ UNCHANGED <<bufIdx, deadTime, enable, pruvars>>
        /\ r5' \notin {"deadtime", "enable"}
    BY <1>4 DEF WriteDutyWord
  <2>. QED
    BY <2>1, <2>2 DEF pruvars, TypeOK
<1>5. CASE PublishIndex
  <2>1. /\ UNCHANGED <<dutyBuf, deadTime, enable, pruvars>>
        /\ bufIdx' = doublebuf /\ r5' # "enable"
    BY <1>5 DEF PublishIndex
  <2>2. \A p \in Phases : Clamped(dutyBuf'[bufIdx'][p])
    BY <1>5, <2>1 DEF PublishIndex, R5At, R5Clamped
  <2>. QED
    BY <2>1, <2>2 DEF pruvars
<1>6. CASE SetDeadTime
  <2>1. /\ UNCHANGED <<dutyBuf, bufIdx, enable, pruvars>>
        /\ deadTime' = DeadTicks /\ r5' = "enable" /\ r5 = "deadtime"
    BY <1>6 DEF SetDeadTime, R5At
  <2>. QED
    BY <2>1 DEF pruvars
<1>7. CASE EnableOutputs
  <2>1. UNCHANGED <<dutyBuf, bufIdx, deadTime, pruvars>> /\ r5 = "enable" /\ r5' = "pend"
    BY <1>7 DEF EnableOutputs, R5At
  <2>. QED
    BY <2>1 DEF pruvars
<1>8. CASE DisableOutputs
  <2>1. UNCHANGED <<dutyBuf, bufIdx, deadTime, pruvars>> /\ r5' = "pend" /\ ~enable'
    BY <1>8 DEF DisableOutputs
  <2>. QED
    BY <2>1 DEF pruvars
<1>9. CASE Latch
  <2>1. /\ UNCHANGED <<shared, r5, pwmEnable>> /\ pwmDoublebuf' = bufIdx
        /\ pru = "latch" /\ pwmEnable
    BY <1>9 DEF Latch, r5vars, PruPlace
  <2>. QED
    BY <2>1 DEF shared
<1>10. CASE InitEnabled
  <2>1. UNCHANGED <<shared, r5>> /\ enable /\ pru' = "latch"
    BY <1>10 DEF InitEnabled, r5vars
  <2>. QED
    BY <2>1 DEF shared
<1>11. CASE LowStart
  <2>1. UNCHANGED <<shared, r5, pwmEnable>> /\ pru' = "latch"
    BY <1>11 DEF LowStart, r5vars
  <2>. QED
    BY <2>1 DEF shared
<1>12. CASE InitSkip \/ InitDisabled \/ HighStart \/ Restart \/ RaiseEvent
              \/ HighSide \/ LowSide \/ CheckEnable
  <2>1. UNCHANGED <<shared, r5, pwmDoublebuf>> /\ (pwmEnable' => pwmEnable)
    BY <1>12 DEF InitSkip, InitDisabled, HighStart, Restart, RaiseEvent, HighSide,
                 LowSide, CheckEnable, r5vars
  <2>2. pru = "latch" => ~pwmEnable'
    BY <1>12 DEF InitSkip, InitDisabled, HighStart, Restart, RaiseEvent, HighSide,
                 LowSide, CheckEnable, Reload
  <2>. QED
    BY <2>1, <2>2 DEF shared
<1>. QED
  BY <1>1, <1>2, <1>3, <1>4, <1>5, <1>6, <1>7, <1>8, <1>9, <1>10, <1>11, <1>12
  DEF Next, R5Main, Pru

\* One compare from a clamped duty and the dead time.
LEMMA EdgesFit ==
  ASSUME NEW d \in Word, Clamped(d)
  PROVE  /\ DeadTicks < RiseHigh(d) /\ RiseHigh(d) < PeriodHalf
         /\ 0 < FallHigh(d) /\ FallHigh(d) + DeadTicks < PeriodHalf
<1>1. d \div 2 \in Word /\ 0 < d \div 2 /\ (d \div 2) + DeadTicks < PeriodHalf
  BY HalfWord, HalfClamped
<1>2. RiseHigh(d) = PeriodHalf - (d \div 2)
  BY <1>1, WrapInRange, TickAssumption DEF RiseHigh, Word
<1>. QED
  BY <1>1, <1>2, TickAssumption DEF FallHigh, Word

LEMMA ComparesSetStep ==
  TypeOK /\ PruPlace /\ MemoryReady /\ ComparesSet /\ [Next]_vars => ComparesSet'
<1> SUFFICES ASSUME TypeOK, PruPlace, MemoryReady, ComparesSet, [Next]_vars
             PROVE ComparesSet'
  OBVIOUS
<1> USE DEF FirstHalfSet, SecondHalfSet
<1>1. CASE R5Isr \/ R5Main \/ UNCHANGED vars
  BY <1>1, R5Frame, IdleFrame DEF ComparesSet, HighSet, LowSet, SecondHalf, pruvars
<1>2. CASE InitSkip \/ InitDisabled \/ InitEnabled \/ LowStart \/ Latch \/ Restart
  <2>1. pru' \notin {"high", "low", "check"} /\ (pru' = "poll" => pwmMainSt' = "INIT")
    BY <1>2 DEF InitSkip, InitDisabled, InitEnabled, LowStart, Latch, Restart,
                Reload
  <2>. QED
    BY <2>1 DEF ComparesSet
<1>3. CASE HighStart \/ RaiseEvent
  <2>1. phase' = 0 /\ (pru' = "high" \/ (pru' = "poll" /\ pwmMainSt' # "HIGH"))
    BY <1>3 DEF HighStart, RaiseEvent, PruPlace
  <2>. QED
    BY <2>1 DEF ComparesSet, Phases, HighSet, LowSet
<1>4. CASE HighSide
  <2> DEFINE d == dutyBuf[pwmDoublebuf][phase]
  <2>1. d \in Word /\ Clamped(d)
    BY <1>4 DEF HighSide, TypeOK, DutySet, PruPlace, MemoryReady
  <2>2. /\ cmpHigh'[phase] = IF SecondHalf THEN FallHigh(d) ELSE RiseHigh(d)
        /\ \A p \in Phases : p # phase => cmpHigh'[p] = cmpHigh[p]
        /\ cmpHigh' \in [Phases -> Word]
        /\ UNCHANGED <<pwmMainSt, cmpLow>>
    BY <1>4, <2>1, EdgeWords DEF HighSide, TypeOK, DutySet
  <2>3. \A p \in Phases : p = phase => HighSet(p)'
    BY <2>1, <2>2, EdgesFit DEF HighSet, SecondHalf
  <2>4. \A p \in Phases : p < phase => HighSet(p)'
    BY <1>4, <2>2 DEF HighSide, ComparesSet, HighSet, SecondHalf, TypeOK, Phases
  <2>5. CASE phase = 2
    <3>1. \A p \in Phases : HighSet(p)'
      BY <2>3, <2>4, <2>5 DEF Phases
    <3>2. pru' = "low" /\ phase' = 0
      BY <1>4, <2>5 DEF HighSide
    <3>. QED
      BY <3>1, <3>2 DEF ComparesSet, Phases
  <2>6. CASE phase # 2
    <3>1. pru' = "high" /\ phase' = phase + 1
      BY <1>4, <2>6 DEF HighSide
    <3>2. \A p \in Phases : p < phase' => HighSet(p)'
      BY <2>3, <2>4, <2>6, <3>1 DEF Phases, TypeOK
    <3>. QED
      BY <3>1, <3>2 DEF ComparesSet
  <2>. QED
    BY <2>5, <2>6
<1>5. CASE LowSide
  <2> DEFINE c == cmpHigh[phase]
  <2>1. c \in Word /\ deadTime = DeadTicks
    BY <1>5 DEF LowSide, TypeOK, DutySet, PruPlace, MemoryReady, Live
  <2>2. /\ cmpLow'[phase] = IF SecondHalf THEN FallLow(c, deadTime)
                                           ELSE RiseLow(c, deadTime)
        /\ \A p \in Phases : p # phase => cmpLow'[p] = cmpLow[p]
        /\ UNCHANGED cmpHigh
    BY <1>5 DEF LowSide, TypeOK, DutySet
  <2>3. \A p \in Phases : HighSet(p) /\ (p < phase => LowSet(p))
    BY <1>5 DEF LowSide, ComparesSet
  <2>4. IF SecondHalf THEN cmpLow'[phase] = c + DeadTicks
                      ELSE cmpLow'[phase] + DeadTicks = c
    <3>1. SecondHalf => FallLow(c, deadTime) = c + DeadTicks
      BY <2>1, <2>3, WrapInRange, TickAssumption DEF FallLow, HighSet, TypeOK, Word
    <3>2. ~SecondHalf => RiseLow(c, deadTime) = c - DeadTicks
      BY <2>1, <2>3, WrapInRange, TickAssumption DEF RiseLow, HighSet, TypeOK, Word
    <3>. QED
      BY <2>1, <2>2, <3>1, <3>2, TickAssumption DEF Word
  <2>5. CASE phase < 2
    <3>1. pru' = "low" /\ phase' = phase + 1 /\ UNCHANGED pwmMainSt
      BY <1>5, <2>5 DEF LowSide
    <3>2. \A p \in Phases : HighSet(p)'
      BY <2>2, <2>3, <3>1 DEF HighSet, SecondHalf
    <3>3. \A p \in Phases : p < phase' => LowSet(p)'
      BY <2>2, <2>3, <2>4, <3>1 DEF LowSet, SecondHalf, Phases, TypeOK
    <3>. QED
      BY <3>1, <3>2, <3>3 DEF ComparesSet
  <2>6. CASE phase = 2
    <3>1. \A p \in Phases : IF SecondHalf THEN cmpLow'[p] = cmpHigh'[p] + DeadTicks
                                           ELSE cmpLow'[p] + DeadTicks = cmpHigh'[p]
      BY <2>2, <2>3, <2>4, <2>6 DEF LowSet, Phases
    <3>2. CASE SecondHalf
      <4>1. pru' = "check" /\ UNCHANGED pwmMainSt
        BY <1>5, <2>6, <3>2 DEF LowSide
      <4>. QED
        BY <2>2, <2>3, <3>1, <3>2, <4>1 DEF ComparesSet, HighSet, LowSet, SecondHalf
    <3>3. CASE ~SecondHalf
      <4>1. pru' = "poll" /\ pwmMainSt' = "HIGH"
        BY <1>5, <2>6, <3>3 DEF LowSide
      <4>. QED
        BY <2>2, <2>3, <3>1, <3>3, <4>1 DEF ComparesSet, HighSet, LowSet, SecondHalf
    <3>. QED
      BY <3>2, <3>3
  <2>. QED
    BY <2>5, <2>6 DEF TypeOK, Phases
<1>6. CASE CheckEnable
  <2>1. pru' = "poll" /\ pwmMainSt' # "HIGH"
    BY <1>6 DEF CheckEnable
  <2>. QED
    BY <2>1 DEF ComparesSet
<1>. QED
  BY <1>1, <1>2, <1>3, <1>4, <1>5, <1>6 DEF Next, Pru

LEMMA InitDeadTimeInv == Init => DeadTimeInv
<1> SUFFICES ASSUME Init PROVE DeadTimeInv
  OBVIOUS
<1>1. PruPlace /\ R5Clamped /\ MemoryReady /\ ComparesSet
  BY DEF Init, SharedInit, R5Init, PruInit, HistoryInit, PruPlace, R5Clamped,
         MemoryReady, Live, ComparesSet, FirstHalfSet,
         SecondHalfSet
<1>. QED
  BY <1>1, InitTypeOK DEF DeadTimeInv

LEMMA NextDeadTimeInv == DeadTimeInv /\ [Next]_vars => DeadTimeInv'
BY NextTypeOK, PruPlaceStep, R5ClampedStep, MemoryReadyStep, ComparesSetStep
DEF DeadTimeInv

LEMMA DeadTimeInvKept == DeadTimeInv => DeadTimeKept
<1> SUFFICES ASSUME DeadTimeInv PROVE DeadTimeKept
  OBVIOUS
<1>1. \A p \in Phases : cmpHigh[p] \in Word /\ cmpLow[p] \in Word
  BY DEF DeadTimeInv, TypeOK, DutySet
<1>2. SecondHalfSet => SecondHalf
  BY DEF DeadTimeInv, PruPlace, SecondHalfSet, SecondHalf
<1>. QED
  BY <1>1, <1>2, TickAssumption, MarginAssumption
  DEF DeadTimeInv, ComparesSet, DeadTimeKept, HighSet, LowSet, Word

\* While the PWM is active the low side is off DeadTicks before the high side is
\* on and on DeadTicks after it is off, inside the half period and without a
\* wrap, whatever the R5 requests and however its writes interleave with the
\* PRU's reads.
THEOREM DeadTimeAlways == Spec => []DeadTimeKept
BY DeadTimeInvKept, InitDeadTimeInv, NextDeadTimeInv, PTL DEF Spec

-----------------------------------------------------------------------------
(* One duty set per pulse *)

LEMMA PublishedBankStep ==
  TypeOK /\ R5Clamped /\ PublishedBank /\ [Next]_vars => PublishedBank'
<1> SUFFICES ASSUME TypeOK, R5Clamped, PublishedBank, [Next]_vars
             PROVE PublishedBank'
  OBVIOUS
<1> USE DEF PublishedBank, Started, Live
<1>1. CASE Pru \/ UNCHANGED vars
  <2>1. UNCHANGED <<dutyBuf, bufIdx, published, r5, doublebuf, ctl, enable>>
    BY <1>1, PruFrame, IdleFrame DEF shared, r5vars
  <2>2. pwmEnable' => pwmEnable \/ enable
    BY <1>1 DEF Pru, InitSkip, InitDisabled, InitEnabled, LowStart, HighStart,
                Restart, Latch, RaiseEvent, HighSide, LowSide, CheckEnable, vars,
                pruvars
  <2>. QED
    BY <2>1, <2>2
<1> DEFINE Same == UNCHANGED <<dutyBuf, bufIdx, published, doublebuf, pwmEnable>>
<1>2. CASE R5Isr \/ Pend
  <2>1. Same /\ UNCHANGED <<ctl, enable>>
    BY <1>2 DEF R5Isr, IsrPost, IsrClear, Pend, R5At, shared, r5vars, pruvars,
                history
  <2>2. r5' = r5 \/ (r5 = "pend" /\ r5' = "control")
    BY <1>2 DEF R5Isr, IsrPost, IsrClear, Pend, R5At, r5vars
  <2>. QED
    BY <2>1, <2>2
<1>3. CASE ControlSample \/ SetDeadTime
  <2>1. Same /\ UNCHANGED enable
    BY <1>3 DEF ControlSample, SetDeadTime, R5At, shared, pruvars, history
  <2>2. \/ /\ r5 = "control" /\ r5' = "pend"
           /\ ctl' = ctl \/ (ctl = "rcalc" /\ ctl' = "pi")
        \/ r5 = "deadtime" /\ r5' = "enable" /\ ctl' = ctl
    BY <1>3 DEF ControlSample, SetDeadTime, R5At
  <2>. QED
    BY <2>1, <2>2
<1>4. CASE EnableOutputs
  <2>1. Same /\ r5 = "enable" /\ r5' = "pend" /\ ctl' = "rcalc"
    BY <1>4 DEF EnableOutputs, R5At, pruvars, history
  <2>. QED
    BY <2>1
<1>5. CASE DisableOutputs
  <2>1. Same /\ ~enable' /\ r5' = "pend" /\ ctl' = "error"
    BY <1>5 DEF DisableOutputs, R5At, pruvars
  <2>. QED
    BY <2>1
<1>6. CASE SetDutycycle
  <2>1. /\ UNCHANGED <<dutyBuf, bufIdx, published, ctl, enable, pwmEnable>>
        /\ doublebuf' = ~doublebuf
        /\ r5 = "control" /\ r5' = "write" /\ ctl \in {"offset", "pi"}
    BY <1>6 DEF SetDutycycle, OtherBank, R5At, shared, pruvars, history
  <2>2. CASE ctl = "offset"
    BY <2>1, <2>2
  <2>3. CASE ctl = "pi"
    <3>1. bufIdx' # doublebuf'
      BY <2>1, <2>3 DEF TypeOK, Bank
    <3>. QED
      BY <2>1, <2>3, <3>1
  <2>. QED
    BY <2>1, <2>2, <2>3
<1>7. CASE WriteDutyWord
  <2>1. /\ UNCHANGED <<bufIdx, doublebuf, published, ctl, enable, pwmEnable>>
        /\ r5 = "write" /\ r5' \in {"write", "publish"}
    BY <1>7 DEF WriteDutyWord, R5At, pruvars, history
  <2>2. bufIdx # doublebuf =>
          \A p \in Phases : dutyBuf'[bufIdx][p] = dutyBuf[bufIdx][p]
    BY <1>7 DEF WriteDutyWord, TypeOK, DutySet
  <2>. QED
    BY <2>1, <2>2
<1>8. CASE PublishIndex
  <2>1. /\ UNCHANGED <<dutyBuf, doublebuf, ctl, enable, pwmEnable>>
        /\ bufIdx' = doublebuf /\ published' = pwmArrayLoc /\ r5 = "publish"
    BY <1>8 DEF PublishIndex, R5At, pruvars
  <2>2. r5' \notin {"write", "publish"}
    BY <1>8 DEF PublishIndex
  <2>3. \A p \in Phases : dutyBuf[doublebuf][p] = pwmArrayLoc[p]
    BY <2>1 DEF R5Clamped
  <2>. QED
    BY <2>1, <2>2, <2>3
<1>. QED
  BY <1>1, <1>2, <1>3, <1>4, <1>5, <1>6, <1>7, <1>8 DEF Next, R5Main

\* A period that is open has been latched from an initialized index.
LEMMA OpenStarted == PruPlace /\ OpenPeriod => Started
BY DEF PruPlace, OpenPeriod, Started, Live

\* The R5's half: during an open period it takes its one turn and touches the
\* other bank.
LEMMA BankStableR5 ==
  TypeOK /\ PruPlace /\ PublishedBank /\ BankStable /\ (R5Isr \/ R5Main) => BankStable'
<1> SUFFICES ASSUME TypeOK, PruPlace, PublishedBank, BankStable, R5Isr \/ R5Main, OpenPeriod'
             PROVE  BankStable'
  BY DEF BankStable
<1>0. /\ UNCHANGED <<pru, pwmMainSt, pwmEnable, pwmDoublebuf, latched, late>>
      /\ OpenPeriod
  BY R5Frame DEF OpenPeriod, pruvars
<1> USE <1>0 DEF BankStable
<1>1. CASE R5Isr
  <2>1. UNCHANGED <<dutyBuf, bufIdx, r5>> /\ pru # "event"
    BY <1>1 DEF R5Isr, IsrPost, IsrClear, R5Idle, shared, r5vars
  <2>2. AtMostOne'
    BY <1>1, <2>1 DEF R5Isr, IsrPost, IsrClear, AtMostOne
  <2>3. Outstanding' => Outstanding
    BY <1>1, <2>1 DEF R5Isr, IsrPost, IsrClear, Outstanding, AtMostOne
  <2>. QED
    BY <2>1, <2>2, <2>3
<1>2. CASE Pend
  <2>1. /\ UNCHANGED <<dutyBuf, bufIdx, sysEvent, isr>> /\ adcSem /\ ~adcSem'
        /\ isr = "none" /\ r5' = "control" /\ pru # "event"
    BY <1>2 DEF Pend, R5At, R5Idle, shared
  <2>2. AtMostOne'
    BY <2>1 DEF AtMostOne
  <2>. QED
    BY <2>1, <2>2 DEF Outstanding
<1>3. CASE ControlSample \/ DisableOutputs
  <2>1. /\ UNCHANGED <<dutyBuf, bufIdx, sysEvent, adcSem, isr>>
        /\ r5 = "control" /\ r5' = "pend" /\ pru # "event"
    BY <1>3 DEF ControlSample, DisableOutputs, R5At, R5Idle, shared
  <2>2. AtMostOne' /\ ~Outstanding'
    BY <2>1 DEF AtMostOne, Outstanding
  <2>. QED
    BY <2>1, <2>2
<1>4. CASE SetDutycycle
  <2>1. /\ UNCHANGED <<dutyBuf, bufIdx, sysEvent, adcSem, isr>>
        /\ r5 = "control" /\ r5' = "write" /\ pru # "event"
    BY <1>4 DEF SetDutycycle, R5At, R5Idle, shared
  <2>2. AtMostOne' /\ ~Outstanding' /\ Outstanding
    BY <2>1 DEF AtMostOne, Outstanding
  <2>. QED
    BY <2>1, <2>2
<1>5. CASE WriteDutyWord
  <2>1. /\ UNCHANGED <<bufIdx, sysEvent, adcSem, isr>>
        /\ r5 = "write" /\ r5' \in {"write", "publish"} /\ pru # "event"
    BY <1>5 DEF WriteDutyWord, R5At, R5Idle
  <2>2. pwmDoublebuf # doublebuf
    BY <2>1, OpenStarted DEF PublishedBank
  <2>3. \A p \in Phases : dutyBuf'[pwmDoublebuf][p] = latched[p]
    BY <1>5, <2>2 DEF WriteDutyWord, TypeOK, DutySet
  <2>4. AtMostOne' /\ ~Outstanding'
    BY <2>1 DEF AtMostOne, Outstanding
  <2>. QED
    BY <2>1, <2>3, <2>4
<1>6. CASE PublishIndex
  <2>1. /\ UNCHANGED <<dutyBuf, sysEvent, adcSem, isr>>
        /\ r5 = "publish" /\ pru # "event"
    BY <1>6 DEF PublishIndex, R5At, R5Idle
  <2>2. r5' \in {"deadtime", "pend"}
    BY <1>6 DEF PublishIndex
  <2>3. AtMostOne' /\ ~Outstanding'
    BY <2>1, <2>2 DEF AtMostOne, Outstanding
  <2>. QED
    BY <2>1, <2>2, <2>3
<1>7. CASE SetDeadTime \/ EnableOutputs
  <2>1. /\ UNCHANGED <<dutyBuf, bufIdx, sysEvent, adcSem, isr>>
        /\ r5 \in {"deadtime", "enable"} /\ r5' \in {"enable", "pend"} /\ pru # "event"
    BY <1>7 DEF SetDeadTime, EnableOutputs, R5At, R5Idle
  <2>2. AtMostOne' /\ ~Outstanding'
    BY <2>1 DEF AtMostOne, Outstanding
  <2>. QED
    BY <2>1, <2>2
<1>. QED
  BY <1>1, <1>2, <1>3, <1>4, <1>5, <1>6, <1>7 DEF R5Main

\* The PRU's half: a period opens at the latch, and opens on time only if the R5
\* is idle.
LEMMA BankStablePru ==
  TypeOK /\ PruPlace /\ PublishedBank /\ BankStable /\ Pru => BankStable'
<1> SUFFICES ASSUME TypeOK, PruPlace, PublishedBank, BankStable, Pru, OpenPeriod'
             PROVE  BankStable'
  BY DEF BankStable
<1>0. UNCHANGED <<dutyBuf, bufIdx, isr, adcSem, r5, published>>
  BY PruFrame DEF shared, r5vars
<1> USE <1>0 DEF BankStable
<1>1. CASE InitSkip \/ InitDisabled \/ InitEnabled \/ LowStart \/ Restart
  <2>1. ~OpenPeriod'
    BY <1>1 DEF InitSkip, InitDisabled, InitEnabled, LowStart, Restart, Reload,
                OpenPeriod, PruPlace
  <2>. QED
    BY <2>1
<1>2. CASE Latch
  <2>1. /\ pwmDoublebuf' = bufIdx /\ latched' = published /\ pru' = "event"
        /\ UNCHANGED sysEvent
    BY <1>2 DEF Latch
  <2>2. R5Idle
    BY <1>2 DEF Latch, OpenPeriod
  <2>3. AtMostOne' /\ R5Idle'
    BY <2>1, <2>2 DEF AtMostOne, R5Idle
  <2>4. \A p \in Phases : dutyBuf'[pwmDoublebuf'][p] = latched'[p]
    BY <1>2, <2>1 DEF Latch, PublishedBank, PruPlace, Started, Live
  <2>. QED
    BY <2>1, <2>2, <2>3, <2>4 DEF R5Idle
<1>3. CASE RaiseEvent
  <2>1. /\ pru = "event" /\ sysEvent' /\ UNCHANGED <<pwmDoublebuf, pwmEnable, latched, late, pwmMainSt>>
        /\ (pwmEnable => pru' = "high") /\ (~pwmEnable => pru' = "poll")
    BY <1>3 DEF RaiseEvent
  <2>2. OpenPeriod
    BY <2>1 DEF OpenPeriod, PruPlace
  <2>3. AtMostOne' /\ pru' # "event"
    BY <2>1, <2>2 DEF AtMostOne, R5Idle
  <2>. QED
    BY <2>1, <2>2, <2>3 DEF R5Idle
<1>4. CASE HighStart \/ HighSide \/ LowSide \/ CheckEnable
  <2>1. UNCHANGED <<sysEvent, pwmDoublebuf, latched, late>> /\ pru' # "event"
    BY <1>4 DEF HighStart, HighSide, LowSide, CheckEnable, history
  <2>2. OpenPeriod
    BY <1>4, <2>1 DEF HighStart, HighSide, LowSide, CheckEnable, Reload, OpenPeriod
  <2>3. AtMostOne' /\ (Outstanding' => Outstanding)
    BY <2>1, <2>2 DEF AtMostOne, Outstanding
  <2>. QED
    BY <2>1, <2>2, <2>3
<1>. QED
  BY <1>1, <1>2, <1>3, <1>4 DEF Pru

\* What the high-side compare of p is to be in the half period being set.
Edge(p) == IF SecondHalf THEN FallHigh(latched[p]) ELSE RiseHigh(latched[p])

LEMMA PulseLatchedStep ==
  TypeOK /\ PruPlace /\ BankStable /\ PulseLatched /\ [Next]_vars => PulseLatched'
<1> SUFFICES ASSUME TypeOK, PruPlace, BankStable, PulseLatched, [Next]_vars
             PROVE PulseLatched'
  OBVIOUS
<1> USE DEF FirstHalfSet, SecondHalfSet
<1>1. CASE R5Isr \/ R5Main \/ UNCHANGED vars
  BY <1>1, R5Frame, IdleFrame DEF PulseLatched, SecondHalf, pruvars
<1>2. CASE InitSkip \/ InitDisabled \/ InitEnabled \/ LowStart \/ Latch \/ Restart
  <2>1. pru' \notin {"high", "low", "check"} /\ (pru' = "poll" => pwmMainSt' = "INIT")
    BY <1>2 DEF InitSkip, InitDisabled, InitEnabled, LowStart, Latch, Restart,
                Reload
  <2>. QED
    BY <2>1 DEF PulseLatched
<1>3. CASE HighStart \/ RaiseEvent
  <2>1. phase' = 0 /\ (pru' = "high" \/ (pru' = "poll" /\ pwmMainSt' # "HIGH"))
    BY <1>3 DEF HighStart, RaiseEvent, PruPlace
  <2>. QED
    BY <2>1 DEF PulseLatched, Phases
<1>4. CASE HighSide
  <2>1. UNCHANGED <<pwmMainSt, latched, late>> /\ pru = "high"
    BY <1>4 DEF HighSide, history
  <2>2. CASE late
    BY <2>1, <2>2 DEF PulseLatched
  <2>3. CASE ~late
    <3>1. \A p \in Phases : dutyBuf[pwmDoublebuf][p] = latched[p]
      BY <2>1, <2>3 DEF BankStable, OpenPeriod
    <3>2. /\ \A p \in Phases : p = phase => cmpHigh'[p] = Edge(p)
          /\ \A p \in Phases : p # phase => cmpHigh'[p] = cmpHigh[p]
      BY <1>4, <3>1 DEF HighSide, TypeOK, DutySet, Edge
    <3>3. \A p \in Phases : p < phase => cmpHigh[p] = Edge(p)
      BY <2>1, <2>3 DEF PulseLatched, Edge
    <3>4. \A p \in Phases : p <= phase => cmpHigh'[p] = Edge(p)
      BY <3>2, <3>3 DEF Phases, TypeOK
    <3>5. \/ pru' = "high" /\ phase' = phase + 1
          \/ pru' = "low" /\ phase = 2
      BY <1>4 DEF HighSide
    <3>6. \A p \in Phases : Edge(p)' = Edge(p)
      BY <2>1 DEF Edge, SecondHalf
    <3>. QED
      BY <2>1, <3>4, <3>5, <3>6 DEF PulseLatched, Edge, Phases, TypeOK
  <2>. QED
    BY <2>2, <2>3
<1>5. CASE LowSide
  <2>1. UNCHANGED <<cmpHigh, latched, late>> /\ pru = "low"
    BY <1>5 DEF LowSide, history
  <2>2. \/ pru' = "low" /\ UNCHANGED pwmMainSt
        \/ pru' = "check" /\ SecondHalf /\ UNCHANGED pwmMainSt
        \/ pru' = "poll" /\ ~SecondHalf
    BY <1>5 DEF LowSide
  <2>. QED
    BY <2>1, <2>2 DEF PulseLatched, SecondHalf
<1>6. CASE CheckEnable
  <2>1. pru' = "poll" /\ pwmMainSt' # "HIGH"
    BY <1>6 DEF CheckEnable
  <2>. QED
    BY <2>1 DEF PulseLatched
<1>. QED
  BY <1>1, <1>2, <1>3, <1>4, <1>5, <1>6 DEF Next, Pru

FullPulseInv == PulseInv /\ R5Clamped

LEMMA InitPulseInv == Init => FullPulseInv
<1> SUFFICES ASSUME Init PROVE FullPulseInv
  OBVIOUS
<1>1. PublishedBank
  BY DEF Init, SharedInit, R5Init, PruInit, HistoryInit, PublishedBank, Started,
         Live, Bank
<1>2. PruPlace /\ R5Clamped /\ BankStable /\ PulseLatched
  BY DEF Init, SharedInit, R5Init, PruInit, HistoryInit, PruPlace, R5Clamped,
         BankStable, OpenPeriod, PulseLatched,
         FirstHalfSet, SecondHalfSet
<1>. QED
  BY <1>1, <1>2, InitTypeOK DEF FullPulseInv, PulseInv

LEMMA NextPulseInv == FullPulseInv /\ [Next]_vars => FullPulseInv'
<1> SUFFICES ASSUME FullPulseInv, [Next]_vars PROVE FullPulseInv'
  OBVIOUS
<1>1. TypeOK' /\ PruPlace' /\ R5Clamped' /\ PublishedBank' /\ PulseLatched'
  BY NextTypeOK, PruPlaceStep, R5ClampedStep, PublishedBankStep, PulseLatchedStep
  DEF FullPulseInv, PulseInv
<1>2. CASE UNCHANGED vars
  <2>1. BankStable'
    BY <1>2, IdleFrame DEF FullPulseInv, PulseInv, BankStable, OpenPeriod,
                           AtMostOne,
       Outstanding, R5Idle, shared, r5vars, pruvars
  <2>. QED
    BY <1>1, <2>1 DEF FullPulseInv, PulseInv
<1>3. CASE Next
  BY <1>1, <1>3, BankStableR5, BankStablePru DEF FullPulseInv, PulseInv, Next
<1>. QED
  BY <1>2, <1>3

\* In a period the R5 met on time, both edges of all three phases come from the
\* duty set that was published when the PRU latched the index, whatever the R5
\* writes meanwhile: the double buffer behaves as one register.
THEOREM OneDutySetPerPulse == Spec => []PulseFromOneDutySet
<1>1. FullPulseInv => PulseFromOneDutySet
  BY DEF FullPulseInv, PulseInv, PulseLatched, PulseFromOneDutySet
<1>. QED
  BY <1>1, InitPulseInv, NextPulseInv, PTL DEF Spec

-----------------------------------------------------------------------------
(* The event *)

\* The semaphore holds what the interrupt has posted until it has cleared.
EventInv == NoEventLost /\ (isr = "clear" => adcSem)

LEMMA EventStep == EventInv /\ [Next]_vars => EventInv'
<1> SUFFICES ASSUME EventInv, [Next]_vars PROVE EventInv'
  OBVIOUS
<1> USE DEF EventInv, NoEventLost, shared, r5vars, pruvars, history
<1>1. CASE R5Isr
  BY <1>1 DEF R5Isr, IsrPost, IsrClear
<1>2. CASE Pend
  BY <1>2 DEF Pend, R5At
<1>3. CASE RaiseEvent
  BY <1>3 DEF RaiseEvent
<1>4. CASE \/ ControlSample \/ SetDutycycle \/ WriteDutyWord \/ PublishIndex
           \/ SetDeadTime \/ EnableOutputs \/ DisableOutputs
  BY <1>4 DEF ControlSample, SetDutycycle, WriteDutyWord, PublishIndex,
              SetDeadTime, EnableOutputs, DisableOutputs
<1>5. CASE \/ InitSkip \/ InitDisabled \/ InitEnabled \/ LowStart \/ HighStart
           \/ Restart \/ Latch \/ HighSide \/ LowSide \/ CheckEnable
  BY <1>5 DEF InitSkip, InitDisabled, InitEnabled, LowStart, HighStart, Restart,
              Latch, HighSide, LowSide, CheckEnable
<1>6. CASE UNCHANGED vars
  BY <1>6 DEF vars
<1>. QED
  BY <1>1, <1>2, <1>3, <1>4, <1>5, <1>6 DEF Next, R5Main, Pru

\* No event of the PRU is forgotten before an iteration has begun after it: it is
\* safe that PRU_IPC_Isr clears the event after it has posted the semaphore.
THEOREM EventsKept == Spec => []NoEventLost
<1>1. Init => EventInv
  BY DEF Init, SharedInit, R5Init, PruInit, HistoryInit, EventInv, NoEventLost
<1>2. EventInv => NoEventLost
  BY DEF EventInv
<1>. QED
  BY <1>1, <1>2, EventStep, PTL DEF Spec
=============================================================================
