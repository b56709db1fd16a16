------------------------------- MODULE PwmHandoff -------------------------------
(***************************************************************************)
(* The duty-cycle handoff between the R5 core and the PRU core.            *)
(*                                                                         *)
(* The two cores share nine words of PRU memory (MemArray.bufferAddrs):    *)
(* two banks of three duty words, the index of the bank in use, the dead   *)
(* time and the output enable.  There is no lock.  The R5 writes the bank  *)
(* that is not published, one word at a time, and then the index           *)
(* (Pwm_SetDutycycle); the PRU latches the index once per PWM period and   *)
(* reads the duties twice, in the two halves of the period (main, the     *)
(* switch on pwm_main_st).  The PRU paces the R5 with an event that an    *)
(* interrupt turns into a binary semaphore.                                *)
(*                                                                         *)
(* Every access of either core to a shared word is a step of its own.     *)
(* What one iteration of the R5 decides to write is CurrentCtlr_Main       *)
(* reduced to its PWM calls: module MotorTasks models the rest of it.      *)
(***************************************************************************)
EXTENDS Integers

CONSTANTS
  PeriodHalf,    \* PRU_PERIOD_HALF: IEP ticks between two reloads
  MinDuty,       \* MIN_DUTY and MAX_DUTY of PruDriver.c, in ticks of a period
  MaxDuty,
  DeadTicks,     \* DEADTIME of CurrentCtlr.c
  WordSize,      \* 2^32: the range of a uint32_t
  StartDuty,     \* the duties CurrentCtlr_Main sets when calibration ends
  DutyRequests   \* the duties the PI loop may compute, before the clamp

Phases == 0..2                      \* U, V, W
Bank == BOOLEAN                     \* FALSE: words 0..2, TRUE: words 3..5
Word == 0..(WordSize - 1)
DutySet == [Phases -> Word]

ASSUME TickAssumption ==
  /\ PeriodHalf \in Nat /\ MinDuty \in Nat /\ MaxDuty \in Nat
  /\ DeadTicks \in Nat /\ WordSize \in Nat
  /\ PeriodHalf < WordSize /\ MaxDuty < WordSize
  /\ MinDuty <= MaxDuty

\* What the values of the source's macros satisfy: half of the longest duty and
\* the dead time fit in half a period, and the shortest duty is at least a tick.
ASSUME MarginAssumption ==
  /\ 2 <= MinDuty
  /\ 0 < DeadTicks
  /\ (MaxDuty \div 2) + DeadTicks < PeriodHalf

ASSUME RequestAssumption ==
  StartDuty \in DutySet /\ DutyRequests \subseteq DutySet

VARIABLES
  dutyBuf,        \* words 0..5 of the shared memory, by bank
  bufIdx,         \* word 6: the published bank
  deadTime,       \* word 7
  enable,         \* word 8
  sysEvent,       \* the PRU-to-R5 event, as latched in the PRU's INTC
  isr,            \* R5 interrupt level: "none", or PRU_IPC_Isr before its clear
  adcSem,         \* the binary semaphore AdcSem
  r5,             \* where the R5 main task is
  word,           \* the loop index of Pwm_SetDutycycle
  doublebuf,      \* the R5's static: the bank it wrote last, or is writing
  pwmArrayLoc,    \* the clamped duties being written
  ctl,            \* CurrentCtlr_State, seen through its PWM calls
  pru,            \* where the PRU's reload handler is; "poll" between reloads
  phase,          \* the U, V, W statement it is at
  pwmMainSt,      \* pwm_main_st
  isrCnt,         \* isr_cnt
  pwmEnable,      \* pwm_enable
  pwmDoublebuf,   \* the PRU's latched bank
  tripReset,      \* pwm3_trip_reset
  cmpHigh,        \* cmp7, cmp9, cmp11: when each high side switches
  cmpLow,         \* cmp8, cmp10, cmp12: when each low side switches
  published,      \* history: the duties of the last completed update
  latched,        \* history: what was published when the PRU last latched
  late,           \* history: the R5 was behind when the PRU last paced it
  taken,          \* history: the last update has been latched
  gap,            \* history: reloads since the PRU last raised its event
  sinceStop,      \* history: reloads since the enable word was cleared
  owed            \* history: an event that no iteration has begun after

shared == <<dutyBuf, bufIdx, deadTime, enable>>
r5vars == <<r5, word, doublebuf, pwmArrayLoc, ctl>>
pruvars == <<pru, phase, pwmMainSt, isrCnt, pwmEnable, pwmDoublebuf, tripReset,
             cmpHigh, cmpLow>>
history == <<published, latched, late, taken, gap, sinceStop, owed>>
vars == <<shared, sysEvent, isr, adcSem, r5vars, pruvars, history>>

MaxGap == 6        \* the counters of the history stop here
MaxSinceStop == 4

-----------------------------------------------------------------------------
(* Numbers *)

\* A sum or difference of two uint32_t words, as the register holds it.
Wrap(x) == IF x < 0 THEN x + WordSize
           ELSE IF WordSize <= x THEN x - WordSize ELSE x

\* Mutant: the upper clamp is forgotten.
ClampBelow(d) == IF d < MinDuty THEN MinDuty ELSE d

\* The clamp at the top of Pwm_SetDutycycle.
Clamp(d) == IF MaxDuty < d THEN MaxDuty ELSE IF d < MinDuty THEN MinDuty ELSE d

ZeroDuty == [p \in Phases |-> 0]

\* cmp7/9/11 and cmp8/10/12 in the first half of a period, and in the second.
RiseHigh(d) == Wrap(PeriodHalf - (d \div 2))
RiseLow(c, dt) == Wrap(c - dt)
FallHigh(d) == d \div 2
FallLow(c, dt) == Wrap(c + dt)

-----------------------------------------------------------------------------
(* Both cores after Pru_InitCore.                                             *)

\* PRUICSS_custom_Init zeroes the PRU's memories, the index among them, and
\* PRUICSS_IsrInit the other shared words once more.
SharedInit ==
  /\ dutyBuf = [b \in Bank |-> ZeroDuty]
  /\ bufIdx = FALSE /\ deadTime = 0 /\ enable = FALSE

R5Init ==
  /\ sysEvent = FALSE /\ isr = "none" /\ adcSem = FALSE
  /\ r5 = "pend" /\ word = 0 /\ doublebuf = FALSE
  /\ pwmArrayLoc = ZeroDuty /\ ctl = "offset"

\* main of the PRU: it is at the top of its loop, the compares are cleared.
PruInit ==
  /\ pru = "poll" /\ phase = 0 /\ pwmMainSt = "INIT" /\ isrCnt = 0
  /\ pwmEnable = FALSE /\ pwmDoublebuf = FALSE /\ tripReset = TRUE
  /\ cmpHigh = ZeroDuty /\ cmpLow = ZeroDuty

HistoryInit ==
  /\ published = ZeroDuty /\ latched = ZeroDuty
  /\ late = FALSE /\ taken = TRUE /\ gap = 1 /\ sinceStop = 0 /\ owed = FALSE

Init == SharedInit /\ R5Init /\ PruInit /\ HistoryInit

-----------------------------------------------------------------------------
(* R5: the interrupt and the main loop *)

\* PRU_IPC_Isr posts the semaphore first and clears the event after.
IsrPost ==
  /\ isr = "none" /\ sysEvent
  /\ adcSem' = TRUE
  /\ isr' = "clear"
  /\ UNCHANGED <<shared, sysEvent, r5vars, pruvars, history>>

IsrClear ==
  /\ isr = "clear"
  /\ sysEvent' = FALSE
  /\ isr' = "none"
  /\ UNCHANGED <<shared, adcSem, r5vars, pruvars, history>>

\* Mutant: the event is cleared outside the interrupt, beside the main task.
R5AtAnyTime(place) == r5 = place

\* The main task runs only while no interrupt is being served.
R5At(place) == isr = "none" /\ r5 = place

\* Ads8688_Isr: the pend at the top of an iteration.
Pend ==
  /\ R5At("pend") /\ adcSem
  /\ adcSem' = FALSE
  /\ r5' = "control"
  /\ owed' = FALSE
  /\ UNCHANGED <<shared, sysEvent, isr, word, doublebuf, pwmArrayLoc, ctl,
                 pruvars, published, latched, late, taken, gap, sinceStop>>

\* An iteration of CurrentCtlr_Main that calls nothing in PruDriver: a sample of
\* the offset or of the resistance phase, or the end of the resistance phase.
ControlSample ==
  /\ R5At("control") /\ ctl \in {"offset", "rcalc"}
  /\ ctl' \in IF ctl = "rcalc" THEN {"rcalc", "pi"} ELSE {"offset"}
  /\ r5' = "pend"
  /\ UNCHANGED <<shared, sysEvent, isr, adcSem, word, doublebuf, pwmArrayLoc,
                 pruvars, history>>

\* Mutant: the toggle is forgotten.
SameBank == doublebuf
OtherBank == ~doublebuf

LastWord == word = 2

\* Entry to Pwm_SetDutycycle: clamp and toggle.  It is called once at the end of
\* the offset phase, with StartDuty, and in every iteration of the PI phase.
\* Its test of mem_config_init always succeeds: Pru_InitCore has set it.
SetDutycycle ==
  /\ R5At("control") /\ ctl \in {"offset", "pi"}
  /\ \E request \in IF ctl = "offset" THEN {StartDuty} ELSE DutyRequests :
       pwmArrayLoc' = [p \in Phases |-> Clamp(request[p])]
  /\ doublebuf' = OtherBank
  /\ word' = 0
  /\ r5' = "write"
  /\ UNCHANGED <<shared, sysEvent, isr, adcSem, ctl, pruvars, history>>

WriteDutyWord ==
  /\ R5At("write")
  /\ dutyBuf' = [dutyBuf EXCEPT ![doublebuf][word] = pwmArrayLoc[word]]
  /\ IF LastWord THEN r5' = "publish" /\ word' = 0
                 ELSE r5' = "write" /\ word' = word + 1
  /\ UNCHANGED <<bufIdx, deadTime, enable, sysEvent, isr, adcSem, doublebuf,
                 pwmArrayLoc, ctl, pruvars, history>>

PublishIndex ==
  /\ R5At("publish")
  /\ bufIdx' = doublebuf
  /\ published' = pwmArrayLoc
  /\ taken' = FALSE
  /\ r5' = IF ctl = "offset" THEN "deadtime" ELSE "pend"
  /\ UNCHANGED <<dutyBuf, deadTime, enable, sysEvent, isr, adcSem, word,
                 doublebuf, pwmArrayLoc, ctl, pruvars, latched, late, gap,
                 sinceStop, owed>>

\* Pwm_SetDeadTime and Pwm_EnableOutputs(true) at the end of the offset phase.
SetDeadTime ==
  /\ R5At("deadtime")
  /\ deadTime' = DeadTicks
  /\ r5' = "enable"
  /\ UNCHANGED <<dutyBuf, bufIdx, enable, sysEvent, isr, adcSem, word,
                 doublebuf, pwmArrayLoc, ctl, pruvars, history>>

EnableOutputs ==
  /\ R5At("enable")
  /\ enable' = TRUE
  /\ ctl' = "rcalc"
  /\ r5' = "pend"
  /\ UNCHANGED <<dutyBuf, bufIdx, deadTime, sysEvent, isr, adcSem, word,
                 doublebuf, pwmArrayLoc, pruvars, history>>

\* Mutant: the error state is entered without the call of Pwm_EnableOutputs.
StopNoDisable ==
  /\ R5At("control")
  /\ ctl' = "error" /\ r5' = "pend"
  /\ UNCHANGED <<shared, sysEvent, isr, adcSem, word, doublebuf, pwmArrayLoc,
                 pruvars, history>>

\* An iteration that finds CurrentCtlr_Enable == 0: Pwm_EnableOutputs(false) and
\* the error state, whose case of the switch is empty, from then on.
DisableOutputs ==
  /\ R5At("control")
  /\ enable' = FALSE
  /\ ctl' = "error"
  /\ sinceStop' = IF enable THEN 0 ELSE sinceStop
  /\ r5' = "pend"
  /\ UNCHANGED <<dutyBuf, bufIdx, deadTime, sysEvent, isr, adcSem, word,
                 doublebuf, pwmArrayLoc, pruvars, published, latched, late,
                 taken, gap, owed>>

R5Isr == IsrPost \/ IsrClear
R5Main == \/ Pend \/ ControlSample \/ SetDutycycle \/ WriteDutyWord
          \/ PublishIndex \/ SetDeadTime \/ EnableOutputs \/ DisableOutputs

-----------------------------------------------------------------------------
(* PRU: the handler of a counter reload *)

\* The R5 has finished what the last event asked of it.
R5Idle == r5 = "pend" /\ ~adcSem /\ ~sysEvent /\ isr = "none"

Reload(st) ==
  /\ pru = "poll" /\ pwmMainSt = st
  /\ gap' = IF gap < MaxGap THEN gap + 1 ELSE gap
  /\ sinceStop' = IF sinceStop < MaxSinceStop THEN sinceStop + 1 ELSE sinceStop

\* INIT_PHASE divides the reloads by two; the second reads the enable word.
InitSkip ==
  /\ Reload("INIT") /\ isrCnt = 1
  /\ isrCnt' = 0
  /\ UNCHANGED <<shared, sysEvent, isr, adcSem, r5vars, pru, phase, pwmMainSt,
                 pwmEnable, pwmDoublebuf, tripReset, cmpHigh, cmpLow,
                 published, latched, late, taken, owed>>

InitDisabled ==
  /\ Reload("INIT") /\ isrCnt # 1 /\ ~enable
  /\ isrCnt' = isrCnt + 1
  /\ pru' = "event"
  /\ late' = ~R5Idle
  /\ UNCHANGED <<shared, sysEvent, isr, adcSem, r5vars, phase, pwmMainSt,
                 pwmEnable, pwmDoublebuf, tripReset, cmpHigh, cmpLow,
                 published, latched, taken, owed>>

InitEnabled ==
  /\ Reload("INIT") /\ isrCnt # 1 /\ enable
  /\ isrCnt' = isrCnt + 1
  /\ pwmEnable' = TRUE
  /\ tripReset' = FALSE
  /\ pru' = "latch"
  /\ UNCHANGED <<shared, sysEvent, isr, adcSem, r5vars, phase, pwmMainSt,
                 pwmDoublebuf, cmpHigh, cmpLow, published, latched, late, taken,
                 owed>>

LowStart ==
  /\ Reload("LOW")
  /\ pru' = "latch"
  /\ UNCHANGED <<shared, sysEvent, isr, adcSem, r5vars, phase, pwmMainSt,
                 isrCnt, pwmEnable, pwmDoublebuf, tripReset, cmpHigh, cmpLow,
                 published, latched, late, taken, owed>>

\* Mutant: HIGH_PHASE raises the event too, as LOW_PHASE does.
HighStartEvent ==
  /\ Reload("HIGH")
  /\ pru' = "event" /\ phase' = 0
  /\ UNCHANGED <<shared, sysEvent, isr, adcSem, r5vars, pwmMainSt, isrCnt,
                 pwmEnable, pwmDoublebuf, tripReset, cmpHigh, cmpLow,
                 published, latched, late, taken, owed>>

\* Mutant: each half of the period reads the index again.
HighStartLatch ==
  /\ Reload("HIGH")
  /\ pru' = "high" /\ phase' = 0 /\ pwmDoublebuf' = bufIdx
  /\ UNCHANGED <<shared, sysEvent, isr, adcSem, r5vars, pwmMainSt, isrCnt,
                 pwmEnable, tripReset, cmpHigh, cmpLow,
                 published, latched, late, taken, owed>>

HighStart ==
  /\ Reload("HIGH")
  /\ pru' = "high" /\ phase' = 0
  /\ UNCHANGED <<shared, sysEvent, isr, adcSem, r5vars, pwmMainSt, isrCnt,
                 pwmEnable, pwmDoublebuf, tripReset, cmpHigh, cmpLow,
                 published, latched, late, taken, owed>>

\* Mutant: the restart resets isr_cnt as well.
RestartCounter ==
  /\ Reload("RESTART")
  /\ cmpHigh' = ZeroDuty /\ cmpLow' = ZeroDuty
  /\ tripReset' = TRUE
  /\ pwmMainSt' = "INIT" /\ isrCnt' = 0
  /\ UNCHANGED <<shared, sysEvent, isr, adcSem, r5vars, pru, phase,
                 pwmEnable, pwmDoublebuf, published, latched, late, taken, owed>>

Restart ==
  /\ Reload("RESTART")
  /\ cmpHigh' = ZeroDuty /\ cmpLow' = ZeroDuty
  /\ tripReset' = TRUE
  /\ pwmMainSt' = "INIT"
  /\ UNCHANGED <<shared, sysEvent, isr, adcSem, r5vars, pru, phase, isrCnt,
                 pwmEnable, pwmDoublebuf, published, latched, late, taken, owed>>

\* pwm_doublebuf = bufferAddrs[6]: the start of a PWM period.
Latch ==
  /\ pru = "latch"
  /\ pwmDoublebuf' = bufIdx
  /\ latched' = published
  /\ taken' = TRUE
  /\ late' = ~R5Idle
  /\ pru' = "event"
  /\ UNCHANGED <<shared, sysEvent, isr, adcSem, r5vars, phase, pwmMainSt,
                 isrCnt, pwmEnable, tripReset, cmpHigh, cmpLow, published,
                 gap, sinceStop, owed>>

\* enable_rx_isr, followed by the compares when this reload starts a period.
RaiseEvent ==
  /\ pru = "event"
  /\ sysEvent' = TRUE
  /\ gap' = 0 /\ owed' = TRUE
  /\ IF pwmEnable THEN pru' = "high" ELSE pru' = "poll"
  /\ phase' = 0
  /\ UNCHANGED <<shared, isr, adcSem, r5vars, pwmMainSt, isrCnt, pwmEnable,
                 pwmDoublebuf, tripReset, cmpHigh, cmpLow, published, latched,
                 late, taken, sinceStop>>

\* The second half of a period runs in HIGH_PHASE, the first in the other two.
SecondHalf == pwmMainSt = "HIGH"

\* One high-side compare: reads one word of the latched bank.
HighSide ==
  /\ pru = "high"
  /\ LET d == dutyBuf[pwmDoublebuf][phase] IN
       cmpHigh' = [cmpHigh EXCEPT ![phase] =
                     IF SecondHalf THEN FallHigh(d) ELSE RiseHigh(d)]
  /\ IF phase = 2 THEN pru' = "low" /\ phase' = 0
                  ELSE pru' = "high" /\ phase' = phase + 1
  /\ UNCHANGED <<shared, sysEvent, isr, adcSem, r5vars, pwmMainSt, isrCnt,
                 pwmEnable, pwmDoublebuf, tripReset, cmpLow, history>>

\* One low-side compare: reads the dead-time word.
LowSide ==
  /\ pru = "low"
  /\ LET c == cmpHigh[phase] IN
       cmpLow' = [cmpLow EXCEPT ![phase] =
                    IF SecondHalf THEN FallLow(c, deadTime)
                                  ELSE RiseLow(c, deadTime)]
  /\ IF phase < 2 THEN /\ pru' = "low" /\ phase' = phase + 1
                       /\ UNCHANGED pwmMainSt
     ELSE /\ phase' = 0
          /\ IF SecondHalf THEN pru' = "check" /\ UNCHANGED pwmMainSt
                           ELSE pru' = "poll" /\ pwmMainSt' = "HIGH"
  /\ UNCHANGED <<shared, sysEvent, isr, adcSem, r5vars, isrCnt, pwmEnable,
                 pwmDoublebuf, tripReset, cmpHigh, history>>

\* Mutant: the end of the period tests the latched flag, not the enable word.
CheckLatched ==
  /\ pru = "check"
  /\ IF pwmEnable THEN pwmMainSt' = "LOW" /\ UNCHANGED pwmEnable
               ELSE pwmMainSt' = "RESTART" /\ pwmEnable' = FALSE
  /\ pru' = "poll"
  /\ UNCHANGED <<shared, sysEvent, isr, adcSem, r5vars, phase, isrCnt,
                 pwmDoublebuf, tripReset, cmpHigh, cmpLow, history>>

\* The end of HIGH_PHASE: the enable word decides how the next period starts.
CheckEnable ==
  /\ pru = "check"
  /\ IF enable THEN pwmMainSt' = "LOW" /\ UNCHANGED pwmEnable
               ELSE pwmMainSt' = "RESTART" /\ pwmEnable' = FALSE
  /\ pru' = "poll"
  /\ UNCHANGED <<shared, sysEvent, isr, adcSem, r5vars, phase, isrCnt,
                 pwmDoublebuf, tripReset, cmpHigh, cmpLow, history>>

Pru == \/ InitSkip \/ InitDisabled \/ InitEnabled \/ LowStart \/ HighStart
       \/ Restart \/ Latch \/ RaiseEvent \/ HighSide \/ LowSide \/ CheckEnable

-----------------------------------------------------------------------------
Next == R5Isr \/ R5Main \/ Pru

Spec == Init /\ [][Next]_vars

\* The counter reloads for ever and interrupts are enabled.  The main task has
\* the highest priority of the R5's tasks, and PRU_IPC_Isr leaves it the time
\* between two events: strong fairness, as each interrupt disables it briefly.
FairSpec == Spec /\ WF_vars(R5Isr) /\ SF_vars(R5Main) /\ WF_vars(Pru)

-----------------------------------------------------------------------------
(* Properties *)

\* Every variable stays in its type.
TypeOK ==
  /\ dutyBuf \in [Bank -> DutySet] /\ bufIdx \in Bank
  /\ deadTime \in Word /\ enable \in BOOLEAN
  /\ sysEvent \in BOOLEAN /\ isr \in {"none", "clear"} /\ adcSem \in BOOLEAN
  /\ r5 \in {"pend", "control", "write", "publish", "deadtime", "enable"}
  /\ word \in Phases /\ doublebuf \in Bank /\ pwmArrayLoc \in DutySet
  /\ ctl \in {"offset", "rcalc", "pi", "error"}
  /\ pru \in {"poll", "latch", "event", "high", "low", "check"}
  /\ phase \in Phases /\ pwmMainSt \in {"INIT", "LOW", "HIGH", "RESTART"}
  /\ isrCnt \in {0, 1} /\ pwmEnable \in BOOLEAN /\ pwmDoublebuf \in Bank
  /\ tripReset \in BOOLEAN /\ cmpHigh \in DutySet /\ cmpLow \in DutySet
  /\ published \in DutySet /\ latched \in DutySet
  /\ late \in BOOLEAN /\ taken \in BOOLEAN
  /\ gap \in 0..MaxGap /\ sinceStop \in 0..MaxSinceStop
  /\ owed \in BOOLEAN

\* Where a half period's six compares are complete.
FirstHalfSet == pru = "poll" /\ pwmMainSt = "HIGH"
SecondHalfSet == pru = "check"

\* In a period that did not start behind schedule, both halves of the pulse of
\* all three phases come from the one duty set that was published when the PRU
\* latched the index: the rising and falling edges are symmetric and no word of
\* an update in progress is used, although the R5 writes during the period
\* (Pwm_SetDutycycle against LOW_PHASE and HIGH_PHASE).
PulseFromOneDutySet ==
  ~late =>
    /\ FirstHalfSet  => \A p \in Phases : cmpHigh[p] = RiseHigh(latched[p])
    /\ SecondHalfSet => \A p \in Phases : cmpHigh[p] = FallHigh(latched[p])

\* While the PWM is active the low side is off DeadTicks before the high side is
\* on and on DeadTicks after it is off, and every compare lies strictly inside
\* the half period, late or not: no subtraction wraps, and no pulse is computed
\* from a bank or a dead time not yet written.
DeadTimeKept ==
  /\ FirstHalfSet => \A p \in Phases :
       0 < cmpLow[p] /\ cmpLow[p] + DeadTicks = cmpHigh[p]
                     /\ cmpHigh[p] < PeriodHalf
  /\ SecondHalfSet => \A p \in Phases :
       0 < cmpHigh[p] /\ cmpHigh[p] + DeadTicks = cmpLow[p]
                      /\ cmpLow[p] < PeriodHalf

\* An update is not overwritten before the PRU has used the one before it, unless
\* the R5 was behind: the two banks are enough for a loop that keeps up.
NoUpdateSkipped == (r5 = "publish" /\ ctl = "pi" /\ ~late) => taken

\* The events that pace the R5's loop are two reloads apart, and four across a
\* restart of the PWM: isr_cnt stays 1 while the PWM runs, so that INIT_PHASE
\* skips a reload first when it is entered again.
EventCadence == pru = "event" => gap \in {2, 4}

\* Three reloads after the enable word is cleared, the PWM is off with all
\* compares cleared and the trip reset, and it stays so.
SilentAfterStop ==
  (ctl = "error" /\ sinceStop >= 3 /\ pru = "poll") =>
    /\ ~pwmEnable /\ tripReset
    /\ cmpHigh = ZeroDuty /\ cmpLow = ZeroDuty

\* An event the PRU raised is not forgotten until an iteration of the R5 has begun
\* after it, although the interrupt posts before it clears and so may clear an
\* event raised in between (PRU_IPC_Isr against enable_rx_isr).
NoEventLost == owed => sysEvent \/ adcSem

\* The R5 of this module gives the PWM no command that the contract with the current
\* controller does not have: the PWM is enabled once, after the calibration, and the
\* enable word is never set again after a stop, whatever the iterations interleave with.
\* MotorTasks shows the same of the whole controller, so that the two modules fit.
Commands == INSTANCE PwmCommands WITH stage <- ctl, on <- enable
KeepsContract == Commands!Spec

\* How far the PRU is in a period: between two of them, computing the compares of a half,
\* or with a complete half.
Half ==
  IF FirstHalfSet THEN "first"
  ELSE IF SecondHalfSet THEN "second"
  ELSE IF pru \in {"high", "low"} /\ SecondHalf THEN "falling"
  ELSE IF pru \in {"high", "low"} \/ (pru = "event" /\ pwmEnable) THEN "rising"
  ELSE "idle"

SetCompares(cmp) == IF FirstHalfSet \/ SecondHalfSet THEN cmp ELSE ZeroDuty

\* Two banks, an index and no lock are one register: seen from the motor an update takes
\* effect in one step, at the write of the index, each period uses the duties published
\* when it began in both of its halves, and an R5 that keeps up loses no update on the
\* way (Pwm_SetDutycycle against the PRU's main).
Register == INSTANCE DutyRegister WITH
  register <- published, sampled <- taken, sample <- latched, onTime <- ~late,
  half <- Half, high <- SetCompares(cmpHigh), low <- SetCompares(cmpLow)
ImplementsRegister == Register!Spec

\* Once the controller is in its error state the PWM ends, for ever.
StopSilencesPwm == (ctl = "error") ~> [](~pwmEnable /\ cmpHigh = ZeroDuty)
=============================================================================
