----------------------------- MODULE PwmDrv_proofs -----------------------------
(***************************************************************************)
(* Proofs about PwmDrv, for every period, increment and threshold: the     *)
(* duties stay in the period, the modules count in phase, an output is at  *)
(* most two steps behind, and the interrupt is never lost for good.        *)
(***************************************************************************)
EXTENDS PwmDrv, TLAPS

Lag(p) == Abs(duty[p] - cmpA[p])
StepSize(p) == Abs(Increment[p])

\* init: the compares of the modules configured so far, and the duties read from them.
Configured ==
  /\ at = "config" => \A p \in Phase : p + 1 < i => cmpA[p] = ComparePercent
  /\ at = "read" => \A p \in Phase : cmpA[p] = ComparePercent
  /\ at \in {"config", "read", "sync"} => ~updOut
  /\ at = "change" => updOut
  /\ ~updOut /\ at \notin {"config", "read"} => \A p \in Phase : duty[p] = cmpA[p]

\* How far a duty is ahead: an interrupt of this round has made up for it.
Behind ==
  updOut => \A p \in Phase :
    /\ Lag(p) <= 2 * StepSize(p)
    /\ isrHits => Lag(p) <= StepSize(p)
    /\ at = "change" /\ i <= p =>
         Lag(p) <= StepSize(p) /\ (isrHits => duty[p] = cmpA[p])

Inv == TypeOK /\ DutyInRange /\ InPhase /\ NeverDeaf /\ Configured /\ Behind

-----------------------------------------------------------------------------
(* Numbers *)

LEMMA ModSmall == ASSUME NEW m \in Nat \ {0}, NEW x \in 0..(m - 1) PROVE x % m = x
OBVIOUS

LEMMA ModRange == ASSUME NEW m \in Nat \ {0}, NEW x \in Nat PROVE x % m \in 0..(m - 1)
OBVIOUS

LEMMA PeriodFacts ==
  /\ Period \in Nat \ {0} /\ Half \in Nat /\ Period < Half
  /\ 2 * Period \in Nat \ {0} /\ 2 * Half \in Nat \ {0}
  /\ \A p \in Phase : Increment[p] \in Int
<1>1. Period \in Nat \ {0} /\ Half \in Nat /\ Increment \in [Phase -> Int]
  BY ConstantAssumption
<1>2. Period < Half
  BY RangeAssumption
<1> QED
  BY <1>1, <1>2

\* The first compare is a share of the period.
LEMMA ShareOfPeriod == ComparePercent \in 0..Period
<1> DEFINE k == 100 - DutyPercent
           x == Period * k
<1>1. k \in 0..100
  BY ConstantAssumption
<1>2. x \in Int /\ 0 <= x /\ x <= 100 * Period
  <2>1. \A P \in Nat, j \in 0..100 : P * j \in Int /\ 0 <= P * j /\ P * j <= 100 * P
    OBVIOUS
  <2> QED
    BY <1>1, <2>1, PeriodFacts
<1>3. ComparePercent = (2 * x + 100) \div 200
  BY <1>2 DEF ComparePercent, Rounded
<1> HIDE DEF x, k
<1> QED
  BY <1>2, <1>3, PeriodFacts

\* A step turns at the ends of the period and so stays in it.
LEMMA NextDutyFacts ==
  ASSUME NEW p \in Phase, NEW d \in 0..Period,
         NEW s \in {Increment[p], -Increment[p]}
  PROVE  /\ Bounce(d, s) \in {Increment[p], -Increment[p]}
         /\ NextDuty(d, s) = d + Bounce(d, s) /\ NextDuty(d, s) \in 0..Period
<1>1. Increment[p] \in Int /\ -Period <= 2 * Increment[p] /\ 2 * Increment[p] <= Period
  BY PeriodFacts, RangeAssumption
<1>2. Int16(Period) = Period /\ Int16(d) = d
  BY PeriodFacts DEF Int16
<1>3. Bounce(d, s) \in {Increment[p], -Increment[p]} /\ d + Bounce(d, s) \in 0..Period
  BY <1>1, <1>2, PeriodFacts DEF Bounce
<1>4. d + Bounce(d, s) \in 0..(2 * Half - 1)
  BY <1>3, PeriodFacts
<1> QED
  BY <1>2, <1>3, <1>4, ModSmall, PeriodFacts DEF NextDuty

LEMMA AbsFacts ==
  ASSUME NEW a \in Int, NEW b \in Int, NEW s \in Int, NEW n \in {s, -s}
  PROVE  /\ Abs(s) \in Nat /\ Abs(a - b) \in Nat
         /\ Abs(a + n - b) <= Abs(a - b) + Abs(s)
         /\ a = b => Abs(a - b) = 0
BY DEF Abs

-----------------------------------------------------------------------------
(* Each part is kept *)

\* The sync reaches every module once all are configured.
LEMMA ChainReaches == at # "config" => Running = Module /\ Synced = Module
BY DEF Running, Synced, SyncOut, Module

\* The flags, apart from the data.
FlagsOK == updOut \in BOOLEAN /\ isrHits \in BOOLEAN /\ etFlag \in BOOLEAN /\ irq \in BOOLEAN

DataOK ==
  /\ at \in {"config", "read", "sync", "top", "change", "sleep"}
  /\ i \in Module /\ (at = "change" => i \in Phase)
  /\ isrCnt \in 0..(Threshold + 1)
  /\ duty \in [Phase -> 0..(2 * Half - 1)] /\ inc \in [Phase -> Int]
  /\ cmpA \in [Phase -> Int]

LEMMA TypeParts == TypeOK <=> FlagsOK /\ DataOK /\ ctr \in [Module -> Time]
BY DEF TypeOK, FlagsOK, DataOK

LEMMA InitInv == Init => Inv
<1> SUFFICES ASSUME Init PROVE Inv
  OBVIOUS
<1>1. TypeOK
  <2>1. ctr \in [Module -> Time]
    BY ConstantAssumption DEF Init
  <2>2. FlagsOK
    BY DEF Init, FlagsOK
  <2>3. DataOK
    <3>1. 0 \in 0..(Threshold + 1) /\ 0 \in 0..(2 * Half - 1) /\ inc \in [Phase -> Int]
      BY ConstantAssumption, PeriodFacts DEF Init
    <3> QED
      BY <3>1 DEF Init, DataOK, Module
  <2> QED
    BY <2>1, <2>2, <2>3, TypeParts
<1>2. DutyInRange
  BY PeriodFacts DEF Init, DutyInRange
<1> QED
  BY <1>1, <1>2 DEF Init, Inv, InPhase, NeverDeaf, Configured, Behind, Phase

LEMMA CtrStep == TypeOK /\ [Next]_vars => ctr' \in [Module -> Time]
<1> SUFFICES ASSUME TypeOK, [Next]_vars PROVE ctr' \in [Module -> Time]
  OBVIOUS
<1>1. 0 \in Time
  BY PeriodFacts DEF Time
<1>2. Advanced \in [Module -> Time]
  <2>1. \A m \in Module : (ctr[m] + 1) % (2 * Period) \in Time
    <3> TAKE m \in Module
    <3> DEFINE n == 2 * Period
               x == ctr[m] + 1
    <3>1. n \in Nat \ {0} /\ x \in Nat
      BY PeriodFacts DEF TypeOK, Time
    <3> HIDE DEF n, x
    <3>2. x % n \in 0..(n - 1)
      BY <3>1, ModRange
    <3> QED
      BY <3>2 DEF n, x, Time
  <2> QED
    BY <2>1 DEF Advanced, TypeOK
<1>3. \A c \in [Module -> Time] : AfterZero(c) \in [Module -> Time]
  BY <1>1 DEF AfterZero
<1>4. CASE Tick
  BY <1>2, <1>3, <1>4 DEF Tick
<1>5. CASE SwSync
  BY <1>3, <1>5 DEF SwSync, TypeOK
<1>6. CASE UNCHANGED ctr
  BY <1>6 DEF TypeOK
<1> QED
  BY <1>4, <1>5, <1>6 DEF Next, Task, EpwmInit, ReadDuties, WaitSync, ActualProgram,
     ChangeDuty, Wake, Isr, vars

LEMMA FlagsStep == FlagsOK /\ [Next]_vars => FlagsOK'
<1> SUFFICES ASSUME FlagsOK, [Next]_vars PROVE FlagsOK'
  OBVIOUS
<1> USE DEF FlagsOK
<1>1. CASE Tick \/ SwSync
  <2>1. UNCHANGED <<updOut, isrHits>>
    BY <1>1 DEF Tick, SwSync
  <2>2. \/ UNCHANGED <<etFlag, irq>>
        \/ etFlag' = TRUE /\ irq' = (irq \/ ~etFlag)
    BY Zenon, <1>1 DEF Tick, SwSync
  <2> QED
    BY <2>1, <2>2
<1>2. CASE EpwmInit \/ ReadDuties \/ ChangeDuty \/ Wake \/ UNCHANGED vars
  BY <1>2 DEF EpwmInit, ReadDuties, ChangeDuty, Wake, vars
<1>3. CASE WaitSync
  BY <1>3 DEF WaitSync, EnoughIsrs
<1>4. CASE ActualProgram
  BY <1>4 DEF ActualProgram, HitsCleared
<1>5. CASE Isr
  BY <1>5 DEF Isr, EtClear
<1> QED
  BY <1>1, <1>2, <1>3, <1>4, <1>5 DEF Next, Task

\* A change of duty, in all that depends on it.
LEMMA ChangeFacts ==
  ASSUME TypeOK, DutyInRange, ChangeDuty
  PROVE  /\ i \in Phase /\ UNCHANGED <<cmpA, updOut, isrHits>>
         /\ inc' = [inc EXCEPT ![i] = Bounce(duty[i], inc[i])]
         /\ duty' = [duty EXCEPT ![i] = NextDuty(duty[i], inc[i])]
         /\ Bounce(duty[i], inc[i]) \in {Increment[i], -Increment[i]}
         /\ NextDuty(duty[i], inc[i]) = duty[i] + Bounce(duty[i], inc[i])
         /\ NextDuty(duty[i], inc[i]) \in 0..Period
<1>1. i \in Phase /\ duty[i] \in 0..Period /\ inc[i] \in {Increment[i], -Increment[i]}
  BY DEF TypeOK, DutyInRange, ChangeDuty
<1>2. /\ UNCHANGED <<cmpA, updOut, isrHits>>
      /\ inc' = [inc EXCEPT ![i] = Bounce(duty[i], inc[i])]
      /\ duty' = [duty EXCEPT ![i] = NextDuty(duty[i], inc[i])]
  BY DEF ChangeDuty
<1> QED
  BY <1>1, <1>2, NextDutyFacts

LEMMA DataStep == TypeOK /\ DutyInRange /\ [Next]_vars => DataOK'
<1> SUFFICES ASSUME TypeOK, DutyInRange, DataOK, [Next]_vars PROVE DataOK'
  BY TypeParts
<1>1. CASE Tick \/ ReadDuties \/ SwSync \/ WaitSync \/ ActualProgram \/ Wake
  BY <1>1, PeriodFacts DEF Tick, ReadDuties, SwSync, WaitSync, ActualProgram, Wake,
     DataOK, DutyInRange, Module, Phase
<1>2. CASE EpwmInit
  BY <1>2, ShareOfPeriod, PeriodFacts DEF EpwmInit, DataOK, Module, Phase
<1>3. CASE ChangeDuty
  <2>1. duty' \in [Phase -> 0..(2 * Half - 1)] /\ inc' \in [Phase -> Int]
    BY <1>3, ChangeFacts, PeriodFacts DEF DataOK
  <2>2. UNCHANGED <<isrCnt, cmpA>>
    BY <1>3 DEF ChangeDuty
  <2>3. at' \in {"sleep", "change"} /\ i' \in Phase
    BY <1>3 DEF ChangeDuty, DataOK, Module, Phase
  <2> QED
    BY <2>1, <2>2, <2>3 DEF DataOK, Module, Phase
<1>4. CASE Isr
  <2>1. isrCnt' \in 0..(Threshold + 1)
    BY <1>4, ConstantAssumption DEF Isr, DataOK
  <2>2. cmpA' \in [Phase -> Int]
    BY <1>4, PeriodFacts DEF Isr, DataOK
  <2> QED
    BY <1>4, <2>1, <2>2 DEF Isr, DataOK
<1>5. CASE UNCHANGED vars
  BY <1>5 DEF vars, DataOK
<1> QED
  BY <1>1, <1>2, <1>3, <1>4, <1>5 DEF Next, Task

LEMMA RangeStep == TypeOK /\ DutyInRange /\ [Next]_vars => DutyInRange'
<1> SUFFICES ASSUME TypeOK, DutyInRange, [Next]_vars PROVE DutyInRange'
  OBVIOUS
<1>1. CASE Tick \/ SwSync \/ WaitSync \/ ActualProgram \/ Wake
  BY <1>1 DEF Tick, SwSync, WaitSync, ActualProgram, Wake, DutyInRange
<1>2. CASE EpwmInit
  BY <1>2, ShareOfPeriod DEF EpwmInit, DutyInRange, TypeOK, Module, Phase
<1>3. CASE ReadDuties
  BY <1>3 DEF ReadDuties, DutyInRange, Phase
<1>4. CASE ChangeDuty
  BY <1>4, ChangeFacts DEF DutyInRange, TypeOK
<1>5. CASE Isr
  BY <1>5 DEF Isr, DutyInRange
<1>6. CASE UNCHANGED vars
  BY <1>6 DEF vars, DutyInRange
<1> QED
  BY <1>1, <1>2, <1>3, <1>4, <1>5, <1>6 DEF Next, Task

LEMMA PhaseStep == TypeOK /\ InPhase /\ [Next]_vars => InPhase'
<1> SUFFICES ASSUME TypeOK, InPhase, [Next]_vars,
                    at' \notin {"config", "read", "sync"}
             PROVE  \A m \in Module : ctr'[m] = ctr'[0]
  BY DEF InPhase
<1>1. 0 \in Module
  BY DEF Module
<1>2. CASE Tick
  <2>1. Running = Module /\ Synced = Module /\ (\A m \in Module : ctr[m] = ctr[0])
    BY <1>2, ChainReaches DEF Tick, InPhase
  <2>2. \A m \in Module : Advanced[m] = Advanced[0]
    BY <1>1, <2>1 DEF Advanced
  <2>3. \A m \in Module : AfterZero(Advanced)[m] = 0
    BY <2>1 DEF AfterZero
  <2> QED
    BY <1>1, <1>2, <2>2, <2>3 DEF Tick
<1>3. CASE SwSync
  <2>1. \A m \in Module : AfterZero(ctr)[m] = 0
    BY <1>3, ChainReaches DEF AfterZero, SwSync
  <2> QED
    BY <1>1, <1>3, <2>1 DEF SwSync
<1>4. CASE EpwmInit \/ ReadDuties
  BY <1>4 DEF EpwmInit, ReadDuties
<1>5. CASE WaitSync \/ ActualProgram \/ ChangeDuty \/ Wake \/ Isr \/ UNCHANGED vars
  BY <1>5 DEF WaitSync, ActualProgram, ChangeDuty, Wake, Isr, vars, InPhase
<1> QED
  BY <1>2, <1>3, <1>4, <1>5 DEF Next, Task

LEMMA DeafStep == FlagsOK /\ NeverDeaf /\ [Next]_vars => NeverDeaf'
BY DEF NeverDeaf, FlagsOK, Next, Task, Tick, EpwmInit, ReadDuties, SwSync, WaitSync,
   ActualProgram, ChangeDuty, Wake, Isr, EtClear, vars

LEMMA ConfiguredStep == TypeOK /\ Configured /\ [Next]_vars => Configured'
<1> SUFFICES ASSUME TypeOK, Configured, [Next]_vars PROVE Configured'
  OBVIOUS
<1>1. CASE Tick \/ ActualProgram \/ Wake
  BY <1>1 DEF Tick, ActualProgram, Wake, Configured
<1>2. CASE EpwmInit
  BY <1>2 DEF EpwmInit, Configured, TypeOK, Module, Phase
<1>3. CASE ReadDuties
  BY <1>3 DEF ReadDuties, Configured, Phase
<1>4. CASE SwSync \/ WaitSync
  BY <1>4 DEF SwSync, WaitSync, Configured
<1>5. CASE ChangeDuty
  BY <1>5 DEF ChangeDuty, Configured
<1>6. CASE Isr
  BY <1>6 DEF Isr, Configured
<1>7. CASE UNCHANGED vars
  BY <1>7 DEF vars, Configured
<1> QED
  BY <1>1, <1>2, <1>3, <1>4, <1>5, <1>6, <1>7 DEF Next, Task

\* The lag of each output, before and after a change of one of the duties.
LEMMA ChangeLag ==
  ASSUME TypeOK, DutyInRange, ChangeDuty, NEW p \in Phase
  PROVE  /\ p # i => duty'[p] = duty[p]
         /\ Lag(p)' <= Lag(p) + StepSize(p)
         /\ Lag(p) \in Nat /\ Lag(p)' \in Nat /\ StepSize(p) \in Nat
         /\ duty[p] = cmpA[p] => Lag(p) = 0
<1>1. duty[p] \in Int /\ cmpA[p] \in Int /\ Increment[p] \in Int
  BY PeriodFacts DEF TypeOK
<1>2. /\ Abs(duty[p] - cmpA[p]) \in Nat /\ Abs(Increment[p]) \in Nat
      /\ duty[p] = cmpA[p] => Abs(duty[p] - cmpA[p]) = 0
  BY <1>1, AbsFacts
<1>3. cmpA' = cmpA
  BY ChangeFacts
<1>4. CASE p # i
  <2>1. duty'[p] = duty[p]
    BY <1>4, ChangeFacts DEF TypeOK
  <2> QED
    BY <1>2, <1>3, <1>4, <2>1 DEF Lag, StepSize
<1>5. CASE p = i
  <2> DEFINE n == Bounce(duty[p], inc[p])
  <2>1. n \in {Increment[p], -Increment[p]} /\ duty'[p] = duty[p] + n
    BY <1>5, ChangeFacts DEF TypeOK
  <2> HIDE DEF n
  <2>2. n \in Int /\ duty'[p] \in Int
    BY <1>1, <2>1
  <2>3. Abs(duty[p] + n - cmpA[p]) <= Abs(duty[p] - cmpA[p]) + Abs(Increment[p])
    BY <1>1, <2>1, AbsFacts
  <2>4. Abs(duty'[p] - cmpA[p]) \in Nat
    BY <1>1, <2>2 DEF Abs
  <2>5. Lag(p)' = Abs(duty[p] + n - cmpA[p]) /\ Lag(p)' = Abs(duty'[p] - cmpA[p])
    <3>1. Lag(p)' = Abs(duty'[p] - cmpA'[p])
      BY DEF Lag
    <3>2. cmpA'[p] = cmpA[p]
      BY <1>3
    <3>3. Abs(duty'[p] - cmpA[p]) = Abs(duty[p] + n - cmpA[p])
      <4>1. duty'[p] - cmpA[p] = duty[p] + n - cmpA[p]
        BY <1>1, <2>1, <2>2
      <4> QED
        BY <4>1
    <3> QED
      BY <3>1, <3>2, <3>3
  <2> QED
    BY <1>2, <1>5, <2>3, <2>4, <2>5 DEF Lag, StepSize
<1> QED
  BY <1>4, <1>5

LEMMA BehindStep ==
  TypeOK /\ DutyInRange /\ Configured /\ Behind /\ [Next]_vars => Behind'
<1> SUFFICES ASSUME TypeOK, DutyInRange, Configured, Behind, [Next]_vars, updOut',
                    NEW p \in Phase
             PROVE  /\ Lag(p)' <= 2 * StepSize(p)
                    /\ isrHits' => Lag(p)' <= StepSize(p)
                    /\ at' = "change" /\ i' <= p =>
                         Lag(p)' <= StepSize(p) /\ (isrHits' => duty'[p] = cmpA'[p])
  BY DEF Behind, StepSize
<1>1. /\ StepSize(p) \in Nat /\ Lag(p) \in Nat /\ (duty[p] = cmpA[p] => Lag(p) = 0)
      /\ duty[p] \in Int /\ cmpA[p] \in Int
  <2>1. duty[p] \in Int /\ cmpA[p] \in Int /\ Increment[p] \in Int
    BY PeriodFacts DEF TypeOK
  <2> QED
    BY <2>1, AbsFacts DEF Lag, StepSize
<1>2. updOut => /\ Lag(p) <= 2 * StepSize(p)
                /\ isrHits => Lag(p) <= StepSize(p)
                /\ at = "change" /\ i <= p =>
                     Lag(p) <= StepSize(p) /\ (isrHits => duty[p] = cmpA[p])
  BY DEF Behind
<1>3. CASE EpwmInit \/ ReadDuties \/ SwSync
  BY <1>3 DEF EpwmInit, ReadDuties, SwSync, Configured
<1>4. CASE WaitSync
  <2>1. duty[p] = cmpA[p] /\ UNCHANGED <<duty, cmpA>> /\ at' = "sleep"
    BY <1>4 DEF WaitSync, Configured
  <2> QED
    BY <1>1, <2>1 DEF Lag
<1>5. CASE Tick \/ Wake \/ UNCHANGED vars
  <2>1. UNCHANGED <<updOut, isrHits, duty, cmpA>>
    BY <1>5 DEF Tick, Wake, vars
  <2>2. at' = "change" => at = "change" /\ i' = i
    BY <1>5 DEF Tick, Wake, vars
  <2> QED
    BY <1>2, <2>1, <2>2 DEF Lag
<1>6. CASE ActualProgram
  BY <1>1, <1>2, <1>6 DEF ActualProgram, HitsCleared, Lag
<1>7. CASE Isr
  <2>1. UNCHANGED <<updOut, at, i, duty>>
    BY <1>7 DEF Isr
  <2>2. CASE etFlag
    <3>1. cmpA' = duty
      BY <1>7, <2>1, <2>2 DEF Isr
    <3>2. Lag(p)' = 0 /\ duty'[p] = cmpA'[p]
      BY <1>1, <2>1, <3>1 DEF Lag, Abs
    <3> QED
      BY <1>1, <3>2
  <2>3. CASE ~etFlag
    BY <1>2, <1>7, <2>1, <2>3 DEF Isr, Lag
  <2> QED
    BY <2>2, <2>3
<1>8. CASE ChangeDuty
  <2>1. /\ at = "change" /\ UNCHANGED <<updOut, isrHits, cmpA>> /\ i \in Phase
        /\ i' = i + 1 \/ at' # "change"
    BY <1>8 DEF ChangeDuty, TypeOK
  <2>2. /\ p # i => duty'[p] = duty[p]
        /\ Lag(p)' <= Lag(p) + StepSize(p) /\ Lag(p)' \in Nat
    BY <1>8, ChangeLag
  <2>3. p # i => Lag(p)' = Lag(p)
    BY <2>1, <2>2 DEF Lag
  <2>4. p \in Int /\ i \in Int
    BY <2>1 DEF Phase
  <2>5. CASE p = i
    BY <1>1, <1>2, <2>1, <2>2, <2>4, <2>5
  <2>6. CASE p # i
    BY <1>1, <1>2, <2>1, <2>2, <2>3, <2>4, <2>6
  <2> QED
    BY <2>5, <2>6
<1> QED
  BY <1>3, <1>4, <1>5, <1>6, <1>7, <1>8 DEF Next, Task

-----------------------------------------------------------------------------
(* Theorems *)

LEMMA InvAlways == Spec => []Inv
<1>1. Inv /\ [Next]_vars => Inv'
  <2>1. TypeOK /\ DutyInRange /\ [Next]_vars => TypeOK'
    BY FlagsStep, DataStep, CtrStep DEF TypeOK, FlagsOK, DataOK
  <2>2. TypeOK => FlagsOK
    BY TypeParts
  <2> QED
    BY <2>1, <2>2, RangeStep, PhaseStep, DeafStep, ConfiguredStep, BehindStep DEF Inv
<1> QED
  BY InitInv, <1>1, PTL DEF Spec

\* Every variable keeps its type.
THEOREM TypeCorrect == Spec => []TypeOK
<1>1. Inv => TypeOK
  BY DEF Inv
<1> QED
  BY InvAlways, <1>1, PTL

\* No duty and no compare leaves the period.
THEOREM DutiesKept == Spec => []DutyInRange
<1>1. Inv => DutyInRange
  BY DEF Inv
<1> QED
  BY InvAlways, <1>1, PTL

\* After the software sync the four modules count in phase.
THEOREM CountsInPhase == Spec => []InPhase
<1>1. Inv => InPhase
  BY DEF Inv
<1> QED
  BY InvAlways, <1>1, PTL

\* No output is more than two steps behind its duty.
THEOREM LagBounded == Spec => []LagsByTwoSteps
<1>1. Inv => LagsByTwoSteps
  BY DEF Inv, Behind, Lag, StepSize, LagsByTwoSteps
<1> QED
  BY InvAlways, <1>1, PTL

\* A set event flag has its interrupt pending.
THEOREM InterruptKept == Spec => []NeverDeaf
<1>1. Inv => NeverDeaf
  BY DEF Inv
<1> QED
  BY InvAlways, <1>1, PTL
=============================================================================
