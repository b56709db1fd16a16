---------------------------- MODULE Ads8688_proofs ----------------------------
(***************************************************************************)
(* Proofs about Ads8688, for every number of enabled channels: the types,  *)
(* that the ADC is configured before it is sampled, and that the channels  *)
(* are in their places again after a failure.                              *)
(***************************************************************************)
EXTENDS Ads8688, TLAPS

\* The straight-line code of SpiInit and Main and the callback's states agree.
At(n, st, c) == frame = n /\ cbSt = st /\ tx = c

InStep ==
  /\ place \in {"send", "spin", "back"} =>
       \/ At(1, "AUTO_SEQ_CFG", "RST")
       \/ At(2, "CH_PWR_DOWN_CFG", "AUTO_SEQ_EN")
       \/ At(3, "VADC_RANGE_SELECT_CFG_0", "CH_PWR_DOWN")
       \/ At(4, "VADC_RANGE_SELECT_CFG_1", "RANGE_0")
       \/ At(5, "VADC_RANGE_SELECT_CFG_2", "RANGE_1")
       \/ At(6, "IDLE", "RANGE_2")
       \/ At(7, "START_ADC", "AUTO_RST")
       \/ At(8, "ADC_0", "NOP")
       \/ At(9, "ADC_1", "AUTO_RST")
  /\ place \in {"calculate", "pend"} => At(9, "ADC_0", "NOP")
  /\ place = "spin" => 8 <= frame

\* How many frames the ADC has answered, when none of the first seven failed.
Done == IF place = "send" THEN frame - 1 ELSE frame

Configured ==
  place # "halted" =>
    /\ 2 <= Done => "AUTO_SEQ_EN" \in written
    /\ 3 <= Done => "CH_PWR_DOWN" \in written
    /\ 4 <= Done => "RANGE_0" \in written
    /\ 5 <= Done => "RANGE_1" \in written
    /\ 6 <= Done => "RANGE_2" \in written

\* What the frames without a failure have brought so far.
Conversion(c) == [ch |-> c, frame |-> First + c]

Aligned ==
  /\ place = "spin" => clean = 0
  /\ 1 <= clean =>
       \/ place \in {"spin", "halted"}
       \/ place = "send" /\ frame # 8
       \/ place = "back" /\ frame \notin {7, 9}
       \/ sel = 0
  /\ 2 <= clean /\ place = "back" /\ frame = 8 => sel = 1 /\ rx = Conversion(0)
  /\ 2 <= clean /\ place = "send" /\ frame = 9 =>
       sel = 1 /\ adcData[0] = Conversion(0)
  /\ clean = 3 /\ place = "back" /\ frame = 9 =>
       rx = Conversion(1) /\ adcData[0] = Conversion(0)
  /\ clean = 3 /\ place = "calculate" =>
       adcData[0] = Conversion(0) /\ adcData[1] = Conversion(1)
  /\ clean = 3 /\ place = "pend" =>
       voltage[0] = Conversion(0) /\ voltage[1] = Conversion(1)

Inv == TypeOK /\ InStep /\ Configured /\ Aligned

-----------------------------------------------------------------------------
LEMMA FrameNumbers == InitFrames = 7 /\ First = 8 /\ Second = 9 /\ Frames = 1..9
BY DEF InitFrames, First, Second, Frames

\* The callback has a case for every state, and leaves the driver in step.
LEMMA CallbackCases ==
  ASSUME TypeOK, InStep, Callback
  PROVE  /\ tx' \in Commands
         /\ cbSt' \in {"AUTO_SEQ_CFG", "CH_PWR_DOWN_CFG", "VADC_RANGE_SELECT_CFG_0",
                       "VADC_RANGE_SELECT_CFG_1", "VADC_RANGE_SELECT_CFG_2", "IDLE",
                       "START_ADC", "ADC_0", "ADC_1"}
         /\ InStep'
         /\ frame = 8 => adcData' = [adcData EXCEPT ![0] = rx]
         /\ frame = 9 => adcData' = [adcData EXCEPT ![1] = rx]
         /\ frame < 8 => adcData' = adcData
<1>1. place = "back"
  BY DEF Callback
<1>2. \/ frame < 9 /\ place' = "send" /\ frame' = frame + 1
      \/ frame = 9 /\ place' = "calculate" /\ frame' = frame
  BY FrameNumbers DEF Callback, LastFrame, TypeOK
<1>3. CASE ConfigCases /\ UNCHANGED adcData
  BY <1>1, <1>2, <1>3 DEF ConfigCases, Case, InStep, At, Commands, Registers
<1>4. CASE SampleCases
  BY <1>1, <1>2, <1>4 DEF SampleCases, Case, InStep, At, Commands, Registers
<1>. QED
  BY <1>3, <1>4 DEF Callback

LEMMA ReceivedSample == TypeOK /\ Received => rx' \in Sample
BY DEF TypeOK, Received, Sample

LEMMA ExchangeTypes ==
  TypeOK /\ Exchange => written' \in SUBSET Registers /\ sel' \in Channels \cup {None}
BY EnabledAssumption DEF TypeOK, Exchange, WrittenAfter, SelAfter, Channels, None

LEMMA InitInv == Init => Inv
<1> SUFFICES ASSUME Init PROVE Inv
  OBVIOUS
<1>1. NoSample \in Sample
  BY DEF NoSample, Sample
<1>2. TypeOK
  BY <1>1, FrameNumbers DEF Init, TypeOK, Commands, MaxClean
<1>. QED
  BY <1>2 DEF Init, Inv, InStep, At, Configured, Done, Aligned

LEMMA TypeStep == TypeOK /\ InStep /\ [Next]_vars => TypeOK'
<1> SUFFICES ASSUME TypeOK, InStep, [Next]_vars PROVE TypeOK'
  OBVIOUS
<1> USE FrameNumbers DEF driver, adc, vars
<1>1. CASE TransferOk
  BY <1>1, ReceivedSample, ExchangeTypes DEF TransferOk, TypeOK, MaxClean
<1>2. CASE TransferFails
  BY <1>2, ReceivedSample, ExchangeTypes DEF TransferFails, TypeOK, MaxClean
<1>3. CASE SpinEnd
  BY <1>3 DEF SpinEnd, TypeOK
<1>4. CASE Callback
  <2>1. adcData' \in [{0, 1} -> Sample]
    BY <1>4, CallbackCases DEF TypeOK
  <2>2. place' \in {"send", "calculate"} /\ frame' \in Frames
    BY <1>4 DEF Callback, LastFrame, TypeOK
  <2>. QED
    BY <1>4, <2>1, <2>2, CallbackCases DEF Callback, TypeOK
<1>5. CASE Calculate
  BY <1>5 DEF Calculate, TypeOK
<1>6. CASE Pend
  <2>1. rx' \in Sample
    BY <1>6 DEF Pend, TypeOK, Sample
  <2>. QED
    BY <1>6, <2>1 DEF Pend, TypeOK
<1>7. CASE UNCHANGED vars
  BY <1>7 DEF TypeOK
<1>. QED
  BY <1>1, <1>2, <1>3, <1>4, <1>5, <1>6, <1>7 DEF Next

LEMMA InStepStep == TypeOK /\ InStep /\ [Next]_vars => InStep'
<1> SUFFICES ASSUME TypeOK, InStep, [Next]_vars PROVE InStep'
  OBVIOUS
<1> USE FrameNumbers
<1>1. CASE TransferOk \/ TransferFails \/ SpinEnd
  <2>1. /\ UNCHANGED <<frame, cbSt, tx>> /\ place \in {"send", "spin"}
        /\ \/ place' \in {"back", "halted"}
           \/ place' = "spin" /\ 8 <= frame
    BY <1>1 DEF TransferOk, TransferFails, SpinEnd, TypeOK
  <2>. QED
    BY <2>1 DEF InStep, At
<1>2. CASE Callback
  BY <1>2, CallbackCases
<1>3. CASE Calculate \/ Pend
  BY <1>3 DEF Calculate, Pend, InStep, At
<1>4. CASE UNCHANGED vars
  BY <1>4 DEF vars, driver, InStep, At
<1>. QED
  BY <1>1, <1>2, <1>3, <1>4 DEF Next

LEMMA ConfiguredStep == TypeOK /\ InStep /\ Configured /\ [Next]_vars => Configured'
<1> SUFFICES ASSUME TypeOK, InStep, Configured, [Next]_vars PROVE Configured'
  OBVIOUS
<1> USE FrameNumbers DEF Configured, Done
<1>1. CASE TransferOk
  <2>1. /\ place = "send" /\ place' = "back" /\ frame' = frame
        /\ written' = WrittenAfter(tx)
    BY <1>1 DEF TransferOk, Exchange
  <2>. QED
    BY <2>1 DEF InStep, At, WrittenAfter, Registers
<1>2. CASE TransferFails
  <2>1. /\ place = "send" /\ place' \in {"halted", "spin"} /\ frame' = frame
        /\ place' = "spin" => 8 <= frame
        /\ written' = WrittenAfter(tx) \/ written' = written
    BY <1>2 DEF TransferFails, Exchange, adc, TypeOK
  <2>. QED
    BY <2>1 DEF InStep, At, WrittenAfter, Registers
<1>3. CASE SpinEnd
  BY <1>3 DEF SpinEnd, adc
<1>4. CASE Callback
  <2>1. /\ place = "back" /\ written' = written
        /\ \/ place' = "send" /\ frame' = frame + 1
           \/ place' = "calculate" /\ frame' = frame
    BY <1>4 DEF Callback, adc
  <2>. QED
    BY <2>1 DEF TypeOK
<1>5. CASE Calculate \/ Pend
  <2>1. /\ written' = written /\ place \in {"calculate", "pend"}
        /\ \/ place' = "pend" /\ frame' = frame
           \/ place' = "send" /\ frame' = 8
    BY <1>5 DEF Calculate, Pend, adc
  <2>2. frame = 9
    BY <2>1 DEF InStep, At
  <2>. QED
    BY <2>1, <2>2
<1>6. CASE UNCHANGED vars
  BY <1>6 DEF vars, driver, adc
<1>. QED
  BY <1>1, <1>2, <1>3, <1>4, <1>5, <1>6 DEF Next

\* After a failure nothing is claimed until the frames that follow it have come.
LEMMA AlignedStep == TypeOK /\ InStep /\ Aligned /\ [Next]_vars => Aligned'
<1> SUFFICES ASSUME TypeOK, InStep, Aligned, [Next]_vars PROVE Aligned'
  OBVIOUS
<1> USE FrameNumbers DEF Conversion
<1>1. CASE TransferOk
  <2>1. /\ place = "send" /\ place' = "back" /\ UNCHANGED <<frame, adcData, voltage>>
        /\ sel' = SelAfter(tx) /\ rx' = [ch |-> sel, frame |-> frame]
        /\ clean' = IF clean < 3 THEN clean + 1 ELSE clean
    BY <1>1 DEF TransferOk, Exchange, Received, MaxClean
  <2>2. CASE frame = 8
    <3>1. tx = "NOP"
      BY <2>1, <2>2 DEF InStep, At
    <3>2. 1 <= clean => sel' = 1 /\ rx' = Conversion(0)
      BY <2>1, <2>2, <3>1, EnabledAssumption DEF Aligned, SelAfter, None
    <3>. QED
      BY <2>1, <2>2, <3>2 DEF Aligned, TypeOK, MaxClean
  <2>3. CASE frame \in {7, 9}
    <3>1. tx = "AUTO_RST"
      BY <2>1, <2>3 DEF InStep, At
    <3>2. sel' = 0
      BY <2>1, <3>1 DEF SelAfter
    <3>3. frame = 9 /\ 2 <= clean => rx' = Conversion(1) /\ adcData[0] = Conversion(0)
      BY <2>1 DEF Aligned
    <3>. QED
      BY <2>1, <2>3, <3>2, <3>3 DEF Aligned, TypeOK, MaxClean
  <2>4. CASE frame \notin {7, 8, 9}
    BY <2>1, <2>4 DEF Aligned
  <2>. QED
    BY <2>2, <2>3, <2>4
<1>2. CASE TransferFails
  <2>1. clean' = 0
    BY <1>2 DEF TransferFails
  <2>. QED
    BY <2>1 DEF Aligned
<1>3. CASE SpinEnd
  BY <1>3 DEF SpinEnd, Aligned, adc
<1>4. CASE Callback
  <2>1. /\ place = "back" /\ UNCHANGED <<sel, rx, voltage, clean>>
        /\ \/ frame < 9 /\ place' = "send" /\ frame' = frame + 1
           \/ frame = 9 /\ place' = "calculate" /\ frame' = frame
    BY <1>4 DEF Callback, LastFrame, TypeOK, adc
  <2>2. CASE frame = 8
    <3>1. adcData'[0] = rx
      BY <1>4, <2>2, CallbackCases DEF TypeOK
    <3>. QED
      BY <2>1, <2>2, <3>1 DEF Aligned
  <2>3. CASE frame = 9
    <3>1. adcData'[0] = adcData[0] /\ adcData'[1] = rx
      BY <1>4, <2>3, CallbackCases DEF TypeOK
    <3>. QED
      BY <2>1, <2>3, <3>1 DEF Aligned
  <2>4. CASE frame < 8
    BY <2>1, <2>4 DEF Aligned, TypeOK
  <2>. QED
    BY <2>2, <2>3, <2>4 DEF TypeOK
<1>5. CASE Calculate \/ Pend
  BY <1>5 DEF Calculate, Pend, Aligned, InStep, At, adc
<1>6. CASE UNCHANGED vars
  BY <1>6 DEF vars, driver, adc, Aligned
<1>. QED
  BY <1>1, <1>2, <1>3, <1>4, <1>5, <1>6 DEF Next

LEMMA InvAlways == Spec => []Inv
<1>1. Inv /\ [Next]_vars => Inv'
  BY TypeStep, InStepStep, ConfiguredStep, AlignedStep DEF Inv
<1>. QED
  BY <1>1, InitInv, PTL DEF Spec

-----------------------------------------------------------------------------
(* Theorems *)

\* Every variable stays in its type.
THEOREM TypeCorrect == Spec => []TypeOK
BY InvAlways, PTL DEF Inv

\* No sample is taken from an ADC that is not fully configured.
THEOREM ConfiguredFirst == Spec => []ConfiguredBeforeSampling
<1>1. Inv => ConfiguredBeforeSampling
  <2> SUFFICES ASSUME Inv, First <= frame, place # "halted"
               PROVE written = Registers
    BY DEF ConfiguredBeforeSampling
  <2>1. Done \in Nat /\ 7 <= Done
    BY FrameNumbers DEF Inv, TypeOK, Done
  <2>2. \A r \in Registers : r \in written
    BY <2>1 DEF Inv, Configured, Registers
  <2>3. written \subseteq Registers
    BY DEF Inv, TypeOK
  <2>. QED
    BY <2>2, <2>3
<1>. QED
  BY <1>1, InvAlways, PTL

\* After the last frame of one iteration and both of the next, the control loop has
\* both channels in their places, whatever failed before.
THEOREM AlignedAlways == Spec => []PairAligned
<1>1. Inv => PairAligned
  <2> SUFFICES ASSUME Inv, place = "pend", clean = MaxClean
               PROVE voltage = [i \in {0, 1} |-> [ch |-> i, frame |-> First + i]]
    BY DEF PairAligned
  <2>1. \A i \in {0, 1} : voltage[i] = [ch |-> i, frame |-> First + i]
    BY DEF Inv, Aligned, Conversion, MaxClean
  <2>2. voltage = [i \in {0, 1} |-> voltage[i]]
    BY DEF Inv, TypeOK
  <2>. QED
    BY <2>1, <2>2
<1>. QED
  BY <1>1, InvAlways, PTL
=============================================================================
