-------------------------------- MODULE Ads8688 --------------------------------
(***************************************************************************)
(* The ADC driver of the R5 and the ADC at the other end of the SPI bus.   *)
(*                                                                         *)
(* Ads8688_SpiInit sends seven frames and then, once per event of the PRU, *)
(* Ads8688_Main sends two.  After every frame Ads8688_SpiRxCb, a state     *)
(* machine of its own, takes a sample out of the receive buffer and writes *)
(* the command of the next frame.  The ADC answers a frame with the        *)
(* conversion that the frames before have selected: AUTO_RST starts the    *)
(* sequence of the enabled channels again, NOP goes on with it.            *)
(*                                                                         *)
(* A frame may fail.  SpiInit asserts that it does not; Main ignores the   *)
(* result and waits for the status in a loop that has no effect: a build   *)
(* may drop it, and then goes on with whatever is in the buffer.           *)
(***************************************************************************)
EXTENDS Naturals

CONSTANT Enabled      \* how many channels AUTO_SEQ_EN enables: 3 for 0x7

ASSUME EnabledAssumption == Enabled \in Nat /\ 2 <= Enabled

Registers == {"AUTO_SEQ_EN", "CH_PWR_DOWN", "RANGE_0", "RANGE_1", "RANGE_2"}
Commands == Registers \cup {"RST", "AUTO_RST", "NOP"}
Channels == 0..(Enabled - 1)

InitFrames == 7                  \* transfers in Ads8688_SpiInit
First == InitFrames + 1          \* the two transfers of Ads8688_Main
Second == InitFrames + 2
Frames == 1..Second

None == Enabled                  \* no conversion is selected
Old == 0                         \* received in an earlier iteration
Sample == [ch : Channels \cup {None}, frame : Frames \cup {Old}]
NoSample == [ch |-> None, frame |-> Old]

VARIABLES
  place,      \* where the driver is
  frame,      \* the transfer it is at
  cbSt,       \* Ads8688_SpiRxCbSt
  tx,         \* the command in Spi_TxBuffer
  rx,         \* the conversion in Spi_RxBuffer
  adcData,    \* Ads8688_AdcData
  voltage,    \* Ads8688_AdcVoltage, which the control loop reads
  written,    \* ADC: the registers written since its reset
  sel,        \* ADC: the channel the next frame answers with
  clean       \* history: consecutive frames without a failure, up to three

driver == <<place, frame, cbSt, tx, adcData, voltage>>
adc == <<written, sel>>
vars == <<driver, rx, adc, clean>>

MaxClean == 3

-----------------------------------------------------------------------------
\* The R5 may have restarted alone: the ADC keeps what it was told before.
Init ==
  /\ place = "send" /\ frame = 1 /\ cbSt = "AUTO_SEQ_CFG" /\ tx = "RST"
  /\ rx = NoSample /\ adcData = [i \in {0, 1} |-> NoSample]
  /\ voltage = [i \in {0, 1} |-> NoSample]
  /\ written \in SUBSET Registers /\ sel \in Channels \cup {None}
  /\ clean = 0

-----------------------------------------------------------------------------
(* The ADC *)

\* What a frame with command c does to the registers, and which conversion the
\* frame after it is answered with.
WrittenAfter(c) ==
  IF c = "RST" THEN {} ELSE IF c \in Registers THEN written \cup {c} ELSE written

SelAfter(c) ==
  IF c = "RST" THEN None
  ELSE IF c = "AUTO_RST" THEN 0
  ELSE IF c = "NOP" /\ sel # None THEN (sel + 1) % Enabled ELSE sel

Exchange == written' = WrittenAfter(tx) /\ sel' = SelAfter(tx)
Received == rx' = [ch |-> sel, frame |-> frame]

-----------------------------------------------------------------------------
(* The driver *)

TransferOk ==
  /\ place = "send"
  /\ Exchange /\ Received
  /\ clean' = IF clean < MaxClean THEN clean + 1 ELSE clean
  /\ place' = "back"
  /\ UNCHANGED <<frame, cbSt, tx, adcData, voltage>>

\* The ADC may have seen the frame or not, and its answer may be in the buffer.
TransferFails ==
  /\ place = "send"
  /\ \/ Exchange /\ Received
     \/ Exchange /\ UNCHANGED rx
     \/ UNCHANGED <<adc, rx>>
  /\ clean' = 0
  /\ place' = IF frame <= InitFrames THEN "halted" ELSE "spin"
  /\ UNCHANGED <<frame, cbSt, tx, adcData, voltage>>

\* The wait for the status ends, or was never there.
SpinEnd ==
  /\ place = "spin"
  /\ place' = "back"
  /\ UNCHANGED <<frame, cbSt, tx, adcData, voltage, rx, adc, clean>>

\* One case of the switch of Ads8688_SpiRxCb: the state it is for, the command it
\* writes for the next frame, and the next state.
Case(from, cmd, to) == cbSt = from /\ tx' = cmd /\ cbSt' = to

\* Mutant: the range of channel 2 is not configured.
ConfigCasesShort ==
  \/ Case("AUTO_SEQ_CFG", "AUTO_SEQ_EN", "CH_PWR_DOWN_CFG")
  \/ Case("CH_PWR_DOWN_CFG", "CH_PWR_DOWN", "VADC_RANGE_SELECT_CFG_0")
  \/ Case("VADC_RANGE_SELECT_CFG_0", "RANGE_0", "VADC_RANGE_SELECT_CFG_1")
  \/ Case("VADC_RANGE_SELECT_CFG_1", "RANGE_1", "IDLE")
  \/ Case("IDLE", "AUTO_RST", "START_ADC")
  \/ Case("START_ADC", "NOP", "ADC_0")

ConfigCases ==
  \/ Case("AUTO_SEQ_CFG", "AUTO_SEQ_EN", "CH_PWR_DOWN_CFG")
  \/ Case("CH_PWR_DOWN_CFG", "CH_PWR_DOWN", "VADC_RANGE_SELECT_CFG_0")
  \/ Case("VADC_RANGE_SELECT_CFG_0", "RANGE_0", "VADC_RANGE_SELECT_CFG_1")
  \/ Case("VADC_RANGE_SELECT_CFG_1", "RANGE_1", "VADC_RANGE_SELECT_CFG_2")
  \/ Case("VADC_RANGE_SELECT_CFG_2", "RANGE_2", "IDLE")
  \/ Case("IDLE", "AUTO_RST", "START_ADC")
  \/ Case("START_ADC", "NOP", "ADC_0")

\* Mutant: the sequence is started once, in IDLE, and never again.
SampleCasesNoReset ==
  \/ Case("ADC_0", "NOP", "ADC_1") /\ adcData' = [adcData EXCEPT ![0] = rx]
  \/ Case("ADC_1", "NOP", "ADC_0") /\ adcData' = [adcData EXCEPT ![1] = rx]

SampleCases ==
  \/ Case("ADC_0", "AUTO_RST", "ADC_1") /\ adcData' = [adcData EXCEPT ![0] = rx]
  \/ Case("ADC_1", "NOP", "ADC_0") /\ adcData' = [adcData EXCEPT ![1] = rx]

\* Ads8688_Main sends two frames.
LastFrame == Second <= frame

\* The call of Ads8688_SpiRxCb after a transfer, and what follows it.
Callback ==
  /\ place = "back"
  /\ (ConfigCases /\ UNCHANGED adcData) \/ SampleCases
  /\ IF LastFrame THEN place' = "calculate" /\ UNCHANGED frame
                  ELSE place' = "send" /\ frame' = frame + 1
  /\ UNCHANGED <<voltage, rx, adc, clean>>

\* Ads8688_CalculateVoltage: the samples of both channels become visible at once.
Calculate ==
  /\ place = "calculate"
  /\ voltage' = adcData
  /\ place' = "pend"
  /\ UNCHANGED <<frame, cbSt, tx, adcData, rx, adc, clean>>

\* The next event: Ads8688_Isr returns from its pend and calls Ads8688_Main.
Pend ==
  /\ place = "pend"
  /\ place' = "send" /\ frame' = First
  /\ rx' = [rx EXCEPT !.frame = Old]
  /\ UNCHANGED <<cbSt, tx, adcData, voltage, adc, clean>>

Next == TransferOk \/ TransferFails \/ SpinEnd \/ Callback \/ Calculate \/ Pend

Spec == Init /\ [][Next]_vars

-----------------------------------------------------------------------------
(* Properties *)

\* Every variable stays in its type.
TypeOK ==
  /\ place \in {"send", "spin", "back", "calculate", "pend", "halted"}
  /\ frame \in Frames /\ tx \in Commands
  /\ cbSt \in {"AUTO_SEQ_CFG", "CH_PWR_DOWN_CFG", "VADC_RANGE_SELECT_CFG_0",
               "VADC_RANGE_SELECT_CFG_1", "VADC_RANGE_SELECT_CFG_2", "IDLE",
               "START_ADC", "ADC_0", "ADC_1"}
  /\ rx \in Sample /\ adcData \in [{0, 1} -> Sample]
  /\ voltage \in [{0, 1} -> Sample]
  /\ written \in SUBSET Registers /\ sel \in Channels \cup {None}
  /\ clean \in 0..MaxClean

\* No sample is taken from an ADC that is not fully configured, whatever it held
\* when the R5 started: the seven transfers of SpiInit and the states of the
\* callback are in step, and a failure among them halts.
ConfiguredBeforeSampling ==
  (First <= frame /\ place # "halted") => written = Registers

\* When the last frame of an iteration and both frames of the next have succeeded,
\* the control loop of that iteration computes with the channels in their places,
\* each taken from its own frame, whatever failed earlier: a lost frame shifts the
\* channels of two iterations at most.
PairAligned ==
  (place = "pend" /\ clean = MaxClean) =>
    voltage = [i \in {0, 1} |-> [ch |-> i, frame |-> First + i]]
=============================================================================
