# Verification of the AM64x BLDC firmware

TLA+ models of the motor-control firmware in `src/`, TLC runs over small
instances, and TLAPS proofs for all values of the constants.  Paths below are
relative to the repository: *PRU* is `TestPru/`, *R5* is
`posix_demo_am64x-sk_r5fss0-0_freertos_ti-arm-clang/`, *M4F* is
`task_switch_am64x-sk_m4fss0-0_freertos_ti-arm-clang/`.

## 1. The system

Three cores, no operating system between them.

| Component | State | Operations | Talks to |
|---|---|---|---|
| PRU PWM generator (`TestPru/main.c`) | `pwm_main_st`, `isr_cnt`, `pwm_enable`, `pwm_doublebuf`, the six compares and the trip of the PWM | a loop that handles each reload of the IEP counter, in one of the phases INIT, LOW, HIGH, RESTART | reads nine words of shared memory, raises an event to the R5 |
| PRU driver (`PruDriver.c`) | `doublebuf`, `mem_config_init`, the shared words | `Pwm_SetDutycycle`, `Pwm_SetDeadTime`, `Pwm_EnableOutputs`, `PRU_IPC_Isr`, start-up | writes the shared words; posts `AdcSem` |
| ADC driver (`Ads8688.c`) | `Ads8688_SpiRxCbSt`, SPI buffers, samples, voltages | seven configuration transfers, two transfers per iteration, a callback after each | the ADS8688 on the SPI bus; pends on `AdcSem` |
| Current controller (`CurrentCtlr.c`) | `CurrentCtlr_State`, `CurrentCtlr_IsrCnt`, `CurrentCtlr_Enable`, accumulators, motor data | offset calibration, resistance, PI control, error | calls the PRU driver and the gate driver, reads the voltages |
| Gate driver service (`Igd.c`) | `Igd_Start`, `Igd_voltageOffset`, pins of the DRV8302 | `Igd_Task` (samples two fault pins every 100 ms), `Igd_Enable`, offsets and currents | shares `Igd_Start` with the controller |
| Watchdog service (`Wd.c`) | the watchdog's counter, `CurrentCtlr_Enable` | `Wd_Task` (clears every 500 ms), `Safety_Exception_Handler` after 1 s | shares `CurrentCtlr_Enable` with the controller |
| Start-up (`Pru_InitCore`, `TestPru/main.c` before its loop) | CFG_CGR, event 17, the shared words, the pads | one pass on each core, at the same time | each other, over a register both read, change and write |
| R5 `main.c` | task priorities | creates `freertos_main` (highest), `Wd_Task`, `Igd_Task` (lowest) | |
| Modbus master (M4F `ModBus/Modbus.c`) | `Modbus_TaskSt`, two semaphores, `Modbus_ReadOk`, packets | one task, two UART callbacks, a one-second wait | RS485; nothing of the other cores |
| EPWM driver (R5 `PwmDrv/PwmDrv.c`) | four timers in a sync chain, `EpwmDuty`, `EpwmInc`, `gUpdOutIsr`, `IsrHits` | an initialisation, a task that sweeps the duties, an interrupt that writes them | called by nothing |
| POSIX demo (R5 `posix_demo.c`) | message queues, threads | a main thread, a dispatcher, workers | called by nothing |

One period of the closed loop: the PRU's counter reloads twice per PWM period.
At the first reload (LOW phase, or INIT when the PWM starts) the PRU latches the
index of the published bank, raises the event and computes the compares of the
first half; at the second (HIGH phase) it computes those of the second half from
the same bank and tests the enable word.  The event becomes `PRU_IPC_Isr`, which
posts `AdcSem`; `freertos_main` pends on it, samples two channels, and
`CurrentCtlr_Main` computes the duties and writes them to the bank that is *not*
published, then publishes it.

What is hard here, and what must be true of it:

* **Two cores, shared words, no lock.**  A pulse must come from one duty set;
  both edges must carry the dead time; an update must not be lost; the PWM must
  end after a stop.
* **An interrupt and a binary semaphore.**  Post before clear must not lose an
  event.
* **Preemption on the R5.**  `CurrentCtlr_Enable` is written by the control loop
  and by the watchdog's interrupt, `Igd_Start` by the lowest task and read by the
  highest.  A stop must win; a fault must open the gate driver for good.
* **Calibration by counters** that `CurrentCtlr_Init` starts at one and two
  phases share.
* **Transfers that fail** in the middle of a sequence that the ADC and the
  driver's callback each count on their own.
* **Two cores that start each other**, with one event sent before anybody can take
  it, a second one that nobody waits for, and a register that both change.
* **A bus that answers late, in part or never**, with one transceiver for both
  directions and a read that stays pending after its second is over.
* **Threads that end each other**: queues must outlive their users, and a full
  inbox must neither lose the terminate message nor the account of a job.
* **Time.**  The task that feeds the watchdog has a lower priority than the
  control loop that the watchdog guards.

`PROJECT.json` lists these hazards at their lines, with the properties that
cover them or the reason why none does.

## 2. Modules

| Module | What it is |
|---|---|
| `PwmHandoff` | PRU generator, PRU driver, interrupt and semaphore: every access to a shared word is a step |
| `MCPwmHandoff` | values of its constants for TLC |
| `DutyRegister` | what the handoff promises: a register set in one step, and periods that sample it once |
| `MotorTasks` | the three R5 tasks and the watchdog's interrupt under preemption and time |
| `PwmCommands` | the abstract contract between the two: order of the PWM calls, a stop is final |
| `Ads8688` | the ADC driver and the ADC, frame by frame |
| `Startup` | both cores from their entry to their loops, for a start of the device and of the R5 alone |
| `Modbus` | the Modbus master, its UART and a slave |
| `PwmDrv`, `MCPwmDrv` | the EPWM driver and its four timers, and values of its constants |
| `PosixDemo` | main thread, dispatcher and workers over bounded queues |
| `PwmHandoff_proofs`, `PwmPace_proofs`, `MotorTasks_proofs`, `Ads8688_proofs`, `Startup_proofs`, `Modbus_proofs`, `PwmDrv_proofs`, `PosixDemo_proofs` | theorems and proofs |

`PwmHandoff` is the steady state that `Startup` leads to: `QuietStart` is what its
`Init` takes for granted.

### PwmHandoff

State: the shared words (`dutyBuf` by bank, `bufIdx`, `deadTime`, `enable`); the
event, the interrupt and the semaphore; the R5's place in an iteration (`r5`,
`word`, `doublebuf`, `pwmArrayLoc`, `ctl`); the PRU's place in a reload (`pru`,
`phase`) and its variables under the names of the source; the compares `cmpHigh`
(cmp7, 9, 11) and `cmpLow` (cmp8, 10, 12).  History variables record what the
properties need: the duties last published and last latched, whether the R5 was
behind at the last event (`late`), whether the last update has been latched
(`taken`), reloads since the last event and since the stop, and an event not yet
answered (`owed`).

`IsrPost` and `IsrClear` are the two lines of `PRU_IPC_Isr`.  `SetDutycycle`
(clamp and toggle), `WriteDutyWord` three times and `PublishIndex` are
`Pwm_SetDutycycle`; at the end of the calibration `SetDeadTime` and
`EnableOutputs` follow.  `DisableOutputs` is an iteration that finds
`CurrentCtlr_Enable == 0`; it may be any iteration.  On the PRU a reload begins
with `InitSkip`, `InitDisabled`, `InitEnabled`, `LowStart`, `HighStart` or
`Restart` and goes on through `Latch`, `RaiseEvent`, `HighSide` and `LowSide`
(one per phase, each reading one shared word) and `CheckEnable`.

`bufIdx` starts with the first bank: `PRUICSS_IsrInit` does not write word 6, but
`PRUICSS_custom_Init` has zeroed all of the PRU's memories before.  The R5's `doublebuf`
starts false.

`DutyRegister` has none of this: a register of three duties, periods that sample it
once and shape both edges after that sample, with the dead time around them, and a
setter that, when it keeps up, never sets the register over a value no period has
sampled.  `PwmHandoff` implements it (`ImplementsRegister`): the register is the set
published last, whose one step is the write of the index, the sample is what was
published at the last latch, and the place in the period (`Half`) follows from the
PRU's phase.  The compares are seen only while a half of them is complete
(`SetCompares`).

The model has no clock: the R5 may take any number of PRU steps for its own.  A
period is called *late* when, at the moment the PRU latches, the R5 has not
finished the iteration before.  The properties about which duties are used hold
for periods that are not late; the ones about the dead time and lost events hold
always.

### MotorTasks and PwmCommands

`freertos_main` is a loop of places: `pend`, two transfers, `gate`, `stop`,
`request`, `ack`, `switch`.  The places are where another actor can come between
two accesses of `CurrentCtlr_Main` to shared state.  `WdClear` and the three
steps of `Igd_Main` run only while no higher task is ready (`CpuFree`,
`IgdMayRun`): the main task is blocked in its pend or in a transfer.  The
watchdog's interrupt runs between any two steps once `WdExpire` ticks have passed
since the last clear.  `Tick` passes time when no task is ready, or while the
main task spins; other code takes no time.

A transfer ends well, or with a status that is not 0; then the loop
`while (Spi_TransactionConfig.status != 0)` spins.  The variable is not volatile
and nothing in the loop changes it, so the loop may never end, or a compiler may
drop it: `SpinEnd` is possible, and no fairness makes it happen.

The float data is reduced to what the control depends on: `igdOffset` says
whether the calibration reached `Igd_voltageOffset`, `theta` whether the last
iteration estimated the angle; `sum` and `averaged` count samples.

`PwmCommands` states the order of the controller's PWM calls: start once, close
the loop once, stop at any time and for ever.  `MotorTasks` is shown to implement
it (`KeepsContract`) under the mapping `on <- outputs`, `stage` from
`CurrentCtlr_State`.  `PwmHandoff`, which leaves the rest of the controller out, is
shown to implement it too, under `on <- enable`, `stage <- ctl`: the commands that
reach the enable word word by word are the ones the whole controller gives.

### Ads8688

`place` and `frame` say which of the nine transfers the driver is at: seven in
`Ads8688_SpiInit`, two in `Ads8688_Main`.  `Callback` is `Ads8688_SpiRxCb`: its
cases write the command of the next frame and, in `ADC_0` and `ADC_1`, take the
sample.  The ADC (`written`, `sel`) is external and modelled from the commands
the driver sends: RST clears its registers, AUTO_RST selects the first enabled
channel for the next frame, NOP the following one.  A failing transfer may have
reached the ADC or not, and may have left an answer in the buffer or not.  In
`SpiInit` it halts on `DebugP_assert`, in `Main` its result is ignored.  The ADC
starts in any state, as the R5 may have restarted alone.

A sample is the channel it came from and the frame it was received in.

### Startup

`Order` lists the steps of `freertos_main` and `Pru_InitCore`; `Step(s)` lets the R5
do step `s` when its turn has come, so each action names its place in the order
once, and an order with two steps exchanged is a variant of one definition.  A step
that reads, changes and writes CFG_CGR is two (`ReadCgr`, then `EnableClocks` or
`ClearStopReq`); the PRU's own change of it (`Announce`) is one, since the R5 has
written its last before the firmware is loaded - which is what `WaitsEnd` and
`StartsUp` would fail on if it were not so.  `stale` holds the shared words that still
contain what memory held before: `Open`, in which `PRUICSS_initMemory` zeroes the PRU's
memories, empties it, and `ZeroWords` zeroes three of them once more.  `OpenIpc` is two steps because the interrupt is registered
inside the call whose result `PRU_IPC_Isr` uses.  In a warm start the firmware of
the last run (`OldFirmware`) paces the R5 and may drive the PWM until `Halt`.

### Modbus

`at` is the place of `Modbus_Task`, `taskSt` its `Modbus_TaskSt`; the variables
`wrEn`, `readOk`, `readSem`, `writeSem` and `rxPkt` are the source's.  The driver of
the UART is external: `tx` is what is left of a write, `reading` and `got` a pending
read, `fifo` what came without one.  `RxByte` is the driver's interrupt, and after
the last byte `Uart1_RxCb`; `TxFifoEmpty` is `Uart1_TxCb`.  `Read` is one action
although it is three statements: the first byte ends 100 us after the transceiver
listens, the statements take less.  A slave owes an answer for every request it has
understood, up to `MaxOwed`, and gives it byte by byte at any time; any byte may be
lost, and is lost when the transceiver sends.  A byte is its place in the reply, so
a packet is whole when each byte is in its place.

### PwmDrv

`EpwmInit` four times, `ReadDuties` and `SwSync` are
`epwm_duty_cycle_sync_init`; `WaitSync`, `ActualProgram` and one `ChangeDuty` per
output are `epwm_duty_cycle_sync_task`, `Isr` is `AppEpwm_epwmIntrISR`.  A counter
goes up and down: it is its place in the period of `2 * Period` ticks.  `Tick` may
happen any number of times between two steps of the software.  `Synced` follows the
chain of sync outputs.  The event trigger raises an interrupt only when its flag
was clear.  `Int16` is the cast with which the code compares the unsigned duties.

### PosixDemo

`at` and `i` are `posix_demo_main` and its loop index, `disp` and `j` the
dispatcher's, `worker` the workers.  An action is one call: `OpenQueue` or
`OpenFails`, `CreateWorker`, `JoinWorker`, `CloseQueue`; `SendJob` or `DropJob`
(`mq_timedsend`, whose time is over), `SendExit` (`mq_send`, which blocks);
`Receive`.  A message is its type.  `tried`, `done` and `dropped` count the jobs per
worker for the property that none vanishes.

## 3. Runs

| Run | Properties | Result |
|---|---|---|
| `PwmHandoff` | `PulseFromOneDutySet`, `DeadTimeKept`, `NoUpdateSkipped`, `NoEventLost`, `EventCadence`, `SilentAfterStop`, `KeepsContract`, `ImplementsRegister` | pass |
| `PwmHandoff_live` | `StopSilencesPwm` | pass |
| `MotorTasks` | `MeansAreExact`, `StopWithinOneIteration`, `GateOffIsFinal`, `WatchdogMargin`, `StopNotOverwritten`, `KeepsContract` | pass |
| `MotorTasks_live` | `PersistentFaultOpensGate` | pass |
| `MotorTasks_SpinStop` | `StopStopsPwm` | violated |
| `MotorTasks_Offset` | `CalibrationApplied` | violated |
| `MotorTasks_Theta` | `ThetaEstimated` | violated |
| `Ads8688` | `ConfiguredBeforeSampling`, `PairAligned` | pass |
| `Startup` | `QuietStart`, `IsrFindsItsHandle`, `WaitsEnd`, `PadsAfterFirmware`, `StartsUp` | pass |
| `Modbus` | `SendsAsDriver`, `WriteAccepted`, `WaitsEnd`, `CrcOfStablePacket`, `CrcOfWholeReply`, `KeepsPolling` | pass |
| `PwmDrv` | `DutyInRange`, `InPhase`, `LagsByTwoSteps`, `NeverDeaf`, `KeepsSweeping` | pass |
| `PosixDemo` | `ClosedAfterUse`, `JobsAccounted`, `NothingLeft`, `EndsInAnySchedule`, `Terminates` | pass |

No run checks a `TypeOK`: the type invariants are proved, each a part of the inductive
invariant of its module.  What the passing runs show:

* `PulseFromOneDutySet`: in a period that was not late at its start, both halves
  of all three pulses come from the duties published when the PRU latched.  The
  R5 writes during the period, and at most once: it was idle at the latch, and
  the next event comes with the next latch.  One update goes to the other bank.
* `DeadTimeKept`: on both edges the low side is away from the high side by
  exactly the dead time, and every compare is inside the half period - late or
  not, from the first pulse on, because the clamps bound the duties and the enable
  is written after the duties and the dead time.
* `NoUpdateSkipped`: an R5 that keeps up never publishes over an update the PRU
  has not latched.
* `ImplementsRegister`: two banks, an index and no lock are one register to the
  motor.  This is more than the three properties above together: also the order in
  which updates, samples and halves follow each other is the register's.
* `NoEventLost`: after an event the semaphore or the event is still set until an
  iteration begins.  The interrupt can clear an event raised between its post and
  its clear, but the main task cannot have consumed the post by then.
* `EventCadence`: events are two reloads apart, and four across a restart.
* `SilentAfterStop`, `StopSilencesPwm`: three reloads after the enable word was
  cleared, the compares are zero and the trip is set; and it does happen.
* `KeepsContract`, of `PwmHandoff` and of `MotorTasks`: both issue the commands of
  `PwmCommands` in its order, so that what the one shows of the PWM and what the
  other shows of the controller fit together.
* `MeansAreExact`: each mean divides by the number of samples in it.
* `StopWithinOneIteration`, `StopNotOverwritten`: the protocol on
  `CurrentCtlr_Enable` needs no lock, because the interrupt only turns 1 into 0
  and the loop only 2 into 1.  That an iteration begins after the stop is not among
  the things the code gives: see `StopStopsPwm` below.
* `GateOffIsFinal`, `PersistentFaultOpensGate`: the gate driver opens on a fault
  that stays, and does not close again although `Igd_Task` sets `Igd_Start` anew.
  The second has a premise of its own, `EverySpinEnds`: while `freertos_main` spins,
  `Igd_Task`, the lowest task, does not run, and if a spin is for ever the fault is
  never read.  Without the premise TLC finds this.
* `WatchdogMargin`: the watchdog expires only on a main task that has spun for
  `WdExpire - WdPeriod` ticks, so blocked transfers do not stop the motor.  A loop
  that is merely slow cannot show here: code that neither blocks nor spins takes no
  time.
* `ConfiguredBeforeSampling`, `PairAligned`: the driver samples only an ADC that
  has all its registers; three frames after a failure the two channels are in
  their places again, since `ADC_0` sends AUTO_RST every time.
* `QuietStart`: the firmware's wait for the kick ends on the event that
  `PRUICSS_IsrInit` sends before the firmware is loaded, not on the one at the end of
  `Pru_InitCore`.  This is harmless: by then the shared words are zero, in a warm
  start too, and the firmware clears the compares before its loop, which the last run
  may have left set (their clock is on then).
* `IsrFindsItsHandle`: `PRU_IPC_Isr` does not run before its handle and `AdcSem` are
  there - in a start of the device.  When the R5 alone is restarted, the old firmware
  may raise an event between `PRUICSS_intcInit`, which clears it, and
  `PRUICSS_disableCore`; it then waits for `PRU_IPC_open`, which registers the
  interrupt before its result is assigned.  The property excludes this start.
* `PadsAfterFirmware`: `src/README.md:96` asks that the firmware be loaded before the
  outputs are enabled; the wait for ICSS_PWR_IDLE orders the two when the device
  starts.  In a warm start the bit may still be clear from the last run, and the wait
  ends at once; the firmware is loaded, but may not have said so.
* `WaitsEnd` of `Startup`: what each core polls for is there or about to come: while
  the R5 polls ICSS_PWR_IDLE the firmware has yet to clear it, and the firmware, once
  loaded, finds the stop request gone and a kick pending.  `StartsUp`: both cores do
  reach their loops; no change of CFG_CGR is lost.
* `SendsAsDriver`, `WriteAccepted`, `WaitsEnd`, `KeepsPolling`: the direction pin stays
  until the last bit is out, `Modbus_Write` never meets a write in progress, in
  `READ_STATE` the end of the write is posted or the UART still has the request, so
  that the wait without a time-out ends, whatever the slave does.
* `CrcOfStablePacket`, `CrcOfWholeReply`: the CRC is computed over a packet that the
  UART no longer changes, and that is one reply from its first byte to its last.  The
  second holds until a reply is received in part: nothing in the code realigns
  after that, and the model says so with the variable `torn`.
* `DutyInRange`, `InPhase`, `LagsByTwoSteps`, `NeverDeaf`, `KeepsSweeping`: no duty
  leaves the period, the four timers count in phase from the sync on, the interrupt
  may split a round of the task but is never more than two steps behind, its flag is
  never left set without an interrupt, and the sweep does not stop.
* `ClosedAfterUse`, `JobsAccounted`, `NothingLeft`, `Terminates`: no queue is closed
  under a thread, jobs are received or their loss is noticed and the terminate
  message overtakes none, a failed start leaves nothing behind, and the demo ends.
  `EndsInAnySchedule` says why, without fairness: until main is done some thread can
  take a step (`SomeoneMoves` spells the guards out), and every step lowers a natural
  number - phases of main, its loop, messages to send, messages to receive - and
  raises none.
  (`posix_demo.c:97` allows the dispatcher a blocking call for the terminate messages
  only; `Terminates` shows that main's joins do not wait for ever for it.)

The three violated properties are disagreements with the repository's own words:

* `CalibrationApplied` - `Igd_UpdateVoltageOffset` copies nothing when its size is
  exactly 2, which is how it is called (`Igd.c:103`, `CurrentCtlr.c:191`): the
  PI loop runs with an offset of zero.
* `ThetaEstimated` - the counter whose zero means "first run" is never incremented
  in the PI phase (`CurrentCtlr.c:245-267`): the rotor angle stays 0.
* `StopStopsPwm` - after one failed transfer the control loop spins, and the
  watchdog's stop, which this loop has to act on, never reaches the PRU
  (`Ads8688.c:284`, `Wd.c:30`).  The same spin starves `Wd_Task` and `Igd_Task`: a
  fault of the gate driver that comes then is never read, and the gate stays on.

### Bounds

* `PwmHandoff`: a half period of 10 ticks, clamps 2 and 16, dead time 1, words
  modulo 32.  These satisfy the same inequalities as 60000, 500 and 119500, 72 and
  2^32 (`MarginAssumption`).  Two requests for the duties: one above the upper
  clamp, one whose phases differ, with a value below the lower clamp; so two sets
  are always distinguishable, and both clamps act.  The live run uses one request,
  as the duties do not matter there.  The history counters stop at `MaxGap` (6)
  and `MaxSinceStop` (4), above every value a property compares them with.
* `MotorTasks`: `SampleMax` 3 for 400 (the first sample, one in between, the last);
  `WdPeriod` 1 and `WdExpire` 3 (the code: 500 ms and 1 s, 2 would do; 3 leaves a
  tick in between); `IgdPeriod` 1.  The live and the violating runs use 2 and 2.
  `piRuns` stops at 2, `sinceStop` at 1.
* `Ads8688`: three enabled channels, as in the source (0x7); the driver reads two of
  them, so the sequence does not wrap by itself.  `clean` stops at 3.
* `Startup` has no constants: both starts, any content of the shared words and any
  state of the stop request and, in a warm start, of ICSS_PWR_IDLE.
* `Modbus`: packets of two bytes (the first, the last), a FIFO of three, so that one
  reply and a half can wait, and a slave that is late with at most two answers: an
  old read pending, an old reply in the FIFO and a reply on the line occur together.
* `PwmDrv`: a period of 6 for 31250 and `Half` 8 for 2^15, so the period is the
  smallest that twice an increment of 3 fits in; increments 2, 1 and 3 (the
  code: 200, 100, 300), so one output meets both ends exactly and two of them turn at
  different rounds; `Threshold` 2 for 20; the counters start at both ends of their
  range and in the middle.
* `PosixDemo`: 3 workers for 4, 8 messages for 10 and room for 2 in an
  inbox for 1, so that the round robin does not end where it began, and each inbox
  can be empty, half full and full.

`CHECK_DEADLOCK FALSE` is set for `Ads8688`, where a failed `DebugP_assert` halts,
and for `PosixDemo`, which ends.

### Fairness

`PwmHandoff!FairSpec`: the counter reloads for ever (weak, PRU); interrupts are
enabled (weak, interrupt); the main task has the highest priority, and is disabled
only while the interrupt runs, again and again (strong, main task).

`MotorTasks!FairSpec`: the PRU keeps raising events; the main task takes its steps;
a blocking transfer ends, since it has a time-out; the watchdog's interrupt is
taken; the lower tasks and time get their turn strongly, because they are disabled
each time the main task wakes.  Nothing is assumed about `SpinEnd` or the pins: after a
failed transfer no code sets the status that the spin waits for.  The one property that
needs the spins to end says so itself.

`Startup!FairSpec`: each core goes on (weak).  `Modbus!FairSpec`: the task is
scheduled and its one second ends, the UART sends what it was given and takes its
interrupts; nothing is assumed of the slave.  `PwmDrv!FairSpec`: the task is
scheduled, the clock ticks, the interrupt is taken.  `PosixDemo!FairSpec`: the
threads have one priority and are time-sliced, so each is weakly fair.

## 4. Proofs

All theorems hold for every value of the constants under the ASSUMEs of the
modules, which TLC evaluates in the runs.

**PwmHandoff_proofs** (`TickAssumption`, `MarginAssumption`, `RequestAssumption`).
`TypeCorrect` first, with lemmas that the clamp and the wrapped arithmetic stay in
the range of a word.  `DeadTimeAlways`: `DeadTimeKept` speaks of complete compares
only; its strengthening `DeadTimeInv` says in addition what the shared memory holds
before the PWM is enabled (the published bank is clamped, the dead time is set),
that a bank once written holds clamped duties, and which of the compares of the
current half are done.  `OneDutySetPerPulse`: the strengthening `FullPulseInv`
counts the iterations the R5 can still begin before the next event (event,
interrupt and semaphore together allow at most one), so that in an open period the
latched bank is not the one being written, unless the period is late.
`EventsKept`: `EventInv` ties the interrupt to the semaphore: while the interrupt
is between post and clear, the semaphore is set.

**PwmPace_proofs** (the same assumptions; it extends the module above).  `EnableFollows`
ties the enable word to the controller's state.  `UpdatesUsed` (`NoUpdateSkipped`):
`Paced` says that while the R5 is on time at most one iteration is outstanding and
that an update published and not yet latched is its last until the next latch; the
PRU raises an event without latching only while the PWM is off, and then there is no
such update (`FirstUpdate`).  `EventsInCadence` (`EventCadence`): `Cadence` gives the
reloads since the last event, and `isr_cnt`, at each place of the PRU.
`SilentInTime` (`SilentAfterStop`): `Quiet` bounds the reloads since the stop by the
place of the PRU, and says that the outputs are off whenever INIT is entered.
`ContractKept` (`KeepsContract`) follows from `EnableFollows`.
`RegisterImplemented` (`ImplementsRegister`) takes all of these parts together
(`RegisterInv`): `Paced` and `FirstUpdate` for the guard of `Set`, the clamp for its
range, `FullPulseInv` and `DeadTimeInv` for the compares at the end of each half
(`HalvesCorrect`; a compare below the half period has not wrapped, `RiseUnwrapped`).  A
step of the R5 is `Set`
(`PublishIndex`) or a stutter (`RegisterStepR5`); the steps of the PRU are the other
actions (`RegisterStepPru`): one `HighSide` or `LowSide` of three changes nothing the
register sees, until the last.

**MotorTasks_proofs** (`TimeAssumption`).  One inductive invariant with a part per
concern: the counter and the accumulator agree, the values of
`CurrentCtlr_Enable` at each place, what the stop branch has done by each place,
the gate pin and `tripped`, and the watchdog's count against the task's timer and
the ticks spun.  From it `TypeCorrect`, `MeansExact`, `StopBounded`, `GateFinal`,
`MarginKept`, the action property `StopFinal`, and `ContractKept`: every step of
`MotorTasks` is a step of `PwmCommands` or a stutter.  For the last one the
invariant that the acknowledgement of a request finds the offset phase is needed:
`CheckRequest` assigns the state, and must not take it back.  Two theorems go beyond
what the runs check.  `NothingIsEstimated` proves for every `SampleMax` what the two
violating runs found with two samples: no offset ever reaches the gate driver, and
theta is zero in every iteration, since `CurrentCtlr_IsrCnt` is zero throughout the PI
phase.  `FaultHoldsStart` is the safety half of `PersistentFaultOpensGate`: a scan of
the pins that begins while a pin is at fault, and stays so, ends with `Igd_Start`
FALSE, and no scan sets it while the fault lasts, however the scan is preempted between
its two reads (`ScanHolds`).  With `GateFinal` only fairness, and the premise that spins end, are left to TLC.

**Ads8688_proofs** (`EnabledAssumption`).  The invariant relates the frame, the
callback's state, the pending command and the registers written so far, and, by
the number of consecutive good frames, what the ADC has selected and what the
buffers hold.

**Startup_proofs** (no assumptions; the module has no constants, and the proofs give
the argument that the run's search does not).  `StepFollows` and `R5Places` turn the
sequence `Order` into a before and after for each action.  `Prepared` says what the R5
has done at each of its steps; `Firmware` that the PRU runs the new program exactly
from its load on, that in a start of the device no event is raised before its loop,
and that ICSS_PWR_IDLE is set in the register and in the R5's copy of it until the
firmware clears it.  `Waits`, inductive beside it, keeps what each core waits for from
the step that provides it on: the stop request cleared, the first kick pending until the
firmware takes it, ICSS_PWR_IDLE clear once announced; `NoWaitForEver` (`WaitsEnd`)
follows.

**Modbus_proofs** (`SizeAssumption`).  `TypeOK` is proved here and not run.  The
invariant has three parts: where the pin, the write semaphore and the transmitter
stand at each place of the task; that `Modbus_ReadOk` is set only while no read is
pending; and that, while no reply was torn, buffer, FIFO and slave hold one stream:
each byte in the FIFO follows the one before, the first follows what the read has
got, the last is followed by what the slave sends next.  `NoWaitForEver` (`WaitsEnd`)
follows from the first part.

**PwmDrv_proofs** (`ConstantAssumption`, `RangeAssumption`).  `TypeOK` is proved here
and not run.  A step that turns has room because twice an increment fits in the
period.  `LagsByTwoSteps` alone is not inductive: `Behind` adds that while the
task has an interrupt to act on the lag is at most one step, and what it is in the
middle of a round, for the outputs before and after the index.

**PosixDemo_proofs** (`NumberAssumption`).  `TypeOK` is proved here and not run.  `Lifetime` relates the place of the main
thread to the open queues and living threads; `Mail` says that a terminate message
is in an inbox exactly while it was sent and its worker lives, and always last;
`Jobs` balances the account of each inbox.  `EndInSight` (`EndsInAnySchedule`) needs
two parts more: which threads exist at each place of main (`Created`), and that the
dispatcher's index is below its bound (`Counting`).  `NobodyStuck` shows from it that main, the
dispatcher or a worker has a step - a full inbox has a worker that lives, a join waits
for a thread that has not ended - and `MeasureStep` that every step lowers a measure.

Every property that a passing run checks is proved, except liveness under fairness
(`StopSilencesPwm`, `PersistentFaultOpensGate`, `StartsUp`, `KeepsPolling`,
`KeepsSweeping`, `Terminates`), which is out of the prover's reach and
stays with TLC.  Where the argument of a liveness property has a part without fairness,
that part is stated and proved: `SilentAfterStop` for `StopSilencesPwm`,
`FaultHoldsStart` and `GateFinal` for `PersistentFaultOpensGate`, the two `WaitsEnd` for `StartsUp` and
`KeepsPolling`, `NeverDeaf` for `KeepsSweeping`, `EndsInAnySchedule` for `Terminates`.
The guards of actions are written out there, since `ENABLED` cannot be reasoned about.
That a property is violated is shown by TLC alone; `NothingIsEstimated` gives the
invariant behind two of the three.

## 5. Not modelled

* The arithmetic of the controller (Clarke, Park, observer, PI) and the scaling of
  samples: floating point.  The duties it may compute are arbitrary.
* `END_PHASE` of the controller: the assignment that would enter it is commented
  out.
* The compare status flags that the PRU clears after the handler
  (`TestPru/main.c:402-430`): nothing reads them.
* Time within the loop: an SPI transfer's duration, the time-out of 40 ticks, the
  length of a PWM period.  `late` and the nondeterminism of the transfers stand for
  it.  `Pru_InitCore`'s busy wait takes no time.
* Caches: the shared words and the buffers are seen as written.
* `Pwm_InitChannel`, `epwmUpdateOut` and `computeCmpx` of `PwmDrv.c`, and
  `Pwm_SendEvent` of `PruDriver.c`: nothing calls them, not even their own module.
* The CRC of a Modbus reply: both results lead to the same branch.
* The RPMsg files of the PRU, vendored and not called; the generated firmware
  images; the build configuration.

## 6. Plan

Done: the PWM handoff and the register it implements, the R5 tasks, the ADC driver, the
start-up, the Modbus master, the EPWM driver and the POSIX demo, and the theorems
above.  What is left:

1. The composition of `MotorTasks` and `PwmHandoff` over `PwmCommands`: the bound
   from a watchdog expiry to a silent PWM, which both modules give a half of
   (`StopWithinOneIteration`, `SilentAfterStop`).
2. A proof that `Startup` ends where `PwmHandoff` begins: `QuietStart` as the
   refinement of its initial state.
3. The safety half of `KeepsSweeping`: every round of the task moves each duty.
