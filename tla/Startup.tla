-------------------------------- MODULE Startup --------------------------------
(***************************************************************************)
(* The start of the R5 application and of the PRU firmware it loads, until *)
(* both are in their main loops, where module PwmHandoff begins.           *)
(*                                                                         *)
(* freertos_main runs Ads8688_Init and then Pru_InitCore, which prepares   *)
(* the PRU subsystem, opens the PRU_IPC channel, zeroes the shared words,  *)
(* loads the firmware, waits until the firmware clears ICSS_PWR_IDLE,      *)
(* routes the pads and sends a second kick.  The firmware goes its own way *)
(* meanwhile: the first event 17 is sent before it is loaded, so its wait  *)
(* for the kick ends long before the second.  Both cores change fields of  *)
(* one register, CFG_CGR, by reading it, changing a field and writing it.  *)
(*                                                                         *)
(* Two starts: of the whole device, and of the R5 alone (a restart from    *)
(* the debugger), while the firmware of the last run still paces the R5.   *)
(* PRUICSS_*, PRU_IPC_open and the interrupt controller are the SDK's.     *)
(***************************************************************************)
EXTENDS Naturals, Sequences

VARIABLES
  warm,        \* only the R5 was restarted
  r5,          \* the next step of freertos_main
  copy,        \* CFG_CGR as the R5 has read it
  hwi,         \* PRU_IPC_open has registered PRU_IPC_Isr
  handle,      \* gPruIpc0Handle is set
  semBuilt,    \* AdcSem is constructed
  pru,         \* where the PRU is; "old" is the firmware of the last run
  cgr,         \* the fields stopReq (ICSS_STOP_REQ) and idle (ICSS_PWR_IDLE)
  iepClk,      \* iep_clk_en
  kick,        \* event 17, to the PRU, pending
  sysEvent,    \* the PRU's event, to the R5, pending
  stale,       \* the shared words that still hold what memory held before
  cmpZero,     \* the compares of the PWM are zero
  pads,        \* the pads are in PWM mode
  badIsr       \* history: PRU_IPC_Isr has run before what it uses was there

r5vars == <<r5, copy, hwi, handle, semBuilt>>
pruvars == <<pru, iepClk, cmpZero>>
vars == <<warm, r5vars, pruvars, cgr, kick, sysEvent, stale, pads, badIsr>>

Words == {"duty", "deadTime", "enable"}

-----------------------------------------------------------------------------
\* Mutant: the clock stop requests are removed when the PRU is running.
ClearLate == <<"ads", "open", "halt", "clocks", "clocksWrite", "ipc", "handle", "words",
               "event", "load", "clear", "clearWrite", "idle", "pads", "kick", "loop">>
\* Mutant: the pads are routed before the firmware says it runs.
PadsEarly == <<"ads", "open", "halt", "clocks", "clocksWrite", "clear", "clearWrite",
               "ipc", "handle", "words", "event", "load", "pads", "idle", "kick", "loop">>
\* Mutant: the ADC, and with it AdcSem, is initialized last.
AdsLast == <<"open", "halt", "clocks", "clocksWrite", "clear", "clearWrite", "ipc",
             "handle", "words", "event", "load", "idle", "pads", "kick", "ads", "loop">>

\* The steps of freertos_main and Pru_InitCore.
Order == <<"ads", "open", "halt", "clocks", "clocksWrite", "clear", "clearWrite",
           "ipc", "handle", "words", "event", "load", "idle", "pads", "kick", "loop">>

\* The R5 does this step, and the one after it is next.
Step(s) == r5 = s /\ \E i \in 1..(Len(Order) - 1) : Order[i] = s /\ r5' = Order[i + 1]

\* Any content in the shared words, a stop request of unknown state, and ICSS_PWR_IDLE
\* set by the reset of the device.
Init ==
  /\ warm \in BOOLEAN
  /\ r5 = Order[1] /\ hwi = FALSE /\ handle = FALSE /\ semBuilt = FALSE
  /\ stale = Words /\ kick \in BOOLEAN /\ badIsr = FALSE
  /\ cgr \in [stopReq : BOOLEAN, idle : BOOLEAN] /\ copy = cgr
  /\ sysEvent = FALSE
  /\ IF warm
     THEN pru = "old" /\ iepClk = TRUE /\ cmpZero \in BOOLEAN /\ pads \in BOOLEAN
     ELSE pru = "off" /\ iepClk = FALSE /\ cmpZero = TRUE /\ pads = FALSE /\ cgr.idle

-----------------------------------------------------------------------------
(* The R5 *)

\* Ads8688_Init constructs AdcSem.
AdsInit ==
  /\ Step("ads")
  /\ semBuilt' = TRUE
  /\ UNCHANGED <<warm, copy, hwi, handle, pruvars, cgr, kick, sysEvent, stale, pads, badIsr>>

\* PRUICSS_open and PRUICSS_intcInit, which clears the events; then PRUICSS_initMemory
\* zeroes the data memories and the shared one, and the instruction memories, also when
\* the firmware of the last run executes from them.
Open ==
  /\ Step("open")
  /\ kick' = FALSE /\ sysEvent' = FALSE
  /\ stale' = {}
  /\ UNCHANGED <<warm, copy, hwi, handle, semBuilt, pruvars, cgr, pads, badIsr>>

\* PRUICSS_disableCore, PRUICSS_resetCore: the peripherals go on.
Halt ==
  /\ Step("halt")
  /\ pru' = "off"
  /\ UNCHANGED <<warm, copy, hwi, handle, semBuilt, iepClk, cmpZero, cgr, kick,
                 sysEvent, stale, pads, badIsr>>

\* HW_WR_FIELD32 on CFG_CGR: the register is read ...
ReadCgr ==
  /\ Step("clocks") \/ Step("clear")
  /\ copy' = cgr
  /\ UNCHANGED <<warm, hwi, handle, semBuilt, pruvars, cgr, kick, sysEvent, stale,
                 pads, badIsr>>

\* ... and written, with the clocks of eCAP and INTC on ...
EnableClocks ==
  /\ Step("clocksWrite")
  /\ cgr' = copy
  /\ UNCHANGED <<warm, copy, hwi, handle, semBuilt, pruvars, kick, sysEvent, stale,
                 pads, badIsr>>

\* ... or without the clock stop requests.
ClearStopReq ==
  /\ Step("clearWrite")
  /\ cgr' = [copy EXCEPT !.stopReq = FALSE]
  /\ UNCHANGED <<warm, copy, hwi, handle, semBuilt, pruvars, kick, sysEvent, stale,
                 pads, badIsr>>

\* PRU_IPC_open registers the interrupt; its result is stored after it returns.
OpenIpc ==
  /\ \/ Step("ipc") /\ hwi' = TRUE /\ UNCHANGED handle
     \/ Step("handle") /\ handle' = TRUE /\ UNCHANGED hwi
  /\ UNCHANGED <<warm, copy, semBuilt, pruvars, cgr, kick, sysEvent, stale, pads, badIsr>>

\* PRUICSS_IsrInit zeroes the duties, the dead time and the enable word once more.
ZeroWords ==
  /\ Step("words")
  /\ stale' = stale \ {"duty", "deadTime", "enable"}
  /\ UNCHANGED <<warm, copy, hwi, handle, semBuilt, pruvars, cgr, kick, sysEvent,
                 pads, badIsr>>

\* PRUICSS_sendEvent, before the firmware is loaded and at the end.
SendKick ==
  /\ Step("event") \/ Step("kick")
  /\ kick' = TRUE
  /\ UNCHANGED <<warm, copy, hwi, handle, semBuilt, pruvars, cgr, sysEvent, stale,
                 pads, badIsr>>

\* PRUICSS_loadFirmware starts the core.
LoadFirmware ==
  /\ Step("load")
  /\ pru' = "stopWait"
  /\ UNCHANGED <<warm, copy, hwi, handle, semBuilt, iepClk, cmpZero, cgr, kick,
                 sysEvent, stale, pads, badIsr>>

\* PRUICSS_WaitIdle polls the bit.
WaitIdle ==
  /\ ~cgr.idle
  /\ Step("idle")
  /\ UNCHANGED <<warm, copy, hwi, handle, semBuilt, pruvars, cgr, kick, sysEvent,
                 stale, pads, badIsr>>

\* PRUICSS_EnablePwmPorts: the mux mode of the six pads.
EnablePwmPorts ==
  /\ Step("pads")
  /\ pads' = TRUE
  /\ UNCHANGED <<warm, copy, hwi, handle, semBuilt, pruvars, cgr, kick, sysEvent,
                 stale, badIsr>>

R5 == \/ AdsInit \/ Open \/ Halt \/ ReadCgr \/ EnableClocks \/ ClearStopReq \/ OpenIpc
      \/ ZeroWords \/ SendKick \/ LoadFirmware \/ WaitIdle \/ EnablePwmPorts

\* PRU_IPC_Isr posts AdcSem and clears the event through gPruIpc0Handle.
Isr ==
  /\ hwi /\ sysEvent
  /\ sysEvent' = FALSE
  /\ badIsr' = (badIsr \/ ~handle \/ ~semBuilt)
  /\ UNCHANGED <<warm, r5vars, pruvars, cgr, kick, stale, pads>>

-----------------------------------------------------------------------------
(* The PRU *)

r5side == <<warm, r5vars, stale, pads, badIsr>>

\* main polls ICSS_STOP_REQ first.
StopWait ==
  /\ pru = "stopWait" /\ ~cgr.stopReq
  /\ pru' = "announce"
  /\ UNCHANGED <<r5side, iepClk, cmpZero, cgr, kick, sysEvent>>

\* It clears the stop acknowledges, its poll of the last one reading what it has just
\* written, and then ICSS_PWR_IDLE.
Announce ==
  /\ pru = "announce"
  /\ cgr' = [cgr EXCEPT !.idle = FALSE]
  /\ pru' = "clocks"
  /\ UNCHANGED <<r5side, iepClk, cmpZero, kick, sysEvent>>

EnableIep ==
  /\ pru = "clocks"
  /\ iepClk' = TRUE
  /\ pru' = "kickWait"
  /\ UNCHANGED <<r5side, cmpZero, cgr, kick, sysEvent>>

\* The wait for HOST_INT, and the clear of the event.
KickWait ==
  /\ pru = "kickWait" /\ kick
  /\ kick' = FALSE
  /\ pru' = "config"
  /\ UNCHANGED <<r5side, iepClk, cmpZero, cgr, sysEvent>>

\* Mutant: the compares are left as they are.
ComparesKept == UNCHANGED cmpZero
\* The registers of a peripheral without a clock do not change.
ComparesCleared == cmpZero' = (cmpZero \/ iepClk)

\* The PWM is configured, its compares cleared and its counter started.
Configure ==
  /\ pru = "config"
  /\ ComparesCleared
  /\ pru' = "loop"
  /\ UNCHANGED <<r5side, iepClk, cgr, kick, sysEvent>>

\* INIT_PHASE at a reload: the R5 is paced also with the outputs disabled; enabled,
\* the compares get the duties.
Reload ==
  /\ pru = "loop"
  /\ sysEvent' = TRUE
  /\ cmpZero' = (cmpZero /\ "enable" \notin stale)
  /\ UNCHANGED <<r5side, pru, iepClk, cgr, kick>>

\* The firmware of the last run goes on until it is halted: it paces the R5 and may drive.
OldFirmware ==
  /\ pru = "old"
  /\ sysEvent' = TRUE
  /\ cmpZero' \in BOOLEAN
  /\ UNCHANGED <<r5side, pru, iepClk, cgr, kick>>

Pru == \/ StopWait \/ Announce \/ EnableIep \/ KickWait \/ Configure
       \/ Reload \/ OldFirmware

Next == R5 \/ Isr \/ Pru

Spec == Init /\ [][Next]_vars

\* Each core goes on: nothing preempts freertos_main but its own interrupt.
FairSpec == Spec /\ WF_vars(R5) /\ WF_vars(Pru)

-----------------------------------------------------------------------------
(* Properties *)

\* Every variable stays in its type, and what is set up is set up in order: the semaphore
\* before the interrupt, the interrupt before its handle, the handle before the firmware.
TypeOK ==
  /\ r5 \in {Order[i] : i \in 1..Len(Order)} /\ cgr \in [stopReq : BOOLEAN, idle : BOOLEAN]
  /\ copy \in [stopReq : BOOLEAN, idle : BOOLEAN]
  /\ pru \in {"off", "old", "stopWait", "announce", "clocks", "kickWait", "config", "loop"}
  /\ stale \subseteq Words
  /\ {warm, hwi, handle, semBuilt, iepClk, kick, sysEvent, cmpZero, pads, badIsr}
       \subseteq BOOLEAN
  /\ (hwi => semBuilt) /\ (handle => hwi) /\ (pru \notin {"off", "old"} => handle)

\* The firmware does not wait for the end of Pru_InitCore, only for the first event, which
\* PRUICSS_IsrInit sends before it is loaded.  Whenever it is in its loop, in either start,
\* the duties, the dead time, the enable word and the compares have been cleared, whatever
\* the last run left in them: it drives nothing before freertos_main lets it.
QuietStart == pru = "loop" => stale = {} /\ cmpZero

\* The PRU paces the R5 long before the R5's loop: the interrupt finds its handle and its
\* semaphore.  When the R5 alone is restarted this is not so: the old firmware may raise
\* an event between PRUICSS_intcInit and PRUICSS_disableCore, which waits for PRU_IPC_open.
IsrFindsItsHandle == badIsr => warm

\* No wait of one core for the other is for ever.  While the R5 polls ICSS_PWR_IDLE the
\* firmware is about to clear it; the firmware, once loaded, waits for nothing: the stop
\* request was removed, and the first kick was sent, before it started.
WaitsEnd ==
  /\ r5 = "idle" /\ cgr.idle => pru \in {"stopWait", "announce"}
  /\ pru = "stopWait" => ~cgr.stopReq
  /\ pru = "kickWait" => kick

\* src/README.md: "Ensure PRU firmware is loaded before enabling PWM outputs".  When the
\* device starts, the pads are switched only after the firmware has said that it runs.
PadsAfterFirmware ==
  [][~pads /\ pads' => /\ pru \notin {"off", "old"}
                       /\ pru \in {"stopWait", "announce"} => warm]_vars

\* Neither core waits for the other for ever: the R5 waits for ICSS_PWR_IDLE, the PRU for
\* the stop request and for the kick, and no change of CFG_CGR is lost between them.
StartsUp == <>[](r5 = "loop" /\ pru = "loop")
=============================================================================
