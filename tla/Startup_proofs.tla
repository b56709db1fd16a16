---------------------------- MODULE Startup_proofs ----------------------------
(***************************************************************************)
(* Proofs about Startup: in every interleaving of the two cores and in     *)
(* both starts, what each core needs of the other is there when it is      *)
(* needed.  The argument is the order of the R5's steps.                   *)
(***************************************************************************)
EXTENDS Startup, TLAPS

\* The steps of Order by what has been done when the R5 is at them.
Preparing == {"ads", "open", "halt"}
Registering == {"clocks", "clocksWrite", "clear", "clearWrite", "ipc"}
Loading == {"words", "event", "load"}
Loaded == {"idle", "pads", "kick", "loop"}

Place == Preparing \cup Registering \cup {"handle"} \cup Loading \cup Loaded

-----------------------------------------------------------------------------
(* The order *)

Follows(s) ==
  CASE s = "ads" -> "open" [] s = "open" -> "halt" [] s = "halt" -> "clocks"
    [] s = "clocks" -> "clocksWrite" [] s = "clocksWrite" -> "clear"
    [] s = "clear" -> "clearWrite" [] s = "clearWrite" -> "ipc"
    [] s = "ipc" -> "handle" [] s = "handle" -> "words" [] s = "words" -> "event"
    [] s = "event" -> "load" [] s = "load" -> "idle" [] s = "idle" -> "pads"
    [] s = "pads" -> "kick" [] s = "kick" -> "loop"

LEMMA OrderPlaces == {Order[n] : n \in 1..Len(Order)} = Place
<1>1. Len(Order) = 16
  BY DEF Order
<1>2. \A n \in 1..16 : \/ n = 1 \/ n = 2 \/ n = 3 \/ n = 4 \/ n = 5 \/ n = 6 \/ n = 7
                       \/ n = 8 \/ n = 9 \/ n = 10 \/ n = 11 \/ n = 12 \/ n = 13
                       \/ n = 14 \/ n = 15 \/ n = 16
  OBVIOUS
<1>3. \A n \in 1..16 : Order[n] \in Place
  BY <1>2 DEF Order, Place, Preparing, Registering, Loading, Loaded
<1>4. \A s \in Place : \E n \in 1..16 : Order[n] = s
  BY DEF Order, Place, Preparing, Registering, Loading, Loaded
<1>. QED
  BY <1>1, <1>3, <1>4

LEMMA StepFollows == ASSUME NEW s, Step(s) PROVE r5 = s /\ r5' = Follows(s)
<1>1. PICK n \in 1..15 : Order[n] = s /\ r5' = Order[n + 1]
  BY DEF Step, Order
<1>2. \/ n = 1 \/ n = 2 \/ n = 3 \/ n = 4 \/ n = 5 \/ n = 6 \/ n = 7 \/ n = 8 \/ n = 9
      \/ n = 10 \/ n = 11 \/ n = 12 \/ n = 13 \/ n = 14 \/ n = 15
  OBVIOUS
<1>3. r5' = Follows(s)
  BY <1>1, <1>2 DEF Order, Follows
<1>. QED
  BY <1>3 DEF Step

-----------------------------------------------------------------------------
(* The inductive invariant, by parts *)

Flags ==
  /\ warm \in BOOLEAN /\ hwi \in BOOLEAN /\ handle \in BOOLEAN /\ semBuilt \in BOOLEAN
  /\ iepClk \in BOOLEAN /\ kick \in BOOLEAN /\ sysEvent \in BOOLEAN
  /\ cmpZero \in BOOLEAN /\ pads \in BOOLEAN /\ badIsr \in BOOLEAN

Cgr == [stopReq : BOOLEAN, idle : BOOLEAN]

Types ==
  /\ r5 \in Place /\ cgr \in Cgr /\ copy \in Cgr /\ stale \subseteq Words
  /\ pru \in {"off", "old", "stopWait", "announce", "clocks", "kickWait", "config", "loop"}

\* What the R5 has done.
Prepared ==
  /\ r5 # "ads" => semBuilt
  /\ hwi <=> r5 \notin Preparing \cup Registering
  /\ handle <=> r5 \in Loading \cup Loaded
  /\ r5 \notin {"ads", "open"} => stale = {}

\* The firmware runs from its load on; until it is in its loop nothing paces the R5, and
\* in a start of the device ICSS_PWR_IDLE is set until the firmware clears it.
Firmware ==
  /\ pru \notin {"off", "old"} <=> r5 \in Loaded
  /\ pru = "old" => warm /\ r5 \in Preparing
  /\ pru \in {"kickWait", "config", "loop"} => iepClk
  /\ pru = "loop" => cmpZero
  /\ ~warm =>
       /\ pru # "loop" => ~sysEvent
       /\ pru \in {"off", "stopWait", "announce"} => cgr.idle /\ copy.idle
       /\ r5 \in {"pads", "kick", "loop"} => pru \notin {"stopWait", "announce"}
       /\ ~badIsr

Inv == Flags /\ Types /\ Prepared /\ Firmware

LEMMA TypeParts == Inv => TypeOK
<1> SUFFICES ASSUME Inv PROVE TypeOK
  OBVIOUS
<1>1. {warm, hwi, handle, semBuilt, iepClk, kick, sysEvent, cmpZero, pads, badIsr}
        \subseteq BOOLEAN
  BY DEF Inv, Flags
<1>2. /\ hwi => semBuilt
      /\ handle => hwi
      /\ pru \notin {"off", "old"} => handle
  BY DEF Inv, Types, Prepared, Firmware, Place, Preparing, Registering, Loading, Loaded
<1>. QED
  BY <1>1, <1>2, OrderPlaces DEF Inv, Types, TypeOK, Cgr

LEMMA InitInv == Init => Inv
<1> SUFFICES ASSUME Init PROVE Inv
  OBVIOUS
<1>1. r5 = "ads"
  BY DEF Init, Order
<1>2. Flags
  BY DEF Init, Flags
<1>3. Types
  BY <1>1 DEF Init, Types, Place, Preparing, Cgr
<1>4. Prepared
  BY <1>1 DEF Init, Prepared, Preparing, Loading, Loaded
<1>5. Firmware
  BY <1>1 DEF Init, Firmware, Preparing, Loaded
<1>. QED
  BY <1>2, <1>3, <1>4, <1>5 DEF Inv

\* Where each action finds the R5 and where it leaves it.
LEMMA R5Places ==
  /\ AdsInit => r5 = "ads" /\ r5' = "open"
  /\ Open => r5 = "open" /\ r5' = "halt"
  /\ Halt => r5 = "halt" /\ r5' = "clocks"
  /\ ReadCgr => \/ r5 = "clocks" /\ r5' = "clocksWrite"
                \/ r5 = "clear" /\ r5' = "clearWrite"
  /\ EnableClocks => r5 = "clocksWrite" /\ r5' = "clear"
  /\ ClearStopReq => r5 = "clearWrite" /\ r5' = "ipc"
  /\ OpenIpc => \/ r5 = "ipc" /\ r5' = "handle" /\ hwi' = TRUE /\ UNCHANGED handle
                \/ r5 = "handle" /\ r5' = "words" /\ handle' = TRUE /\ UNCHANGED hwi
  /\ ZeroWords => r5 = "words" /\ r5' = "event"
  /\ SendKick => \/ r5 = "event" /\ r5' = "load"
                 \/ r5 = "kick" /\ r5' = "loop"
  /\ LoadFirmware => r5 = "load" /\ r5' = "idle"
  /\ WaitIdle => r5 = "idle" /\ r5' = "pads"
  /\ EnablePwmPorts => r5 = "pads" /\ r5' = "kick"
<1> USE StepFollows DEF Follows
<1>1. AdsInit => r5 = "ads" /\ r5' = "open"
  BY DEF AdsInit
<1>2. Open => r5 = "open" /\ r5' = "halt"
  BY DEF Open
<1>3. Halt => r5 = "halt" /\ r5' = "clocks"
  BY DEF Halt
<1>4. ReadCgr => \/ r5 = "clocks" /\ r5' = "clocksWrite"
                 \/ r5 = "clear" /\ r5' = "clearWrite"
  BY DEF ReadCgr
<1>5. EnableClocks => r5 = "clocksWrite" /\ r5' = "clear"
  BY DEF EnableClocks
<1>6. ClearStopReq => r5 = "clearWrite" /\ r5' = "ipc"
  BY DEF ClearStopReq
<1>7. OpenIpc => \/ r5 = "ipc" /\ r5' = "handle" /\ hwi' = TRUE /\ UNCHANGED handle
                 \/ r5 = "handle" /\ r5' = "words" /\ handle' = TRUE /\ UNCHANGED hwi
  BY DEF OpenIpc
<1>8. ZeroWords => r5 = "words" /\ r5' = "event"
  BY DEF ZeroWords
<1>9. SendKick => \/ r5 = "event" /\ r5' = "load"
                  \/ r5 = "kick" /\ r5' = "loop"
  BY DEF SendKick
<1>10. LoadFirmware => r5 = "load" /\ r5' = "idle"
  BY DEF LoadFirmware
<1>11. WaitIdle => r5 = "idle" /\ r5' = "pads"
  BY DEF WaitIdle
<1>12. EnablePwmPorts => r5 = "pads" /\ r5' = "kick"
  BY DEF EnablePwmPorts
<1>. QED
  BY <1>1, <1>2, <1>3, <1>4, <1>5, <1>6, <1>7, <1>8, <1>9, <1>10, <1>11, <1>12

-----------------------------------------------------------------------------
(* Steps *)

\* What the actions of the PRU, the interrupt and a stutter leave alone of the R5.
LEMMA OthersFrame ==
  Isr \/ Pru \/ UNCHANGED vars =>
    UNCHANGED <<warm, r5, copy, hwi, handle, semBuilt, stale, pads>>
BY DEF Isr, Pru, StopWait, Announce, EnableIep, KickWait, Configure, Reload, OldFirmware,
       r5side, r5vars, vars

LEMMA FlagsStep == Inv /\ [Next]_vars => Flags'
<1> SUFFICES ASSUME Flags, [Next]_vars PROVE Flags'
  BY DEF Inv
<1> USE DEF Flags
<1>1. CASE AdsInit
  BY <1>1 DEF AdsInit, pruvars
<1>2. CASE Open
  BY <1>2 DEF Open, pruvars
<1>3. CASE Halt
  BY <1>3 DEF Halt, pruvars
<1>4. CASE ReadCgr
  BY <1>4 DEF ReadCgr, pruvars
<1>5. CASE EnableClocks
  BY <1>5 DEF EnableClocks, pruvars
<1>6. CASE ClearStopReq
  BY <1>6 DEF ClearStopReq, pruvars
<1>7. CASE OpenIpc
  <2>1. (hwi' = TRUE /\ UNCHANGED handle) \/ (handle' = TRUE /\ UNCHANGED hwi)
    BY <1>7 DEF OpenIpc
  <2>2. UNCHANGED <<warm, semBuilt, iepClk, kick, sysEvent, cmpZero, pads, badIsr>>
    BY <1>7 DEF OpenIpc, pruvars
  <2>. QED
    BY <2>1, <2>2
<1>8. CASE ZeroWords
  BY <1>8 DEF ZeroWords, pruvars
<1>9. CASE SendKick
  BY <1>9 DEF SendKick, pruvars
<1>10. CASE LoadFirmware
  BY <1>10 DEF LoadFirmware, pruvars
<1>11. CASE WaitIdle
  BY <1>11 DEF WaitIdle, pruvars
<1>12. CASE EnablePwmPorts
  BY <1>12 DEF EnablePwmPorts, pruvars
<1>13. CASE Isr
  BY <1>13 DEF Isr, r5vars, pruvars
<1>14. CASE StopWait
  BY <1>14 DEF StopWait, r5side, r5vars
<1>15. CASE Announce
  BY <1>15 DEF Announce, r5side, r5vars
<1>16. CASE EnableIep
  BY <1>16 DEF EnableIep, r5side, r5vars
<1>17. CASE KickWait
  BY <1>17 DEF KickWait, r5side, r5vars
<1>18. CASE Configure
  BY <1>18 DEF Configure, ComparesCleared, r5side, r5vars
<1>19. CASE Reload
  BY <1>19 DEF Reload, r5side, r5vars
<1>20. CASE OldFirmware
  BY <1>20 DEF OldFirmware, r5side, r5vars
<1>21. CASE UNCHANGED vars
  BY <1>21 DEF vars, r5vars, pruvars
<1>. QED
  BY <1>1, <1>2, <1>3, <1>4, <1>5, <1>6, <1>7, <1>8, <1>9, <1>10,
     <1>11, <1>12, <1>13, <1>14, <1>15, <1>16, <1>17, <1>18, <1>19, <1>20, <1>21 DEF Next, R5, Pru

LEMMA TypesStep == Inv /\ [Next]_vars => Types'
<1> SUFFICES ASSUME Types, [Next]_vars PROVE Types'
  BY DEF Inv
<1>1. r5' \in Place
  <2>1. CASE R5
    BY <2>1, R5Places DEF R5, Place, Preparing, Registering, Loading, Loaded
  <2>2. CASE Isr \/ Pru \/ UNCHANGED vars
    BY <2>2, OthersFrame DEF Types
  <2>. QED
    BY <2>1, <2>2 DEF Next
<1>2. cgr' \in Cgr /\ copy' \in Cgr
  <2> USE DEF Types, Cgr
  <2>1. CASE ReadCgr \/ EnableClocks \/ ClearStopReq
    BY <2>1 DEF ReadCgr, EnableClocks, ClearStopReq
  <2>2. CASE Announce
    BY <2>2, OthersFrame DEF Announce, Pru
  <2>3. CASE \/ AdsInit \/ Open \/ Halt \/ OpenIpc \/ ZeroWords \/ SendKick \/ LoadFirmware
             \/ WaitIdle \/ EnablePwmPorts \/ Isr \/ StopWait \/ EnableIep \/ KickWait
             \/ Configure \/ Reload \/ OldFirmware \/ UNCHANGED vars
    <3>1. CASE \/ AdsInit \/ Open \/ Halt \/ OpenIpc \/ ZeroWords \/ SendKick
               \/ LoadFirmware \/ WaitIdle \/ EnablePwmPorts
      BY <3>1 DEF AdsInit, Open, Halt, OpenIpc, ZeroWords, SendKick, LoadFirmware,
                  WaitIdle, EnablePwmPorts
    <3>2. CASE \/ Isr \/ StopWait \/ EnableIep \/ KickWait \/ Configure \/ Reload
               \/ OldFirmware \/ UNCHANGED vars
      <4>1. UNCHANGED <<cgr, copy>>
        BY <3>2 DEF Isr, StopWait, EnableIep, KickWait, Configure, Reload, OldFirmware,
                    vars, r5side, r5vars
      <4>. QED
        BY <4>1
    <3>. QED
      BY <2>3, <3>1, <3>2
  <2>. QED
    BY <2>1, <2>2, <2>3 DEF Next, R5, Pru
<1>3. stale' \subseteq Words
  <2>1. stale' = stale \/ stale' \subseteq stale \/ stale' = {}
    BY OthersFrame DEF Next, R5, AdsInit, Open, Halt, ReadCgr, EnableClocks, ClearStopReq,
       OpenIpc, ZeroWords, SendKick, LoadFirmware, WaitIdle, EnablePwmPorts
  <2>. QED
    BY <2>1 DEF Types
<1>4. pru' \in {"off", "old", "stopWait", "announce", "clocks", "kickWait", "config", "loop"}
  <2> USE DEF Types
  <2>1. CASE R5
    BY <2>1 DEF R5, AdsInit, Open, Halt, ReadCgr, EnableClocks, ClearStopReq, OpenIpc,
       ZeroWords, SendKick, LoadFirmware, WaitIdle, EnablePwmPorts, pruvars
  <2>2. CASE Isr \/ UNCHANGED vars
    BY <2>2 DEF Isr, vars, pruvars
  <2>3. CASE Pru
    BY <2>3 DEF Pru, StopWait, Announce, EnableIep, KickWait, Configure, Reload, OldFirmware
  <2>. QED
    BY <2>1, <2>2, <2>3 DEF Next
<1>. QED
  BY <1>1, <1>2, <1>3, <1>4 DEF Types

LEMMA PreparedStep == Inv /\ [Next]_vars => Prepared'
<1> SUFFICES ASSUME Types, Prepared, [Next]_vars PROVE Prepared'
  BY DEF Inv
<1> USE DEF Prepared, Preparing, Registering, Loading, Loaded
<1>1. CASE AdsInit \/ Open \/ Halt \/ ReadCgr \/ EnableClocks \/ ClearStopReq
  <2>1. UNCHANGED <<hwi, handle>> /\ (semBuilt' \/ semBuilt' = semBuilt)
    BY <1>1 DEF AdsInit, Open, Halt, ReadCgr, EnableClocks, ClearStopReq
  <2>2. r5 = "ads" => semBuilt'
    BY <1>1, R5Places DEF AdsInit
  <2>3. r5 # "ads" => stale' = {}
    <3>1. CASE Open
      BY <3>1 DEF Open
    <3>2. CASE Halt \/ ReadCgr \/ EnableClocks \/ ClearStopReq
      BY <3>2, R5Places DEF Halt, ReadCgr, EnableClocks, ClearStopReq
    <3>. QED
      BY <1>1, <3>1, <3>2, R5Places
  <2>. QED
    BY <1>1, <2>1, <2>2, <2>3, R5Places
<1>2. CASE OpenIpc
  <2>1. UNCHANGED <<semBuilt, stale>>
    BY <1>2 DEF OpenIpc
  <2>. QED
    BY <1>2, <2>1, R5Places
<1>3. CASE ZeroWords
  <2>1. UNCHANGED <<semBuilt, hwi, handle>> /\ stale' \subseteq stale
    BY <1>3 DEF ZeroWords
  <2>. QED
    BY <1>3, <2>1, R5Places
<1>4. CASE SendKick \/ LoadFirmware \/ WaitIdle \/ EnablePwmPorts
  <2>1. UNCHANGED <<semBuilt, hwi, handle, stale>>
    BY <1>4 DEF SendKick, LoadFirmware, WaitIdle, EnablePwmPorts
  <2>. QED
    BY <1>4, <2>1, R5Places
<1>5. CASE Isr \/ Pru \/ UNCHANGED vars
  BY <1>5, OthersFrame
<1>. QED
  BY <1>1, <1>2, <1>3, <1>4, <1>5 DEF Next, R5

LEMMA FirmwareR5 == Inv /\ R5 => Firmware'
<1> SUFFICES ASSUME Flags, Types, Prepared, Firmware, R5 PROVE Firmware'
  BY DEF Inv
<1> USE DEF Firmware, Preparing, Registering, Loading, Loaded, pruvars
<1>1. CASE AdsInit \/ Open
  <2>1. UNCHANGED <<warm, pru, iepClk, cmpZero, cgr, copy, badIsr>>
        /\ (sysEvent' = sysEvent \/ sysEvent' = FALSE)
    BY <1>1 DEF AdsInit, Open
  <2>. QED
    BY <1>1, <2>1, R5Places
<1>2. CASE Halt
  <2>1. /\ UNCHANGED <<warm, iepClk, cmpZero, cgr, copy, badIsr, sysEvent>>
        /\ pru' = "off"
    BY <1>2 DEF Halt
  <2>2. ~warm => pru = "off"
    BY <1>2, R5Places
  <2>. QED
    BY <1>2, <2>1, <2>2, R5Places
<1>3. CASE ReadCgr \/ EnableClocks \/ ClearStopReq
  <2>1. UNCHANGED <<warm, pru, iepClk, cmpZero, badIsr, sysEvent>>
    BY <1>3 DEF ReadCgr, EnableClocks, ClearStopReq
  <2>2. pru = "off"
    BY <1>3, R5Places DEF Types
  <2>3. cgr.idle /\ copy.idle => cgr'.idle /\ copy'.idle
    BY <1>3 DEF ReadCgr, EnableClocks, ClearStopReq, Types, Cgr
  <2>. QED
    BY <1>3, <2>1, <2>2, <2>3, R5Places
<1>4. CASE OpenIpc \/ ZeroWords \/ SendKick
  <2>1. UNCHANGED <<warm, pru, iepClk, cmpZero, cgr, copy, badIsr, sysEvent>>
    BY <1>4 DEF OpenIpc, ZeroWords, SendKick
  <2>. QED
    BY <1>4, <2>1, R5Places
<1>5. CASE LoadFirmware
  <2>1. /\ UNCHANGED <<warm, iepClk, cmpZero, cgr, copy, badIsr, sysEvent>>
        /\ pru' = "stopWait"
    BY <1>5 DEF LoadFirmware
  <2>2. pru = "off"
    BY <1>5, R5Places DEF Types
  <2>. QED
    BY <1>5, <2>1, <2>2, R5Places
<1>6. CASE WaitIdle
  <2>1. UNCHANGED <<warm, pru, iepClk, cmpZero, cgr, copy, badIsr, sysEvent>> /\ ~cgr.idle
    BY <1>6 DEF WaitIdle
  <2>. QED
    BY <1>6, <2>1, R5Places
<1>7. CASE EnablePwmPorts
  <2>1. UNCHANGED <<warm, pru, iepClk, cmpZero, cgr, copy, badIsr, sysEvent>>
    BY <1>7 DEF EnablePwmPorts
  <2>. QED
    BY <1>7, <2>1, R5Places
<1>. QED
  BY <1>1, <1>2, <1>3, <1>4, <1>5, <1>6, <1>7 DEF R5

LEMMA FirmwarePru == Inv /\ (Isr \/ Pru \/ UNCHANGED vars) => Firmware'
<1> SUFFICES ASSUME Flags, Types, Prepared, Firmware, Isr \/ Pru \/ UNCHANGED vars
             PROVE  Firmware'
  BY DEF Inv
<1>0. UNCHANGED <<warm, r5, copy, hwi, handle, semBuilt, stale, pads>>
  BY OthersFrame
<1> USE <1>0 DEF Firmware
<1>1. CASE Isr
  <2>1. UNCHANGED <<pru, iepClk, cmpZero, cgr>> /\ ~sysEvent' /\ sysEvent
    BY <1>1 DEF Isr, pruvars
  <2>2. ~warm => handle /\ semBuilt
    BY <2>1 DEF Prepared, Loaded
  <2>3. ~warm => ~badIsr'
    BY <1>1, <2>2 DEF Isr
  <2>. QED
    BY <2>1, <2>3
<1>2. CASE StopWait
  BY <1>2 DEF StopWait, r5side
<1>3. CASE Announce
  <2>1. UNCHANGED <<iepClk, cmpZero, sysEvent, badIsr>> /\ pru = "announce" /\ pru' = "clocks"
    BY <1>3 DEF Announce, r5side
  <2>. QED
    BY <2>1
<1>4. CASE EnableIep \/ KickWait
  BY <1>4 DEF EnableIep, KickWait, r5side
<1>5. CASE Configure
  <2>1. UNCHANGED <<iepClk, cgr, sysEvent, badIsr>> /\ pru = "config" /\ pru' = "loop"
    BY <1>5 DEF Configure, r5side
  <2>2. cmpZero'
    BY <1>5, <2>1 DEF Configure, ComparesCleared
  <2>. QED
    BY <2>1, <2>2
<1>6. CASE Reload
  <2>1. UNCHANGED <<pru, iepClk, cgr, badIsr>> /\ pru = "loop"
    BY <1>6 DEF Reload, r5side
  <2>2. cmpZero'
    BY <1>6, <2>1 DEF Reload, Prepared, Loaded
  <2>. QED
    BY <2>1, <2>2
<1>7. CASE OldFirmware
  BY <1>7 DEF OldFirmware, r5side
<1>8. CASE UNCHANGED vars
  BY <1>8 DEF vars, pruvars
<1>. QED
  BY <1>1, <1>2, <1>3, <1>4, <1>5, <1>6, <1>7, <1>8 DEF Pru

LEMMA InvAlways == Spec => []Inv
<1>1. Inv /\ [Next]_vars => Inv'
  BY FlagsStep, TypesStep, PreparedStep, FirmwareR5, FirmwarePru DEF Inv, Next
<1>. QED
  BY <1>1, InitInv, PTL DEF Spec

-----------------------------------------------------------------------------
(* The waits *)

\* What each core waits for is there from the step that provides it on: the stop request
\* stays removed, the first kick pending until the firmware takes it, ICSS_PWR_IDLE clear.
Waits ==
  /\ r5 \in {"ipc", "handle"} \cup Loading \cup Loaded => ~cgr.stopReq
  /\ r5 = "load" => kick
  /\ pru \in {"stopWait", "announce", "clocks", "kickWait"} => kick
  /\ pru \in {"clocks", "kickWait", "config", "loop"} => ~cgr.idle

LEMMA WaitsInit == Init => Waits
<1>1. Init => r5 = "ads"
  BY DEF Init, Order
<1>. QED
  BY <1>1 DEF Init, Waits, Loading, Loaded

LEMMA WaitsR5 == Inv /\ Waits /\ R5 => Waits'
<1> SUFFICES ASSUME Types, Firmware, Waits, R5 PROVE Waits'
  BY DEF Inv
<1> USE DEF Waits, Loading, Loaded, pruvars
<1>0. r5 \notin Loaded => pru \in {"off", "old"}
  BY DEF Firmware
<1>1. CASE AdsInit \/ Open
  <2>1. UNCHANGED <<pru, cgr>> /\ pru \in {"off", "old"}
    BY <1>0, <1>1, R5Places DEF AdsInit, Open
  <2>. QED
    BY <1>1, <2>1, R5Places
<1>2. CASE Halt
  <2>1. UNCHANGED cgr /\ pru' = "off"
    BY <1>2 DEF Halt
  <2>. QED
    BY <1>2, <2>1, R5Places
<1>3. CASE ReadCgr \/ EnableClocks
  <2>1. UNCHANGED pru /\ pru \in {"off", "old"}
    BY <1>0, <1>3, R5Places DEF ReadCgr, EnableClocks
  <2>. QED
    BY <1>3, <2>1, R5Places
<1>4. CASE ClearStopReq
  <2>1. UNCHANGED pru /\ pru \in {"off", "old"}
    BY <1>0, <1>4, R5Places DEF ClearStopReq
  <2>2. ~cgr'.stopReq
    BY <1>4 DEF ClearStopReq, Types, Cgr
  <2>. QED
    BY <1>4, <2>1, <2>2, R5Places
<1>5. CASE OpenIpc \/ ZeroWords
  <2>1. UNCHANGED <<pru, cgr, kick>> /\ pru \in {"off", "old"}
    BY <1>0, <1>5, R5Places DEF OpenIpc, ZeroWords
  <2>. QED
    BY <1>5, <2>1, R5Places
<1>6. CASE SendKick
  <2>1. UNCHANGED <<pru, cgr>> /\ kick'
    BY <1>6 DEF SendKick
  <2>. QED
    BY <1>6, <2>1, R5Places
<1>7. CASE LoadFirmware
  <2>1. UNCHANGED <<cgr, kick>> /\ pru' = "stopWait"
    BY <1>7 DEF LoadFirmware
  <2>. QED
    BY <1>7, <2>1, R5Places
<1>8. CASE WaitIdle \/ EnablePwmPorts
  <2>1. UNCHANGED <<pru, cgr, kick>>
    BY <1>8 DEF WaitIdle, EnablePwmPorts
  <2>. QED
    BY <1>8, <2>1, R5Places
<1>. QED
  BY <1>1, <1>2, <1>3, <1>4, <1>5, <1>6, <1>7, <1>8 DEF R5

LEMMA WaitsPru == Inv /\ Waits /\ (Isr \/ Pru \/ UNCHANGED vars) => Waits'
<1> SUFFICES ASSUME Types, Firmware, Waits, Isr \/ Pru \/ UNCHANGED vars PROVE Waits'
  BY DEF Inv
<1>0. UNCHANGED r5
  BY OthersFrame
<1> USE <1>0 DEF Waits
<1>1. CASE Isr \/ UNCHANGED vars
  BY <1>1 DEF Isr, vars, pruvars
<1>2. CASE StopWait
  BY <1>2 DEF StopWait
<1>3. CASE Announce
  <2>1. UNCHANGED kick /\ pru = "announce" /\ pru' = "clocks"
    BY <1>3 DEF Announce
  <2>2. ~cgr'.idle /\ cgr'.stopReq = cgr.stopReq
    BY <1>3 DEF Announce, Types, Cgr
  <2>. QED
    BY <2>1, <2>2
<1>4. CASE EnableIep \/ Configure \/ Reload \/ OldFirmware
  BY <1>4 DEF EnableIep, Configure, Reload, OldFirmware
<1>5. CASE KickWait
  <2>1. UNCHANGED cgr /\ pru = "kickWait" /\ pru' = "config"
    BY <1>5 DEF KickWait
  <2>2. r5 \in Loaded
    BY <2>1 DEF Firmware
  <2>. QED
    BY <2>1, <2>2 DEF Loaded
<1>. QED
  BY <1>1, <1>2, <1>3, <1>4, <1>5 DEF Pru

LEMMA WaitsAlways == Spec => []Waits
<1>1. Inv /\ Waits /\ [Next]_vars => Waits'
  BY WaitsR5, WaitsPru DEF Next
<1>. QED
  BY <1>1, InvAlways, WaitsInit, PTL DEF Spec

-----------------------------------------------------------------------------
(* Theorems *)

\* The types, and the order in which semaphore, interrupt, handle and firmware come.
THEOREM TypeCorrect == Spec => []TypeOK
<1>. QED
  BY InvAlways, TypeParts, PTL

\* The firmware drives nothing before freertos_main lets it, although only the early
\* event, and not the end of Pru_InitCore, is what it waits for.
THEOREM QuietBeforeLoop == Spec => []QuietStart
<1>1. Inv => QuietStart
  BY DEF Inv, Firmware, Prepared, Loaded, QuietStart
<1>. QED
  BY <1>1, InvAlways, PTL

\* PRU_IPC_Isr finds its handle and its semaphore, unless the R5 alone was restarted.
THEOREM HandleBeforeIsr == Spec => []IsrFindsItsHandle
<1>1. Inv => IsrFindsItsHandle
  BY DEF Inv, Firmware, IsrFindsItsHandle
<1>. QED
  BY <1>1, InvAlways, PTL

\* The pads are switched to the PWM only after the firmware was loaded and, when the
\* device starts, has said that it runs.
THEOREM PadsLast == Spec => PadsAfterFirmware
<1>1. Inv /\ Inv' /\ [Next]_vars =>
        [~pads /\ pads' => /\ pru \notin {"off", "old"}
                           /\ pru \in {"stopWait", "announce"} => warm]_vars
  <2> SUFFICES ASSUME Inv, [Next]_vars, ~pads /\ pads'
               PROVE  /\ pru \notin {"off", "old"}
                      /\ pru \in {"stopWait", "announce"} => warm
    OBVIOUS
  <2>1. EnablePwmPorts
    BY OthersFrame DEF Next, R5, AdsInit, Open, Halt, ReadCgr, EnableClocks, ClearStopReq,
       OpenIpc, ZeroWords, SendKick, LoadFirmware, WaitIdle
  <2>. QED
    BY <2>1, R5Places DEF Inv, Firmware, Loaded
<1>. QED
  BY <1>1, InvAlways, PTL DEF Spec, PadsAfterFirmware

\* No wait of one core for the other is for ever: when the R5 polls ICSS_PWR_IDLE the
\* firmware is about to clear it, and the firmware, once loaded, waits for nothing.
THEOREM NoWaitForEver == Spec => []WaitsEnd
<1>1. Inv /\ Waits => WaitsEnd
  BY DEF Inv, Types, Firmware, Waits, Loaded, WaitsEnd
<1>. QED
  BY <1>1, InvAlways, WaitsAlways, PTL
=============================================================================
