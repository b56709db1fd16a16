--------------------------------- MODULE Modbus ---------------------------------
(***************************************************************************)
(* The Modbus master of the M4F on a half-duplex RS485 bus.                *)
(*                                                                         *)
(* Modbus_Task sends a request, waits until the UART has sent it, turns    *)
(* the transceiver to receive (WR_EN low), starts a read, waits at most a  *)
(* second for the reply, and sends the next request whatever came.  Two    *)
(* callbacks of the UART interrupt the task: Uart1_TxCb posts one          *)
(* semaphore, Uart1_RxCb sets Modbus_ReadOk and posts another.             *)
(*                                                                         *)
(* The UART driver and the slave are external.  A read that has not got    *)
(* all its bytes stays pending, and the driver refuses another one.  A     *)
(* slave answers a request in its own time, or never; a byte is lost when  *)
(* the transceiver sends, when the receive FIFO is full, or on the line.   *)
(***************************************************************************)
EXTENDS Naturals, Sequences

CONSTANTS
  PktBytes,     \* sizeof(MODBUS_PKT_T)
  FifoSize,     \* bytes the UART holds for a read to come
  MaxOwed       \* requests a slave may be late with: a bound of the model

ASSUME SizeAssumption ==
  PktBytes \in Nat \ {0} /\ FifoSize \in Nat /\ MaxOwed \in Nat

Byte == 1..PktBytes         \* a byte of a reply is its place in the reply

VARIABLES
  at,          \* where Modbus_Task is
  taskSt,      \* Modbus_TaskSt
  wrEn,        \* the pin: TRUE to send, FALSE to receive
  readOk,      \* Modbus_ReadOk
  readSem,     \* gUartReadDoneSem
  writeSem,    \* gUartWriteDoneSem
  tx,          \* UART: "idle", bytes in the "fifo", or the last one in the "shift" register
  reading,     \* UART: a read is pending
  got,         \* UART: bytes of the pending read so far
  rxPkt,       \* Modbus_RxPkt; 0 is a byte never received
  fifo,        \* UART: bytes received and not yet read
  owed,        \* slave: requests it has yet to answer
  sent,        \* slave: bytes sent of the current reply
  hearing,     \* history: the first byte of the current reply was received
  torn         \* history: some reply has been received in part

taskVars == <<at, taskSt>>
uartVars == <<tx, reading, got, rxPkt, fifo>>
slaveVars == <<owed, sent, hearing, torn>>
vars == <<taskVars, wrEn, readOk, readSem, writeSem, uartVars, slaveVars>>

-----------------------------------------------------------------------------
\* Modbus_Init has found WR_EN low and created the task, which has run
\* Modbus_InitTask and is about to do INIT_STATE.
Init ==
  /\ at = "send" /\ taskSt = "INIT" /\ wrEn = FALSE
  /\ readOk = FALSE /\ readSem = FALSE /\ writeSem = FALSE
  /\ tx = "idle" /\ reading = FALSE /\ got = 0
  /\ rxPkt = [b \in Byte |-> 0] /\ fifo = <<>>
  /\ owed = 0 /\ sent = 0 /\ hearing = FALSE /\ torn = FALSE

-----------------------------------------------------------------------------
(* The task *)

\* WRITE_STATE: the wait for the reply ends with the semaphore, or after a second.
ReplyWakes ==
  /\ at = "top" /\ taskSt = "WRITE" /\ readSem
  /\ readSem' = FALSE /\ at' = "check"
  /\ UNCHANGED <<taskSt, wrEn, readOk, writeSem, uartVars, slaveVars>>

\* Mutant: the task waits for ever.
NoTimeOut == FALSE
WaitIsBounded == TRUE

TimeOut ==
  /\ WaitIsBounded
  /\ at = "top" /\ taskSt = "WRITE" /\ ~readSem
  /\ at' = "check"
  /\ UNCHANGED <<taskSt, wrEn, readOk, readSem, writeSem, uartVars, slaveVars>>

ReplyArrived == readOk

CheckReadOk ==
  /\ at = "check"
  /\ at' = IF ReplyArrived THEN "crc" ELSE "send"
  /\ UNCHANGED <<taskSt, wrEn, readOk, readSem, writeSem, uartVars, slaveVars>>

\* Modbus_CrcCalc over Modbus_RxPkt: both results lead to the same branch.
CompareCrc ==
  /\ at = "crc"
  /\ at' = "send"
  /\ UNCHANGED <<taskSt, wrEn, readOk, readSem, writeSem, uartVars, slaveVars>>

\* Modbus_Write: the transceiver sends, the UART gets the packet.  The driver
\* refuses a write while another is in progress.
Send ==
  /\ at = "send"
  /\ wrEn' = TRUE
  /\ tx' = IF tx = "idle" THEN "fifo" ELSE tx
  /\ taskSt' = "READ" /\ at' = "sleep"
  /\ UNCHANGED <<readOk, readSem, writeSem, reading, got, rxPkt, fifo, slaveVars>>

\* Mutant: the task does not wait for Uart1_TxCb.
NoWriteWait == writeSem' = FALSE
WriteWait == writeSem /\ writeSem' = FALSE

\* READ_STATE: the wait for the end of the write.
WriteDone ==
  /\ at = "top" /\ taskSt = "READ"
  /\ WriteWait
  /\ at' = "tail"
  /\ UNCHANGED <<taskSt, wrEn, readOk, readSem, uartVars, slaveVars>>

\* Mutant: no delay for the last byte.
NoTailDelay == TRUE
\* The delay of 40 us, and the 10 ms before, outlast the last byte on the wire.
TailDelay == tx # "shift"

\* Mutant: the flag keeps what the last read has left in it.
ReadOkKept == readOk' = readOk
ReadOkCleared == readOk' = FALSE

\* Modbus_Read.  It is one step: a byte takes 100 us from the moment the
\* transceiver listens, so none ends between its three statements.
Read ==
  /\ at = "tail" /\ TailDelay
  /\ ReadOkCleared
  /\ wrEn' = FALSE
  /\ reading' = TRUE /\ got' = IF reading THEN got ELSE 0
  /\ taskSt' = "WRITE" /\ at' = "sleep"
  /\ UNCHANGED <<readSem, writeSem, tx, rxPkt, fifo, slaveVars>>

\* ClockP_usleep(MODBUS_TASK_WAIT) after every state.
Wake ==
  /\ at = "sleep"
  /\ at' = "top"
  /\ UNCHANGED <<taskSt, wrEn, readOk, readSem, writeSem, uartVars, slaveVars>>

Task == \/ ReplyWakes \/ TimeOut \/ CheckReadOk \/ CompareCrc
        \/ Send \/ WriteDone \/ Read \/ Wake

-----------------------------------------------------------------------------
(* The UART and its callbacks *)

\* Uart1_TxCb, when the last byte has left the FIFO.
TxCb == writeSem' = TRUE /\ UNCHANGED readSem

TxFifoEmpty ==
  /\ tx = "fifo"
  /\ tx' = "shift"
  /\ TxCb
  /\ UNCHANGED <<taskVars, wrEn, readOk, reading, got, rxPkt, fifo, slaveVars>>

\* The last byte is out.  The slave has understood the request, or not.
TxEnd ==
  /\ tx = "shift"
  /\ tx' = "idle"
  /\ owed' \in {owed} \cup {n \in {owed + 1} : n <= MaxOwed}
  /\ UNCHANGED <<taskVars, wrEn, readOk, readSem, writeSem, reading, got, rxPkt,
                 fifo, sent, hearing, torn>>

\* Mutant: the read asks for one byte less than a packet.
LastByteShort == PktBytes <= got + 2
LastByte == PktBytes <= got + 1

RxCb == readOk' = TRUE /\ readSem' = TRUE

\* The UART's interrupt moves a byte to the buffer; after the last it calls Uart1_RxCb.
RxByte ==
  /\ reading /\ fifo # <<>>
  /\ rxPkt' = [rxPkt EXCEPT ![got + 1] = Head(fifo)]
  /\ fifo' = Tail(fifo)
  /\ \/ LastByte /\ reading' = FALSE /\ got' = 0 /\ RxCb
     \/ ~LastByte /\ got' = got + 1 /\ UNCHANGED <<reading, readOk, readSem>>
  /\ UNCHANGED <<taskVars, wrEn, writeSem, tx, slaveVars>>

\* The slave sends a byte of its reply.
SlaveByte ==
  /\ 0 < owed
  /\ sent' = IF sent + 1 = PktBytes THEN 0 ELSE sent + 1
  /\ owed' = IF sent + 1 = PktBytes THEN owed - 1 ELSE owed
  /\ \E heard \in BOOLEAN :
       /\ heard => ~wrEn /\ Len(fifo) < FifoSize
       /\ fifo' = IF heard THEN Append(fifo, sent + 1) ELSE fifo
       /\ hearing' = IF sent = 0 THEN heard ELSE hearing
       /\ torn' = (torn \/ (0 < sent /\ heard # hearing))
  /\ UNCHANGED <<taskVars, wrEn, readOk, readSem, writeSem, tx, reading, got, rxPkt>>

Next == Task \/ TxFifoEmpty \/ TxEnd \/ RxByte \/ SlaveByte

Spec == Init /\ [][Next]_vars

\* The task is scheduled, the one second ends, the UART sends what it was given and
\* takes its interrupts.  Nothing is assumed of the slave.
FairSpec == Spec /\ WF_vars(Task) /\ WF_vars(TxFifoEmpty) /\ WF_vars(TxEnd)
                 /\ WF_vars(RxByte)

-----------------------------------------------------------------------------
(* Properties *)

\* Every variable stays in its type.
TypeOK ==
  /\ at \in {"top", "check", "crc", "send", "tail", "sleep"}
  /\ taskSt \in {"INIT", "WRITE", "READ"}
  /\ wrEn \in BOOLEAN /\ readOk \in BOOLEAN
  /\ readSem \in BOOLEAN /\ writeSem \in BOOLEAN
  /\ tx \in {"idle", "fifo", "shift"} /\ reading \in BOOLEAN
  /\ got \in 0..(PktBytes - 1) /\ rxPkt \in [Byte -> 0..PktBytes]
  /\ fifo \in Seq(Byte) /\ Len(fifo) <= FifoSize
  /\ owed \in 0..MaxOwed /\ sent \in 0..(PktBytes - 1)
  /\ hearing \in BOOLEAN /\ torn \in BOOLEAN

\* The transceiver is turned to receive only when the last bit of the request is on
\* the bus: the write semaphore, posted once per write, and the delay see to it.
SendsAsDriver == tx # "idle" => wrEn

\* Modbus_Write is called only when the request before has left the UART.  Otherwise
\* the driver would refuse it, no Uart1_TxCb would follow, and READ_STATE, which waits
\* without a time-out, would hang.
WriteAccepted == at = "send" => tx = "idle" /\ ~writeSem

\* The task waits without a time-out only for the UART, and only while the UART has its
\* request: in READ_STATE Uart1_TxCb is still to come or has posted, and when the delay
\* for the last byte runs the FIFO is empty.  Neither a refused write nor a semaphore
\* left from an earlier request can hang the master.
WaitsEnd ==
  /\ at \in {"sleep", "top"} /\ taskSt = "READ" => (tx = "fifo" <=> ~writeSem)
  /\ at = "tail" => tx \in {"shift", "idle"}
  /\ taskSt # "READ" => ~writeSem

\* While the task computes a CRC no read is pending, so the UART does not change the
\* packet under it, however late the reply: also when the reply ends the wait at the
\* moment of the time-out, or when an old read was still pending.
CrcOfStablePacket == at = "crc" => ~reading

\* The packet whose CRC is computed is one reply from its first byte to its last, as
\* long as no reply has been received in part: late replies, silent slaves and reads
\* left pending do not shift it.  After a torn reply nothing realigns the two.
CrcOfWholeReply == (at = "crc" /\ ~torn) => \A b \in Byte : rxPkt[b] = b

\* The master polls for ever, whatever the slave does or leaves undone.
KeepsPolling == []<>(tx = "fifo") /\ []<>(tx = "idle")
=============================================================================
