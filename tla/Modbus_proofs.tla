----------------------------- MODULE Modbus_proofs -----------------------------
(***************************************************************************)
(* Proofs about Modbus, for packets and FIFOs of every size: the direction *)
(* of the transceiver, that the UART is free when a request is written,    *)
(* and that the packet whose CRC is computed is stable and one reply.      *)
(***************************************************************************)
EXTENDS Modbus, TLAPS

\* A request is in the UART, or its end has been posted, or it is over: the pin, the
\* transmitter and the write semaphore at each place of the task.
Sending ==
  /\ at \in {"sleep", "top"} /\ taskSt = "READ" =>
       wrEn /\ (tx = "fifo" <=> ~writeSem)
  /\ at = "tail" => taskSt = "READ" /\ wrEn /\ tx # "fifo" /\ ~writeSem
  /\ at \in {"check", "crc", "send"} => taskSt # "READ"
  /\ taskSt # "READ" => tx = "idle" /\ ~writeSem

\* The flag is set only when the read is complete.
FlagMeansComplete ==
  /\ readOk => ~reading
  /\ at = "crc" => readOk
  /\ ~reading => got = 0

\* Which byte follows, and which one the FIFO expects.
Succ(b) == IF b = PktBytes THEN 1 ELSE b + 1
Expected == IF fifo = <<>> THEN got + 1 ELSE Succ(fifo[Len(fifo)])

\* Buffer, FIFO and slave hold one stream of whole replies while none is torn.
Stream ==
  ~torn =>
    /\ \A b \in Byte : (b <= got \/ readOk) => rxPkt[b] = b
    /\ fifo # <<>> => fifo[1] = got + 1
    /\ \A i \in 1..Len(fifo) : i < Len(fifo) => fifo[i + 1] = Succ(fifo[i])
    /\ Expected = IF 0 < sent /\ hearing THEN sent + 1 ELSE 1

Inv == TypeOK /\ Sending /\ FlagMeansComplete /\ Stream

-----------------------------------------------------------------------------
(* Sequences *)

LEMMA TailFacts ==
  ASSUME fifo \in Seq(Byte), fifo # <<>>
  PROVE  /\ Head(fifo) = fifo[1] /\ fifo[1] \in Byte
         /\ Tail(fifo) \in Seq(Byte) /\ Len(Tail(fifo)) = Len(fifo) - 1
         /\ Len(fifo) \in Nat \ {0}
         /\ \A i \in 1..(Len(fifo) - 1) : Tail(fifo)[i] = fifo[i + 1]
OBVIOUS

LEMMA AppendFacts ==
  ASSUME fifo \in Seq(Byte), NEW b \in Byte
  PROVE  /\ Append(fifo, b) \in Seq(Byte)
         /\ Len(Append(fifo, b)) = Len(fifo) + 1 /\ Len(fifo) \in Nat
         /\ Append(fifo, b)[Len(fifo) + 1] = b
         /\ \A i \in 1..Len(fifo) : Append(fifo, b)[i] = fifo[i]
OBVIOUS

-----------------------------------------------------------------------------
(* Types, the direction and the flag *)

\* The types, the Boolean variables apart from the data.
BoolOK ==
  /\ wrEn \in BOOLEAN /\ readOk \in BOOLEAN /\ readSem \in BOOLEAN
  /\ writeSem \in BOOLEAN /\ reading \in BOOLEAN
  /\ hearing \in BOOLEAN /\ torn \in BOOLEAN

DataOK ==
  /\ at \in {"top", "check", "crc", "send", "tail", "sleep"}
  /\ taskSt \in {"INIT", "WRITE", "READ"} /\ tx \in {"idle", "fifo", "shift"}
  /\ got \in 0..(PktBytes - 1) /\ rxPkt \in [Byte -> 0..PktBytes]
  /\ fifo \in Seq(Byte) /\ Len(fifo) <= FifoSize
  /\ owed \in 0..MaxOwed /\ sent \in 0..(PktBytes - 1)

LEMMA TypeParts == TypeOK <=> BoolOK /\ DataOK
BY DEF TypeOK, BoolOK, DataOK

\* What a byte does to the count, and what it does to the flags.
LEMMA RxCount ==
  ASSUME TypeOK, RxByte
  PROVE  got' = IF got + 1 = PktBytes THEN 0 ELSE got + 1
<1>1. \/ LastByte /\ got' = 0
      \/ ~LastByte /\ got' = got + 1
  BY Zenon DEF RxByte
<1>2. got \in Nat /\ got + 1 <= PktBytes /\ PktBytes \in Nat
  BY SizeAssumption DEF TypeOK
<1> QED
  BY <1>1, <1>2 DEF LastByte

LEMMA RxFlags ==
  ASSUME TypeOK, RxByte
  PROVE  /\ reading
         /\ \/ got + 1 = PktBytes /\ got' = 0 /\ ~reading' /\ readOk' /\ readSem'
            \/ got + 1 # PktBytes /\ UNCHANGED <<reading, readOk, readSem>>
<1>1. \/ LastByte /\ got' = 0 /\ ~reading' /\ readOk' /\ readSem'
      \/ ~LastByte /\ UNCHANGED <<reading, readOk, readSem>>
  BY Zenon DEF RxByte, RxCb
<1>2. got \in Nat /\ got + 1 <= PktBytes /\ PktBytes \in Nat
  BY SizeAssumption DEF TypeOK
<1>3. LastByte <=> got + 1 = PktBytes
  BY <1>2 DEF LastByte
<1>4. reading
  BY DEF RxByte
<1> QED
  BY Zenon, <1>1, <1>3, <1>4

LEMMA InitInv == Init => Inv
<1> SUFFICES ASSUME Init PROVE Inv
  OBVIOUS
<1>1. BoolOK
  BY DEF Init, BoolOK
<1>2. DataOK
  <2>1. 0 \in 0..(PktBytes - 1) /\ 0 \in 0..PktBytes /\ 0 \in 0..MaxOwed
    BY SizeAssumption
  <2>2. <<>> \in Seq(Byte) /\ Len(<<>>) <= FifoSize
    BY SizeAssumption
  <2> QED
    BY <2>1, <2>2 DEF Init, DataOK
<1>3. Sending /\ FlagMeansComplete
  BY DEF Init, Sending, FlagMeansComplete
<1>4. Stream
  BY SizeAssumption DEF Init, Stream, Expected, Byte
<1> QED
  BY <1>1, <1>2, <1>3, <1>4, TypeParts DEF Inv

LEMMA BoolStep == TypeOK /\ [Next]_vars => BoolOK'
<1> SUFFICES ASSUME TypeOK, BoolOK, [Next]_vars PROVE BoolOK'
  BY TypeParts
<1> USE DEF BoolOK
<1>1. CASE ReplyWakes \/ TimeOut \/ CheckReadOk \/ CompareCrc \/ Wake
  BY <1>1 DEF ReplyWakes, TimeOut, CheckReadOk, CompareCrc, Wake, uartVars, slaveVars
<1>2. CASE Send \/ WriteDone \/ Read
  BY <1>2 DEF Send, WriteDone, WriteWait, Read, ReadOkCleared, uartVars, slaveVars
<1>3. CASE TxFifoEmpty \/ TxEnd
  BY <1>3 DEF TxFifoEmpty, TxEnd, TxCb, slaveVars
<1>4. CASE RxByte
  <2>1. UNCHANGED <<wrEn, writeSem, hearing, torn>>
    BY <1>4 DEF RxByte, slaveVars
  <2>2. reading' \in BOOLEAN /\ readOk' \in BOOLEAN /\ readSem' \in BOOLEAN
    <3>1. /\ reading' = FALSE \/ reading' = reading
          /\ readOk' = TRUE \/ readOk' = readOk
          /\ readSem' = TRUE \/ readSem' = readSem
      BY Zenon, <1>4 DEF RxByte, RxCb
    <3> QED
      BY Zenon, <3>1
  <2> QED
    BY <2>1, <2>2
<1>5. CASE SlaveByte
  <2>1. UNCHANGED <<wrEn, readOk, readSem, writeSem, reading>>
    BY <1>5 DEF SlaveByte
  <2>2. hearing' \in BOOLEAN /\ torn' \in BOOLEAN
    BY <1>5 DEF SlaveByte
  <2> QED
    BY <2>1, <2>2
<1>6. CASE UNCHANGED vars
  BY <1>6 DEF vars, uartVars, slaveVars
<1> QED
  BY <1>1, <1>2, <1>3, <1>4, <1>5, <1>6 DEF Next, Task

LEMMA DataStep == TypeOK /\ [Next]_vars => DataOK'
<1> SUFFICES ASSUME TypeOK, DataOK, [Next]_vars PROVE DataOK'
  BY TypeParts
<1> USE SizeAssumption
<1>1. CASE ReplyWakes \/ TimeOut \/ CheckReadOk \/ CompareCrc \/ WriteDone \/ Wake
  <2>1. UNCHANGED <<taskSt, tx, got, rxPkt, fifo, owed, sent>>
    BY <1>1 DEF ReplyWakes, TimeOut, CheckReadOk, CompareCrc, WriteDone, Wake,
                uartVars, slaveVars
  <2>2. at' \in {"top", "check", "crc", "send", "tail", "sleep"}
    BY <1>1 DEF ReplyWakes, TimeOut, CheckReadOk, CompareCrc, WriteDone, Wake
  <2> QED
    BY <2>1, <2>2 DEF DataOK
<1>2. CASE Send
  BY <1>2 DEF Send, DataOK, slaveVars
<1>3. CASE Read
  <2>1. UNCHANGED <<tx, rxPkt, fifo, owed, sent>> /\ taskSt' = "WRITE" /\ at' = "sleep"
    BY <1>3 DEF Read, slaveVars
  <2>2. got' \in 0..(PktBytes - 1)
    BY <1>3 DEF Read, DataOK
  <2> QED
    BY <2>1, <2>2 DEF DataOK
<1>4. CASE TxFifoEmpty
  BY <1>4 DEF TxFifoEmpty, DataOK, taskVars, slaveVars
<1>5. CASE TxEnd
  BY <1>5 DEF TxEnd, DataOK, taskVars
<1>6. CASE RxByte
  <2>1. UNCHANGED <<at, taskSt, tx, owed, sent>>
    BY <1>6 DEF RxByte, taskVars, slaveVars
  <2>2. fifo' \in Seq(Byte) /\ Len(fifo') <= FifoSize
    BY <1>6, TailFacts DEF RxByte, DataOK
  <2>3. rxPkt' \in [Byte -> 0..PktBytes]
    BY <1>6, TailFacts DEF RxByte, DataOK, Byte
  <2>4. got' \in 0..(PktBytes - 1)
    <3>1. got' = IF got + 1 = PktBytes THEN 0 ELSE got + 1
      BY Zenon, <1>6, RxCount
    <3> QED
      BY <3>1 DEF DataOK
  <2> QED
    BY <2>1, <2>2, <2>3, <2>4 DEF DataOK
<1>7. CASE SlaveByte
  <2>1. sent + 1 \in Byte
    BY DEF DataOK, Byte
  <2>2. fifo' \in Seq(Byte) /\ Len(fifo') <= FifoSize
    BY <1>7, <2>1, AppendFacts DEF SlaveByte, DataOK
  <2>3. owed' \in 0..MaxOwed /\ sent' \in 0..(PktBytes - 1)
    BY <1>7 DEF SlaveByte, DataOK
  <2>4. UNCHANGED <<at, taskSt, tx, got, rxPkt>>
    BY <1>7 DEF SlaveByte, taskVars
  <2> QED
    BY <2>2, <2>3, <2>4 DEF DataOK
<1>8. CASE UNCHANGED vars
  BY <1>8 DEF vars, taskVars, uartVars, slaveVars, DataOK
<1> QED
  BY <1>1, <1>2, <1>3, <1>4, <1>5, <1>6, <1>7, <1>8 DEF Next, Task

LEMMA SendingStep == TypeOK /\ Sending /\ [Next]_vars => Sending'
<1> SUFFICES ASSUME TypeOK, Sending, [Next]_vars PROVE Sending'
  OBVIOUS
<1> USE DEF Sending, TypeOK
<1>1. CASE Send
  BY <1>1 DEF Send
<1>2. CASE WriteDone
  BY <1>2 DEF WriteDone, WriteWait, uartVars
<1>3. CASE Read
  BY <1>3 DEF Read, TailDelay
<1>4. CASE ReplyWakes \/ TimeOut \/ CheckReadOk \/ CompareCrc \/ Wake
  BY <1>4 DEF ReplyWakes, TimeOut, CheckReadOk, CompareCrc, Wake, uartVars
<1>5. CASE TxFifoEmpty \/ TxEnd
  BY <1>5 DEF TxFifoEmpty, TxEnd, TxCb, taskVars
<1>6. CASE RxByte \/ SlaveByte
  BY <1>6 DEF RxByte, SlaveByte, taskVars
<1>7. CASE UNCHANGED vars
  BY <1>7 DEF vars, taskVars, uartVars
<1> QED
  BY <1>1, <1>2, <1>3, <1>4, <1>5, <1>6, <1>7 DEF Next, Task

LEMMA FlagStep == TypeOK /\ FlagMeansComplete /\ [Next]_vars => FlagMeansComplete'
<1> SUFFICES ASSUME TypeOK, FlagMeansComplete, [Next]_vars PROVE FlagMeansComplete'
  OBVIOUS
<1> USE DEF FlagMeansComplete, TypeOK
<1>1. CASE CheckReadOk
  BY <1>1 DEF CheckReadOk, ReplyArrived, uartVars
<1>2. CASE Read
  BY <1>2 DEF Read, ReadOkCleared
<1>3. CASE ReplyWakes \/ TimeOut \/ CompareCrc \/ Send \/ WriteDone \/ Wake
  BY <1>3 DEF ReplyWakes, TimeOut, CompareCrc, Send, WriteDone, Wake, uartVars
<1>4. CASE TxFifoEmpty \/ TxEnd \/ SlaveByte
  BY <1>4 DEF TxFifoEmpty, TxEnd, SlaveByte, taskVars
<1>5. CASE RxByte
  <2>1. UNCHANGED <<at, taskSt>> /\ reading
    BY <1>5 DEF RxByte, taskVars
  <2>2. (~reading' /\ got' = 0) \/ (reading' /\ ~readOk')
    BY Zenon, <1>5, RxFlags
  <2>3. at = "crc" => readOk
    OBVIOUS
  <2> QED
    BY <1>5, <2>1, <2>2, <2>3, RxFlags
<1>6. CASE UNCHANGED vars
  BY <1>6 DEF vars, taskVars, uartVars
<1> QED
  BY <1>1, <1>2, <1>3, <1>4, <1>5, <1>6 DEF Next, Task

-----------------------------------------------------------------------------
(* The stream of bytes *)

\* The task changes the stream only by starting a read, of which it clears the flag.
LEMMA StreamFrame ==
  ASSUME Stream, FlagMeansComplete, TypeOK,
         UNCHANGED <<got, rxPkt, fifo, sent, hearing, torn>>, readOk' => readOk
  PROVE  Stream'
BY DEF Stream, Expected, TypeOK

LEMMA RxStream ==
  ASSUME TypeOK, FlagMeansComplete, Stream, RxByte
  PROVE  Stream'
<1> SUFFICES ASSUME ~torn PROVE Stream'
  BY DEF Stream, RxByte, slaveVars
<1> USE SizeAssumption
<1> DEFINE n == Len(fifo)
<1>1. /\ got \in 0..(PktBytes - 1) /\ ~readOk
      /\ fifo \in Seq(Byte) /\ fifo # <<>> /\ rxPkt \in [Byte -> 0..PktBytes]
      /\ n \in Nat \ {0} /\ fifo[1] = got + 1 /\ got + 1 \in Byte
  BY TailFacts DEF RxByte, TypeOK, Stream, FlagMeansComplete, Byte
<1>2. got' = IF got + 1 = PktBytes THEN 0 ELSE got + 1
  BY Zenon, RxCount
<1>3. got' + 1 = Succ(fifo[1])
  BY <1>1, <1>2 DEF Succ
<1>4. \A b \in Byte : (b <= got' \/ readOk') => rxPkt'[b] = b
  <2>1. rxPkt' = [rxPkt EXCEPT ![got + 1] = got + 1]
    BY <1>1, TailFacts DEF RxByte
  <2>2. \A b \in Byte : b <= got => rxPkt[b] = b
    BY DEF Stream
  <2>3. \A b \in Byte : b <= got + 1 => rxPkt'[b] = b
    BY <1>1, <2>1, <2>2 DEF Byte
  <2>4. CASE got + 1 = PktBytes
    BY <2>3, <2>4 DEF Byte
  <2>5. CASE got + 1 # PktBytes
    <3>1. ~readOk' /\ got' = got + 1
      <4>1. ~readOk'
        BY Zenon, <1>1, <2>5, RxFlags
      <4> QED
        BY <4>1, <1>2, <2>5
    <3> QED
      BY <2>3, <3>1
  <2> QED
    BY <2>4, <2>5
<1>5. \A i \in 1..n : i < n => fifo[i + 1] = Succ(fifo[i])
  BY DEF Stream
<1>6. /\ fifo' = Tail(fifo) /\ fifo' \in Seq(Byte) /\ Len(fifo') = n - 1
      /\ \A i \in 1..(n - 1) : fifo'[i] = fifo[i + 1]
  BY <1>1, TailFacts DEF RxByte
<1>7. fifo' # <<>> => fifo'[1] = got' + 1
  BY <1>1, <1>3, <1>5, <1>6
<1>8. \A i \in 1..Len(fifo') : i < Len(fifo') => fifo'[i + 1] = Succ(fifo'[i])
  BY <1>1, <1>5, <1>6
<1>9. Expected' = Expected
  <2>1. CASE n = 1
    <3>1. fifo' = <<>>
      BY <1>6, <2>1
    <3>2. Expected = Succ(fifo[1])
      BY <1>1, <2>1 DEF Expected
    <3> QED
      BY <3>1, <3>2, <1>3 DEF Expected
  <2>2. CASE n # 1
    <3>1. n - 1 \in 1..(n - 1) /\ (n - 1) + 1 = n
      <4>1. \A m \in Nat \ {0, 1} : m - 1 \in 1..(m - 1) /\ (m - 1) + 1 = m
        OBVIOUS
      <4>2. n \in Nat \ {0, 1}
        BY <1>1, <2>2
      <4> QED
        BY <4>1, <4>2
    <3>2. fifo'[n - 1] = fifo[n]
      BY <1>6, <3>1
    <3>3. fifo' # <<>>
      <4>1. n - 1 # 0
        <5>1. \A m \in Nat \ {0, 1} : m - 1 # 0
          OBVIOUS
        <5> QED
          BY <1>1, <2>2, <5>1
      <4>2. Len(fifo') # 0
        BY <1>6, <4>1
      <4>3. Len(<<>>) = 0
        OBVIOUS
      <4> QED
        BY <4>2, <4>3
    <3> QED
      BY <1>1, <1>6, <3>2, <3>3 DEF Expected, Succ
  <2> QED
    BY <2>1, <2>2
<1> QED
  BY <1>4, <1>7, <1>8, <1>9 DEF Stream, RxByte, slaveVars

LEMMA SlaveStream ==
  ASSUME TypeOK, FlagMeansComplete, Stream, SlaveByte
  PROVE  Stream'
<1> SUFFICES ASSUME ~torn' PROVE Stream'
  BY DEF Stream
<1> USE SizeAssumption
<1> DEFINE n == Len(fifo)
<1>1. /\ ~torn /\ UNCHANGED <<got, rxPkt, readOk>>
      /\ sent \in 0..(PktBytes - 1) /\ sent + 1 \in Byte /\ fifo \in Seq(Byte)
      /\ got \in 0..(PktBytes - 1) /\ n \in Nat
      /\ \A i \in 1..n : fifo[i] \in Byte
  BY DEF SlaveByte, TypeOK, Byte
<1>2. Expected = IF 0 < sent /\ hearing THEN sent + 1 ELSE 1
  BY <1>1 DEF Stream
<1>3. PICK heard \in BOOLEAN :
        /\ fifo' = IF heard THEN Append(fifo, sent + 1) ELSE fifo
        /\ hearing' = IF sent = 0 THEN heard ELSE hearing
        /\ torn' = (torn \/ (0 < sent /\ heard # hearing))
  BY DEF SlaveByte
<1>4. hearing' = heard
  BY <1>1, <1>3 DEF TypeOK
<1>5. sent' = IF sent + 1 = PktBytes THEN 0 ELSE sent + 1
  BY DEF SlaveByte
<1>6. CASE ~heard
  <2>1. fifo' = fifo /\ Expected = 1
    BY <1>1, <1>2, <1>3, <1>4, <1>6
  <2>2. Expected' = 1
    BY <2>1, <1>1 DEF Expected
  <2> QED
    BY <1>1, <1>4, <1>6, <2>1, <2>2 DEF Stream
<1>7. CASE heard
  <2>1. Expected = sent + 1
    <3>1. 0 < sent => hearing
      BY <1>1, <1>3, <1>7
    <3> QED
      BY <1>1, <1>2, <3>1
  <2>2. /\ fifo' \in Seq(Byte) /\ Len(fifo') = n + 1 /\ fifo'[n + 1] = sent + 1
        /\ \A i \in 1..n : fifo'[i] = fifo[i]
    BY <1>1, <1>3, <1>7, AppendFacts
  <2>3. fifo'[1] = got' + 1
    <3>1. CASE n = 0
      BY <1>1, <2>1, <2>2, <3>1 DEF Expected
    <3>2. CASE n # 0
      BY <1>1, <2>2, <3>2 DEF Stream
    <3> QED
      BY <3>1, <3>2
  <2>4. \A i \in 1..Len(fifo') : i < Len(fifo') => fifo'[i + 1] = Succ(fifo'[i])
    <3> TAKE i \in 1..Len(fifo')
    <3> HAVE i < Len(fifo')
    <3>1. CASE i < n
      BY <1>1, <2>2, <3>1 DEF Stream
    <3>2. CASE i = n
      BY <1>1, <2>1, <2>2, <3>2 DEF Expected
    <3> QED
      BY <1>1, <2>2, <3>1, <3>2
  <2>5. Expected' = Succ(sent + 1)
    BY <1>1, <2>2 DEF Expected, Succ
  <2>6. Expected' = IF 0 < sent' /\ hearing' THEN sent' + 1 ELSE 1
    BY <1>1, <1>4, <1>5, <1>7, <2>5 DEF Succ
  <2> QED
    BY <1>1, <2>2, <2>3, <2>4, <2>6 DEF Stream
<1> QED
  BY <1>6, <1>7

LEMMA StreamStep == TypeOK /\ FlagMeansComplete /\ Stream /\ [Next]_vars => Stream'
<1> SUFFICES ASSUME TypeOK, FlagMeansComplete, Stream, [Next]_vars PROVE Stream'
  OBVIOUS
<1>1. CASE Read
  BY <1>1, StreamFrame DEF Read, ReadOkCleared, FlagMeansComplete, TypeOK, slaveVars
<1>2. CASE ReplyWakes \/ TimeOut \/ CheckReadOk \/ CompareCrc \/ Send \/ WriteDone \/ Wake
  BY <1>2, StreamFrame DEF ReplyWakes, TimeOut, CheckReadOk, CompareCrc, Send,
       WriteDone, Wake, uartVars, slaveVars
<1>3. CASE TxFifoEmpty \/ TxEnd
  BY <1>3, StreamFrame DEF TxFifoEmpty, TxEnd, slaveVars
<1>4. CASE UNCHANGED vars
  BY <1>4, StreamFrame DEF vars, uartVars, slaveVars
<1> QED
  BY <1>1, <1>2, <1>3, <1>4, RxStream, SlaveStream DEF Next, Task

-----------------------------------------------------------------------------
(* Theorems *)

LEMMA InvAlways == Spec => []Inv
<1>1. Inv /\ [Next]_vars => Inv'
  <2>1. TypeOK /\ [Next]_vars => TypeOK'
    BY BoolStep, DataStep DEF TypeOK, BoolOK, DataOK
  <2> QED
    BY <2>1, SendingStep, FlagStep, StreamStep DEF Inv
<1> QED
  BY InitInv, <1>1, PTL DEF Spec

\* Every variable keeps its type.
THEOREM TypeCorrect == Spec => []TypeOK
<1>1. Inv => TypeOK
  BY DEF Inv
<1> QED
  BY InvAlways, <1>1, PTL

\* The transceiver drives the bus until the last bit of a request is out.
THEOREM DriverKept == Spec => []SendsAsDriver
<1>1. Inv => SendsAsDriver
  BY DEF Inv, TypeOK, Sending, SendsAsDriver
<1> QED
  BY InvAlways, <1>1, PTL

\* The UART accepts every request, so every wait for its end is answered.
THEOREM WritesAccepted == Spec => []WriteAccepted
<1>1. Inv => WriteAccepted
  BY DEF Inv, Sending, WriteAccepted
<1> QED
  BY InvAlways, <1>1, PTL

\* The CRC is computed over a packet that no read is filling.
THEOREM CrcStable == Spec => []CrcOfStablePacket
<1>1. Inv => CrcOfStablePacket
  BY DEF Inv, FlagMeansComplete, CrcOfStablePacket
<1> QED
  BY InvAlways, <1>1, PTL

\* The CRC is computed over one whole reply unless a reply was received in part.
THEOREM CrcWhole == Spec => []CrcOfWholeReply
<1>1. Inv => CrcOfWholeReply
  BY DEF Inv, FlagMeansComplete, Stream, CrcOfWholeReply
<1> QED
  BY InvAlways, <1>1, PTL

\* The master waits without a time-out only for a UART that has its request: what
\* READ_STATE waits for is posted, or is still to be.
THEOREM NoWaitForEver == Spec => []WaitsEnd
<1>1. Inv => WaitsEnd
  BY DEF Inv, TypeOK, Sending, WaitsEnd
<1> QED
  BY <1>1, InvAlways, PTL
=============================================================================
