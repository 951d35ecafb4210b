----------------------------- MODULE UartProofs -----------------------------
(***************************************************************************)
(* Proofs about Uart for every depth of the FIFOs, every length and number *)
(* of calls and every setting of the PCDs: it is type-correct, it honours  *)
(* flow control in both directions, and it loses no byte if the PCDs       *)
(* promise no more FIFO than Initialize sets up.                           *)
(***************************************************************************)
EXTENDS Uart, SequenceTheorems, TLAPS

Writing == pc \in {"flush", "wait", "out"}
Reading == pc \in {"rxWait", "rxGet"}

(* The bytes of the call in progress that are left have been allowed for in
   MaxTotal, and there is at least one left in the middle of a loop.      *)
CallInv ==
  /\ Writing => written + left <= MaxTotal
  /\ pc \in {"wait", "out"} \/ Reading => left > 0
  /\ pc = "rxGet" => rx > 0

LateInv ==
  /\ late <= 1
  /\ pc = "out" /\ ~ClearToSend => late = 0

(* RTS is clear while the peer is to wait. *)
HeldInv ==
  /\ held \/ sending => pc # "off"
  /\ Holding => ~rts

(* Since RTS fell the peer has overrun the FIFO with the byte it was sending,
   or is still sending it, or it is waiting.                              *)
LostInv ==
  /\ lost <= 1
  /\ pcd.flow /\ ~rts /\ sending => lost = 0

IInv == TypeOK /\ CallInv /\ LateInv /\ HeldInv /\ LostInv

Byte == 1..MaxTotal

----------------------------------------------------------------------------
LEMMA InitInv == Init => IInv
<1>. SUFFICES ASSUME Init PROVE IInv
  OBVIOUS
<1>1. <<>> \in Seq(Byte) /\ Len(<<>>) = 0
  BY EmptySeq
<1>2. TypeOK
  <2>1. divisor \in 0..2^16 - 1 /\ ret \in Int
    BY DEF Init, RETURN_SUCCESS
  <2>2. fifo \in Seq(Byte) /\ Len(fifo) <= depth /\ shift \in Seq(Byte) /\ Len(shift) <= 1
        /\ wire \in Seq(Byte)
    BY <1>1 DEF Init
  <2>3. /\ left \in 0..MaxBytes /\ bytes \in 0..MaxBytes /\ index \in Nat /\ late \in Nat
        /\ written \in 0..MaxTotal /\ rx \in 0..FifoDepth /\ depth \in {1, FifoDepth}
    BY DepthAssumption DEF Init
  <2>4. /\ pcd \in Configs /\ pc = "off" /\ rts \in BOOLEAN /\ held \in BOOLEAN /\ sending \in BOOLEAN /\ lost \in Nat
        /\ dsr \in BOOLEAN /\ cts \in BOOLEAN
    BY DEF Init
  <2>. QED
    BY <2>1, <2>2, <2>3, <2>4 DEF TypeOK, Byte
<1>3. CallInv /\ LateInv /\ HeldInv /\ LostInv
  BY DEF Init, CallInv, LateInv, HeldInv, Holding, LostInv, Writing, Reading
<1>. QED
  BY <1>2, <1>3 DEF IInv

(* A divisor latch has 16 bits. *)
LEMMA DivisorType == \A p \in Configs : Div(p.clock, p.baud) % 2^16 \in 0..2^16 - 1
<1>. SUFFICES ASSUME NEW p \in Configs PROVE Div(p.clock, p.baud) % 2^16 \in 0..2^16 - 1
  OBVIOUS
<1>1. p.clock \in Nat /\ p.baud \in Nat \ {0}
  BY ConfigsAssumption
<1>2. p.baud * 16 \in Nat \ {0}
  BY <1>1
<1>3. p.clock \div (p.baud * 16) \in Int
  BY <1>1, <1>2
<1>4. Div(p.clock, p.baud) \in Int
  BY <1>3 DEF Div
<1>5. 2^16 = 65536
  OBVIOUS
<1>. QED
  BY <1>4, <1>5

LEMMA LinesSame == UNCHANGED <<pcd, lines>> => (ClearToSend' <=> ClearToSend)
  BY DEF lines, ClearToSend, Writable

LEMMA NextInv == IInv /\ [Next]_vars => IInv'
<1>. SUFFICES ASSUME IInv, [Next]_vars PROVE IInv'
  OBVIOUS
<1>. USE DepthAssumption, LinesSame DEF IInv, driver, txDev, lines, peer
<1>1. CASE InitializeNoPort
  <2>. USE <1>1 DEF InitializeNoPort, Back
  <2>1. TypeOK'
    BY DEF TypeOK, RETURN_DEVICE_ERROR
  <2>2. CallInv' /\ LateInv' /\ HeldInv' /\ LostInv'
    BY DEF CallInv, LateInv, HeldInv, Holding, LostInv, Writing, Reading
  <2>. QED
    BY <2>1, <2>2
<1>2. CASE Initialize
  <2>. USE <1>2 DEF Initialize, Back
  <2>1. TypeOK'
    BY DivisorType, ConfigsAssumption DEF TypeOK, TEMT
  <2>2. CallInv' /\ LateInv' /\ HeldInv' /\ LostInv'
    BY DEF CallInv, LateInv, HeldInv, Holding, LostInv, Writing, Reading
  <2>. QED
    BY <2>1, <2>2
<1>3. ASSUME NEW n \in 0..MaxBytes, NEW given \in BOOLEAN, Write(n, given) PROVE IInv'
  <2>. USE <1>3 DEF Write, Back
  <2>1. TypeOK'
    BY DEF TypeOK
  <2>2. CallInv'
    BY DEF CallInv, Writing, Reading, TypeOK
  <2>3. LateInv' /\ HeldInv' /\ LostInv'
    BY DEF LateInv, HeldInv, Holding, LostInv
  <2>. QED
    BY <2>1, <2>2, <2>3
<1>4. CASE Flush
  <2>. USE <1>4 DEF Flush, Back
  <2>1. TypeOK'
    BY DEF TypeOK
  <2>2. CallInv'
    BY DEF CallInv, Writing, Reading, TypeOK
  <2>3. LateInv' /\ HeldInv' /\ LostInv'
    BY DEF LateInv, HeldInv, Holding, LostInv
  <2>. QED
    BY <2>1, <2>2, <2>3
<1>5. CASE WaitWritable
  <2>. USE <1>5 DEF WaitWritable
  <2>1. TypeOK'
    BY DEF TypeOK
  <2>2. CallInv'
    BY DEF CallInv, Writing, Reading
  <2>3. LateInv' /\ HeldInv' /\ LostInv'
    BY DEF LateInv, HeldInv, Holding, LostInv
  <2>. QED
    BY <2>1, <2>2, <2>3
<1>6. CASE Out
  <2>. USE <1>6 DEF Out, Back
  <2>1. written \in 0..MaxTotal /\ written' = written + 1 /\ written' \in Byte /\ left > 0
    BY DEF TypeOK, CallInv, Writing, Byte
  <2>2. fifo' \in Seq(Byte) /\ Len(fifo') <= depth'
    <3>1. fifo \in Seq(Byte) /\ Len(fifo) \in Nat /\ Len(fifo) <= depth /\ depth \in Nat
      BY DEF TypeOK, Byte
    <3>2. Append(fifo, written + 1) \in Seq(Byte) /\ Len(Append(fifo, written + 1)) = Len(fifo) + 1
      BY <2>1, <3>1
    <3>. QED
      BY <3>1, <3>2
  <2>3. TypeOK'
    BY <2>1, <2>2 DEF TypeOK, Byte
  <2>4. CallInv'
    BY <2>1 DEF CallInv, Writing, Reading, TypeOK
  <2>5. LateInv'
    BY DEF LateInv, TypeOK
  <2>6. HeldInv' /\ LostInv'
    BY DEF HeldInv, Holding, LostInv
  <2>. QED
    BY <2>3, <2>4, <2>5, <2>6
<1>7. ASSUME NEW n \in 0..MaxBytes, NEW given \in BOOLEAN, Read(n, given) PROVE IInv'
  <2>. USE <1>7 DEF Read, Back
  <2>1. TypeOK'
    BY DEF TypeOK
  <2>2. CallInv'
    BY DEF CallInv, Writing, Reading, TypeOK
  <2>3. LateInv' /\ HeldInv' /\ LostInv'
    BY DEF LateInv, HeldInv, Holding, LostInv
  <2>. QED
    BY <2>1, <2>2, <2>3
<1>8. CASE RxAsk
  BY <1>8 DEF RxAsk, TypeOK, CallInv, Writing, Reading, LateInv, ClearToSend, HeldInv, Holding, LostInv
<1>9. CASE RxReady
  <2>. USE <1>9 DEF RxReady, RXRDY
  <2>1. TypeOK'
    BY DEF TypeOK
  <2>2. CallInv'
    BY DEF CallInv, Writing, Reading
  <2>3. LateInv' /\ HeldInv' /\ LostInv'
    BY DEF LateInv, HeldInv, Holding, LostInv
  <2>. QED
    BY <2>1, <2>2, <2>3
<1>10. CASE RxGet
  <2>. USE <1>10 DEF RxGet, Back
  <2>1. rx - 1 \in 0..FifoDepth /\ left - 1 \in 0..MaxBytes /\ bytes \in Int
    BY DEF TypeOK, CallInv, Reading
  <2>4. pc' \in {"idle", "rxWait"} /\ ret' \in Int /\ held' \in BOOLEAN
    BY <2>1 DEF TypeOK
  <2>5. TypeOK'
    BY <2>1, <2>4 DEF TypeOK
  <2>2. CallInv'
    BY DEF CallInv, Writing, Reading, TypeOK
  <2>3. LateInv' /\ HeldInv' /\ LostInv'
    BY DEF LateInv, HeldInv, Holding, LostInv
  <2>. QED
    BY <2>2, <2>3, <2>5
<1>11. CASE Load
  <2>. USE <1>11 DEF Load
  <2>1. fifo \in Seq(Byte) /\ fifo # <<>> /\ Len(fifo) <= depth /\ depth \in Nat
    BY DEF TypeOK, Byte
  <2>2. Head(fifo) \in Byte /\ Tail(fifo) \in Seq(Byte) /\ Len(Tail(fifo)) = Len(fifo) - 1
    BY <2>1, HeadTailProperties
  <2>3. Len(fifo) \in Nat
    BY <2>1, LenProperties
  <2>4. TypeOK'
    BY <2>1, <2>2, <2>3 DEF TypeOK, Byte
  <2>5. CallInv' /\ LateInv' /\ HeldInv' /\ LostInv'
    BY DEF CallInv, Writing, Reading, LateInv, HeldInv, Holding, LostInv
  <2>. QED
    BY <2>4, <2>5
<1>12. CASE Transmit
  <2>. USE <1>12 DEF Transmit
  <2>1. wire' \in Seq(Byte)
    BY ConcatProperties DEF TypeOK, Byte
  <2>2. TypeOK'
    BY <2>1, EmptySeq DEF TypeOK, Byte
  <2>3. CallInv' /\ LateInv' /\ HeldInv' /\ LostInv'
    BY DEF CallInv, Writing, Reading, LateInv, HeldInv, Holding, LostInv
  <2>. QED
    BY <2>2, <2>3
<1>13. CASE PeerStarts
  <2>. USE <1>13 DEF PeerStarts
  <2>1. TypeOK'
    BY DEF TypeOK
  <2>2. CallInv' /\ LateInv' /\ HeldInv' /\ LostInv'
    BY DEF CallInv, Writing, Reading, LateInv, HeldInv, Holding, LostInv
  <2>. QED
    BY <2>1, <2>2
<1>16. CASE PeerByte
  <2>. USE <1>16 DEF PeerByte
  <2>4. rx' \in 0..FifoDepth /\ lost' \in Nat
    BY DEF TypeOK
  <2>1. TypeOK'
    BY <2>4 DEF TypeOK
  <2>2. CallInv' /\ LateInv' /\ HeldInv'
    BY DEF CallInv, Writing, Reading, LateInv, HeldInv, Holding, TypeOK
  <2>3. LostInv'
    BY DEF LostInv, HeldInv, Holding, TypeOK
  <2>. QED
    BY <2>1, <2>2, <2>3
<1>14. CASE LinesMove
  <2>. PICK d \in BOOLEAN, c \in BOOLEAN :
         /\ dsr' = d /\ cts' = c
         /\ late' = IF ClearToSend /\ ~Writable(d, c) THEN 0 ELSE late
    BY <1>14 DEF LinesMove
  <2>. USE <1>14 DEF LinesMove
  <2>1. TypeOK'
    BY DEF TypeOK
  <2>2. CallInv' /\ HeldInv' /\ LostInv'
    BY DEF CallInv, Writing, Reading, HeldInv, Holding, LostInv
  <2>3. ClearToSend' <=> Writable(d, c)
    BY DEF ClearToSend, Writable
  <2>4. LateInv'
    BY <2>3 DEF LateInv, TypeOK
  <2>. QED
    BY <2>1, <2>2, <2>4
<1>15. CASE UNCHANGED vars
  BY <1>15 DEF vars, TypeOK, CallInv, Writing, Reading, LateInv, ClearToSend, Writable, HeldInv, Holding, LostInv
<1>. QED
  BY <1>1, <1>2, <1>3, <1>4, <1>5, <1>6, <1>7, <1>8, <1>9, <1>10, <1>11, <1>12, <1>13, <1>14,
     <1>15, <1>16 DEF Next, WriteStep, ReadStep, Device

LEMMA Invariance == Spec => []IInv
  BY InitInv, NextInv, PTL DEF Spec

(* No register, counter or FIFO of the model leaves its range: the FIFO is
   never longer than its depth, and a byte is only read when there is one. *)
THEOREM TypeCorrect == Spec => []TypeOK
<1>1. IInv => TypeOK
  BY DEF IInv
<1>. QED
  BY <1>1, Invariance, PTL

(* SerialPortWaitWritable before each byte bounds what a burst still sends
   once the lines forbid it.                                              *)
THEOREM OneLate == Spec => []AtMostOneLate
<1>1. IInv => AtMostOneLate
  BY DEF IInv, LateInv, AtMostOneLate
<1>. QED
  BY <1>1, Invariance, PTL

(* SerialPortRead clears RTS before it takes a byte and leaves it clear. *)
THEOREM ReadHoldsPeer == Spec => []OneOverrun
<1>1. IInv => OneOverrun
  BY DEF IInv, LostInv, OneOverrun
<1>. QED
  BY <1>1, Invariance, PTL

----------------------------------------------------------------------------
(* Nothing is lost if a burst is never longer than the FIFO that Initialize
   sets up.  SerialPortWrite never reads the FIFO's level: what it knows is
   that the FIFO was empty at the flush, and how many bytes came since.   *)
FifoAsPromised == \A p \in Configs : p.fifo64 => ExtendedDepth <= FifoDepth

BurstInv ==
  /\ pc # "off" => NoPort \/ depth = FifoDepth
  /\ NoPort => ~Writing
  /\ pc \in {"wait", "out"} => index < TxFifoSize /\ Len(fifo) <= index

Stream == wire \o shift \o fifo
StreamInv == Stream = [i \in 1..written |-> i]

LInv == BurstInv /\ StreamInv

LEMMA InitStream == Init => LInv
<1>. SUFFICES ASSUME Init PROVE LInv
  OBVIOUS
<1>1. BurstInv
  BY DEF Init, BurstInv, Writing
<1>2. Stream = <<>>
  BY EmptySeq, ConcatEmptySeq DEF Init, Stream
<1>3. [i \in 1..0 |-> i] = <<>>
  OBVIOUS
<1>. QED
  BY <1>1, <1>2, <1>3 DEF LInv, StreamInv, Init

LEMMA BurstFits ==
  ASSUME FifoAsPromised, TypeOK
  PROVE  TxFifoSize \in Nat \ {0} /\ TxFifoSize <= FifoDepth
  BY ConfigsAssumption, DepthAssumption DEF FifoAsPromised, TypeOK, TxFifoSize

LEMMA NextStream ==
  ASSUME FifoAsPromised, IInv, LInv, [Next]_vars
  PROVE  LInv'
<1>. USE DEF driver, txDev, lines, peer
<1>1. /\ fifo \in Seq(Byte) /\ shift \in Seq(Byte) /\ wire \in Seq(Byte)
      /\ Len(fifo) \in Nat /\ written \in Nat /\ index \in Nat
  BY DepthAssumption DEF IInv, TypeOK, Byte
<1>2. pcd' = pcd /\ (TxFifoSize' = TxFifoSize) /\ (NoPort' <=> NoPort)
  BY DEF Next, vars, InitializeNoPort, Initialize, Write, Read, WriteStep, Flush, WaitWritable, Out,
     ReadStep, RxAsk, RxReady, RxGet, Device, Load, Transmit, PeerStarts, PeerByte, LinesMove,
     TxFifoSize, NoPort
<1>3. TxFifoSize \in Nat \ {0} /\ TxFifoSize <= FifoDepth /\ FifoDepth \in Nat
  BY BurstFits, DepthAssumption DEF IInv
<1>4. ASSUME UNCHANGED txDev PROVE StreamInv'
  BY <1>4 DEF LInv, StreamInv, Stream
<1>5. CASE InitializeNoPort \/ Initialize
  <2>1. BurstInv'
    BY <1>2, <1>5 DEF InitializeNoPort, Initialize, Back, BurstInv, Writing
  <2>. QED
    BY <1>4, <1>5, <2>1 DEF InitializeNoPort, Initialize, LInv
<1>6. ASSUME NEW n \in 0..MaxBytes, NEW given \in BOOLEAN, Write(n, given) \/ Read(n, given)
      PROVE  LInv'
  <2>1. BurstInv'
    BY <1>2, <1>6 DEF Write, Read, Back, BurstInv, LInv, Writing
  <2>. QED
    BY <1>4, <1>6, <2>1 DEF Write, Read, LInv
<1>7. CASE Flush
  <2>1. Len(fifo) = 0
    BY <1>7, EmptySeq DEF Flush, TXRDY
  <2>2. BurstInv'
    BY <1>2, <1>3, <1>7, <2>1 DEF Flush, Back, BurstInv, LInv, Writing
  <2>. QED
    BY <1>4, <1>7, <2>2 DEF Flush, LInv
<1>8. CASE WaitWritable
  <2>1. BurstInv'
    BY <1>2, <1>8 DEF WaitWritable, BurstInv, LInv, Writing
  <2>. QED
    BY <1>4, <1>8, <2>1 DEF WaitWritable, LInv
<1>9. CASE Out
  <2>1. /\ index < TxFifoSize /\ Len(fifo) <= index /\ depth = FifoDepth /\ ~NoPort
    BY <1>9 DEF Out, LInv, BurstInv, Writing
  <2>2. /\ fifo' = Append(fifo, written + 1) /\ written' = written + 1
        /\ index' = index + 1 /\ shift' = shift /\ wire' = wire /\ depth' = depth
    BY <1>1, <1>3, <1>9, <2>1 DEF Out
  <2>3. Len(fifo') = Len(fifo) + 1
    BY <1>1, <1>9, <2>2 DEF IInv, TypeOK, Byte
  <2>4. BurstInv'
    BY <1>1, <1>2, <1>3, <1>9, <2>1, <2>2, <2>3 DEF Out, Back, BurstInv, LInv, Writing
  <2>5. Stream' = Append(Stream, written + 1)
    <3>. DEFINE S == Nat
    <3>1. fifo \in Seq(S) /\ shift \in Seq(S) /\ wire \in Seq(S)
      BY <1>1, SeqMonotonic, DepthAssumption DEF Byte
    <3>2. (wire \o shift) \in Seq(S) /\ written + 1 \in S
      BY <1>1, <3>1, ConcatProperties
    <3>3. Append(fifo, written + 1) = fifo \o <<written + 1>>
      BY <3>1, <3>2, AppendIsConcat
    <3>4. Append(Stream, written + 1) = Stream \o <<written + 1>>
      BY <3>1, <3>2, AppendIsConcat, ConcatProperties DEF Stream
    <3>5. (wire \o shift) \o (fifo \o <<written + 1>>) = ((wire \o shift) \o fifo) \o <<written + 1>>
      BY <3>1, <3>2, ConcatAssociative
    <3>. QED
      BY <2>2, <3>3, <3>4, <3>5 DEF Stream
  <2>6. Append([i \in 1..written |-> i], written + 1) = [i \in 1..written + 1 |-> i]
    BY <1>1
  <2>7. StreamInv'
    BY <2>2, <2>5, <2>6 DEF LInv, StreamInv
  <2>. QED
    BY <2>4, <2>7 DEF LInv
<1>10. CASE ReadStep
  <2>1. BurstInv'
    BY <1>2, <1>10 DEF ReadStep, RxAsk, RxReady, RxGet, Back, BurstInv, LInv, Writing
  <2>. QED
    BY <1>4, <1>10, <2>1 DEF ReadStep, RxAsk, RxReady, RxGet, LInv
<1>11. CASE Load
  <2>1. /\ fifo # <<>> /\ shift = <<>> /\ shift' = <<Head(fifo)>> /\ fifo' = Tail(fifo)
        /\ wire' = wire /\ written' = written /\ pc' = pc /\ index' = index /\ depth' = depth
    BY <1>11 DEF Load
  <2>2. Head(fifo) \in Byte /\ Tail(fifo) \in Seq(Byte) /\ Len(Tail(fifo)) = Len(fifo) - 1
    BY <1>1, <2>1, HeadTailProperties
  <2>3. BurstInv'
    BY <1>1, <1>2, <2>1, <2>2 DEF BurstInv, LInv, Writing
  <2>4. <<Head(fifo)>> \o Tail(fifo) = fifo
    BY <1>1, <2>1
  <2>5. Stream' = Stream
    <3>1. Stream' = wire \o (<<Head(fifo)>> \o Tail(fifo))
      BY <1>1, <2>1, <2>2, ConcatAssociative DEF Stream
    <3>2. Stream = wire \o fifo
      BY <1>1, <2>1, ConcatEmptySeq DEF Stream
    <3>. QED
      BY <2>4, <3>1, <3>2
  <2>. QED
    BY <2>1, <2>3, <2>5 DEF LInv, StreamInv
<1>12. CASE Transmit
  <2>1. /\ wire' = wire \o shift /\ shift' = <<>> /\ fifo' = fifo /\ written' = written
        /\ pc' = pc /\ index' = index /\ depth' = depth
    BY <1>12 DEF Transmit
  <2>2. BurstInv'
    BY <1>2, <2>1 DEF BurstInv, LInv, Writing
  <2>3. Stream' = Stream
    BY <1>1, <2>1, ConcatProperties, ConcatEmptySeq DEF Stream
  <2>. QED
    BY <2>1, <2>2, <2>3 DEF LInv, StreamInv
<1>13. CASE PeerStarts \/ PeerByte \/ LinesMove \/ UNCHANGED vars
  <2>1. BurstInv'
    BY <1>2, <1>13 DEF PeerStarts, PeerByte, LinesMove, vars, BurstInv, LInv, Writing
  <2>. QED
    BY <1>4, <1>13, <2>1 DEF PeerStarts, PeerByte, LinesMove, vars, LInv
<1>. QED
  BY <1>5, <1>6, <1>7, <1>8, <1>9, <1>10, <1>11, <1>12, <1>13 DEF Next, WriteStep, Device

(* If the PCDs promise no more FIFO than there is, every byte that callers
   were told was written reaches the line, once and in order, or is still in
   the device.                                                            *)
THEOREM NoByteLost ==
  ASSUME FifoAsPromised
  PROVE  Spec => []NothingLost
<1>1. Init => LInv
  BY InitStream
<1>2. IInv /\ LInv /\ [Next]_vars => LInv'
  BY NextStream
<1>3. LInv => NothingLost
  BY DEF LInv, StreamInv, Stream, NothingLost
<1>. QED
  BY <1>1, <1>2, <1>3, Invariance, PTL DEF Spec
----------------------------------------------------------------------------
(* The divisor is the nearest one wherever the latch reaches it. *)
BaudInv == pc # "off" /\ ~NoPort /\ LatchReaches => divisor = Div(pcd.clock, pcd.baud)

(* How far d units are from c. *)
Off(c, u, d) == IF c - d * u < 0 THEN -(c - d * u) ELSE c - d * u

(* Rounding to the nearest multiple of a unit, for every number and unit. *)
LEMMA Rounding ==
  \A c, q, r, n \in Int, u, h \in Nat :
    c = q * u + r /\ 0 <= r /\ r < u /\ u = 2 * h /\ n = (IF r >= h THEN q + 1 ELSE q)
      => Off(c, u, n) <= Off(c, u, n - 1) /\ Off(c, u, n) <= Off(c, u, n + 1)
<1>. TAKE c, q, r, n \in Int, u, h \in Nat
<1>. HAVE c = q * u + r /\ 0 <= r /\ r < u /\ u = 2 * h /\ n = (IF r >= h THEN q + 1 ELSE q)
<1>1. /\ c - q * u = r
      /\ c - (q + 1) * u = r - u
      /\ c - (q - 1) * u = r + u
      /\ c - (q + 2) * u = r - 2 * u
  OBVIOUS
<1>2. /\ Off(c, u, q) = r /\ Off(c, u, q + 1) = u - r
      /\ Off(c, u, q - 1) = r + u /\ Off(c, u, q + 2) = 2 * u - r
  BY <1>1 DEF Off
<1>3. CASE r >= h
  <2>1. n = q + 1 /\ n - 1 = q /\ n + 1 = q + 2
    BY <1>3
  <2>. QED
    BY <1>2, <1>3, <2>1
<1>4. CASE r < h
  <2>1. n = q
    BY <1>4
  <2>. QED
    BY <1>2, <1>4, <2>1
<1>. QED
  BY <1>3, <1>4

LEMMA DivReached ==
  ASSUME pcd \in Configs, LatchReaches
  PROVE  Div(pcd.clock, pcd.baud) \in Nat /\ Div(pcd.clock, pcd.baud) <= 65535
<1>. DEFINE c == pcd.clock
            u == pcd.baud * 16
            q == c \div u
<1>1. c \in Nat /\ u \in Nat \ {0}
  BY ConfigsAssumption
<1>2. Div(pcd.clock, pcd.baud) = q \/ Div(pcd.clock, pcd.baud) = q + 1
  <2>1. q \in Int
    BY <1>1
  <2>. HIDE DEF q
  <2>2. Div(pcd.clock, pcd.baud) = q + (IF c % u >= pcd.baud * 8 THEN 1 ELSE 0)
    BY DEF Div, q
  <2>. QED
    BY <2>1, <2>2
<1>3. q < 65535
  <2>1. 2^16 - 1 = 65535
    OBVIOUS
  <2>. QED
    BY <2>1 DEF LatchReaches
<1>. HIDE DEF c, u
<1>4. q \in Nat
  BY <1>1
<1>. HIDE DEF q
<1>. QED
  BY <1>2, <1>3, <1>4

LEMMA BaudInvariant == Spec => []BaudInv
<1>1. Init => BaudInv
  BY DEF Init, BaudInv
<1>2. ASSUME IInv, BaudInv, [Next]_vars PROVE BaudInv'
  <2>1. CASE Initialize
    <3>. SUFFICES ASSUME LatchReaches' PROVE BaudInv'
      BY DEF BaudInv
    <3>1. pcd' = pcd /\ pcd \in Configs /\ LatchReaches
      BY <1>2, <2>1 DEF Initialize, IInv, TypeOK, LatchReaches
    <3>2. Div(pcd.clock, pcd.baud) \in Nat /\ Div(pcd.clock, pcd.baud) <= 65535
      BY <3>1, DivReached
    <3>3. Div(pcd.clock, pcd.baud) % 2^16 = Div(pcd.clock, pcd.baud)
      <4>. DEFINE d == Div(pcd.clock, pcd.baud)
      <4>1. 2^16 = 65536
        OBVIOUS
      <4>2. d \in Nat /\ d < 65536
        BY <3>2
      <4>. HIDE DEF d
      <4>3. d % 65536 = d
        BY <4>2
      <4>. QED
        BY <4>1, <4>3 DEF d
    <3>. QED
      BY <2>1, <3>1, <3>3 DEF Initialize, BaudInv
  <2>2. CASE InitializeNoPort
    BY <2>2 DEF InitializeNoPort, BaudInv, NoPort
  <2>3. CASE pc # "off" /\ UNCHANGED <<pcd, divisor>>
    BY <1>2, <2>3 DEF BaudInv, NoPort, LatchReaches
  <2>4. CASE UNCHANGED vars
    BY <1>2, <2>4 DEF vars, BaudInv, NoPort, LatchReaches
  <2>5. CASE LinesMove \/ Device
    BY <1>2, <2>5 DEF LinesMove, Device, Load, Transmit, BaudInv, NoPort, LatchReaches
  <2>6. CASE PeerByte
    BY <1>2, <2>6 DEF PeerByte, BaudInv, NoPort, LatchReaches
  <2>. QED
    BY <1>2, <2>1, <2>2, <2>3, <2>4, <2>5, <2>6
    DEF Next, Write, WriteStep, Flush, WaitWritable, Out, Read, ReadStep, RxAsk, RxReady, RxGet,
        PeerStarts
<1>. QED
  BY <1>1, <1>2, Invariance, PTL DEF Spec

(* No other divisor comes nearer to the configured baud rate, for every clock
   and baud rate for which the latch is long enough.                      *)
THEOREM NearestBaud == Spec => []BaudNearest
<1>1. ASSUME IInv, BaudInv PROVE BaudNearest
  <2>. SUFFICES ASSUME pc # "off", ~NoPort, LatchReaches
                PROVE  \A d \in divisor - 1..divisor + 1 : Distance(divisor) <= Distance(d)
    BY DEF BaudNearest
  <2>. DEFINE u == pcd.baud * 16
              h == pcd.baud * 8
              q == pcd.clock \div u
              r == pcd.clock % u
  <2>1. /\ pcd.clock \in Nat /\ pcd.baud \in Nat \ {0}
        /\ divisor = q + (IF r >= h THEN 1 ELSE 0)
    BY <1>1, ConfigsAssumption DEF IInv, TypeOK, BaudInv, Div
  <2>2. u \in Nat \ {0} /\ h \in Nat /\ u = 2 * h
    BY <2>1
  <2>3. q \in Int /\ r \in Int /\ pcd.clock = q * u + r /\ 0 <= r /\ r < u
    BY <2>1, <2>2
  <2>4. \A d \in Int : Distance(d) = Off(pcd.clock, u, d)
    <3>1. \A d \in Int : d * pcd.baud * 16 = d * u
      BY <2>1
    <3>. QED
      BY <3>1 DEF Distance, Off
  <2>. HIDE DEF u, h, q, r
  <2>5. divisor \in Int /\ divisor = (IF r >= h THEN q + 1 ELSE q) /\ pcd.clock \in Int
    BY <2>1, <2>2, <2>3
  <2>6. /\ Off(pcd.clock, u, divisor) <= Off(pcd.clock, u, divisor - 1)
        /\ Off(pcd.clock, u, divisor) <= Off(pcd.clock, u, divisor + 1)
    <3>. DEFINE c == pcd.clock
    <3>. HIDE DEF c
    <3>1. c \in Int /\ u \in Nat /\ c = q * u + r
      BY <2>2, <2>3, <2>5 DEF c
    <3>2. Off(c, u, divisor) <= Off(c, u, divisor - 1) /\ Off(c, u, divisor) <= Off(c, u, divisor + 1)
      BY <2>2, <2>3, <2>5, <3>1, Rounding
    <3>. QED
      BY <3>2 DEF c
  <2>7. /\ Distance(divisor) <= Distance(divisor - 1)
        /\ Distance(divisor) <= Distance(divisor + 1)
        /\ Distance(divisor) <= Distance(divisor)
    <3>1. Off(pcd.clock, u, divisor) \in Int
      BY <2>2, <2>5 DEF Off
    <3>. QED
      BY <2>4, <2>5, <2>6, <3>1
  <2>. QED
    BY <2>5, <2>7
<1>. QED
  BY <1>1, BaudInvariant, Invariance, PTL
=============================================================================
