-------------------------------- MODULE Uart --------------------------------
(***************************************************************************)
(* The 16550 driver, Ns16550.c, and the device it drives.                  *)
(*                                                                         *)
(* The driver polls registers; each access is a step.  The device shifts   *)
(* bytes out of its transmit FIFO on its own, the peer moves the modem     *)
(* lines and sends bytes on its own.  The bytes callers write are numbered *)
(* in the order of the calls; the bytes read are only counted.             *)
(***************************************************************************)
EXTENDS Integers, Sequences

CONSTANTS
  Configs,      \* values the PCDs may have: [base, fifoE, fifo64, flow, cable, clock, baud]
  FifoDepth,    \* depth of the FIFOs, 16
  ExtendedDepth, \* PcdSerialExtendedTxFifoSize
  MaxBytes,     \* bound: bytes of one call
  MaxTotal      \* bound: bytes of all writes

ASSUME ConfigsAssumption ==
  \A p \in Configs :
    /\ p.base \in Nat /\ p.fifoE \in BOOLEAN /\ p.fifo64 \in BOOLEAN
    /\ p.flow \in BOOLEAN /\ p.cable \in BOOLEAN
    /\ p.clock \in Nat /\ p.baud \in Nat \ {0}

ASSUME DepthAssumption ==
  /\ FifoDepth \in Nat \ {0} /\ ExtendedDepth \in Nat \ {0}
  /\ MaxBytes \in Nat /\ MaxTotal \in Nat

RETURN_SUCCESS == 0
RETURN_DEVICE_ERROR == -7

VARIABLES
  pcd,       \* the configuration, fixed
  pc,        \* where the driver is
  left,      \* Bytes: how many are left to write or read
  bytes,     \* Result of SerialPortWrite, the length of the call
  index,     \* Index
  ret,       \* what the last call returned
  depth,     \* depth the device's transmit FIFO works with
  divisor,   \* the divisor latch
  fifo,      \* transmit FIFO
  shift,     \* transmit shift register: at most one byte
  wire,      \* history: bytes sent
  written,   \* history: how many bytes have been put in TXBUF
  rx,        \* bytes in the receive FIFO
  sending,   \* the peer has a byte on the line
  lost,      \* history: bytes the full FIFO dropped since the peer is held
  rts,       \* the RTS bit of MCR
  held,      \* history: a read has completed
  dsr, cts,  \* the lines of MSR
  late       \* history: bytes put in TXBUF since the lines have forbidden it

driver == <<left, bytes, index>>
txDev  == <<fifo, shift, wire, written>>
lines  == <<dsr, cts>>
peer   == <<sending, lost>>
vars   == <<pcd, pc, driver, ret, depth, divisor, txDev, rx, peer, rts, held, lines, late>>

Init ==
  /\ pcd \in Configs
  /\ pc = "off"
  /\ left = 0 /\ bytes = 0 /\ index = 0
  /\ ret = RETURN_SUCCESS
  /\ depth = 1
  /\ divisor = 0
  /\ fifo = <<>> /\ shift = <<>> /\ wire = <<>> /\ written = 0
  /\ rx = 0 /\ sending = FALSE /\ lost = 0
  /\ rts = FALSE
  /\ held = FALSE
  /\ dsr \in BOOLEAN /\ cts \in BOOLEAN
  /\ late = 0

TXRDY == fifo = <<>>
TEMT  == fifo = <<>> /\ shift = <<>>
RXRDY == rx > 0

\* No base address is configured: nothing is done.
NoPort == pcd.base = 0

Back(value) ==
  /\ pc' = "idle"
  /\ ret' = value

----------------------------------------------------------------------------
(* SerialPortInitialize *)

\* Mutant: the remainder is not looked at.
DivDown(clock, baud) == clock \div (baud * 16)

\* Clock rate over 16 times the baud rate, rounded to the nearest.
Div(clock, baud) ==
  LET unit == baud * 16 IN
  clock \div unit + (IF clock % unit >= baud * 8 THEN 1 ELSE 0)

InitializeNoPort ==
  /\ pc = "off"
  /\ NoPort
  /\ Back(RETURN_DEVICE_ERROR)
  /\ UNCHANGED <<pcd, driver, depth, divisor, txDev, rx, rts, peer, held, lines, late>>

\* Once the transmitter is empty the registers are programmed: interrupts off,
\* DTR and RTS on, FIFO on with the receiver reset, the divisor and the line.
\* FCR is a constant: it has no bit from PcdSerialFifoControl.
Initialize ==
  /\ pc = "off"
  /\ ~NoPort
  /\ TEMT
  /\ rts' = TRUE
  /\ depth' = FifoDepth
  /\ rx' = 0
  /\ divisor' = Div(pcd.clock, pcd.baud) % 2^16
  /\ Back(pcd.base)
  /\ UNCHANGED <<pcd, driver, txDev, peer, held, lines, late>>

----------------------------------------------------------------------------
(* SerialPortWrite *)

\* Mutant: the test of FIFO64 the other way round.
TxFifoSizeSwapped ==
  IF pcd.fifoE THEN IF pcd.fifo64 THEN FifoDepth ELSE ExtendedDepth ELSE 1

TxFifoSize ==
  IF pcd.fifoE THEN IF pcd.fifo64 THEN ExtendedDepth ELSE FifoDepth ELSE 1

\* With no port or no buffer nothing is written; with no bytes the transmitter
\* is only flushed.
Write(n, given) ==
  /\ pc = "idle"
  /\ written + n <= MaxTotal
  /\ \/ /\ ~given \/ NoPort
        /\ Back(0)
        /\ UNCHANGED driver
     \/ /\ given /\ ~NoPort
        /\ pc' = "flush"
        /\ left' = n /\ bytes' = n /\ index' = 0
        /\ UNCHANGED ret
  /\ UNCHANGED <<pcd, depth, divisor, txDev, rx, rts, peer, held, lines, late>>

Flush ==
  /\ pc = "flush"
  /\ TEMT /\ TXRDY
  /\ \/ /\ left = 0
        /\ Back(0)
        /\ UNCHANGED index
     \/ /\ left # 0
        /\ pc' = "wait"
        /\ index' = 0
        /\ UNCHANGED ret
  /\ UNCHANGED <<pcd, left, bytes, depth, divisor, txDev, rx, rts, peer, held, lines, late>>

\* Whether SerialPortWaitWritable returns with these values of the lines.
Writable(d, c) ==
  \/ ~pcd.flow
  \/ pcd.cable /\ d /\ c
  \/ ~pcd.cable /\ (~d \/ c)

ClearToSend == Writable(dsr, cts)

\* Mutant: both lines are always required.
WaitWritableCable ==
  /\ pc = "wait"
  /\ pcd.flow => dsr /\ cts
  /\ pc' = "out"
  /\ UNCHANGED <<pcd, driver, ret, depth, divisor, txDev, rx, rts, peer, held, lines, late>>

WaitWritable ==
  /\ pc = "wait"
  /\ ClearToSend
  /\ pc' = "out"
  /\ UNCHANGED <<pcd, driver, ret, depth, divisor, txDev, rx, rts, peer, held, lines, late>>

\* Mutant: the lines are looked at once for each burst.
OutBurst ==
  /\ pc = "out"
  /\ written' = written + 1
  /\ fifo' = IF Len(fifo) < depth THEN Append(fifo, written + 1) ELSE fifo
  /\ late' = IF ClearToSend THEN late ELSE late + 1
  /\ left' = left - 1
  /\ index' = index + 1
  /\ \/ /\ left = 1
        /\ Back(bytes)
     \/ /\ left > 1
        /\ pc' = IF index + 1 < TxFifoSize THEN "out" ELSE "flush"
        /\ UNCHANGED ret
  /\ UNCHANGED <<pcd, bytes, depth, divisor, shift, wire, rx, rts, peer, held, lines>>

\* A byte goes to TXBUF.  A full FIFO drops it.
Out ==
  /\ pc = "out"
  /\ written' = written + 1
  /\ fifo' = IF Len(fifo) < depth THEN Append(fifo, written + 1) ELSE fifo
  /\ late' = IF ClearToSend THEN late ELSE late + 1
  /\ left' = left - 1
  /\ index' = index + 1
  /\ \/ /\ left = 1
        /\ Back(bytes)
     \/ /\ left > 1
        /\ pc' = IF index + 1 < TxFifoSize THEN "wait" ELSE "flush"
        /\ UNCHANGED ret
  /\ UNCHANGED <<pcd, bytes, depth, divisor, shift, wire, rx, rts, peer, held, lines>>

----------------------------------------------------------------------------
(* SerialPortRead *)

\* With no port, no buffer or no bytes nothing is read.
Read(n, given) ==
  /\ pc = "idle"
  /\ \/ /\ ~given \/ NoPort \/ n = 0
        /\ Back(0)
        /\ UNCHANGED driver
     \/ /\ given /\ ~NoPort /\ n # 0
        /\ pc' = "rxWait"
        /\ left' = n /\ bytes' = n
        /\ UNCHANGED <<index, ret>>
  /\ UNCHANGED <<pcd, depth, divisor, txDev, rx, rts, peer, held, lines, late>>

\* Mutant: polls without setting RTS.
RxAskSilent ==
  /\ pc = "rxWait"
  /\ ~RXRDY
  /\ UNCHANGED vars

\* Nothing there: the peer is let send.
RxAsk ==
  /\ pc = "rxWait"
  /\ ~RXRDY
  /\ pcd.flow
  /\ rts' = TRUE
  /\ UNCHANGED <<pcd, pc, driver, ret, depth, divisor, txDev, rx, peer, held, lines, late>>

\* Mutant: RXRDY is not waited for.
RxReadyUnchecked ==
  /\ pc = "rxWait"
  /\ rts' = IF pcd.flow THEN FALSE ELSE rts
  /\ pc' = "rxGet"
  /\ lost' = 0
  /\ UNCHANGED <<pcd, driver, ret, depth, divisor, txDev, rx, sending, held, lines, late>>

\* Mutant: RTS stays set.
RxReadyOpen ==
  /\ pc = "rxWait"
  /\ RXRDY
  /\ pc' = "rxGet"
  /\ lost' = 0
  /\ UNCHANGED <<pcd, driver, ret, depth, divisor, txDev, rx, rts, sending, held, lines, late>>

\* Something there: the peer is held before the byte is read.
RxReady ==
  /\ pc = "rxWait"
  /\ RXRDY
  /\ rts' = IF pcd.flow THEN FALSE ELSE rts
  /\ pc' = "rxGet"
  /\ lost' = 0
  /\ UNCHANGED <<pcd, driver, ret, depth, divisor, txDev, rx, sending, held, lines, late>>

RxGet ==
  /\ pc = "rxGet"
  /\ rx' = rx - 1
  /\ left' = left - 1
  /\ \/ /\ left = 1
        /\ Back(bytes)
        /\ held' = TRUE
     \/ /\ left > 1
        /\ pc' = "rxWait"
        /\ UNCHANGED <<ret, held>>
  /\ UNCHANGED <<pcd, bytes, index, depth, divisor, txDev, rts, peer, lines, late>>

----------------------------------------------------------------------------
(* The device and the peer *)

\* The shift register takes the next byte of the FIFO.
Load ==
  /\ fifo # <<>> /\ shift = <<>>
  /\ shift' = <<Head(fifo)>>
  /\ fifo' = Tail(fifo)
  /\ UNCHANGED <<pcd, pc, driver, ret, depth, divisor, wire, written, rx, rts, peer, held, lines, late>>

Transmit ==
  /\ shift # <<>>
  /\ wire' = wire \o shift
  /\ shift' = <<>>
  /\ UNCHANGED <<pcd, pc, driver, ret, depth, divisor, fifo, written, rx, rts, peer, held, lines, late>>

\* A peer that honours RTS looks at it before each byte.
PeerStarts ==
  /\ pc # "off"
  /\ pcd.flow => rts
  /\ ~sending
  /\ sending' = TRUE
  /\ UNCHANGED <<pcd, pc, driver, ret, depth, divisor, txDev, rx, rts, lost, held, lines, late>>

\* The peer has been told to wait: a byte is being read, or the last call was a
\* read or came after one.
Holding == pcd.flow /\ (pc = "rxGet" \/ (held /\ pc # "rxWait"))

\* The byte arrives.  A full FIFO drops it, and LSR's overrun bit is not read.
PeerByte ==
  /\ sending
  /\ sending' = FALSE
  /\ rx' = IF rx < FifoDepth THEN rx + 1 ELSE rx
  /\ lost' = IF rx = FifoDepth /\ Holding THEN lost + 1 ELSE lost
  /\ UNCHANGED <<pcd, pc, driver, ret, depth, divisor, txDev, rts, held, lines, late>>

LinesMove ==
  /\ pcd.flow
  /\ \E d, c \in BOOLEAN :
       /\ dsr' = d /\ cts' = c
       /\ late' = IF ClearToSend /\ ~Writable(d, c) THEN 0 ELSE late
  /\ UNCHANGED <<pcd, pc, driver, ret, depth, divisor, txDev, rx, rts, peer, held>>

----------------------------------------------------------------------------
WriteStep == Flush \/ WaitWritable \/ Out
ReadStep  == RxAsk \/ RxReady \/ RxGet
Device    == Load \/ Transmit

Next ==
  \/ InitializeNoPort \/ Initialize
  \/ \E n \in 0..MaxBytes, given \in BOOLEAN : Write(n, given) \/ Read(n, given)
  \/ WriteStep \/ ReadStep
  \/ Device \/ PeerStarts \/ PeerByte \/ LinesMove

Spec == Init /\ [][Next]_vars

(* The processor keeps polling and the device keeps shifting.  The peer sends
   when it may; the modem lines promise nothing.                          *)
Fairness ==
  /\ WF_vars(WriteStep) /\ WF_vars(ReadStep)
  /\ WF_vars(Load) /\ WF_vars(Transmit)
  /\ WF_vars(PeerStarts) /\ WF_vars(PeerByte)

FairSpec == Spec /\ Fairness

----------------------------------------------------------------------------
(* Properties *)

TypeOK ==
  /\ pcd \in Configs
  /\ pc \in {"off", "idle", "flush", "wait", "out", "rxWait", "rxGet"}
  /\ left \in 0..MaxBytes /\ bytes \in 0..MaxBytes /\ index \in Nat
  /\ ret \in Int
  /\ depth \in {1, FifoDepth}
  /\ divisor \in 0..2^16 - 1
  /\ fifo \in Seq(1..MaxTotal) /\ Len(fifo) <= depth
  /\ shift \in Seq(1..MaxTotal) /\ Len(shift) <= 1
  /\ wire \in Seq(1..MaxTotal)
  /\ written \in 0..MaxTotal
  /\ rx \in 0..FifoDepth /\ sending \in BOOLEAN /\ lost \in Nat
  /\ rts \in BOOLEAN /\ held \in BOOLEAN /\ dsr \in BOOLEAN /\ cts \in BOOLEAN
  /\ late \in Nat

(* "The number of written bytes": every byte that was put in TXBUF has been
   sent, or is on its way, in the order of the calls.  The FIFO is never
   written beyond its depth, across calls and however slow the device is. *)
NothingLost == wire \o shift \o fifo = [i \in 1..written |-> i]

(* "Wait": MSR is read before every byte, not once for a burst, so a line that
   falls while the FIFO is being filled lets at most one more byte in.    *)
AtMostOneLate == late <= 1

(* "Clear RTS to prevent peer from sending data": from the moment a byte is
   read until the next read waits, the peer can overrun the FIFO by no more
   than the byte it was sending when RTS fell, if flow control is configured. *)
OneOverrun == Holding => lost <= 1

(* No divisor gives a baud rate whose clock is nearer to the configured one, if
   what is wanted does not go beyond the 16 bits of DLM and DLL.          *)
LatchReaches == pcd.clock \div (pcd.baud * 16) < 2^16 - 1
Distance(d) ==
  LET x == pcd.clock - d * pcd.baud * 16 IN IF x < 0 THEN -x ELSE x
BaudNearest ==
  pc # "off" /\ ~NoPort /\ LatchReaches =>
    \A d \in divisor - 1..divisor + 1 : Distance(divisor) <= Distance(d)

(* A write comes to its end, if the peer is clear to send for long enough. *)
WriteEnds == <>[]ClearToSend => (pc \in {"flush", "wait", "out"} ~> pc = "idle")

(* A read comes to its end: the driver and a peer that waits for RTS never
   wait for each other.                                                   *)
ReadEnds == pc \in {"rxWait", "rxGet"} ~> pc = "idle"
=============================================================================
