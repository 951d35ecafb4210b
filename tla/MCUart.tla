------------------------------- MODULE MCUart -------------------------------
(***************************************************************************)
(* Uart with FIFOs of two bytes, for every setting of the PCDs that decide *)
(* about control, and the platform's clock and baud rate among others.     *)
(***************************************************************************)
EXTENDS Uart

Config(base, fifoE, fifo64, flow, cable, clock, baud) ==
  [base |-> base, fifoE |-> fifoE, fifo64 |-> fifo64, flow |-> flow, cable |-> cable,
   clock |-> clock, baud |-> baud]

Flows == {[flow |-> FALSE, cable |-> FALSE], [flow |-> TRUE, cable |-> FALSE],
          [flow |-> TRUE, cable |-> TRUE]}

Platform == Config(1, TRUE, FALSE, FALSE, FALSE, 33333333, 115200)

\* Every configuration but those that promise a FIFO of 64 bytes.  The cable is
\* not looked at without flow control.  Rates decide about the divisor only: one
\* needs both bytes of the latch, and one more than they hold.
Rate(f) == IF ~f.flow THEN 31 ELSE IF f.cable THEN 460800 ELSE 1200
MCConfigs ==
  {Config(1, TRUE, FALSE, f.flow, f.cable, 33333333, 115200) : f \in Flows}
  \cup {Config(1, FALSE, FALSE, f.flow, f.cable, 33333333, Rate(f)) : f \in Flows}
  \cup {[Platform EXCEPT !.base = 0]}

MCExtended == {[Platform EXCEPT !.fifo64 = TRUE]}
=============================================================================
