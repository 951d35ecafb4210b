----------------------------- MODULE BootStages -----------------------------
(***************************************************************************)
(* What the boot chain promises: the stages a boot goes through, which     *)
(* code runs in each, and how it ends.  The flash says it all: it names    *)
(* the code of each stage, or none, and the code's pointers come out right *)
(* or do not.  One thing it does not say: the DXE IPL may refuse the DXE   *)
(* core's file whatever it holds.                                          *)
(***************************************************************************)
EXTENDS Naturals

CONSTANT NULL

VARIABLES
  plan,    \* what the flash says
  stage,   \* sec, pei, peim, ipl, dxe, or how the boot ended
  module   \* the code that was entered last

vars == <<plan, stage, module>>

Code == Nat \cup {NULL}
Plans ==
  [core  : Code,     \* the PEI core,
   calls : BOOLEAN,  \* and does its fixup put its services where they are?
   peim  : Code,     \* the first a priori PEIM,
   fixup : Code,     \* the fixup that its PPI is given,
   entry : BOOLEAN,  \* and is it the right one?
   dxe   : Code,     \* the DXE core's file,
   pe32  : Code]     \* and the image in it that can be loaded

Init ==
  /\ plan \in Plans
  /\ stage = "sec"
  /\ module = NULL

Move(from, to) == stage = from /\ stage' = to /\ UNCHANGED plan

Enter(from, to, code) ==
  /\ code # NULL
  /\ Move(from, to)
  /\ module' = code

Stop(from, to) == Move(from, to) /\ UNCHANGED module

EnterPei  == Enter("sec", "pei", plan.core)
Sleep     == plan.core = NULL /\ Stop("sec", "sleep")
EnterPeim == Enter("pei", "peim", plan.peim)
NoPeim    == plan.peim = NULL /\ Stop("pei", "over")

\* The PEIM calls a service to install its PPI, which the dispatcher runs.
Installs == plan.calls /\ plan.fixup # NULL
NotInstalled == plan.calls /\ plan.fixup = NULL /\ Stop("peim", "over")
RunIpl   == Installs /\ plan.entry /\ Stop("peim", "ipl")
GoAstray == (~plan.calls \/ (Installs /\ ~plan.entry)) /\ Stop("peim", "astray")

\* There is no DXE core, or it is refused.
RefuseDxe  == Stop("ipl", "over")
EnterDxe   == Enter("ipl", "dxe", plan.pe32)
Hang       == plan.dxe # NULL /\ plan.pe32 = NULL /\ Stop("ipl", "hung")
DxeReturns == Stop("dxe", "over")

Next ==
  \/ EnterPei \/ Sleep \/ EnterPeim \/ NoPeim
  \/ NotInstalled \/ RunIpl \/ GoAstray
  \/ RefuseDxe \/ EnterDxe \/ Hang \/ DxeReturns

Spec == Init /\ [][Next]_vars
=============================================================================
