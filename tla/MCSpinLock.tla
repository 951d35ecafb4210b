---------------------------- MODULE MCSpinLock ----------------------------
(***************************************************************************)
(* SpinLock with a counter that turns over several times within a wait.    *)
(***************************************************************************)
EXTENDS SpinLock
=============================================================================
