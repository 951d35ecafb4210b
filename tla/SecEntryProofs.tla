--------------------------- MODULE SecEntryProofs ---------------------------
(***************************************************************************)
(* That no line of a first-level cache outlives the reset, for every set   *)
(* of units and every content of the registers.                            *)
(***************************************************************************)
EXTENDS SecEntry, TLAPS

\* How far the set-up has come at each place.
PastIcache == pc \in {"DC", "IVDC", "SLC", "DSP", "SecMain", "sleep"}
PastDcache == pc \in {"SLC", "DSP", "SecMain", "sleep"}

IcacheInv ==
  /\ pc = "IVIC" => "IC" \in exists \cap off
  /\ PastIcache /\ "IC" \in exists => "IC" \in off \ stale

DcacheInv ==
  /\ pc = "IVDC" => "DC" \in (exists \cap off) \ keep
  /\ PastDcache => "DC" \notin keep
  /\ PastDcache /\ "DC" \in exists => "DC" \in off \ stale

\* Only the DC and the SLC have a mode.
ModeInv == keep \subseteq {"DC", "SLC"} \cap exists

IInv == TypeOK /\ IcacheInv /\ DcacheInv /\ ModeInv /\ CachesClean

LEMMA InitInv == Init => IInv
BY DEF Init, IInv, TypeOK, IcacheInv, DcacheInv, ModeInv, CachesClean,
       PastIcache, PastDcache, Caches

LEMMA NextInv == IInv /\ [Next]_vars => IInv'
<1>. SUFFICES ASSUME IInv, [Next]_vars PROVE IInv'
  OBVIOUS
<1>. USE DEF IInv, TypeOK, IcacheInv, DcacheInv, ModeInv, CachesClean,
             PastIcache, PastDcache, Caches, Found
<1>1. CASE Icache
  <2>1. CASE Control("IC", off \cup {"IC"}, keep, "IVIC")
    BY <2>1 DEF Control
  <2>2. CASE Invalidate("IVIC", "IC", "DC")
    BY <2>2 DEF Invalidate
  <2>3. CASE Skip("IC", "DC")
    BY <2>3 DEF Skip
  <2>. QED
    BY <1>1, <2>1, <2>2, <2>3 DEF Icache
<1>2. CASE Dcache
  <2>1. CASE Control("DC", off \cup {"DC"}, keep \ {"DC"}, "IVDC")
    BY <2>1 DEF Control
  <2>2. CASE Invalidate("IVDC", "DC", "SLC")
    BY <2>2 DEF Invalidate
  <2>3. CASE Skip("DC", "SLC")
    BY <2>3 DEF Skip
  <2>. QED
    BY <1>2, <2>1, <2>2, <2>3 DEF Dcache
<1>3. CASE Slc
  <2>1. CASE Control("SLC", off \ {"SLC"}, keep \ {"SLC"}, "DSP")
    BY <2>1 DEF Control
  <2>2. CASE Skip("SLC", "DSP")
    BY <2>2 DEF Skip
  <2>. QED
    BY <1>3, <2>1, <2>2 DEF Slc
<1>4. CASE Dsp
  BY <1>4 DEF Dsp, Skip
<1>5. CASE FreezeCpu
  BY <1>5 DEF FreezeCpu
<1>6. CASE Access
  BY <1>6 DEF Access
<1>7. CASE UNCHANGED vars
  BY <1>7 DEF vars
<1>. QED
  BY <1>1, <1>2, <1>3, <1>4, <1>5, <1>6, <1>7 DEF Next

LEMMA InvHolds == Spec => []IInv
BY InitInv, NextInv, PTL DEF Spec

(* The set-up stays on its way, and only caches that exist hold anything. *)
THEOREM TypeCorrect == Spec => []TypeOK
<1>1. IInv => TypeOK
  BY DEF IInv
<1>. QED
  BY <1>1, InvHolds, PTL

(* Whatever the registers and the lines held, nothing from before the reset
   reaches SecMain or memory, unless it comes from the SLC.               *)
THEOREM CleanStart == Spec => []CachesClean
<1>1. IInv => CachesClean
  BY DEF IInv
<1>. QED
  BY <1>1, InvHolds, PTL
=============================================================================
