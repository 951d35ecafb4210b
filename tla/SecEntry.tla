------------------------------ MODULE SecEntry ------------------------------
(***************************************************************************)
(* The first instructions after reset, SecEntry.S: each cache and the DSP  *)
(* are set up through auxiliary registers if their build register says     *)
(* that they exist, then SecMain is called, and the processor is put to    *)
(* sleep should it return.  Each instruction that writes a register is a   *)
(* step.                                                                   *)
(*                                                                         *)
(* Bit 0 of a control register turns the cache off.  Bit 6 is the mode of  *)
(* invalidation: lines are written back first if it is set, discarded if   *)
(* not.  The registers and the lines hold anything after a reset, and a    *)
(* cache that is on answers and evicts with what it holds.                 *)
(***************************************************************************)
EXTENDS Naturals, FiniteSets

Caches == {"IC", "DC", "SLC"}

VARIABLES
  pc,       \* the unit that is set up next, and how far
  exists,   \* units whose build register is not 0
  off,      \* caches whose control register has bit 0 set
  keep,     \* caches whose control register has bit 6 set
  stale,    \* caches that hold lines from before the reset
  dspCtrl,  \* is DSP_CTRL 0?
  reached   \* history: caches of which a stale line reached SecMain or memory

vars == <<pc, exists, off, keep, stale, dspCtrl, reached>>

Init ==
  /\ pc = "IC"
  /\ exists \in SUBSET (Caches \cup {"DSP"})
  /\ off \in SUBSET (Caches \cap exists)
  /\ keep \in SUBSET ({"DC", "SLC"} \cap exists)
  /\ stale \in SUBSET (Caches \cap exists)
  /\ dspCtrl \in BOOLEAN
  /\ reached = {}

\* Mutant: a build register is not tested.
FoundAlways(unit) == TRUE

\* "breq r5, 0, 1f" on the build register.
Found(unit) == unit \in exists

Skip(unit, next) ==
  /\ pc = unit
  /\ ~Found(unit)
  /\ pc' = next
  /\ UNCHANGED <<exists, off, keep, stale, dspCtrl, reached>>

\* The control register of a cache is read, changed and written.
Control(unit, newOff, newKeep, next) ==
  /\ pc = unit /\ Found(unit)
  /\ off' = newOff
  /\ keep' = newKeep
  /\ pc' = next
  /\ UNCHANGED <<exists, stale, dspCtrl, reached>>

\* 1 is written to the invalidation register of a cache: its lines are gone,
\* back to memory if bit 6 says so.
Invalidate(l, unit, next) ==
  /\ pc = l
  /\ stale' = stale \ {unit}
  /\ reached' = reached \cup ({unit} \cap stale \cap keep)
  /\ pc' = next
  /\ UNCHANGED <<exists, off, keep, dspCtrl>>

Icache ==
  \/ Control("IC", off \cup {"IC"}, keep, "IVIC")
  \/ Invalidate("IVIC", "IC", "DC")
  \/ Skip("IC", "DC")

\* Mutant: bit 6 is left as it is.
DcacheKeep ==
  \/ Control("DC", off \cup {"DC"}, keep, "IVDC")
  \/ Invalidate("IVDC", "DC", "SLC")
  \/ Skip("DC", "SLC")

Dcache ==
  \/ Control("DC", off \cup {"DC"}, keep \ {"DC"}, "IVDC")
  \/ Invalidate("IVDC", "DC", "SLC")
  \/ Skip("DC", "SLC")

Slc ==
  \/ Control("SLC", off \ {"SLC"}, keep \ {"SLC"}, "DSP")
  \/ Skip("SLC", "DSP")

Dsp ==
  \/ /\ pc = "DSP" /\ Found("DSP")
     /\ dspCtrl' = TRUE
     /\ pc' = "SecMain"
     /\ UNCHANGED <<exists, off, keep, stale, reached>>
  \/ Skip("DSP", "SecMain")

\* SecMain fetches, loads and stores.  A cache that is on may answer with any
\* line it holds, or write it to memory to make room.  The fetches of the code
\* above are left out: they come before it could do anything about the caches.
Access ==
  /\ pc = "SecMain"
  /\ \E unit \in stale \ off : reached' = reached \cup {unit}
  /\ UNCHANGED <<pc, exists, off, keep, stale, dspCtrl>>

\* SecMain returns when the boot failed.
FreezeCpu ==
  /\ pc = "SecMain"
  /\ pc' = "sleep"
  /\ UNCHANGED <<exists, off, keep, stale, dspCtrl, reached>>

Next == Icache \/ Dcache \/ Slc \/ Dsp \/ Access \/ FreezeCpu

Spec == Init /\ [][Next]_vars

----------------------------------------------------------------------------
(* Properties *)

TypeOK ==
  /\ pc \in {"IC", "IVIC", "DC", "IVDC", "SLC", "DSP", "SecMain", "sleep"}
  /\ exists \subseteq Caches \cup {"DSP"}
  /\ off \subseteq Caches \cap exists
  /\ keep \subseteq Caches \cap exists
  /\ stale \subseteq Caches \cap exists
  /\ reached \subseteq Caches \cap exists
  /\ dspCtrl \in BOOLEAN

(* What the first-level caches held before the reset is gone, whatever the
   registers held: no invalidation writes it over memory ("discard w/o
   wback"), and no access of SecMain is answered with it or pushes it out.
   The one cache it may still come from is the SLC, which is turned on and
   never invalidated (SlcDisabled).                                        *)
CachesClean == reached \subseteq {"SLC"}

InSecMain == pc \in {"SecMain", "sleep"}

(* "Disable System-Level Cache (SLC)".                                     *)
SlcDisabled == InSecMain /\ "SLC" \in exists => "SLC" \in off
=============================================================================
