------------------------------- MODULE PeiPpi -------------------------------
(***************************************************************************)
(* The PPI database of the PEI core and the dispatcher that runs it:       *)
(* PeiInstallPpi, PeiLocatePpi and FixupPpi of PeiServices.c, InitPeims    *)
(* and DispatchPeims of PeiCoreMain.c.                                     *)
(*                                                                         *)
(* There is one processor, so the interleaving is the one of nested calls: *)
(* a PEIM's init function or a PPI's entry calls services while the core   *)
(* is in the middle of its own loop.  Every iteration of a loop is a step. *)
(*                                                                         *)
(* Modules execute in place and are not relocated, so the pointers that a  *)
(* descriptor is built with are link-time addresses; FixupPpi moves them.  *)
(* A pointer is modelled by how far it has been moved so far.  What a      *)
(* store through a pointer that is not where its interface is does to the  *)
(* memory it hits is not modelled: it is recorded in "stray".              *)
(***************************************************************************)
EXTENDS Integers, Sequences, FiniteSets

CONSTANTS
  Desc,        \* descriptors in the image: [name, ppi, pic, guid, ifc, base]
  Lists,       \* the arrays of descriptors PEIMs pass to PeiInstallPpi
  Guids,       \* the GUIDs PEIMs ask PeiLocatePpi for
  MaxInstance, \* largest Instance they ask for
  MaxCount,    \* slots of mPpiListPool (MAX_PEI_PPIS)
  MaxPasses,   \* bound: how often PEIMs pass each list
  BootFixup,   \* section address CalcPeimFixup finds in the boot volume
  NULL

(* d.ppi and d.pic are the two flags of a descriptor, d.guid and d.ifc what
   its pointers are meant to reach, and d.base the distance between the
   link-time and the execution address of the module that owns it.       *)
ASSUME DescAssumption ==
  /\ NULL \notin Desc
  /\ \A d \in Desc : d.ppi \in BOOLEAN /\ d.pic \in BOOLEAN /\ d.base \in Nat

(* A list has at least one descriptor: the one with TERMINATE_LIST.      *)
ASSUME ListsAssumption == Lists \subseteq Seq(Desc) /\ <<>> \notin Lists

ASSUME NumbersAssumption ==
  /\ MaxCount \in Nat \ {0}
  /\ MaxInstance \in Nat
  /\ MaxPasses \in [Lists -> Nat]
  /\ BootFixup \in Nat \ {0}

Ifc == {d.ifc : d \in Desc}

VARIABLES
  pool,          \* PpiList.PpiPtrs
  currentCount,  \* PpiList.CurrentCount
  descPpi,       \* how far each descriptor's Ppi pointer has been moved
  descGuid,      \* how far its Guid pointer has been moved
  ifcEntry,      \* how far the Entry pointer of each interface has been moved
  stray,         \* descriptors through which memory other than their interface was written
  call,          \* the service in progress: none, install, locate, located
  ins,           \* locals of PeiInstallPpi
  loc,           \* locals and result of PeiLocatePpi
  status,        \* status the last service returned
  passes,        \* how often each list has been passed
  calc,          \* status of CalcPeimFixup, a property of the image
  phase,         \* where the core is; astray: in code no descriptor meant
  idx,           \* Idx of DispatchPeims
  ran            \* history: the descriptors whose entry was called

database == <<pool, currentCount>>
pointers == <<descPpi, descGuid, ifcEntry, stray>>
core     == <<phase, idx, ran>>
vars     == <<database, pointers, call, ins, loc, status, passes, calc, core>>

IdleInstall == [list |-> <<>>, pos |-> 1, idx |-> 0, last |-> 0, fixup |-> 0]
IdleLocate  == [guid |-> NULL, instance |-> 0, idx |-> 0, seen |-> 0, found |-> NULL]

Init ==
  /\ pool = [i \in 0..MaxCount - 1 |-> NULL]
  /\ currentCount = 0
  /\ descPpi = [d \in Desc |-> 0]
  /\ descGuid = [d \in Desc |-> 0]
  /\ ifcEntry = [i \in Ifc |-> 0]
  /\ stray = {}
  /\ call = "none"
  /\ ins = IdleInstall
  /\ loc = IdleLocate
  /\ status = "EFI_SUCCESS"
  /\ passes = [l \in Lists |-> 0]
  /\ calc \in {"EFI_SUCCESS", "EFI_NOT_FOUND", "EFI_VOLUME_CORRUPTED"}
  /\ phase = "peimInit"
  /\ idx = 0
  /\ ran = <<>>

\* A PEIM is running: its init function, or the entry of one of its PPIs.
PeimRuns == phase \in {"peimInit", "entry"} /\ call = "none"

----------------------------------------------------------------------------
(* PeiInstallPpi *)

\* FixupPpi: move the descriptor's pointers by f, and the Entry found through
\* the moved Ppi pointer.  If that pointer is not where the interface is, the
\* addition lands in other memory.
FixupPpi(d, f) ==
  LET hit == descPpi[d] + f = d.base IN
  /\ descPpi' = [descPpi EXCEPT ![d] = @ + f]
  /\ descGuid' = [descGuid EXCEPT ![d] = @ + f]
  /\ ifcEntry' = [i \in Ifc |-> IF hit /\ i = d.ifc THEN ifcEntry[i] + f ELSE ifcEntry[i]]
  /\ stray' = IF hit \/ f = 0 THEN stray ELSE stray \cup {d}

\* Mutant: the count is not compared with the capacity before the first store.
InstallBeginUnchecked(l) ==
  /\ PeimRuns
  /\ passes[l] < MaxPasses[l]
  /\ passes' = [passes EXCEPT ![l] = @ + 1]
  /\ call' = "install"
  /\ ins' = [list |-> l, pos |-> 1, idx |-> currentCount,
             last |-> currentCount, fixup |-> 0]
  /\ UNCHANGED <<database, pointers, status, loc, calc, core>>

\* Arguments are checked, and a full pool is refused before the list is read.
InstallBegin(l) ==
  /\ PeimRuns
  /\ passes[l] < MaxPasses[l]
  /\ passes' = [passes EXCEPT ![l] = @ + 1]
  /\ \/ /\ currentCount >= MaxCount
        /\ status' = "EFI_NOT_FOUND"
        /\ UNCHANGED <<call, ins>>
     \/ /\ currentCount < MaxCount
        /\ call' = "install"
        /\ ins' = [list |-> l, pos |-> 1, idx |-> currentCount,
                   last |-> currentCount, fixup |-> 0]
        /\ UNCHANGED status
  /\ UNCHANGED <<database, pointers, loc, calc, core>>

Current == ins.list[ins.pos]
IsLast  == ins.pos = Len(ins.list)

\* Mutant: the PIC flag is not looked at.
LookupFixupAlways == ins.fixup = 0

\* The fixup is looked up once, at the first position-independent descriptor.
LookupFixup == ins.fixup = 0 /\ Current.pic
PeimFixup   == IF LookupFixup THEN BootFixup ELSE ins.fixup

InstallReturn(s) ==
  /\ call' = "none"
  /\ ins' = IdleInstall
  /\ status' = s

\* Mutant: the descriptors stored before the rejection stay.
InstallRejectRest(s) ==
  /\ InstallReturn(s)
  /\ UNCHANGED currentCount

\* Mutant: the list is taken back and the caller is not told.
InstallRejectSilently(s) ==
  /\ InstallReturn("EFI_SUCCESS")
  /\ currentCount' = ins.last

\* The err label: the whole list is taken back.
InstallReject(s) ==
  /\ InstallReturn(s)
  /\ currentCount' = ins.last

InstallNotPpi ==
  /\ call = "install"
  /\ ~Current.ppi
  /\ InstallReject("EFI_INVALID_PARAMETER")
  /\ UNCHANGED <<pool, pointers, loc, passes, calc, core>>

InstallNoFixup ==
  /\ call = "install"
  /\ Current.ppi
  /\ LookupFixup
  /\ calc # "EFI_SUCCESS"
  /\ InstallReject(calc)
  /\ UNCHANGED <<pool, pointers, loc, passes, calc, core>>

\* One descriptor goes into the pool; then the list ends, or the pool does,
\* or the loop goes on.
InstallStore ==
  /\ call = "install"
  /\ Current.ppi
  /\ LookupFixup => calc = "EFI_SUCCESS"
  /\ pool' = [pool EXCEPT ![ins.idx] = Current]
  /\ FixupPpi(Current, PeimFixup)
  /\ \/ /\ IsLast
        /\ currentCount' = currentCount + 1
        /\ InstallReturn("EFI_SUCCESS")
     \/ /\ ~IsLast
        /\ ins.idx + 1 >= MaxCount
        /\ InstallReject("EFI_NOT_FOUND")
     \/ /\ ~IsLast
        /\ ins.idx + 1 < MaxCount
        /\ currentCount' = currentCount + 1
        /\ ins' = [ins EXCEPT !.pos = @ + 1, !.idx = @ + 1, !.fixup = PeimFixup]
        /\ UNCHANGED <<call, status>>
  /\ UNCHANGED <<loc, passes, calc, core>>

----------------------------------------------------------------------------
(* PeiLocatePpi, and the services that only refuse *)

LocateBegin(g, n) ==
  /\ PeimRuns
  /\ call' = "locate"
  /\ loc' = [IdleLocate EXCEPT !.guid = g, !.instance = n]
  /\ UNCHANGED <<database, pointers, ins, status, passes, calc, core>>

\* An empty slot is passed over.  CompareGuids reads through the descriptor's
\* Guid pointer: one that is not where its GUID is may compare either way.
GuidCompares(d) ==
  IF d = NULL THEN {FALSE}
  ELSE IF descGuid[d] = d.base THEN {d.guid = loc.guid} ELSE BOOLEAN

LocateSkip ==
  /\ call = "locate"
  /\ loc.idx < currentCount
  /\ FALSE \in GuidCompares(pool[loc.idx])
  /\ loc' = [loc EXCEPT !.idx = @ + 1]
  /\ UNCHANGED <<database, pointers, call, ins, status, passes, calc, core>>

\* Mutant: an instance that is not the wanted one is not counted.
LocateMatchUncounted ==
  /\ call = "locate"
  /\ loc.idx < currentCount
  /\ TRUE \in GuidCompares(pool[loc.idx])
  /\ \/ /\ loc.seen # loc.instance
        /\ loc' = [loc EXCEPT !.idx = @ + 1]
        /\ UNCHANGED <<call, status>>
     \/ /\ loc.seen = loc.instance
        /\ loc' = [loc EXCEPT !.found = pool[loc.idx]]
        /\ call' = "located"
        /\ status' = "EFI_SUCCESS"
  /\ UNCHANGED <<database, pointers, ins, passes, calc, core>>

LocateMatch ==
  /\ call = "locate"
  /\ loc.idx < currentCount
  /\ TRUE \in GuidCompares(pool[loc.idx])
  /\ \/ /\ loc.seen # loc.instance
        /\ loc' = [loc EXCEPT !.seen = @ + 1, !.idx = @ + 1]
        /\ UNCHANGED <<call, status>>
     \/ /\ loc.seen = loc.instance
        /\ loc' = [loc EXCEPT !.found = pool[loc.idx]]
        /\ call' = "located"
        /\ status' = "EFI_SUCCESS"
  /\ UNCHANGED <<database, pointers, ins, passes, calc, core>>

LocateNone ==
  /\ call = "locate"
  /\ loc.idx >= currentCount
  /\ call' = "located"
  /\ status' = "EFI_NOT_FOUND"
  /\ UNCHANGED <<database, pointers, ins, loc, passes, calc, core>>

\* The caller takes the result.
LocateReturn ==
  /\ call = "located"
  /\ call' = "none"
  /\ loc' = IdleLocate
  /\ UNCHANGED <<database, pointers, ins, status, passes, calc, core>>

\* NULL arguments of either service, and every call of PeiNotifyPpi.
Refuse ==
  /\ PeimRuns
  /\ status' \in {"EFI_INVALID_PARAMETER", "EFI_UNSUPPORTED"}
  /\ UNCHANGED <<database, pointers, call, ins, loc, passes, calc, core>>

----------------------------------------------------------------------------
(* InitPeims, DispatchPeims and the dead loop that ends PeiCoreMain *)

InitPeimsReturn ==
  /\ phase = "peimInit"
  /\ call = "none"
  /\ phase' = "dispatch"
  /\ UNCHANGED <<database, pointers, call, ins, loc, status, passes, calc, idx, ran>>

\* The call Ppi->Entry(...) reaches the entry of d's interface.
Callable(d) == descPpi[d] = d.base /\ ifcEntry[d.ifc] = d.base

\* The bound is read again in every iteration, so PPIs that an entry installs
\* are run by the same loop.
DispatchEntry ==
  /\ phase = "dispatch"
  /\ idx < currentCount
  /\ Callable(pool[idx])
  /\ ran' = Append(ran, pool[idx])
  /\ phase' = "entry"
  /\ UNCHANGED <<database, pointers, call, ins, loc, status, passes, calc, idx>>

\* The pointers are followed without a look at where they lead: the processor
\* leaves for code that no descriptor meant, and what it does there is unknown.
DispatchAstray ==
  /\ phase = "dispatch"
  /\ idx < currentCount
  /\ ~Callable(pool[idx])
  /\ phase' = "astray"
  /\ UNCHANGED <<database, pointers, call, ins, loc, status, passes, calc, idx, ran>>

EntryReturn ==
  /\ phase = "entry"
  /\ call = "none"
  /\ idx' = idx + 1
  /\ phase' = "dispatch"
  /\ UNCHANGED <<database, pointers, call, ins, loc, status, passes, calc, ran>>

\* DxeIplMain may stop the processor inside its entry (CpuDeadLoop).
EntryHangs ==
  /\ phase = "entry"
  /\ call = "none"
  /\ phase' = "hung"
  /\ UNCHANGED <<database, pointers, call, ins, loc, status, passes, calc, idx, ran>>

\* Mutant: the loop stops one short of the count.
DispatchEndShort ==
  /\ phase = "dispatch"
  /\ idx + 1 >= currentCount
  /\ phase' = "deadLoop"
  /\ UNCHANGED <<database, pointers, call, ins, loc, status, passes, calc, idx, ran>>

DispatchEnd ==
  /\ phase = "dispatch"
  /\ idx >= currentCount
  /\ phase' = "deadLoop"
  /\ UNCHANGED <<database, pointers, call, ins, loc, status, passes, calc, idx, ran>>

----------------------------------------------------------------------------
InstallStep == InstallNotPpi \/ InstallNoFixup \/ InstallStore
LocateStep  == LocateSkip \/ LocateMatch \/ LocateNone \/ LocateReturn
PeimReturn  == InitPeimsReturn \/ EntryReturn \/ EntryHangs
Dispatch    == DispatchEntry \/ DispatchAstray \/ DispatchEnd

Next ==
  \/ \E l \in Lists : InstallBegin(l)
  \/ InstallStep
  \/ \E g \in Guids, n \in 0..MaxInstance : LocateBegin(g, n)
  \/ LocateStep
  \/ Refuse
  \/ PeimReturn
  \/ Dispatch

Spec == Init /\ [][Next]_vars

(* The processor keeps executing: the loops of the core and of the services
   advance, and a PEIM, which makes finitely many calls, gets to its end.
   Strong fairness for the latter, because it is disabled during each call. *)
Fairness ==
  /\ WF_vars(InstallStep)
  /\ WF_vars(LocateStep)
  /\ WF_vars(Dispatch)
  /\ SF_vars(PeimReturn)

FairSpec == Spec /\ Fairness

----------------------------------------------------------------------------
(* Properties *)

DatabaseType ==
  /\ pool \in [0..MaxCount - 1 -> Desc \cup {NULL}]
  /\ currentCount \in 0..MaxCount

PointerType ==
  /\ descPpi \in [Desc -> Nat]
  /\ descGuid \in [Desc -> Nat]
  /\ ifcEntry \in [Ifc -> Nat]
  /\ stray \subseteq Desc

CallType ==
  /\ call \in {"none", "install", "locate", "located"}
  /\ status \in {"EFI_SUCCESS", "EFI_INVALID_PARAMETER", "EFI_UNSUPPORTED",
                 "EFI_NOT_FOUND", "EFI_VOLUME_CORRUPTED"}
  /\ passes \in [Lists -> Nat] /\ \A l \in Lists : passes[l] <= MaxPasses[l]
  /\ calc \in {"EFI_SUCCESS", "EFI_NOT_FOUND", "EFI_VOLUME_CORRUPTED"}

InstallType ==
  ins \in [list : Lists \cup {<<>>}, pos : Nat \ {0}, idx : 0..MaxCount - 1,
          last : 0..MaxCount, fixup : {0, BootFixup}]

LocateType ==
  loc \in [guid : Guids \cup {NULL}, instance : 0..MaxInstance, idx : 0..MaxCount,
          seen : 0..MaxInstance, found : Desc \cup {NULL}]

CoreType ==
  /\ phase \in {"peimInit", "dispatch", "entry", "hung", "astray", "deadLoop"}
  /\ idx \in 0..MaxCount
  /\ ran \in Seq(Desc)

TypeOK == DatabaseType /\ PointerType /\ CallType /\ InstallType /\ LocateType /\ CoreType

\* Slots that hold whole lists: a list that is being installed does not count yet.
Committed == IF call = "install" THEN ins.last ELSE currentCount

\* The installed descriptors, in order.
Db == [i \in 1..Committed |-> pool[i - 1]]

Registry == INSTANCE PpiRegistry WITH db <- Db

(* The database behaves as a log of whole lists: PeiInstallPpi appends every
   descriptor of its list or none, a rejected list ("Reject entire provided
   list") leaves the log as it was even when it was rejected after some
   descriptors had been stored, and DispatchPeims runs the log in order,
   each descriptor once, also when its entries install more.             *)
ImplementsRegistry == Registry!Spec

(* What the caller of PeiInstallPpi is told is what happened: EFI_SUCCESS if
   and only if the whole list is in the database.                         *)
StatusTruthful ==
  [][call = "install" /\ call' = "none"
       => IF status' = "EFI_SUCCESS" THEN Db' = Db \o ins.list ELSE Db' = Db]_vars

\* The fixup that reaches FixupPpi with l's k-th descriptor: none before the
\* first position-independent one, and BootFixup from there to the end of l.
FixupAt(l, k) == IF \E j \in 1..k : l[j].pic THEN BootFixup ELSE 0
Suits(l, k)   == l[k].base = FixupAt(l, k)

\* Of all lists passed so far only l, and l only once, leads to the interface
\* of its k-th descriptor.
Sole(l, k) ==
  /\ passes[l] <= 1
  /\ \A m \in Lists : \A j \in 1..Len(m) :
       m[j].ifc = l[k].ifc /\ passes[m] > 0 => m = l /\ j = k

Right(d) == Callable(d) /\ descGuid[d] = d.base

\* Wherever d occurs it is moved, and it lies no further than BootFixup.
AlwaysMoved(d) ==
  /\ d.base <= BootFixup
  /\ \A l \in Lists : \A k \in 1..Len(l) : l[k] = d => FixupAt(l, k) # 0

(* What the dispatcher and PeiLocatePpi may follow, and what they may not.
   A descriptor that one passing of one list put into the database has its
   three pointers where its module executes if and only if the fixup carried
   along the list suits that module: the first PEIM of the boot volume, or
   one that needs no fixup and is not behind one that does.  One that is in
   the database twice is wrong in every case.  And FixupPpi writes to other
   memory only for a module that its fixup does not suit or a descriptor or
   interface that is passed again.                                        *)
Relocated ==
  /\ \A l \in Lists : \A k \in 1..Len(l), i \in 1..Committed :
       Db[i] = l[k] /\ Sole(l, k) => (Right(l[k]) <=> Suits(l, k))
  /\ \A i, j \in 1..Committed : i # j /\ Db[i] = Db[j] /\ AlwaysMoved(Db[i]) => ~Right(Db[i])
  /\ \A d \in stray : \E l \in Lists : \E k \in 1..Len(l) :
       l[k] = d /\ passes[l] > 0 /\ ~(Suits(l, k) /\ Sole(l, k))

(* PeiLocatePpi answers with the Instance-th installed PPI of that GUID,
   counting from 0, and with EFI_NOT_FOUND exactly when there are not that
   many, provided that the Guid pointers of the installed descriptors are
   where their GUIDs are.  Nothing is installed while it searches.        *)
LocateExact ==
  call = "located" /\ (\A i \in 0..currentCount - 1 : descGuid[pool[i]] = pool[i].base) =>
    LET same(i) == {j \in 0..i - 1 : pool[j].guid = loc.guid} IN
    IF status = "EFI_SUCCESS"
      THEN \E i \in 0..currentCount - 1 :
             /\ loc.found = pool[i]
             /\ pool[i].guid = loc.guid
             /\ Cardinality(same(i)) = loc.instance
      ELSE /\ loc.found = NULL
           /\ Cardinality(same(currentCount)) <= loc.instance

(* The core comes to its dead loop with every installed PPI run, unless an
   entry stopped the processor or a pointer led astray.                   *)
DispatchComplete == <>(phase \in {"hung", "astray"} \/ (phase = "deadLoop" /\ ran = Db))

(* The dead loop is entered with nothing left to run, whatever the entries
   installed while the dispatcher was on its way through the list.        *)
DeadLoopComplete == phase = "deadLoop" => ran = Db

(* "Reject entire provided list": a descriptor that is not in the database,
   nor in a list being installed, is as it was built.  FixupPpi has moved the
   pointers of those that were stored before the rejection.               *)
RejectedUntouched ==
  call # "install" =>
    \A d \in Desc : (\A i \in 1..Committed : Db[i] # d) =>
      descPpi[d] = 0 /\ descGuid[d] = 0
=============================================================================
