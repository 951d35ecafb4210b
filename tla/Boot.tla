-------------------------------- MODULE Boot --------------------------------
(***************************************************************************)
(* The boot chain: SecMain of SecMain.c finds the PEI core in the boot     *)
(* volume and enters it; PeiCoreMain of PeiCoreMain.c moves its services,  *)
(* finds the first a priori PEIM and runs its init function, which         *)
(* installs the DXE IPL PPI; the dispatcher runs that, and DxeIplMain of   *)
(* DxeIpl.c finds and loads the DXE core in the DXE volume.                *)
(*                                                                         *)
(* The walks are the ones of FfsWalk, over the two volumes in turn, and    *)
(* the PPI database is PpiRegistry, which PeiPpi implements.               *)
(*                                                                         *)
(* Modules execute in place, so a pointer in their data is right if it has *)
(* been moved by the distance between the module's link-time and execution *)
(* address.  A call through a pointer that was moved by another amount     *)
(* goes astray.                                                            *)
(*                                                                         *)
(* BootStages says what all this comes to.                                 *)
(***************************************************************************)
EXTENDS Integers, Sequences

CONSTANTS
  Images,             \* contents of the flash
  FileAt(_, _),       \* as in FfsWalk
  SectionAt(_, _),
  BootHeader(_),      \* [signature, ffs2]: are they right in the boot volume's header?
  AprioriName(_),     \* the first name in the a priori file
  PeHeader(_),        \* [dos, nt, magic]: are they right in the DXE core's image?
  Displacement(_, _), \* execution address less link-time address of the module in a file
  BootFvBase, BootHeaderLength, BootFvLength,
  DxeFvBase, DxeHeaderLength, DxeFvLength,
  TemporaryRamBase, TemporaryRamSize,
  SizeBound,          \* 2^32, as in FfsWalk; also the bound of a UINTN
  MaxCount,           \* MAX_PEI_PPIS
  NULL

ASSUME PoolAssumption == MaxCount \in Nat \ {0}

ASSUME RamAssumption == TemporaryRamBase \in Nat /\ TemporaryRamSize \in Nat

ASSUME VolumeAssumption ==
  /\ BootFvBase \in Nat /\ BootHeaderLength \in Nat /\ BootFvLength \in Nat
  /\ DxeHeaderLength \in Nat /\ DxeFvLength \in Nat

(* As in FfsWalk: the fields of headers that lie in one of the volumes. *)
Flash == 0..(BootFvBase + BootFvLength - 1) \cup 0..(DxeFvBase + DxeFvLength - 1)
ASSUME SizeAssumption ==
  /\ SizeBound \in Nat
  /\ \A img \in Images, a \in Flash :
       /\ a % 8 = 0 => FileAt(img, a).size \in 0..SizeBound - 1
       /\ SectionAt(img, a).size \in Nat

ASSUME NullAssumption ==
  NULL \notin Nat \cup {"apriori", "TE", "RAW", "SUBTYPE_GUID", "PE32", "mPeiCoreCtx"}

(* The name is read in the file, so there always is one. *)
ASSUME NameAssumption == \A img \in Images : AprioriName(img) # NULL

(* A volume handle of 0 is refused by FfsFindNextFile. *)
ASSUME DxeVolumeAssumption == DxeFvBase \in Nat \ {0}

VARIABLES
  image, op, req, file, addr, eof, status, result, handles, \* the walk in progress
  pc,        \* where the processor is
  core,      \* file of the PEI core that was entered
  secData,   \* SecData: the ranges of memory that the PEI core is handed
  services,  \* how far each pointer of the service table has been moved
  peim,      \* file of the PEIM whose init function ran
  name,      \* FileName of InitPeims
  ppiMoved,  \* how far the pointers of the DXE IPL PPI have been moved
  db, ran,   \* the PPI database, and what has been run of it
  dxe,       \* File of DxeIplMain
  loaded     \* PE32 section of the DXE core

walk  == <<image, op, req, file, addr, eof, status, result, handles>>
pei   == <<core, secData, services, peim, name, ppiMoved>>
ppis  == <<db, ran>>
dxes  == <<dxe, loaded>>
vars  == <<walk, pc, pei, ppis, dxes>>

\* The calls are those of the chain, with no handle but one just found.
Bv == INSTANCE FfsWalk WITH
        FvBase <- BootFvBase, HeaderLength <- BootHeaderLength, FvLength <- BootFvLength,
        Searches <- {}, FileTypes <- {}, SectionTypes <- {}, Stale <- {}
Dv == INSTANCE FfsWalk WITH
        FvBase <- DxeFvBase, HeaderLength <- DxeHeaderLength, FvLength <- DxeFvLength,
        Searches <- {}, FileTypes <- {}, SectionTypes <- {}, Stale <- {}

\* The one list of the one PEIM: a terminated, position-independent PPI.
DxeIplPpi == [guid |-> "DxeIpl", ppi |-> TRUE, pic |-> TRUE]
mDxeIplPpiList == <<DxeIplPpi>>

Registry == INSTANCE PpiRegistry WITH Lists <- {mDxeIplPpiList}

Services == {"InstallPpi", "LocatePpi", "NotifyPpi", "FfsFindNextVolume",
             "FfsFindNextFile", "FfsFindSectionData", "FfsGetFileInfo"}

Init ==
  /\ Bv!Init
  /\ pc = "sec"
  /\ core = NULL
  /\ secData = NULL
  /\ services = [s \in Services |-> 0]
  /\ peim = NULL
  /\ name = NULL
  /\ ppiMoved = 0
  /\ Registry!Init
  /\ dxe = NULL
  /\ loaded = NULL

Goto(l) == pc' = l

\* The walk that the processor waits for at l has come to its end.
Answered(l) == pc = l /\ op = "done" /\ Bv!Return

----------------------------------------------------------------------------
(* SEC *)

ValidBootFv == BootHeader(image).signature /\ BootHeader(image).ffs2

SecSearch ==
  /\ pc = "sec"
  /\ ValidBootFv
  /\ Bv!GetFileSection(Bv!TeEntryPoint("PEI_CORE", NULL))
  /\ Goto("secSearch")
  /\ UNCHANGED <<pei, ppis, dxes>>

\* SecMain returns, and SecEntry.S puts the processor to sleep.
SecFails ==
  /\ \/ pc = "sec" /\ ~ValidBootFv /\ UNCHANGED walk
     \/ Answered("secSearch") /\ result = NULL
  /\ Goto("sleep")
  /\ UNCHANGED <<pei, ppis, dxes>>

Range(base, size) == [base |-> base, size |-> size]

\* Mutant: the stack is not moved behind the heap.
HandOffOverlapping ==
  LET half == TemporaryRamSize \div 2 IN
  [boot  |-> Range(BootFvBase, BootFvLength % SizeBound),
   heap  |-> Range(TemporaryRamBase, half),
   stack |-> Range(TemporaryRamBase, half)]

\* The volume, its length cut to a UINTN, and the halves of the temporary RAM,
\* a byte less if its size is odd.
HandOff ==
  LET half == TemporaryRamSize \div 2 IN
  [boot  |-> Range(BootFvBase, BootFvLength % SizeBound),
   heap  |-> Range(TemporaryRamBase, half),
   stack |-> Range(TemporaryRamBase + half, half)]

EnterPei ==
  /\ Answered("secSearch")
  /\ result # NULL
  /\ core' = file
  /\ secData' = HandOff
  /\ Goto("pei")
  /\ UNCHANGED <<services, peim, name, ppiMoved, ppis, dxes>>

----------------------------------------------------------------------------
(* PEI *)

CalcPeiFixup ==
  /\ pc = "pei"
  /\ Bv!GetFileSection(Bv!PeiFixup)
  /\ Goto("peiFixup")
  /\ UNCHANGED <<pei, ppis, dxes>>

\* Mutants: the distance is subtracted; one line of the seven is missing.
MoveServicesBack(d) == [s \in Services |-> services[s] - d]
MoveServicesLess(d) ==
  [s \in Services |-> IF s = "FfsFindSectionData" THEN 0 ELSE services[s] + d]

MoveServices(d) == [s \in Services |-> services[s] + d]

\* The result is not checked: NULL is a fixup of 0.
FixupServices ==
  /\ Answered("peiFixup")
  /\ services' = MoveServices(IF result = NULL THEN 0 ELSE result)
  /\ Goto("initPeims")
  /\ UNCHANGED <<core, secData, peim, name, ppiMoved, ppis, dxes>>

AprioriSearch ==
  /\ pc = "initPeims"
  /\ Bv!GetFileSection(Bv!AprioriFile)
  /\ Goto("apriori")
  /\ UNCHANGED <<pei, ppis, dxes>>

\* Mutant: that there is no a priori file is not noticed.
AprioriFoundUnchecked ==
  /\ Answered("apriori")
  /\ name' = AprioriName(image)
  /\ Goto("peim")
  /\ UNCHANGED <<core, secData, services, peim, ppiMoved, ppis, dxes>>

AprioriFound ==
  /\ Answered("apriori")
  /\ result # NULL
  /\ name' = AprioriName(image)
  /\ Goto("peim")
  /\ UNCHANGED <<core, secData, services, peim, ppiMoved, ppis, dxes>>

PeimTe == Bv!TeEntryPoint("PEIM", name)

PeimSearch ==
  /\ pc = "peim"
  /\ Bv!GetFileSection(PeimTe)
  /\ Goto("peimSearch")
  /\ UNCHANGED <<pei, ppis, dxes>>

\* InitPeims returns without having run anything.
NoPeim ==
  /\ Answered("apriori") \/ Answered("peimSearch")
  /\ result = NULL
  /\ Goto("dispatch")
  /\ UNCHANGED <<pei, ppis, dxes>>

CallPeimInit ==
  /\ Answered("peimSearch")
  /\ result # NULL
  /\ peim' = file
  /\ Goto("dxeIplInit")
  /\ UNCHANGED <<core, secData, services, name, ppiMoved, ppis, dxes>>

Reaches(service) == services[service] = Displacement(image, core)

\* DxeIplInit calls PeiInstallPpi, which calls CalcPeimFixup.
DxeIplInit ==
  /\ pc = "dxeIplInit"
  /\ Reaches("InstallPpi")
  /\ Bv!GetFileSection(Bv!PeimFixup)
  /\ Goto("install")
  /\ UNCHANGED <<pei, ppis, dxes>>

PeiInstallPpi ==
  /\ Answered("install")
  /\ \/ /\ status = "EFI_SUCCESS"
        /\ Registry!Install(mDxeIplPpiList)
        /\ ppiMoved' = ppiMoved + result
     \/ /\ status # "EFI_SUCCESS"
        /\ UNCHANGED <<ppiMoved, ppis>>
  /\ Goto("dispatch")
  /\ UNCHANGED <<core, secData, services, peim, name, dxes>>

\* Mutant: the loop stops one short of the count.
ToRunShort == Len(ran) + 1 < Len(db)

ToRun == Len(ran) < Len(db)
EntryReached == ppiMoved = Displacement(image, peim)

\* Mutant: the loop does not move on to the next PPI.
DispatchPeimsAgain ==
  /\ pc = "dispatch"
  /\ \/ /\ ToRun
        /\ EntryReached
        /\ Goto("dxeIpl")
     \/ /\ ~ToRun
        /\ Goto("deadLoop")
  /\ UNCHANGED <<walk, pei, ppis, dxes>>

DispatchPeims ==
  /\ pc = "dispatch"
  /\ \/ /\ ToRun
        /\ EntryReached
        /\ Registry!Run
        /\ Goto("dxeIpl")
     \/ /\ ~ToRun
        /\ Goto("deadLoop")
        /\ UNCHANGED ppis
  /\ UNCHANGED <<walk, pei, dxes>>

----------------------------------------------------------------------------
(* The DXE IPL *)

\* The volume is instance 1, whose handle PeiCoreMain filled in.
FindDxeCore ==
  /\ pc = "dxeIpl"
  /\ Reaches("FfsFindNextVolume") /\ Reaches("FfsFindNextFile")
  /\ Dv!FindNextFileFromStart("DXE_CORE")
  /\ Goto("findCore")
  /\ UNCHANGED <<pei, ppis, dxes>>

FoundDxeCore ==
  /\ Answered("findCore")
  /\ result # NULL
  /\ dxe' = result
  /\ Goto("fileInfo")
  /\ UNCHANGED <<pei, ppis, loaded>>

GetFileInfo ==
  /\ pc = "fileInfo"
  /\ Reaches("FfsGetFileInfo")
  /\ Dv!GetFileInfo(dxe)
  /\ Goto("gotInfo")
  /\ UNCHANGED <<pei, ppis, dxes>>

\* DxeIplMain returns to the dispatcher.
DxeIplFails ==
  /\ Answered("findCore") \/ Answered("gotInfo")
  /\ result = NULL
  /\ Goto("dispatch")
  /\ UNCHANGED <<pei, ppis, dxes>>

LoadAndRunDxeCore ==
  /\ Answered("gotInfo")
  /\ result # NULL
  /\ Goto("loadFile")
  /\ UNCHANGED <<pei, ppis, dxes>>

PeiLoadFile ==
  /\ pc = "loadFile"
  /\ Reaches("FfsFindSectionData")
  /\ Dv!FindSectionData("PE32", dxe)
  /\ Goto("findPe32")
  /\ UNCHANGED <<pei, ppis, dxes>>

\* Mutant: what the headers of the image say is not looked at.
Pe32LoadsAny == result # NULL

Pe32Loads ==
  /\ result # NULL
  /\ PeHeader(image).dos /\ PeHeader(image).nt /\ PeHeader(image).magic

\* The call of the entry point is commented out.
PeiLoadPe32 ==
  /\ Answered("findPe32")
  /\ \/ Pe32Loads /\ loaded' = result /\ Goto("loaded")
     \/ ~Pe32Loads /\ UNCHANGED loaded /\ Goto("hung")
  /\ UNCHANGED <<pei, ppis, dxe>>

LoadAndRunReturns ==
  /\ pc = "loaded"
  /\ Goto("dispatch")
  /\ UNCHANGED <<walk, pei, ppis, dxes>>

----------------------------------------------------------------------------
\* The service that is called next, by where the processor is.
Calls(l) ==
  CASE l = "dxeIplInit" -> {"InstallPpi"}
    [] l = "dxeIpl" -> {"FfsFindNextVolume", "FfsFindNextFile"}
    [] l = "fileInfo" -> {"FfsGetFileInfo"}
    [] l = "loadFile" -> {"FfsFindSectionData"}
    [] OTHER -> {}

GoAstray ==
  /\ \/ \E s \in Calls(pc) : ~Reaches(s)
     \/ pc = "dispatch" /\ ToRun /\ ~EntryReached
  /\ Goto("astray")
  /\ UNCHANGED <<walk, pei, ppis, dxes>>

\* An iteration of the walk that the processor is in.
WalkStep ==
  /\ IF pc \in {"findCore", "findPe32"} THEN Dv!Step ELSE Bv!Step
  /\ UNCHANGED <<pc, pei, ppis, dxes>>

Sec == SecSearch \/ SecFails \/ EnterPei
Pei == \/ CalcPeiFixup \/ FixupServices \/ AprioriSearch \/ AprioriFound
       \/ PeimSearch \/ NoPeim \/ CallPeimInit \/ DxeIplInit \/ PeiInstallPpi
       \/ DispatchPeims
Dxe == \/ FindDxeCore \/ FoundDxeCore \/ GetFileInfo \/ DxeIplFails
       \/ LoadAndRunDxeCore \/ PeiLoadFile \/ PeiLoadPe32 \/ LoadAndRunReturns

Next == Sec \/ Pei \/ Dxe \/ GoAstray \/ WalkStep

Spec == Init /\ [][Next]_vars

\* The processor executes the next instruction.
FairSpec == Spec /\ WF_vars(Next)

----------------------------------------------------------------------------
(* Properties *)

Stopped == {"sleep", "deadLoop", "hung", "astray"}

TypeOK ==
  /\ Bv!TypeOK \/ Dv!TypeOK
  /\ pc \in Stopped \cup
       {"sec", "secSearch", "pei", "peiFixup", "initPeims", "apriori", "peim",
        "peimSearch", "dxeIplInit", "install", "dispatch", "dxeIpl", "findCore",
        "fileInfo", "gotInfo", "loadFile", "findPe32", "loaded"}
  /\ core \in Bv!Slots \cup {NULL} /\ peim \in Bv!Slots \cup {NULL}
  /\ name \in {NULL, AprioriName(image)}
  /\ secData \in {NULL, HandOff}
  /\ services \in [Services -> Nat]
  /\ ppiMoved \in Nat
  /\ db \in Seq({DxeIplPpi}) /\ Len(db) <= MaxCount
  /\ ran \in Seq({DxeIplPpi}) /\ Len(ran) <= Len(db)
  /\ dxe \in Dv!Slots \cup {NULL}
  /\ loaded \in Nat \cup {NULL}

\* The addresses of the files of a volume, one behind the other.
FileChain(img, first, eov) ==
  LET after(a) == Bv!AlignUp(a + FileAt(img, a).size, 8)
      from[a \in first..eov - 1] ==
        {a} \cup (IF after(a) \in a + 1..eov - 1 THEN from[after(a)] ELSE {})
  IN  from
FilesFrom(img, first, eov) == IF first < eov THEN FileChain(img, first, eov)[first] ELSE {}

IsCore(img, f) == FileAt(img, f).type = "PEI_CORE"
IsApriori(img, f) == FileAt(img, f).type = "FREEFORM" /\ FileAt(img, f).name = "apriori"
IsPeim(img, f) == FileAt(img, f).type = "PEIM"
IsNamed(img, f) == IsPeim(img, f) /\ FileAt(img, f).name = AprioriName(img)
IsDxeCore(img, f) == FileAt(img, f).type = "DXE_CORE"

\* The first of a set of addresses, if there is one.
Earliest(S) == IF S = {} THEN NULL ELSE CHOOSE a \in S : \A b \in S : a <= b

\* The file and the section that a search comes to, said of the whole volume.
FileNamed(img, first, eov, Wanted(_, _)) ==
  LET Fits(f) == f + FileAt(img, f).size <= eov
      stops == {g \in FilesFrom(img, first, eov) : ~Fits(g) \/ Wanted(img, g)}
      f == Earliest(stops)
  IN  IF f # NULL /\ Fits(f) THEN f ELSE NULL
SectionNamed(img, f, type) ==
  IF f = NULL THEN NULL
  ELSE LET S == {a \in Bv!SectionsIn(img, f) : SectionAt(img, a).type = type} IN Earliest(S)
FileWith(img, Wanted(_, _), type) ==
  LET f == FileNamed(img, Bv!First, Bv!Eov, Wanted) IN
  IF SectionNamed(img, f, type) # NULL THEN f ELSE NULL

\* The code that the flash names for each stage, and whether its pointers come
\* out right: those of the PEI core's services are moved by the core's own
\* fixup, or by nothing, those of the PPI by the first PEIM's.
HeaderRight(img) == BootHeader(img).signature /\ BootHeader(img).ffs2
PeRight(img) == PeHeader(img).dos /\ PeHeader(img).nt /\ PeHeader(img).magic
FixupOf(img, f) == SectionNamed(img, f, "SUBTYPE_GUID")
Distance(fixup) == IF fixup = NULL THEN 0 ELSE fixup

CorePlan(img)  == IF HeaderRight(img) THEN FileWith(img, IsCore, "TE") ELSE NULL
PeimPlan(img)  == IF FileWith(img, IsApriori, "RAW") # NULL THEN FileWith(img, IsNamed, "TE") ELSE NULL
FixupPlan(img) == FixupOf(img, FileNamed(img, Bv!First, Bv!Eov, IsPeim))
DxePlan(img)   == FileNamed(img, Dv!First, Dv!Eov, IsDxeCore)
Moves(img, f, distance) == f # NULL /\ distance = Displacement(img, f)
Plan ==
  [img \in Images |->
    [core  |-> CorePlan(img),
     calls |-> Moves(img, CorePlan(img), Distance(FixupOf(img, CorePlan(img)))),
     peim  |-> PeimPlan(img),
     fixup |-> FixupPlan(img),
     entry |-> Moves(img, PeimPlan(img), FixupPlan(img)),
     dxe   |-> DxePlan(img),
     pe32  |-> IF PeRight(img) THEN SectionNamed(img, DxePlan(img), "PE32") ELSE NULL]]

HasFixup(f) == \E a \in Bv!SectionsOf(f) : SectionAt(image, a).type = "SUBTYPE_GUID"

(* A call goes astray only where the code takes something for granted: that
   the PEI core has a fixup section, since CalcPeiFixup's NULL is not checked,
   and that the PEIM that installs is the first of the volume, since
   CalcPeimFixup does not know its name (the TODO at PeiServices.c:17).    *)
NeverAstray == pc = "astray" => ~HasFixup(core) \/ peim # FileNamed(image, Bv!First, Bv!Eov, IsPeim)

(* What runs is what it is taken for, in a container that was checked: the
   PEI core is a file of its type inside a volume whose header is right ("The
   BFV can only be constructed of type EFI_FIRMWARE_FILE_SYSTEM2_GUID"), and
   has been handed that volume and a heap and a stack that do not overlap; a
   PEIM is the one the a priori file names; the DXE core is an image with the
   right headers in a PE32 section inside the file that was found.        *)
Behind(a, b) == a.base + a.size <= b.base
HandedSound ==
  /\ BootFvLength < SizeBound => secData.boot = Range(BootFvBase, BootFvLength)
  /\ Behind(secData.heap, secData.stack)
  /\ secData.stack.base + secData.stack.size <= TemporaryRamBase + TemporaryRamSize
RunsSound ==
  /\ core # NULL => HeaderRight(image) /\ IsCore(image, core) /\ Bv!Fits(core) /\ HandedSound
  /\ peim # NULL => core # NULL /\ IsNamed(image, peim) /\ Bv!Fits(peim)
  /\ loaded # NULL =>
       /\ peim # NULL /\ IsDxeCore(image, dxe) /\ Dv!Fits(dxe)
       /\ dxe + Dv!FileHeaderSize <= loaded
       /\ loaded + SectionAt(image, loaded).size <= dxe + FileAt(image, dxe).size
       /\ SectionAt(image, loaded).type = "PE32"
       /\ PeRight(image)

Stage ==
  CASE pc \in {"sec", "secSearch"} -> "sec"
    [] pc \in {"pei", "peiFixup", "initPeims", "apriori", "peim", "peimSearch"} -> "pei"
    [] pc \in {"dxeIplInit", "install"} \/ (pc = "dispatch" /\ ToRun) -> "peim"
    [] pc \in {"dxeIpl", "findCore", "fileInfo", "gotInfo", "loadFile", "findPe32"} -> "ipl"
    [] pc = "loaded" -> "dxe"
    [] pc = "deadLoop" \/ (pc = "dispatch" /\ ~ToRun) -> "over"
    [] OTHER -> pc

Module == IF loaded # NULL THEN loaded ELSE IF peim # NULL THEN peim ELSE core

Stages == INSTANCE BootStages WITH plan <- Plan[image], stage <- Stage, module <- Module

(* The boot chain goes through the stages in their order, runs in each the
   code that the flash names, and stops early only for a reason that lies in
   the flash, or in a refusal of PeiFfsGetFileInfo.                       *)
ImplementsStages == Stages!Spec

(* Every boot comes to a stop, whatever fails, if no file has size 0.  It
   stops asleep if and only if no PEI core was entered, and else with the
   dispatcher done or the DXE IPL hung, unless a call went astray.         *)
NoEmptyFile == \A a \in Bv!Slots \cup Dv!Slots : FileAt(image, a).size > 0
BootStops ==
  NoEmptyFile ~> \/ pc = "sleep" /\ core = NULL
                 \/ pc = "deadLoop" /\ core # NULL /\ ran = db
                 \/ pc = "hung" /\ dxe # NULL /\ loaded = NULL
                 \/ pc = "astray"

\* Why the dispatcher has nothing left to run.
EndExplained ==
  LET p == Plan[image] IN
  \/ p.peim = NULL /\ peim = NULL
  \/ p.fixup = NULL /\ peim = p.peim /\ db = <<>>
  \/ p.dxe = NULL /\ dxe = NULL /\ db # <<>>
  \/ loaded = NULL /\ dxe = p.dxe /\ status = "EFI_UNSUPPORTED"
  \/ loaded = p.pe32 /\ loaded # NULL

(* Where a boot stopped, and what it left behind, says what was wrong with the
   flash.  So an image in which nothing is missing or linked wrongly ends up
   with the DXE core loaded, unless PeiFfsGetFileInfo refused its file.   *)
StopExplained ==
  LET p == Plan[image] IN
  /\ pc = "sleep"  => p.core = NULL
  /\ pc = "astray" => ~p.calls \/ (p.fixup # NULL /\ ~p.entry)
  /\ pc = "hung"   => p.dxe # NULL /\ p.pe32 = NULL
  /\ pc = "deadLoop" => EndExplained

(* A boot never comes back to a place where it has been, and the walks it
   waits for only move on: every step takes it to a place nearer to a stop,
   or ends the walk, or takes the walk to a higher address in its volume.  So
   every boot takes a bounded number of steps, and may go on for ever only by
   staying at an empty file.                                              *)
PlacesLeft ==
  CASE pc = "sec" -> 20        [] pc = "secSearch" -> 19
    [] pc = "pei" -> 18        [] pc = "peiFixup" -> 17
    [] pc = "initPeims" -> 16  [] pc = "apriori" -> 15
    [] pc = "peim" -> 14       [] pc = "peimSearch" -> 13
    [] pc = "dxeIplInit" -> 12 [] pc = "install" -> 11
    [] pc = "dispatch" -> IF ToRun THEN 10 ELSE 1
    [] pc = "dxeIpl" -> 9      [] pc = "findCore" -> 8
    [] pc = "fileInfo" -> 7    [] pc = "gotInfo" -> 6
    [] pc = "loadFile" -> 5    [] pc = "findPe32" -> 4
    [] pc = "loaded" -> 3      [] OTHER -> 0
WalkEov == IF pc \in {"findCore", "findPe32"} THEN Dv!Eov ELSE Bv!Eov
BootAdvances ==
  [][\/ PlacesLeft' < PlacesLeft
     \/ /\ pc' = pc
        /\ op \in {"files", "sections"}
        /\ op' = "done" \/ (addr < WalkEov /\ addr < addr')]_vars

(* "Should never return" (DxeIpl.c): once the DXE core is loaded the DXE IPL
   does not give control back.                                             *)
DxeCoreTakesOver == [][pc = "loaded" => pc' # "dispatch"]_vars
=============================================================================
