----------------------------- MODULE BootProofs -----------------------------
(***************************************************************************)
(* Proofs about Boot for every content of the flash: the state keeps its   *)
(* types, and what runs is what it is taken for.                           *)
(*                                                                         *)
(* The walks belong to FfsWalk, but which of its calls are made, and on    *)
(* which volume, is decided here; the invariant says for each place where  *)
(* the processor may be what the walk is doing there and what it has found.*)
(***************************************************************************)
EXTENDS Boot, TLAPS

BootWaits == {"secSearch", "peiFixup", "apriori", "peimSearch", "install"}
DxeWaits  == {"findCore", "gotInfo", "findPe32"}
Waits     == BootWaits \cup DxeWaits
Early     == {"sec", "pei", "initPeims", "peim", "dxeIplInit", "sleep"} \cup BootWaits
Ipl       == {"dxeIpl", "fileInfo", "loadFile"} \cup DxeWaits
Places    == Early \cup Ipl \cup {"dispatch", "loaded", "deadLoop", "hung", "astray"}

Statuses == {"EFI_SUCCESS", "EFI_INVALID_PARAMETER", "EFI_UNSUPPORTED",
             "EFI_NOT_FOUND", "EFI_VOLUME_CORRUPTED"}

(* The walk, wherever it is. *)
WalkTypes ==
  /\ image \in Images
  /\ op \in {"idle", "files", "sections", "done"}
  /\ addr \in Nat /\ eof \in Nat
  /\ status \in Statuses
  /\ result \in Nat \cup {NULL}
  /\ handles \subseteq Dv!Slots
  /\ pc \in Early => handles = {}
  /\ pc \notin Waits => op = "idle" /\ file = NULL

InBootFile(f) == f \in Bv!Slots /\ Bv!Fits(f) /\ Bv!Matching(f)
DxeCoreFile(f) == f \in Dv!Slots /\ Dv!Fits(f) /\ IsDxeCore(image, f)

(* A search of the boot volume, which is always for a section. *)
BootWalk ==
  pc \in BootWaits =>
    /\ op \in {"files", "sections", "done"}
    /\ req.section # NULL
    /\ op = "files" => file = NULL /\ addr % 8 = 0
    /\ op = "sections" => InBootFile(file) /\ eof = file + FileAt(image, file).size
    /\ op = "done" =>
         /\ file \in Bv!Slots \cup {NULL}
         /\ status = "EFI_SUCCESS" <=> result # NULL
         /\ result # NULL => InBootFile(file)

(* The search for the DXE core's file, and the one in it. *)
DxeWalk ==
  /\ pc = "findCore" =>
       /\ op \in {"files", "done"} /\ file = NULL
       /\ req.type = "DXE_CORE" /\ req.section = NULL /\ req.name = NULL
       /\ op = "files" => addr % 8 = 0
       /\ op = "done" /\ result # NULL => DxeCoreFile(result)
  /\ pc = "gotInfo" => op = "done" /\ file = NULL
  /\ pc = "findPe32" =>
       /\ op \in {"sections", "done"} /\ file = dxe /\ req.section = "PE32"
       /\ eof = dxe + FileAt(image, dxe).size /\ addr >= dxe + Dv!FileHeaderSize
       /\ op = "done" /\ result # NULL =>
            /\ dxe + Dv!FileHeaderSize <= result
            /\ result + SectionAt(image, result).size <= eof
            /\ SectionAt(image, result).type = "PE32"
  /\ pc \in {"fileInfo", "gotInfo", "loadFile", "findPe32"} \/ loaded # NULL => DxeCoreFile(dxe)

(* What is being looked for, and what has been done on the way. *)
Order ==
  /\ pc \in Places
  /\ pc = "secSearch" => req.type = "PEI_CORE" /\ HeaderRight(image)
  /\ pc \in {"peim", "peimSearch"} => name = AprioriName(image)
  /\ pc = "peimSearch" => req.type = "PEIM" /\ req.name = name
  /\ pc \notin {"sec", "secSearch", "sleep"} => core # NULL
  /\ pc \in {"dxeIplInit", "install"} \cup Ipl \/ db # <<>> => peim # NULL
  /\ pc \in Early => db = <<>> /\ ran = <<>> /\ loaded = NULL
  /\ pc \in Ipl => loaded = NULL
  /\ Len(db) <= 1
  /\ pc \in Ipl \/ loaded # NULL => Len(ran) >= Len(db)

(* The other variables. *)
StateTypes ==
  /\ core \in Bv!Slots \cup {NULL} /\ peim \in Bv!Slots \cup {NULL}
  /\ name \in {NULL, AprioriName(image)}
  /\ secData \in {NULL, HandOff}
  /\ services \in [Services -> Nat]
  /\ ppiMoved \in Nat
  /\ db \in Seq({DxeIplPpi}) /\ Len(db) <= MaxCount
  /\ ran \in Seq({DxeIplPpi}) /\ Len(ran) <= Len(db)
  /\ dxe \in Dv!Slots \cup {NULL}
  /\ loaded \in Nat \cup {NULL}

WInv == WalkTypes /\ BootWalk /\ DxeWalk
IInv == WInv /\ Order /\ StateTypes /\ RunsSound

----------------------------------------------------------------------------
LEMMA AlignUpTo8 ==
  ASSUME NEW a \in Nat
  PROVE  Bv!AlignUp(a, 8) \in Nat /\ Bv!AlignUp(a, 8) % 8 = 0
  BY DEF Bv!AlignUp

LEMMA AlignUpTo4 ==
  ASSUME NEW a \in Nat
  PROVE  Bv!AlignUp(a, 4) \in Nat /\ a <= Bv!AlignUp(a, 4)
  BY DEF Bv!AlignUp

LEMMA BootPlaces ==
  /\ Bv!Eov \in Nat /\ Bv!First \in Nat /\ Bv!First % 8 = 0
  /\ \A a \in Nat : a % 8 = 0 /\ a < Bv!Eov => a \in Bv!Slots
  /\ \A a \in Bv!Slots : a \in Nat /\ a < Bv!Eov /\ a # NULL
  /\ \A a \in Bv!Slots : FileAt(image, a).size \in Nat \/ image \notin Images
<1>1. BootFvBase + BootHeaderLength \in Nat /\ Bv!Eov = BootFvBase + BootFvLength /\ Bv!Eov \in Nat
  BY VolumeAssumption DEF Bv!Eov
<1>2. Bv!First \in Nat /\ Bv!First % 8 = 0
  BY <1>1, AlignUpTo8 DEF Bv!First
<1>3. \A a \in Bv!Slots : a \in Flash /\ a % 8 = 0
  BY <1>1, VolumeAssumption, DxeVolumeAssumption DEF Bv!Slots, Flash
<1>4. \A a \in Bv!Slots : FileAt(image, a).size \in Nat \/ image \notin Images
  BY <1>3, SizeAssumption
<1>. QED
  BY <1>1, <1>2, <1>4, NullAssumption DEF Bv!Slots

LEMMA DxePlaces ==
  /\ Dv!Eov \in Nat /\ Dv!First \in Nat /\ Dv!First % 8 = 0
  /\ \A a \in Nat : a % 8 = 0 /\ a < Dv!Eov => a \in Dv!Slots
  /\ \A a \in Dv!Slots : a \in Nat /\ a < Dv!Eov /\ a # NULL
  /\ \A a \in Dv!Slots : FileAt(image, a).size \in Nat \/ image \notin Images
<1>1. DxeFvBase + DxeHeaderLength \in Nat /\ Dv!Eov = DxeFvBase + DxeFvLength /\ Dv!Eov \in Nat
  BY VolumeAssumption, DxeVolumeAssumption DEF Dv!Eov
<1>2. Dv!First \in Nat /\ Dv!First % 8 = 0
  BY <1>1 DEF Dv!First, Dv!AlignUp
<1>3. \A a \in Dv!Slots : a \in Flash /\ a % 8 = 0
  BY <1>1, VolumeAssumption, DxeVolumeAssumption DEF Dv!Slots, Flash
<1>4. \A a \in Dv!Slots : FileAt(image, a).size \in Nat \/ image \notin Images
  BY <1>3, SizeAssumption
<1>. QED
  BY <1>1, <1>2, <1>4, NullAssumption DEF Dv!Slots

LEMMA SectionSizes ==
  ASSUME image \in Images
  PROVE  /\ \A a \in Nat : a < Bv!Eov => SectionAt(image, a).size \in Nat
         /\ \A a \in Nat : a < Dv!Eov => SectionAt(image, a).size \in Nat
<1>1. \A a \in Nat : a < Bv!Eov \/ a < Dv!Eov => a \in Flash
  BY VolumeAssumption, DxeVolumeAssumption DEF Bv!Eov, Dv!Eov, Flash
<1>. QED
  BY <1>1, SizeAssumption

(* The heap ends where the stack begins, and the stack in the temporary RAM. *)
LEMMA HandOffSound == secData = HandOff => HandedSound
<1>1. BootFvLength < SizeBound => BootFvLength % SizeBound = BootFvLength
  BY VolumeAssumption, SizeAssumption
<1>. QED
  BY <1>1, RamAssumption DEF HandOff, HandedSound, Behind, Range

----------------------------------------------------------------------------
(* Steps of the walk *)

(* An iteration of a loop over the boot volume keeps what is known of it. *)
LEMMA BootStep ==
  ASSUME WInv, StateTypes, Bv!Step, pc \in BootWaits, pc' = pc, dxe' = dxe, loaded' = loaded
  PROVE  WInv' /\ image' = image /\ req' = req
<1>. USE DEF WInv, walk, Bv!walk
<1>1. WalkTypes /\ BootWalk /\ op \in {"files", "sections", "done"} /\ req.section # NULL
  BY DEF BootWalk
<1>2. /\ pc \notin DxeWaits /\ pc \notin {"fileInfo", "gotInfo", "loadFile", "findPe32"}
      /\ pc \notin {"findCore", "gotInfo", "findPe32"} /\ pc \in Waits /\ pc \in Early
  BY DEF BootWaits, DxeWaits, Waits, Early
<1>3. image' = image /\ req' = req
  BY DEF Bv!Step, Bv!FileCorrupted, Bv!FileFound, Bv!FileSkip, Bv!FileNone,
         Bv!SectionCorrupted, Bv!SectionFound, Bv!SectionSkip, Bv!SectionNone
<1>4. \A f : InBootFile(f)' <=> InBootFile(f)
  BY <1>3 DEF InBootFile, Bv!Fits, Bv!Matching
<1>5. DxeWalk'
  BY <1>2, <1>3 DEF DxeWalk, DxeCoreFile, Dv!Fits, IsDxeCore
<1>6. ASSUME NEW s \in Statuses, s # "EFI_SUCCESS", Bv!Finish(s, NULL), UNCHANGED <<file, addr, eof, handles>>,
             file \in Bv!Slots \cup {NULL}
      PROVE  WInv'
  <2>1. op' = "done" /\ status' = s /\ result' = NULL
    BY <1>6 DEF Bv!Finish
  <2>2. WalkTypes'
    BY <1>1, <1>2, <1>3, <1>6, <2>1 DEF WalkTypes
  <2>3. BootWalk'
    BY <1>1, <1>2, <1>3, <1>6, <2>1 DEF BootWalk
  <2>. QED
    BY <1>5, <2>2, <2>3
<1>7. CASE Bv!FileCorrupted
  BY <1>1, <1>6, <1>7 DEF Bv!FileCorrupted, Bv!InVolume, BootWalk, Statuses
<1>8. CASE Bv!FileFound
  <2>1. /\ op = "files" /\ addr < Bv!Eov /\ addr + FileAt(image, addr).size <= Bv!Eov
        /\ Bv!FileMatches /\ Bv!EnterFile(addr) /\ UNCHANGED <<status, result, handles>>
    BY <1>1, <1>8 DEF Bv!FileFound, Bv!InVolume, Bv!FileEnd, Bv!File
  <2>2. addr \in Nat /\ addr % 8 = 0
    BY <1>1, <2>1 DEF WalkTypes, BootWalk
  <2>3. addr \in Bv!Slots
    BY <2>1, <2>2, BootPlaces
  <2>4. InBootFile(addr)
    BY <2>1, <2>3 DEF InBootFile, Bv!Fits, Bv!Matching, Bv!FileMatches, Bv!File
  <2>5. op' = "sections" /\ file' = addr /\ addr' \in Nat /\ eof' \in Nat
        /\ eof' = addr + FileAt(image, addr).size
    <3>1. addr + Bv!FileHeaderSize \in Nat /\ addr + FileAt(image, addr).size \in Nat
      BY <1>1, <2>2, <2>3, BootPlaces DEF Bv!FileHeaderSize, WalkTypes
    <3>. QED
      BY <2>1, <3>1, AlignUpTo4 DEF Bv!EnterFile
  <2>6. WalkTypes'
    BY <1>1, <1>2, <1>3, <2>1, <2>5 DEF WalkTypes
  <2>7. BootWalk'
    BY <1>1, <1>2, <1>3, <1>4, <2>4, <2>5 DEF BootWalk
  <2>. QED
    BY <1>3, <1>5, <2>6, <2>7
<1>9. CASE Bv!FileSkip
  <2>1. /\ op = "files" /\ addr < Bv!Eov /\ addr' = Bv!AlignUp(addr + FileAt(image, addr).size, 8)
        /\ UNCHANGED <<op, file, eof, status, result, handles>>
    BY <1>9 DEF Bv!FileSkip, Bv!InVolume, Bv!FileEnd, Bv!File
  <2>2. addr \in Nat /\ addr % 8 = 0 /\ file = NULL
    BY <1>1, <2>1 DEF WalkTypes, BootWalk
  <2>3. addr + FileAt(image, addr).size \in Nat
    BY <1>1, <2>1, <2>2, BootPlaces DEF WalkTypes
  <2>4. addr' \in Nat /\ addr' % 8 = 0
    BY <2>1, <2>3, AlignUpTo8
  <2>5. WalkTypes'
    BY <1>1, <1>2, <1>3, <2>1, <2>4 DEF WalkTypes
  <2>6. BootWalk'
    BY <1>1, <1>2, <1>3, <2>1, <2>2, <2>4 DEF BootWalk
  <2>. QED
    BY <1>3, <1>5, <2>5, <2>6
<1>10. CASE Bv!FileNone
  BY <1>1, <1>6, <1>10 DEF Bv!FileNone, BootWalk, Statuses
<1>11. CASE Bv!SectionCorrupted
  BY <1>1, <1>6, <1>11 DEF Bv!SectionCorrupted, Bv!InFile, BootWalk, InBootFile, Statuses
<1>12. CASE Bv!SectionFound
  <2>1. /\ op = "sections" /\ op' = "done" /\ status' = "EFI_SUCCESS" /\ result' = addr
        /\ UNCHANGED <<file, addr, eof, handles>>
    BY <1>12 DEF Bv!SectionFound, Bv!InFile, Bv!Finish
  <2>2. InBootFile(file) /\ addr \in Nat /\ addr # NULL
    BY <1>1, <2>1, NullAssumption DEF BootWalk, WalkTypes
  <2>3. WalkTypes'
    BY <1>1, <1>2, <1>3, <2>1, <2>2 DEF WalkTypes, Statuses
  <2>4. BootWalk'
    BY <1>1, <1>2, <1>3, <1>4, <2>1, <2>2 DEF BootWalk, InBootFile
  <2>. QED
    BY <1>3, <1>5, <2>3, <2>4
<1>13. CASE Bv!SectionSkip
  <2>1. /\ op = "sections" /\ addr < eof /\ addr' = addr + SectionAt(image, addr).size
        /\ UNCHANGED <<op, file, eof, status, result, handles>>
    BY <1>13 DEF Bv!SectionSkip, Bv!InFile, Bv!Section
  <2>2. InBootFile(file) /\ eof = file + FileAt(image, file).size /\ addr \in Nat /\ eof \in Nat
    BY <1>1, <2>1 DEF BootWalk, WalkTypes
  <2>3. addr \in Nat /\ addr < Bv!Eov
    BY <2>1, <2>2, BootPlaces DEF InBootFile, Bv!Fits
  <2>4. SectionAt(image, addr).size \in Nat
    BY <1>1, <2>3, SectionSizes DEF WalkTypes
  <2>5. addr' \in Nat
    BY <2>1, <2>3, <2>4
  <2>6. WalkTypes'
    BY <1>1, <1>2, <1>3, <2>1, <2>5 DEF WalkTypes
  <2>7. BootWalk'
    BY <1>1, <1>2, <1>3, <1>4, <2>1, <2>2 DEF BootWalk
  <2>. QED
    BY <1>3, <1>5, <2>6, <2>7
<1>14. CASE Bv!SectionNone
  BY <1>1, <1>6, <1>14 DEF Bv!SectionNone, BootWalk, InBootFile, Statuses
<1>. QED
  BY <1>3, <1>7, <1>8, <1>9, <1>10, <1>11, <1>12, <1>13, <1>14 DEF Bv!Step

(* The same of the DXE volume, where the first search is for a file and the
   second is in it.                                                       *)
LEMMA DxeStep ==
  ASSUME WInv, StateTypes, Dv!Step, pc \in {"findCore", "findPe32"},
         pc' = pc, dxe' = dxe, loaded' = loaded
  PROVE  WInv' /\ image' = image /\ req' = req
<1>. USE DEF WInv, walk, Dv!walk
<1>1. WalkTypes /\ DxeWalk /\ op \in {"files", "sections", "done"}
  BY DEF DxeWalk
<1>2. pc \notin BootWaits /\ pc \in Waits /\ pc \notin Early
  BY DEF BootWaits, DxeWaits, Waits, Early
<1>3. image' = image /\ req' = req
  BY DEF Dv!Step, Dv!FileCorrupted, Dv!FileFound, Dv!FileSkip, Dv!FileNone,
         Dv!SectionCorrupted, Dv!SectionFound, Dv!SectionSkip, Dv!SectionNone
<1>4. \A f : DxeCoreFile(f)' <=> DxeCoreFile(f)
  BY <1>3 DEF DxeCoreFile, Dv!Fits, IsDxeCore
<1>5. BootWalk'
  BY <1>2 DEF BootWalk
<1>6. ASSUME NEW s \in Statuses, Dv!Finish(s, NULL), UNCHANGED <<file, addr, eof, handles>>
      PROVE  WInv'
  <2>1. op' = "done" /\ status' = s /\ result' = NULL
    BY <1>6 DEF Dv!Finish
  <2>2. WalkTypes'
    BY <1>1, <1>2, <1>3, <1>6, <2>1 DEF WalkTypes
  <2>3. DxeWalk'
    BY <1>1, <1>3, <1>4, <1>6, <2>1 DEF DxeWalk
  <2>. QED
    BY <1>5, <2>2, <2>3
<1>7. CASE Dv!FileCorrupted
  BY <1>1, <1>6, <1>7 DEF Dv!FileCorrupted, Statuses
<1>8. CASE Dv!FileFound
  <2>1. /\ op = "files" /\ addr < Dv!Eov /\ addr + FileAt(image, addr).size <= Dv!Eov
        /\ Dv!FileMatches /\ pc = "findCore"
    BY <1>1, <1>8 DEF Dv!FileFound, Dv!InVolume, Dv!FileEnd, Dv!File, DxeWalk
  <2>2. /\ op' = "done" /\ result' = addr /\ status' = "EFI_SUCCESS"
        /\ handles' = handles \cup {addr} /\ UNCHANGED <<file, addr, eof>>
    BY <1>1, <1>8, <2>1 DEF Dv!FileFound, Dv!Finish, DxeWalk
  <2>3. addr \in Nat /\ addr % 8 = 0
    BY <1>1, <2>1 DEF WalkTypes, DxeWalk
  <2>4. addr \in Dv!Slots
    BY <2>1, <2>3, DxePlaces
  <2>5. DxeCoreFile(addr)
    BY <1>1, <2>1, <2>4 DEF DxeCoreFile, Dv!Fits, Dv!FileMatches, Dv!File, DxeWalk, IsDxeCore
  <2>6. WalkTypes'
    BY <1>1, <1>2, <1>3, <2>2, <2>3, <2>4 DEF WalkTypes, Statuses
  <2>7. DxeWalk'
    BY <1>1, <1>3, <1>4, <2>1, <2>2, <2>5 DEF DxeWalk
  <2>. QED
    BY <1>3, <1>5, <2>6, <2>7
<1>9. CASE Dv!FileSkip
  <2>1. /\ op = "files" /\ addr < Dv!Eov /\ addr' = Dv!AlignUp(addr + FileAt(image, addr).size, 8)
        /\ UNCHANGED <<op, file, eof, status, result, handles>>
    BY <1>9 DEF Dv!FileSkip, Dv!InVolume, Dv!FileEnd, Dv!File
  <2>2. addr \in Nat /\ addr % 8 = 0 /\ pc = "findCore"
    BY <1>1, <2>1 DEF WalkTypes, DxeWalk
  <2>3. addr + FileAt(image, addr).size \in Nat
    BY <1>1, <2>1, <2>2, DxePlaces DEF WalkTypes
  <2>4. addr' \in Nat /\ addr' % 8 = 0
    BY <2>1, <2>3 DEF Dv!AlignUp
  <2>5. WalkTypes'
    BY <1>1, <1>2, <1>3, <2>1, <2>4 DEF WalkTypes
  <2>6. DxeWalk'
    BY <1>1, <1>3, <1>4, <2>1, <2>2, <2>4 DEF DxeWalk
  <2>. QED
    BY <1>3, <1>5, <2>5, <2>6
<1>10. CASE Dv!FileNone
  BY <1>1, <1>6, <1>10 DEF Dv!FileNone, Statuses
<1>11. CASE Dv!SectionCorrupted
  BY <1>1, <1>6, <1>11 DEF Dv!SectionCorrupted, Statuses
<1>. DEFINE n == SectionAt(image, addr).size
<1>12. ASSUME op = "sections", addr < eof
       PROVE  /\ pc = "findPe32" /\ file = dxe /\ DxeCoreFile(dxe) /\ req.section = "PE32"
              /\ eof = dxe + FileAt(image, dxe).size /\ addr >= dxe + Dv!FileHeaderSize
              /\ dxe + Dv!FileHeaderSize \in Nat
              /\ addr \in Nat /\ n \in Nat /\ addr # NULL
  <2>1. /\ pc = "findPe32" /\ file = dxe /\ DxeCoreFile(dxe) /\ req.section = "PE32"
        /\ eof = dxe + FileAt(image, dxe).size /\ addr >= dxe + Dv!FileHeaderSize
        /\ addr \in Nat /\ eof \in Nat /\ image \in Images
    BY <1>1, <1>12 DEF DxeWalk, WalkTypes
  <2>2. dxe \in Nat /\ addr < Dv!Eov
    BY <1>12, <2>1, DxePlaces DEF DxeCoreFile, Dv!Fits
  <2>. QED
    BY <2>1, <2>2, SectionSizes, NullAssumption DEF Dv!FileHeaderSize
<1>13. CASE Dv!SectionFound
  <2>1. /\ op = "sections" /\ addr < eof /\ op' = "done" /\ status' = "EFI_SUCCESS" /\ result' = addr
        /\ UNCHANGED <<file, addr, eof, handles>>
        /\ ~(addr + n > eof) /\ SectionAt(image, addr).type = req.section
    BY <1>13 DEF Dv!SectionFound, Dv!InFile, Dv!Finish, Dv!SectionBad, Dv!Section
  <2>2. WalkTypes'
    BY <1>1, <1>2, <1>3, <1>12, <2>1 DEF WalkTypes, Statuses
  <2>3. addr + n <= eof
    BY <1>1, <1>12, <2>1 DEF WalkTypes
  <2>4. DxeWalk'
    BY <1>1, <1>3, <1>4, <1>12, <2>1, <2>3 DEF DxeWalk
  <2>. QED
    BY <1>3, <1>5, <2>2, <2>4
<1>14. CASE Dv!SectionSkip
  <2>1. /\ op = "sections" /\ addr < eof /\ addr' = addr + n
        /\ UNCHANGED <<op, file, eof, status, result, handles>>
    BY <1>14 DEF Dv!SectionSkip, Dv!InFile, Dv!Section
  <2>2. addr' \in Nat /\ addr' >= dxe + Dv!FileHeaderSize
    BY <1>12, <2>1
  <2>3. WalkTypes'
    BY <1>1, <1>2, <1>3, <2>1, <2>2 DEF WalkTypes
  <2>4. DxeWalk'
    BY <1>1, <1>3, <1>4, <1>12, <2>1, <2>2 DEF DxeWalk
  <2>. QED
    BY <1>3, <1>5, <2>3, <2>4
<1>15. CASE Dv!SectionNone
  BY <1>1, <1>6, <1>15 DEF Dv!SectionNone, Statuses
<1>. QED
  BY <1>3, <1>7, <1>8, <1>9, <1>10, <1>11, <1>13, <1>14, <1>15 DEF Dv!Step

(* Nothing of what has been established depends on anything that a walk
   changes.                                                               *)
LEMMA SoundStays ==
  ASSUME RunsSound, UNCHANGED <<image, core, secData, peim, dxe, loaded>>
  PROVE  RunsSound'
BY DEF RunsSound, HandedSound, HeaderRight, IsCore, IsNamed, IsPeim, IsDxeCore, PeRight,
       Bv!Fits, Dv!Fits

LEMMA WalkStepKeeps == IInv /\ WalkStep => IInv'
<1>. SUFFICES ASSUME IInv, WalkStep PROVE IInv'
  OBVIOUS
<1>1. WInv /\ Order /\ StateTypes /\ RunsSound /\ UNCHANGED <<pc, pei, ppis, dxes>>
  BY DEF IInv, WalkStep
<1>2. WInv' /\ image' = image /\ req' = req
  <2>1. CASE pc \in {"findCore", "findPe32"}
    BY <1>1, <2>1, DxeStep DEF WalkStep, dxes
  <2>2. CASE pc \notin {"findCore", "findPe32"}
    <3>1. Bv!Step
      BY <2>2 DEF WalkStep
    <3>2. op \in {"files", "sections"}
      BY <3>1 DEF Bv!Step, Bv!FileCorrupted, Bv!FileFound, Bv!FileSkip, Bv!FileNone,
                  Bv!SectionCorrupted, Bv!SectionFound, Bv!SectionSkip, Bv!SectionNone,
                  Bv!InVolume, Bv!InFile
    <3>3. pc \in BootWaits
      BY <1>1, <2>2, <3>2 DEF WInv, WalkTypes, DxeWalk, Waits, DxeWaits
    <3>. QED
      BY <1>1, <3>1, <3>3, BootStep DEF dxes
  <2>. QED
    BY <2>1, <2>2
<1>3. Order'
  BY <1>1, <1>2 DEF Order, pei, ppis, dxes, HeaderRight
<1>4. StateTypes'
  BY <1>1, <1>2 DEF StateTypes, pei, ppis, dxes
<1>5. RunsSound'
  BY <1>1, <1>2, SoundStays DEF pei, dxes
<1>. QED
  BY <1>2, <1>3, <1>4, <1>5 DEF IInv

----------------------------------------------------------------------------
(* Calls and returns *)

(* The boot volume is searched for a section, from its first file. *)
LEMMA Asked ==
  ASSUME IInv, NEW s, Bv!GetFileSection(s), s.section # NULL, pc \in Early,
         pc' \in BootWaits, UNCHANGED <<dxe, loaded>>
  PROVE  /\ WInv' /\ image' = image
         /\ req'.type = s.type /\ req'.name = s.name
<1>1. /\ WalkTypes /\ op = "idle" /\ loaded = NULL
  BY DEF IInv, WInv, Order, Bv!GetFileSection
<1>2. file = NULL
  BY <1>1 DEF IInv, WInv, BootWalk, DxeWalk, WalkTypes, Waits, DxeWaits
<1>3. /\ op' = "files" /\ addr' = Bv!First /\ UNCHANGED <<image, file, eof, status, result, handles>>
      /\ req'.type = s.type /\ req'.name = s.name /\ req'.section = s.section
  BY DEF Bv!GetFileSection, Bv!NoRequest
<1>4. WalkTypes'
  BY <1>1, <1>2, <1>3, BootPlaces DEF WalkTypes, Early, BootWaits, Waits
<1>5. BootWalk'
  BY <1>2, <1>3, BootPlaces DEF BootWalk
<1>6. DxeWalk'
  BY <1>1 DEF DxeWalk, BootWaits
<1>. QED
  BY <1>3, <1>4, <1>5, <1>6 DEF WInv

(* An answer is taken, and the processor goes on without a walk. *)
LEMMA Taken ==
  ASSUME IInv, NEW l, Answered(l), pc' \notin Waits, pc' \in Early => pc \in Early,
         pc' \in {"fileInfo", "gotInfo", "loadFile", "findPe32"} \/ loaded' # NULL => DxeCoreFile(dxe)'
  PROVE  WInv' /\ image' = image
<1>1. /\ op' = "idle" /\ file' = NULL /\ addr' = 0 /\ eof' = 0 /\ result' = NULL
      /\ UNCHANGED <<image, status, handles>>
  BY DEF Answered, Bv!Return
<1>2. WalkTypes'
  BY <1>1 DEF IInv, WInv, WalkTypes
<1>3. BootWalk' /\ DxeWalk'
  BY DEF BootWalk, DxeWalk, Waits, BootWaits, DxeWaits
<1>. QED
  BY <1>1, <1>2, <1>3 DEF WInv

(* No walk is going on before or after. *)
LEMMA Still ==
  ASSUME IInv, UNCHANGED walk, pc \notin Waits, pc' \notin Waits, pc' \in Early => pc \in Early,
         pc' \in {"fileInfo", "gotInfo", "loadFile", "findPe32"} \/ loaded' # NULL => DxeCoreFile(dxe)'
  PROVE  WInv' /\ image' = image
<1>1. WalkTypes'
  BY DEF IInv, WInv, WalkTypes, walk
<1>2. BootWalk' /\ DxeWalk'
  BY DEF BootWalk, DxeWalk, Waits, BootWaits, DxeWaits
<1>. QED
  BY <1>1, <1>2 DEF WInv, walk

LEMMA InitHolds == Init => IInv
<1>. SUFFICES ASSUME Init PROVE IInv
  OBVIOUS
<1>1. WInv
  BY DEF Init, Bv!Init, WInv, WalkTypes, BootWalk, DxeWalk, Waits, BootWaits, DxeWaits, Statuses
<1>2. Order
  BY DEF Init, Registry!Init, Order, Places, Early, Ipl, BootWaits, DxeWaits
<1>3. StateTypes
  BY PoolAssumption DEF Init, Registry!Init, StateTypes
<1>4. RunsSound
  BY DEF Init, RunsSound
<1>. QED
  BY <1>1, <1>2, <1>3, <1>4 DEF IInv

(* SEC: the header is checked first, and what is entered is the file of the
   search's type.                                                          *)
LEMMA SecKeeps == IInv /\ Sec => IInv'
<1>. SUFFICES ASSUME IInv, Sec PROVE IInv'
  OBVIOUS
<1>. USE DEF pei, ppis, dxes, Goto
<1>1. WInv /\ WalkTypes /\ Order /\ StateTypes /\ RunsSound
  BY DEF IInv, WInv
<1>2. CASE SecSearch
  <2>1. WInv' /\ image' = image /\ req'.type = "PEI_CORE"
    BY <1>2, Asked, NullAssumption DEF SecSearch, Bv!TeEntryPoint, Early, BootWaits
  <2>2. Order'
    BY <1>1, <1>2, <2>1
    DEF SecSearch, Order, ValidBootFv, HeaderRight, Places, Early, Ipl, BootWaits, DxeWaits
  <2>3. StateTypes' /\ RunsSound'
    BY <1>1, <1>2, <2>1, SoundStays DEF SecSearch, StateTypes
  <2>. QED
    BY <2>1, <2>2, <2>3 DEF IInv
<1>3. CASE SecFails
  <2>1. pc \in {"sec", "secSearch"} /\ pc' = "sleep" /\ UNCHANGED <<pei, ppis, dxes>>
    BY <1>3 DEF SecFails, Answered
  <2>2. loaded' = NULL
    BY <1>1, <2>1 DEF Order, Early, BootWaits
  <2>3. WInv' /\ image' = image
    BY <1>3, <2>1, <2>2, Taken, Still DEF SecFails, Waits, BootWaits, DxeWaits, Early
  <2>4. Order'
    BY <1>1, <2>1, <2>3 DEF Order, Places, Early, Ipl, BootWaits, DxeWaits
  <2>5. StateTypes' /\ RunsSound'
    BY <1>1, <2>1, <2>3, SoundStays DEF StateTypes
  <2>. QED
    BY <2>3, <2>4, <2>5 DEF IInv
<1>4. CASE EnterPei
  <2>1. /\ pc = "secSearch" /\ op = "done" /\ result # NULL /\ pc' = "pei"
        /\ core' = file /\ secData' = HandOff
        /\ UNCHANGED <<services, peim, name, ppiMoved, ppis, dxes>>
    BY <1>4 DEF EnterPei, Answered, Bv!Return
  <2>2. InBootFile(file) /\ req.type = "PEI_CORE" /\ HeaderRight(image) /\ loaded = NULL
    BY <1>1, <2>1 DEF WInv, BootWalk, BootWaits, Order, Early
  <2>3. WInv' /\ image' = image
    BY <1>4, <2>1, <2>2, Taken DEF EnterPei, Waits, BootWaits, DxeWaits, Early
  <2>4. core' \in Bv!Slots /\ core' # NULL /\ Bv!Fits(core)' /\ IsCore(image, core)'
    BY <2>1, <2>2, <2>3, BootPlaces DEF InBootFile, Bv!Fits, Bv!Matching, IsCore
  <2>5. Order'
    BY <1>1, <2>1, <2>3, <2>4 DEF Order, Places, Early, Ipl, BootWaits, DxeWaits
  <2>6. StateTypes'
    BY <1>1, <2>1, <2>3, <2>4 DEF StateTypes, HandOff
  <2>7. RunsSound'
    <3>1. HandedSound'
      <4>1. BootFvLength < SizeBound => BootFvLength % SizeBound = BootFvLength
        BY VolumeAssumption, SizeAssumption
      <4>. QED
        BY <2>1, <4>1, RamAssumption DEF HandOff, HandedSound, Behind, Range
    <3>2. peim' # NULL => core # NULL /\ IsNamed(image, peim)' /\ Bv!Fits(peim)'
      BY <1>1, <2>1, <2>3 DEF RunsSound, IsNamed, IsPeim, Bv!Fits
    <3>. QED
      BY <2>1, <2>2, <2>3, <2>4, <3>1, <3>2 DEF RunsSound, HeaderRight
  <2>. QED
    BY <2>3, <2>5, <2>6, <2>7 DEF IInv
<1>. QED
  BY <1>2, <1>3, <1>4 DEF Sec

(* PEI: the service table is moved before a PEIM runs, and the PEIM that runs
   is the file of the search's type and name.                               *)
LEMMA PeiKeeps == IInv /\ Pei => IInv'
<1>. SUFFICES ASSUME IInv, Pei PROVE IInv'
  OBVIOUS
<1>. USE DEF pei, ppis, dxes, Goto
<1>1. WInv /\ WalkTypes /\ BootWalk /\ Order /\ StateTypes /\ RunsSound
  BY DEF IInv, WInv
<1>2. CASE CalcPeiFixup
  <2>1. WInv' /\ image' = image
    BY <1>2, Asked, NullAssumption DEF CalcPeiFixup, Bv!PeiFixup, Early, BootWaits
  <2>2. Order'
    BY <1>1, <1>2, <2>1 DEF CalcPeiFixup, Order, Places, Early, Ipl, BootWaits, DxeWaits
  <2>3. StateTypes' /\ RunsSound'
    BY <1>1, <1>2, <2>1, SoundStays DEF CalcPeiFixup, StateTypes
  <2>. QED
    BY <2>1, <2>2, <2>3 DEF IInv
<1>3. CASE FixupServices
  <2>. DEFINE d == IF result = NULL THEN 0 ELSE result
  <2>1. /\ pc = "peiFixup" /\ pc' = "initPeims" /\ services' = MoveServices(d)
        /\ UNCHANGED <<core, secData, peim, name, ppiMoved, ppis, dxes>>
    BY <1>3 DEF FixupServices, Answered
  <2>2. loaded = NULL
    BY <1>1, <2>1 DEF Order, Early, BootWaits
  <2>3. WInv' /\ image' = image
    BY <1>3, <2>1, <2>2, Taken DEF FixupServices, Waits, BootWaits, DxeWaits, Early
  <2>4. services' \in [Services -> Nat]
    <3>1. d \in Nat /\ services \in [Services -> Nat]
      BY <1>1 DEF WalkTypes, StateTypes
    <3>. HIDE DEF d
    <3>. QED
      BY <2>1, <3>1 DEF MoveServices
  <2>5. Order'
    BY <1>1, <2>1, <2>3, NullAssumption DEF Order, Places, Early, Ipl, BootWaits, DxeWaits
  <2>6. StateTypes'
    BY <1>1, <2>1, <2>3, <2>4 DEF StateTypes, HandOff
  <2>7. RunsSound'
    BY <1>1, <2>1, <2>3, SoundStays, NullAssumption
  <2>. QED
    BY <2>3, <2>5, <2>6, <2>7 DEF IInv
<1>4. CASE AprioriSearch
  <2>1. WInv' /\ image' = image
    BY <1>4, Asked, NullAssumption DEF AprioriSearch, Bv!AprioriFile, Early, BootWaits
  <2>2. Order'
    BY <1>1, <1>4, <2>1 DEF AprioriSearch, Order, Places, Early, Ipl, BootWaits, DxeWaits
  <2>3. StateTypes' /\ RunsSound'
    BY <1>1, <1>4, <2>1, SoundStays DEF AprioriSearch, StateTypes
  <2>. QED
    BY <2>1, <2>2, <2>3 DEF IInv
<1>5. CASE AprioriFound
  <2>1. /\ pc = "apriori" /\ pc' = "peim" /\ name' = AprioriName(image)
        /\ UNCHANGED <<core, secData, services, peim, ppiMoved, ppis, dxes>>
    BY <1>5 DEF AprioriFound, Answered
  <2>2. loaded = NULL
    BY <1>1, <2>1 DEF Order, Early, BootWaits
  <2>3. WInv' /\ image' = image
    BY <1>5, <2>1, <2>2, Taken DEF AprioriFound, Waits, BootWaits, DxeWaits, Early
  <2>4. Order'
    BY <1>1, <2>1, <2>3 DEF Order, Places, Early, Ipl, BootWaits, DxeWaits
  <2>5. StateTypes' /\ RunsSound'
    BY <1>1, <2>1, <2>3, SoundStays DEF StateTypes, HandOff
  <2>. QED
    BY <2>3, <2>4, <2>5 DEF IInv
<1>6. CASE PeimSearch
  <2>1. WInv' /\ image' = image /\ req'.type = "PEIM" /\ req'.name = name
    BY <1>6, Asked, NullAssumption DEF PeimSearch, PeimTe, Bv!TeEntryPoint, Early, BootWaits
  <2>2. Order'
    BY <1>1, <1>6, <2>1 DEF PeimSearch, Order, Places, Early, Ipl, BootWaits, DxeWaits
  <2>3. StateTypes' /\ RunsSound'
    BY <1>1, <1>6, <2>1, SoundStays DEF PeimSearch, StateTypes
  <2>. QED
    BY <2>1, <2>2, <2>3 DEF IInv
<1>7. CASE NoPeim
  <2>1. pc \in {"apriori", "peimSearch"} /\ pc' = "dispatch" /\ UNCHANGED <<pei, ppis, dxes>>
    BY <1>7 DEF NoPeim, Answered
  <2>2. loaded = NULL
    BY <1>1, <2>1 DEF Order, Early, BootWaits
  <2>3. WInv' /\ image' = image
    BY <1>7, <2>1, <2>2, Taken DEF NoPeim, Waits, BootWaits, DxeWaits, Early
  <2>4. Order'
    BY <1>1, <2>1, <2>2, <2>3 DEF Order, Places, Early, Ipl, BootWaits, DxeWaits
  <2>5. StateTypes' /\ RunsSound'
    BY <1>1, <2>1, <2>3, SoundStays DEF StateTypes, HandOff
  <2>. QED
    BY <2>3, <2>4, <2>5 DEF IInv
<1>8. CASE CallPeimInit
  <2>1. /\ pc = "peimSearch" /\ op = "done" /\ result # NULL /\ pc' = "dxeIplInit" /\ peim' = file
        /\ UNCHANGED <<core, secData, services, name, ppiMoved, ppis, dxes>>
    BY <1>8 DEF CallPeimInit, Answered, Bv!Return
  <2>2. /\ InBootFile(file) /\ req.type = "PEIM" /\ req.name = AprioriName(image)
        /\ image \in Images /\ core # NULL /\ loaded = NULL
    BY <1>1, <2>1 DEF BootWalk, BootWaits, Order, WalkTypes, Early
  <2>3. WInv' /\ image' = image
    BY <1>8, <2>1, <2>2, Taken DEF CallPeimInit, Waits, BootWaits, DxeWaits, Early
  <2>4. peim' \in Bv!Slots /\ peim' # NULL /\ Bv!Fits(peim)' /\ IsNamed(image, peim)'
    BY <2>1, <2>2, <2>3, BootPlaces, NameAssumption
    DEF InBootFile, Bv!Fits, Bv!Matching, IsNamed, IsPeim
  <2>5. Order'
    BY <1>1, <2>1, <2>3, <2>4 DEF Order, Places, Early, Ipl, BootWaits, DxeWaits
  <2>6. StateTypes'
    BY <1>1, <2>1, <2>3, <2>4 DEF StateTypes, HandOff
  <2>7. RunsSound'
    <3>1. /\ HeaderRight(image)' /\ IsCore(image, core)' /\ Bv!Fits(core)' /\ HandedSound'
      BY <1>1, <2>1, <2>2, <2>3 DEF RunsSound, HandedSound, HeaderRight, IsCore, Bv!Fits
    <3>. QED
      BY <2>1, <2>2, <2>3, <2>4, <3>1 DEF RunsSound
  <2>. QED
    BY <2>3, <2>5, <2>6, <2>7 DEF IInv
<1>9. CASE DxeIplInit
  <2>1. WInv' /\ image' = image
    BY <1>9, Asked, NullAssumption DEF DxeIplInit, Bv!PeimFixup, Early, BootWaits
  <2>2. Order'
    BY <1>1, <1>9, <2>1 DEF DxeIplInit, Order, Places, Early, Ipl, BootWaits, DxeWaits
  <2>3. StateTypes' /\ RunsSound'
    BY <1>1, <1>9, <2>1, SoundStays DEF DxeIplInit, StateTypes
  <2>. QED
    BY <2>1, <2>2, <2>3 DEF IInv
<1>10. CASE PeiInstallPpi
  <2>1. /\ pc = "install" /\ op = "done" /\ pc' = "dispatch"
        /\ UNCHANGED <<core, secData, services, peim, name, dxes>>
    BY <1>10 DEF PeiInstallPpi, Answered, Bv!Return
  <2>2. loaded = NULL /\ db = <<>> /\ ran = <<>> /\ peim # NULL
    BY <1>1, <2>1 DEF Order, Early, BootWaits
  <2>3. WInv' /\ image' = image
    BY <1>10, <2>1, <2>2, Taken DEF PeiInstallPpi, Waits, BootWaits, DxeWaits, Early
  <2>4. /\ db' \in Seq({DxeIplPpi}) /\ Len(db') <= MaxCount /\ Len(db') <= 1 /\ ran' = ran
        /\ ppiMoved' \in Nat
    <3>1. CASE status = "EFI_SUCCESS"
      <4>1. /\ Len(db) + Len(mDxeIplPpiList) <= MaxCount /\ db' = db \o mDxeIplPpiList
            /\ ran' = ran /\ ppiMoved' = ppiMoved + result
        BY <1>10, <3>1 DEF PeiInstallPpi, Registry!Install
      <4>2. result \in Nat /\ ppiMoved \in Nat
        BY <1>1, <2>1, <3>1 DEF BootWalk, BootWaits, WalkTypes, StateTypes
      <4>3. mDxeIplPpiList \in Seq({DxeIplPpi}) /\ db \in Seq({DxeIplPpi})
        BY <1>1 DEF mDxeIplPpiList, StateTypes
      <4>4. db' \in Seq({DxeIplPpi}) /\ Len(db') = Len(db) + Len(mDxeIplPpiList)
        BY <4>1, <4>3
      <4>5. Len(db) = 0 /\ Len(mDxeIplPpiList) = 1
        BY <2>2 DEF mDxeIplPpiList
      <4>. QED
        BY <4>1, <4>2, <4>4, <4>5
    <3>2. CASE status # "EFI_SUCCESS"
      BY <1>1, <1>10, <3>2 DEF PeiInstallPpi, StateTypes, Order
    <3>. QED
      BY <3>1, <3>2
  <2>5. Order'
    BY <1>1, <2>1, <2>2, <2>3, <2>4 DEF Order, Places, Early, Ipl, BootWaits, DxeWaits
  <2>6. StateTypes'
    BY <1>1, <2>1, <2>2, <2>3, <2>4 DEF StateTypes, HandOff
  <2>7. RunsSound'
    BY <1>1, <2>1, <2>3, SoundStays
  <2>. QED
    BY <2>3, <2>5, <2>6, <2>7 DEF IInv
<1>11. CASE DispatchPeims
  <2>1. pc = "dispatch" /\ UNCHANGED <<walk, pei, dxes>>
    BY <1>11 DEF DispatchPeims
  <2>2. CASE ToRun /\ pc' = "dxeIpl" /\ Registry!Run
    <3>1. /\ Len(ran) < Len(db) /\ db' = db /\ ran' = Append(ran, db[Len(ran) + 1])
      BY <2>2 DEF ToRun, Registry!Run
    <3>2. /\ ran' \in Seq({DxeIplPpi}) /\ Len(ran') = Len(ran) + 1 /\ Len(ran') <= Len(db)
          /\ Len(db) \in Nat /\ Len(ran) \in Nat /\ Len(db) <= 1
      BY <1>1, <3>1 DEF StateTypes, Order
    <3>3. loaded = NULL /\ peim # NULL
      BY <1>1, <3>1, <3>2 DEF Order
    <3>4. WInv' /\ image' = image
      BY <2>1, <2>2, <3>3, Still DEF Waits, BootWaits, DxeWaits, Early
    <3>5. Order'
      BY <1>1, <2>1, <2>2, <3>1, <3>2, <3>3, <3>4 DEF Order, Places, Early, Ipl, BootWaits, DxeWaits
    <3>6. StateTypes'
      BY <1>1, <2>1, <3>1, <3>2, <3>4 DEF StateTypes, HandOff
    <3>7. RunsSound'
      BY <1>1, <2>1, <3>4, SoundStays
    <3>. QED
      BY <3>4, <3>5, <3>6, <3>7 DEF IInv
  <2>3. CASE pc' = "deadLoop" /\ UNCHANGED ppis
    <3>1. WInv' /\ image' = image
      <4>1. loaded' # NULL => DxeCoreFile(dxe)'
        BY <1>1, <2>1 DEF WInv, DxeWalk, DxeCoreFile, Dv!Fits, IsDxeCore, walk
      <4>. QED
        BY <2>1, <2>3, <4>1, Still DEF Waits, BootWaits, DxeWaits, Early
    <3>2. Order'
      BY <1>1, <2>1, <2>3, <3>1 DEF Order, Places, Early, Ipl, BootWaits, DxeWaits
    <3>3. StateTypes' /\ RunsSound'
      BY <1>1, <2>1, <2>3, <3>1, SoundStays DEF StateTypes, HandOff
    <3>. QED
      BY <3>1, <3>2, <3>3 DEF IInv
  <2>. QED
    BY <1>11, <2>2, <2>3 DEF DispatchPeims
<1>. QED
  BY <1>2, <1>3, <1>4, <1>5, <1>6, <1>7, <1>8, <1>9, <1>10, <1>11 DEF Pei

(* The DXE IPL: what is loaded is a section inside the file that was found,
   with the right headers.                                                  *)
LEMMA DxeKeeps == IInv /\ Dxe => IInv'
<1>. SUFFICES ASSUME IInv, Dxe PROVE IInv'
  OBVIOUS
<1>. USE DEF pei, ppis, dxes, Goto
<1>1. WInv /\ WalkTypes /\ DxeWalk /\ Order /\ StateTypes /\ RunsSound
  BY DEF IInv, WInv
<1>2. CASE FindDxeCore
  <2>1. /\ pc = "dxeIpl" /\ pc' = "findCore" /\ UNCHANGED <<pei, ppis, dxes>>
        /\ op' = "files" /\ addr' = Dv!First
        /\ UNCHANGED <<image, file, eof, status, result, handles>>
        /\ req'.type = "DXE_CORE" /\ req'.section = NULL /\ req'.name = NULL
    BY <1>2 DEF FindDxeCore, Dv!FindNextFileFromStart, Dv!NoRequest
  <2>2. WalkTypes'
    BY <1>1, <2>1, DxePlaces DEF WalkTypes, Waits, BootWaits, DxeWaits, Early
  <2>3. DxeWalk' /\ BootWalk'
    BY <1>1, <2>1, DxePlaces
    DEF DxeWalk, BootWalk, WalkTypes, Order, Ipl, Waits, BootWaits, DxeWaits
  <2>4. Order'
    BY <1>1, <2>1 DEF Order, Places, Early, Ipl, BootWaits, DxeWaits
  <2>5. StateTypes' /\ RunsSound'
    BY <1>1, <2>1, SoundStays DEF StateTypes, HandOff
  <2>. QED
    BY <2>2, <2>3, <2>4, <2>5 DEF IInv, WInv
<1>3. CASE FoundDxeCore
  <2>1. /\ pc = "findCore" /\ op = "done" /\ result # NULL /\ pc' = "fileInfo"
        /\ dxe' = result /\ UNCHANGED <<pei, ppis, loaded>>
    BY <1>3 DEF FoundDxeCore, Answered, Bv!Return
  <2>2. DxeCoreFile(result) /\ loaded = NULL
    BY <1>1, <2>1 DEF DxeWalk, Order, Ipl, DxeWaits
  <2>3. image' = image
    BY <1>3 DEF FoundDxeCore, Answered, Bv!Return
  <2>4. DxeCoreFile(dxe)'
    BY <2>1, <2>2, <2>3 DEF DxeCoreFile, Dv!Fits, IsDxeCore
  <2>5. WInv'
    BY <1>3, <2>1, <2>4, Taken DEF FoundDxeCore, Waits, BootWaits, DxeWaits, Early
  <2>6. Order'
    BY <1>1, <2>1, <2>3 DEF Order, Places, Early, Ipl, BootWaits, DxeWaits
  <2>7. StateTypes'
    BY <1>1, <2>1, <2>2, <2>3 DEF StateTypes, HandOff, DxeCoreFile
  <2>8. RunsSound'
    BY <1>1, <2>1, <2>2, <2>3
    DEF RunsSound, HandedSound, HeaderRight, IsCore, IsNamed, IsPeim, Bv!Fits
  <2>. QED
    BY <2>5, <2>6, <2>7, <2>8 DEF IInv
<1>4. CASE GetFileInfo
  <2>1. /\ pc = "fileInfo" /\ pc' = "gotInfo" /\ UNCHANGED <<pei, ppis, dxes>>
        /\ op' = "done" /\ UNCHANGED <<image, file, addr, eof, handles>>
        /\ \/ status' = "EFI_SUCCESS" /\ result' = dxe + Dv!FileHeaderSize
           \/ status' = "EFI_UNSUPPORTED" /\ result' = NULL
    BY <1>4 DEF GetFileInfo, Dv!GetFileInfo, Dv!walk, Dv!BufferStart
  <2>2. DxeCoreFile(dxe) /\ dxe \in Nat /\ loaded = NULL
    BY <1>1, <2>1, DxePlaces DEF DxeWalk, DxeCoreFile, Order, Ipl
  <2>3. DxeCoreFile(dxe)'
    BY <2>1, <2>2 DEF DxeCoreFile, Dv!Fits, IsDxeCore
  <2>4. WalkTypes'
    BY <1>1, <2>1, <2>2 DEF WalkTypes, Waits, BootWaits, DxeWaits, Early, Statuses, Dv!FileHeaderSize
  <2>5. DxeWalk' /\ BootWalk'
    BY <1>1, <2>1, <2>3 DEF DxeWalk, BootWalk, WalkTypes, Waits, BootWaits, DxeWaits
  <2>6. Order'
    BY <1>1, <2>1 DEF Order, Places, Early, Ipl, BootWaits, DxeWaits
  <2>7. StateTypes' /\ RunsSound'
    BY <1>1, <2>1, SoundStays DEF StateTypes, HandOff
  <2>. QED
    BY <2>4, <2>5, <2>6, <2>7 DEF IInv, WInv
<1>5. CASE DxeIplFails
  <2>1. pc \in {"findCore", "gotInfo"} /\ pc' = "dispatch" /\ UNCHANGED <<pei, ppis, dxes>>
    BY <1>5 DEF DxeIplFails, Answered
  <2>2. loaded = NULL
    BY <1>1, <2>1 DEF Order, Ipl, DxeWaits
  <2>3. WInv' /\ image' = image
    BY <1>5, <2>1, <2>2, Taken DEF DxeIplFails, Waits, BootWaits, DxeWaits, Early
  <2>4. Order'
    BY <1>1, <2>1, <2>3 DEF Order, Places, Early, Ipl, BootWaits, DxeWaits
  <2>5. StateTypes' /\ RunsSound'
    BY <1>1, <2>1, <2>3, SoundStays DEF StateTypes, HandOff
  <2>. QED
    BY <2>3, <2>4, <2>5 DEF IInv
<1>6. CASE LoadAndRunDxeCore
  <2>1. pc = "gotInfo" /\ pc' = "loadFile" /\ UNCHANGED <<pei, ppis, dxes>> /\ image' = image
    BY <1>6 DEF LoadAndRunDxeCore, Answered, Bv!Return
  <2>2. DxeCoreFile(dxe)'
    BY <1>1, <2>1 DEF DxeWalk, DxeCoreFile, Dv!Fits, IsDxeCore
  <2>3. WInv'
    BY <1>6, <2>1, <2>2, Taken DEF LoadAndRunDxeCore, Waits, BootWaits, DxeWaits, Early
  <2>4. Order'
    BY <1>1, <2>1 DEF Order, Places, Early, Ipl, BootWaits, DxeWaits
  <2>5. StateTypes' /\ RunsSound'
    BY <1>1, <2>1, SoundStays DEF StateTypes, HandOff
  <2>. QED
    BY <2>3, <2>4, <2>5 DEF IInv
<1>7. CASE PeiLoadFile
  <2>1. /\ pc = "loadFile" /\ pc' = "findPe32" /\ UNCHANGED <<pei, ppis, dxes>>
        /\ op' = "sections" /\ file' = dxe /\ addr' = Bv!AlignUp(dxe + Dv!FileHeaderSize, 4)
        /\ eof' = dxe + FileAt(image, dxe).size
        /\ UNCHANGED <<image, status, result, handles>> /\ req'.section = "PE32"
    BY <1>7 DEF PeiLoadFile, Dv!FindSectionData, Dv!EnterFile, Dv!NoRequest, Dv!AlignUp, Bv!AlignUp
  <2>2. DxeCoreFile(dxe) /\ dxe \in Nat /\ FileAt(image, dxe).size \in Nat
    BY <1>1, <2>1, DxePlaces DEF DxeWalk, DxeCoreFile, WalkTypes
  <2>3. DxeCoreFile(dxe)'
    BY <2>1, <2>2 DEF DxeCoreFile, Dv!Fits, IsDxeCore
  <2>4. addr' \in Nat /\ addr' >= dxe + Dv!FileHeaderSize /\ eof' \in Nat
    BY <2>1, <2>2, AlignUpTo4 DEF Dv!FileHeaderSize
  <2>5. WalkTypes'
    BY <1>1, <2>1, <2>4 DEF WalkTypes, Waits, BootWaits, DxeWaits, Early
  <2>6. DxeWalk' /\ BootWalk'
    BY <1>1, <2>1, <2>3, <2>4 DEF DxeWalk, BootWalk, BootWaits
  <2>7. Order'
    BY <1>1, <2>1 DEF Order, Places, Early, Ipl, BootWaits, DxeWaits
  <2>8. StateTypes' /\ RunsSound'
    BY <1>1, <2>1, SoundStays DEF StateTypes, HandOff
  <2>. QED
    BY <2>5, <2>6, <2>7, <2>8 DEF IInv, WInv
<1>8. CASE PeiLoadPe32
  <2>1. /\ pc = "findPe32" /\ op = "done" /\ image' = image /\ UNCHANGED <<pei, ppis, dxe>>
        /\ \/ Pe32Loads /\ loaded' = result /\ pc' = "loaded"
           \/ UNCHANGED loaded /\ pc' = "hung"
    BY <1>8 DEF PeiLoadPe32, Answered, Bv!Return
  <2>2. DxeCoreFile(dxe) /\ loaded = NULL /\ peim # NULL
    BY <1>1, <2>1 DEF DxeWalk, Order, Ipl, DxeWaits
  <2>3. DxeCoreFile(dxe)'
    BY <2>1, <2>2 DEF DxeCoreFile, Dv!Fits, IsDxeCore
  <2>4. WInv'
    BY <1>8, <2>1, <2>3, Taken DEF PeiLoadPe32, Waits, BootWaits, DxeWaits, Early
  <2>5. Order'
    BY <1>1, <2>1 DEF Order, Places, Early, Ipl, BootWaits, DxeWaits
  <2>6. StateTypes'
    BY <1>1, <2>1 DEF StateTypes, HandOff, WalkTypes
  <2>7. CASE UNCHANGED loaded
    BY <1>1, <2>1, <2>4, <2>5, <2>6, <2>7, SoundStays DEF IInv
  <2>8. CASE Pe32Loads /\ loaded' = result
    <3>1. /\ result # NULL /\ PeRight(image)
          /\ dxe + Dv!FileHeaderSize <= result
          /\ result + SectionAt(image, result).size <= dxe + FileAt(image, dxe).size
          /\ SectionAt(image, result).type = "PE32"
      BY <1>1, <2>1, <2>8 DEF Pe32Loads, PeRight, DxeWalk
    <3>2. /\ core' # NULL => HeaderRight(image)' /\ IsCore(image, core)' /\ Bv!Fits(core)' /\ HandedSound'
          /\ peim' # NULL => core' # NULL /\ IsNamed(image, peim)' /\ Bv!Fits(peim)'
      BY <1>1, <2>1 DEF RunsSound, HandedSound, HeaderRight, IsCore, IsNamed, IsPeim, Bv!Fits
    <3>3. RunsSound'
      BY <2>1, <2>2, <2>3, <2>8, <3>1, <3>2 DEF RunsSound, DxeCoreFile, PeRight
    <3>. QED
      BY <2>4, <2>5, <2>6, <3>3 DEF IInv
  <2>. QED
    BY <2>1, <2>7, <2>8
<1>9. CASE LoadAndRunReturns
  <2>1. pc = "loaded" /\ pc' = "dispatch" /\ UNCHANGED <<walk, pei, ppis, dxes>>
    BY <1>9 DEF LoadAndRunReturns
  <2>2. loaded' # NULL => DxeCoreFile(dxe)'
    BY <1>1, <2>1 DEF DxeWalk, DxeCoreFile, Dv!Fits, IsDxeCore, walk
  <2>3. WInv' /\ image' = image
    BY <2>1, <2>2, Still DEF Waits, BootWaits, DxeWaits, Early
  <2>4. Order'
    BY <1>1, <2>1, <2>3 DEF Order, Places, Early, Ipl, BootWaits, DxeWaits
  <2>5. StateTypes' /\ RunsSound'
    BY <1>1, <2>1, <2>3, SoundStays DEF StateTypes, HandOff
  <2>. QED
    BY <2>3, <2>4, <2>5 DEF IInv
<1>. QED
  BY <1>2, <1>3, <1>4, <1>5, <1>6, <1>7, <1>8, <1>9 DEF Dxe

LEMMA GoAstrayKeeps == IInv /\ GoAstray => IInv'
<1>. SUFFICES ASSUME IInv, GoAstray PROVE IInv'
  OBVIOUS
<1>. USE DEF pei, ppis, dxes, Goto
<1>1. WInv /\ DxeWalk /\ Order /\ StateTypes /\ RunsSound
  BY DEF IInv, WInv
<1>2. /\ pc \in {"dxeIplInit", "dxeIpl", "fileInfo", "loadFile", "dispatch"}
      /\ pc' = "astray" /\ UNCHANGED <<walk, pei, ppis, dxes>>
  BY DEF GoAstray, Calls
<1>3. loaded' # NULL => DxeCoreFile(dxe)'
  BY <1>1, <1>2 DEF DxeWalk, DxeCoreFile, Dv!Fits, IsDxeCore, walk
<1>4. WInv' /\ image' = image
  BY <1>2, <1>3, Still DEF Waits, BootWaits, DxeWaits, Early
<1>5. Order'
  BY <1>1, <1>2, <1>4 DEF Order, Places, Early, Ipl, BootWaits, DxeWaits
<1>6. StateTypes' /\ RunsSound'
  BY <1>1, <1>2, <1>4, SoundStays DEF StateTypes, HandOff
<1>. QED
  BY <1>4, <1>5, <1>6 DEF IInv

LEMMA StutterKeeps == IInv /\ UNCHANGED vars => IInv'
<1>. SUFFICES ASSUME IInv, UNCHANGED vars PROVE IInv'
  OBVIOUS
<1>. USE DEF vars, walk, pei, ppis, dxes
<1>1. WInv' /\ Order' 
  BY DEF IInv, WInv, WalkTypes, BootWalk, DxeWalk, InBootFile, DxeCoreFile, Bv!Fits, Dv!Fits,
         Bv!Matching, IsDxeCore, Order, HeaderRight
<1>2. StateTypes' /\ RunsSound'
  BY SoundStays DEF IInv, StateTypes, HandOff
<1>. QED
  BY <1>1, <1>2 DEF IInv

LEMMA Invariance == Spec => []IInv
<1>1. IInv /\ [Next]_vars => IInv'
  BY SecKeeps, PeiKeeps, DxeKeeps, GoAstrayKeeps, WalkStepKeeps, StutterKeeps DEF Next
<1>. QED
  BY <1>1, InitHolds, PTL DEF Spec

(* Wherever the boot is, it has made no walk out of its volumes, installed no
   more than the pool holds, and run no more than is installed, whatever the
   flash holds.                                                              *)
THEOREM TypeCorrect == Spec => []TypeOK
<1>1. ASSUME IInv PROVE TypeOK
  <2>1. WalkTypes /\ BootWalk /\ DxeWalk /\ Order /\ StateTypes
    BY <1>1 DEF IInv, WInv
  <2>2. CASE pc \in BootWaits
    <3>1. handles = {} /\ file \in Bv!Slots \cup {NULL}
      BY <2>1, <2>2 DEF WalkTypes, BootWalk, Early, InBootFile
    <3>2. Bv!TypeOK
      BY <2>1, <3>1 DEF WalkTypes, Bv!TypeOK, Statuses
    <3>. QED
      BY <2>1, <3>2 DEF StateTypes, TypeOK, Stopped, Order, Places, Early, Ipl, BootWaits, DxeWaits
  <2>3. CASE pc \notin BootWaits
    <3>1. file \in Dv!Slots \cup {NULL}
      BY <2>1, <2>3 DEF WalkTypes, DxeWalk, Waits, DxeWaits, StateTypes
    <3>2. Dv!TypeOK
      BY <2>1, <3>1 DEF WalkTypes, Dv!TypeOK, Statuses
    <3>. QED
      BY <2>1, <3>2 DEF StateTypes, TypeOK, Stopped, Order, Places, Early, Ipl, BootWaits, DxeWaits
  <2>. QED
    BY <2>2, <2>3
<1>. QED
  BY <1>1, Invariance, PTL

(* Whatever the flash holds, the PEI core and the PEIM are files of their kind
   inside the checked boot volume, entered in this order with their memory
   and their services prepared, and the image that is loaded is the DXE core's,
   inside its file and with the headers of a PE32 image.                     *)
THEOREM OnlyCheckedCodeRuns == Spec => []RunsSound
<1>1. IInv => RunsSound
  BY DEF IInv
<1>. QED
  BY <1>1, Invariance, PTL
=============================================================================
