--------------------------- MODULE FfsWalkProofs ---------------------------
(***************************************************************************)
(* Proofs about FfsWalk for every volume, whatever its headers hold: the   *)
(* walks hand out nothing that reaches out of its container, and a search  *)
(* from the start of the volume stops at the right file, a search in a     *)
(* file at the right section, and each step of either moves on.            *)
(***************************************************************************)
EXTENDS FfsWalk, Chains, TLAPS

Size(a) == FileAt(image, a).size

(* Where the walks are: at a place where a file header may lie, or behind
   the header of a file that fits the volume.                             *)
PlaceInv ==
  /\ op \in {"idle", "files"} => file = NULL
  /\ op = "files" => addr % 8 = 0 /\ req.type # NULL /\ (FromStart => First <= addr)
  /\ \A h \in handles : Fits(h)
  /\ op = "sections" =>
       /\ file \in Slots
       /\ Fits(file)
       /\ eof = file + Size(file)
       /\ addr >= BufferStart(file)
       /\ req.section # NULL
       /\ FromStart => First <= file

CInv == TypeOK /\ PlaceInv /\ ResultContained

----------------------------------------------------------------------------
(* Alignment moves up, by less than the unit. *)
LEMMA AlignUpTo8 ==
  ASSUME NEW a \in Nat
  PROVE  /\ AlignUp(a, 8) \in Nat /\ AlignUp(a, 8) % 8 = 0
         /\ a <= AlignUp(a, 8) /\ AlignUp(a, 8) <= a + 7
  BY DEF AlignUp

LEMMA AlignUpTo4 ==
  ASSUME NEW a \in Nat
  PROVE  AlignUp(a, 4) \in Nat /\ a <= AlignUp(a, 4)
  BY DEF AlignUp

LEMMA Places ==
  /\ Eov \in Nat /\ First \in Nat /\ First % 8 = 0
  /\ \A a \in Nat : a % 8 = 0 /\ a < Eov => a \in Slots
  /\ \A a \in Slots : a \in Nat /\ a < Eov /\ a % 8 = 0 /\ a # NULL
<1>1. FvBase + HeaderLength \in Nat /\ Eov \in Nat
  BY VolumeAssumption DEF Eov
<1>2. First \in Nat /\ First % 8 = 0
  BY <1>1, AlignUpTo8 DEF First
<1>. QED
  BY <1>1, <1>2, StaleAssumption DEF Slots

LEMMA Sizes ==
  ASSUME TypeOK
  PROVE  /\ \A a \in Slots : Size(a) \in Nat /\ Size(a) < SizeBound
         /\ \A a \in Slots : a + Size(a) \in Nat
         /\ \A a \in Nat : a < Eov => SectionAt(image, a).size \in Nat
<1>1. image \in Images
  BY DEF TypeOK
<1>2. \A a \in Slots : Size(a) \in 0..SizeBound - 1
  BY <1>1, SizeAssumption DEF Size
<1>3. \A a \in Nat : a < Eov => a \in 0..Eov - 1
  BY Places
<1>. QED
  BY <1>1, <1>2, <1>3, SizeAssumption, Places

(* A file whose sections are walked is not shorter than its header, so the
   size of its buffer does not wrap.                                      *)
LEMMA NoWrap ==
  ASSUME NEW n \in Nat, NEW x \in Nat, x < n
  PROVE  x % n = x
  OBVIOUS

LEMMA InfoWraps ==
  ASSUME TypeOK, NEW f \in Slots
  PROVE  BufferStart(f) + BufferSize(f) = f + Size(f) <=> Size(f) >= FileHeaderSize
<1>. DEFINE x == Size(f) - FileHeaderSize
<1>1. f \in Nat /\ Size(f) \in Nat /\ Size(f) < SizeBound /\ SizeBound \in Nat
  BY Places, Sizes, SizeAssumption
<1>2. BufferStart(f) = f + FileHeaderSize /\ BufferSize(f) = x % SizeBound
  BY DEF BufferStart, BufferSize, Size
<1>3. CASE Size(f) >= FileHeaderSize
  <2>1. x \in Nat /\ x < SizeBound
    BY <1>1, <1>3 DEF FileHeaderSize
  <2>2. BufferSize(f) = x
    BY <1>1, <1>2, <2>1, NoWrap
  <2>. QED
    BY <1>1, <1>2, <1>3, <2>2 DEF FileHeaderSize
<1>4. CASE ~(Size(f) >= FileHeaderSize)
  <2>1. x \in Int /\ x < 0
    BY <1>1, <1>4 DEF FileHeaderSize
  <2>2. x % SizeBound >= 0 /\ x % SizeBound \in Int
    <3>. HIDE DEF x
    <3>. QED
      BY <1>1, <2>1
  <2>. QED
    BY <1>1, <1>2, <1>4, <2>1, <2>2 DEF FileHeaderSize
<1>. QED
  BY <1>3, <1>4

LEMMA InitContained == Init => CInv
  BY DEF Init, CInv, TypeOK, PlaceInv, ResultContained, Answered, FromStart, NoRequest

LEMMA NextContained == CInv /\ [Next]_vars => CInv'
<1>. SUFFICES ASSUME CInv, [Next]_vars PROVE CInv'
  OBVIOUS
<1>. USE DEF CInv, walk, FromStart
<1>1. TypeOK /\ PlaceInv /\ ResultContained
  OBVIOUS
<1>2. ASSUME NEW s \in Searches, GetFileSection(s) PROVE CInv'
  <2>1. TypeOK'
    BY <1>2, Places DEF GetFileSection, TypeOK
  <2>2. PlaceInv' /\ ResultContained'
    BY <1>2, Places, TypesAssumption
    DEF GetFileSection, PlaceInv, ResultContained, Answered, Fits, NoRequest
  <2>. QED
    BY <2>1, <2>2
<1>3. ASSUME NEW t \in FileTypes, FindNextFileFromStart(t) PROVE CInv'
  <2>1. TypeOK'
    BY <1>3, Places DEF FindNextFileFromStart, TypeOK
  <2>2. PlaceInv' /\ ResultContained'
    BY <1>3, Places, TypesAssumption
    DEF FindNextFileFromStart, PlaceInv, ResultContained, Answered, Fits, NoRequest
  <2>. QED
    BY <2>1, <2>2
<1>4. ASSUME NEW t \in FileTypes, NEW h \in handles, FindNextFileAfter(t, h) PROVE CInv'
  <2>. PICK stale \in Stale : addr' = AlignUp(stale + FileAt(image, h).size, 8)
    BY <1>4 DEF FindNextFileAfter
  <2>1. h \in Slots
    BY DEF TypeOK
  <2>2. stale + Size(h) \in Nat
    BY <2>1, Sizes, StaleAssumption
  <2>3. addr' \in Nat /\ addr' % 8 = 0
    BY <2>2, AlignUpTo8 DEF Size
  <2>4. TypeOK'
    BY <1>4, <2>3 DEF FindNextFileAfter, TypeOK
  <2>5. PlaceInv' /\ ResultContained'
    BY <1>4, <2>1, <2>3, Places, TypesAssumption
    DEF FindNextFileAfter, PlaceInv, ResultContained, Answered, Fits, NoRequest
  <2>. QED
    BY <2>4, <2>5
<1>5. ASSUME NEW f \in Slots, Fits(f), EnterFile(f), image' = image, handles' = handles,
             status' = status, result' = result, req'.section # NULL,
             FromStart' => First <= f
      PROVE  CInv'
  <2>1. f + FileHeaderSize \in Nat /\ f + Size(f) \in Nat
    BY Places, Sizes DEF FileHeaderSize
  <2>2. addr' \in Nat /\ addr' >= f + FileHeaderSize /\ eof' = f + Size(f)
    BY <1>5, <2>1, AlignUpTo4 DEF EnterFile, Size
  <2>3. TypeOK'
    BY <1>5, <2>1, <2>2 DEF EnterFile, TypeOK
  <2>4. PlaceInv'
    BY <1>5, <2>2 DEF EnterFile, PlaceInv, Fits, Size, BufferStart
  <2>5. ResultContained'
    BY <1>5 DEF EnterFile, PlaceInv, ResultContained, Answered, Fits
  <2>. QED
    BY <2>3, <2>4, <2>5
<1>6. ASSUME NEW t \in SectionTypes, NEW h \in handles, FindSectionData(t, h) PROVE CInv'
  <2>1. h \in Slots /\ Fits(h)
    BY DEF TypeOK, PlaceInv
  <2>2. req'.section # NULL /\ ~FromStart'
    BY <1>6, TypesAssumption DEF FindSectionData, NoRequest
  <2>. QED
    BY <1>5, <1>6, <2>1, <2>2 DEF FindSectionData
<1>7. ASSUME NEW h \in handles, GetFileInfo(h) PROVE CInv'
  <2>1. h \in Slots /\ h + FileHeaderSize \in Nat
    BY Places DEF TypeOK, FileHeaderSize
  <2>2. TypeOK'
    BY <1>7, <2>1 DEF GetFileInfo, TypeOK, BufferStart
  <2>3. req'.from = h /\ req'.section = NULL /\ req'.type = NULL
    BY <1>7 DEF GetFileInfo, NoRequest
  <2>4. PlaceInv' /\ \A g \in handles' : Fits(g)'
    BY <1>7, <2>3 DEF GetFileInfo, PlaceInv, Fits
  <2>5. BufferStart(h) + BufferSize(h) = h + Size(h) <=> Size(h) >= FileHeaderSize
    BY <2>1, InfoWraps
  <2>6. Answered' => result' = BufferStart(h) /\ BufferSize(req.from)' = BufferSize(h)
    BY <1>7, <2>3 DEF GetFileInfo, Answered, BufferSize
  <2>7. ResultContained'
    BY <1>7, <2>3, <2>4, <2>5, <2>6 DEF GetFileInfo, ResultContained, Size
  <2>. QED
    BY <2>2, <2>4, <2>7
<1>8. CASE Refuse
  BY <1>8 DEF Refuse, TypeOK, PlaceInv, ResultContained, Answered, Fits
<1>9. ASSUME NEW s, s \in {"EFI_VOLUME_CORRUPTED", "EFI_NOT_FOUND"}, Finish(s, NULL),
             image' = image, handles' = handles, UNCHANGED walk
      PROVE  CInv'
  BY <1>9 DEF Finish, TypeOK, PlaceInv, ResultContained, Answered, Fits
<1>10. CASE FileCorrupted
  BY <1>9, <1>10 DEF FileCorrupted
<1>11. CASE FileFound
  <2>1. /\ addr \in Slots /\ Fits(addr) /\ image' = image /\ req' = req
        /\ FromStart => First <= addr
    BY <1>11, Places DEF FileFound, InVolume, TypeOK, PlaceInv, Fits, FileEnd, File
  <2>2. CASE req.section # NULL
    BY <1>5, <1>11, <2>1, <2>2 DEF FileFound
  <2>3. CASE req.section = NULL
    <3>1. /\ op' = "done" /\ result' = addr /\ status' = "EFI_SUCCESS"
          /\ handles' = handles \cup {addr} /\ file' = file /\ addr' = addr /\ eof' = eof
      BY <1>11, <2>3 DEF FileFound, Finish
    <3>2. TypeOK'
      BY <2>1, <3>1 DEF TypeOK
    <3>3. PlaceInv' /\ ResultContained'
      <4>1. op = "files" /\ addr # NULL
        BY <1>11, <2>1, Places DEF FileFound, InVolume
      <4>2. req.type # NULL
        BY <1>11, <4>1 DEF PlaceInv
      <4>. QED
        BY <2>1, <2>3, <3>1, <4>1, <4>2 DEF PlaceInv, ResultContained, Answered, Fits
    <3>. QED
      BY <3>2, <3>3
  <2>. QED
    BY <2>2, <2>3
<1>12. CASE FileSkip
  <2>1. addr \in Slots
    BY <1>12, Places DEF FileSkip, InVolume, TypeOK, PlaceInv
  <2>2. addr' \in Nat /\ addr' % 8 = 0 /\ addr <= addr' /\ addr \in Nat
    BY <1>12, <2>1, Sizes, AlignUpTo8, Places DEF FileSkip, FileEnd, File, Size
  <2>3. TypeOK'
    BY <1>12, <2>2 DEF FileSkip, InVolume, TypeOK
  <2>4. PlaceInv' /\ ResultContained'
    BY <1>12, <2>2, Places DEF FileSkip, InVolume, PlaceInv, ResultContained, Answered, Fits
  <2>. QED
    BY <2>3, <2>4
<1>13. CASE FileNone
  BY <1>9, <1>13 DEF FileNone
<1>14. CASE SectionCorrupted
  BY <1>9, <1>14 DEF SectionCorrupted
<1>15. CASE SectionFound
  <2>. DEFINE n == SectionAt(image, addr).size
  <2>1. /\ op = "sections" /\ addr < eof /\ ~(n < SectionHeaderSize) /\ ~(addr + n > eof)
        /\ op' = "done" /\ status' = "EFI_SUCCESS" /\ result' = addr
        /\ UNCHANGED <<image, req, file, addr, eof, handles>>
    BY <1>15 DEF SectionFound, InFile, SectionBad, Section, Finish
  <2>2. /\ file \in Slots /\ file \in Nat /\ addr \in Nat /\ addr >= BufferStart(file)
        /\ file + Size(file) <= Eov /\ eof = file + Size(file) /\ Size(file) \in Nat
        /\ Size(file) < SizeBound /\ eof \in Nat /\ SizeBound \in Nat
    BY <2>1, Places, Sizes, SizeAssumption DEF PlaceInv, Fits, Size, TypeOK
  <2>3. n \in Nat /\ n >= SectionHeaderSize /\ addr + n <= eof
    BY <2>1, <2>2, Places, Sizes DEF SectionHeaderSize
  <2>4. Size(file) - FileHeaderSize \in Nat /\ Size(file) - FileHeaderSize < SizeBound
    BY <2>1, <2>2, <2>3 DEF BufferStart, FileHeaderSize, SectionHeaderSize
  <2>5. BufferSize(file) = Size(file) - FileHeaderSize
    BY <2>2, <2>4, NoWrap DEF BufferSize, Size
  <2>6. addr + n <= BufferStart(file) + BufferSize(file)
    BY <2>2, <2>3, <2>5 DEF BufferStart, FileHeaderSize
  <2>7. TypeOK'
    BY <2>1, <2>2 DEF TypeOK
  <2>8. PlaceInv'
    BY <2>1 DEF PlaceInv, Fits
  <2>9. ResultContained'
    <3>1. \A h \in handles' : Fits(h)'
      BY <2>1 DEF PlaceInv, Fits
    <3>3. Fits(file)' /\ file # NULL /\ (FromStart' => First <= file)
      BY <2>1, <2>2, Places DEF PlaceInv, Fits
    <3>4. req.section # NULL
      BY <2>1 DEF PlaceInv
    <3>2. BufferSize(file)' = BufferSize(file) /\ BufferStart(file)' = BufferStart(file)
      BY <2>1 DEF BufferSize, BufferStart
    <3>. QED
      BY <2>1, <2>2, <2>3, <2>6, <3>1, <3>2, <3>3, <3>4 DEF ResultContained, Size
  <2>. QED
    BY <2>7, <2>8, <2>9
<1>16. CASE SectionSkip
  <2>1. /\ op = "sections" /\ addr < eof /\ addr' = addr + SectionAt(image, addr).size
        /\ UNCHANGED <<image, op, req, file, eof, status, result, handles>>
    BY <1>16 DEF SectionSkip, InFile, Section
  <2>2. addr \in Nat /\ addr < Eov /\ BufferStart(file) \in Nat
    BY <2>1, Places, Sizes DEF PlaceInv, Fits, Size, TypeOK, BufferStart, FileHeaderSize
  <2>3. addr' \in Nat /\ addr' >= addr
    BY <2>1, <2>2, Sizes
  <2>4. TypeOK'
    BY <2>1, <2>3 DEF TypeOK
  <2>5. PlaceInv'
    BY <2>1, <2>2, <2>3 DEF PlaceInv, Fits, Size, BufferStart
  <2>6. ResultContained'
    BY <2>1 DEF PlaceInv, ResultContained, Answered, Fits
  <2>. QED
    BY <2>4, <2>5, <2>6
<1>17. CASE SectionNone
  BY <1>9, <1>17 DEF SectionNone
<1>18. CASE Return
  BY <1>18 DEF Return, TypeOK, PlaceInv, ResultContained, Answered, Fits
<1>19. CASE UNCHANGED vars
  BY <1>19 DEF vars, TypeOK, PlaceInv, ResultContained, Answered, Fits, Size, BufferStart, BufferSize
<1>. QED
  BY <1>2, <1>3, <1>4, <1>6, <1>7, <1>8, <1>10, <1>11, <1>12, <1>13, <1>14, <1>15, <1>16,
     <1>17, <1>18, <1>19 DEF Next, Call, Step

LEMMA Invariance == Spec => []CInv
  BY InitContained, NextContained, PTL DEF Spec

(* Every address that is followed as a file header is an aligned one inside
   the volume.                                                            *)
THEOREM TypeCorrect == Spec => []TypeOK
<1>1. CInv => TypeOK
  BY DEF CInv
<1>. QED
  BY <1>1, Invariance, PTL

(* Whatever sizes the headers of a volume claim, the checks of the loops keep
   every answer inside its container: it begins behind the header of its
   volume or file and ends with it, and the size that GetFileInfo reports
   wraps exactly for the files that are shorter than their headers.       *)
THEOREM Contained == Spec => []ResultContained
<1>1. CInv => ResultContained
  BY DEF CInv
<1>. QED
  BY <1>1, Invariance, PTL

----------------------------------------------------------------------------
(* SearchExact.  While a search from the start walks the files, it is at a
   file of the volume or behind them all, and every file it has passed fits,
   does not match, and is followed by one it has come to.                 *)
WalkInv ==
  op = "files" /\ FromStart =>
    /\ addr >= First
    /\ addr < Eov => addr \in Files
    /\ \A b \in Files : b < addr => Fits(b) /\ ~Matching(b) /\ FileAfter(b) <= addr

WInv == WalkInv /\ SearchExact

(* Files is the smallest closed set. *)
LEMMA FilesClosed == TypeOK => Closed(Files) /\ Files \subseteq FileSlots
<1>. SUFFICES ASSUME TypeOK PROVE Closed(Files) /\ Files \subseteq FileSlots
  OBVIOUS
<1>1. First \in Slots => First \in Files
  BY Places DEF Files, FileSlots, Closed
<1>2. ASSUME NEW a \in Files, Fits(a), FileAfter(a) \in Slots PROVE FileAfter(a) \in Files
  <2>1. a \in Slots /\ First <= a /\ a + Size(a) \in Nat /\ Size(a) \in Nat
    BY <1>2, Sizes DEF Files, FileSlots
  <2>2. FileAfter(a) \in Nat /\ First <= FileAfter(a)
    <3>1. FileAfter(a) \in Nat /\ a + Size(a) <= FileAfter(a)
      BY <2>1, AlignUpTo8 DEF FileAfter, Size
    <3>. QED
      BY <2>1, <3>1, Places
  <2>3. FileAfter(a) \in FileSlots
    BY <1>2, <2>2 DEF FileSlots
  <2>4. \A S \in SUBSET FileSlots : Closed(S) => FileAfter(a) \in S
    BY <1>2 DEF Files, Closed
  <2>. QED
    BY <2>3, <2>4 DEF Files
<1>. QED
  BY <1>1, <1>2 DEF Closed, Files

LEMMA FilesLeast ==
  ASSUME NEW S \in SUBSET FileSlots, Closed(S)
  PROVE  Files \subseteq S
  BY DEF Files

(* Between a file and the one behind it there is none, if every file before
   it is followed by one that does not lie behind it.                     *)
LEMMA NoFileBetween ==
  ASSUME TypeOK, NEW a \in Files, Fits(a),
         \A b \in Files : b < a => FileAfter(b) <= a
  PROVE  \A b \in Files : b < FileAfter(a) => b <= a
<1>. DEFINE S == {b \in Files : b <= a \/ b >= FileAfter(a)}
<1>1. Closed(Files) /\ Files \subseteq FileSlots
  BY FilesClosed
<1>2. \A b \in Files : /\ b \in Slots /\ b \in Nat /\ First <= b
                       /\ FileAfter(b) \in Nat /\ b <= FileAfter(b)
  <2>. TAKE b \in Files
  <2>1. b \in Slots /\ First <= b /\ b \in Nat /\ Size(b) \in Nat /\ b + Size(b) \in Nat
    BY <1>1, Sizes, Places DEF FileSlots
  <2>2. FileAfter(b) \in Nat /\ b + Size(b) <= FileAfter(b)
    BY <2>1, AlignUpTo8 DEF FileAfter, Size
  <2>. QED
    BY <2>1, <2>2
<1>3. First \in Slots => First \in S
  BY <1>1, <1>2, Places DEF Closed
<1>4. ASSUME NEW b \in S, Fits(b), FileAfter(b) \in Slots PROVE FileAfter(b) \in S
  <2>1. b \in Files /\ FileAfter(b) \in Files
    BY <1>1, <1>4 DEF Closed
  <2>2. CASE b < a
    BY <2>1, <2>2
  <2>3. CASE b = a
    BY <1>2, <2>1, <2>3
  <2>4. CASE b > a
    BY <1>2, <2>1, <2>4
  <2>. QED
    BY <1>2, <2>1, <2>2, <2>3, <2>4
<1>5. Closed(S)
  BY <1>3, <1>4 DEF Closed
<1>6. Files \subseteq S
  BY <1>1, <1>5, FilesLeast
<1>. QED
  BY <1>2, <1>6

LEMMA InitSearch == Init => WInv
  BY DEF Init, WInv, WalkInv, SearchExact

(* What is said of a search depends on the image and the request only. *)
LEMMA SameAnswers ==
  ASSUME image' = image, req' = req
  PROVE  /\ Files' = Files
         /\ Stops' = Stops
         /\ \A a : Fits(a)' <=> Fits(a)
         /\ \A a : Matching(a)' <=> Matching(a)
         /\ \A a : FileAfter(a)' = FileAfter(a)
         /\ \A a : StopsAt(a)' <=> StopsAt(a)
         /\ FromStart' <=> FromStart
<1>1. Files' = Files
  BY DEF Files, Closed, Fits, FileAfter
<1>2. \A a : Fits(a)' <=> Fits(a)
  BY DEF Fits
<1>3. \A a : Matching(a)' <=> Matching(a)
  BY DEF Matching
<1>4. Stops' = Stops
  BY <1>1, <1>2, <1>3 DEF Stops
<1>5. \A a : StopsAt(a)' <=> StopsAt(a)
  BY <1>4 DEF StopsAt
<1>6. \A a : FileAfter(a)' = FileAfter(a)
  BY DEF FileAfter
<1>7. FromStart' <=> FromStart
  BY DEF FromStart
<1>. QED
  BY <1>1, <1>2, <1>3, <1>4, <1>5, <1>6, <1>7

LEMMA FilesAreNumbers == TypeOK => \A a \in Files : a \in Nat /\ a < Eov /\ a # NULL
  BY FilesClosed, Places DEF FileSlots

(* A search that stands at a file that stops it has passed no other. *)
LEMMA StandsAtStop ==
  ASSUME TypeOK, WalkInv, op = "files", FromStart, addr < Eov,
         ~Fits(addr) \/ Matching(addr)
  PROVE  StopsAt(addr) /\ addr \in Files
<1>1. addr \in Files /\ addr \in Nat
  BY DEF WalkInv, TypeOK
<1>2. \A a \in Stops : addr <= a
  BY <1>1, FilesAreNumbers DEF WalkInv, Stops
<1>. QED
  BY <1>1, <1>2 DEF StopsAt, Stops

LEMMA NextSearch == CInv /\ WInv /\ [Next]_vars => WInv'
<1>. SUFFICES ASSUME CInv, WInv, [Next]_vars PROVE WInv'
  OBVIOUS
<1>. USE DEF walk
<1>1. TypeOK /\ PlaceInv /\ WalkInv /\ SearchExact
  BY DEF CInv, WInv
<1>2. ASSUME image' = image, op' = "files", addr' = First PROVE WInv'
  <2>1. Files' = Files
    BY <1>2 DEF Files, Closed, Fits, FileAfter
  <2>2. First < Eov => First \in Files'
    BY <1>1, <2>1, FilesClosed, Places DEF Closed
  <2>3. \A b \in Files' : ~(b < First)
    BY <1>1, <2>1, FilesClosed, Places DEF FileSlots
  <2>4. WalkInv'
    BY <1>2, <2>2, <2>3, Places DEF WalkInv
  <2>. QED
    BY <1>2, <2>4 DEF WInv, SearchExact
<1>3. ASSUME ~FromStart' PROVE WInv'
  BY <1>3 DEF WInv, WalkInv, SearchExact
<1>4. ASSUME op' = "idle" PROVE WInv'
  BY <1>4 DEF WInv, WalkInv, SearchExact
<1>5. ASSUME NEW s \in Searches, GetFileSection(s) PROVE WInv'
  BY <1>2, <1>5 DEF GetFileSection
<1>6. ASSUME NEW t \in FileTypes, FindNextFileFromStart(t) PROVE WInv'
  BY <1>2, <1>6 DEF FindNextFileFromStart
<1>7. ASSUME NEW t \in FileTypes, NEW h \in handles, FindNextFileAfter(t, h) PROVE WInv'
  <2>1. h # NULL
    BY <1>1, Places DEF TypeOK
  <2>. QED
    BY <1>3, <1>7, <2>1 DEF FindNextFileAfter, FromStart, NoRequest
<1>8. ASSUME NEW t \in SectionTypes, NEW h \in handles, FindSectionData(t, h) PROVE WInv'
  BY <1>3, <1>8 DEF FindSectionData, FromStart, NoRequest
<1>9. ASSUME NEW h \in handles, GetFileInfo(h) PROVE WInv'
  BY <1>3, <1>9 DEF GetFileInfo, FromStart, NoRequest
<1>10. CASE Refuse
  BY <1>4, <1>10 DEF Refuse
<1>11. CASE FileCorrupted
  <2>1. /\ op = "files" /\ addr < Eov /\ ~Fits(addr) /\ file = NULL
        /\ image' = image /\ req' = req /\ file' = file /\ op' = "done"
        /\ status' = "EFI_VOLUME_CORRUPTED"
    <3>1. op = "files" /\ addr < Eov /\ addr + Size(addr) > Eov /\ file = NULL
      BY <1>1, <1>11 DEF FileCorrupted, InVolume, FileEnd, File, Size, PlaceInv
    <3>2. addr + Size(addr) \in Nat
      BY <1>1, <3>1, Places, Sizes DEF TypeOK, PlaceInv
    <3>3. ~Fits(addr)
      BY <3>1, <3>2, Places DEF Fits, Size
    <3>. QED
      BY <1>11, <3>1, <3>3 DEF FileCorrupted, Finish
  <2>2. FromStart => StopsAt(addr) /\ addr \in Files
    BY <1>1, <2>1, StandsAtStop
  <2>3. SearchExact'
    BY <2>1, <2>2, SameAnswers DEF SearchExact
  <2>. QED
    BY <2>1, <2>3 DEF WInv, WalkInv
<1>12. CASE FileFound
  <2>1. /\ op = "files" /\ addr < Eov /\ Fits(addr) /\ Matching(addr) /\ file = NULL
        /\ image' = image /\ req' = req /\ addr \in Nat
    BY <1>1, <1>12 DEF FileFound, InVolume, FileEnd, File, Fits, FileMatches, Matching, PlaceInv, TypeOK
  <2>2. FromStart => StopsAt(addr) /\ addr \in Files
    BY <1>1, <2>1, StandsAtStop
  <2>3. \/ op' = "sections" /\ file' = addr
        \/ op' = "done" /\ file' = NULL /\ status' = "EFI_SUCCESS" /\ result' = addr
    BY <1>12, <2>1 DEF FileFound, EnterFile, Finish
  <2>4. SearchExact'
    BY <2>1, <2>2, <2>3, SameAnswers, StaleAssumption DEF SearchExact
  <2>. QED
    BY <2>3, <2>4 DEF WInv, WalkInv
<1>13. CASE FileSkip
  <2>1. /\ op = "files" /\ addr < Eov /\ Fits(addr) /\ ~Matching(addr)
        /\ addr' = FileAfter(addr) /\ image' = image /\ req' = req /\ op' = op
        /\ addr \in Slots /\ addr \in Nat
    BY <1>1, <1>13, Places
    DEF FileSkip, InVolume, FileEnd, File, Fits, FileMatches, Matching, FileAfter, PlaceInv, TypeOK
  <2>2. FileAfter(addr) \in Nat /\ FileAfter(addr) % 8 = 0 /\ addr <= FileAfter(addr)
    BY <1>1, <2>1, Sizes, AlignUpTo8 DEF FileAfter, Size
  <2>3. ASSUME FromStart PROVE WalkInv'
    <3>1. addr \in Files /\ addr >= First
      BY <1>1, <2>1, <2>3 DEF WalkInv
    <3>2. \A b \in Files : b < addr => Fits(b) /\ ~Matching(b) /\ FileAfter(b) <= addr
      BY <1>1, <2>1, <2>3 DEF WalkInv
    <3>3. \A b \in Files : b < FileAfter(addr) => b <= addr
      BY <1>1, <2>1, <3>1, <3>2, NoFileBetween
    <3>4. FileAfter(addr) < Eov => FileAfter(addr) \in Files
      BY <1>1, <2>1, <2>2, <3>1, FilesClosed, Places DEF Closed
    <3>5. ASSUME NEW b \in Files, b < FileAfter(addr)
          PROVE  Fits(b) /\ ~Matching(b) /\ FileAfter(b) <= FileAfter(addr)
      <4>1. b \in Nat /\ b <= addr
        BY <1>1, <3>3, <3>5, FilesAreNumbers
      <4>2. CASE b = addr
        BY <2>1, <2>2, <4>2
      <4>3. CASE b < addr
        <5>1. b \in FileSlots
          BY <1>1, FilesClosed
        <5>2. b + Size(b) \in Nat
          BY <1>1, <5>1, Sizes DEF FileSlots
        <5>3. FileAfter(b) \in Nat
          BY <5>2, AlignUpTo8 DEF FileAfter, Size
        <5>. QED
          BY <2>1, <2>2, <3>2, <4>3, <5>3
      <4>. QED
        BY <2>1, <4>1, <4>2, <4>3
    <3>6. FileAfter(addr) >= First
      BY <2>1, <2>2, <3>1, Places
    <3>. QED
      BY <2>1, <3>4, <3>5, <3>6, SameAnswers DEF WalkInv
  <2>4. WalkInv'
    BY <2>1, <2>3, SameAnswers DEF WalkInv
  <2>. QED
    BY <2>1, <2>4 DEF WInv, SearchExact
<1>14. CASE FileNone
  <2>1. /\ op = "files" /\ addr >= Eov /\ file = NULL /\ addr \in Nat
        /\ image' = image /\ req' = req /\ file' = file /\ op' = "done"
        /\ status' = "EFI_NOT_FOUND"
    BY <1>1, <1>14 DEF FileNone, Finish, PlaceInv, TypeOK
  <2>2. FromStart => Stops = {}
    BY <1>1, <2>1, FilesAreNumbers, Places DEF WalkInv, Stops
  <2>3. SearchExact'
    BY <2>1, <2>2, SameAnswers DEF SearchExact
  <2>. QED
    BY <2>1, <2>3 DEF WInv, WalkInv
<1>15. CASE SectionCorrupted \/ SectionFound \/ SectionSkip \/ SectionNone
  <2>1. /\ op = "sections" /\ op' \in {"sections", "done"}
        /\ image' = image /\ req' = req /\ file' = file
    BY <1>15 DEF SectionCorrupted, SectionFound, SectionSkip, SectionNone, InFile, Finish
  <2>2. file # NULL
    BY <1>1, <2>1, Places DEF PlaceInv
  <2>3. SearchExact'
    BY <1>1, <2>1, <2>2, SameAnswers DEF SearchExact
  <2>. QED
    BY <2>1, <2>3 DEF WInv, WalkInv
<1>16. CASE Return
  BY <1>4, <1>16 DEF Return
<1>17. CASE UNCHANGED vars
  <2>1. /\ image' = image /\ req' = req /\ op' = op /\ file' = file /\ addr' = addr
        /\ status' = status /\ result' = result
    BY <1>17 DEF vars
  <2>2. WalkInv'
    BY <1>1, <2>1, SameAnswers DEF WalkInv
  <2>3. SearchExact'
    BY <1>1, <2>1, SameAnswers DEF SearchExact
  <2>. QED
    BY <2>2, <2>3 DEF WInv
<1>. QED
  BY <1>5, <1>6, <1>7, <1>8, <1>9, <1>10, <1>11, <1>12, <1>13, <1>14, <1>15, <1>16, <1>17
  DEF Next, Call, Step

(* A search from the start of a volume is exact, whatever the volume holds. *)
THEOREM SearchesExact == Spec => []SearchExact
<1>1. WInv => SearchExact
  BY DEF WInv
<1>. QED
  BY <1>1, InitSearch, NextSearch, Invariance, PTL DEF Spec
----------------------------------------------------------------------------
(* SectionExact.  SectionsFrom is a chain: it exists, and what is collected
   from an address on lies there.                                         *)
LEMMA SectionsUnfold ==
  ASSUME TypeOK, NEW f \in Slots, Fits(f)
  PROVE  LET end == f + Size(f)
             from == SectionsFrom(image, f) IN
         \A a \in f..end :
           LET next == a + SectionAt(image, a).size IN
           /\ from[a] = IF next \in a + SectionHeaderSize..end THEN {a} \cup from[next] ELSE {}
           /\ from[a] \subseteq a..end
<1>. DEFINE end == f + Size(f)
            next(a) == a + SectionAt(image, a).size
            ok(a) == next(a) \in a + SectionHeaderSize..end
            head == [a \in f..end |-> IF ok(a) THEN {a} ELSE {}]
            after == [a \in f..end |-> IF ok(a) THEN next(a) ELSE a]
            from == SectionsFrom(image, f)
            e(g) == [a \in f..end |-> IF ok(a) THEN {a} \cup g[next(a)] ELSE {}]
<1>1. f \in Nat /\ end \in Nat
  BY Places, Sizes DEF Size
<1>2. ASSUME NEW g PROVE e(g) = [a \in f..end |-> Collected(g, head, after, end, a)]
  <2>1. ASSUME NEW a \in f..end
        PROVE  Collected(g, head, after, end, a) = IF ok(a) THEN {a} \cup g[next(a)] ELSE {}
    <3>1. head[a] = (IF ok(a) THEN {a} ELSE {}) /\ after[a] = IF ok(a) THEN next(a) ELSE a
      OBVIOUS
    <3>2. CASE ok(a)
      <4>1. next(a) \in a + 1..end
        <5>1. a \in Int /\ end \in Int
          BY <1>1
        <5>. HIDE DEF end, next
        <5>. QED
          BY <3>2, <5>1 DEF SectionHeaderSize
      <4>. HIDE DEF ok, next, head, after, end
      <4>. QED
        BY <3>1, <3>2, <4>1 DEF Collected
    <3>3. CASE ~ok(a)
      <4>1. a \notin a + 1..end
        BY <1>1
      <4>. HIDE DEF ok, next, head, after, end
      <4>. QED
        BY <3>1, <3>3, <4>1 DEF Collected
    <3>. QED
      BY <3>2, <3>3
  <2>. HIDE DEF ok, next, head, after, end
  <2>. QED
    BY <2>1
<1>3. \E g : g = e(g)
  <2>1. PICK g : Collects(g, head, after, f, end)
    <3>. HIDE DEF head, after, end
    <3>. QED
      BY <1>1, ChainExists
  <2>2. g = e(g)
    <3>. HIDE DEF head, after, end, e
    <3>. QED
      BY <1>2, <2>1 DEF Collects
  <2>. QED
    BY <2>2
<1>4. from = CHOOSE g : g = e(g)
  BY DEF SectionsFrom, Size
<1>5. from = e(from)
  <2>. HIDE DEF e, from
  <2>. QED
    BY <1>3, <1>4
<1>6. Collects(from, head, after, f, end)
  <2>. HIDE DEF head, after, end, e, from
  <2>. QED
    BY <1>2, <1>5 DEF Collects
<1>7. \A a \in f..end : head[a] \subseteq {a}
  OBVIOUS
<1>8. \A a \in f..end : from[a] \subseteq a..end
  <2>. HIDE DEF head, after, end, from
  <2>. QED
    BY <1>1, <1>6, <1>7, ChainAbove
<1>9. \A a \in f..end : from[a] = IF ok(a) THEN {a} \cup from[next(a)] ELSE {}
  <2>. HIDE DEF ok, next, end, from
  <2>. QED
    BY <1>5
<1>. QED
  BY <1>8, <1>9
(* While a search walks the sections of a file, those it has passed lie
   before it and do not have the type; the others are collected from where it
   stands.                                                                *)
Wanted(a) == SectionAt(image, a).type = req.section
SectionWalkInv ==
  op = "sections" =>
    \/ addr = BufferStart(file) /\ addr > eof
    \/ /\ addr <= eof
       /\ SectionsFrom(image, file)[addr] \subseteq SectionsOf(file)
       /\ \A a \in SectionsOf(file) :
            \/ a \in SectionsFrom(image, file)[addr]
            \/ a < addr /\ a + SectionAt(image, a).size <= addr /\ ~Wanted(a)
       /\ \/ addr = BufferStart(file)
          \/ \E a \in SectionsOf(file) : a + SectionAt(image, a).size = addr

SInv == SectionWalkInv /\ SectionExact

(* Where the walk of a file's sections starts. *)
LEMMA Entered ==
  ASSUME TypeOK, NEW f \in Slots, Fits(f), op' = "sections", file' = f, image' = image,
         eof' = f + Size(f), addr' = AlignUp(f + FileHeaderSize, 4)
  PROVE  SInv'
<1>1. f \in Nat /\ Size(f) \in Nat /\ f % 8 = 0
  BY Places, Sizes
<1>2. addr' = BufferStart(f) /\ BufferStart(f) \in Nat /\ BufferStart(f) >= f
  BY <1>1 DEF AlignUp, FileHeaderSize, BufferStart
<1>3. CASE BufferStart(f) > f + Size(f)
  BY <1>2, <1>3 DEF SInv, SectionWalkInv, SectionExact, BufferStart
<1>4. CASE BufferStart(f) <= f + Size(f)
  <2>1. SectionsOf(f)' = SectionsFrom(image, f)[BufferStart(f)]
    BY <1>4 DEF SectionsOf, SectionsIn, Size
  <2>2. SectionWalkInv'
    BY <1>1, <1>2, <1>4, <2>1 DEF SectionWalkInv, BufferStart
  <2>. QED
    BY <2>2 DEF SInv, SectionExact
<1>. QED
  BY <1>1, <1>2, <1>3, <1>4

(* What is known of a walk that stands at a section. *)
LEMMA AtSection ==
  ASSUME CInv, SectionWalkInv, op = "sections", addr <= eof
  PROVE  /\ file \in Slots /\ Fits(file) /\ eof = file + Size(file)
         /\ addr \in file..eof /\ eof \in Nat /\ file \in Nat
         /\ \A a \in SectionsFrom(image, file)[addr] : a \in addr..eof
         /\ SectionsFrom(image, file)[addr] =
              IF addr + Section.size \in addr + SectionHeaderSize..eof
              THEN {addr} \cup SectionsFrom(image, file)[addr + Section.size] ELSE {}
         /\ addr < eof => Section.size \in Nat
<1>1. /\ file \in Slots /\ Fits(file) /\ eof = file + Size(file)
      /\ eof \in Nat /\ file \in Nat /\ addr \in Nat /\ addr >= file /\ eof <= Eov
  <2>1. /\ file \in Slots /\ Fits(file) /\ eof = file + Size(file) /\ addr \in Nat
        /\ eof \in Nat /\ addr >= BufferStart(file)
    BY DEF CInv, PlaceInv, TypeOK
  <2>2. file \in Nat
    BY <2>1, Places
  <2>. QED
    BY <2>1, <2>2 DEF BufferStart, FileHeaderSize, Fits, Size
<1>2. addr \in file..eof
  BY <1>1
<1>3. addr < eof => Section.size \in Nat
  BY <1>1, Sizes, Places DEF Section, CInv
<1>. QED
  BY <1>1, <1>2, <1>3, SectionsUnfold DEF Section, CInv

LEMMA SectionsAreNumbers ==
  ASSUME CInv, op = "sections", NEW a \in SectionsOf(file)
  PROVE  a \in Nat /\ (a < eof => SectionAt(image, a).size \in Nat)
<1>1. TypeOK /\ file \in Slots /\ Fits(file) /\ file \in Nat /\ eof = file + Size(file) /\ eof \in Nat
  BY Places DEF CInv, PlaceInv, TypeOK
<1>2. eof <= Eov
  BY <1>1 DEF Fits, Size
<1>3. BufferStart(file) <= eof /\ a \in SectionsFrom(image, file)[BufferStart(file)]
  BY <1>1 DEF SectionsOf, SectionsIn, Size
<1>4. BufferStart(file) \in file..eof
  BY <1>1, <1>3 DEF BufferStart, FileHeaderSize
<1>5. a \in BufferStart(file)..eof
  BY <1>1, <1>3, <1>4, SectionsUnfold
<1>6. a \in Nat
  BY <1>1, <1>4, <1>5
<1>7. a < eof => a < Eov
  BY <1>1, <1>2, <1>6, Places
<1>. QED
  BY <1>1, <1>6, <1>7, Sizes

LEMMA InitSections == Init => SInv
  BY DEF Init, SInv, SectionWalkInv, SectionExact

LEMMA NextSections == CInv /\ SInv /\ [Next]_vars => SInv'
<1>. SUFFICES ASSUME CInv, SInv, [Next]_vars PROVE SInv'
  OBVIOUS
<1>. USE DEF walk
<1>1. TypeOK /\ PlaceInv /\ SectionWalkInv /\ SectionExact
  BY DEF CInv, SInv
<1>2. ASSUME op' \in {"idle", "files"} \/ (op' = "done" /\ file' = NULL) PROVE SInv'
  BY <1>2 DEF SInv, SectionWalkInv, SectionExact
<1>3. ASSUME NEW s \in Searches, GetFileSection(s) PROVE SInv'
  BY <1>2, <1>3 DEF GetFileSection
<1>4. ASSUME NEW t \in FileTypes, FindNextFileFromStart(t) PROVE SInv'
  BY <1>2, <1>4 DEF FindNextFileFromStart
<1>5. ASSUME NEW t \in FileTypes, NEW h \in handles, FindNextFileAfter(t, h) PROVE SInv'
  BY <1>2, <1>5 DEF FindNextFileAfter
<1>6. ASSUME NEW t \in SectionTypes, NEW h \in handles, FindSectionData(t, h) PROVE SInv'
  <2>1. h \in Slots /\ Fits(h)
    BY <1>1 DEF TypeOK, PlaceInv
  <2>. QED
    BY <1>1, <1>6, <2>1, Entered DEF FindSectionData, EnterFile, Size
<1>7. ASSUME NEW h \in handles, GetFileInfo(h) PROVE SInv'
  BY <1>1, <1>2, <1>7 DEF GetFileInfo, PlaceInv
<1>8. CASE Refuse
  BY <1>2, <1>8 DEF Refuse
<1>9. CASE FileCorrupted
  BY <1>1, <1>2, <1>9 DEF FileCorrupted, Finish, InVolume, PlaceInv
<1>10. CASE FileFound
  <2>1. op = "files" /\ addr < Eov /\ addr \in Slots /\ Fits(addr) /\ file = NULL
    BY <1>1, <1>10, Places DEF FileFound, InVolume, FileEnd, File, Fits, PlaceInv, TypeOK
  <2>2. CASE req.section # NULL
    BY <1>1, <1>10, <2>1, <2>2, Entered DEF FileFound, EnterFile, Size
  <2>3. CASE req.section = NULL
    BY <1>2, <1>10, <2>1, <2>3 DEF FileFound, Finish
  <2>. QED
    BY <2>2, <2>3
<1>11. CASE FileSkip
  BY <1>2, <1>11 DEF FileSkip, InVolume
<1>12. CASE FileNone
  BY <1>1, <1>2, <1>12 DEF FileNone, Finish, PlaceInv
<1>13. CASE SectionCorrupted
  <2>1. /\ op = "sections" /\ addr < eof /\ SectionBad
        /\ op' = "done" /\ status' = "EFI_VOLUME_CORRUPTED"
        /\ file' = file /\ image' = image /\ req' = req
    BY <1>13 DEF SectionCorrupted, Finish, InFile
  <2>2. /\ addr \in Nat /\ eof \in Nat /\ Section.size \in Nat /\ addr >= BufferStart(file)
        /\ eof = file + Size(file)
        /\ SectionsFrom(image, file)[addr] = {}
    BY <1>1, <2>1, AtSection DEF SectionBad, SectionHeaderSize, TypeOK, PlaceInv
  <2>3. \A a \in SectionsOf(file) : a + SectionAt(image, a).size <= addr /\ ~Wanted(a)
    BY <1>1, <2>1, <2>2 DEF SectionWalkInv
  <2>4. ~SectionsFill(file)
    <3>1. BufferStart(file) < file + FileAt(image, file).size
      BY <1>1, <2>1, <2>2, Places DEF Size, BufferStart, FileHeaderSize, PlaceInv
    <3>2. \A a \in SectionsOf(file) : a + SectionAt(image, a).size # file + FileAt(image, file).size
      BY <2>1, <2>2, <2>3 DEF Size
    <3>3. ~(BufferStart(file) >= file + FileAt(image, file).size)
      BY <1>1, <3>1, <2>1, <2>2, Places DEF Size, BufferStart, FileHeaderSize, PlaceInv
    <3>. QED
      BY <3>2, <3>3 DEF SectionsFill
  <2>5. SectionExact'
    BY <2>1, <2>3, <2>4 DEF SectionExact, SectionsOf, SectionsFill, Wanted, BufferStart
  <2>. QED
    BY <2>1, <2>5 DEF SInv, SectionWalkInv
<1>14. CASE SectionFound
  <2>1. /\ op = "sections" /\ addr < eof /\ ~SectionBad /\ Wanted(addr)
        /\ op' = "done" /\ status' = "EFI_SUCCESS" /\ result' = addr
        /\ file' = file /\ image' = image /\ req' = req
    BY <1>14 DEF SectionFound, Finish, InFile, Wanted, Section
  <2>2. /\ addr \in Nat /\ eof \in Nat /\ Section.size \in Nat
        /\ addr \in SectionsFrom(image, file)[addr]
        /\ \A a \in SectionsFrom(image, file)[addr] : addr <= a
    BY <1>1, <2>1, AtSection DEF SectionBad, SectionHeaderSize, TypeOK
  <2>3. /\ addr \in SectionsOf(file)
        /\ \A a \in SectionsOf(file) : Wanted(a) => addr <= a
    BY <1>1, <2>1, <2>2 DEF SectionWalkInv
  <2>4. SectionExact'
    BY <2>1, <2>3 DEF SectionExact, SectionsOf, Wanted
  <2>. QED
    BY <2>1, <2>4 DEF SInv, SectionWalkInv
<1>15. CASE SectionSkip
  <2>1. /\ op = "sections" /\ addr < eof /\ ~SectionBad /\ ~Wanted(addr) /\ op' = op
        /\ addr' = addr + Section.size
        /\ file' = file /\ eof' = eof /\ image' = image /\ req' = req
    BY <1>15 DEF SectionSkip, InFile, Wanted, Section
  <2>2. /\ addr \in Nat /\ eof \in Nat /\ Section.size \in Nat /\ addr' \in addr + SectionHeaderSize..eof
        /\ SectionsFrom(image, file)[addr] = {addr} \cup SectionsFrom(image, file)[addr']
        /\ addr < addr' /\ addr' <= eof
    BY <1>1, <2>1, AtSection DEF SectionBad, SectionHeaderSize, TypeOK
  <2>3. /\ SectionsFrom(image, file)[addr] \subseteq SectionsOf(file)
        /\ \A a \in SectionsOf(file) :
             \/ a \in SectionsFrom(image, file)[addr]
             \/ a < addr /\ a + SectionAt(image, a).size <= addr /\ ~Wanted(a)
    BY <1>1, <2>1, <2>2 DEF SectionWalkInv
  <2>4. ASSUME NEW a \in SectionsOf(file), a \notin SectionsFrom(image, file)[addr']
        PROVE  a < addr' /\ a + SectionAt(image, a).size <= addr' /\ ~Wanted(a)
    <3>1. CASE a = addr
      BY <2>1, <2>2, <3>1 DEF Section
    <3>2. CASE a # addr
      <4>1. a < addr /\ a + SectionAt(image, a).size <= addr /\ ~Wanted(a)
        BY <2>2, <2>3, <2>4, <3>2
      <4>2. a \in Nat
        BY <2>1, SectionsAreNumbers
      <4>3. SectionAt(image, a).size \in Nat
        BY <2>1, <2>2, <4>1, <4>2, SectionsAreNumbers
      <4>. QED
        BY <2>2, <4>1, <4>2, <4>3
    <3>. QED
      BY <3>1, <3>2
  <2>5. SectionWalkInv'
    BY <2>1, <2>2, <2>3, <2>4 DEF SectionWalkInv, SectionsOf, Wanted, BufferStart, Section
  <2>. QED
    BY <2>1, <2>5 DEF SInv, SectionExact
<1>16. CASE SectionNone
  <2>1. /\ op = "sections" /\ addr >= eof
        /\ op' = "done" /\ status' = "EFI_NOT_FOUND"
        /\ file' = file /\ image' = image /\ req' = req
    BY <1>16 DEF SectionNone, Finish
  <2>2. addr \in Nat /\ eof \in Nat /\ eof = file + Size(file)
    BY <1>1, <2>1 DEF TypeOK, PlaceInv
  <2>3. (\A a \in SectionsOf(file) : ~Wanted(a)) /\ SectionsFill(file)
    <3>1. CASE addr > eof
      <4>1. addr = BufferStart(file)
        BY <1>1, <2>1, <2>2, <3>1 DEF SectionWalkInv
      <4>. QED
        BY <2>2, <3>1, <4>1 DEF SectionsFill, SectionsOf, SectionsIn, Size
    <3>2. CASE addr = eof
      <4>1. \A a \in SectionsFrom(image, file)[addr] : FALSE
        <5>1. addr + SectionHeaderSize..eof = {}
          BY <2>2, <3>2 DEF SectionHeaderSize
        <5>. QED
          BY <1>1, <2>1, <2>2, <3>2, <5>1, AtSection
      <4>2. \A a \in SectionsOf(file) : ~Wanted(a)
        BY <1>1, <2>1, <2>2, <3>2, <4>1 DEF SectionWalkInv
      <4>3. \/ BufferStart(file) = eof
            \/ \E a \in SectionsOf(file) : a + SectionAt(image, a).size = eof
        BY <1>1, <2>1, <2>2, <3>2 DEF SectionWalkInv
      <4>. QED
        BY <2>2, <4>2, <4>3 DEF SectionsFill, Size
    <3>. QED
      BY <2>1, <2>2, <3>1, <3>2
  <2>4. SectionExact'
    BY <2>1, <2>3 DEF SectionExact, SectionsOf, SectionsFill, Wanted, BufferStart
  <2>. QED
    BY <2>1, <2>4 DEF SInv, SectionWalkInv
<1>17. CASE Return
  BY <1>2, <1>17 DEF Return
<1>18. CASE UNCHANGED vars
  BY <1>1, <1>18
  DEF vars, SInv, SectionWalkInv, SectionExact, SectionsOf, SectionsFill, Wanted, BufferStart
<1>. QED
  BY <1>3, <1>4, <1>5, <1>6, <1>7, <1>8, <1>9, <1>10, <1>11, <1>12, <1>13, <1>14, <1>15, <1>16,
     <1>17, <1>18
  DEF Next, Call, Step

(* A search in a file answers with the first section of the type, and says
   that there is none only of a file that it has seen whole.              *)
THEOREM SectionsExact == Spec => []SectionExact
<1>1. SInv => SectionExact
  BY DEF SInv
<1>. QED
  BY <1>1, InitSections, NextSections, Invariance, PTL DEF Spec

----------------------------------------------------------------------------
(* WalkAdvances.  Every file that a search passes has a size, every section
   at least that of its header, and the sections of a file that fits lie in
   the volume.                                                            *)
LEMMA StepAdvances ==
  ASSUME CInv, [Next]_vars, Searching, Searching', ~UNCHANGED vars
  PROVE  addr < Eov /\ addr < addr'
<1>1. TypeOK /\ PlaceInv /\ addr \in Nat
  BY DEF CInv, TypeOK
<1>2. FileFound \/ FileSkip \/ SectionSkip
  BY DEF Searching, Next, Call, Step, Return, Refuse, GetFileSection, FindNextFileFromStart,
         FindNextFileAfter, FindSectionData, GetFileInfo, FileCorrupted, FileNone,
         SectionCorrupted, SectionFound, SectionNone, Finish
<1>3. CASE FileFound
  <2>1. addr < Eov /\ EnterFile(addr)
    BY <1>3 DEF FileFound, InVolume, Finish, Searching
  <2>2. addr + FileHeaderSize \in Nat /\ addr < addr + FileHeaderSize
    BY <1>1 DEF FileHeaderSize
  <2>. QED
    BY <1>1, <2>1, <2>2, AlignUpTo4 DEF EnterFile
<1>4. CASE FileSkip
  <2>1. /\ addr < Eov /\ addr % 8 = 0 /\ addr' = AlignUp(addr + Size(addr), 8)
        /\ UNCHANGED <<image, op, req, file, eof, status, result, handles>>
    BY <1>1, <1>4 DEF FileSkip, InVolume, PlaceInv, FileEnd, File, Size
  <2>2. addr \in Slots
    BY <1>1, <2>1, Places
  <2>3. Size(addr) \in Nat
    BY <1>1, <2>2, Sizes
  <2>4. addr' # addr
    BY <2>1 DEF vars, walk
  <2>5. addr + Size(addr) \in Nat /\ addr <= addr + Size(addr)
    BY <1>1, <2>3
  <2>6. addr' \in Nat /\ addr + Size(addr) <= addr'
    BY <2>1, <2>5, AlignUpTo8
  <2>. QED
    BY <1>1, <2>1, <2>4, <2>5, <2>6
<1>5. CASE SectionSkip
  <2>1. /\ op = "sections" /\ addr < eof /\ ~(Section.size < SectionHeaderSize)
        /\ addr' = addr + Section.size
    BY <1>5 DEF SectionSkip, InFile, SectionBad
  <2>2. file \in Slots /\ eof = file + Size(file) /\ eof <= Eov /\ eof \in Nat
    BY <1>1, <2>1 DEF PlaceInv, Fits, Size, TypeOK
  <2>3. addr < Eov
    BY <1>1, <2>1, <2>2, Places
  <2>4. Section.size \in Nat
    BY <1>1, <2>3, Sizes DEF Section
  <2>. QED
    BY <1>1, <2>1, <2>3, <2>4 DEF SectionHeaderSize
<1>. QED
  BY <1>2, <1>3, <1>4, <1>5

(* Every walk, over whatever volume, moves through it in one direction and
   stays in it: it ends unless it stays at an empty file.                 *)
THEOREM WalksMoveOn == Spec => WalkAdvances
<1>1. CInv /\ [Next]_vars => [Searching /\ Searching' => addr < Eov /\ addr < addr']_vars
  BY StepAdvances
<1>. QED
  BY <1>1, Invariance, PTL DEF Spec, WalkAdvances
=============================================================================
