------------------------------ MODULE FfsWalk ------------------------------
(***************************************************************************)
(* The walks over a firmware volume: GetFileSection and FindSection of     *)
(* UtilsLib.c, and PeiFfsFindNextFile, PeiFfsFindSectionData and           *)
(* PeiFfsGetFileInfo of PeiServices.c.  A volume is a header, then files   *)
(* at 8-byte boundaries; a file is a header, then sections.                *)
(*                                                                         *)
(* The volume is whatever the flash holds.  FileAt and SectionAt give the  *)
(* header read at an address, with sizes of any value: 0, smaller than the *)
(* header itself, beyond the volume (erased flash reads as the largest     *)
(* size).  Every iteration of a loop is a step.                            *)
(***************************************************************************)
EXTENDS Integers, FiniteSets

CONSTANTS
  Images,           \* contents of the flash
  FileAt(_, _),     \* [type, name, size] read in an image at an address
  SectionAt(_, _),  \* [type, size] read in an image at an address
  FvBase,           \* address of the volume
  HeaderLength,     \* two fields of its header
  FvLength,
  Searches,         \* what callers ask GetFileSection for
  FileTypes,        \* types they ask FindNextFile for
  SectionTypes,     \* types they ask FindSectionData for
  Stale,            \* values an uninitialized local may hold
  SizeBound,        \* 2^32, where the UINT32 BufferSize wraps
  NULL

FileHeaderSize == 24
SectionHeaderSize == 4

AlignUp(a, n) == ((a + n - 1) \div n) * n

First == AlignUp(FvBase + HeaderLength, 8)
Eov == FvBase + FvLength

\* Where a file header can be read.
Slots == {a \in 0..Eov - 1 : a % 8 = 0}

ASSUME VolumeAssumption == FvBase \in Nat /\ HeaderLength \in Nat /\ FvLength \in Nat

(* A size field has 24 bits. *)
ASSUME SizeAssumption ==
  /\ SizeBound \in Nat
  /\ \A img \in Images :
       /\ \A a \in Slots : FileAt(img, a).size \in 0..SizeBound - 1
       /\ \A a \in 0..Eov - 1 : SectionAt(img, a).size \in Nat

(* Callers name a type. *)
ASSUME TypesAssumption ==
  /\ NULL \notin SectionTypes \cup FileTypes
  /\ \A s \in Searches : s.type # NULL

ASSUME StaleAssumption == Stale \subseteq Nat /\ NULL \notin Nat

VARIABLES
  image,    \* the content of the flash, fixed
  op,       \* idle, files (walking files), sections (walking sections), done
  req,      \* the call: what is searched for, and the handle it starts from
  file,     \* file whose sections are walked
  addr,     \* Addr
  eof,      \* SectionsEnd
  status,   \* status of the last call
  result,   \* address it returned, or NULL
  handles   \* file handles callers have been given

walk == <<file, addr, eof>>
vars == <<image, op, req, walk, status, result, handles>>

NoRequest == [type |-> NULL, name |-> NULL, section |-> NULL, from |-> NULL]

Init ==
  /\ image \in Images
  /\ op = "idle"
  /\ req = NoRequest
  /\ file = NULL
  /\ addr = 0
  /\ eof = 0
  /\ status = "EFI_SUCCESS"
  /\ result = NULL
  /\ handles = {}

\* The searches the boot code makes: the section type, the file type, and the
\* file name when it matters.
TeEntryPoint(type, name) == [section |-> "TE", type |-> type, name |-> name]
AprioriFile == [section |-> "RAW", type |-> "FREEFORM", name |-> "apriori"]
PeiFixup    == [section |-> "SUBTYPE_GUID", type |-> "PEI_CORE", name |-> NULL]
PeimFixup   == [section |-> "SUBTYPE_GUID", type |-> "PEIM", name |-> NULL]

File == FileAt(image, addr)
FileEnd == addr + File.size
Section == SectionAt(image, addr)

----------------------------------------------------------------------------
(* Calls *)

GetFileSection(s) ==
  /\ op = "idle"
  /\ op' = "files"
  /\ req' = [NoRequest EXCEPT !.type = s.type, !.name = s.name, !.section = s.section]
  /\ addr' = First
  /\ UNCHANGED <<image, file, eof, status, result, handles>>

FindNextFileFromStart(type) ==
  /\ op = "idle"
  /\ op' = "files"
  /\ req' = [NoRequest EXCEPT !.type = type]
  /\ addr' = First
  /\ UNCHANGED <<image, file, eof, status, result, handles>>

\* The size of the file is added to Addr, which nothing has been assigned to.
FindNextFileAfter(type, handle) ==
  /\ op = "idle"
  /\ op' = "files"
  /\ req' = [NoRequest EXCEPT !.type = type, !.from = handle]
  /\ \E stale \in Stale : addr' = AlignUp(stale + FileAt(image, handle).size, 8)
  /\ UNCHANGED <<image, file, eof, status, result, handles>>

EnterFile(f) ==
  /\ op' = "sections"
  /\ file' = f
  /\ addr' = AlignUp(f + FileHeaderSize, 4)
  /\ eof' = f + FileAt(image, f).size

FindSectionData(section, handle) ==
  /\ op = "idle"
  /\ req' = [NoRequest EXCEPT !.section = section]
  /\ EnterFile(handle)
  /\ UNCHANGED <<image, status, result, handles>>

\* What GetFileInfo reports when it gets past its check of the header kind.
BufferStart(f) == f + FileHeaderSize
BufferSize(f) == (FileAt(image, f).size - FileHeaderSize) % SizeBound

\* The check reads through a pointer nothing has been assigned to, so it may
\* come out either way.
GetFileInfo(handle) ==
  /\ op = "idle"
  /\ op' = "done"
  /\ req' = [NoRequest EXCEPT !.from = handle]
  /\ \/ status' = "EFI_SUCCESS" /\ result' = BufferStart(handle)
     \/ status' = "EFI_UNSUPPORTED" /\ result' = NULL
  /\ UNCHANGED <<image, walk, handles>>

\* NULL handles are refused.
Refuse ==
  /\ op = "idle"
  /\ status' = "EFI_INVALID_PARAMETER"
  /\ UNCHANGED <<image, op, req, walk, result, handles>>

Finish(s, r) ==
  /\ op' = "done"
  /\ status' = s
  /\ result' = r

\* The caller takes the answer.
Return ==
  /\ op = "done"
  /\ op' = "idle"
  /\ req' = NoRequest
  /\ file' = NULL
  /\ addr' = 0
  /\ eof' = 0
  /\ result' = NULL
  /\ UNCHANGED <<image, status, handles>>

----------------------------------------------------------------------------
(* The loop over files *)

\* Mutant: the name is not compared.
FileMatchesAnyName == File.type = req.type

FileMatches ==
  /\ File.type = req.type
  /\ req.name # NULL => File.name = req.name

InVolume == op = "files" /\ addr < Eov

FileCorrupted ==
  /\ InVolume
  /\ FileEnd > Eov
  /\ Finish("EFI_VOLUME_CORRUPTED", NULL)
  /\ UNCHANGED <<image, req, walk, handles>>

FileFound ==
  /\ InVolume
  /\ FileEnd <= Eov
  /\ FileMatches
  /\ \/ /\ req.section # NULL
        /\ EnterFile(addr)
        /\ UNCHANGED <<status, result, handles>>
     \/ /\ req.section = NULL
        /\ Finish("EFI_SUCCESS", addr)
        /\ handles' = handles \cup {addr}
        /\ UNCHANGED walk
  /\ UNCHANGED <<image, req>>

\* Mutant: the end of the file is taken for the next header.
FileSkipUnaligned ==
  /\ InVolume
  /\ FileEnd <= Eov
  /\ ~FileMatches
  /\ addr' = FileEnd
  /\ UNCHANGED <<image, op, req, file, eof, status, result, handles>>

\* Mutant: the size is added to where the walk started.
FileSkipFromStart ==
  /\ InVolume
  /\ FileEnd <= Eov
  /\ ~FileMatches
  /\ addr' = AlignUp(First + File.size, 8)
  /\ UNCHANGED <<image, op, req, file, eof, status, result, handles>>

FileSkip ==
  /\ InVolume
  /\ FileEnd <= Eov
  /\ ~FileMatches
  /\ addr' = AlignUp(FileEnd, 8)
  /\ UNCHANGED <<image, op, req, file, eof, status, result, handles>>

FileNone ==
  /\ op = "files"
  /\ addr >= Eov
  /\ Finish("EFI_NOT_FOUND", NULL)
  /\ UNCHANGED <<image, req, walk, handles>>

----------------------------------------------------------------------------
(* The loop over sections *)

InFile == op = "sections" /\ addr < eof

\* Mutants: one of the two checks of the section's size is missing.
SectionBadNoEnd == Section.size < SectionHeaderSize
SectionBadNoMinimum == addr + Section.size > eof

SectionBad == Section.size < SectionHeaderSize \/ addr + Section.size > eof

SectionCorrupted ==
  /\ InFile
  /\ SectionBad
  /\ Finish("EFI_VOLUME_CORRUPTED", NULL)
  /\ UNCHANGED <<image, req, walk, handles>>

SectionFound ==
  /\ InFile
  /\ ~SectionBad
  /\ Section.type = req.section
  /\ Finish("EFI_SUCCESS", addr)
  /\ UNCHANGED <<image, req, walk, handles>>

\* Mutant: the size is taken to be without the header.
SectionSkipHeader ==
  /\ InFile
  /\ ~SectionBad
  /\ Section.type # req.section
  /\ addr' = addr + Section.size + SectionHeaderSize
  /\ UNCHANGED <<image, op, req, file, eof, status, result, handles>>

\* The start of the sections was aligned; what follows a section is not.
SectionSkip ==
  /\ InFile
  /\ ~SectionBad
  /\ Section.type # req.section
  /\ addr' = addr + Section.size
  /\ UNCHANGED <<image, op, req, file, eof, status, result, handles>>

SectionNone ==
  /\ op = "sections"
  /\ addr >= eof
  /\ Finish("EFI_NOT_FOUND", NULL)
  /\ UNCHANGED <<image, req, walk, handles>>

----------------------------------------------------------------------------
Call ==
  \/ \E s \in Searches : GetFileSection(s)
  \/ \E t \in FileTypes : FindNextFileFromStart(t)
  \/ \E t \in FileTypes, h \in handles : FindNextFileAfter(t, h)
  \/ \E t \in SectionTypes, h \in handles : FindSectionData(t, h)
  \/ \E h \in handles : GetFileInfo(h)
  \/ Refuse

Step ==
  \/ FileCorrupted \/ FileFound \/ FileSkip \/ FileNone
  \/ SectionCorrupted \/ SectionFound \/ SectionSkip \/ SectionNone

Next == Call \/ Step \/ Return

Spec == Init /\ [][Next]_vars

\* The processor keeps executing the loop it is in.
FairSpec == Spec /\ WF_vars(Step)

----------------------------------------------------------------------------
(* Properties *)

TypeOK ==
  /\ image \in Images
  /\ op \in {"idle", "files", "sections", "done"}
  /\ file \in Slots \cup {NULL}
  /\ addr \in Nat
  /\ eof \in Nat
  /\ status \in {"EFI_SUCCESS", "EFI_INVALID_PARAMETER", "EFI_UNSUPPORTED",
                 "EFI_NOT_FOUND", "EFI_VOLUME_CORRUPTED"}
  /\ result \in Nat \cup {NULL}
  /\ handles \subseteq Slots

Answered == op = "done" /\ status = "EFI_SUCCESS"

\* A search that starts at the first file of the volume.
FromStart == req.type # NULL /\ req.from = NULL

Fits(a) == a + FileAt(image, a).size <= Eov

(* What a caller is given lies in its container, however the sizes in the
   headers were chosen.  A file ends in the volume, and one that is searched
   from the start begins behind the header of the volume (where a continued
   search may begin is the subject of NextFileFollows).  A section lies
   behind its file's header, before its file's end, and inside the buffer
   that GetFileInfo reports for that file.  The buffer that GetFileInfo
   answers with ends where its file ends if and only if the file is not
   shorter than its header: of a shorter one the size wraps, and the buffer
   reaches out of everything.                                             *)
ResultContained ==
  /\ \A h \in handles : Fits(h)
  /\ Answered /\ FromStart => First <= (IF file # NULL THEN file ELSE result)
  /\ Answered /\ req.section # NULL =>
       LET size == SectionAt(image, result).size IN
       /\ result >= BufferStart(file)
       /\ size >= SectionHeaderSize
       /\ result + size <= file + FileAt(image, file).size
       /\ result + size <= BufferStart(file) + BufferSize(file)
       /\ Fits(file)
  /\ Answered /\ req.section = NULL /\ req.type = NULL =>
       LET size == FileAt(image, req.from).size IN
       result + BufferSize(req.from) = req.from + size <=> size >= FileHeaderSize

(* The addresses of the files of the volume: the smallest set that holds the
   first one and, with a file, the one behind it, up to a file that does not
   fit.  An address at or behind the end of the volume is not in it.      *)
FileAfter(a) == AlignUp(a + FileAt(image, a).size, 8)
Closed(S) ==
  /\ First \in Slots => First \in S
  /\ \A a \in S : Fits(a) /\ FileAfter(a) \in Slots => FileAfter(a) \in S
FileSlots == {a \in Slots : First <= a}
Files == {a \in FileSlots : \A S \in SUBSET FileSlots : Closed(S) => a \in S}

Matching(a) ==
  /\ FileAt(image, a).type = req.type
  /\ req.name # NULL => FileAt(image, a).name = req.name

\* The files a search may stop at, and the one it has to.
Stops == {f \in Files : ~Fits(f) \/ Matching(f)}
StopsAt(f) == f \in Stops /\ \A a \in Stops : f <= a

(* A search that starts at the first file comes to the first file of the
   volume that has the type and the name, unless a file before it does not
   fit the volume, and then it says so; it says EFI_NOT_FOUND only when the
   volume has no such file.                                               *)
SearchExact ==
  op \in {"done", "sections"} /\ FromStart =>
    IF file # NULL THEN StopsAt(file) /\ Fits(file)
    ELSE CASE status = "EFI_SUCCESS" -> StopsAt(result) /\ Fits(result)
           [] status = "EFI_VOLUME_CORRUPTED" -> \E f \in Files : StopsAt(f) /\ ~Fits(f)
           [] status = "EFI_NOT_FOUND" -> Stops = {}

(* The addresses of the sections of a file, one behind the other, up to one
   whose size cannot be right; they fill the file if there is none such.  *)
SectionsFrom(img, f) ==
  LET end == f + FileAt(img, f).size
      after(a) == a + SectionAt(img, a).size
      from[a \in f..end] ==
        IF after(a) \in a + SectionHeaderSize..end THEN {a} \cup from[after(a)] ELSE {}
  IN  from
SectionsIn(img, f) ==
  IF BufferStart(f) <= f + FileAt(img, f).size THEN SectionsFrom(img, f)[BufferStart(f)] ELSE {}
SectionsOf(f) == SectionsIn(image, f)
SectionsFill(f) ==
  LET end == f + FileAt(image, f).size IN
  \/ BufferStart(f) >= end
  \/ \E a \in SectionsOf(f) : a + SectionAt(image, a).size = end

(* A search in a file answers with the first of its sections that has the
   type; if there is none, with EFI_VOLUME_CORRUPTED if and only if a section
   of a wrong size kept it from seeing the whole file.                    *)
SectionExact ==
  op = "done" /\ file # NULL =>
    LET wanted == {a \in SectionsOf(file) : SectionAt(image, a).type = req.section} IN
    CASE status = "EFI_SUCCESS" -> result \in wanted /\ \A a \in wanted : result <= a
      [] status = "EFI_VOLUME_CORRUPTED" -> wanted = {} /\ ~SectionsFill(file)
      [] status = "EFI_NOT_FOUND" -> wanted = {} /\ SectionsFill(file)

(* A search ends, if no file of the volume is empty: GetFileSection and
   FindNextFile stay at a file of size 0 forever.                         *)
Searching == op \in {"files", "sections"}
WalkEnds == Searching /\ (\A a \in Slots : FileAt(image, a).size > 0) ~> op = "done"

(* A search only moves on, and only while it is in the volume: a step that
   does not end it takes it to a higher address.  So a search takes fewer
   steps than the volume has bytes, and the one way not to end is to stay at
   an empty file, which changes nothing.                                  *)
WalkAdvances == [][Searching /\ Searching' => addr < Eov /\ addr < addr']_vars

(* "Get next file address": FindNextFile with a handle answers with a file
   behind that one.                                                       *)
NextFileFollows ==
  Answered /\ req.from # NULL /\ req.type # NULL => result > req.from
=============================================================================
