----------------------------- MODULE MCFfsWalk -----------------------------
(***************************************************************************)
(* FfsWalk on volumes of 120 bytes with room for three files.  The sizes   *)
(* of the first two are chosen so that a file is empty, shorter than its   *)
(* header, aligned, not aligned, fills the volume or does not fit it; what *)
(* follows them is erased flash or one more file.  Sections are chosen the *)
(* same way, by where they start.                                          *)
(***************************************************************************)
EXTENDS FfsWalk

Erased == 2^24 - 1
FileSize1 == {0, 20, 32, 37, 57}

\* What the first two files and the sections at 8-byte boundaries look like,
\* and the size of whatever follows.
MCImages ==
  [size1 : FileSize1, type1 : {"PEIM", "PEI_CORE"},
   size2 : {24, Erased}, type2 : {"FREEFORM", "PEI_CORE"},
   rest : {8, Erased}, secSize : {0, 3, 6}, secType : {"RAW", "SUBTYPE_GUID"}]

MCFileAt(img, a) ==
  CASE a = 72 -> [type |-> img.type1, name |-> "a", size |-> img.size1]
    [] a = AlignUp(72 + img.size1, 8) /\ a # 72 ->
         [type |-> img.type2, name |-> "apriori", size |-> img.size2]
    [] OTHER -> [type |-> "PEIM", name |-> "c", size |-> img.rest]

MCSectionAt(img, a) ==
  IF a % 8 = 0 THEN [type |-> img.secType, size |-> img.secSize]
  ELSE [type |-> "TE", size |-> 4 + (a % 2)]

MCSearches == {TeEntryPoint("PEI_CORE", NULL), TeEntryPoint("PEIM", "c"), AprioriFile, PeimFixup}
=============================================================================
