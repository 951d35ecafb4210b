------------------------------- MODULE MCBoot -------------------------------
(***************************************************************************)
(* Boot on small volumes: four files in the boot volume and one in the DXE *)
(* volume, each of a header and two sections.  The images differ in which  *)
(* files there are and in which order, in which sections the PEI core, the *)
(* PEIM and the DXE core have, in whether the third file fits or is empty, *)
(* and in whether headers are right.                                       *)
(***************************************************************************)
EXTENDS Boot

Size == 32
Slot(n) == 72 + (n - 1) * Size  \* the n-th file of the boot volume
DxeSlot == 272

Layouts ==
  { <<"core", "apriori", "ipl", "other">>,
    <<"other", "core", "apriori", "ipl">>,
    <<"ipl", "core", "other", "apriori">>,
    <<"core", "ipl", "other", "other">>,
    <<"apriori", "ipl", "other", "other">> }

Good == [signature |-> TRUE, ffs2 |-> TRUE]
GoodPe == [dos |-> TRUE, nt |-> TRUE, magic |-> TRUE]

\* One thing is wrong with a header at a time.
MCImages ==
  [layout : Layouts,
   header : {Good} \cup {[Good EXCEPT ![f] = FALSE] : f \in DOMAIN Good},
   pe     : {GoodPe} \cup {[GoodPe EXCEPT ![f] = FALSE] : f \in DOMAIN GoodPe},
   core   : {<<"TE", "SUBTYPE_GUID">>, <<"TE", "UI">>, <<"UI", "SUBTYPE_GUID">>},
   ipl    : {<<"TE", "SUBTYPE_GUID">>, <<"TE", "UI">>},
   size3  : {Size, 0, 200},
   dxe    : {<<"DXE_CORE", "PE32">>, <<"DXE_CORE", "RAW">>, <<"FREEFORM", "PE32">>}]

TypeOf == [core |-> "PEI_CORE", apriori |-> "FREEFORM", ipl |-> "PEIM", other |-> "PEIM"]

\* The number of the boot volume's file that an address lies in.
Nth(a) == 1 + (a - 72) \div Size
InBoot(a) == a \in 72..72 + 4 * Size - 1

MCFileAt(img, a) ==
  CASE InBoot(a) /\ a = Slot(Nth(a)) ->
         LET kind == img.layout[Nth(a)] IN
         [type |-> TypeOf[kind], name |-> kind,
          size |-> IF Nth(a) = 3 THEN img.size3 ELSE Size]
    [] a = DxeSlot -> [type |-> img.dxe[1], name |-> "dxe", size |-> Size]
    [] OTHER -> [type |-> "FREEFORM", name |-> "none", size |-> 1024]

\* The types of the two sections of a file, each of which has 4 bytes.
TypesIn(img, kind) ==
  CASE kind = "core" -> img.core
    [] kind = "ipl" -> img.ipl
    [] kind = "other" -> <<"TE", "SUBTYPE_GUID">>
    [] kind = "apriori" -> <<"UI", "RAW">>

MCSectionAt(img, a) ==
  LET kinds == IF InBoot(a) THEN TypesIn(img, img.layout[Nth(a)]) ELSE <<"UI", img.dxe[2]>>
  IN  [size |-> 4, type |-> kinds[1 + (a % 8) \div 4]]

\* A module is linked to 0 and executes where its fixup section says; one that
\* has none is not where a fixup of 0 would have it.
MCDisplacement(img, f) == f + 28

MCBootHeader(img) == img.header
MCPeHeader(img) == img.pe
MCAprioriName(img) == "ipl"
=============================================================================
