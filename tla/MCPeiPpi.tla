------------------------------ MODULE MCPeiPpi ------------------------------
(***************************************************************************)
(* PeiPpi on a small image: three slots and lists that fill the pool       *)
(* exactly, overflow it in the middle, are refused by a full pool or are   *)
(* rejected at their second descriptor.  The fixup suits the modules at 0  *)
(* and 7 only where the list gives it to them, one PPI is in two lists,    *)
(* and one of these is passed twice.                                       *)
(***************************************************************************)
EXTENDS PeiPpi

D(name, ppi, pic, guid, base) ==
  [name |-> name, ppi |-> ppi, pic |-> pic, guid |-> guid, ifc |-> name, base |-> base]

\* Two position-independent PPIs of one GUID.
PairList == <<D("a1", TRUE, TRUE, "g1", 7), D("a2", TRUE, TRUE, "g1", 7)>>
\* A list that begins at the second of them.
TailList == Tail(PairList)
\* A PPI followed by a descriptor that is not one (a notification).
NotifyList == <<D("c1", TRUE, TRUE, "g2", 7), D("c2", FALSE, TRUE, "g2", 7)>>
\* A PPI that needs no fixup, between one that does and its end.
MixedList == <<D("b1", TRUE, FALSE, "g1", 0), D("b2", TRUE, TRUE, "g2", 7),
               D("b3", TRUE, FALSE, "g1", 0)>>
\* A PPI that needs no fixup, by itself.
FixedList == <<D("e1", TRUE, FALSE, "g2", 0)>>
\* A PPI of a module that does not lie where CalcPeimFixup looks.
FarList == <<D("d1", TRUE, TRUE, "g2", 9)>>

MCLists == {PairList, TailList, NotifyList, MixedList, FixedList, FarList}
MCMaxPasses == [l \in MCLists |-> IF l = PairList THEN 2 ELSE 1]
MCDesc == UNION {{l[i] : i \in 1..Len(l)} : l \in MCLists}
=============================================================================
