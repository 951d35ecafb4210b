---------------------------- MODULE PeiPpiProofs ----------------------------
(***************************************************************************)
(* Proofs about PeiPpi for every image, pool size and order of calls: it   *)
(* is type-correct, it implements PpiRegistry, its dispatcher leaves       *)
(* nothing out, searches are exact, and it is known which descriptors the  *)
(* fixups bring to where they belong.                                      *)
(***************************************************************************)
EXTENDS PeiPpi, SequenceTheorems, FiniteSetTheorems, TLAPS

(* The part of the list before ins.pos lies in the pool behind the slots
   that were in use when the call began.                                 *)
InstallInv ==
  call = "install" =>
    /\ ins.list \in Lists
    /\ ins.pos \in 1..Len(ins.list)
    /\ ins.idx = ins.last + ins.pos - 1
    /\ ins.idx < MaxCount
    /\ currentCount = ins.idx
    /\ \A k \in 1..ins.pos - 1 : /\ pool[ins.last + k - 1] = ins.list[k]
                                 /\ ins.list[k].ppi

(* Every counted slot holds a descriptor. *)
PoolInv == \A i \in 0..currentCount - 1 : pool[i] \in Desc

LocateInv == loc.seen <= loc.instance

(* What has run is what lies in the first slots, and a call is only made by a
   PEIM that is running.                                                  *)
DispatchInv ==
  /\ idx <= Committed
  /\ phase \in {"entry", "hung"} => idx < Committed
  /\ call # "none" => phase \in {"peimInit", "entry"}
  /\ phase \in {"peimInit", "dispatch", "astray", "deadLoop"} => Len(ran) = idx
  /\ phase \in {"entry", "hung"} => Len(ran) = idx + 1

IInv == TypeOK /\ InstallInv /\ PoolInv /\ LocateInv /\ DispatchInv

----------------------------------------------------------------------------
LEMMA ListElements ==
  ASSUME NEW l \in Lists
  PROVE  Len(l) \in Nat \ {0} /\ \A k \in 1..Len(l) : l[k] \in Desc
  BY ListsAssumption

LEMMA InitInv == Init => IInv
  BY DescAssumption, ListsAssumption, NumbersAssumption
  DEF Init, IInv, TypeOK, DatabaseType, PointerType, CallType, InstallType, LocateType,
      CoreType, InstallInv, PoolInv, LocateInv, DispatchInv, Committed,
      IdleInstall, IdleLocate

LEMMA NextInv == IInv /\ [Next]_vars => IInv'
<1>. SUFFICES ASSUME IInv, [Next]_vars PROVE IInv'
  OBVIOUS
<1>. USE DescAssumption, ListsAssumption, NumbersAssumption, ListElements DEF IInv, TypeOK
<1>1. CASE \E l \in Lists : InstallBegin(l)
  <2>. PICK l \in Lists : InstallBegin(l)
    BY <1>1
  <2>. USE DEF InstallBegin, PeimRuns, database, pointers, core
  <2>1. /\ DatabaseType' /\ PointerType' /\ LocateType'
        /\ CoreType' /\ PoolInv' /\ LocateInv'
    BY DEF DatabaseType, PointerType, LocateType, CoreType, PoolInv, LocateInv
  <2>2. CallType'
    BY DEF CallType
  <2>3. InstallType'
    BY DEF InstallType, DatabaseType, CallType, PeimFixup, InstallInv
  <2>4. InstallInv'
    BY DEF InstallInv, InstallType, DatabaseType, Current, IsLast
  <2>5. DispatchInv'
    BY DEF DispatchInv, Committed, InstallInv, InstallType, DatabaseType, CoreType, CallType
  <2>. QED
    BY <2>1, <2>2, <2>3, <2>4, <2>5
<1>2. CASE InstallNotPpi
  <2>. USE <1>2 DEF InstallNotPpi, InstallReject, InstallReturn, IdleInstall, database, pointers, core
  <2>1. PointerType' /\ LocateType' /\ CoreType' /\ LocateInv'
    BY DEF PointerType, LocateType, CoreType, LocateInv
  <2>2. DatabaseType'
    BY DEF DatabaseType, InstallInv, InstallType
  <2>3. CallType'
    BY DEF CallType
  <2>4. InstallType'
    BY DEF InstallType, DatabaseType, CallType, PeimFixup, InstallInv
  <2>5. InstallInv'
    BY DEF InstallInv, InstallType, DatabaseType, Current, IsLast
  <2>6. PoolInv'
    BY DEF PoolInv, InstallInv, InstallType, DatabaseType, Current
  <2>7. DispatchInv'
    BY DEF DispatchInv, Committed, InstallInv, InstallType, DatabaseType, CoreType, CallType
  <2>. QED
    BY <2>1, <2>2, <2>3, <2>4, <2>5, <2>6, <2>7
<1>3. CASE InstallNoFixup
  <2>. USE <1>3 DEF InstallNoFixup, InstallReject, InstallReturn, IdleInstall, database, pointers, core
  <2>1. PointerType' /\ LocateType' /\ CoreType' /\ LocateInv'
    BY DEF PointerType, LocateType, CoreType, LocateInv
  <2>2. DatabaseType'
    BY DEF DatabaseType, InstallInv, InstallType
  <2>3. CallType'
    BY DEF CallType
  <2>4. InstallType'
    BY DEF InstallType, DatabaseType, CallType, PeimFixup, InstallInv
  <2>5. InstallInv'
    BY DEF InstallInv, InstallType, DatabaseType, Current, IsLast
  <2>6. PoolInv'
    BY DEF PoolInv, InstallInv, InstallType, DatabaseType, Current
  <2>7. DispatchInv'
    BY DEF DispatchInv, Committed, InstallInv, InstallType, DatabaseType, CoreType, CallType
  <2>. QED
    BY <2>1, <2>2, <2>3, <2>4, <2>5, <2>6, <2>7
<1>4. CASE InstallStore
  <2>1. /\ ins.list \in Lists /\ ins.pos \in 1..Len(ins.list) /\ Len(ins.list) \in Nat
        /\ ins.last \in Nat /\ ins.idx \in 0..MaxCount - 1 /\ ins.idx = ins.last + ins.pos - 1
        /\ currentCount = ins.idx /\ ins.fixup \in {0, BootFixup}
    BY <1>4 DEF InstallStore, InstallInv, InstallType
  <2>2. Current \in Desc /\ Current.ppi /\ PeimFixup \in {0, BootFixup} /\ PeimFixup \in Nat
    BY <1>4, <2>1 DEF InstallStore, Current, PeimFixup
  <2>3. /\ pool' = [pool EXCEPT ![ins.idx] = Current]
        /\ pool' \in [0..MaxCount - 1 -> Desc \cup {NULL}]
    BY <1>4, <2>1, <2>2 DEF InstallStore, DatabaseType
  <2>4. PointerType'
    <3>1. descPpi' \in [Desc -> Nat] /\ descGuid' \in [Desc -> Nat]
      BY <1>4, <2>2 DEF InstallStore, PointerType, FixupPpi
    <3>2. stray' \subseteq Desc
      BY <1>4, <2>2 DEF InstallStore, PointerType, FixupPpi
    <3>3. ifcEntry' \in [Ifc -> Nat]
      BY <1>4, <2>2 DEF InstallStore, PointerType, FixupPpi
    <3>. QED
      BY <3>1, <3>2, <3>3 DEF PointerType
  <2>5. CallType' /\ LocateType' /\ CoreType' /\ LocateInv'
    BY <1>4 DEF InstallStore, InstallReject, InstallReturn, core,
       CallType, LocateType, CoreType, LocateInv
  <2>6. \A k \in 1..ins.pos : pool'[ins.last + k - 1] = ins.list[k] /\ ins.list[k].ppi
    <3>. SUFFICES ASSUME NEW k \in 1..ins.pos
                  PROVE  pool'[ins.last + k - 1] = ins.list[k] /\ ins.list[k].ppi
      OBVIOUS
    <3>1. CASE k = ins.pos
      BY <2>1, <2>2, <2>3, <3>1 DEF DatabaseType, Current
    <3>2. CASE k # ins.pos
      <4>1. pool[ins.last + k - 1] = ins.list[k] /\ ins.list[k].ppi
        BY <1>4, <2>1, <3>2 DEF InstallStore, InstallInv
      <4>. QED
        BY <2>1, <2>3, <3>2, <4>1 DEF DatabaseType
    <3>. QED
      BY <3>1, <3>2
  <2>7. \A i \in 0..currentCount : pool'[i] \in Desc
    BY <2>1, <2>2, <2>3 DEF DatabaseType, PoolInv
  <2>8. phase' = phase /\ idx' = idx /\ ran' = ran /\ call = "install"
    BY <1>4 DEF InstallStore, core
  <2>9. CASE IsLast \/ ins.idx + 1 >= MaxCount
    <3>1. /\ call' = "none"
          /\ ins' = IdleInstall
          /\ currentCount' = currentCount + 1 \/ currentCount' = ins.last
      BY <1>4, <2>1, <2>9 DEF InstallStore, InstallReject, InstallReturn
    <3>2. InstallType' /\ InstallInv'
      BY <3>1 DEF InstallType, InstallInv, IdleInstall
    <3>3. DatabaseType' /\ PoolInv'
      BY <2>1, <2>3, <2>7, <3>1 DEF DatabaseType, PoolInv
    <3>4. DispatchInv'
      BY <2>1, <2>8, <3>1 DEF DispatchInv, Committed, CoreType
    <3>. QED
      BY <2>4, <2>5, <3>2, <3>3, <3>4
  <2>10. CASE ~(IsLast \/ ins.idx + 1 >= MaxCount)
    <3>1. /\ call' = "install" /\ currentCount' = currentCount + 1
          /\ ins' = [ins EXCEPT !.pos = @ + 1, !.idx = @ + 1, !.fixup = PeimFixup]
      BY <1>4, <2>1, <2>8, <2>10 DEF InstallStore, InstallReject, InstallReturn
    <3>2. /\ ins'.list = ins.list /\ ins'.pos = ins.pos + 1 /\ ins'.idx = ins.idx + 1
          /\ ins'.last = ins.last /\ ins'.fixup = PeimFixup
      BY <3>1 DEF InstallType
    <3>3. ins.pos + 1 \in 1..Len(ins.list) /\ ins.idx + 1 < MaxCount
      BY <2>1, <2>10 DEF IsLast
    <3>4. InstallType'
      <4>1. ins.pos + 1 \in Nat \ {0} /\ ins.idx + 1 \in 0..MaxCount - 1
        BY <2>1, <3>3
      <4>. QED
        BY <2>2, <3>1, <4>1 DEF InstallType
    <3>5. InstallInv'
      <4>1. /\ ins'.list \in Lists
            /\ ins'.pos \in 1..Len(ins'.list)
            /\ ins'.idx = ins'.last + ins'.pos - 1
            /\ ins'.idx < MaxCount
            /\ currentCount' = ins'.idx
        BY <2>1, <3>1, <3>2, <3>3
      <4>2. ASSUME NEW k \in 1..ins'.pos - 1
            PROVE  pool'[ins'.last + k - 1] = ins'.list[k] /\ ins'.list[k].ppi
        <5>1. k \in 1..ins.pos
          BY <2>1, <3>2
        <5>. QED
          BY <2>6, <3>2, <5>1
      <4>. QED
        BY <4>1, <4>2 DEF InstallInv
    <3>6. DatabaseType' /\ PoolInv'
      BY <2>1, <2>3, <2>7, <3>1 DEF DatabaseType, PoolInv
    <3>7. DispatchInv'
      BY <2>1, <2>8, <3>1, <3>2 DEF DispatchInv, Committed, CoreType
    <3>. QED
      BY <2>4, <2>5, <3>4, <3>5, <3>6, <3>7
  <2>. QED
    BY <2>9, <2>10
<1>5. CASE \E g \in Guids, n \in 0..MaxInstance : LocateBegin(g, n)
  <2>. PICK g \in Guids, n \in 0..MaxInstance : LocateBegin(g, n)
    BY <1>5
  <2>. USE DEF LocateBegin, IdleLocate, PeimRuns, database, pointers, core
  <2>1. DatabaseType' /\ PointerType' /\ InstallType' /\ CoreType' /\ PoolInv'
    BY DEF DatabaseType, PointerType, InstallType, CoreType, PoolInv
  <2>2. CallType'
    BY DEF CallType
  <2>3. LocateType'
    <3>1. loc' = [guid |-> g, instance |-> n, idx |-> 0, seen |-> 0, found |-> NULL]
      OBVIOUS
    <3>. QED
      BY <3>1 DEF LocateType
  <2>4. InstallInv'
    BY DEF InstallInv, InstallType, DatabaseType, Current, IsLast
  <2>5. LocateInv'
    BY DEF LocateInv, LocateType
  <2>6. DispatchInv'
    BY DEF DispatchInv, Committed, InstallInv, InstallType, DatabaseType, CoreType, CallType
  <2>. QED
    BY <2>1, <2>2, <2>3, <2>4, <2>5, <2>6
<1>6. CASE LocateSkip
  <2>. USE <1>6 DEF LocateSkip, database, pointers, core
  <2>1. /\ DatabaseType' /\ PointerType' /\ CallType' /\ InstallType'
        /\ CoreType' /\ InstallInv' /\ PoolInv' /\ DispatchInv'
    BY DEF DatabaseType, PointerType, CallType, InstallType, CoreType, InstallInv,
       PoolInv, DispatchInv, Committed
  <2>2. LocateType'
    <3>1. loc.idx + 1 \in 0..MaxCount
      BY DEF LocateType, DatabaseType
    <3>. QED
      BY <3>1 DEF LocateType
  <2>3. LocateInv'
    BY DEF LocateInv, LocateType
  <2>. QED
    BY <2>1, <2>2, <2>3
<1>7. CASE LocateMatch
  <2>. USE <1>7 DEF LocateMatch, database, pointers, core
  <2>1. DatabaseType' /\ PointerType' /\ InstallType' /\ CoreType' /\ PoolInv'
    BY DEF DatabaseType, PointerType, InstallType, CoreType, PoolInv
  <2>2. CallType'
    BY DEF CallType
  <2>3. LocateType'
    <3>1. loc.idx + 1 \in 0..MaxCount /\ pool[loc.idx] \in Desc \cup {NULL}
      BY DEF LocateType, DatabaseType
    <3>2. loc.seen # loc.instance => loc.seen + 1 \in 0..MaxInstance
      BY DEF LocateType, LocateInv
    <3>3. CASE loc.seen # loc.instance
      BY <3>1, <3>2, <3>3 DEF LocateType
    <3>4. CASE loc.seen = loc.instance
      BY <3>1, <3>4 DEF LocateType
    <3>. QED
      BY <3>3, <3>4
  <2>4. InstallInv'
    BY DEF InstallInv, InstallType, DatabaseType, Current, IsLast
  <2>5. LocateInv'
    <3>1. CASE loc.seen # loc.instance
      <4>1. loc'.seen = loc.seen + 1 /\ loc'.instance = loc.instance
        BY <3>1 DEF LocateType
      <4>. QED
        BY <3>1, <4>1 DEF LocateInv, LocateType
    <3>2. CASE loc.seen = loc.instance
      BY <3>2 DEF LocateInv, LocateType
    <3>. QED
      BY <3>1, <3>2
  <2>6. DispatchInv'
    BY DEF DispatchInv, Committed, InstallInv, InstallType, DatabaseType, CoreType, CallType
  <2>. QED
    BY <2>1, <2>2, <2>3, <2>4, <2>5, <2>6
<1>8. CASE LocateNone
  <2>. USE <1>8 DEF LocateNone, database, pointers, core
  <2>1. /\ DatabaseType' /\ PointerType' /\ InstallType' /\ LocateType'
        /\ CoreType' /\ PoolInv' /\ LocateInv'
    BY DEF DatabaseType, PointerType, InstallType, LocateType, CoreType, PoolInv,
       LocateInv
  <2>2. CallType'
    BY DEF CallType
  <2>3. InstallInv'
    BY DEF InstallInv, InstallType, DatabaseType, Current, IsLast
  <2>4. DispatchInv'
    BY DEF DispatchInv, Committed, InstallInv, InstallType, DatabaseType, CoreType, CallType
  <2>. QED
    BY <2>1, <2>2, <2>3, <2>4
<1>9. CASE LocateReturn
  <2>. USE <1>9 DEF LocateReturn, IdleLocate, database, pointers, core
  <2>1. DatabaseType' /\ PointerType' /\ InstallType' /\ CoreType' /\ PoolInv'
    BY DEF DatabaseType, PointerType, InstallType, CoreType, PoolInv
  <2>2. CallType'
    BY DEF CallType
  <2>3. LocateType'
    BY DEF LocateType, DatabaseType, LocateInv
  <2>4. InstallInv'
    BY DEF InstallInv, InstallType, DatabaseType, Current, IsLast
  <2>5. LocateInv'
    BY DEF LocateInv, LocateType
  <2>6. DispatchInv'
    BY DEF DispatchInv, Committed, InstallInv, InstallType, DatabaseType, CoreType, CallType
  <2>. QED
    BY <2>1, <2>2, <2>3, <2>4, <2>5, <2>6
<1>10. CASE Refuse
  <2>. USE <1>10 DEF Refuse, PeimRuns, database, pointers, core
  <2>1. /\ DatabaseType' /\ PointerType' /\ InstallType' /\ LocateType' /\ CoreType'
        /\ InstallInv' /\ PoolInv' /\ LocateInv' /\ DispatchInv'
    BY DEF DatabaseType, PointerType, InstallType, LocateType, CoreType, InstallInv,
       PoolInv, LocateInv, DispatchInv, Committed
  <2>2. CallType'
    BY DEF CallType
  <2>. QED
    BY <2>1, <2>2
<1>11. CASE InitPeimsReturn
  <2>. USE <1>11 DEF InitPeimsReturn, database, pointers, core
  <2>1. /\ DatabaseType' /\ PointerType' /\ CallType' /\ InstallType'
        /\ LocateType' /\ InstallInv' /\ PoolInv' /\ LocateInv'
    BY DEF DatabaseType, PointerType, CallType, InstallType, LocateType, InstallInv,
       PoolInv, LocateInv
  <2>2. CoreType'
    BY DEF CoreType, DatabaseType, PoolInv, DispatchInv, Committed, CallType, InstallType
  <2>3. DispatchInv'
    BY DEF DispatchInv, Committed, InstallInv, InstallType, DatabaseType, CoreType, CallType
  <2>. QED
    BY <2>1, <2>2, <2>3
<1>12. CASE DispatchEntry
  <2>. USE <1>12 DEF DispatchEntry, database, pointers, core
  <2>1. /\ DatabaseType' /\ PointerType' /\ CallType' /\ InstallType'
        /\ LocateType' /\ InstallInv' /\ PoolInv' /\ LocateInv'
    BY DEF DatabaseType, PointerType, CallType, InstallType, LocateType, InstallInv,
       PoolInv, LocateInv
  <2>2. CoreType'
    <3>1. idx \in 0..currentCount - 1 /\ idx \in 0..MaxCount
      BY DEF CoreType, DatabaseType
    <3>2. pool[idx] \in Desc
      BY <3>1 DEF PoolInv
    <3>. QED
      BY <3>1, <3>2 DEF CoreType
  <2>3. idx < Committed /\ Len(ran) = idx /\ call = "none"
    BY DEF DispatchInv, Committed, CallType
  <2>4. Len(ran') = idx + 1
    <3>1. ran \in Seq(Desc) /\ ran' = Append(ran, pool[idx])
      BY DEF CoreType
    <3>. QED
      BY <2>3, <3>1
  <2>5. DispatchInv'
    BY <2>3, <2>4 DEF DispatchInv, Committed
  <2>. QED
    BY <2>1, <2>2, <2>5
<1>13. CASE EntryReturn
  <2>. USE <1>13 DEF EntryReturn, database, pointers, core
  <2>1. /\ DatabaseType' /\ PointerType' /\ CallType' /\ InstallType'
        /\ LocateType' /\ InstallInv' /\ PoolInv' /\ LocateInv'
    BY DEF DatabaseType, PointerType, CallType, InstallType, LocateType, InstallInv,
       PoolInv, LocateInv
  <2>2. CoreType'
    BY DEF CoreType, DatabaseType, PoolInv, DispatchInv, Committed, CallType, InstallType
  <2>3. DispatchInv'
    BY DEF DispatchInv, Committed, InstallInv, InstallType, DatabaseType, CoreType, CallType
  <2>. QED
    BY <2>1, <2>2, <2>3
<1>14. CASE EntryHangs
  <2>. USE <1>14 DEF EntryHangs, database, pointers, core
  <2>1. /\ DatabaseType' /\ PointerType' /\ CallType' /\ InstallType'
        /\ LocateType' /\ InstallInv' /\ PoolInv' /\ LocateInv'
    BY DEF DatabaseType, PointerType, CallType, InstallType, LocateType, InstallInv,
       PoolInv, LocateInv
  <2>2. CoreType'
    BY DEF CoreType, DatabaseType, PoolInv, DispatchInv, Committed, CallType, InstallType
  <2>3. DispatchInv'
    BY DEF DispatchInv, Committed, InstallInv, InstallType, DatabaseType, CoreType, CallType
  <2>. QED
    BY <2>1, <2>2, <2>3
<1>15. CASE DispatchEnd
  <2>. USE <1>15 DEF DispatchEnd, database, pointers, core
  <2>1. /\ DatabaseType' /\ PointerType' /\ CallType' /\ InstallType'
        /\ LocateType' /\ InstallInv' /\ PoolInv' /\ LocateInv'
    BY DEF DatabaseType, PointerType, CallType, InstallType, LocateType, InstallInv,
       PoolInv, LocateInv
  <2>2. CoreType'
    BY DEF CoreType, DatabaseType, PoolInv, DispatchInv, Committed, CallType, InstallType
  <2>3. DispatchInv'
    BY DEF DispatchInv, Committed, InstallInv, InstallType, DatabaseType, CoreType, CallType
  <2>. QED
    BY <2>1, <2>2, <2>3
<1>16. CASE DispatchAstray
  <2>. USE <1>16 DEF DispatchAstray, database, pointers, core
  <2>1. /\ DatabaseType' /\ PointerType' /\ CallType' /\ InstallType'
        /\ LocateType' /\ InstallInv' /\ PoolInv' /\ LocateInv'
    BY DEF DatabaseType, PointerType, CallType, InstallType, LocateType, InstallInv,
       PoolInv, LocateInv
  <2>2. CoreType'
    BY DEF CoreType
  <2>3. DispatchInv'
    BY DEF DispatchInv, Committed, InstallInv, InstallType, DatabaseType, CoreType, CallType
  <2>. QED
    BY <2>1, <2>2, <2>3
<1>17. CASE UNCHANGED vars
  <2>. USE <1>17 DEF vars, database, pointers, core
  <2>1. DatabaseType' /\ PointerType' /\ LocateType' /\ CoreType'
    BY DEF DatabaseType, PointerType, LocateType, CoreType
  <2>2. CallType' /\ InstallType'
    BY DEF CallType, InstallType
  <2>3. InstallInv' /\ PoolInv' /\ LocateInv' /\ DispatchInv'
    BY DEF InstallInv, PoolInv, LocateInv, DispatchInv, Committed
  <2>. QED
    BY <2>1, <2>2, <2>3
<1>. QED
  BY <1>1, <1>2, <1>3, <1>4, <1>5, <1>6, <1>7, <1>8, <1>9, <1>10, <1>11, <1>12, <1>13, <1>14, <1>15, <1>16, <1>17
  DEF Next, InstallStep, LocateStep, PeimReturn, Dispatch

(* Every variable keeps its type: in particular the dispatcher and the
   services never index the pool outside its slots, and never follow an
   empty one (PoolInv).                                                   *)
THEOREM TypeCorrect == Spec => []TypeOK
<1>1. Spec => []IInv
  BY InitInv, NextInv, PTL DEF Spec
<1>2. IInv => TypeOK
  BY DEF IInv
<1>. QED
  BY <1>1, <1>2, PTL

-----------------------------------------------------------------------------
(* Refinement of PpiRegistry *)

LEMMA InitRefines == Init => Registry!Init
  BY DEF Init, Registry!Init, Db, Committed

\* A step that leaves the committed slots alone does not change the log.
LEMMA DbUnchanged ==
  ASSUME IInv, Committed' = Committed,
         \A i \in 0..Committed - 1 : pool'[i] = pool[i]
  PROVE  Db' = Db
<1>1. Committed \in Nat
  BY DEF IInv, TypeOK, DatabaseType, InstallType, Committed
<1>2. ASSUME NEW i \in 1..Committed PROVE pool'[i - 1] = pool[i - 1]
  BY <1>1
<1>. QED
  BY <1>1, <1>2 DEF Db

\* The last store of a call appends its whole list to the log.
LEMMA StoreAppends ==
  ASSUME IInv, InstallStore, IsLast
  PROVE  /\ call' = "none" /\ status' = "EFI_SUCCESS" /\ ran' = ran
         /\ \A k \in 1..Len(ins.list) : ins.list[k].ppi
         /\ Db' = Db \o ins.list /\ Len(Db) + Len(ins.list) <= MaxCount
<1>1. /\ ins.list \in Lists /\ ins.pos \in 1..Len(ins.list) /\ Len(ins.list) \in Nat
      /\ ins.last \in Nat /\ ins.idx \in 0..MaxCount - 1 /\ ins.idx = ins.last + ins.pos - 1
      /\ currentCount = ins.idx /\ Committed = ins.last /\ MaxCount \in Nat
  BY ListElements, NumbersAssumption
  DEF InstallStore, IInv, TypeOK, InstallInv, InstallType, Committed
<1>2. pool' = [pool EXCEPT ![ins.idx] = Current] /\ ran' = ran /\ call = "install"
  BY DEF InstallStore, core
<1>3. \A i \in 0..Committed - 1 : pool'[i] = pool[i]
  BY <1>1, <1>2 DEF IInv, TypeOK, DatabaseType
<1>4. call' = "none" /\ currentCount' = ins.last + Len(ins.list)
  BY <1>1 DEF InstallStore, InstallReturn, IsLast
<1>5. \A k \in 1..Len(ins.list) : pool'[ins.last + k - 1] = ins.list[k] /\ ins.list[k].ppi
  <2>. SUFFICES ASSUME NEW k \in 1..Len(ins.list)
                PROVE  pool'[ins.last + k - 1] = ins.list[k] /\ ins.list[k].ppi
    OBVIOUS
  <2>1. CASE k = ins.pos
    BY <1>1, <1>2, <2>1 DEF InstallStore, Current, IInv, TypeOK, DatabaseType
  <2>2. CASE k # ins.pos
    <3>1. pool[ins.last + k - 1] = ins.list[k] /\ ins.list[k].ppi
      BY <1>1, <1>2, <2>2 DEF IInv, InstallInv, IsLast
    <3>. QED
      BY <1>1, <1>2, <2>2, <3>1 DEF IInv, TypeOK, DatabaseType
  <2>. QED
    BY <2>1, <2>2
<1>6. Db' = Db \o ins.list
  <2>1. Db' = [i \in 1..ins.last + Len(ins.list) |-> pool'[i - 1]]
    BY <1>4 DEF Db, Committed
  <2>2. Db = [i \in 1..ins.last |-> pool[i - 1]]
    BY <1>1 DEF Db
  <2>3. Db \in Seq(Desc) /\ Len(Db) = ins.last /\ ins.list \in Seq(Desc)
    <3>1. ASSUME NEW i \in 1..ins.last PROVE pool[i - 1] \in Desc
      <4>1. i - 1 \in 0..currentCount - 1
        BY <1>1
      <4>. QED
        BY <4>1 DEF IInv, PoolInv
    <3>2. Db \in Seq(Desc)
      BY <1>1, <2>2, <3>1
    <3>3. Len(Db) = ins.last
      BY <1>1, <2>2
    <3>. QED
      BY <1>1, <3>2, <3>3, ListsAssumption
  <2>4. Db \o ins.list = [i \in 1..ins.last + Len(ins.list) |->
                            IF i <= ins.last THEN Db[i] ELSE ins.list[i - ins.last]]
    <3>. DEFINE both == Db \o ins.list
    <3>1. /\ both \in Seq(Desc) /\ Len(both) = ins.last + Len(ins.list)
          /\ \A i \in 1..ins.last + Len(ins.list) :
               both[i] = IF i <= ins.last THEN Db[i] ELSE ins.list[i - ins.last]
      <4>1. /\ both \in Seq(Desc) /\ Len(both) = Len(Db) + Len(ins.list)
            /\ \A i \in 1..Len(Db) + Len(ins.list) :
                 both[i] = IF i <= Len(Db) THEN Db[i] ELSE ins.list[i - Len(Db)]
        BY <2>3, ConcatProperties, Zenon
      <4>. QED
        BY <2>3, <4>1
    <3>2. both = [i \in 1..Len(both) |-> both[i]]
      <4>. HIDE DEF both
      <4>. QED
        BY <3>1
    <3>. QED
      BY <3>1, <3>2
  <2>5. ASSUME NEW i \in 1..ins.last + Len(ins.list)
        PROVE  pool'[i - 1] = IF i <= ins.last THEN Db[i] ELSE ins.list[i - ins.last]
    <3>1. CASE i <= ins.last
      BY <1>1, <1>3, <2>2, <3>1
    <3>2. CASE ~(i <= ins.last)
      <4>1. i - ins.last \in 1..Len(ins.list) /\ ins.last + (i - ins.last) - 1 = i - 1
        BY <1>1, <3>2
      <4>. QED
        BY <1>5, <3>2, <4>1
    <3>. QED
      BY <3>1, <3>2
  <2>. QED
    BY <2>1, <2>4, <2>5
<1>7. Len(Db) + Len(ins.list) <= MaxCount
  BY <1>1 DEF Db, IsLast
<1>8. status' = "EFI_SUCCESS"
  BY DEF InstallStore, InstallReturn
<1>. QED
  BY <1>2, <1>4, <1>5, <1>6, <1>7, <1>8

LEMMA StepRefines == IInv /\ [Next]_vars => [Registry!Next]_(Registry!vars)
<1>. SUFFICES ASSUME IInv, [Next]_vars PROVE [Registry!Next]_(Registry!vars)
  OBVIOUS
<1>. DEFINE Same == Committed' = Committed /\ (\A i \in 0..Committed - 1 : pool'[i] = pool[i])
<1>1. ASSUME Same, ran' = ran PROVE [Registry!Next]_(Registry!vars)
  BY <1>1, DbUnchanged DEF Registry!vars
<1>. USE DEF database, pointers, core
<1>2. CASE \E l \in Lists : InstallBegin(l)
  BY <1>1, <1>2 DEF InstallBegin, PeimRuns, Committed
<1>3. CASE InstallNotPpi \/ InstallNoFixup
  BY <1>1, <1>3 DEF InstallNotPpi, InstallNoFixup, InstallReject, InstallReturn, Committed
<1>4. CASE InstallStore
  <2>1. /\ ins.list \in Lists /\ ins.pos \in 1..Len(ins.list) /\ Len(ins.list) \in Nat
        /\ ins.last \in Nat /\ ins.idx \in 0..MaxCount - 1 /\ ins.idx = ins.last + ins.pos - 1
        /\ currentCount = ins.idx /\ Committed = ins.last /\ MaxCount \in Nat
    BY <1>4, ListElements, NumbersAssumption
    DEF InstallStore, IInv, TypeOK, InstallInv, InstallType, Committed
  <2>2. pool' = [pool EXCEPT ![ins.idx] = Current] /\ ran' = ran /\ call = "install"
    BY <1>4 DEF InstallStore
  <2>3. \A i \in 0..Committed - 1 : pool'[i] = pool[i]
    BY <2>1, <2>2 DEF IInv, TypeOK, DatabaseType
  <2>4. CASE IsLast
    <3>1. Registry!Install(ins.list)
      BY <1>4, <2>4, StoreAppends DEF Registry!Install
    <3>. QED
      BY <2>1, <3>1 DEF Registry!Next
  <2>5. CASE ~IsLast
    <3>1. Committed' = Committed
      BY <1>4, <2>1, <2>5 DEF InstallStore, InstallReject, InstallReturn, InstallType,
         IInv, TypeOK, Committed
    <3>. QED
      BY <1>1, <2>2, <2>3, <3>1
  <2>. QED
    BY <2>4, <2>5
<1>5. CASE \/ \E g \in Guids, n \in 0..MaxInstance : LocateBegin(g, n)
          \/ LocateStep
          \/ Refuse
  BY <1>1, <1>5 DEF LocateBegin, LocateStep, LocateSkip, LocateMatch, LocateNone, LocateReturn,
     Refuse, PeimRuns, Committed
<1>6. CASE PeimReturn \/ DispatchEnd \/ DispatchAstray
  BY <1>1, <1>6 DEF PeimReturn, InitPeimsReturn, EntryReturn, EntryHangs, DispatchEnd,
     DispatchAstray, Committed
<1>7. CASE DispatchEntry
  <2>1. /\ call = "none" /\ Committed = currentCount /\ Len(ran) = idx
        /\ idx \in Nat /\ currentCount \in Nat /\ idx < currentCount
    BY <1>7 DEF DispatchEntry, IInv, TypeOK, DispatchInv, DatabaseType, CoreType, CallType, Committed
  <2>2. Len(Db) = currentCount /\ Db[Len(ran) + 1] = pool[idx]
    BY <2>1 DEF Db
  <2>3. Db' = Db
    BY <1>7, <2>1, DbUnchanged DEF DispatchEntry, Committed
  <2>4. Registry!Run
    BY <1>7, <2>1, <2>2, <2>3 DEF DispatchEntry, Registry!Run
  <2>. QED
    BY <2>4 DEF Registry!Next
<1>8. CASE UNCHANGED vars
  BY <1>1, <1>8 DEF vars, Committed
<1>. QED
  BY <1>2, <1>3, <1>4, <1>5, <1>6, <1>7, <1>8 DEF Next, InstallStep, Dispatch

(* PeiInstallPpi and DispatchPeims implement the registry: lists are appended
   whole or not at all, and the log is run in order, each descriptor once.  *)
THEOREM RegistryImplemented == Spec => ImplementsRegistry
<1>1. Spec => []IInv
  BY InitInv, NextInv, PTL DEF Spec
<1>. QED
  BY <1>1, InitRefines, StepRefines, PTL DEF Spec, ImplementsRegistry, Registry!Spec

(* DeadLoopComplete.  What has run is what the first slots hold: the slots of
   installed descriptors are not written again.                           *)
RanInv ==
  /\ \A i \in 1..Len(ran) : ran[i] = pool[i - 1]
  /\ phase = "deadLoop" => idx >= Committed

LEMMA RanWithinLog == IInv => Len(ran) \in Nat /\ Len(ran) <= Committed
  BY DEF IInv, TypeOK, CoreType, DispatchInv, DatabaseType, InstallType, Committed

LEMMA InitRan == Init => RanInv
  BY DEF Init, RanInv

LEMMA NextRan == IInv /\ RanInv /\ [Next]_vars => RanInv'
<1>. SUFFICES ASSUME IInv, RanInv, [Next]_vars PROVE RanInv'
  OBVIOUS
<1>. USE DEF database, pointers, core
<1>1. Len(ran) \in Nat /\ Len(ran) <= Committed /\ Committed \in Nat
  BY RanWithinLog DEF IInv, TypeOK, DatabaseType, InstallType, Committed
<1>2. ASSUME ran' = ran, \A i \in 0..Committed - 1 : pool'[i] = pool[i],
             phase' = "deadLoop" => idx' >= Committed'
      PROVE  RanInv'
  <2>1. \A i \in 1..Len(ran) : i - 1 \in 0..Committed - 1
    BY <1>1
  <2>. QED
    BY <1>2, <2>1 DEF RanInv
<1>3. CASE DispatchEntry
  <2>1. /\ ran' = Append(ran, pool[idx]) /\ pool' = pool /\ phase' = "entry"
        /\ Len(ran) = idx /\ ran \in Seq(Desc) /\ pool[idx] \in Desc
    <3>1. idx \in 0..currentCount - 1
      BY <1>3 DEF DispatchEntry, IInv, TypeOK, CoreType, DatabaseType
    <3>. QED
      BY <1>3, <3>1 DEF DispatchEntry, IInv, TypeOK, CoreType, DispatchInv, PoolInv
  <2>2. Len(ran') = idx + 1 /\ \A i \in 1..idx + 1 : ran'[i] = IF i <= idx THEN ran[i] ELSE pool[idx]
    BY <2>1
  <2>3. \A i \in 1..Len(ran') : ran'[i] = pool'[i - 1]
    BY <1>1, <2>1, <2>2 DEF RanInv
  <2>. QED
    BY <2>1, <2>3 DEF RanInv
<1>4. CASE DispatchEnd
  <2>1. call = "none"
    BY <1>4 DEF DispatchEnd, IInv, TypeOK, CallType, DispatchInv
  <2>2. ran' = ran /\ pool' = pool /\ idx' = idx /\ idx' >= Committed'
    BY <1>4, <2>1 DEF DispatchEnd, Committed
  <2>. QED
    BY <1>2, <2>2
<1>5. CASE UNCHANGED vars
  BY <1>5 DEF vars, RanInv, Committed
<1>6. CASE ~(DispatchEntry \/ DispatchEnd \/ UNCHANGED vars)
  <2>1. ran' = ran /\ phase' # "deadLoop"
    BY <1>6 DEF Next, InstallBegin, InstallStep, InstallNotPpi, InstallNoFixup, InstallStore,
                InstallReject, InstallReturn, LocateBegin, LocateStep, LocateSkip, LocateMatch,
                LocateNone, LocateReturn, Refuse, PeimReturn, InitPeimsReturn, EntryReturn,
                EntryHangs, Dispatch, DispatchAstray, PeimRuns, IInv, DispatchInv
  <2>2. CASE InstallStore
    <3>1. /\ pool' = [pool EXCEPT ![ins.idx] = Current] /\ Committed = ins.last
          /\ ins.last \in Nat /\ ins.pos \in Nat \ {0} /\ ins.idx = ins.last + ins.pos - 1
          /\ ins.idx \in 0..MaxCount - 1
      BY <2>2, NumbersAssumption
      DEF InstallStore, IInv, TypeOK, InstallInv, InstallType, Committed
    <3>2. \A i \in 0..Committed - 1 : pool'[i] = pool[i]
      BY <3>1 DEF IInv, TypeOK, DatabaseType
    <3>. QED
      BY <1>2, <2>1, <3>2
  <2>3. CASE ~InstallStore
    <3>1. pool' = pool
      BY <1>6, <2>3
      DEF Next, InstallBegin, InstallStep, InstallNotPpi, InstallNoFixup, InstallReject,
          InstallReturn, LocateBegin, LocateStep, LocateSkip, LocateMatch, LocateNone,
          LocateReturn, Refuse, PeimReturn, InitPeimsReturn, EntryReturn, EntryHangs, Dispatch,
          DispatchAstray
    <3>. QED
      BY <1>2, <2>1, <3>1
  <2>. QED
    BY <2>2, <2>3
<1>. QED
  BY <1>3, <1>4, <1>5, <1>6

(* When PeiCoreMain comes to its dead loop every descriptor of the database
   has run, in order and once, for every image and order of calls.        *)
THEOREM NothingLeftToRun == Spec => []DeadLoopComplete
<1>1. IInv /\ RanInv => DeadLoopComplete
  <2>. SUFFICES ASSUME IInv, RanInv, phase = "deadLoop" PROVE ran = Db
    BY DEF DeadLoopComplete
  <2>1. /\ ran \in Seq(Desc) /\ Len(ran) = idx /\ idx >= Committed
        /\ Len(ran) \in Nat /\ Len(ran) <= Committed
        /\ Committed \in Nat
    BY RanWithinLog
    DEF IInv, TypeOK, CoreType, DispatchInv, RanInv, DatabaseType, InstallType, Committed
  <2>2. Len(ran) = Committed
    BY <2>1
  <2>3. ran = [i \in 1..Len(ran) |-> ran[i]]
    BY <2>1
  <2>. QED
    BY <2>2, <2>3 DEF RanInv, Db
<1>. QED
  BY <1>1, InitInv, NextInv, InitRan, NextRan, PTL DEF Spec

LEMMA StepTruthful ==
  ASSUME IInv, [Next]_vars, call = "install", call' = "none"
  PROVE  IF status' = "EFI_SUCCESS" THEN Db' = Db \o ins.list ELSE Db' = Db
<1>. DEFINE Same == Committed' = Committed /\ (\A i \in 0..Committed - 1 : pool'[i] = pool[i])
<1>1. CASE InstallNotPpi \/ InstallNoFixup
  <2>1. status' # "EFI_SUCCESS" /\ Same
    BY <1>1 DEF InstallNotPpi, InstallNoFixup, InstallReject, InstallReturn, Committed
  <2>. QED
    BY <2>1, DbUnchanged
<1>2. CASE InstallStore /\ IsLast
  BY <1>2, StoreAppends
<1>3. CASE InstallStore /\ ~IsLast
  <2>1. status' = "EFI_NOT_FOUND" /\ currentCount' = ins.last
    BY <1>3 DEF InstallStore, InstallReject, InstallReturn
  <2>2. Committed = ins.last /\ Committed' = ins.last
    BY <2>1 DEF Committed
  <2>3. /\ ins.idx \in 0..MaxCount - 1 /\ ins.last <= ins.idx /\ ins.last \in Nat
        /\ pool' = [pool EXCEPT ![ins.idx] = Current]
    BY <1>3, ListElements, NumbersAssumption DEF InstallStore, IInv, TypeOK, InstallInv, InstallType
  <2>4. Same
    BY <2>2, <2>3 DEF IInv, TypeOK, DatabaseType
  <2>. QED
    BY <2>1, <2>4, DbUnchanged
<1>4. CASE ~InstallStep
  BY <1>4 DEF Next, InstallStep, InstallBegin, PeimRuns, LocateBegin, LocateStep, LocateSkip, LocateMatch,
     LocateNone, LocateReturn, Refuse, PeimReturn, InitPeimsReturn, EntryReturn, EntryHangs,
     Dispatch, DispatchEntry, DispatchAstray, DispatchEnd, vars
<1>. QED
  BY <1>1, <1>2, <1>3, <1>4 DEF InstallStep

(* The caller of PeiInstallPpi is told the truth: EFI_SUCCESS means that the
   whole list has been appended, anything else that the log is as it was.   *)
THEOREM CallerToldTruth == Spec => StatusTruthful
<1>1. Spec => []IInv
  BY InitInv, NextInv, PTL DEF Spec
<1>2. ASSUME IInv, [Next]_vars
      PROVE  [call = "install" /\ call' = "none"
              => IF status' = "EFI_SUCCESS" THEN Db' = Db \o ins.list ELSE Db' = Db]_vars
  BY <1>2, StepTruthful
<1>. QED
  BY <1>1, <1>2, PTL DEF Spec, StatusTruthful

-----------------------------------------------------------------------------
(* Relocation.  CalcPeimFixup always answers with the first PEIM of the boot
   volume, a fixup stays for the rest of its list, and FixupPpi moves the
   pointers again each time a list is passed.                             *)

(* A call that has passed l, and none other is in progress, is past its k-th
   descriptor.                                                            *)
Passed(l, k) == passes[l] > 0 /\ ~(call = "install" /\ ins.list = l /\ k >= ins.pos)

Unmoved(d) == descPpi[d] = 0 /\ descGuid[d] = 0 /\ ifcEntry[d.ifc] = 0

\* One call of FixupPpi has moved the pointers as l gives them to it.
MovedOnce(l, k) ==
  /\ descPpi[l[k]] = FixupAt(l, k)
  /\ descGuid[l[k]] = FixupAt(l, k)
  /\ ifcEntry[l[k].ifc] = IF Suits(l, k) THEN FixupAt(l, k) ELSE 0

FixupInv ==
  call = "install" =>
    /\ passes[ins.list] > 0
    /\ ins.fixup = IF \E j \in 1..ins.pos - 1 : ins.list[j].pic THEN BootFixup ELSE 0

PoolMoved ==
  \A l \in Lists : \A k \in 1..Len(l), i \in 0..currentCount - 1 :
    pool[i] = l[k] /\ Sole(l, k) => MovedOnce(l, k)

OthersUnmoved ==
  \A l \in Lists : \A k \in 1..Len(l) : Sole(l, k) /\ ~Passed(l, k) => Unmoved(l[k])

StrayInv ==
  \A d \in stray : \E l \in Lists : \E k \in 1..Len(l) :
    l[k] = d /\ passes[l] > 0 /\ ~(Suits(l, k) /\ Sole(l, k))

\* A descriptor has been moved at least as often as it has been stored.
TwiceMoved ==
  \A d \in Desc : AlwaysMoved(d) =>
    /\ \A i \in 0..currentCount - 1 : pool[i] = d => descPpi[d] >= BootFixup
    /\ \A i, j \in 0..currentCount - 1 :
         i # j /\ pool[i] = d /\ pool[j] = d => descPpi[d] >= BootFixup + BootFixup

RInv == FixupInv /\ PoolMoved /\ OthersUnmoved /\ StrayInv /\ TwiceMoved

LEMMA InitRelocated == Init => RInv
<1>. SUFFICES ASSUME Init PROVE RInv
  OBVIOUS
<1>1. \A l \in Lists : \A k \in 1..Len(l) : l[k] \in Desc
  BY ListElements
<1>2. FixupInv /\ PoolMoved /\ StrayInv /\ TwiceMoved
  BY DEF Init, FixupInv, PoolMoved, StrayInv, TwiceMoved
<1>3. OthersUnmoved
  BY <1>1 DEF Init, OthersUnmoved, Unmoved, Ifc
<1>. QED
  BY <1>2, <1>3 DEF RInv

\* Passing a list again never makes a descriptor one that is passed only once.
LEMMA SoleBefore ==
  ASSUME IInv, \A m \in Lists : passes'[m] \in Nat /\ passes'[m] >= passes[m],
         NEW l \in Lists, NEW k \in 1..Len(l), Sole(l, k)'
  PROVE  Sole(l, k)
<1>1. \A m \in Lists : passes[m] \in Nat
  BY DEF IInv, TypeOK, CallType
<1>2. passes[l] <= 1
  BY <1>1 DEF Sole
<1>3. \A m \in Lists : \A j \in 1..Len(m) :
        m[j].ifc = l[k].ifc /\ passes[m] > 0 => m = l /\ j = k
  BY <1>1 DEF Sole
<1>. QED
  BY <1>2, <1>3 DEF Sole

LEMMA FewerSlots ==
  ASSUME NEW n \in Nat, NEW m \in 0..n, NEW i \in 0..m - 1
  PROVE  i \in 0..n - 1
  OBVIOUS

\* A step that moves no pointer and stores nothing.
LEMMA StillRelocated ==
  ASSUME IInv, RInv, UNCHANGED pointers, currentCount' \in 0..currentCount,
         \A i \in 0..currentCount - 1 : pool'[i] = pool[i],
         \A m \in Lists : passes'[m] \in Nat /\ passes'[m] >= passes[m],
         \A l \in Lists : \A k \in 1..Len(l) : Sole(l, k)' /\ Passed(l, k) => Passed(l, k)',
         FixupInv'
  PROVE  RInv'
<1>. USE DEF pointers
<1>1. \A l \in Lists : \A k \in 1..Len(l) : Sole(l, k)' => Sole(l, k)
  BY SoleBefore
<1>2. \A l, k : MovedOnce(l, k)' <=> MovedOnce(l, k)
  BY DEF MovedOnce, Suits, FixupAt
<1>3. currentCount \in Nat /\ currentCount' \in Nat /\ currentCount' <= currentCount
  BY NumbersAssumption DEF IInv, TypeOK, DatabaseType
<1>4. ASSUME NEW i \in 0..currentCount' - 1
      PROVE  i \in 0..currentCount - 1 /\ pool'[i] = pool[i]
  <2>1. i \in 0..currentCount - 1
    BY <1>3, FewerSlots
  <2>. QED
    BY <2>1
<1>5. PoolMoved'
  <2>. SUFFICES ASSUME NEW l \in Lists, NEW k \in 1..Len(l), NEW i \in 0..currentCount' - 1,
                       pool'[i] = l[k], Sole(l, k)'
                PROVE  MovedOnce(l, k)'
    BY DEF PoolMoved
  <2>. QED
    BY <1>1, <1>2, <1>4 DEF RInv, PoolMoved
<1>6. OthersUnmoved'
  <2>. SUFFICES ASSUME NEW l \in Lists, NEW k \in 1..Len(l), Sole(l, k)', ~Passed(l, k)'
                PROVE  Unmoved(l[k])'
    BY DEF OthersUnmoved
  <2>. QED
    BY <1>1 DEF RInv, OthersUnmoved, Unmoved
<1>7. StrayInv'
  <2>. SUFFICES ASSUME NEW d \in stray
                PROVE  \E l \in Lists : \E k \in 1..Len(l) :
                         l[k] = d /\ passes'[l] > 0 /\ ~(Suits(l, k) /\ Sole(l, k)')
    BY DEF StrayInv, Suits, FixupAt
  <2>. PICK l \in Lists : \E k \in 1..Len(l) :
         l[k] = d /\ passes[l] > 0 /\ ~(Suits(l, k) /\ Sole(l, k))
    BY DEF RInv, StrayInv
  <2>1. PICK k \in 1..Len(l) : l[k] = d /\ passes[l] > 0 /\ ~(Suits(l, k) /\ Sole(l, k))
    OBVIOUS
  <2>2. passes'[l] > 0
    BY <2>1 DEF IInv, TypeOK, CallType
  <2>. QED
    BY <1>1, <2>1, <2>2
<1>8. TwiceMoved'
  <2>. SUFFICES ASSUME NEW d \in Desc, AlwaysMoved(d)
                PROVE  /\ \A i \in 0..currentCount' - 1 : pool'[i] = d => descPpi[d] >= BootFixup
                       /\ \A i, j \in 0..currentCount' - 1 :
                            i # j /\ pool'[i] = d /\ pool'[j] = d
                              => descPpi[d] >= BootFixup + BootFixup
    BY DEF TwiceMoved, AlwaysMoved, FixupAt
  <2>. QED
    BY <1>4 DEF RInv, TwiceMoved
<1>. QED
  BY <1>5, <1>6, <1>7, <1>8 DEF RInv

LEMMA StoreRelocated ==
  ASSUME IInv, RInv, InstallStore
  PROVE  RInv'
<1>. USE DEF database, pointers, core
<1>0. ins.list \in Lists /\ ins.pos \in 1..Len(ins.list) /\ ins.pos \in Nat
  BY ListElements DEF InstallStore, IInv, InstallInv
<1>. PICK l \in Lists, p \in Nat, d \in Desc : l = ins.list /\ p = ins.pos /\ d = Current
  BY <1>0, ListElements DEF Current
<1>1. /\ call = "install" /\ p \in 1..Len(l) /\ Len(l) \in Nat
      /\ ins.idx \in 0..MaxCount - 1 /\ currentCount = ins.idx /\ ins.last \in Nat
      /\ ins.last <= ins.idx /\ d = l[p] /\ d.ifc \in Ifc
  <2>1. call = "install" /\ InstallInv /\ InstallType
    BY DEF InstallStore, IInv, TypeOK
  <2>2. /\ ins.pos \in 1..Len(ins.list) /\ ins.idx = ins.last + ins.pos - 1
        /\ currentCount = ins.idx
    BY <2>1 DEF InstallInv
  <2>3. ins.idx \in 0..MaxCount - 1 /\ ins.last \in Nat
    BY <2>1, NumbersAssumption DEF InstallType
  <2>4. Len(l) \in Nat
    BY ListElements
  <2>. QED
    BY <2>1, <2>2, <2>3, <2>4 DEF Current, Ifc
<1>. DEFINE f == FixupAt(l, p)
<1>2. PeimFixup = f /\ f \in {0, BootFixup} /\ BootFixup \in Nat \ {0}
  <2>1. ins.fixup = IF \E j \in 1..p - 1 : l[j].pic THEN BootFixup ELSE 0
    BY <1>1 DEF RInv, FixupInv
  <2>2. (\E j \in 1..p : l[j].pic) <=> (d.pic \/ \E j \in 1..p - 1 : l[j].pic)
    BY <1>1
  <2>. QED
    BY <2>1, <2>2, NumbersAssumption DEF PeimFixup, LookupFixup, FixupAt
<1>. HIDE DEF f
<1>3. passes' = passes /\ passes[l] \in Nat /\ passes[l] > 0
  BY <1>1 DEF InstallStore, RInv, FixupInv, IInv, TypeOK, CallType
<1>4. Sole(l, p) => Unmoved(d)
  BY <1>1 DEF RInv, OthersUnmoved, Passed
<1>5. /\ descPpi' = [descPpi EXCEPT ![d] = @ + f]
      /\ descGuid' = [descGuid EXCEPT ![d] = @ + f]
      /\ ifcEntry' = [i \in Ifc |-> IF descPpi[d] + f = d.base /\ i = d.ifc
                                      THEN ifcEntry[i] + f ELSE ifcEntry[i]]
      /\ stray' = IF descPpi[d] + f = d.base \/ f = 0 THEN stray ELSE stray \cup {d}
  BY <1>2 DEF InstallStore, FixupPpi
<1>6. /\ descPpi \in [Desc -> Nat] /\ descGuid \in [Desc -> Nat] /\ ifcEntry \in [Ifc -> Nat]
      /\ d.base \in Nat
  BY DescAssumption DEF IInv, TypeOK, PointerType
<1>7. ASSUME NEW m \in Lists, NEW k \in 1..Len(m), Sole(m, k), m # l \/ k # p
      PROVE  /\ descPpi'[m[k]] = descPpi[m[k]] /\ descGuid'[m[k]] = descGuid[m[k]]
             /\ ifcEntry'[m[k].ifc] = ifcEntry[m[k].ifc] /\ m[k] # d
  <2>1. m[k].ifc # d.ifc
    BY <1>1, <1>3, <1>7 DEF Sole
  <2>2. m[k] \in Desc /\ m[k].ifc \in Ifc
    BY ListElements DEF Ifc
  <2>. QED
    BY <1>5, <1>6, <2>1, <2>2
<1>8. Sole(l, p) => MovedOnce(l, p)'
  <2>. SUFFICES ASSUME Sole(l, p) PROVE MovedOnce(l, p)'
    OBVIOUS
  <2>1. descPpi[d] = 0 /\ descGuid[d] = 0 /\ ifcEntry[d.ifc] = 0
    BY <1>4 DEF Unmoved
  <2>2. descPpi'[d] = f /\ descGuid'[d] = f /\ ifcEntry'[d.ifc] = IF d.base = f THEN f ELSE 0
    BY <1>1, <1>2, <1>5, <1>6, <2>1
  <2>. QED
    BY <1>1, <2>2 DEF MovedOnce, Suits, FixupAt, f
<1>9. /\ pool' = [pool EXCEPT ![ins.idx] = d]
      /\ \/ call' = "none" /\ currentCount' \in 0..ins.idx + 1
         \/ /\ call' = "install" /\ ins'.list = l /\ ins'.pos = ins.pos + 1
            /\ ins'.fixup = PeimFixup /\ currentCount' = ins.idx + 1
  <2>1. CASE IsLast \/ ins.idx + 1 >= MaxCount
    <3>1. /\ call' = "none"
          /\ currentCount' = currentCount + 1 \/ currentCount' = ins.last
      BY <1>1, <2>1, NumbersAssumption DEF InstallStore, InstallReject, InstallReturn
    <3>. QED
      BY <1>1, <3>1 DEF InstallStore
  <2>2. CASE ~(IsLast \/ ins.idx + 1 >= MaxCount)
    <3>1. /\ call' = "install" /\ currentCount' = currentCount + 1
          /\ ins' = [ins EXCEPT !.pos = @ + 1, !.idx = @ + 1, !.fixup = PeimFixup]
      BY <1>1, <2>2 DEF InstallStore, InstallReject, InstallReturn
    <3>. QED
      BY <1>1, <3>1 DEF InstallStore, IInv, TypeOK, InstallType
  <2>. QED
    BY <2>1, <2>2
<1>10. \A m \in Lists : \A k \in 1..Len(m) : Passed(m, k) => Passed(m, k)'
  BY <1>1, <1>3, <1>9 DEF Passed
<1>11. Passed(l, p)'
  BY <1>1, <1>3, <1>9 DEF Passed
<1>12. \A m, k : Sole(m, k)' <=> Sole(m, k)
  BY <1>3 DEF Sole
<1>13. ASSUME NEW i \in 0..currentCount' - 1
       PROVE  \/ i = ins.idx /\ pool'[i] = d
              \/ i \in 0..currentCount - 1 /\ i # ins.idx /\ pool'[i] = pool[i]
  BY <1>1, <1>9 DEF IInv, TypeOK, DatabaseType
<1>14. FixupInv'
  BY <1>1, <1>2, <1>3, <1>9 DEF FixupInv, FixupAt, f
<1>15. PoolMoved'
  <2>. SUFFICES ASSUME NEW m \in Lists, NEW k \in 1..Len(m), NEW i \in 0..currentCount' - 1,
                       pool'[i] = m[k], Sole(m, k)
                PROVE  MovedOnce(m, k)'
    BY <1>12 DEF PoolMoved
  <2>1. CASE m = l /\ k = p
    BY <1>8, <2>1
  <2>2. CASE m # l \/ k # p
    <3>1. pool[i] = m[k] /\ i \in 0..currentCount - 1
      BY <1>7, <1>13, <2>2
    <3>2. MovedOnce(m, k)
      BY <3>1 DEF RInv, PoolMoved
    <3>. QED
      BY <1>7, <2>2, <3>2 DEF MovedOnce, Suits, FixupAt
  <2>. QED
    BY <2>1, <2>2
<1>16. OthersUnmoved'
  <2>. SUFFICES ASSUME NEW m \in Lists, NEW k \in 1..Len(m), Sole(m, k), ~Passed(m, k)'
                PROVE  Unmoved(m[k])'
    BY <1>12 DEF OthersUnmoved
  <2>1. m # l \/ k # p
    BY <1>11
  <2>2. Unmoved(m[k])
    BY <1>10 DEF RInv, OthersUnmoved
  <2>. QED
    BY <1>7, <2>1, <2>2 DEF Unmoved
<1>17. StrayInv'
  <2>. SUFFICES ASSUME NEW e \in stray'
                PROVE  \E m \in Lists : \E k \in 1..Len(m) :
                         m[k] = e /\ passes[m] > 0 /\ ~(Suits(m, k) /\ Sole(m, k))
    BY <1>3, <1>12 DEF StrayInv, Suits, FixupAt
  <2>1. CASE e \in stray
    BY <2>1 DEF RInv, StrayInv
  <2>2. CASE e \notin stray
    <3>1. e = d /\ descPpi[d] + f # d.base
      BY <1>5, <2>2
    <3>2. ~(Suits(l, p) /\ Sole(l, p))
      BY <1>1, <1>2, <1>4, <3>1, NumbersAssumption DEF Unmoved, Suits, f
    <3>. QED
      BY <1>1, <1>3, <3>1, <3>2
  <2>. QED
    BY <2>1, <2>2
<1>18. TwiceMoved'
  <2>. SUFFICES ASSUME NEW e \in Desc, AlwaysMoved(e)
                PROVE  /\ \A i \in 0..currentCount' - 1 : pool'[i] = e => descPpi'[e] >= BootFixup
                       /\ \A i, j \in 0..currentCount' - 1 :
                            i # j /\ pool'[i] = e /\ pool'[j] = e
                              => descPpi'[e] >= BootFixup + BootFixup
    BY DEF TwiceMoved, AlwaysMoved, FixupAt
  <2>1. /\ \A i \in 0..currentCount - 1 : pool[i] = e => descPpi[e] >= BootFixup
        /\ \A i, j \in 0..currentCount - 1 :
             i # j /\ pool[i] = e /\ pool[j] = e => descPpi[e] >= BootFixup + BootFixup
    BY DEF RInv, TwiceMoved
  <2>2. CASE e # d
    <3>1. descPpi'[e] = descPpi[e]
      BY <1>5, <1>6, <2>2
    <3>2. \A i \in 0..currentCount' - 1 : pool'[i] = e => i \in 0..currentCount - 1 /\ pool[i] = e
      BY <1>13, <2>2
    <3>. QED
      BY <2>1, <3>1, <3>2
  <2>3. CASE e = d
    <3>1. f = BootFixup
      BY <1>1, <1>2, <2>3 DEF AlwaysMoved, f
    <3>2. descPpi'[e] = descPpi[e] + BootFixup /\ descPpi[e] \in Nat
      BY <1>5, <1>6, <2>3, <3>1
    <3>3. ASSUME NEW i \in 0..currentCount' - 1, NEW j \in 0..currentCount' - 1,
                 i # j, pool'[i] = e, pool'[j] = e
          PROVE  descPpi[e] >= BootFixup
      BY <1>13, <2>1, <3>3
    <3>. QED
      BY <1>2, <3>2, <3>3
  <2>. QED
    BY <2>2, <2>3
<1>. QED
  BY <1>14, <1>15, <1>16, <1>17, <1>18 DEF RInv

LEMMA NextRelocated == IInv /\ RInv /\ [Next]_vars => RInv'
<1>. SUFFICES ASSUME IInv, RInv, [Next]_vars PROVE RInv'
  OBVIOUS
<1>. USE DEF database, pointers, core
<1>0. currentCount \in Nat /\ currentCount \in 0..currentCount /\ \A m \in Lists : passes[m] \in Nat
  BY NumbersAssumption DEF IInv, TypeOK, DatabaseType, CallType
<1>1. ASSUME UNCHANGED <<database, pointers, passes>>,
             call = "install" <=> call' = "install", call = "install" => ins' = ins
      PROVE  RInv'
  <2>1. \A l \in Lists : \A k \in 1..Len(l) : Passed(l, k)' <=> Passed(l, k)
    BY <1>1 DEF Passed
  <2>2. FixupInv'
    BY <1>1 DEF RInv, FixupInv
  <2>. QED
    BY <1>0, <1>1, <2>1, <2>2, StillRelocated
<1>2. ASSUME NEW l \in Lists, InstallBegin(l) PROVE RInv'
  <2>1. /\ passes' = [passes EXCEPT ![l] = @ + 1] /\ passes \in [Lists -> Nat] /\ call = "none"
        /\ UNCHANGED <<database, pointers>>
    BY <1>2 DEF InstallBegin, PeimRuns, IInv, TypeOK, CallType
  <2>2. \A m \in Lists : passes'[m] \in Nat /\ passes'[m] >= passes[m]
    BY <2>1
  <2>3. ASSUME NEW m \in Lists, NEW k \in 1..Len(m), Sole(m, k)', Passed(m, k)
        PROVE  Passed(m, k)'
    <3>1. passes[m] > 0 /\ passes'[m] <= 1
      BY <2>3 DEF Passed, Sole
    <3>2. m # l
      BY <2>1, <3>1
    <3>. QED
      BY <1>2, <2>1, <2>2, <3>1, <3>2 DEF InstallBegin, Passed
  <2>4. FixupInv'
    BY <1>2, <2>1 DEF InstallBegin, FixupInv
  <2>. QED
    BY <1>0, <2>1, <2>2, <2>3, <2>4, StillRelocated
<1>3. CASE InstallNotPpi \/ InstallNoFixup
  <2>1. /\ call = "install" /\ call' = "none" /\ currentCount' = ins.last /\ pool' = pool
        /\ UNCHANGED pointers /\ UNCHANGED passes
    BY <1>3 DEF InstallNotPpi, InstallNoFixup, InstallReject, InstallReturn
  <2>2. ins.last \in 0..currentCount
    BY <2>1, ListElements DEF IInv, TypeOK, InstallInv, InstallType
  <2>3. FixupInv' /\ \A l \in Lists : \A k \in 1..Len(l) : Passed(l, k) => Passed(l, k)'
    BY <2>1 DEF FixupInv, Passed
  <2>. QED
    BY <1>0, <2>1, <2>2, <2>3, StillRelocated
<1>4. CASE InstallStore
  BY <1>4, StoreRelocated
<1>5. CASE \/ \E g \in Guids, n \in 0..MaxInstance : LocateBegin(g, n)
          \/ LocateStep
          \/ Refuse
  BY <1>1, <1>5 DEF LocateBegin, LocateStep, LocateSkip, LocateMatch, LocateNone, LocateReturn,
     Refuse, PeimRuns
<1>6. CASE PeimReturn \/ Dispatch \/ UNCHANGED vars
  BY <1>1, <1>6 DEF PeimReturn, InitPeimsReturn, EntryReturn, EntryHangs,
     Dispatch, DispatchEntry, DispatchAstray, DispatchEnd, vars
<1>. QED
  BY <1>2, <1>3, <1>4, <1>5, <1>6 DEF Next, InstallStep

(* For every image, whatever is passed in which order and how often: what one
   passing of one list has installed has its pointers where they belong
   exactly if the fixup carried along the list suits its module, what is
   installed twice never has, and nothing else is written to unless a module
   is not suited or something is passed again.                            *)
THEOREM RelocationCorrect == Spec => []Relocated
<1>1. Spec => []IInv
  BY InitInv, NextInv, PTL DEF Spec
<1>2. IInv /\ RInv => Relocated
  <2>. SUFFICES ASSUME IInv, RInv PROVE Relocated
    OBVIOUS
  <2>1. Committed \in Nat /\ Committed <= currentCount /\ currentCount \in Nat
    BY ListElements, NumbersAssumption
    DEF Committed, IInv, TypeOK, InstallInv, InstallType, DatabaseType
  <2>2. ASSUME NEW i \in 1..Committed
        PROVE  i - 1 \in 0..currentCount - 1 /\ Db[i] = pool[i - 1] /\ Db[i] \in Desc
    BY <2>1 DEF Db, IInv, PoolInv
  <2>3. ASSUME NEW l \in Lists, NEW k \in 1..Len(l), NEW i \in 1..Committed,
               Db[i] = l[k], Sole(l, k)
        PROVE  Right(l[k]) <=> Suits(l, k)
    <3>1. MovedOnce(l, k)
      BY <2>2, <2>3 DEF RInv, PoolMoved
    <3>. QED
      BY <3>1 DEF MovedOnce, Right, Callable, Suits
  <2>4. ASSUME NEW i \in 1..Committed, NEW j \in 1..Committed,
               i # j, Db[i] = Db[j], AlwaysMoved(Db[i])
        PROVE  ~Right(Db[i])
    <3>1. i - 1 # j - 1
      BY <2>1, <2>4
    <3>2. descPpi[Db[i]] >= BootFixup + BootFixup
      BY <2>2, <2>4, <3>1 DEF RInv, TwiceMoved
    <3>3. Db[i].base \in Nat /\ Db[i].base <= BootFixup /\ BootFixup \in Nat \ {0}
      BY <2>2, <2>4, DescAssumption, NumbersAssumption DEF AlwaysMoved
    <3>4. descPpi[Db[i]] \in Nat
      BY <2>2 DEF IInv, TypeOK, PointerType
    <3>. QED
      BY <3>2, <3>3, <3>4 DEF Right, Callable
  <2>. QED
    BY <2>3, <2>4 DEF Relocated, RInv, StrayInv
<1>. QED
  BY <1>1, <1>2, InitRelocated, NextRelocated, PTL DEF Spec

-----------------------------------------------------------------------------
(* Searches.  The PPIs of a GUID that lie in the first slots: *)
SameBefore(i) == {j \in 0..i - 1 : pool[j].guid = loc.guid}

GuidsRight == \A i \in 0..currentCount - 1 : descGuid[pool[i]] = pool[i].base

(* The search has counted those in the slots it has passed. *)
SearchInv ==
  /\ call = "locate" /\ GuidsRight =>
       /\ loc.idx <= currentCount
       /\ loc.found = NULL
       /\ Cardinality(SameBefore(loc.idx)) = loc.seen
  /\ LocateExact

LEMMA SameBeforeGrows ==
  ASSUME NEW i \in Nat
  PROVE  /\ IsFiniteSet(SameBefore(i))
         /\ pool[i].guid = loc.guid =>
              Cardinality(SameBefore(i + 1)) = Cardinality(SameBefore(i)) + 1
         /\ pool[i].guid # loc.guid => SameBefore(i + 1) = SameBefore(i)
<1>1. IsFiniteSet(SameBefore(i))
  <2>1. IsFiniteSet(0..i - 1)
    BY FS_Interval
  <2>. QED
    BY <2>1, FS_Subset DEF SameBefore
<1>2. ASSUME pool[i].guid = loc.guid
      PROVE  Cardinality(SameBefore(i + 1)) = Cardinality(SameBefore(i)) + 1
  <2>1. SameBefore(i + 1) = SameBefore(i) \cup {i} /\ i \notin SameBefore(i)
    BY <1>2 DEF SameBefore
  <2>. QED
    BY <1>1, <2>1, FS_AddElement
<1>3. ASSUME pool[i].guid # loc.guid PROVE SameBefore(i + 1) = SameBefore(i)
  BY <1>3 DEF SameBefore
<1>. QED
  BY <1>1, <1>2, <1>3

(* CompareGuids is given GUIDs that are where they belong. *)
LEMMA ComparesRight ==
  ASSUME IInv, GuidsRight, call = "locate", loc.idx < currentCount
  PROVE  /\ loc.idx \in Nat /\ pool[loc.idx] \in Desc
         /\ GuidCompares(pool[loc.idx]) = {pool[loc.idx].guid = loc.guid}
<1>1. loc.idx \in 0..currentCount - 1
  BY DEF IInv, TypeOK, LocateType, DatabaseType
<1>2. descGuid[pool[loc.idx]] = pool[loc.idx].base
  BY <1>1 DEF GuidsRight
<1>3. pool[loc.idx] \in Desc /\ pool[loc.idx] # NULL
  BY <1>1, DescAssumption DEF IInv, PoolInv
<1>. QED
  BY <1>1, <1>2, <1>3 DEF GuidCompares

LEMMA NextSearch ==
  ASSUME IInv, SearchInv, [Next]_vars
  PROVE  SearchInv'
<1>. USE DEF database, pointers, core
<1>. SUFFICES ASSUME GuidsRight' PROVE SearchInv'
  BY DEF SearchInv, LocateExact, GuidsRight
<1>0. ASSUME UNCHANGED <<database, pointers>> PROVE GuidsRight
  BY <1>0 DEF GuidsRight
<1>1. ASSUME call' \notin {"locate", "located"} PROVE SearchInv'
  BY <1>1 DEF SearchInv, LocateExact
<1>2. ASSUME NEW g \in Guids, NEW n \in 0..MaxInstance, LocateBegin(g, n) PROVE SearchInv'
  <2>1. /\ call' = "locate" /\ loc'.idx = 0 /\ loc'.found = NULL /\ loc'.seen = 0
        /\ currentCount' \in Nat
    BY <1>2 DEF LocateBegin, IdleLocate, IInv, TypeOK, DatabaseType
  <2>2. SameBefore(loc.idx)' = {}
    BY <2>1 DEF SameBefore
  <2>. QED
    BY <2>1, <2>2, FS_EmptySet DEF SearchInv, LocateExact
<1>3. ASSUME call = "locate", UNCHANGED <<database, pointers, status>>
      PROVE  /\ loc.idx \in Nat /\ loc.seen \in Nat /\ currentCount \in Nat /\ loc.idx <= currentCount
             /\ loc.found = NULL /\ Cardinality(SameBefore(loc.idx)) = loc.seen
  BY <1>0, <1>3 DEF IInv, TypeOK, LocateType, DatabaseType, SearchInv
<1>4. CASE LocateSkip
  <2>1. /\ call = "locate" /\ loc.idx < currentCount /\ call' = "locate"
        /\ loc' = [loc EXCEPT !.idx = @ + 1] /\ pool' = pool /\ currentCount' = currentCount
        /\ pool[loc.idx].guid # loc.guid
    BY <1>0, <1>4, ComparesRight DEF LocateSkip
  <2>2. /\ loc'.idx = loc.idx + 1 /\ loc'.found = loc.found /\ loc'.seen = loc.seen
        /\ loc'.guid = loc.guid
    BY <2>1 DEF IInv, TypeOK, LocateType
  <2>3. SameBefore(loc.idx)' = SameBefore(loc.idx + 1)
    BY <2>1, <2>2 DEF SameBefore
  <2>4. SameBefore(loc.idx + 1) = SameBefore(loc.idx) /\ loc.idx + 1 <= currentCount
    BY <1>3, <1>4, <2>1, SameBeforeGrows DEF LocateSkip
  <2>. QED
    BY <1>3, <1>4, <2>1, <2>2, <2>3, <2>4 DEF LocateSkip, SearchInv, LocateExact
<1>5. CASE LocateMatch
  <2>1. /\ call = "locate" /\ loc.idx < currentCount /\ pool' = pool
        /\ currentCount' = currentCount /\ pool[loc.idx].guid = loc.guid
        /\ loc.idx \in Nat /\ pool[loc.idx] \in Desc
    BY <1>0, <1>5, ComparesRight DEF LocateMatch
  <2>2. /\ loc.seen \in Nat /\ currentCount \in Nat
        /\ loc.found = NULL /\ Cardinality(SameBefore(loc.idx)) = loc.seen
    BY <1>0, <1>5, <2>1 DEF LocateMatch, IInv, TypeOK, LocateType, DatabaseType, SearchInv
  <2>3. CASE loc.seen # loc.instance
    <3>1. call' = "locate" /\ loc' = [loc EXCEPT !.seen = @ + 1, !.idx = @ + 1]
      BY <1>5, <2>1, <2>3 DEF LocateMatch
    <3>2. /\ loc'.idx = loc.idx + 1 /\ loc'.found = loc.found /\ loc'.seen = loc.seen + 1
          /\ loc'.guid = loc.guid
      BY <3>1 DEF IInv, TypeOK, LocateType
    <3>3. SameBefore(loc.idx)' = SameBefore(loc.idx + 1)
      BY <2>1, <3>2 DEF SameBefore
    <3>4. Cardinality(SameBefore(loc.idx + 1)) = loc.seen + 1 /\ loc.idx + 1 <= currentCount
      BY <2>1, <2>2, SameBeforeGrows
    <3>. QED
      BY <2>1, <2>2, <3>1, <3>2, <3>3, <3>4 DEF SearchInv, LocateExact
  <2>4. CASE loc.seen = loc.instance
    <3>1. call' = "located" /\ loc' = [loc EXCEPT !.found = pool[loc.idx]] /\ status' = "EFI_SUCCESS"
      BY <1>5, <2>4 DEF LocateMatch
    <3>2. /\ loc'.found = pool[loc.idx] /\ loc'.guid = loc.guid /\ loc'.instance = loc.instance
      BY <3>1 DEF IInv, TypeOK, LocateType
    <3>3. loc.idx \in 0..currentCount' - 1
      BY <2>1, <2>2
    <3>4. Cardinality({j \in 0..loc.idx - 1 : pool'[j].guid = loc'.guid}) = loc'.instance
      BY <2>1, <2>2, <2>4, <3>2 DEF SameBefore
    <3>5. LocateExact'
      BY <2>1, <3>1, <3>2, <3>3, <3>4 DEF LocateExact
    <3>. QED
      BY <3>1, <3>5 DEF SearchInv
  <2>. QED
    BY <2>3, <2>4
<1>6. CASE LocateNone
  <2>1. /\ call = "locate" /\ loc.idx >= currentCount /\ call' = "located"
        /\ status' = "EFI_NOT_FOUND" /\ pool' = pool /\ currentCount' = currentCount /\ loc' = loc
    BY <1>6 DEF LocateNone
  <2>2. /\ loc.idx = currentCount /\ loc.found = NULL /\ loc.seen <= loc.instance
        /\ Cardinality(SameBefore(loc.idx)) = loc.seen
    BY <1>0, <1>6, <2>1 DEF LocateNone, IInv, TypeOK, LocateType, DatabaseType, SearchInv, LocateInv
  <2>3. LocateExact'
    BY <2>1, <2>2 DEF LocateExact, SameBefore
  <2>. QED
    BY <2>1, <2>3 DEF SearchInv
<1>7. CASE LocateReturn
  BY <1>1, <1>7 DEF LocateReturn
<1>8. CASE \/ \E l \in Lists : InstallBegin(l)
          \/ Refuse \/ PeimReturn
  BY <1>1, <1>8 DEF InstallBegin, PeimRuns, Refuse, PeimReturn, InitPeimsReturn, EntryReturn, EntryHangs
<1>9. CASE InstallStep
  BY <1>1, <1>9 DEF InstallStep, InstallNotPpi, InstallNoFixup, InstallStore, InstallReject, InstallReturn
<1>10. CASE Dispatch
  <2>1. call' = call /\ phase = "dispatch"
    BY <1>10 DEF Dispatch, DispatchEntry, DispatchAstray, DispatchEnd
  <2>2. call = "none"
    BY <2>1 DEF IInv, DispatchInv
  <2>. QED
    BY <1>1, <2>1, <2>2
<1>11. CASE UNCHANGED vars
  BY <1>11 DEF vars, SearchInv, LocateExact, SameBefore, GuidsRight
<1>. QED
  BY <1>2, <1>4, <1>5, <1>6, <1>7, <1>8, <1>9, <1>10, <1>11 DEF Next, LocateStep

(* PeiLocatePpi answers with the Instance-th installed PPI of the GUID, however
   many lists were installed and rejected before, if the Guid pointers of the
   installed ones are right; Relocated says which are.                      *)
THEOREM SearchCorrect == Spec => []LocateExact
<1>1. Spec => []IInv
  BY InitInv, NextInv, PTL DEF Spec
<1>2. Init => SearchInv
  BY DEF Init, SearchInv, LocateExact
<1>3. IInv /\ SearchInv /\ [Next]_vars => SearchInv'
  BY NextSearch
<1>4. SearchInv => LocateExact
  BY DEF SearchInv
<1>. QED
  BY <1>1, <1>2, <1>3, <1>4, PTL DEF Spec
=============================================================================
