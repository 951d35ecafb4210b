--------------------------- MODULE BootPlanProofs ---------------------------
(***************************************************************************)
(* Proofs about Boot that need to know what its walks find: that the code  *)
(* that runs is the code the flash names (BootStages), that no call goes   *)
(* astray in an image that is linked as the code takes it to be, why a     *)
(* boot stopped, and that each of its steps comes nearer to that.          *)
(*                                                                         *)
(* First the walks: the files and sections ahead of a walk are the rest of *)
(* a chain (Chains), and those behind it did not stop it.  Then the        *)
(* searches: at each place the processor may wait, what is asked and what  *)
(* is answered.  Then what has come of the answers, and the refinement,    *)
(* whose steps also tell why a boot ended.                                 *)
(***************************************************************************)
EXTENDS BootProofs, Chains

(* The files of a volume and the sections of a file are collected along     *)
(* chains.                                                                  *)
LEMMA FilesUnfold ==
  ASSUME NEW img, NEW first \in Nat, NEW eov \in Nat, first < eov
  PROVE  LET from == FileChain(img, first, eov) IN
         \A a \in first..eov - 1 :
           LET next == Bv!AlignUp(a + FileAt(img, a).size, 8) IN
           /\ from[a] = {a} \cup (IF next \in a + 1..eov - 1 THEN from[next] ELSE {})
           /\ from[a] \subseteq a..eov - 1
<1>. DEFINE next(a) == Bv!AlignUp(a + FileAt(img, a).size, 8)
            hi == eov - 1
            head == [a \in first..hi |-> {a}]
            after == [a \in first..hi |-> next(a)]
            from == FileChain(img, first, eov)
            e(g) == [a \in first..hi |-> {a} \cup (IF next(a) \in a + 1..hi THEN g[next(a)] ELSE {})]
<1>1. hi \in Nat
  OBVIOUS
<1>2. ASSUME NEW g PROVE e(g) = [a \in first..hi |-> Collected(g, head, after, hi, a)]
  <2>1. \A a \in first..hi : head[a] = {a} /\ after[a] = next(a)
    OBVIOUS
  <2>2. \A a \in first..hi :
          Collected(g, head, after, hi, a) = {a} \cup (IF next(a) \in a + 1..hi THEN g[next(a)] ELSE {})
    <3>. HIDE DEF next, head, after, hi
    <3>. QED
      BY <2>1 DEF Collected
  <2>. HIDE DEF next, head, after, hi
  <2>. QED
    BY <2>2
<1>3. \E g : g = e(g)
  <2>1. PICK g : Collects(g, head, after, first, hi)
    <3>. HIDE DEF head, after, hi
    <3>. QED
      BY <1>1, ChainExists
  <2>2. g = e(g)
    <3>. HIDE DEF head, after, hi, e
    <3>. QED
      BY <1>2, <2>1 DEF Collects
  <2>. QED
    BY <2>2
<1>4. from = CHOOSE g : g = e(g)
  BY DEF FileChain
<1>5. from = e(from)
  <2>. HIDE DEF e, from
  <2>. QED
    BY <1>3, <1>4
<1>6. Collects(from, head, after, first, hi)
  <2>. HIDE DEF head, after, hi, e, from
  <2>. QED
    BY <1>2, <1>5 DEF Collects
<1>7. \A a \in first..hi : head[a] \subseteq {a}
  OBVIOUS
<1>8. \A a \in first..hi : from[a] \subseteq a..hi
  <2>. HIDE DEF head, after, hi, from
  <2>. QED
    BY <1>1, <1>6, <1>7, ChainAbove
<1>9. \A a \in first..hi : from[a] = {a} \cup (IF next(a) \in a + 1..hi THEN from[next(a)] ELSE {})
  <2>. HIDE DEF next, hi, from
  <2>. QED
    BY <1>5
<1>. QED
  BY <1>8, <1>9

LEMMA SectionsUnfold ==
  ASSUME NEW img, NEW f \in Nat, FileAt(img, f).size \in Nat
  PROVE  LET end == f + FileAt(img, f).size
             from == Bv!SectionsFrom(img, f) IN
         \A a \in f..end :
           LET next == a + SectionAt(img, a).size IN
           /\ from[a] = IF next \in a + Bv!SectionHeaderSize..end THEN {a} \cup from[next] ELSE {}
           /\ from[a] \subseteq a..end
<1>. DEFINE end == f + FileAt(img, f).size
            next(a) == a + SectionAt(img, a).size
            ok(a) == next(a) \in a + Bv!SectionHeaderSize..end
            head == [a \in f..end |-> IF ok(a) THEN {a} ELSE {}]
            after == [a \in f..end |-> IF ok(a) THEN next(a) ELSE a]
            from == Bv!SectionsFrom(img, f)
            e(g) == [a \in f..end |-> IF ok(a) THEN {a} \cup g[next(a)] ELSE {}]
<1>1. f \in Nat /\ end \in Nat
  OBVIOUS
<1>2. ASSUME NEW g PROVE e(g) = [a \in f..end |-> Collected(g, head, after, end, a)]
  <2>1. ASSUME NEW a \in f..end
        PROVE  Collected(g, head, after, end, a) = IF ok(a) THEN {a} \cup g[next(a)] ELSE {}
    <3>1. head[a] = (IF ok(a) THEN {a} ELSE {}) /\ after[a] = IF ok(a) THEN next(a) ELSE a
      OBVIOUS
    <3>2. CASE ok(a)
      <4>1. next(a) \in a + 1..end
        <5>1. a \in Int /\ end \in Int
          BY <1>1
        <5>. HIDE DEF end, next
        <5>. QED
          BY <3>2, <5>1 DEF Bv!SectionHeaderSize
      <4>. HIDE DEF ok, next, head, after, end
      <4>. QED
        BY <3>1, <3>2, <4>1 DEF Collected
    <3>3. CASE ~ok(a)
      <4>1. a \notin a + 1..end
        BY <1>1
      <4>. HIDE DEF ok, next, head, after, end
      <4>. QED
        BY <3>1, <3>3, <4>1 DEF Collected
    <3>. QED
      BY <3>2, <3>3
  <2>. HIDE DEF ok, next, head, after, end
  <2>. QED
    BY <2>1
<1>3. \E g : g = e(g)
  <2>1. PICK g : Collects(g, head, after, f, end)
    <3>. HIDE DEF head, after, end
    <3>. QED
      BY <1>1, ChainExists
  <2>2. g = e(g)
    <3>. HIDE DEF head, after, end, e
    <3>. QED
      BY <1>2, <2>1 DEF Collects
  <2>. QED
    BY <2>2
<1>4. from = CHOOSE g : g = e(g)
  BY DEF Bv!SectionsFrom
<1>5. from = e(from)
  <2>. HIDE DEF e, from
  <2>. QED
    BY <1>3, <1>4
<1>6. Collects(from, head, after, f, end)
  <2>. HIDE DEF head, after, end, e, from
  <2>. QED
    BY <1>2, <1>5 DEF Collects
<1>7. \A a \in f..end : head[a] \subseteq {a}
  OBVIOUS
<1>8. \A a \in f..end : from[a] \subseteq a..end
  <2>. HIDE DEF head, after, end, from
  <2>. QED
    BY <1>1, <1>6, <1>7, ChainAbove
<1>9. \A a \in f..end : from[a] = IF ok(a) THEN {a} \cup from[next(a)] ELSE {}
  <2>. HIDE DEF ok, next, end, from
  <2>. QED
    BY <1>5
<1>. QED
  BY <1>8, <1>9
----------------------------------------------------------------------------
(* The first of a set of addresses *)

LEMMA EarliestIs ==
  ASSUME NEW S, S \subseteq Nat, NEW a \in S, \A b \in S : a <= b
  PROVE  Earliest(S) = a
<1>1. Earliest(S) = CHOOSE c \in S : \A b \in S : c <= b
  BY DEF Earliest
<1>2. \A c \in S : (\A b \in S : c <= b) => c = a
  OBVIOUS
<1>. QED
  BY <1>1, <1>2

LEMMA EarliestIn ==
  ASSUME NEW S, S \subseteq Nat
  PROVE  /\ S = {} => Earliest(S) = NULL
         /\ S # {} => Earliest(S) \in S /\ Earliest(S) # NULL
<1>1. S = {} => Earliest(S) = NULL
  BY DEF Earliest
<1>2. ASSUME S # {} PROVE Earliest(S) \in S /\ Earliest(S) # NULL
  <2>1. PICK a \in S : \A b \in S : a <= b
    BY <1>2, LeastNumber
  <2>2. Earliest(S) = a
    BY <2>1, EarliestIs
  <2>. QED
    BY <2>2, NullAssumption
<1>. QED
  BY <1>1, <1>2

----------------------------------------------------------------------------
(* The walk over files *)

FileFits(g, eov) == g + FileAt(image, g).size <= eov
Sought(g) ==
  FileAt(image, g).type = req.type /\ (req.name # NULL => FileAt(image, g).name = req.name)

(* The file that the search in progress is for. *)
FileStops(first, eov) == {g \in FilesFrom(image, first, eov) : ~FileFits(g, eov) \/ Sought(g)}
FileSought(first, eov) ==
  LET f == Earliest(FileStops(first, eov)) IN IF f # NULL /\ FileFits(f, eov) THEN f ELSE NULL

(* The files that are not ahead have been seen, and were not what is sought. *)
FileWalk(first, eov) ==
  /\ addr < eov =>
       addr >= first /\ FileChain(image, first, eov)[addr] \subseteq FilesFrom(image, first, eov)
  /\ \A g \in FilesFrom(image, first, eov) :
       \/ addr < eov /\ g \in FileChain(image, first, eov)[addr]
       \/ FileFits(g, eov) /\ ~Sought(g)

LEMMA FilesAreNumbers ==
  ASSUME NEW img, NEW first \in Nat, NEW eov \in Nat
  PROVE  FilesFrom(img, first, eov) \subseteq Nat
<1>1. CASE first < eov
  <2>1. first \in first..eov - 1
    BY <1>1
  <2>2. FileChain(img, first, eov)[first] \subseteq first..eov - 1
    BY <1>1, <2>1, FilesUnfold
  <2>. QED
    BY <1>1, <2>2 DEF FilesFrom
<1>2. CASE ~(first < eov)
  BY <1>2 DEF FilesFrom
<1>. QED
  BY <1>1, <1>2

LEMMA FileWalkStarts ==
  ASSUME NEW first \in Nat, NEW eov \in Nat, addr' = first, image' = image
  PROVE  FileWalk(first, eov)'
BY DEF FileWalk, FilesFrom

(* A walk that stands at a file has none before it that stops the search. *)
LEMMA StandsAt ==
  ASSUME NEW first \in Nat, NEW eov \in Nat, FileWalk(first, eov), addr \in Nat, addr < eov
  PROVE  /\ addr \in FilesFrom(image, first, eov)
         /\ \A g \in FileStops(first, eov) : addr <= g
<1>1. addr \in first..eov - 1 /\ first < eov
  BY DEF FileWalk
<1>. DEFINE from == FileChain(image, first, eov)
<1>2. addr \in from[addr] /\ from[addr] \subseteq addr..eov - 1
  <2>1. from[addr] = {addr} \cup (IF Bv!AlignUp(addr + FileAt(image, addr).size, 8) \in addr + 1..eov - 1
                                  THEN from[Bv!AlignUp(addr + FileAt(image, addr).size, 8)] ELSE {})
    BY <1>1, FilesUnfold
  <2>2. from[addr] \subseteq addr..eov - 1
    BY <1>1, FilesUnfold
  <2>. HIDE DEF from
  <2>. QED
    BY <2>1, <2>2
<1>3. \A g \in FileStops(first, eov) : g \in from[addr]
  BY DEF FileWalk, FileStops
<1>. QED
  BY <1>1, <1>2, <1>3 DEF FileWalk

LEMMA FileStopsHere ==
  ASSUME NEW first \in Nat, NEW eov \in Nat, FileWalk(first, eov), addr \in Nat, addr < eov,
         ~FileFits(addr, eov) \/ Sought(addr)
  PROVE  FileSought(first, eov) = IF FileFits(addr, eov) THEN addr ELSE NULL
<1>1. FileStops(first, eov) \subseteq Nat
  BY FilesAreNumbers DEF FileStops
<1>2. addr \in FileStops(first, eov) /\ \A g \in FileStops(first, eov) : addr <= g
  BY StandsAt DEF FileStops
<1>3. Earliest(FileStops(first, eov)) = addr
  BY <1>1, <1>2, EarliestIs
<1>. QED
  BY <1>3, NullAssumption DEF FileSought

LEMMA NoFileLeft ==
  ASSUME NEW first \in Nat, NEW eov \in Nat, FileWalk(first, eov), addr \in Nat, addr >= eov
  PROVE  FileSought(first, eov) = NULL
<1>1. FileStops(first, eov) = {}
  BY DEF FileWalk, FileStops
<1>. QED
  BY <1>1, EarliestIn DEF FileSought

LEMMA FileWalkGoesOn ==
  ASSUME NEW first \in Nat, NEW eov \in Nat, FileWalk(first, eov), addr \in Nat, addr < eov,
         FileAt(image, addr).size \in Nat, FileFits(addr, eov), ~Sought(addr),
         addr' = Bv!AlignUp(addr + FileAt(image, addr).size, 8), image' = image, req' = req
  PROVE  FileWalk(first, eov)'
<1>. DEFINE all == FilesFrom(image, first, eov)
            from == FileChain(image, first, eov)
<1>1. addr \in first..eov - 1 /\ first < eov /\ from[addr] \subseteq all
  BY DEF FileWalk
<1>2. from[addr] = {addr} \cup (IF addr' \in addr + 1..eov - 1 THEN from[addr'] ELSE {})
  BY <1>1, FilesUnfold
<1>3. addr' \in Nat /\ addr <= addr'
  BY DEF Bv!AlignUp
<1>4. addr' < eov => addr' >= first /\ from[addr'] \subseteq all
  <2>1. CASE addr' = addr
    BY <1>1, <2>1
  <2>2. CASE addr' # addr /\ addr' < eov
    <3>1. addr' \in addr + 1..eov - 1
      BY <1>3, <2>2
    <3>. QED
      BY <1>1, <1>2, <1>3, <3>1
  <2>. QED
    BY <2>1, <2>2
<1>5. ASSUME NEW g \in all PROVE (addr' < eov /\ g \in from[addr']) \/ (FileFits(g, eov) /\ ~Sought(g))
  <2>1. CASE g \notin from[addr]
    BY <2>1 DEF FileWalk
  <2>2. CASE g = addr
    BY <2>2
  <2>3. CASE g # addr /\ g \in from[addr]
    BY <1>2, <1>3, <2>3
  <2>. QED
    BY <2>1, <2>2, <2>3
<1>. QED
  BY <1>4, <1>5 DEF FileWalk, FileFits, Sought

----------------------------------------------------------------------------
(* The walk over the sections of a file *)

SectionWalk(f) ==
  LET end == f + FileAt(image, f).size
      from == Bv!SectionsFrom(image, f)
      all == Bv!SectionsIn(image, f) IN
  /\ addr <= end => addr >= f /\ from[addr] \subseteq all
  /\ \A a \in all : (addr <= end /\ a \in from[addr]) \/ SectionAt(image, a).type # req.section

SectionSought(f) == SectionNamed(image, f, req.section)

LEMMA SectionsAreNumbers ==
  ASSUME NEW img, NEW f \in Nat, FileAt(img, f).size \in Nat
  PROVE  Bv!SectionsIn(img, f) \subseteq Nat
<1>. DEFINE b == f + 24
            end == f + FileAt(img, f).size
<1>1. Bv!BufferStart(f) = b
  BY DEF Bv!BufferStart, Bv!FileHeaderSize
<1>2. CASE b <= end
  <2>1. b \in f..end
    BY <1>2
  <2>2. Bv!SectionsFrom(img, f)[b] \subseteq b..end
    <3>1. \A a \in f..end : Bv!SectionsFrom(img, f)[a] \subseteq a..end
      BY SectionsUnfold
    <3>. HIDE DEF b, end
    <3>. QED
      BY <2>1, <3>1
  <2>3. b..end \subseteq Nat
    OBVIOUS
  <2>. QED
    BY <1>1, <1>2, <2>2, <2>3 DEF Bv!SectionsIn
<1>3. CASE ~(b <= end)
  BY <1>1, <1>3 DEF Bv!SectionsIn
<1>. QED
  BY <1>2, <1>3

LEMMA SectionWalkStarts ==
  ASSUME NEW f \in Nat, f % 8 = 0, FileAt(image, f).size \in Nat,
         addr' = Bv!AlignUp(f + Bv!FileHeaderSize, 4), image' = image
  PROVE  SectionWalk(f)'
<1>1. addr' = Bv!BufferStart(f) /\ addr' \in Nat /\ addr' >= f
  BY DEF Bv!AlignUp, Bv!FileHeaderSize, Bv!BufferStart
<1>2. CASE addr' <= f + FileAt(image, f).size
  BY <1>1, <1>2 DEF SectionWalk, Bv!SectionsIn
<1>3. CASE ~(addr' <= f + FileAt(image, f).size)
  BY <1>1, <1>3 DEF SectionWalk, Bv!SectionsIn
<1>. QED
  BY <1>2, <1>3

LEMMA SectionStopsHere ==
  ASSUME NEW f \in Nat, FileAt(image, f).size \in Nat, SectionWalk(f),
         addr \in Nat, addr < f + FileAt(image, f).size, SectionAt(image, addr).size \in Nat
  PROVE  LET n == SectionAt(image, addr).size
             bad == n < Bv!SectionHeaderSize \/ addr + n > f + FileAt(image, f).size IN
         /\ bad => SectionSought(f) = NULL
         /\ ~bad /\ SectionAt(image, addr).type = req.section => SectionSought(f) = addr
<1>. DEFINE n == SectionAt(image, addr).size
            end == f + FileAt(image, f).size
            bad == n < Bv!SectionHeaderSize \/ addr + n > end
            from == Bv!SectionsFrom(image, f)
            all == Bv!SectionsIn(image, f)
            S == {a \in all : SectionAt(image, a).type = req.section}
<1>1. end \in Nat /\ addr \in f..end /\ from[addr] \subseteq all
  BY DEF SectionWalk
<1>2. /\ from[addr] = IF addr + n \in addr + Bv!SectionHeaderSize..end
                      THEN {addr} \cup from[addr + n] ELSE {}
      /\ from[addr] \subseteq addr..end
  BY <1>1, SectionsUnfold
<1>3. bad => from[addr] = {}
  BY <1>1, <1>2 DEF Bv!SectionHeaderSize
<1>4. ~bad => addr \in from[addr]
  BY <1>1, <1>2 DEF Bv!SectionHeaderSize
<1>5. S \subseteq from[addr] /\ S \subseteq Nat
  BY SectionsAreNumbers DEF SectionWalk
<1>6. f # NULL /\ SectionSought(f) = Earliest(S)
  BY NullAssumption DEF SectionSought, SectionNamed
<1>7. bad => SectionSought(f) = NULL
  <2>. HIDE DEF bad, S
  <2>. QED
    BY <1>3, <1>5, <1>6, EarliestIn
<1>8. ASSUME ~bad, SectionAt(image, addr).type = req.section PROVE SectionSought(f) = addr
  <2>1. addr \in S
    BY <1>1, <1>4, <1>8
  <2>2. \A b \in S : addr <= b
    BY <1>1, <1>2, <1>5
  <2>. HIDE DEF S
  <2>. QED
    BY <1>5, <1>6, <2>1, <2>2, EarliestIs
<1>. QED
  BY <1>7, <1>8

LEMMA NoSectionLeft ==
  ASSUME NEW f \in Nat, FileAt(image, f).size \in Nat, SectionWalk(f),
         addr \in Nat, addr >= f + FileAt(image, f).size
  PROVE  SectionSought(f) = NULL
<1>. DEFINE end == f + FileAt(image, f).size
            from == Bv!SectionsFrom(image, f)
            S == {a \in Bv!SectionsIn(image, f) : SectionAt(image, a).type = req.section}
<1>1. end \in Nat
  OBVIOUS
<1>2. addr <= end => from[addr] = {}
  <2>1. SUFFICES ASSUME addr <= end PROVE from[addr] = {}
    OBVIOUS
  <2>2. addr = end /\ addr \in f..end
    BY <1>1, <2>1
  <2>3. addr + Bv!SectionHeaderSize..end = {}
    BY <1>1, <2>2 DEF Bv!SectionHeaderSize
  <2>. QED
    BY <2>2, <2>3, SectionsUnfold
<1>3. S = {}
  BY <1>2 DEF SectionWalk
<1>4. f # NULL /\ SectionSought(f) = Earliest(S)
  BY NullAssumption DEF SectionSought, SectionNamed
<1>. QED
  BY <1>3, <1>4 DEF Earliest

LEMMA SectionWalkGoesOn ==
  ASSUME NEW f \in Nat, FileAt(image, f).size \in Nat, SectionWalk(f),
         addr \in Nat, addr < f + FileAt(image, f).size, SectionAt(image, addr).size \in Nat,
         ~(SectionAt(image, addr).size < Bv!SectionHeaderSize
           \/ addr + SectionAt(image, addr).size > f + FileAt(image, f).size),
         SectionAt(image, addr).type # req.section,
         addr' = addr + SectionAt(image, addr).size, image' = image, req' = req
  PROVE  SectionWalk(f)'
<1>. DEFINE end == f + FileAt(image, f).size
            from == Bv!SectionsFrom(image, f)
            all == Bv!SectionsIn(image, f)
<1>1. end \in Nat /\ addr \in f..end /\ from[addr] \subseteq all
  BY DEF SectionWalk
<1>2. addr' \in addr + Bv!SectionHeaderSize..end /\ addr' \in Nat /\ addr' >= f
  BY <1>1 DEF Bv!SectionHeaderSize
<1>3. from[addr] = {addr} \cup from[addr']
  BY <1>1, <1>2, SectionsUnfold
<1>4. addr' <= end /\ from[addr'] \subseteq all
  BY <1>1, <1>2, <1>3
<1>5. ASSUME NEW a \in all PROVE a \in from[addr'] \/ SectionAt(image, a).type # req.section
  BY <1>3 DEF SectionWalk
<1>. QED
  BY <1>2, <1>4, <1>5 DEF SectionWalk
----------------------------------------------------------------------------
(* What the walks in progress have established *)

BootExact ==
  pc \in BootWaits =>
    /\ op = "files" => FileWalk(Bv!First, Bv!Eov)
    /\ op = "sections" => file = FileSought(Bv!First, Bv!Eov) /\ SectionWalk(file)
    /\ op = "done" => file = FileSought(Bv!First, Bv!Eov) /\ result = SectionSought(file)

DxeExact ==
  /\ pc = "findCore" =>
       /\ op = "files" => FileWalk(Dv!First, Dv!Eov)
       /\ op = "done" => result = FileSought(Dv!First, Dv!Eov)
  /\ pc = "findPe32" =>
       /\ op = "sections" => SectionWalk(dxe)
       /\ op = "done" => result = SectionSought(dxe)

(* What is sought is said of the flash and the request. *)
LEMMA SoughtStays ==
  ASSUME image' = image, req' = req
  PROVE  /\ \A first, eov : FileSought(first, eov)' = FileSought(first, eov)
         /\ \A f : SectionSought(f)' = SectionSought(f)
BY DEF FileSought, FileStops, FileFits, Sought, SectionSought

LEMMA BootExactStep ==
  ASSUME IInv, BootExact, Bv!Step, pc \in BootWaits, pc' = pc, image' = image, req' = req
  PROVE  BootExact'
<1>. DEFINE sought == FileSought(Bv!First, Bv!Eov)
<1>1. WalkTypes /\ BootWalk /\ image \in Images
  BY DEF IInv, WInv, WalkTypes
<1>2. sought' = sought /\ \A f : SectionSought(f)' = SectionSought(f)
  <2>1. FileSought(Bv!First, Bv!Eov)' = FileSought(Bv!First, Bv!Eov)
    BY SoughtStays DEF FileSought, FileStops, FileFits, Sought
  <2>. QED
    BY <2>1, SoughtStays
<1>3. SectionSought(NULL) = NULL
  BY DEF SectionSought, SectionNamed
<1>4. ASSUME op = "files", addr < Bv!Eov
      PROVE  /\ addr \in Nat /\ addr % 8 = 0 /\ file = NULL /\ FileAt(image, addr).size \in Nat
             /\ FileWalk(Bv!First, Bv!Eov) /\ req.section # NULL
             /\ (FileFits(addr, Bv!Eov) <=> Bv!FileEnd <= Bv!Eov)
             /\ (Sought(addr) <=> Bv!FileMatches)
  <2>1. addr \in Nat /\ addr % 8 = 0 /\ file = NULL /\ FileWalk(Bv!First, Bv!Eov) /\ req.section # NULL
    BY <1>1, <1>4 DEF WalkTypes, BootWalk, BootExact
  <2>2. FileAt(image, addr).size \in Nat
    BY <1>1, <1>4, <2>1, BootPlaces
  <2>. QED
    BY <2>1, <2>2 DEF FileFits, Sought, Bv!FileEnd, Bv!FileMatches, Bv!File
<1>5. ASSUME op = "sections"
      PROVE  /\ file \in Nat /\ FileAt(image, file).size \in Nat /\ SectionWalk(file) /\ file = sought
             /\ addr \in Nat /\ eof = file + FileAt(image, file).size
             /\ addr < eof => SectionAt(image, addr).size \in Nat
  <2>1. /\ InBootFile(file) /\ eof = file + FileAt(image, file).size /\ addr \in Nat /\ eof \in Nat
        /\ SectionWalk(file) /\ file = sought
    BY <1>1, <1>5 DEF WalkTypes, BootWalk, BootExact
  <2>2. file \in Nat /\ FileAt(image, file).size \in Nat /\ eof <= Bv!Eov
    BY <1>1, <2>1, BootPlaces DEF InBootFile, Bv!Fits
  <2>3. addr < eof => SectionAt(image, addr).size \in Nat
    BY <1>1, <2>1, <2>2, BootPlaces, SectionSizes
  <2>. QED
    BY <2>1, <2>2, <2>3
<1>6. CASE Bv!FileCorrupted
  <2>1. op = "files" /\ addr < Bv!Eov /\ Bv!FileEnd > Bv!Eov /\ op' = "done" /\ result' = NULL /\ file' = file
    BY <1>6 DEF Bv!FileCorrupted, Bv!InVolume, Bv!Finish, Bv!walk
  <2>2. ~FileFits(addr, Bv!Eov)
    BY <1>4, <2>1, BootPlaces DEF Bv!FileEnd, Bv!File
  <2>3. sought = NULL
    BY <1>4, <2>1, <2>2, FileStopsHere, BootPlaces
  <2>. QED
    BY <1>2, <1>3, <1>4, <2>1, <2>3 DEF BootExact
<1>7. CASE Bv!FileFound
  <2>1. /\ op = "files" /\ addr < Bv!Eov /\ Bv!FileEnd <= Bv!Eov /\ Bv!FileMatches
    BY <1>7 DEF Bv!FileFound, Bv!InVolume
  <2>2. op' = "sections" /\ file' = addr /\ addr' = Bv!AlignUp(addr + Bv!FileHeaderSize, 4)
    BY <1>4, <1>7, <2>1 DEF Bv!FileFound, Bv!EnterFile
  <2>3. sought = addr
    BY <1>4, <2>1, FileStopsHere, BootPlaces
  <2>4. SectionWalk(file)'
    <3>1. PICK f \in Nat : f = addr
      BY <1>4, <2>1
    <3>2. SectionWalk(f)'
      BY <1>4, <2>1, <2>2, <3>1, SectionWalkStarts
    <3>. QED
      BY <2>2, <3>1, <3>2 DEF SectionWalk
  <2>. QED
    BY <1>2, <2>2, <2>3, <2>4 DEF BootExact
<1>8. CASE Bv!FileSkip
  <2>1. /\ op = "files" /\ addr < Bv!Eov /\ Bv!FileEnd <= Bv!Eov /\ ~Bv!FileMatches /\ op' = op
        /\ addr' = Bv!AlignUp(addr + FileAt(image, addr).size, 8)
    BY <1>8 DEF Bv!FileSkip, Bv!InVolume, Bv!FileEnd, Bv!File
  <2>2. FileWalk(Bv!First, Bv!Eov)'
    <3>1. PICK first \in Nat, eov \in Nat : first = Bv!First /\ eov = Bv!Eov
      BY BootPlaces
    <3>2. FileWalk(first, eov)'
      BY <1>4, <2>1, <3>1, FileWalkGoesOn
    <3>. QED
      BY <3>1, <3>2
  <2>. QED
    BY <2>1, <2>2 DEF BootExact
<1>9. CASE Bv!FileNone
  <2>1. op = "files" /\ addr >= Bv!Eov /\ op' = "done" /\ result' = NULL /\ file' = file
    BY <1>9 DEF Bv!FileNone, Bv!Finish, Bv!walk
  <2>2. file = NULL /\ addr \in Nat /\ FileWalk(Bv!First, Bv!Eov)
    BY <1>1, <2>1 DEF BootWalk, BootExact, WalkTypes
  <2>3. sought = NULL
    BY <2>1, <2>2, NoFileLeft, BootPlaces
  <2>. QED
    BY <1>2, <1>3, <2>1, <2>2, <2>3 DEF BootExact
<1>10. CASE Bv!SectionCorrupted
  <2>1. op = "sections" /\ addr < eof /\ Bv!SectionBad /\ op' = "done" /\ result' = NULL /\ file' = file
    BY <1>10 DEF Bv!SectionCorrupted, Bv!InFile, Bv!Finish, Bv!walk
  <2>2. SectionSought(file) = NULL
    BY <1>5, <2>1, SectionStopsHere DEF Bv!SectionBad, Bv!Section
  <2>. QED
    BY <1>2, <1>5, <2>1, <2>2 DEF BootExact
<1>11. CASE Bv!SectionFound
  <2>1. /\ op = "sections" /\ addr < eof /\ ~Bv!SectionBad /\ op' = "done" /\ result' = addr /\ file' = file
        /\ SectionAt(image, addr).type = req.section
    BY <1>11 DEF Bv!SectionFound, Bv!InFile, Bv!Finish, Bv!walk, Bv!Section
  <2>2. SectionSought(file) = addr
    BY <1>5, <2>1, SectionStopsHere DEF Bv!SectionBad, Bv!Section
  <2>. QED
    BY <1>2, <1>5, <2>1, <2>2 DEF BootExact
<1>12. CASE Bv!SectionSkip
  <2>1. /\ op = "sections" /\ addr < eof /\ ~Bv!SectionBad /\ op' = op /\ file' = file
        /\ SectionAt(image, addr).type # req.section /\ addr' = addr + SectionAt(image, addr).size
    BY <1>12 DEF Bv!SectionSkip, Bv!InFile, Bv!Section
  <2>2. PICK f \in Nat : f = file
    BY <1>5, <2>1
  <2>3. SectionWalk(f)'
    BY <1>5, <2>1, <2>2, SectionWalkGoesOn DEF Bv!SectionBad, Bv!Section
  <2>4. SectionWalk(file)'
    BY <2>1, <2>2, <2>3 DEF SectionWalk
  <2>. QED
    BY <1>2, <1>5, <2>1, <2>4 DEF BootExact
<1>13. CASE Bv!SectionNone
  <2>1. op = "sections" /\ addr >= eof /\ op' = "done" /\ result' = NULL /\ file' = file
    BY <1>13 DEF Bv!SectionNone, Bv!Finish, Bv!walk
  <2>2. SectionSought(file) = NULL
    BY <1>5, <2>1, NoSectionLeft
  <2>. QED
    BY <1>2, <1>5, <2>1, <2>2 DEF BootExact
<1>. QED
  BY <1>6, <1>7, <1>8, <1>9, <1>10, <1>11, <1>12, <1>13 DEF Bv!Step

LEMMA DxeExactStep ==
  ASSUME IInv, DxeExact, Dv!Step, pc \in {"findCore", "findPe32"}, pc' = pc, dxe' = dxe,
         image' = image, req' = req
  PROVE  DxeExact'
<1>. DEFINE sought == FileSought(Dv!First, Dv!Eov)
<1>1. WalkTypes /\ DxeWalk /\ image \in Images
  BY DEF IInv, WInv, WalkTypes
<1>2. sought' = sought /\ SectionSought(dxe)' = SectionSought(dxe)
  <2>1. FileSought(Dv!First, Dv!Eov)' = FileSought(Dv!First, Dv!Eov)
    BY DEF FileSought, FileStops, FileFits, Sought
  <2>2. SectionSought(dxe)' = SectionSought(dxe)
    BY DEF SectionSought
  <2>. QED
    BY <2>1, <2>2
<1>3. ASSUME pc = "findCore"
      PROVE  /\ op \in {"files", "done"} /\ file = NULL /\ req.section = NULL /\ addr \in Nat
             /\ op = "files" => FileWalk(Dv!First, Dv!Eov) /\ addr % 8 = 0
  BY <1>1, <1>3 DEF WalkTypes, DxeWalk, DxeExact
<1>4. ASSUME op = "files"
      PROVE  pc = "findCore"
  BY <1>1, <1>4 DEF DxeWalk
<1>5. ASSUME op = "files", addr < Dv!Eov
      PROVE  /\ addr \in Nat /\ FileAt(image, addr).size \in Nat /\ FileWalk(Dv!First, Dv!Eov)
             /\ (FileFits(addr, Dv!Eov) <=> Dv!FileEnd <= Dv!Eov)
             /\ (Sought(addr) <=> Dv!FileMatches)
  <2>1. FileAt(image, addr).size \in Nat
    BY <1>1, <1>3, <1>4, <1>5, DxePlaces
  <2>. QED
    BY <1>3, <1>4, <1>5, <2>1 DEF FileFits, Sought, Dv!FileEnd, Dv!FileMatches, Dv!File
<1>6. ASSUME op = "sections"
      PROVE  /\ pc = "findPe32" /\ dxe \in Nat /\ FileAt(image, dxe).size \in Nat /\ SectionWalk(dxe)
             /\ addr \in Nat /\ eof = dxe + FileAt(image, dxe).size
             /\ addr < eof => SectionAt(image, addr).size \in Nat
  <2>1. /\ pc = "findPe32" /\ DxeCoreFile(dxe) /\ eof = dxe + FileAt(image, dxe).size /\ addr \in Nat
        /\ eof \in Nat /\ SectionWalk(dxe)
    BY <1>1, <1>6 DEF WalkTypes, DxeWalk, DxeExact
  <2>2. dxe \in Nat /\ FileAt(image, dxe).size \in Nat /\ eof <= Dv!Eov
    BY <1>1, <2>1, DxePlaces DEF DxeCoreFile, Dv!Fits
  <2>3. addr < eof => SectionAt(image, addr).size \in Nat
    BY <1>1, <2>1, <2>2, DxePlaces, SectionSizes
  <2>. QED
    BY <2>1, <2>2, <2>3
<1>7. CASE Dv!FileCorrupted
  <2>1. op = "files" /\ addr < Dv!Eov /\ Dv!FileEnd > Dv!Eov /\ op' = "done" /\ result' = NULL
    BY <1>7 DEF Dv!FileCorrupted, Dv!InVolume, Dv!Finish
  <2>2. ~FileFits(addr, Dv!Eov)
    BY <1>5, <2>1, DxePlaces DEF Dv!FileEnd, Dv!File
  <2>3. sought = NULL
    BY <1>5, <2>1, <2>2, FileStopsHere, DxePlaces
  <2>. QED
    BY <1>2, <1>4, <2>1, <2>3 DEF DxeExact
<1>8. CASE Dv!FileFound
  <2>1. op = "files" /\ addr < Dv!Eov /\ Dv!FileEnd <= Dv!Eov /\ Dv!FileMatches
    BY <1>8 DEF Dv!FileFound, Dv!InVolume
  <2>2. op' = "done" /\ result' = addr
    BY <1>3, <1>4, <1>8, <2>1 DEF Dv!FileFound, Dv!Finish
  <2>3. sought = addr
    BY <1>5, <2>1, FileStopsHere, DxePlaces
  <2>. QED
    BY <1>2, <1>4, <2>1, <2>2, <2>3 DEF DxeExact
<1>9. CASE Dv!FileSkip
  <2>1. /\ op = "files" /\ addr < Dv!Eov /\ Dv!FileEnd <= Dv!Eov /\ ~Dv!FileMatches /\ op' = op
        /\ addr' = Bv!AlignUp(addr + FileAt(image, addr).size, 8)
    BY <1>9 DEF Dv!FileSkip, Dv!InVolume, Dv!FileEnd, Dv!File, Dv!AlignUp, Bv!AlignUp
  <2>2. FileWalk(Dv!First, Dv!Eov)'
    <3>1. PICK first \in Nat, eov \in Nat : first = Dv!First /\ eov = Dv!Eov
      BY DxePlaces
    <3>2. FileWalk(first, eov)'
      BY <1>5, <2>1, <3>1, FileWalkGoesOn
    <3>. QED
      BY <3>1, <3>2
  <2>. QED
    BY <1>4, <2>1, <2>2 DEF DxeExact
<1>10. CASE Dv!FileNone
  <2>1. op = "files" /\ addr >= Dv!Eov /\ op' = "done" /\ result' = NULL
    BY <1>10 DEF Dv!FileNone, Dv!Finish
  <2>2. sought = NULL
    BY <1>3, <1>4, <2>1, NoFileLeft, DxePlaces
  <2>. QED
    BY <1>2, <1>4, <2>1, <2>2 DEF DxeExact
<1>11. CASE Dv!SectionCorrupted
  <2>1. op = "sections" /\ addr < eof /\ Dv!SectionBad /\ op' = "done" /\ result' = NULL
    BY <1>11 DEF Dv!SectionCorrupted, Dv!InFile, Dv!Finish
  <2>2. SectionSought(dxe) = NULL
    BY <1>6, <2>1, SectionStopsHere
    DEF Dv!SectionBad, Dv!Section, Dv!SectionHeaderSize, Bv!SectionHeaderSize
  <2>. QED
    BY <1>2, <1>6, <2>1, <2>2 DEF DxeExact
<1>12. CASE Dv!SectionFound
  <2>1. /\ op = "sections" /\ addr < eof /\ ~Dv!SectionBad /\ op' = "done" /\ result' = addr
        /\ SectionAt(image, addr).type = req.section
    BY <1>12 DEF Dv!SectionFound, Dv!InFile, Dv!Finish, Dv!Section
  <2>2. SectionSought(dxe) = addr
    BY <1>6, <2>1, SectionStopsHere
    DEF Dv!SectionBad, Dv!Section, Dv!SectionHeaderSize, Bv!SectionHeaderSize
  <2>. QED
    BY <1>2, <1>6, <2>1, <2>2 DEF DxeExact
<1>13. CASE Dv!SectionSkip
  <2>1. /\ op = "sections" /\ addr < eof /\ ~Dv!SectionBad /\ op' = op
        /\ SectionAt(image, addr).type # req.section /\ addr' = addr + SectionAt(image, addr).size
    BY <1>13 DEF Dv!SectionSkip, Dv!InFile, Dv!Section
  <2>2. PICK f \in Nat : f = dxe
    BY <1>6, <2>1
  <2>3. SectionWalk(f)'
    BY <1>6, <2>1, <2>2, SectionWalkGoesOn
    DEF Dv!SectionBad, Dv!Section, Dv!SectionHeaderSize, Bv!SectionHeaderSize
  <2>4. SectionWalk(dxe)'
    BY <2>2, <2>3 DEF SectionWalk
  <2>. QED
    BY <1>2, <1>6, <2>1, <2>4 DEF DxeExact
<1>14. CASE Dv!SectionNone
  <2>1. op = "sections" /\ addr >= eof /\ op' = "done" /\ result' = NULL
    BY <1>14 DEF Dv!SectionNone, Dv!Finish
  <2>2. SectionSought(dxe) = NULL
    BY <1>6, <2>1, NoSectionLeft
  <2>. QED
    BY <1>2, <1>6, <2>1, <2>2 DEF DxeExact
<1>. QED
  BY <1>7, <1>8, <1>9, <1>10, <1>11, <1>12, <1>13, <1>14 DEF Dv!Step

----------------------------------------------------------------------------
(* What is asked, and where *)

Asking ==
  /\ pc \in {"secSearch", "peiFixup"} => req.type = "PEI_CORE" /\ req.name = NULL
  /\ pc = "apriori" => req.type = "FREEFORM" /\ req.name = "apriori" /\ req.section = "RAW"
  /\ pc = "peimSearch" => req.type = "PEIM" /\ req.name = AprioriName(image)
  /\ pc = "install" => req.type = "PEIM" /\ req.name = NULL
  /\ pc \in {"secSearch", "peimSearch"} => req.section = "TE"
  /\ pc \in {"peiFixup", "install"} => req.section = "SUBTYPE_GUID"

Exact == BootExact /\ DxeExact /\ Asking

LEMMA ImageStays == [Next]_vars => image' = image
BY DEF Next, Sec, Pei, Dxe, SecSearch, SecFails, EnterPei, CalcPeiFixup, FixupServices,
       AprioriSearch, AprioriFound, PeimSearch, NoPeim, CallPeimInit, DxeIplInit, PeiInstallPpi,
       DispatchPeims, FindDxeCore, FoundDxeCore, GetFileInfo, DxeIplFails, LoadAndRunDxeCore,
       PeiLoadFile, PeiLoadPe32, LoadAndRunReturns, GoAstray, WalkStep, Answered, Bv!Return,
       Bv!GetFileSection, Dv!FindNextFileFromStart, Dv!GetFileInfo, Dv!FindSectionData,
       Bv!Step, Bv!FileCorrupted, Bv!FileFound, Bv!FileSkip, Bv!FileNone,
       Bv!SectionCorrupted, Bv!SectionFound, Bv!SectionSkip, Bv!SectionNone,
       Dv!Step, Dv!FileCorrupted, Dv!FileFound, Dv!FileSkip, Dv!FileNone,
       Dv!SectionCorrupted, Dv!SectionFound, Dv!SectionSkip, Dv!SectionNone, vars, walk

LEMMA WalkStepExact == IInv /\ Exact /\ WalkStep => Exact'
<1>. SUFFICES ASSUME IInv, Exact, WalkStep PROVE Exact'
  OBVIOUS
<1>1. pc' = pc /\ dxe' = dxe /\ UNCHANGED <<pc, pei, ppis, dxes>>
  BY DEF WalkStep, dxes
<1>2. image' = image /\ req' = req
  BY DEF WalkStep, Bv!Step, Bv!FileCorrupted, Bv!FileFound, Bv!FileSkip, Bv!FileNone,
         Bv!SectionCorrupted, Bv!SectionFound, Bv!SectionSkip, Bv!SectionNone,
         Dv!Step, Dv!FileCorrupted, Dv!FileFound, Dv!FileSkip, Dv!FileNone,
         Dv!SectionCorrupted, Dv!SectionFound, Dv!SectionSkip, Dv!SectionNone
<1>3. Asking'
  BY <1>1, <1>2 DEF Exact, Asking
<1>4. CASE pc \in {"findCore", "findPe32"}
  <2>1. DxeExact'
    BY <1>1, <1>2, <1>4, DxeExactStep DEF Exact, WalkStep
  <2>2. BootExact'
    BY <1>1, <1>4 DEF BootExact, BootWaits
  <2>. QED
    BY <1>3, <2>1, <2>2 DEF Exact
<1>5. CASE pc \notin {"findCore", "findPe32"}
  <2>1. DxeExact'
    BY <1>1, <1>5 DEF DxeExact
  <2>2. CASE pc \in BootWaits
    BY <1>1, <1>2, <1>3, <1>5, <2>1, <2>2, BootExactStep DEF Exact, WalkStep
  <2>3. CASE pc \notin BootWaits
    BY <1>1, <1>3, <2>1, <2>3 DEF Exact, BootExact
  <2>. QED
    BY <2>2, <2>3
<1>. QED
  BY <1>4, <1>5

(* A search of the boot volume starts at its first file. *)
LEMMA AskedExact ==
  ASSUME NEW s, Bv!GetFileSection(s), pc' \in BootWaits, Asking'
  PROVE  Exact'
<1>1. op' = "files" /\ addr' = Bv!First /\ image' = image
  BY DEF Bv!GetFileSection
<1>2. FileWalk(Bv!First, Bv!Eov)'
  BY <1>1, FileWalkStarts, BootPlaces
<1>. QED
  BY <1>1, <1>2 DEF Exact, BootExact, DxeExact, BootWaits

LEMMA NextExact == IInv /\ Exact /\ [Next]_vars => Exact'
<1>. SUFFICES ASSUME IInv, Exact, [Next]_vars PROVE Exact'
  OBVIOUS
<1>. USE DEF Goto
<1>1. CASE SecSearch
  BY <1>1, AskedExact DEF SecSearch, Asking, BootWaits, Bv!GetFileSection, Bv!NoRequest, Bv!TeEntryPoint
<1>2. CASE CalcPeiFixup
  BY <1>2, AskedExact DEF CalcPeiFixup, Asking, BootWaits, Bv!GetFileSection, Bv!NoRequest, Bv!PeiFixup
<1>3. CASE AprioriSearch
  BY <1>3, AskedExact DEF AprioriSearch, Asking, BootWaits, Bv!GetFileSection, Bv!NoRequest, Bv!AprioriFile
<1>4. CASE PeimSearch
  <2>1. name = AprioriName(image)
    BY <1>4 DEF PeimSearch, IInv, Order
  <2>. QED
    BY <1>4, <2>1, AskedExact
    DEF PeimSearch, PeimTe, Asking, BootWaits, Bv!GetFileSection, Bv!NoRequest, Bv!TeEntryPoint
<1>5. CASE DxeIplInit
  BY <1>5, AskedExact DEF DxeIplInit, Asking, BootWaits, Bv!GetFileSection, Bv!NoRequest, Bv!PeimFixup
<1>6. CASE FindDxeCore
  <2>1. pc' = "findCore" /\ op' = "files" /\ addr' = Dv!First /\ image' = image
    BY <1>6 DEF FindDxeCore, Dv!FindNextFileFromStart
  <2>2. FileWalk(Dv!First, Dv!Eov)'
    BY <2>1, FileWalkStarts, DxePlaces
  <2>. QED
    BY <2>1, <2>2 DEF Exact, BootExact, DxeExact, Asking, BootWaits
<1>7. CASE PeiLoadFile
  <2>1. /\ pc = "loadFile" /\ pc' = "findPe32" /\ op' = "sections" /\ dxe' = dxe /\ image' = image
        /\ addr' = Bv!AlignUp(dxe + Bv!FileHeaderSize, 4)
    BY <1>7 DEF PeiLoadFile, Dv!FindSectionData, Dv!EnterFile, Dv!AlignUp, Bv!AlignUp, dxes,
                Dv!FileHeaderSize, Bv!FileHeaderSize
  <2>2. DxeCoreFile(dxe) /\ image \in Images
    BY <2>1 DEF IInv, WInv, DxeWalk, WalkTypes
  <2>3. dxe \in Nat /\ dxe % 8 = 0 /\ FileAt(image, dxe).size \in Nat
    BY <2>2, DxePlaces DEF DxeCoreFile, Dv!Slots
  <2>4. PICK f \in Nat : f = dxe
    BY <2>3
  <2>5. SectionWalk(f)'
    BY <2>1, <2>3, <2>4, SectionWalkStarts
  <2>6. SectionWalk(dxe)'
    BY <2>1, <2>4, <2>5 DEF SectionWalk
  <2>. QED
    BY <2>1, <2>6 DEF Exact, BootExact, DxeExact, Asking, BootWaits
<1>8. CASE WalkStep
  BY <1>8, WalkStepExact
<1>9. CASE UNCHANGED vars
  BY <1>9 DEF vars, walk, dxes, Exact, BootExact, DxeExact, Asking, FileWalk, SectionWalk, FileFits, Sought,
              FileSought, FileStops, SectionSought
<1>10. CASE ~(SecSearch \/ CalcPeiFixup \/ AprioriSearch \/ PeimSearch \/ DxeIplInit \/ FindDxeCore
              \/ PeiLoadFile \/ WalkStep \/ UNCHANGED vars)
  <2>1. pc' \notin BootWaits \cup {"findCore", "findPe32"}
    BY <1>10 DEF Next, Sec, Pei, Dxe, SecFails, EnterPei, FixupServices, AprioriFound, NoPeim,
                 CallPeimInit, PeiInstallPpi, DispatchPeims, FoundDxeCore, GetFileInfo, DxeIplFails,
                 LoadAndRunDxeCore, PeiLoadPe32, LoadAndRunReturns, GoAstray, BootWaits
  <2>. QED
    BY <2>1 DEF Exact, BootExact, DxeExact, Asking, BootWaits
<1>. QED
  BY <1>1, <1>2, <1>3, <1>4, <1>5, <1>6, <1>7, <1>8, <1>9, <1>10

----------------------------------------------------------------------------
(* The answers, said of the flash alone *)

CoreFile == FileNamed(image, Bv!First, Bv!Eov, IsCore)
AprioriAt == FileNamed(image, Bv!First, Bv!Eov, IsApriori)
NamedFile == FileNamed(image, Bv!First, Bv!Eov, IsNamed)
PeimFile == FileNamed(image, Bv!First, Bv!Eov, IsPeim)
DxeFile  == FileNamed(image, Dv!First, Dv!Eov, IsDxeCore)
Fixup(f) == SectionNamed(image, f, "SUBTYPE_GUID")

LEMMA SoughtAre ==
  ASSUME NEW first, NEW eov
  PROVE  /\ req.type = "PEI_CORE" /\ req.name = NULL
              => FileSought(first, eov) = FileNamed(image, first, eov, IsCore)
         /\ req.type = "FREEFORM" /\ req.name = "apriori"
              => FileSought(first, eov) = FileNamed(image, first, eov, IsApriori)
         /\ req.type = "PEIM" /\ req.name = AprioriName(image) /\ image \in Images
              => FileSought(first, eov) = FileNamed(image, first, eov, IsNamed)
         /\ req.type = "PEIM" /\ req.name = NULL
              => FileSought(first, eov) = FileNamed(image, first, eov, IsPeim)
         /\ req.type = "DXE_CORE" /\ req.name = NULL
              => FileSought(first, eov) = FileNamed(image, first, eov, IsDxeCore)
<1>1. ASSUME req.type = "PEI_CORE", req.name = NULL
      PROVE  FileSought(first, eov) = FileNamed(image, first, eov, IsCore)
  BY <1>1 DEF FileSought, FileStops, FileFits, Sought, FileNamed, IsCore
<1>2. ASSUME req.type = "FREEFORM", req.name = "apriori"
      PROVE  FileSought(first, eov) = FileNamed(image, first, eov, IsApriori)
  BY <1>2, NullAssumption DEF FileSought, FileStops, FileFits, Sought, FileNamed, IsApriori
<1>3. ASSUME req.type = "PEIM", req.name = AprioriName(image), image \in Images
      PROVE  FileSought(first, eov) = FileNamed(image, first, eov, IsNamed)
  BY <1>3, NameAssumption DEF FileSought, FileStops, FileFits, Sought, FileNamed, IsNamed, IsPeim
<1>4. ASSUME req.type = "PEIM", req.name = NULL
      PROVE  FileSought(first, eov) = FileNamed(image, first, eov, IsPeim)
  BY <1>4 DEF FileSought, FileStops, FileFits, Sought, FileNamed, IsPeim
<1>5. ASSUME req.type = "DXE_CORE", req.name = NULL
      PROVE  FileSought(first, eov) = FileNamed(image, first, eov, IsDxeCore)
  BY <1>5 DEF FileSought, FileStops, FileFits, Sought, FileNamed, IsDxeCore
<1>. QED
  BY <1>1, <1>2, <1>3, <1>4, <1>5

LEMMA Answers ==
  ASSUME IInv, Exact, op = "done"
  PROVE  /\ pc = "secSearch" => file = CoreFile /\ result = SectionNamed(image, CoreFile, "TE")
         /\ pc = "peiFixup" => result = Fixup(CoreFile)
         /\ pc = "apriori" => result = SectionNamed(image, AprioriAt, "RAW")
         /\ pc = "peimSearch" => file = NamedFile /\ result = SectionNamed(image, NamedFile, "TE")
         /\ pc = "install" => result = Fixup(PeimFile)
         /\ pc = "findCore" => result = DxeFile
         /\ pc = "findPe32" => result = SectionNamed(image, dxe, "PE32")
<1>1. BootExact /\ DxeExact /\ Asking /\ DxeWalk /\ image \in Images
  BY DEF Exact, IInv, WInv, WalkTypes
<1>2. pc \in BootWaits => file = FileSought(Bv!First, Bv!Eov) /\ result = SectionSought(file)
  BY <1>1 DEF BootExact
<1>3. CASE pc \in {"secSearch", "peiFixup"}
  <2>1. FileSought(Bv!First, Bv!Eov) = CoreFile
    BY <1>1, <1>3, SoughtAre DEF Asking, CoreFile
  <2>. QED
    BY <1>1, <1>2, <1>3, <2>1 DEF Asking, SectionSought, Fixup, BootWaits
<1>4. CASE pc = "apriori"
  <2>1. FileSought(Bv!First, Bv!Eov) = AprioriAt
    BY <1>1, <1>4, SoughtAre DEF Asking, AprioriAt
  <2>. QED
    BY <1>1, <1>2, <1>4, <2>1 DEF Asking, SectionSought, BootWaits
<1>5. CASE pc = "peimSearch"
  <2>1. FileSought(Bv!First, Bv!Eov) = NamedFile
    BY <1>1, <1>5, SoughtAre DEF Asking, NamedFile
  <2>. QED
    BY <1>1, <1>2, <1>5, <2>1 DEF Asking, SectionSought, BootWaits
<1>6. CASE pc = "install"
  <2>1. FileSought(Bv!First, Bv!Eov) = PeimFile
    BY <1>1, <1>6, SoughtAre DEF Asking, PeimFile
  <2>. QED
    BY <1>1, <1>2, <1>6, <2>1 DEF Asking, SectionSought, Fixup, BootWaits
<1>7. CASE pc = "findCore"
  <2>1. result = FileSought(Dv!First, Dv!Eov) /\ req.type = "DXE_CORE" /\ req.name = NULL
    BY <1>1, <1>7 DEF DxeExact, DxeWalk
  <2>2. FileSought(Dv!First, Dv!Eov) = DxeFile
    BY <2>1, SoughtAre DEF DxeFile
  <2>. QED
    BY <1>7, <2>1, <2>2
<1>8. CASE pc = "findPe32"
  BY <1>1, <1>8 DEF DxeExact, DxeWalk, SectionSought
<1>. QED
  BY <1>3, <1>4, <1>5, <1>6, <1>7, <1>8

LEMMA PlanIs ==
  ASSUME image \in Images
  PROVE  /\ HeaderRight(image) /\ SectionNamed(image, CoreFile, "TE") # NULL
              => Plan[image].core = CoreFile
         /\ ~HeaderRight(image) \/ SectionNamed(image, CoreFile, "TE") = NULL
              => Plan[image].core = NULL
         /\ SectionNamed(image, AprioriAt, "RAW") # NULL /\ SectionNamed(image, NamedFile, "TE") # NULL
              => Plan[image].peim = NamedFile
         /\ SectionNamed(image, AprioriAt, "RAW") = NULL \/ SectionNamed(image, NamedFile, "TE") = NULL
              => Plan[image].peim = NULL
         /\ Plan[image].fixup = Fixup(PeimFile) /\ Plan[image].dxe = DxeFile
         /\ Plan[image].pe32 = IF PeRight(image) THEN SectionNamed(image, DxeFile, "PE32") ELSE NULL
         /\ Plan[image].calls \in BOOLEAN /\ Plan[image].entry \in BOOLEAN
         /\ Plan[image].core # NULL =>
              (Plan[image].calls <=> Distance(Fixup(Plan[image].core)) = Displacement(image, Plan[image].core))
         /\ Plan[image].peim # NULL =>
              (Plan[image].entry <=> Fixup(PeimFile) = Displacement(image, Plan[image].peim))
<1>1. SectionNamed(image, NULL, "RAW") = NULL
  BY DEF SectionNamed
<1>2. /\ FileWith(image, IsCore, "TE")
           = IF SectionNamed(image, CoreFile, "TE") # NULL THEN CoreFile ELSE NULL
      /\ FileWith(image, IsApriori, "RAW")
           = IF SectionNamed(image, AprioriAt, "RAW") # NULL THEN AprioriAt ELSE NULL
      /\ FileWith(image, IsNamed, "TE")
           = IF SectionNamed(image, NamedFile, "TE") # NULL THEN NamedFile ELSE NULL
  BY DEF FileWith, CoreFile, AprioriAt, NamedFile
<1>3. /\ CorePlan(image) = IF HeaderRight(image) THEN FileWith(image, IsCore, "TE") ELSE NULL
      /\ PeimPlan(image) = IF FileWith(image, IsApriori, "RAW") # NULL THEN FileWith(image, IsNamed, "TE") ELSE NULL
      /\ FixupPlan(image) = Fixup(PeimFile) /\ DxePlan(image) = DxeFile
      /\ \A f : FixupOf(image, f) = Fixup(f)
  BY DEF CorePlan, PeimPlan, FixupPlan, DxePlan, FixupOf, Fixup, PeimFile, DxeFile
<1>4. Plan[image] =
        [core  |-> CorePlan(image),
         calls |-> Moves(image, CorePlan(image), Distance(FixupOf(image, CorePlan(image)))),
         peim  |-> PeimPlan(image),
         fixup |-> FixupPlan(image),
         entry |-> Moves(image, PeimPlan(image), FixupPlan(image)),
         dxe   |-> DxePlan(image),
         pe32  |-> IF PeRight(image) THEN SectionNamed(image, DxePlan(image), "PE32") ELSE NULL]
  BY DEF Plan
<1>5. /\ Plan[image].core = CorePlan(image) /\ Plan[image].peim = PeimPlan(image)
      /\ Plan[image].fixup = FixupPlan(image) /\ Plan[image].dxe = DxePlan(image)
      /\ Plan[image].pe32 = IF PeRight(image) THEN SectionNamed(image, DxePlan(image), "PE32") ELSE NULL
      /\ Plan[image].calls = Moves(image, CorePlan(image), Distance(FixupOf(image, CorePlan(image))))
      /\ Plan[image].entry = Moves(image, PeimPlan(image), FixupPlan(image))
  BY <1>4
<1>6. /\ Plan[image].calls \in BOOLEAN /\ Plan[image].entry \in BOOLEAN
      /\ Plan[image].core # NULL =>
           (Plan[image].calls <=> Distance(Fixup(Plan[image].core)) = Displacement(image, Plan[image].core))
      /\ Plan[image].peim # NULL =>
           (Plan[image].entry <=> Fixup(PeimFile) = Displacement(image, Plan[image].peim))
  BY <1>3, <1>5 DEF Moves
<1>. QED
  BY <1>1, <1>2, <1>3, <1>5, <1>6

----------------------------------------------------------------------------
(* What has come of it: the code that was entered, and the distances that
   pointers were moved by.                                                *)

Unmoved == {"sec", "secSearch", "sleep", "pei", "peiFixup"}
NoPeimYet == Unmoved \cup {"initPeims", "apriori", "peim", "peimSearch"}

Entered ==
  /\ core # NULL => core = CoreFile /\ core = Plan[image].core
  /\ pc \in NoPeimYet => peim = NULL
  /\ pc \in {"peim", "peimSearch"} => SectionNamed(image, AprioriAt, "RAW") # NULL
  /\ peim # NULL => peim = Plan[image].peim
  /\ pc \in {"fileInfo", "gotInfo", "loadFile", "findPe32"} => dxe = DxeFile
  /\ loaded # NULL => loaded = Plan[image].pe32
  /\ pc = "loaded" => loaded # NULL

Moved ==
  /\ \A s \in Services :
       services[s] = IF pc \in Unmoved \/ Fixup(CoreFile) = NULL THEN 0 ELSE Fixup(CoreFile)
  /\ db = <<>> => ppiMoved = 0
  /\ db # <<>> => ppiMoved = Fixup(PeimFile) /\ Fixup(PeimFile) # NULL

(* The PEIM that installs has reached the service, and the DXE IPL runs
   because its PPI is installed.                                          *)
Linked ==
  /\ pc = "install" \/ db # <<>> => Plan[image].calls
  /\ pc \in Ipl \cup {"loaded", "hung"} => db # <<>>

PInv == IInv /\ Exact /\ Entered /\ Moved /\ Linked

LEMMA FlashStays ==
  ASSUME image' = image
  PROVE  /\ CoreFile' = CoreFile /\ AprioriAt' = AprioriAt /\ NamedFile' = NamedFile
         /\ PeimFile' = PeimFile /\ DxeFile' = DxeFile
         /\ \A f, t : SectionNamed(image, f, t)' = SectionNamed(image, f, t)
         /\ \A f : Fixup(f)' = Fixup(f)
         /\ Plan[image]' = Plan[image]
BY DEF CoreFile, AprioriAt, NamedFile, PeimFile, DxeFile, Fixup

LEMMA InitPInv == Init => PInv
<1>. SUFFICES ASSUME Init PROVE PInv
  OBVIOUS
<1>1. Exact
  BY DEF Init, Exact, BootExact, DxeExact, Asking, BootWaits
<1>2. Entered
  BY DEF Init, Entered
<1>3. Moved
  BY DEF Init, Registry!Init, Moved, Unmoved
<1>4. Linked
  BY DEF Init, Registry!Init, Linked, Ipl, DxeWaits
<1>. QED
  BY <1>1, <1>2, <1>3, <1>4, InitHolds DEF PInv

LEMMA NextIInv == IInv /\ [Next]_vars => IInv'
BY SecKeeps, PeiKeeps, DxeKeeps, GoAstrayKeeps, WalkStepKeeps, StutterKeeps DEF Next

LEMMA NextEntered == PInv /\ [Next]_vars => Entered'
<1>. SUFFICES ASSUME PInv, [Next]_vars PROVE Entered'
  OBVIOUS
<1>. USE DEF Goto, pei, ppis, dxes
<1>1. IInv /\ Exact /\ Entered /\ image \in Images /\ RunsSound /\ Order
  BY DEF PInv, IInv, WInv, WalkTypes
<1>2. image' = image
  BY ImageStays
<1>3. /\ CoreFile' = CoreFile /\ AprioriAt' = AprioriAt /\ DxeFile' = DxeFile
      /\ SectionNamed(image, AprioriAt, "RAW")' = SectionNamed(image, AprioriAt, "RAW")
      /\ Plan[image]' = Plan[image]
  BY <1>2, FlashStays
<1>4. CASE EnterPei
  <2>1. /\ pc = "secSearch" /\ op = "done" /\ result # NULL /\ pc' = "pei" /\ core' = file
        /\ UNCHANGED <<peim, ppis, dxes>>
    BY <1>4 DEF EnterPei, Answered
  <2>2. core' = CoreFile /\ SectionNamed(image, CoreFile, "TE") # NULL /\ HeaderRight(image)
    BY <1>1, <2>1, Answers DEF Order
  <2>3. core' = Plan[image].core
    BY <1>1, <2>2, PlanIs
  <2>. QED
    BY <1>1, <1>3, <2>1, <2>2, <2>3 DEF Entered, NoPeimYet, Unmoved
<1>5. CASE AprioriFound
  <2>1. /\ pc = "apriori" /\ op = "done" /\ result # NULL /\ pc' = "peim"
        /\ UNCHANGED <<core, peim, dxes>>
    BY <1>5 DEF AprioriFound, Answered
  <2>2. SectionNamed(image, AprioriAt, "RAW") # NULL
    BY <1>1, <2>1, Answers
  <2>. QED
    BY <1>1, <1>3, <2>1, <2>2 DEF Entered, NoPeimYet
<1>6. CASE CallPeimInit
  <2>1. /\ pc = "peimSearch" /\ op = "done" /\ result # NULL /\ pc' = "dxeIplInit" /\ peim' = file
        /\ UNCHANGED <<core, dxes>>
    BY <1>6 DEF CallPeimInit, Answered
  <2>2. peim' = NamedFile /\ SectionNamed(image, NamedFile, "TE") # NULL
        /\ SectionNamed(image, AprioriAt, "RAW") # NULL
    BY <1>1, <2>1, Answers DEF Entered
  <2>3. peim' = Plan[image].peim
    BY <1>1, <2>2, PlanIs
  <2>. QED
    BY <1>1, <1>3, <2>1, <2>3 DEF Entered, NoPeimYet, Unmoved
<1>7. CASE FoundDxeCore
  <2>1. /\ pc = "findCore" /\ op = "done" /\ pc' = "fileInfo" /\ dxe' = result
        /\ UNCHANGED <<core, peim, loaded>>
    BY <1>7 DEF FoundDxeCore, Answered
  <2>2. dxe' = DxeFile
    BY <1>1, <2>1, Answers
  <2>. QED
    BY <1>1, <1>3, <2>1, <2>2 DEF Entered, NoPeimYet, Unmoved
<1>8. CASE PeiLoadPe32
  <2>1. /\ pc = "findPe32" /\ op = "done" /\ UNCHANGED <<core, peim, dxe>>
        /\ \/ Pe32Loads /\ loaded' = result /\ pc' = "loaded"
           \/ UNCHANGED loaded /\ pc' = "hung"
    BY <1>8 DEF PeiLoadPe32, Answered
  <2>2. Pe32Loads => result = Plan[image].pe32 /\ result # NULL
    BY <1>1, <2>1, Answers, PlanIs DEF Entered, Pe32Loads, PeRight
  <2>. QED
    BY <1>1, <1>3, <2>1, <2>2 DEF Entered, NoPeimYet, Unmoved
<1>9. CASE ~(EnterPei \/ AprioriFound \/ CallPeimInit \/ FoundDxeCore \/ PeiLoadPe32)
  <2>1. UNCHANGED <<core, peim, dxes>>
    BY <1>9 DEF Next, Sec, Pei, Dxe, SecSearch, SecFails, CalcPeiFixup, FixupServices, AprioriSearch,
                PeimSearch, NoPeim, DxeIplInit, PeiInstallPpi, DispatchPeims, FindDxeCore, GetFileInfo,
                DxeIplFails, LoadAndRunDxeCore, PeiLoadFile, LoadAndRunReturns, GoAstray, WalkStep, vars
  <2>2. /\ pc' \in NoPeimYet => pc \in NoPeimYet
        /\ pc' \in {"peim", "peimSearch"} => pc \in {"peim", "peimSearch"}
        /\ pc' \in {"fileInfo", "gotInfo", "loadFile", "findPe32"}
             => pc \in {"fileInfo", "gotInfo", "loadFile", "findPe32"}
        /\ pc' = "loaded" => pc = "loaded"
    BY <1>9 DEF Next, Sec, Pei, Dxe, SecSearch, SecFails, CalcPeiFixup, FixupServices, AprioriSearch,
                PeimSearch, NoPeim, DxeIplInit, PeiInstallPpi, DispatchPeims, FindDxeCore, GetFileInfo,
                DxeIplFails, LoadAndRunDxeCore, PeiLoadFile, LoadAndRunReturns, GoAstray, WalkStep, vars,
                Answered, NoPeimYet, Unmoved
  <2>. QED
    BY <1>1, <1>3, <2>1, <2>2 DEF Entered
<1>. QED
  BY <1>4, <1>5, <1>6, <1>7, <1>8, <1>9

LEMMA NextMoved == PInv /\ [Next]_vars => Moved'
<1>. SUFFICES ASSUME PInv, [Next]_vars PROVE Moved'
  OBVIOUS
<1>. USE DEF Goto, pei, ppis, dxes
<1>. DEFINE d == IF Fixup(CoreFile) = NULL THEN 0 ELSE Fixup(CoreFile)
<1>1. IInv /\ Exact /\ Moved /\ StateTypes /\ Order /\ WalkTypes /\ BootWalk
  BY DEF PInv, IInv, WInv
<1>2. /\ CoreFile' = CoreFile /\ PeimFile' = PeimFile /\ Fixup(PeimFile)' = Fixup(PeimFile)
      /\ Fixup(CoreFile)' = Fixup(CoreFile)
  BY ImageStays, FlashStays
<1>3. CASE FixupServices
  <2>1. /\ pc = "peiFixup" /\ op = "done" /\ pc' = "initPeims" /\ UNCHANGED <<ppiMoved, db>>
        /\ services' = MoveServices(IF result = NULL THEN 0 ELSE result)
    BY <1>3 DEF FixupServices, Answered
  <2>2. result = Fixup(CoreFile) /\ result \in Nat \cup {NULL}
    BY <1>1, <2>1, Answers DEF WalkTypes
  <2>3. services' = MoveServices(d) /\ d \in Nat
    BY <2>1, <2>2
  <2>4. \A s \in Services : services[s] = 0
    BY <1>1, <2>1 DEF Moved, Unmoved
  <2>5. \A s \in Services : services'[s] = d
    <3>. HIDE DEF d
    <3>. QED
      BY <2>3, <2>4 DEF MoveServices
  <2>. QED
    BY <1>1, <1>2, <2>1, <2>5 DEF Moved, Unmoved
<1>4. CASE PeiInstallPpi
  <2>1. /\ pc = "install" /\ op = "done" /\ pc' = "dispatch" /\ UNCHANGED services
        /\ db = <<>> /\ ppiMoved = 0 /\ result = Fixup(PeimFile)
    BY <1>1, <1>4, Answers DEF PeiInstallPpi, Answered, Order, Early, BootWaits, Moved
  <2>2. CASE status = "EFI_SUCCESS"
    <3>1. db' = db \o mDxeIplPpiList /\ ppiMoved' = ppiMoved + result
      BY <1>4, <2>2 DEF PeiInstallPpi, Registry!Install
    <3>2. result \in Nat /\ result # NULL
      BY <1>1, <2>1, <2>2 DEF BootWalk, BootWaits, WalkTypes
    <3>3. db' # <<>>
      <4>1. db \in Seq({DxeIplPpi}) /\ mDxeIplPpiList \in Seq({DxeIplPpi}) /\ Len(mDxeIplPpiList) = 1
        BY <1>1 DEF StateTypes, mDxeIplPpiList
      <4>2. Len(db') = Len(db) + Len(mDxeIplPpiList) /\ Len(db) \in Nat
        <5>1. \A a, b \in Seq({DxeIplPpi}) : Len(a \o b) = Len(a) + Len(b) /\ Len(a) \in Nat
          OBVIOUS
        <5>. QED
          BY <3>1, <4>1, <5>1
      <4>3. Len(db') # 0
        BY <4>1, <4>2
      <4>. QED
        BY <4>3
    <3>4. ppiMoved' = Fixup(PeimFile) /\ Fixup(PeimFile) # NULL
      BY <2>1, <3>1, <3>2
    <3>. QED
      BY <1>1, <1>2, <2>1, <3>3, <3>4 DEF Moved, Unmoved
  <2>3. CASE status # "EFI_SUCCESS"
    <3>1. UNCHANGED <<db, ppiMoved>>
      BY <1>4, <2>3 DEF PeiInstallPpi
    <3>. QED
      BY <1>1, <1>2, <2>1, <3>1 DEF Moved, Unmoved
  <2>. QED
    BY <2>2, <2>3
<1>5. CASE ~(FixupServices \/ PeiInstallPpi)
  <2>1. UNCHANGED <<services, ppiMoved, db>>
    BY <1>5 DEF Next, Sec, Pei, Dxe, SecSearch, SecFails, EnterPei, CalcPeiFixup, AprioriSearch,
                AprioriFound, PeimSearch, NoPeim, CallPeimInit, DxeIplInit, DispatchPeims, FindDxeCore,
                FoundDxeCore, GetFileInfo, DxeIplFails, LoadAndRunDxeCore, PeiLoadFile, PeiLoadPe32,
                LoadAndRunReturns, GoAstray, WalkStep, vars, Registry!Run
  <2>2. pc' \in Unmoved <=> pc \in Unmoved
    BY <1>5 DEF Next, Sec, Pei, Dxe, SecSearch, SecFails, EnterPei, CalcPeiFixup, AprioriSearch,
                AprioriFound, PeimSearch, NoPeim, CallPeimInit, DxeIplInit, DispatchPeims, FindDxeCore,
                FoundDxeCore, GetFileInfo, DxeIplFails, LoadAndRunDxeCore, PeiLoadFile, PeiLoadPe32,
                LoadAndRunReturns, GoAstray, WalkStep, vars, Calls, Answered, Unmoved
  <2>. QED
    BY <1>1, <1>2, <2>1, <2>2 DEF Moved
<1>. QED
  BY <1>3, <1>4, <1>5

(* All services are moved by the same distance, so that one is reached if and
   only if all are; and the PPI that is installed is run right if and only if
   the distance it was moved by is that of its PEIM.                      *)
LEMMA ReachesOrNot ==
  ASSUME PInv, core # NULL, pc \notin Unmoved, NEW s \in Services
  PROVE  Reaches(s) <=> Plan[image].calls
<1>1. core = CoreFile /\ core = Plan[image].core /\ image \in Images
  BY DEF PInv, Entered, IInv, WInv, WalkTypes
<1>2. services[s] = Distance(Fixup(core))
  BY <1>1 DEF PInv, Moved, Distance
<1>. QED
  BY <1>1, <1>2, PlanIs DEF Reaches

LEMMA EntryOrNot ==
  ASSUME PInv, db # <<>>
  PROVE  Plan[image].fixup # NULL /\ (EntryReached <=> Plan[image].entry)
<1>1. peim # NULL /\ peim = Plan[image].peim /\ image \in Images
  BY DEF PInv, Entered, IInv, WInv, WalkTypes, Order
<1>2. ppiMoved = Fixup(PeimFile) /\ Fixup(PeimFile) # NULL
  BY DEF PInv, Moved
<1>. QED
  BY <1>1, <1>2, PlanIs DEF EntryReached

LEMMA ToRunIs == PInv => (ToRun => db # <<>>)
  BY DEF PInv, IInv, StateTypes, ToRun

LEMMA NextLinked == PInv /\ [Next]_vars => Linked'
<1>. SUFFICES ASSUME PInv, [Next]_vars PROVE Linked'
  OBVIOUS
<1>. USE DEF Goto, pei, ppis, dxes
<1>1. Linked /\ Order /\ Plan[image]' = Plan[image]
  BY ImageStays, FlashStays DEF PInv, IInv
<1>2. CASE DxeIplInit
  <2>1. pc = "dxeIplInit" /\ pc' = "install" /\ db' = db /\ Reaches("InstallPpi")
    BY <1>2 DEF DxeIplInit
  <2>2. Plan[image].calls
    BY <1>1, <2>1, ReachesOrNot DEF Order, Unmoved, Services
  <2>. QED
    BY <1>1, <2>1, <2>2 DEF Linked, Ipl, DxeWaits
<1>3. CASE PeiInstallPpi
  <2>1. pc = "install" /\ pc' = "dispatch"
    BY <1>3 DEF PeiInstallPpi, Answered
  <2>. QED
    BY <1>1, <2>1 DEF Linked, Ipl, DxeWaits
<1>4. CASE DispatchPeims
  <2>1. db' = db /\ (pc' = "deadLoop" \/ (pc' = "dxeIpl" /\ ToRun))
    BY <1>4 DEF DispatchPeims, Registry!Run
  <2>. QED
    BY <1>1, <2>1, ToRunIs DEF Linked, Ipl, DxeWaits
<1>5. CASE ~(DxeIplInit \/ PeiInstallPpi \/ DispatchPeims)
  <2>1. db' = db
    BY <1>5 DEF Next, Sec, Pei, Dxe, SecSearch, SecFails, EnterPei, CalcPeiFixup, FixupServices,
                AprioriSearch, AprioriFound, PeimSearch, NoPeim, CallPeimInit, FindDxeCore,
                FoundDxeCore, GetFileInfo, DxeIplFails, LoadAndRunDxeCore, PeiLoadFile, PeiLoadPe32,
                LoadAndRunReturns, GoAstray, WalkStep, vars
  <2>2. /\ pc' = "install" => pc = "install"
        /\ pc' \in Ipl \cup {"loaded", "hung"} => pc \in Ipl \cup {"loaded", "hung"}
    BY <1>5 DEF Next, Sec, Pei, Dxe, SecSearch, SecFails, EnterPei, CalcPeiFixup, FixupServices,
                AprioriSearch, AprioriFound, PeimSearch, NoPeim, CallPeimInit, FindDxeCore,
                FoundDxeCore, GetFileInfo, DxeIplFails, LoadAndRunDxeCore, PeiLoadFile, PeiLoadPe32,
                LoadAndRunReturns, GoAstray, WalkStep, vars, Answered, Ipl, DxeWaits
  <2>. QED
    BY <1>1, <2>1, <2>2 DEF Linked
<1>. QED
  BY <1>2, <1>3, <1>4, <1>5

LEMMA NextPInv == PInv /\ [Next]_vars => PInv'
BY NextIInv, NextExact, NextEntered, NextMoved, NextLinked DEF PInv

----------------------------------------------------------------------------
(* The stages *)

StageFacts ==
  /\ pc \in {"sec", "secSearch"} => Stage = "sec"
  /\ pc \in {"pei", "peiFixup", "initPeims", "apriori", "peim", "peimSearch"} => Stage = "pei"
  /\ pc \in {"dxeIplInit", "install"} => Stage = "peim"
  /\ pc = "dispatch" => Stage = IF Len(ran) < Len(db) THEN "peim" ELSE "over"
  /\ pc \in {"dxeIpl", "findCore", "fileInfo", "gotInfo", "loadFile", "findPe32"} => Stage = "ipl"
  /\ pc = "loaded" => Stage = "dxe"
  /\ pc = "deadLoop" => Stage = "over"
  /\ pc \in {"sleep", "hung", "astray"} => Stage = pc

LEMMA StagesAre == StageFacts
BY DEF StageFacts, Stage, ToRun

LEMMA StagesAreNext == StageFacts'
BY DEF StageFacts, Stage, ToRun

(* The steps within a stage. *)
Within ==
  \/ SecSearch \/ CalcPeiFixup \/ FixupServices \/ AprioriSearch \/ AprioriFound \/ PeimSearch
  \/ DxeIplInit \/ FindDxeCore \/ FoundDxeCore \/ GetFileInfo \/ LoadAndRunDxeCore \/ PeiLoadFile

LEMMA WithinStays == Within => Stage' = Stage /\ Module' = Module
<1>. SUFFICES ASSUME Within PROVE Stage' = Stage /\ Module' = Module
  OBVIOUS
<1>1. UNCHANGED <<core, peim, loaded>>
  BY DEF Within, SecSearch, CalcPeiFixup, FixupServices, AprioriSearch, AprioriFound, PeimSearch,
         DxeIplInit, FindDxeCore, FoundDxeCore, GetFileInfo, LoadAndRunDxeCore, PeiLoadFile, pei, dxes
<1>2. \/ pc = "sec" /\ pc' = "secSearch"
      \/ /\ pc \in {"pei", "peiFixup", "initPeims", "apriori", "peim"}
         /\ pc' \in {"peiFixup", "initPeims", "apriori", "peim", "peimSearch"}
      \/ pc = "dxeIplInit" /\ pc' = "install"
      \/ /\ pc \in {"dxeIpl", "findCore", "fileInfo", "gotInfo", "loadFile"}
         /\ pc' \in {"findCore", "fileInfo", "gotInfo", "loadFile", "findPe32"}
  BY DEF Within, SecSearch, CalcPeiFixup, FixupServices, AprioriSearch, AprioriFound, PeimSearch,
         DxeIplInit, FindDxeCore, FoundDxeCore, GetFileInfo, LoadAndRunDxeCore, PeiLoadFile,
         Answered, Goto
<1>. QED
  BY <1>1, <1>2, StagesAre, StagesAreNext DEF StageFacts, Module

LEMMA StepRefines == PInv /\ [Next]_vars => [Stages!Next]_(Stages!vars)
<1>. SUFFICES ASSUME PInv, [Next]_vars
              PROVE  Stages!Next \/ Stages!vars' = Stages!vars
  OBVIOUS
<1>. USE DEF Goto, pei, ppis, dxes
<1>1. /\ Exact /\ Entered /\ IInv /\ Order /\ StateTypes /\ image \in Images
      /\ Plan[image]' = Plan[image] /\ StageFacts /\ StageFacts'
  BY ImageStays, FlashStays, StagesAre, StagesAreNext DEF PInv, IInv, WInv, WalkTypes
<1>2. ASSUME Stage' = Stage, Module' = Module PROVE Stages!vars' = Stages!vars
  BY <1>1, <1>2 DEF Stages!vars
<1>3. CASE Within
  BY <1>2, <1>3, WithinStays
<1>4. CASE WalkStep \/ UNCHANGED vars
  <2>1. UNCHANGED <<pc, ran, db, core, peim, loaded>>
    BY <1>4 DEF WalkStep, vars
  <2>. QED
    BY <1>2, <2>1 DEF Stage, ToRun, Module
<1>5. CASE SecFails
  <2>1. /\ pc \in {"sec", "secSearch"} /\ pc' = "sleep" /\ UNCHANGED <<core, peim, loaded>>
        /\ \/ pc = "sec" /\ ~ValidBootFv
           \/ pc = "secSearch" /\ op = "done" /\ result = NULL
    BY <1>5 DEF SecFails, Answered
  <2>2. Plan[image].core = NULL
    BY <1>1, <2>1, Answers, PlanIs DEF ValidBootFv, HeaderRight
  <2>3. Stages!Sleep
    BY <1>1, <2>1, <2>2 DEF Stages!Sleep, Stages!Stop, Stages!Move, StageFacts, Module
  <2>. QED
    BY <2>3 DEF Stages!Next
<1>6. CASE EnterPei
  <2>1. /\ pc = "secSearch" /\ op = "done" /\ result # NULL /\ pc' = "pei" /\ core' = file
        /\ UNCHANGED <<peim, loaded>>
    BY <1>6 DEF EnterPei, Answered
  <2>2. peim = NULL /\ loaded = NULL
    BY <1>1, <2>1 DEF Entered, NoPeimYet, Unmoved, Order, Early, BootWaits
  <2>3. file # NULL /\ file = Plan[image].core
    <3>1. file = CoreFile /\ SectionNamed(image, CoreFile, "TE") # NULL /\ HeaderRight(image)
      BY <1>1, <2>1, Answers DEF Order
    <3>. QED
      BY <1>1, <3>1, PlanIs DEF SectionNamed
  <2>4. Stages!EnterPei
    BY <1>1, <2>1, <2>2, <2>3 DEF Stages!EnterPei, Stages!Enter, Stages!Move, StageFacts, Module
  <2>. QED
    BY <2>4 DEF Stages!Next
<1>7. CASE NoPeim
  <2>1. /\ pc \in {"apriori", "peimSearch"} /\ op = "done" /\ result = NULL /\ pc' = "dispatch"
        /\ UNCHANGED <<core, peim, loaded, db, ran>>
    BY <1>7 DEF NoPeim, Answered
  <2>2. Plan[image].peim = NULL
    BY <1>1, <2>1, Answers, PlanIs
  <2>3. db' = <<>> /\ ran' = <<>>
    BY <1>1, <2>1 DEF Order, Early, BootWaits
  <2>4. Stages!NoPeim
    BY <1>1, <2>1, <2>2, <2>3 DEF Stages!NoPeim, Stages!Stop, Stages!Move, StageFacts, Module
  <2>. QED
    BY <2>4 DEF Stages!Next
<1>8. CASE CallPeimInit
  <2>1. /\ pc = "peimSearch" /\ op = "done" /\ result # NULL /\ pc' = "dxeIplInit" /\ peim' = file
        /\ UNCHANGED <<core, loaded>>
    BY <1>8 DEF CallPeimInit, Answered
  <2>2. loaded = NULL
    BY <1>1, <2>1 DEF Order, Early, BootWaits
  <2>3. file # NULL /\ file = Plan[image].peim
    <3>1. /\ file = NamedFile /\ SectionNamed(image, NamedFile, "TE") # NULL
          /\ SectionNamed(image, AprioriAt, "RAW") # NULL
      BY <1>1, <2>1, Answers DEF Entered
    <3>. QED
      BY <1>1, <3>1, PlanIs DEF SectionNamed
  <2>4. Stages!EnterPeim
    BY <1>1, <2>1, <2>2, <2>3 DEF Stages!EnterPeim, Stages!Enter, Stages!Move, StageFacts, Module
  <2>. QED
    BY <2>4 DEF Stages!Next
<1>9. CASE PeiInstallPpi
  <2>1. /\ pc = "install" /\ op = "done" /\ pc' = "dispatch" /\ UNCHANGED <<core, peim, loaded>>
        /\ \/ status = "EFI_SUCCESS"
           \/ status # "EFI_SUCCESS" /\ UNCHANGED <<db, ran>>
    BY <1>9 DEF PeiInstallPpi, Answered
  <2>2. Stage = "peim" /\ Stage' \in {"peim", "over"} /\ Module' = Module
    BY <1>1, <2>1 DEF StageFacts, Module
  <2>3. CASE Stage' = "peim"
    BY <1>2, <2>2, <2>3
  <2>4. CASE Stage' = "over"
    <3>1. Plan[image].calls
      BY <2>1 DEF PInv, Linked
    <3>2. Plan[image].fixup = NULL
      <4>1. status # "EFI_SUCCESS"
        <5>1. SUFFICES ASSUME status = "EFI_SUCCESS" PROVE FALSE
          OBVIOUS
        <5>2. db' = db \o mDxeIplPpiList /\ ran' = ran
          BY <1>9, <5>1 DEF PeiInstallPpi, Registry!Install
        <5>3. db = <<>> /\ ran = <<>>
          BY <1>1, <2>1 DEF Order, Early, BootWaits
        <5>4. Len(ran') < Len(db')
          BY <5>2, <5>3 DEF mDxeIplPpiList
        <5>. QED
          BY <1>1, <2>1, <2>4, <5>4 DEF StageFacts
      <4>2. result = NULL
        BY <1>1, <2>1, <4>1 DEF IInv, WInv, BootWalk, BootWaits
      <4>. QED
        BY <1>1, <2>1, <4>2, Answers, PlanIs
    <3>3. Stages!NotInstalled
      BY <1>1, <2>2, <2>4, <3>1, <3>2 DEF Stages!NotInstalled, Stages!Stop, Stages!Move
    <3>. QED
      BY <3>3 DEF Stages!Next
  <2>. QED
    BY <2>2, <2>3, <2>4
<1>10. CASE DispatchPeims
  <2>1. pc = "dispatch" /\ UNCHANGED <<core, peim, loaded>>
    BY <1>10 DEF DispatchPeims
  <2>2. CASE ToRun /\ EntryReached /\ pc' = "dxeIpl"
    <3>1. Plan[image].calls /\ Plan[image].fixup # NULL /\ Plan[image].entry
      BY <2>2, ToRunIs, EntryOrNot DEF PInv, Linked
    <3>2. Stages!RunIpl
      BY <1>1, <2>1, <2>2, <3>1
      DEF Stages!RunIpl, Stages!Installs, Stages!Stop, Stages!Move, StageFacts, Module, ToRun
    <3>. QED
      BY <3>2 DEF Stages!Next
  <2>3. CASE ~ToRun /\ pc' = "deadLoop"
    <3>1. Stage = "over" /\ Stage' = "over" /\ Module' = Module
      BY <1>1, <2>1, <2>3 DEF StageFacts, Module, ToRun
    <3>. QED
      BY <1>2, <3>1
  <2>. QED
    BY <1>10, <2>2, <2>3 DEF DispatchPeims
<1>11. CASE DxeIplFails \/ LoadAndRunReturns
  <2>1. /\ pc \in {"findCore", "gotInfo", "loaded"} /\ pc' = "dispatch"
        /\ UNCHANGED <<core, peim, loaded, db, ran>>
    BY <1>11 DEF DxeIplFails, LoadAndRunReturns, Answered
  <2>2. ~(Len(ran') < Len(db'))
    <3>1. CASE pc = "loaded"
      <4>1. loaded # NULL
        BY <1>1, <3>1 DEF Entered
      <4>. QED
        BY <1>1, <2>1, <4>1 DEF Order, StateTypes
    <3>2. CASE pc # "loaded"
      BY <1>1, <2>1, <3>2 DEF Order, Ipl, DxeWaits, StateTypes
    <3>. QED
      BY <3>1, <3>2
  <2>3. Stages!RefuseDxe \/ Stages!DxeReturns
    BY <1>1, <2>1, <2>2
    DEF Stages!RefuseDxe, Stages!DxeReturns, Stages!Stop, Stages!Move, StageFacts, Module
  <2>. QED
    BY <2>3 DEF Stages!Next
<1>12. CASE PeiLoadPe32
  <2>1. /\ pc = "findPe32" /\ op = "done" /\ UNCHANGED <<core, peim, dxe>>
        /\ \/ Pe32Loads /\ loaded' = result /\ pc' = "loaded"
           \/ ~Pe32Loads /\ UNCHANGED loaded /\ pc' = "hung"
    BY <1>12 DEF PeiLoadPe32, Answered
  <2>2. /\ result = SectionNamed(image, DxeFile, "PE32")
        /\ Plan[image].pe32 = IF PeRight(image) THEN result ELSE NULL
    BY <1>1, <2>1, Answers, PlanIs DEF Entered
  <2>3. CASE Pe32Loads
    <3>1. loaded' # NULL /\ loaded' = Plan[image].pe32
      BY <2>1, <2>2, <2>3 DEF Pe32Loads, PeRight
    <3>2. Stages!EnterDxe
      BY <1>1, <2>1, <2>3, <3>1 DEF Stages!EnterDxe, Stages!Enter, Stages!Move, StageFacts, Module
    <3>. QED
      BY <3>2 DEF Stages!Next
  <2>4. CASE ~Pe32Loads
    <3>1. Plan[image].pe32 = NULL /\ Plan[image].dxe # NULL
      <4>1. dxe = DxeFile /\ dxe # NULL
        BY <1>1, <2>1, DxePlaces DEF Entered, IInv, WInv, DxeWalk, DxeCoreFile
      <4>. QED
        BY <1>1, <2>2, <2>4, <4>1, PlanIs DEF Pe32Loads, PeRight
    <3>2. Stages!Hang
      BY <1>1, <2>1, <2>4, <3>1 DEF Stages!Hang, Stages!Stop, Stages!Move, StageFacts, Module
    <3>. QED
      BY <3>2 DEF Stages!Next
  <2>. QED
    BY <2>3, <2>4
<1>13. CASE GoAstray
  <2>1. /\ pc' = "astray" /\ UNCHANGED <<core, peim, loaded>>
        /\ (\E s \in Calls(pc) : ~Reaches(s)) \/ (pc = "dispatch" /\ ToRun /\ ~EntryReached)
    BY <1>13 DEF GoAstray
  <2>2. CASE \E s \in Calls(pc) : ~Reaches(s)
    <3>1. PICK s \in Calls(pc) : ~Reaches(s)
      BY <2>2
    <3>2. s \in Services /\ pc \in {"dxeIplInit", "dxeIpl", "fileInfo", "loadFile"}
      BY <3>1 DEF Calls, Services
    <3>3. ~Plan[image].calls
      <4>1. core # NULL /\ pc \notin Unmoved
        BY <1>1, <3>2 DEF Order, Unmoved
      <4>. QED
        BY <3>1, <3>2, <4>1, ReachesOrNot
    <3>4. pc = "dxeIplInit"
      BY <3>2, <3>3 DEF PInv, Linked, Ipl
    <3>. QED
      BY <1>1, <2>1, <3>3, <3>4
      DEF Stages!GoAstray, Stages!Next, Stages!Stop, Stages!Move, StageFacts, Module
  <2>3. CASE pc = "dispatch" /\ ToRun /\ ~EntryReached
    <3>1. Plan[image].calls /\ Plan[image].fixup # NULL /\ ~Plan[image].entry
      BY <2>3, ToRunIs, EntryOrNot DEF PInv, Linked
    <3>. QED
      BY <1>1, <2>1, <2>3, <3>1
      DEF Stages!GoAstray, Stages!Installs, Stages!Next, Stages!Stop, Stages!Move, StageFacts, Module, ToRun
  <2>. QED
    BY <2>1, <2>2, <2>3
<1>. QED
  BY <1>3, <1>4, <1>5, <1>6, <1>7, <1>8, <1>9, <1>10, <1>11, <1>12, <1>13
  DEF Next, Sec, Pei, Dxe, Within

(* A plan names addresses, or NULL. *)
LEMMA FilesAligned ==
  ASSUME NEW img, NEW first \in Nat, first % 8 = 0, NEW eov \in Nat,
         \A a \in first..eov - 1 : a % 8 = 0 => FileAt(img, a).size \in Nat
  PROVE  \A f \in FilesFrom(img, first, eov) : f \in Nat /\ f % 8 = 0 /\ f < eov
<1>. DEFINE from == FileChain(img, first, eov)
            next(a) == Bv!AlignUp(a + FileAt(img, a).size, 8)
            Aligned == {a \in first..eov - 1 : a % 8 = 0}
            Bad == {k \in Nat : eov - k \in Aligned /\ ~(from[eov - k] \subseteq Aligned)}
<1>1. ASSUME NEW a \in Aligned
      PROVE  from[a] = {a} \cup (IF next(a) \in a + 1..eov - 1 THEN from[next(a)] ELSE {})
  <2>1. first < eov /\ a \in first..eov - 1
    OBVIOUS
  <2>. QED
    BY <2>1, FilesUnfold
<1>2. ASSUME NEW a \in Aligned, next(a) \in a + 1..eov - 1
      PROVE  next(a) \in Aligned
  <2>1. a + FileAt(img, a).size \in Nat
    OBVIOUS
  <2>2. next(a) % 8 = 0
    BY <2>1, AlignUpTo8
  <2>. QED
    BY <1>2, <2>2
<1>3. Bad = {}
  <2>1. SUFFICES ASSUME Bad # {} PROVE FALSE
    OBVIOUS
  <2>2. Bad \subseteq Nat
    OBVIOUS
  <2>3. PICK k \in Bad : \A m \in Bad : k <= m
    <3>. HIDE DEF Bad
    <3>. QED
      BY <2>1, <2>2, LeastNumber
  <2>. DEFINE b == eov - k
  <2>4. k \in Nat /\ b \in Aligned /\ ~(from[b] \subseteq Aligned)
    BY <2>3
  <2>5. ASSUME next(b) \in b + 1..eov - 1 PROVE from[next(b)] \subseteq Aligned
    <3>. DEFINE c == next(b)
    <3>1. c \in Aligned
      <4>. HIDE DEF b, next, Aligned
      <4>. QED
        BY <1>2, <2>4, <2>5
    <3>. HIDE DEF c
    <3>2. c \in b + 1..eov - 1
      BY <2>5 DEF c
    <3>3. eov - c \in Nat /\ eov - c < k /\ eov - (eov - c) = c
      BY <2>4, <3>2
    <3>4. eov - c \notin Bad
      <4>. HIDE DEF Bad
      <4>. QED
        BY <2>3, <2>4, <3>3
    <3>5. from[c] \subseteq Aligned
      <4>. HIDE DEF Aligned, from
      <4>. QED
        BY <3>1, <3>3, <3>4
    <3>. QED
      BY <3>5 DEF c
  <2>6. from[b] \subseteq Aligned
    <3>. HIDE DEF b, next, Aligned, from
    <3>. QED
      BY <1>1, <2>4, <2>5
  <2>. QED
    BY <2>4, <2>6
<1>4. CASE first < eov
  <2>1. eov - first \in Nat /\ eov - (eov - first) = first /\ first \in Aligned
    BY <1>4
  <2>2. from[first] \subseteq Aligned
    <3>. HIDE DEF Aligned, from
    <3>. QED
      BY <1>3, <2>1
  <2>. QED
    BY <1>4, <2>2 DEF FilesFrom
<1>5. CASE ~(first < eov)
  BY <1>5 DEF FilesFrom
<1>. QED
  BY <1>4, <1>5

LEMMA SectionIsNumber ==
  ASSUME NEW f, f = NULL \/ (f \in Nat /\ FileAt(image, f).size \in Nat), NEW type
  PROVE  SectionNamed(image, f, type) \in Nat \cup {NULL}
<1>1. CASE f = NULL
  BY <1>1 DEF SectionNamed
<1>2. CASE f # NULL
  <2>. DEFINE S == {a \in Bv!SectionsIn(image, f) : SectionAt(image, a).type = type}
  <2>1. S \subseteq Nat
    BY <1>2, SectionsAreNumbers
  <2>2. SectionNamed(image, f, type) = Earliest(S)
    BY <1>2 DEF SectionNamed
  <2>. HIDE DEF S
  <2>. QED
    BY <2>1, <2>2, EarliestIn
<1>. QED
  BY <1>1, <1>2

LEMMA PlanNames == image \in Images => Plan[image] \in Stages!Plans
<1>. SUFFICES ASSUME image \in Images PROVE Plan[image] \in Stages!Plans
  OBVIOUS
<1>1. /\ FilesFrom(image, Bv!First, Bv!Eov) \subseteq Nat
      /\ FilesFrom(image, Dv!First, Dv!Eov) \subseteq Nat
  BY FilesAreNumbers, BootPlaces, DxePlaces
<1>2. CoreFile \in Nat \cup {NULL}
  <2>. DEFINE S == {g \in FilesFrom(image, Bv!First, Bv!Eov) :
                     ~(g + FileAt(image, g).size <= Bv!Eov) \/ IsCore(image, g)}
  <2>1. Earliest(S) \in Nat \cup {NULL}
    BY <1>1, EarliestIn
  <2>2. CoreFile \in {Earliest(S), NULL}
    BY DEF CoreFile, FileNamed
  <2>. QED
    BY <2>1, <2>2
<1>3. NamedFile \in Nat \cup {NULL}
  <2>. DEFINE S == {g \in FilesFrom(image, Bv!First, Bv!Eov) :
                     ~(g + FileAt(image, g).size <= Bv!Eov) \/ IsNamed(image, g)}
  <2>1. Earliest(S) \in Nat \cup {NULL}
    BY <1>1, EarliestIn
  <2>2. NamedFile \in {Earliest(S), NULL}
    BY DEF NamedFile, FileNamed
  <2>. QED
    BY <2>1, <2>2
<1>4. DxeFile = NULL \/ DxeFile \in FilesFrom(image, Dv!First, Dv!Eov)
  <2>. DEFINE S == {g \in FilesFrom(image, Dv!First, Dv!Eov) :
                     ~(g + FileAt(image, g).size <= Dv!Eov) \/ IsDxeCore(image, g)}
  <2>1. Earliest(S) = NULL \/ Earliest(S) \in S
    BY <1>1, EarliestIn
  <2>2. DxeFile \in {Earliest(S), NULL}
    BY DEF DxeFile, FileNamed
  <2>. QED
    BY <2>1, <2>2
<1>5. SectionNamed(image, DxeFile, "PE32") \in Nat \cup {NULL}
  <2>1. DxeFile # NULL => DxeFile \in Dv!Slots
    <3>1. \A a \in Dv!First..Dv!Eov - 1 : a % 8 = 0 => FileAt(image, a).size \in Nat
      BY DxePlaces
    <3>. QED
      BY <1>4, <3>1, FilesAligned, DxePlaces
  <2>. QED
    BY <2>1, SectionIsNumber, DxePlaces
<1>6. Fixup(PeimFile) \in Nat \cup {NULL}
  <2>1. PeimFile # NULL => PeimFile \in Bv!Slots
    <3>. DEFINE S == {g \in FilesFrom(image, Bv!First, Bv!Eov) :
                       ~(g + FileAt(image, g).size <= Bv!Eov) \/ IsPeim(image, g)}
    <3>1. Earliest(S) = NULL \/ Earliest(S) \in S
      BY <1>1, EarliestIn
    <3>2. PeimFile \in {Earliest(S), NULL}
      BY DEF PeimFile, FileNamed
    <3>3. \A a \in Bv!First..Bv!Eov - 1 : a % 8 = 0 => FileAt(image, a).size \in Nat
      BY BootPlaces
    <3>. QED
      BY <3>1, <3>2, <3>3, FilesAligned, BootPlaces
  <2>. QED
    BY <2>1, SectionIsNumber, BootPlaces DEF Fixup
<1>7. DxeFile \in Nat \cup {NULL}
  BY <1>1, <1>4
<1>8. /\ Plan[image].core \in Nat \cup {NULL} /\ Plan[image].peim \in Nat \cup {NULL}
      /\ Plan[image].fixup \in Nat \cup {NULL} /\ Plan[image].dxe \in Nat \cup {NULL}
      /\ Plan[image].pe32 \in Nat \cup {NULL}
      /\ Plan[image].calls \in BOOLEAN /\ Plan[image].entry \in BOOLEAN
  BY <1>2, <1>3, <1>5, <1>6, <1>7, PlanIs
<1>9. Plan[image] = [core |-> Plan[image].core, calls |-> Plan[image].calls, peim |-> Plan[image].peim,
                     fixup |-> Plan[image].fixup, entry |-> Plan[image].entry, dxe |-> Plan[image].dxe,
                     pe32 |-> Plan[image].pe32]
  BY DEF Plan
<1>. QED
  BY <1>8, <1>9 DEF Stages!Plans, Stages!Code

LEMMA InitRefines == Init => Stages!Init
<1>. SUFFICES ASSUME Init PROVE Stages!Init
  OBVIOUS
<1>1. image \in Images /\ pc = "sec" /\ core = NULL /\ peim = NULL /\ loaded = NULL
  BY DEF Init, Bv!Init
<1>. QED
  BY <1>1, PlanNames, StagesAre DEF Stages!Init, StageFacts, Module

LEMMA PlanInvariance == Spec => []PInv
BY InitPInv, NextPInv, PTL DEF Spec

(* The boot chain implements BootStages, whatever the flash holds: the code
   that is entered in each stage is the one that the flash names for it, the
   boot stops in a stage only if the flash names none for the next, and it
   gives up or goes astray only where BootStages lets it.                  *)
THEOREM StagesImplemented == Spec => ImplementsStages
BY InitRefines, StepRefines, PlanInvariance, PTL DEF Spec, ImplementsStages, Stages!Spec

----------------------------------------------------------------------------
(* Calls go astray only in images that are not linked as the code takes it to
   be: a file that has a fixup section executes as far from its link-time
   address as the section's address says.                                   *)
SoundLink ==
  \A img \in Images, f \in Nat :
    SectionNamed(img, f, "SUBTYPE_GUID") # NULL
      => Displacement(img, f) = SectionNamed(img, f, "SUBTYPE_GUID")

LEMMA HasFixupIs ==
  ASSUME image \in Images, NEW f \in Bv!Slots
  PROVE  HasFixup(f) => Fixup(f) # NULL
<1>. DEFINE S == {a \in Bv!SectionsIn(image, f) : SectionAt(image, a).type = "SUBTYPE_GUID"}
<1>1. f \in Nat /\ f # NULL /\ FileAt(image, f).size \in Nat
  BY BootPlaces
<1>2. S \subseteq Nat
  BY <1>1, SectionsAreNumbers
<1>3. Fixup(f) = Earliest(S)
  BY <1>1 DEF Fixup, SectionNamed
<1>4. HasFixup(f) => S # {}
  BY DEF HasFixup, Bv!SectionsOf
<1>. HIDE DEF S
<1>. QED
  BY <1>2, <1>3, <1>4, EarliestIn

LEMMA NextAstray == SoundLink /\ PInv /\ NeverAstray /\ [Next]_vars => NeverAstray'
<1>. SUFFICES ASSUME SoundLink, PInv, NeverAstray, [Next]_vars, pc' = "astray"
              PROVE  ~HasFixup(core)' \/ peim' # PeimFile'
  BY DEF NeverAstray, PeimFile
<1>. USE DEF Goto, pei, ppis, dxes
<1>1. /\ IInv /\ StateTypes /\ Order /\ Entered /\ Moved /\ image \in Images
      /\ image' = image /\ PeimFile' = PeimFile
  BY ImageStays, FlashStays DEF PInv, IInv, WInv, WalkTypes
<1>2. CASE GoAstray
  <2>1. UNCHANGED <<core, peim>>
    BY <1>2 DEF GoAstray
  <2>2. HasFixup(core)' = HasFixup(core)
    BY <1>1, <2>1 DEF HasFixup, Bv!SectionsOf
  <2>3. CASE \E s \in Calls(pc) : ~Reaches(s)
    <3>1. PICK s \in Calls(pc) : services[s] # Displacement(image, core)
      BY <2>3 DEF Reaches
    <3>2. s \in Services /\ pc \in {"dxeIplInit", "dxeIpl", "fileInfo", "loadFile"}
      BY <3>1 DEF Calls, Services
    <3>3. core = CoreFile /\ core \in Bv!Slots
      BY <1>1, <3>2 DEF Order, Entered, StateTypes
    <3>4. ASSUME HasFixup(core) PROVE FALSE
      <4>1. Fixup(core) # NULL
        BY <1>1, <3>3, <3>4, HasFixupIs
      <4>2. services[s] = Fixup(core)
        BY <1>1, <3>2, <3>3, <4>1 DEF Moved, Unmoved
      <4>3. Displacement(image, core) = Fixup(core)
        BY <1>1, <3>3, <4>1, BootPlaces DEF SoundLink, Fixup
      <4>. QED
        BY <3>1, <4>2, <4>3
    <3>. QED
      BY <2>2, <3>4
  <2>4. CASE pc = "dispatch" /\ ToRun /\ ~EntryReached
    <3>1. db # <<>>
      BY <1>1, <2>4 DEF ToRun, StateTypes
    <3>2. ppiMoved = Fixup(PeimFile) /\ Fixup(PeimFile) # NULL /\ peim \in Bv!Slots
      BY <1>1, <3>1 DEF Moved, Order, StateTypes
    <3>3. ASSUME peim = PeimFile PROVE FALSE
      <4>1. Displacement(image, peim) = Fixup(PeimFile)
        BY <1>1, <3>2, <3>3, BootPlaces DEF SoundLink, Fixup
      <4>. QED
        BY <2>4, <3>2, <4>1 DEF EntryReached
    <3>. QED
      BY <1>1, <2>1, <3>3
  <2>. QED
    BY <1>2, <2>3, <2>4 DEF GoAstray
<1>3. CASE ~GoAstray
  <2>1. pc = "astray" /\ UNCHANGED <<core, peim>>
    BY <1>3 DEF Next, Sec, Pei, Dxe, SecSearch, SecFails, EnterPei, CalcPeiFixup, FixupServices,
                AprioriSearch, AprioriFound, PeimSearch, NoPeim, CallPeimInit, DxeIplInit, PeiInstallPpi,
                DispatchPeims, FindDxeCore, FoundDxeCore, GetFileInfo, DxeIplFails, LoadAndRunDxeCore,
                PeiLoadFile, PeiLoadPe32, LoadAndRunReturns, WalkStep, vars
  <2>2. HasFixup(core)' = HasFixup(core)
    BY <1>1, <2>1 DEF HasFixup, Bv!SectionsOf
  <2>. QED
    BY <1>1, <2>1, <2>2 DEF NeverAstray, PeimFile
<1>. QED
  BY <1>2, <1>3

(* In an image that is linked soundly no call goes astray, but for a PEI core
   without a fixup section, whose absence CalcPeiFixup does not notice, and a
   PEIM that is not the first of the volume, whose fixup CalcPeimFixup does
   not look for.                                                            *)
THEOREM AstrayOnlyThere ==
  ASSUME SoundLink
  PROVE  Spec => []NeverAstray
<1>1. Init => NeverAstray
  BY DEF Init, NeverAstray
<1>2. PInv /\ NeverAstray /\ [Next]_vars => NeverAstray'
  BY NextAstray
<1>. QED
  BY <1>1, <1>2, PlanInvariance, PTL DEF Spec

----------------------------------------------------------------------------
(* StopExplained.  Where a boot left the stages, BootStages says why; why the
   dispatcher has nothing left to run is known as soon as it has not, and
   until then the DXE IPL has not looked for anything.                      *)
NotLooked == Early \cup {"dxeIpl", "findCore"}
Cause ==
  /\ pc \in NotLooked \/ (pc = "dispatch" /\ ToRun) => dxe = NULL
  /\ pc = "gotInfo" /\ result = NULL => status = "EFI_UNSUPPORTED"
  /\ pc = "dispatch" /\ ~ToRun => EndExplained
  /\ StopExplained

LEMMA InitCause == Init => Cause
  BY DEF Init, Cause, StopExplained

(* The ways out of the stages. *)
LEMMA StopsAreStages ==
  ASSUME PInv, [Next]_vars, pc \notin {"sleep", "hung", "astray"}
  PROVE  LET p == Plan[image] IN
         /\ pc' = "sleep"  => p.core = NULL
         /\ pc' = "astray" => ~p.calls \/ (p.fixup # NULL /\ ~p.entry)
         /\ pc' = "hung"   => p.dxe # NULL /\ p.pe32 = NULL
<1>1. StageFacts /\ StageFacts'
  BY StagesAre, StagesAreNext
<1>2. pc \in Places
  BY DEF PInv, IInv, Order
<1>3. Stage \notin {"sleep", "hung", "astray"}
  BY <1>1, <1>2 DEF StageFacts, Places, Early, BootWaits, Ipl, DxeWaits
<1>4. CASE pc' \in {"sleep", "hung", "astray"}
  <2>1. Stage' = pc' /\ Stage' # Stage
    BY <1>1, <1>3, <1>4 DEF StageFacts
  <2>2. Stages!Next
    BY <2>1, StepRefines DEF Stages!vars
  <2>. QED
    BY <2>1, <2>2
    DEF Stages!Next, Stages!EnterPei, Stages!Sleep, Stages!EnterPeim, Stages!NoPeim,
        Stages!NotInstalled, Stages!RunIpl, Stages!GoAstray, Stages!RefuseDxe, Stages!EnterDxe,
        Stages!Hang, Stages!DxeReturns, Stages!Enter, Stages!Stop, Stages!Move, Stages!Installs
<1>. QED
  BY <1>4

LEMMA NextCause == PInv /\ Cause /\ [Next]_vars => Cause'
<1>. SUFFICES ASSUME PInv, Cause, [Next]_vars PROVE Cause'
  OBVIOUS
<1>. USE DEF Goto, pei, ppis, dxes
<1>1. /\ Exact /\ Entered /\ Linked /\ IInv /\ Order /\ StateTypes /\ WalkTypes /\ image \in Images
      /\ Plan[image]' = Plan[image] /\ StopExplained
  BY ImageStays, FlashStays DEF PInv, IInv, WInv, WalkTypes, Cause
<1>2. ASSUME pc' = "sleep" \/ pc' = "astray" \/ pc' = "hung", pc \notin {"sleep", "hung", "astray"}
      PROVE  Cause'
  <2>1. StopExplained'
    BY <1>1, <1>2, StopsAreStages DEF StopExplained
  <2>2. pc' = "sleep" => dxe' = NULL
    <3>. SUFFICES ASSUME pc' = "sleep" PROVE dxe' = NULL
      OBVIOUS
    <3>1. pc \in {"sec", "secSearch"} /\ dxe' = dxe
      BY <1>2 DEF Next, Sec, Pei, Dxe, SecSearch, SecFails, EnterPei, CalcPeiFixup, FixupServices,
                  AprioriSearch, AprioriFound, PeimSearch, NoPeim, CallPeimInit, DxeIplInit,
                  PeiInstallPpi, DispatchPeims, FindDxeCore, FoundDxeCore, GetFileInfo, DxeIplFails,
                  LoadAndRunDxeCore, PeiLoadFile, PeiLoadPe32, LoadAndRunReturns, GoAstray, WalkStep,
                  vars, Answered
    <3>. QED
      BY <3>1 DEF Cause, NotLooked, Early, BootWaits
  <2>. QED
    BY <1>2, <2>1, <2>2 DEF Cause, NotLooked, Early, BootWaits
<1>3. ASSUME pc' \notin {"sleep", "astray", "hung", "deadLoop", "gotInfo", "dispatch"},
             pc' \in NotLooked => dxe' = NULL
      PROVE  Cause'
  BY <1>3 DEF Cause, StopExplained
<1>4. ASSUME pc' = "dispatch", ToRun' => dxe' = NULL, ~ToRun' => EndExplained'
      PROVE  Cause'
  BY <1>4 DEF Cause, StopExplained, NotLooked, Early, BootWaits
<1>5. CASE SecFails \/ GoAstray
  <2>1. pc \notin {"sleep", "hung", "astray"}
    BY <1>5 DEF SecFails, GoAstray, Answered, Calls
  <2>. QED
    BY <1>2, <1>5, <2>1 DEF SecFails, GoAstray
<1>6. CASE SecSearch \/ EnterPei \/ CalcPeiFixup \/ FixupServices \/ AprioriSearch \/ AprioriFound
           \/ PeimSearch \/ CallPeimInit \/ DxeIplInit \/ FindDxeCore
  <2>1. /\ dxe' = dxe /\ pc \in NotLooked
        /\ pc' \notin {"sleep", "astray", "hung", "deadLoop", "gotInfo", "dispatch"}
    BY <1>6 DEF SecSearch, EnterPei, CalcPeiFixup, FixupServices, AprioriSearch, AprioriFound,
                PeimSearch, CallPeimInit, DxeIplInit, FindDxeCore, Answered, NotLooked, Early, BootWaits
  <2>. QED
    BY <1>3, <2>1 DEF Cause
<1>7. CASE FoundDxeCore \/ LoadAndRunDxeCore \/ PeiLoadFile
  <2>1. pc' \in {"fileInfo", "loadFile", "findPe32"}
    BY <1>7 DEF FoundDxeCore, LoadAndRunDxeCore, PeiLoadFile
  <2>. QED
    BY <1>3, <2>1 DEF NotLooked, Early, BootWaits
<1>8. CASE GetFileInfo
  <2>1. pc' = "gotInfo" /\ (result' = NULL => status' = "EFI_UNSUPPORTED")
    <3>1. dxe \in Nat
      BY <1>1, <1>8, DxePlaces DEF GetFileInfo, IInv, WInv, DxeWalk, DxeCoreFile
    <3>2. Dv!BufferStart(dxe) # NULL
      BY <3>1, NullAssumption DEF Dv!BufferStart, Dv!FileHeaderSize
    <3>. QED
      BY <1>8, <3>2 DEF GetFileInfo, Dv!GetFileInfo
  <2>. QED
    BY <2>1 DEF Cause, StopExplained, NotLooked, Early, BootWaits
<1>9. CASE NoPeim
  <2>1. /\ pc \in {"apriori", "peimSearch"} /\ op = "done" /\ result = NULL /\ pc' = "dispatch"
        /\ UNCHANGED <<peim, db, ran, dxe>>
    BY <1>9 DEF NoPeim, Answered
  <2>2. Plan[image].peim = NULL /\ peim = NULL /\ dxe = NULL
    BY <1>1, <2>1, Answers, PlanIs
    DEF Entered, NoPeimYet, Cause, NotLooked, Early, BootWaits
  <2>. QED
    BY <1>1, <1>4, <2>1, <2>2 DEF EndExplained
<1>10. CASE PeiInstallPpi
  <2>1. /\ pc = "install" /\ op = "done" /\ pc' = "dispatch" /\ UNCHANGED <<peim, dxe>>
        /\ (status = "EFI_SUCCESS" /\ db' = db \o mDxeIplPpiList /\ ran' = ran)
           \/ (status # "EFI_SUCCESS" /\ UNCHANGED <<db, ran>>)
    BY <1>10 DEF PeiInstallPpi, Answered, Registry!Install
  <2>2. dxe = NULL /\ db = <<>> /\ peim = Plan[image].peim
    BY <1>1, <2>1 DEF Cause, NotLooked, Early, BootWaits, Order, Entered
  <2>3. CASE status = "EFI_SUCCESS"
    <3>1. db = <<>> /\ ran = <<>>
      BY <1>1, <2>1 DEF Order, Early, BootWaits
    <3>2. ToRun'
      BY <2>1, <2>3, <3>1 DEF mDxeIplPpiList, ToRun
    <3>. QED
      BY <1>4, <2>1, <2>2, <3>2
  <2>4. CASE status # "EFI_SUCCESS"
    <3>1. result = NULL
      BY <1>1, <2>1, <2>4 DEF IInv, WInv, BootWalk, BootWaits
    <3>2. Plan[image].fixup = NULL
      BY <1>1, <2>1, <3>1, Answers, PlanIs
    <3>. QED
      BY <1>1, <1>4, <2>1, <2>2, <2>4, <3>2 DEF EndExplained
  <2>. QED
    BY <2>3, <2>4
<1>11. CASE DispatchPeims
  <2>1. pc = "dispatch" /\ UNCHANGED <<walk, peim, db, dxe, loaded>>
    BY <1>11 DEF DispatchPeims, Registry!Run
  <2>2. CASE ToRun /\ pc' = "dxeIpl"
    BY <1>3, <2>1, <2>2 DEF Cause
  <2>3. CASE ~ToRun /\ pc' = "deadLoop"
    <3>1. EndExplained'
      BY <1>1, <2>1, <2>3 DEF Cause, EndExplained, walk
    <3>. QED
      BY <2>3, <3>1 DEF Cause, StopExplained, NotLooked, Early, BootWaits
  <2>. QED
    BY <1>11, <2>2, <2>3 DEF DispatchPeims
<1>12. CASE DxeIplFails
  <2>1. /\ pc \in {"findCore", "gotInfo"} /\ op = "done" /\ result = NULL /\ pc' = "dispatch"
        /\ UNCHANGED <<status, peim, db, ran, dxe, loaded>>
    BY <1>12 DEF DxeIplFails, Answered, Bv!Return
  <2>2. db # <<>> /\ loaded = NULL /\ ~ToRun'
    BY <1>1, <2>1 DEF Linked, Order, Ipl, DxeWaits, ToRun, StateTypes
  <2>3. CASE pc = "findCore"
    <3>1. Plan[image].dxe = NULL /\ dxe = NULL
      BY <1>1, <2>1, <2>3, Answers, PlanIs DEF Cause, NotLooked
    <3>. QED
      BY <1>1, <1>4, <2>1, <2>2, <3>1 DEF EndExplained
  <2>4. CASE pc = "gotInfo"
    <3>1. dxe = Plan[image].dxe /\ status = "EFI_UNSUPPORTED"
      BY <1>1, <2>1, <2>4, PlanIs DEF Cause, Entered
    <3>. QED
      BY <1>1, <1>4, <2>1, <2>2, <3>1 DEF EndExplained
  <2>. QED
    BY <2>1, <2>3, <2>4
<1>13. CASE PeiLoadPe32
  <2>1. pc = "findPe32" /\ pc' \in {"loaded", "hung"}
    BY <1>13 DEF PeiLoadPe32, Answered
  <2>2. CASE pc' = "hung"
    BY <1>2, <2>1, <2>2
  <2>3. CASE pc' = "loaded"
    BY <1>3, <2>3 DEF NotLooked, Early, BootWaits
  <2>. QED
    BY <2>1, <2>2, <2>3
<1>14. CASE LoadAndRunReturns
  <2>1. pc = "loaded" /\ pc' = "dispatch" /\ UNCHANGED <<db, ran, loaded>>
    BY <1>14 DEF LoadAndRunReturns
  <2>2. loaded # NULL /\ loaded = Plan[image].pe32
    BY <1>1, <2>1 DEF Entered
  <2>3. ~ToRun'
    BY <1>1, <2>1, <2>2 DEF Order, StateTypes, ToRun
  <2>. QED
    BY <1>1, <1>4, <2>1, <2>2, <2>3 DEF EndExplained
<1>15. CASE WalkStep
  <2>1. UNCHANGED <<pc, peim, db, ran, dxe, loaded>>
    BY <1>15 DEF WalkStep
  <2>2. op # "idle" /\ op # "done"
    BY <1>15 DEF WalkStep, Bv!Step, Bv!FileCorrupted, Bv!FileFound, Bv!FileSkip, Bv!FileNone,
         Bv!SectionCorrupted, Bv!SectionFound, Bv!SectionSkip, Bv!SectionNone, Bv!InVolume, Bv!InFile,
         Dv!Step, Dv!FileCorrupted, Dv!FileFound, Dv!FileSkip, Dv!FileNone,
         Dv!SectionCorrupted, Dv!SectionFound, Dv!SectionSkip, Dv!SectionNone, Dv!InVolume, Dv!InFile
  <2>3. pc \in Waits /\ pc # "gotInfo"
    BY <1>1, <2>2 DEF WalkTypes, IInv, WInv, DxeWalk
  <2>. QED
    BY <1>3, <2>1, <2>3 DEF Cause, Waits, BootWaits, DxeWaits
<1>16. CASE UNCHANGED vars
  BY <1>1, <1>16 DEF Cause, vars, walk, ToRun, StopExplained, EndExplained
<1>. QED
  BY <1>5, <1>6, <1>7, <1>8, <1>9, <1>10, <1>11, <1>12, <1>13, <1>14, <1>15, <1>16
  DEF Next, Sec, Pei, Dxe

LEMMA CauseInvariance == Spec => []Cause
BY InitPInv, NextPInv, InitCause, NextCause, PTL DEF Spec

(* Whatever the flash holds, where the boot stops says what is wrong with it. *)
THEOREM StopsExplained == Spec => []StopExplained
<1>1. Cause => StopExplained
  BY DEF Cause
<1>. QED
  BY <1>1, CauseInvariance, PTL

(* An image in which every stage's code is there, and linked as the code of
   the stages before it takes it to be.                                     *)
Whole ==
  LET p == Plan[image] IN
  /\ p.core # NULL /\ p.calls
  /\ p.peim # NULL /\ p.fixup # NULL /\ p.entry
  /\ p.dxe # NULL /\ p.pe32 # NULL

(* A whole image neither sleeps, hangs nor goes astray, and when the
   dispatcher is done the DXE core has been loaded, unless PeiFfsGetFileInfo
   refused its file.                                                        *)
THEOREM WholeImageBoots ==
  Spec => [](Whole => /\ pc \notin {"sleep", "hung", "astray"}
                      /\ pc = "deadLoop" => loaded = Plan[image].pe32 \/ status = "EFI_UNSUPPORTED")
<1>1. PInv /\ Cause =>
        (Whole => /\ pc \notin {"sleep", "hung", "astray"}
                  /\ pc = "deadLoop" => loaded = Plan[image].pe32 \/ status = "EFI_UNSUPPORTED")
  <2>. SUFFICES ASSUME PInv, Cause, Whole
                PROVE  /\ pc \notin {"sleep", "hung", "astray"}
                       /\ pc = "deadLoop" => loaded = Plan[image].pe32 \/ status = "EFI_UNSUPPORTED"
    OBVIOUS
  <2>1. peim # NULL => peim = Plan[image].peim
    BY DEF PInv, Entered
  <2>. QED
    BY <2>1 DEF Cause, StopExplained, EndExplained, Whole
<1>. QED
  BY <1>1, PlanInvariance, CauseInvariance, PTL

----------------------------------------------------------------------------
(* BootAdvances: the walks, and then the chain *)

LEMMA BootWalkMoves ==
  ASSUME IInv, Bv!Step, pc \in BootWaits
  PROVE  /\ op \in {"files", "sections"}
         /\ op' = "done" \/ addr < addr' \/ (addr' = addr /\ UNCHANGED walk)
         /\ op' = "done" \/ addr < Bv!Eov
<1>1. WalkTypes /\ BootWalk /\ image \in Images /\ addr \in Nat /\ eof \in Nat
  BY DEF IInv, WInv, WalkTypes
<1>2. CASE Bv!FileCorrupted \/ Bv!FileNone \/ Bv!SectionCorrupted \/ Bv!SectionFound \/ Bv!SectionNone
  BY <1>2 DEF Bv!FileCorrupted, Bv!FileNone, Bv!SectionCorrupted, Bv!SectionFound, Bv!SectionNone,
              Bv!Finish, Bv!InVolume, Bv!InFile
<1>3. CASE Bv!FileFound
  <2>1. op = "files" /\ addr < Bv!Eov /\ addr' = Bv!AlignUp(addr + Bv!FileHeaderSize, 4)
    BY <1>1, <1>3 DEF Bv!FileFound, Bv!InVolume, Bv!EnterFile, BootWalk
  <2>2. addr + 24 \in Nat /\ Bv!FileHeaderSize = 24
    BY <1>1 DEF Bv!FileHeaderSize
  <2>3. addr + 24 <= addr'
    BY <2>1, <2>2, AlignUpTo4
  <2>4. addr' \in Nat
    BY <2>1, <2>2, AlignUpTo4
  <2>. QED
    BY <1>1, <2>1, <2>3, <2>4
<1>4. CASE Bv!FileSkip
  <2>1. /\ op = "files" /\ addr < Bv!Eov /\ addr' = Bv!AlignUp(addr + FileAt(image, addr).size, 8)
        /\ UNCHANGED <<image, op, req, file, eof, status, result, handles>>
    BY <1>4 DEF Bv!FileSkip, Bv!InVolume, Bv!FileEnd, Bv!File
  <2>2. addr % 8 = 0
    BY <1>1, <2>1 DEF BootWalk
  <2>3. FileAt(image, addr).size \in Nat
    BY <1>1, <2>1, <2>2, BootPlaces
  <2>4. addr' \in Nat /\ addr <= addr'
    BY <1>1, <2>1, <2>3 DEF Bv!AlignUp
  <2>5. CASE addr' = addr
    BY <2>1, <2>5 DEF walk
  <2>6. CASE addr' # addr
    BY <1>1, <2>1, <2>4, <2>6
  <2>. QED
    BY <2>5, <2>6
<1>5. CASE Bv!SectionSkip
  <2>1. /\ op = "sections" /\ addr < eof /\ ~(SectionAt(image, addr).size < 4)
        /\ addr' = addr + SectionAt(image, addr).size
    BY <1>5 DEF Bv!SectionSkip, Bv!InFile, Bv!SectionBad, Bv!Section, Bv!SectionHeaderSize
  <2>2. InBootFile(file) /\ eof = file + FileAt(image, file).size
    BY <1>1, <2>1 DEF BootWalk
  <2>3. addr < Bv!Eov
    BY <1>1, <2>1, <2>2, BootPlaces DEF InBootFile, Bv!Fits
  <2>4. SectionAt(image, addr).size \in Nat
    BY <1>1, <2>3, SectionSizes
  <2>. QED
    BY <1>1, <2>1, <2>3, <2>4
<1>. QED
  BY <1>2, <1>3, <1>4, <1>5 DEF Bv!Step

LEMMA DxeWalkMoves ==
  ASSUME IInv, Dv!Step, pc \in {"findCore", "findPe32"}
  PROVE  /\ op \in {"files", "sections"}
         /\ op' = "done" \/ addr < addr' \/ (addr' = addr /\ UNCHANGED walk)
         /\ op' = "done" \/ addr < Dv!Eov
<1>1. WalkTypes /\ DxeWalk /\ image \in Images /\ addr \in Nat /\ eof \in Nat
  BY DEF IInv, WInv, WalkTypes
<1>2. CASE Dv!FileCorrupted \/ Dv!FileNone \/ Dv!SectionCorrupted \/ Dv!SectionFound \/ Dv!SectionNone
  BY <1>2 DEF Dv!FileCorrupted, Dv!FileNone, Dv!SectionCorrupted, Dv!SectionFound, Dv!SectionNone,
              Dv!Finish, Dv!InVolume, Dv!InFile
<1>3. CASE Dv!FileFound
  <2>1. op = "files" /\ pc = "findCore" /\ req.section = NULL
    BY <1>1, <1>3 DEF Dv!FileFound, Dv!InVolume, DxeWalk
  <2>. QED
    BY <1>3, <2>1 DEF Dv!FileFound, Dv!Finish
<1>4. CASE Dv!FileSkip
  <2>1. /\ op = "files" /\ addr < Dv!Eov /\ addr' = Dv!AlignUp(addr + FileAt(image, addr).size, 8)
        /\ UNCHANGED <<image, op, req, file, eof, status, result, handles>>
    BY <1>4 DEF Dv!FileSkip, Dv!InVolume, Dv!FileEnd, Dv!File
  <2>2. addr % 8 = 0
    BY <1>1, <2>1 DEF DxeWalk
  <2>3. FileAt(image, addr).size \in Nat
    BY <1>1, <2>1, <2>2, DxePlaces
  <2>4. addr' \in Nat /\ addr <= addr'
    BY <1>1, <2>1, <2>3 DEF Dv!AlignUp
  <2>5. CASE addr' = addr
    BY <2>1, <2>5 DEF walk
  <2>6. CASE addr' # addr
    BY <1>1, <2>1, <2>4, <2>6
  <2>. QED
    BY <2>5, <2>6
<1>5. CASE Dv!SectionSkip
  <2>1. /\ op = "sections" /\ addr < eof /\ ~(SectionAt(image, addr).size < 4)
        /\ addr' = addr + SectionAt(image, addr).size
    BY <1>5 DEF Dv!SectionSkip, Dv!InFile, Dv!SectionBad, Dv!Section, Dv!SectionHeaderSize
  <2>2. DxeCoreFile(dxe) /\ eof = dxe + FileAt(image, dxe).size
    BY <1>1, <2>1 DEF DxeWalk
  <2>3. addr < Dv!Eov
    BY <1>1, <2>1, <2>2, DxePlaces DEF DxeCoreFile, Dv!Fits
  <2>4. SectionAt(image, addr).size \in Nat
    BY <1>1, <2>3, SectionSizes
  <2>. QED
    BY <1>1, <2>1, <2>3, <2>4
<1>. QED
  BY <1>2, <1>3, <1>4, <1>5 DEF Dv!Step

LeftFacts ==
  /\ pc = "sec" => PlacesLeft = 20
  /\ pc = "secSearch" => PlacesLeft = 19
  /\ pc = "pei" => PlacesLeft = 18
  /\ pc = "peiFixup" => PlacesLeft = 17
  /\ pc = "initPeims" => PlacesLeft = 16
  /\ pc = "apriori" => PlacesLeft = 15
  /\ pc = "peim" => PlacesLeft = 14
  /\ pc = "peimSearch" => PlacesLeft = 13
  /\ pc = "dxeIplInit" => PlacesLeft = 12
  /\ pc = "install" => PlacesLeft = 11
  /\ pc = "dispatch" => PlacesLeft = IF Len(ran) < Len(db) THEN 10 ELSE 1
  /\ pc = "dxeIpl" => PlacesLeft = 9
  /\ pc = "findCore" => PlacesLeft = 8
  /\ pc = "fileInfo" => PlacesLeft = 7
  /\ pc = "gotInfo" => PlacesLeft = 6
  /\ pc = "loadFile" => PlacesLeft = 5
  /\ pc = "findPe32" => PlacesLeft = 4
  /\ pc = "loaded" => PlacesLeft = 3
  /\ pc \in {"sleep", "deadLoop", "hung", "astray"} => PlacesLeft = 0

LEMMA LeftAre == LeftFacts
BY DEF LeftFacts, PlacesLeft, ToRun

LEMMA LeftAreNext == LeftFacts'
BY DEF LeftFacts, PlacesLeft, ToRun

LEMMA StepNearer ==
  ASSUME PInv, [Next]_vars, ~WalkStep, ~UNCHANGED vars
  PROVE  PlacesLeft' < PlacesLeft
<1>. USE DEF Goto, pei, ppis, dxes
<1>1. LeftFacts /\ LeftFacts' /\ Order /\ StateTypes
  BY LeftAre, LeftAreNext DEF PInv, IInv
<1>2. CASE SecSearch \/ SecFails \/ EnterPei \/ CalcPeiFixup \/ FixupServices
           \/ AprioriSearch \/ AprioriFound \/ PeimSearch \/ CallPeimInit \/ DxeIplInit
  <2>1. \/ pc = "sec" /\ pc' \in {"secSearch", "sleep"}
        \/ pc = "secSearch" /\ pc' \in {"pei", "sleep"}
        \/ pc = "pei" /\ pc' = "peiFixup"
        \/ pc = "peiFixup" /\ pc' = "initPeims"
        \/ pc = "initPeims" /\ pc' = "apriori"
        \/ pc = "apriori" /\ pc' = "peim"
        \/ pc = "peim" /\ pc' = "peimSearch"
        \/ pc = "peimSearch" /\ pc' = "dxeIplInit"
        \/ pc = "dxeIplInit" /\ pc' = "install"
    BY <1>2 DEF SecSearch, SecFails, EnterPei, CalcPeiFixup, FixupServices, AprioriSearch,
                AprioriFound, PeimSearch, CallPeimInit, DxeIplInit, Answered
  <2>. QED
    BY <1>1, <2>1 DEF LeftFacts
<1>3. CASE NoPeim \/ PeiInstallPpi
  <2>1. pc \in {"apriori", "peimSearch", "install"} /\ pc' = "dispatch"
    BY <1>3 DEF NoPeim, PeiInstallPpi, Answered
  <2>2. PlacesLeft' <= 10 /\ PlacesLeft' \in Nat
    BY <1>1, <2>1 DEF LeftFacts
  <2>. QED
    BY <1>1, <2>1, <2>2 DEF LeftFacts
<1>4. CASE DispatchPeims
  <2>1. pc = "dispatch" /\ ((ToRun /\ pc' = "dxeIpl") \/ (~ToRun /\ pc' = "deadLoop"))
    BY <1>4 DEF DispatchPeims
  <2>. QED
    BY <1>1, <2>1 DEF LeftFacts, ToRun
<1>5. CASE FindDxeCore \/ FoundDxeCore \/ GetFileInfo \/ LoadAndRunDxeCore \/ PeiLoadFile \/ PeiLoadPe32
  <2>1. \/ pc = "dxeIpl" /\ pc' = "findCore"
        \/ pc = "findCore" /\ pc' = "fileInfo"
        \/ pc = "fileInfo" /\ pc' = "gotInfo"
        \/ pc = "gotInfo" /\ pc' = "loadFile"
        \/ pc = "loadFile" /\ pc' = "findPe32"
        \/ pc = "findPe32" /\ pc' \in {"loaded", "hung"}
    BY <1>5 DEF FindDxeCore, FoundDxeCore, GetFileInfo, LoadAndRunDxeCore, PeiLoadFile, PeiLoadPe32,
                Answered
  <2>. QED
    BY <1>1, <2>1 DEF LeftFacts
<1>6. CASE DxeIplFails \/ LoadAndRunReturns
  <2>1. /\ pc \in {"findCore", "gotInfo", "loaded"} /\ pc' = "dispatch"
        /\ UNCHANGED <<db, ran>>
    BY <1>6 DEF DxeIplFails, LoadAndRunReturns, Answered
  <2>2. pc = "loaded" => loaded # NULL
    BY DEF PInv, Entered
  <2>3. ~(Len(ran') < Len(db'))
    BY <1>1, <2>1, <2>2 DEF Order, Ipl, DxeWaits, StateTypes
  <2>. QED
    BY <1>1, <2>1, <2>3 DEF LeftFacts
<1>7. CASE GoAstray
  <2>1. /\ pc' = "astray"
        /\ pc \in {"dxeIplInit", "dxeIpl", "fileInfo", "loadFile"} \/ (pc = "dispatch" /\ ToRun)
    BY <1>7 DEF GoAstray, Calls
  <2>. QED
    BY <1>1, <2>1 DEF LeftFacts, ToRun
<1>. QED
  BY <1>2, <1>3, <1>4, <1>5, <1>6, <1>7 DEF Next, Sec, Pei, Dxe

LEMMA WalkStepMoves ==
  ASSUME PInv, WalkStep, ~UNCHANGED vars
  PROVE  /\ pc' = pc
         /\ op \in {"files", "sections"}
         /\ op' = "done" \/ (addr < WalkEov /\ addr < addr')
<1>1. IInv /\ WalkTypes /\ pc' = pc /\ UNCHANGED <<pei, ppis, dxes>>
  BY DEF PInv, IInv, WInv, WalkStep
<1>2. ~UNCHANGED walk
  BY <1>1 DEF vars
<1>3. CASE pc \in {"findCore", "findPe32"}
  BY <1>1, <1>2, <1>3, DxeWalkMoves DEF WalkStep, WalkEov
<1>4. CASE pc \notin {"findCore", "findPe32"}
  <2>1. Bv!Step
    BY <1>4 DEF WalkStep
  <2>2. op \in {"files", "sections"}
    BY <2>1 DEF Bv!Step, Bv!FileCorrupted, Bv!FileFound, Bv!FileSkip, Bv!FileNone,
         Bv!SectionCorrupted, Bv!SectionFound, Bv!SectionSkip, Bv!SectionNone, Bv!InVolume, Bv!InFile
  <2>3. pc \in BootWaits
    <3>1. pc \in Waits
      BY <1>1, <2>2 DEF WalkTypes
    <3>2. pc # "gotInfo"
      BY <2>2 DEF PInv, IInv, WInv, DxeWalk
    <3>. QED
      BY <1>4, <3>1, <3>2 DEF Waits, DxeWaits
  <2>. QED
    BY <1>1, <1>2, <1>4, <2>1, <2>3, BootWalkMoves DEF WalkEov
<1>. QED
  BY <1>3, <1>4

(* Whatever the flash holds, a boot takes one of at most twenty steps of the
   chain, or a step of a walk that ends it or moves on in its volume: it can
   go on for ever only by staying at an empty file.                         *)
THEOREM BootsMoveOn == Spec => BootAdvances
<1>1. PInv /\ [Next]_vars =>
        [\/ PlacesLeft' < PlacesLeft
         \/ /\ pc' = pc
            /\ op \in {"files", "sections"}
            /\ op' = "done" \/ (addr < WalkEov /\ addr < addr')]_vars
  BY StepNearer, WalkStepMoves
<1>. QED
  BY <1>1, PlanInvariance, PTL DEF Spec, BootAdvances
=============================================================================
