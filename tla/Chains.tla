------------------------------- MODULE Chains -------------------------------
(***************************************************************************)
(* Sets that are collected along a chain of addresses, each of which leads *)
(* to a higher one: the form in which FfsWalk and Boot say which files and *)
(* sections a volume has.  The lemmas are about functions, not operators,  *)
(* so that no proof has to instantiate an operator.                        *)
(***************************************************************************)
EXTENDS Integers, WellFoundedInduction, TLAPS

(* What is collected from a on: what a has, and what the one after it leads
   to, if that lies further up.                                           *)
Collected(g, head, after, hi, a) ==
  head[a] \cup (IF after[a] \in a + 1..hi THEN g[after[a]] ELSE {})

Collects(g, head, after, lo, hi) ==
  g = [a \in lo..hi |-> Collected(g, head, after, hi, a)]

(* Every set of naturals has a least element. *)
LEMMA LeastNumber ==
  ASSUME NEW T, T \subseteq Nat, T # {}
  PROVE  \E n \in T : \A m \in T : n <= m
<1>. DEFINE R == {ss \in Nat \X Nat : ss[1] < ss[2]}
<1>1. IsWellFoundedOn(R, Nat)
  BY NatLessThanWellFounded DEF OpToRel
<1>2. PICK n \in T : \A m \in T : ~(<<m, n>> \in R)
  <2>. HIDE DEF R
  <2>. QED
    BY <1>1, WFMin
<1>3. \A m \in T : <<m, n>> \in Nat \X Nat
  OBVIOUS
<1>4. \A m \in T : ~(m < n)
  BY <1>2, <1>3
<1>5. \A m \in T : n <= m
  BY <1>4
<1>. QED
  BY <1>5

(* A function that collects along a chain exists, whatever it collects. *)
LEMMA ChainExists ==
  ASSUME NEW head, NEW after, NEW lo \in Nat, NEW hi \in Nat
  PROVE  \E g : Collects(g, head, after, lo, hi)
<1>. DEFINE Has(k) == \E g : Collects(g, head, after, hi + 1 - k, hi)
            Bad == {k \in Nat : ~Has(k)}
<1>1. 0 \notin Bad
  <2>1. Collects([a \in hi + 1..hi |-> {}], head, after, hi + 1, hi)
    BY DEF Collects
  <2>2. hi + 1 - 0 = hi + 1
    OBVIOUS
  <2>3. Has(0)
    BY <2>1, <2>2
  <2>. QED
    BY <2>3
<1>2. ASSUME NEW k \in Nat, Has(k) PROVE Has(k + 1)
  <2>. DEFINE b == hi + 1 - (k + 1)
  <2>1. PICK g : Collects(g, head, after, hi + 1 - k, hi)
    BY <1>2
  <2>2. hi + 1 - k = b + 1 /\ b \in Int
    OBVIOUS
  <2>. DEFINE h == [a \in b..hi |-> IF a = b THEN Collected(g, head, after, hi, b) ELSE g[a]]
  <2>. HIDE DEF b
  <2>3. g = [a \in b + 1..hi |-> Collected(g, head, after, hi, a)]
    BY <2>1, <2>2 DEF Collects
  <2>4. \A a \in b + 1..hi : h[a] = g[a] /\ g[a] = Collected(g, head, after, hi, a)
    <3>. TAKE a \in b + 1..hi
    <3>1. a \in b..hi /\ a # b
      BY <2>2
    <3>2. h[a] = g[a]
      BY <3>1
    <3>3. g[a] = Collected(g, head, after, hi, a)
      <4>. HIDE DEF h
      <4>. QED
        BY <2>3
    <3>. QED
      BY <3>2, <3>3
  <2>5. \A a \in b..hi : Collected(g, head, after, hi, a) = Collected(h, head, after, hi, a)
    <3>. TAKE a \in b..hi
    <3>1. ASSUME after[a] \in a + 1..hi PROVE h[after[a]] = g[after[a]]
      <4>1. after[a] \in b + 1..hi
        BY <3>1, <2>2
      <4>. QED
        BY <2>4, <4>1
    <3>. QED
      BY <3>1 DEF Collected
  <2>6. \A a \in b..hi : h[a] = Collected(h, head, after, hi, a)
    <3>. TAKE a \in b..hi
    <3>1. CASE a = b
      BY <2>5, <3>1
    <3>2. CASE a # b
      <4>1. a \in b + 1..hi
        BY <2>2, <3>2
      <4>. QED
        BY <2>4, <2>5, <4>1
    <3>. QED
      BY <3>1, <3>2
  <2>7. h = [a \in b..hi |-> h[a]]
    OBVIOUS
  <2>8. Collects(h, head, after, b, hi)
    <3>. HIDE DEF h
    <3>. QED
      BY <2>6, <2>7 DEF Collects
  <2>9. Has(k + 1)
    BY <2>8 DEF b
  <2>. QED
    BY <2>9
<1>3. Bad = {}
  <2>1. SUFFICES ASSUME Bad # {} PROVE FALSE
    OBVIOUS
  <2>2. Bad \subseteq Nat
    OBVIOUS
  <2>3. PICK k \in Bad : \A m \in Bad : k <= m
    <3>. HIDE DEF Bad
    <3>. QED
      BY <2>1, <2>2, LeastNumber
  <2>4. k \in Nat /\ k # 0
    BY <1>1, <2>2
  <2>5. k - 1 \in Nat /\ k - 1 \notin Bad
    <3>. HIDE DEF Bad
    <3>. QED
      BY <2>3, <2>4
  <2>6. Has(k - 1)
    BY <2>5
  <2>7. Has((k - 1) + 1)
    <3>. HIDE DEF Has
    <3>. QED
      BY <1>2, <2>5, <2>6
  <2>8. (k - 1) + 1 = k
    BY <2>4
  <2>9. Has(k)
    <3>. HIDE DEF Has
    <3>. QED
      BY <2>7, <2>8
  <2>. QED
    BY <2>3, <2>9
<1>4. CASE lo <= hi
  <2>1. hi + 1 - lo \in Nat /\ hi + 1 - (hi + 1 - lo) = lo
    BY <1>4
  <2>2. Has(hi + 1 - lo)
    BY <1>3, <2>1
  <2>. QED
    BY <2>1, <2>2
<1>5. CASE lo > hi
  <2>1. lo..hi = {}
    BY <1>5
  <2>2. Collects([a \in lo..hi |-> {}], head, after, lo, hi)
    BY <2>1 DEF Collects
  <2>. QED
    BY <2>2
<1>. QED
  BY <1>4, <1>5

(* If nothing collects more than itself, what is collected from b on lies
   there.                                                                 *)
LEMMA ChainAbove ==
  ASSUME NEW head, NEW after, NEW lo \in Nat, NEW hi \in Nat, NEW g,
         Collects(g, head, after, lo, hi),
         \A a \in lo..hi : head[a] \subseteq {a}
  PROVE  \A b \in lo..hi : g[b] \subseteq b..hi
<1>. DEFINE Bad == {k \in Nat : hi - k \in lo..hi /\ ~(g[hi - k] \subseteq hi - k..hi)}
<1>1. ASSUME Bad # {} PROVE FALSE
  <2>1. Bad \subseteq Nat
    OBVIOUS
  <2>2. PICK k \in Bad : \A m \in Bad : k <= m
    <3>. HIDE DEF Bad
    <3>. QED
      BY <1>1, <2>1, LeastNumber
  <2>. DEFINE b == hi - k
  <2>3. k \in Nat /\ b \in lo..hi /\ ~(g[b] \subseteq b..hi)
    BY <2>2
  <2>4. g[b] = head[b] \cup (IF after[b] \in b + 1..hi THEN g[after[b]] ELSE {})
    <3>. HIDE DEF b
    <3>. QED
      BY <2>3 DEF Collects, Collected
  <2>5. ASSUME after[b] \in b + 1..hi PROVE g[after[b]] \subseteq b..hi
    <3>1. hi - after[b] \in Nat /\ hi - after[b] < k /\ hi - (hi - after[b]) = after[b]
      BY <2>3, <2>5
    <3>2. hi - after[b] \notin Bad
      <4>. HIDE DEF Bad
      <4>. QED
        BY <2>2, <2>3, <3>1
    <3>3. after[b] \in lo..hi
      BY <2>3, <2>5
    <3>4. g[after[b]] \subseteq after[b]..hi
      BY <3>1, <3>2, <3>3
    <3>5. after[b]..hi \subseteq b..hi
      BY <2>3, <2>5
    <3>. QED
      BY <3>4, <3>5
  <2>6. head[b] \subseteq b..hi
    BY <2>3
  <2>7. g[b] \subseteq b..hi
    <3>. HIDE DEF b
    <3>. QED
      BY <2>4, <2>5, <2>6
  <2>. QED
    BY <2>3, <2>7
<1>2. ASSUME NEW b \in lo..hi PROVE g[b] \subseteq b..hi
  <2>1. hi - b \in Nat /\ hi - (hi - b) = b
    OBVIOUS
  <2>. QED
    BY <1>1, <2>1
<1>. QED
  BY <1>2
=============================================================================
