--------------------------- MODULE SpinLockProofs ---------------------------
(***************************************************************************)
(* Proofs about SpinLock for any number of processors and any counter of   *)
(* 64 bits.                                                                *)
(***************************************************************************)
EXTENDS SpinLock, SequenceTheorems, TLAPS

-----------------------------------------------------------------------------
(* The arithmetic of the counter *)

LEMMA CounterRange ==
  /\ Low \in Nat /\ High \in Nat /\ Span \in Nat /\ Span = High - Low
  /\ High < 2 * Half /\ Half \in Nat \ {0} /\ Limit <= Span /\ Limit < Half /\ Limit \in Nat
  /\ StartVal \in Low..High /\ EndVal \in Low..High
  BY CounterAssumption DEF Low, High, Span, Limit

(* The ticks from one value of the counter to another. *)
Distance(p, n) ==
  LET directed == IF StartVal > EndVal THEN p - n ELSE n - p
  IN  IF directed < 0 THEN directed + Span + 1 ELSE directed

LEMMA DistanceType ==
  /\ \A p, n \in Low..High : Distance(p, n) \in Nat
  /\ \A n \in Low..High : Distance(n, n) = 0
  BY CounterRange DEF Distance

(* What is added to the total is this distance, if the counter is short. *)
LEMMA ShortDelta ==
  ASSUME Short, NEW p \in Low..High, NEW n \in Low..High
  PROVE  Delta(p, n) = Distance(p, n)
<1>1. Signed(n - p) = n - p /\ Signed(-(n - p)) = p - n
  BY CounterRange DEF Signed, Short
<1>2. Cycle = Span + 1
  BY CounterRange, CounterAssumption DEF Cycle, Signed, Abs, Low, High, Short, Span
<1>3. \A x \in -Span..(-1) : Signed(x + Cycle) = x + Span + 1
  BY <1>2, CounterRange DEF Signed, Short
<1>. QED
  BY <1>1, <1>3, CounterRange DEF Delta, Distance

(* If it is full, the difference wraps around together with the counter, and
   the cycle, which the code takes to be 2, is not added.                 *)
LEMMA FullDelta ==
  ASSUME Full, NEW p \in Low..High, NEW n \in Low..High, Distance(p, n) < Half
  PROVE  Delta(p, n) = Distance(p, n)
<1>1. Low = 0 /\ High = 2 * Half - 1 /\ Span = 2 * Half - 1
  BY CounterRange DEF Full
<1>2. CASE StartVal > EndVal
  <2>1. Signed(-Signed(n - p)) = Distance(p, n)
    BY <1>1, <1>2, CounterRange DEF Signed, Distance
  <2>. QED
    BY <1>2, <2>1, DistanceType, CounterRange DEF Delta
<1>3. CASE ~(StartVal > EndVal)
  <2>1. Signed(n - p) = Distance(p, n)
    BY <1>1, <1>3, CounterRange DEF Signed, Distance
  <2>. QED
    BY <1>3, <2>1, DistanceType, CounterRange DEF Delta
<1>. QED
  BY <1>2, <1>3

(* The conditions are needed: of any longer counter that is not full, the tick
   on which it turns over is taken for more than one.                     *)
THEOREM TurnMiscounted ==
  ASSUME Half < Span, ~Full
  PROVE  Delta(EndVal, StartVal) > 1
<1>1. Span < 2 * Half - 1 /\ Half \in Nat /\ StartVal \in Nat /\ EndVal \in Nat
  BY CounterRange, CounterAssumption DEF Full
<1>2. CASE StartVal > EndVal
  <2>1. Span = StartVal - EndVal
    BY <1>1, <1>2 DEF Span, Low, High
  <2>2. Signed(StartVal - EndVal) = Span - 2 * Half
    BY <1>1, <2>1 DEF Signed
  <2>3. Signed(-(Span - 2 * Half)) = 2 * Half - Span
    BY <1>1, <2>1 DEF Signed
  <2>. QED
    BY <1>1, <1>2, <2>1, <2>2, <2>3 DEF Delta
<1>3. CASE ~(StartVal > EndVal)
  <2>1. Span = EndVal - StartVal
    BY <1>1, <1>3 DEF Span, Low, High
  <2>2. Signed(StartVal - EndVal) = 2 * Half - Span
    BY <1>1, <2>1 DEF Signed
  <2>. QED
    BY <1>1, <1>3, <2>1, <2>2 DEF Delta
<1>. QED
  BY <1>2, <1>3

NextCount(n) ==
  IF n = EndVal THEN StartVal ELSE IF StartVal <= EndVal THEN n + 1 ELSE n - 1

(* A tick adds one to the distance from an earlier value, or brings it back
   to 0 when a turn is complete.                                          *)
LEMMA DistanceOfTick ==
  ASSUME NEW p \in Low..High, NEW n \in Low..High
  PROVE  /\ NextCount(n) \in Low..High
         /\ Distance(p, NextCount(n)) <= Distance(p, n) + 1
         /\ Distance(p, n) < Span => Distance(p, NextCount(n)) = Distance(p, n) + 1
<1>1. NextCount(n) \in Low..High
  BY CounterRange, CounterAssumption DEF NextCount, Low, High
<1>2. CASE StartVal <= EndVal
  BY <1>1, <1>2, CounterRange, CounterAssumption DEF NextCount, Distance, Low, High
<1>3. CASE ~(StartVal <= EndVal)
  BY <1>1, <1>3, CounterRange, CounterAssumption DEF NextCount, Distance, Low, High
<1>. QED
  BY <1>1, <1>2, <1>3

\* What is known of the distance and the time w - s since the last sample
\* survives a tick, which adds one to both.
LEMMA TickCounts ==
  ASSUME NEW p \in Low..High, NEW n \in Low..High, NEW w \in Nat, NEW s \in Nat,
         Distance(p, n) <= w - s,
         w - s <= Span => Distance(p, n) = w - s
  PROVE  /\ Distance(p, NextCount(n)) <= w + 1 - s
         /\ w + 1 - s <= Span => Distance(p, NextCount(n)) = w + 1 - s
<1>1. /\ Distance(p, n) \in Nat
      /\ Distance(p, NextCount(n)) \in Nat
      /\ Distance(p, NextCount(n)) <= Distance(p, n) + 1
      /\ Distance(p, n) < Span => Distance(p, NextCount(n)) = Distance(p, n) + 1
  BY DistanceType, DistanceOfTick
<1>2. Span \in Nat
  BY CounterRange
<1>. QED
  BY <1>1, <1>2

-----------------------------------------------------------------------------
(* The inductive invariant.

   A processor that has released the lock, while memory does not know yet,
   stores nothing more until it does: the release is the last store in its
   buffer.  If stores keep their order, whoever has one on its way owns the
   lock.

   The distance of the counter from a processor's last sample is the time
   since then, or less, by whole turns.  What the processor has added up is
   not more than the time of that sample; and it is that time, as long as it
   has missed none.                                                       *)
ReleaseLast ==
  \A c \in Cpus :
    /\ \A i \in 1..Len(buffer[c]) : buffer[c][i] = "release" => i = Len(buffer[c])
    /\ pc[c] = "held" => ~Releasing(c)

StoresOwned == Ordered => \A c \in Cpus : buffer[c] # <<>> => c \in Owners

MemoryInv == ReleaseLast /\ StoresOwned /\ MutualExclusion

CountsTime(c) ==
  /\ Distance(current[c], counter) <= waited[c] - seen[c]
  /\ waited[c] - seen[c] <= Span => Distance(current[c], counter) = waited[c] - seen[c]
  /\ Short => total[c] <= seen[c]
  /\ (Short \/ Full) /\ ~missed[c] => total[c] = seen[c]

TimeInv ==
  /\ \A c \in Cpus : Waiting(c) => CountsTime(c)
  /\ TimeoutNeverEarly /\ TimeoutNotLate

IInv == TypeOK /\ MemoryInv /\ TimeInv

LEMMA TimeoutType == Timeout \in Nat
<1>1. Frequency * PcdSpinLockTimeout \in Nat
  BY TimeoutAssumption
<1>. QED
  BY <1>1 DEF Timeout

(* What is left of a buffer once its i-th store has reached memory. *)
LEMMA RemoveProperties ==
  ASSUME NEW S, NEW s \in Seq(S), NEW i \in 1..Len(s)
  PROVE  /\ RemoveAt(s, i) \in Seq(S)
         /\ Len(RemoveAt(s, i)) = Len(s) - 1
         /\ \A j \in 1..Len(s) - 1 :
              RemoveAt(s, i)[j] = IF j < i THEN s[j] ELSE s[j + 1]
<1>. DEFINE front == SubSeq(s, 1, i - 1)
            back  == SubSeq(s, i + 1, Len(s))
<1>1. /\ front \in Seq(S) /\ Len(front) = i - 1
      /\ \A j \in 1..i - 1 : front[j] = s[j]
  <2>1. \A j \in 1..i - 1 : s[j] \in S
    OBVIOUS
  <2>. QED
    BY <2>1, SubSeqProperties
<1>2. /\ back \in Seq(S) /\ Len(back) = Len(s) - i
      /\ \A j \in 1..Len(s) - i : back[j] = s[i + j]
  <2>1. \A j \in i + 1..Len(s) : s[j] \in S
    OBVIOUS
  <2>2. /\ back \in Seq(S) /\ Len(back) = IF i + 1 <= Len(s) THEN Len(s) - i ELSE 0
        /\ \A j \in 1..Len(s) - (i + 1) + 1 : back[j] = s[i + 1 + j - 1]
    BY <2>1, SubSeqProperties
  <2>. QED
    BY <2>2
<1>. HIDE DEF front, back
<1>3. /\ front \o back \in Seq(S) /\ Len(front \o back) = Len(s) - 1
      /\ \A j \in 1..Len(s) - 1 :
           (front \o back)[j] = IF j <= i - 1 THEN front[j] ELSE back[j - (i - 1)]
  BY <1>1, <1>2, ConcatProperties
<1>4. ASSUME NEW j \in 1..Len(s) - 1
      PROVE  (front \o back)[j] = IF j < i THEN s[j] ELSE s[j + 1]
  <2>1. CASE j < i
    <3>1. j \in 1..i - 1
      BY <2>1
    <3>. QED
      BY <1>1, <1>3, <2>1, <3>1
  <2>2. CASE ~(j < i)
    <3>1. j - (i - 1) \in 1..Len(s) - i /\ i + (j - (i - 1)) = j + 1 /\ ~(j <= i - 1)
      BY <2>2
    <3>2. (front \o back)[j] = back[j - (i - 1)]
      BY <1>3, <3>1
    <3>3. back[j - (i - 1)] = s[i + (j - (i - 1))]
      BY <1>2, <3>1
    <3>. QED
      BY <2>2, <3>1, <3>2, <3>3
  <2>. QED
    BY <2>1, <2>2
<1>. QED
  BY <1>3, <1>4 DEF RemoveAt, front, back

HasRelease(s) == \E i \in 1..Len(s) : s[i] = "release"
LastOnly(s) == \A i \in 1..Len(s) : s[i] = "release" => i = Len(s)

LEMMA AppendLast ==
  ASSUME NEW s \in Seq({"data", "release"}), NEW k \in {"data", "release"}, ~HasRelease(s)
  PROVE  LastOnly(Append(s, k)) /\ (HasRelease(Append(s, k)) <=> k = "release")
<1>1. /\ Len(Append(s, k)) = Len(s) + 1
      /\ \A i \in 1..Len(s) : Append(s, k)[i] = s[i]
      /\ Append(s, k)[Len(s) + 1] = k
      /\ Len(s) \in Nat
  BY AppendProperties
<1>. QED
  BY <1>1 DEF HasRelease, LastOnly

LEMMA RemoveLast ==
  ASSUME NEW s \in Seq({"data", "release"}), NEW i \in 1..Len(s), LastOnly(s)
  PROVE  /\ LastOnly(RemoveAt(s, i))
         /\ HasRelease(RemoveAt(s, i)) <=> HasRelease(s) /\ s[i] # "release"
         /\ i = 1 /\ s[i] = "release" => RemoveAt(s, i) = <<>>
         /\ s = <<>> => RemoveAt(s, i) = <<>>
<1>. DEFINE t == RemoveAt(s, i)
<1>0. Len(s) \in Nat
  OBVIOUS
<1>1. /\ t \in Seq({"data", "release"}) /\ Len(t) = Len(s) - 1 /\ Len(s) \in Nat
      /\ \A j \in 1..Len(s) - 1 : t[j] = IF j < i THEN s[j] ELSE s[j + 1]
  BY <1>0, RemoveProperties, Zenon
<1>. HIDE DEF t
<1>2. LastOnly(t)
  BY <1>1 DEF LastOnly
<1>3. ASSUME s[i] = "release" PROVE i = Len(s) /\ ~HasRelease(t) /\ (i = 1 => t = <<>>)
  BY <1>1, <1>3 DEF LastOnly, HasRelease
<1>4. ASSUME HasRelease(t) PROVE HasRelease(s)
  <2>1. PICK j \in 1..Len(t) : t[j] = "release"
    BY <1>4 DEF HasRelease
  <2>. QED
    BY <1>1, <2>1 DEF HasRelease
<1>5. ASSUME HasRelease(s), s[i] # "release" PROVE HasRelease(t)
  <2>1. s[Len(s)] = "release" /\ i # Len(s)
    BY <1>1, <1>5 DEF HasRelease, LastOnly
  <2>2. Len(s) - 1 \in 1..Len(t) /\ t[Len(s) - 1] = "release"
    BY <1>1, <2>1
  <2>. QED
    BY <2>2 DEF HasRelease
<1>. QED
  BY <1>1, <1>2, <1>3, <1>4, <1>5 DEF t

LEMMA InitInv == Init => IInv
<1>. SUFFICES ASSUME Init PROVE IInv
  OBVIOUS
<1>. USE CounterRange, TimeoutAssumption, TimeoutType DEF Init, RELEASED, ACQUIRED
<1>1. TypeOK
  BY DEF TypeOK
<1>2. MemoryInv
  BY DEF MemoryInv, ReleaseLast, StoresOwned, MutualExclusion, Owners, Releasing
<1>3. TimeInv
  BY DEF TimeInv, TimeoutNeverEarly, TimeoutNotLate, Waiting
<1>. QED
  BY <1>1, <1>2, <1>3 DEF IInv

-----------------------------------------------------------------------------
(* Memory *)

(* A step of one processor leaves the others' stores and places alone, so it
   is enough to look at that processor and at the lock.                   *)
LEMMA OneProcessor ==
  ASSUME IInv, TypeOK', NEW c \in Cpus,
         \A d \in Cpus \ {c} : buffer'[d] = buffer[d] /\ (pc'[d] = "held" <=> pc[d] = "held"),
         LastOnly(buffer'[c]),
         pc'[c] = "held" => ~HasRelease(buffer'[c]),
         LET owned == pc[c] = "held" \/ HasRelease(buffer[c])
             owns  == pc'[c] = "held" \/ HasRelease(buffer'[c])
         IN  /\ owns <=> lock' = ACQUIRED
             /\ Ordered /\ buffer'[c] # <<>> => owns
             /\ owned \/ lock = RELEASED
  PROVE  MemoryInv'
<1>. USE DEF RELEASED, ACQUIRED
<1>1. \A d \in Cpus : (Releasing(d) <=> HasRelease(buffer[d]))
                   /\ (Releasing(d)' <=> HasRelease(buffer'[d]))
  BY DEF Releasing, HasRelease
<1>2. \A d \in Cpus \ {c} : d \notin Owners
  BY <1>1 DEF IInv, MemoryInv, MutualExclusion, Owners
<1>3. \A d \in Cpus \ {c} : d \notin Owners'
  BY <1>1, <1>2 DEF Owners
<1>4. c \in Owners' <=> lock' = ACQUIRED
  BY <1>1 DEF Owners
<1>5. MutualExclusion'
  BY <1>3, <1>4 DEF MutualExclusion, Owners
<1>6. ReleaseLast'
  BY <1>1 DEF IInv, MemoryInv, ReleaseLast, LastOnly
<1>7. StoresOwned'
  BY <1>1, <1>2, <1>4 DEF IInv, MemoryInv, StoresOwned, Owners
<1>. QED
  BY <1>5, <1>6, <1>7 DEF MemoryInv

LEMMA MemoryStep ==
  ASSUME IInv, TypeOK', [Next]_vars
  PROVE  MemoryInv'
<1>. USE DEF RELEASED, ACQUIRED
<1>1. \A c \in Cpus :
        /\ buffer[c] \in Seq({"data", "release"})
        /\ Releasing(c) <=> HasRelease(buffer[c])
        /\ LastOnly(buffer[c])
        /\ pc[c] = "held" => ~HasRelease(buffer[c])
        /\ pc[c] = "held" \/ HasRelease(buffer[c]) => lock = ACQUIRED
        /\ Ordered /\ buffer[c] # <<>> => pc[c] = "held" \/ HasRelease(buffer[c])
  BY DEF IInv, TypeOK, MemoryInv, ReleaseLast, LastOnly, MutualExclusion, StoresOwned,
         Owners, Releasing, HasRelease
<1>2. lock \in {RELEASED, ACQUIRED} /\ pc \in [Cpus -> {"idle", "exchange", "sample", "held", "stopped"}]
      /\ buffer \in [Cpus -> Seq({"data", "release"})]
  BY DEF IInv, TypeOK
<1>3. ASSUME UNCHANGED memory, \A c \in Cpus : pc'[c] = "held" <=> pc[c] = "held"
      PROVE  MemoryInv'
  <2>1. Owners' = Owners /\ \A c \in Cpus : Releasing(c)' <=> Releasing(c)
    BY <1>3 DEF Owners, Releasing, memory
  <2>. QED
    BY <1>3, <2>1 DEF IInv, MemoryInv, ReleaseLast, StoresOwned, MutualExclusion, memory
<1>4. ASSUME NEW c \in Cpus, TryAcquire(c) \/ Acquire(c) \/ ExchangeFailed(c) PROVE MemoryInv'
  BY <1>2, <1>3, <1>4 DEF TryAcquire, Acquire, ExchangeFailed, AfterFailure, Goto
<1>5. ASSUME NEW c \in Cpus, Sample(c) PROVE MemoryInv'
  BY <1>2, <1>3, <1>5 DEF Sample, FirstSample, NextSample, Goto
<1>6. ASSUME NEW c \in Cpus, ExchangeTaken(c) PROVE MemoryInv'
  BY <1>1, <1>2, <1>6, OneProcessor DEF ExchangeTaken, Goto
<1>7. ASSUME NEW c \in Cpus, Store(c) PROVE MemoryInv'
  <2>1. /\ pc[c] = "held" /\ pc' = pc /\ lock' = lock
        /\ buffer' = [buffer EXCEPT ![c] = Append(buffer[c], "data")]
    BY <1>7 DEF Store
  <2>2. LastOnly(Append(buffer[c], "data")) /\ ~HasRelease(Append(buffer[c], "data"))
    BY <1>1, <2>1, AppendLast
  <2>. QED
    BY <1>1, <1>2, <2>1, <2>2, OneProcessor
<1>8. ASSUME NEW c \in Cpus, ReleaseSpinLock(c) PROVE MemoryInv'
  <2>1. /\ pc[c] = "held" /\ pc' = [pc EXCEPT ![c] = "idle"] /\ lock' = lock
        /\ buffer' = [buffer EXCEPT ![c] = Append(buffer[c], "release")]
    BY <1>8 DEF ReleaseSpinLock, Goto
  <2>2. LastOnly(Append(buffer[c], "release")) /\ HasRelease(Append(buffer[c], "release"))
    BY <1>1, <2>1, AppendLast
  <2>. QED
    BY <1>1, <1>2, <2>1, <2>2, OneProcessor
<1>9. ASSUME NEW c \in Cpus, Commit(c) PROVE MemoryInv'
  <2>1. PICK i \in 1..Len(buffer[c]) :
          /\ Ordered => i = 1
          /\ lock' = Committed(buffer[c][i])
          /\ buffer' = [buffer EXCEPT ![c] = RemoveAt(buffer[c], i)]
          /\ UNCHANGED pc
    BY <1>9 DEF Commit
  <2>2. /\ LastOnly(RemoveAt(buffer[c], i))
        /\ HasRelease(RemoveAt(buffer[c], i)) <=> HasRelease(buffer[c]) /\ buffer[c][i] # "release"
        /\ i = 1 /\ buffer[c][i] = "release" => RemoveAt(buffer[c], i) = <<>>
    BY <1>1, <2>1, RemoveLast
  <2>3. buffer[c] # <<>>
    BY <1>1, <2>1
  <2>4. CASE buffer[c][i] = "release"
    <3>1. HasRelease(buffer[c]) /\ lock' = RELEASED
      BY <2>1, <2>4 DEF HasRelease, Committed
    <3>. QED
      BY <1>1, <1>2, <2>1, <2>2, <2>4, <3>1, OneProcessor
  <2>5. CASE buffer[c][i] # "release" /\ (pc[c] = "held" \/ HasRelease(buffer[c]))
    <3>1. lock' = lock
      BY <2>1, <2>5 DEF Committed
    <3>. QED
      BY <1>1, <1>2, <2>1, <2>2, <2>5, <3>1, OneProcessor
  <2>6. CASE ~(pc[c] = "held" \/ HasRelease(buffer[c]))
    <3>1. buffer[c][i] # "release" /\ lock' = lock /\ ~Ordered
      BY <1>1, <2>1, <2>3, <2>6 DEF HasRelease, Committed
    <3>2. \A d \in Cpus : Releasing(d)' <=> Releasing(d)
      <4>1. Releasing(c)' <=> HasRelease(RemoveAt(buffer[c], i))
        BY <1>2, <2>1 DEF Releasing, HasRelease
      <4>. QED
        BY <1>1, <1>2, <2>1, <2>2, <2>6, <4>1 DEF Releasing
    <3>3. Owners' = Owners
      BY <2>1, <3>2 DEF Owners
    <3>4. ReleaseLast'
      BY <1>1, <1>2, <2>1, <2>2, <3>2 DEF IInv, MemoryInv, ReleaseLast, LastOnly
    <3>. QED
      BY <3>1, <3>3, <3>4 DEF IInv, MemoryInv, StoresOwned, MutualExclusion
  <2>. QED
    BY <2>4, <2>5, <2>6
<1>10. CASE Tick \/ UNCHANGED vars
  BY <1>3, <1>10 DEF Tick, vars
<1>. QED
  BY <1>4, <1>5, <1>6, <1>7, <1>8, <1>9, <1>10 DEF Next, Attempt

-----------------------------------------------------------------------------
(* Time *)

(* Whatever is added, the total stays a UINT64. *)
LEMMA SumType ==
  ASSUME NEW t \in 0..2 * Half - 1, NEW p \in Low..High, NEW n \in Low..High
  PROVE  Unsigned(t + Delta(p, n)) \in 0..2 * Half - 1
<1>. USE CounterRange, CounterAssumption
<1>1. Cycle \in -Half..Half - 1
  BY DEF Cycle, Signed, Abs
<1>2. Delta(p, n) \in -Half..Half - 1
  BY <1>1 DEF Delta, Signed
<1>. QED
  BY <1>2 DEF Unsigned

LEMMA TimeStep ==
  ASSUME IInv, [Next]_vars
  PROVE  TimeInv'
<1>. USE CounterRange, TimeoutType, TimeoutAssumption DEF IInv, TypeOK, timing
<1>. USE DEF TimeInv, TimeoutNeverEarly, TimeoutNotLate, Waiting, CountsTime
<1>0. ASSUME UNCHANGED <<asserts, counter, timing>>,
             \A d \in Cpus : /\ Waiting(d)' => Waiting(d)
                             /\ pc'[d] = "stopped" => pc[d] = "stopped"
      PROVE  TimeInv'
  BY <1>0
<1>1. ASSUME NEW c \in Cpus,
             TryAcquire(c) \/ Acquire(c) \/ ExchangeFailed(c) \/ ReleaseSpinLock(c)
      PROVE  TimeInv'
  <2>1. \A d \in Cpus : /\ Waiting(d)' => Waiting(d)
                        /\ pc'[d] = "stopped" => pc[d] = "stopped"
    BY <1>1 DEF TryAcquire, Acquire, ExchangeFailed, ReleaseSpinLock, AfterFailure, Goto
  <2>2. UNCHANGED <<asserts, counter, timing>>
    BY <1>1 DEF TryAcquire, Acquire, ExchangeFailed, ReleaseSpinLock
  <2>. QED
    BY <1>0, <2>1, <2>2
<1>2. ASSUME NEW c \in Cpus, ExchangeTaken(c) PROVE TimeInv'
  BY <1>2 DEF ExchangeTaken, ForgetLocals, Goto
<1>3. ASSUME NEW c \in Cpus, Store(c) \/ Commit(c) PROVE TimeInv'
  BY <1>0, <1>3 DEF Store, Commit
<1>4. ASSUME NEW c \in Cpus, FirstSample(c) PROVE TimeInv'
  <2>1. Distance(counter, counter) = 0 /\ counter \in Low..High
    BY DistanceType
  <2>2. /\ current' = [current EXCEPT ![c] = counter] /\ total' = [total EXCEPT ![c] = 0]
        /\ waited' = [waited EXCEPT ![c] = 0] /\ seen' = [seen EXCEPT ![c] = 0]
        /\ missed' = [missed EXCEPT ![c] = FALSE] /\ pc' = [pc EXCEPT ![c] = "exchange"]
        /\ call' = [call EXCEPT ![c] = "loop"] /\ UNCHANGED <<asserts, counter>>
    BY <1>4 DEF FirstSample, Goto
  <2>3. CountsTime(c)'
    BY <2>1, <2>2
  <2>4. seen'[c] = 0 /\ pc'[c] # "stopped"
    BY <2>2
  <2>5. \A d \in Cpus \ {c} :
          /\ Waiting(d)' => CountsTime(d)'
          /\ pc'[d] = "stopped" /\ (Short \/ (Full /\ ~missed'[d])) => waited'[d] >= Timeout
          /\ asserts' /\ Waiting(d)' /\ (Short \/ Full) /\ ~missed'[d] =>
               seen'[d] < Timeout \/ seen'[d] = 0
    BY <2>2
  <2>. QED
    BY <2>3, <2>4, <2>5
<1>5. ASSUME NEW c \in Cpus, NextSample(c) PROVE TimeInv'
  <2>. DEFINE delta == Delta(current[c], counter)
              sum   == Unsigned(total[c] + delta)
  <2>1. /\ total[c] \in Nat /\ waited[c] \in 0..MaxWait /\ seen[c] \in Nat
        /\ counter \in Low..High /\ current[c] \in Low..High
    OBVIOUS
  <2>2. CountsTime(c) /\ Waiting(c)
    BY <1>5 DEF NextSample
  <2>3. /\ total' = [total EXCEPT ![c] = sum]
        /\ seen' = [seen EXCEPT ![c] = waited[c]]
        /\ missed'[c] = (missed[c] \/ waited[c] - seen[c] > Limit)
        /\ pc' = [pc EXCEPT ![c] = IF asserts /\ sum >= Timeout THEN "stopped" ELSE "exchange"]
        /\ current' = [current EXCEPT ![c] = counter]
        /\ \A d \in Cpus \ {c} : missed'[d] = missed[d]
        /\ UNCHANGED <<asserts, counter, call, waited>>
    BY <1>5 DEF NextSample, Goto
  <2>4. Distance(counter, counter) = 0 /\ Distance(current[c], counter) \in Nat
    BY <2>1, DistanceType
  <2>. HIDE DEF delta, sum
  <2>5. ASSUME Short PROVE sum <= waited[c]
    <3>1. delta = Distance(current[c], counter) /\ total[c] <= seen[c]
      BY <2>1, <2>2, <2>5, ShortDelta DEF delta
    <3>. QED
      BY <2>1, <2>2, <2>4, <3>1 DEF sum, Unsigned
  <2>6. ASSUME Short \/ Full, ~missed'[c] PROVE sum = waited[c]
    <3>1. ~missed[c] /\ waited[c] - seen[c] <= Limit
      <4>1. ~missed[c] /\ ~(waited[c] - seen[c] > Limit)
        BY <2>3, <2>6, Zenon
      <4>. QED
        BY <2>1, <4>1
    <3>2. total[c] = seen[c] /\ Distance(current[c], counter) = waited[c] - seen[c]
      BY <2>1, <2>2, <2>6, <3>1
    <3>3. delta = Distance(current[c], counter)
      BY <2>1, <2>6, <3>1, <3>2, ShortDelta, FullDelta DEF delta
    <3>. QED
      BY <2>1, <3>2, <3>3 DEF sum, Unsigned
  <2>7. CountsTime(c)'
    BY <2>1, <2>3, <2>4, <2>5, <2>6
  <2>8. /\ pc'[c] = "stopped" /\ (Short \/ (Full /\ ~missed'[c])) => waited'[c] >= Timeout
        /\ asserts' /\ Waiting(c)' /\ (Short \/ Full) /\ ~missed'[c] => seen'[c] < Timeout
    <3>1. pc'[c] = "stopped" => sum >= Timeout
      BY <2>3
    <3>2. asserts' /\ Waiting(c)' => ~(sum >= Timeout)
      BY <2>3
    <3>3. Short \/ (Full /\ ~missed'[c]) => sum <= waited[c]
      BY <2>1, <2>5, <2>6
    <3>4. sum \in Int
      BY <1>5, <2>1, <2>3, <2>4, SumType DEF sum, delta
    <3>. QED
      BY <2>1, <2>3, <2>6, <3>1, <3>2, <3>3, <3>4
  <2>9. \A d \in Cpus \ {c} :
          /\ Waiting(d)' => CountsTime(d)'
          /\ pc'[d] = "stopped" /\ (Short \/ (Full /\ ~missed'[d])) => waited'[d] >= Timeout
          /\ asserts' /\ Waiting(d)' /\ (Short \/ Full) /\ ~missed'[d] =>
               seen'[d] < Timeout \/ seen'[d] = 0
    BY <2>3
  <2>. QED
    BY <2>7, <2>8, <2>9
<1>6. CASE Tick
  <2>. USE <1>6 DEF Tick
  <2>1. counter \in Low..High /\ counter' = NextCount(counter) /\ counter' \in Low..High
    BY DistanceOfTick DEF NextCount
  <2>2. ASSUME NEW c \in Cpus, Waiting(c)' PROVE CountsTime(c)'
    <3>1. /\ waited'[c] = waited[c] + 1 /\ waited[c] \in Nat /\ CountsTime(c)
          /\ current'[c] = current[c] /\ total'[c] = total[c] /\ current[c] \in Low..High
          /\ seen'[c] = seen[c] /\ missed'[c] = missed[c] /\ seen[c] \in Nat /\ total[c] \in Nat
      BY <2>2
    <3>2. /\ Distance(current[c], counter) <= waited[c] - seen[c]
          /\ waited[c] - seen[c] <= Span => Distance(current[c], counter) = waited[c] - seen[c]
      BY <3>1
    <3>3. /\ Short => total'[c] <= seen'[c]
          /\ (Short \/ Full) /\ ~missed'[c] => total'[c] = seen'[c]
      BY <3>1
    <3>. HIDE <1>6, CounterRange, TimeoutType, TimeoutAssumption
         DEF Tick, IInv, TypeOK, timing, TimeInv, TimeoutNeverEarly, TimeoutNotLate,
             Waiting, CountsTime
    <3>4. /\ Distance(current[c], counter') <= waited[c] + 1 - seen[c]
          /\ waited[c] + 1 - seen[c] <= Span =>
               Distance(current[c], counter') = waited[c] + 1 - seen[c]
      <4>1. \A p, n \in Low..High, w, s \in Nat :
              /\ Distance(p, n) <= w - s
              /\ w - s <= Span => Distance(p, n) = w - s
              => /\ Distance(p, NextCount(n)) <= w + 1 - s
                 /\ w + 1 - s <= Span => Distance(p, NextCount(n)) = w + 1 - s
        BY TickCounts
      <4>. QED
        BY <2>1, <3>1, <3>2, <4>1
    <3>5. /\ Distance(current'[c], counter') <= waited'[c] - seen'[c]
          /\ waited'[c] - seen'[c] <= Span =>
               Distance(current'[c], counter') = waited'[c] - seen'[c]
      BY <3>1, <3>4
    <3>. QED
      BY <3>3, <3>5 DEF CountsTime
  <2>3. TimeoutNeverEarly' /\ TimeoutNotLate'
    OBVIOUS
  <2>. QED
    BY <2>2, <2>3
<1>7. CASE UNCHANGED vars
  BY <1>7 DEF vars
<1>. QED
  BY <1>1, <1>2, <1>3, <1>4, <1>5, <1>6, <1>7 DEF Next, Attempt, Sample

-----------------------------------------------------------------------------
LEMMA TypeStep ==
  ASSUME IInv, [Next]_vars
  PROVE  TypeOK'
<1>. USE CounterRange, TimeoutAssumption DEF IInv, TypeOK, timing, memory, RELEASED, ACQUIRED
<1>1. ASSUME NEW c \in Cpus, TryAcquire(c) \/ Acquire(c) \/ ExchangeFailed(c) PROVE TypeOK'
  BY <1>1 DEF TryAcquire, Acquire, ExchangeFailed, AfterFailure, Goto
<1>2. ASSUME NEW c \in Cpus, ExchangeTaken(c) PROVE TypeOK'
  BY <1>2 DEF ExchangeTaken, ForgetLocals, Goto
<1>3. ASSUME NEW c \in Cpus, Store(c) \/ ReleaseSpinLock(c) PROVE TypeOK'
  <2>1. \A k \in {"data", "release"} : Append(buffer[c], k) \in Seq({"data", "release"})
    BY AppendProperties
  <2>2. buffer' \in [Cpus -> Seq({"data", "release"})]
    BY <1>3, <2>1 DEF Store, ReleaseSpinLock
  <2>. QED
    BY <1>3, <2>2 DEF Store, ReleaseSpinLock, Goto
<1>4. ASSUME NEW c \in Cpus, Commit(c) PROVE TypeOK'
  <2>1. PICK i \in 1..Len(buffer[c]) :
          /\ lock' = Committed(buffer[c][i])
          /\ buffer' = [buffer EXCEPT ![c] = RemoveAt(buffer[c], i)]
    BY <1>4 DEF Commit
  <2>2. RemoveAt(buffer[c], i) \in Seq({"data", "release"})
    BY <2>1, RemoveProperties
  <2>. QED
    BY <1>4, <2>1, <2>2 DEF Commit, Committed
<1>5. ASSUME NEW c \in Cpus, FirstSample(c) PROVE TypeOK'
  BY <1>5 DEF FirstSample, Goto
<1>6. ASSUME NEW c \in Cpus, NextSample(c) PROVE TypeOK'
  <2>1. Unsigned(total[c] + Delta(current[c], counter)) \in 0..2 * Half - 1
    BY SumType
  <2>2. total' \in [Cpus -> 0..2 * Half - 1]
    BY <1>6, <2>1 DEF NextSample
  <2>3. missed' \in [Cpus -> BOOLEAN]
    BY <1>6 DEF NextSample
  <2>. QED
    BY <1>6, <2>2, <2>3 DEF NextSample, Goto
<1>7. CASE Tick
  <2>1. counter' \in Low..High
    BY <1>7, DistanceOfTick DEF Tick, NextCount
  <2>. QED
    BY <1>7, <2>1 DEF Tick
<1>8. CASE UNCHANGED vars
  BY <1>8 DEF vars
<1>. QED
  BY <1>1, <1>2, <1>3, <1>4, <1>5, <1>6, <1>7, <1>8 DEF Next, Attempt, Sample

LEMMA Invariance == Spec => []IInv
<1>1. IInv /\ [Next]_vars => IInv'
  BY TypeStep, MemoryStep, TimeStep DEF IInv
<1>. QED
  BY <1>1, InitInv, PTL DEF Spec

(* The lock's word and the buffers hold nothing but what the functions store,
   and no clock of a waiting processor leaves its range.                  *)
THEOREM TypeCorrect == Spec => []TypeOK
<1>1. IInv => TypeOK
  BY DEF IInv
<1>. QED
  BY <1>1, Invariance, PTL

(* The compare-and-exchange is enough: whatever the processors do between
   their accesses, two never own the lock, and a lock that is not free has an
   owner who will free it, in whichever order stores reach memory.        *)
THEOREM Exclusion == Spec => []MutualExclusion
<1>1. IInv => MutualExclusion
  BY DEF IInv, MemoryInv
<1>. QED
  BY <1>1, Invariance, PTL

(* ReleaseSpinLock needs no barrier on a processor whose stores reach memory
   in their order: the next holder finds everything that was stored.      *)
THEOREM OrderedHandOver == Ordered => (Spec => []HandedOver)
<1>. SUFFICES ASSUME Ordered PROVE Spec => []HandedOver
  OBVIOUS
<1>1. IInv => HandedOver
  BY DEF IInv, MemoryInv, StoresOwned, MutualExclusion, HandedOver, Holders, Owners
<1>. QED
  BY <1>1, Invariance, PTL

(* The timeout of AcquireSpinLock does not expire before its time: never if
   the counter is short, whichever way it counts, and not if it is full and
   the looks at it are less than 2^63 ticks apart.                        *)
THEOREM NeverEarly == Spec => []TimeoutNeverEarly
<1>1. IInv => TimeoutNeverEarly
  BY DEF IInv, TimeInv
<1>. QED
  BY <1>1, Invariance, PTL

(* Nor after it, if a short or full counter is looked at often enough: what
   the loop of AcquireSpinLock has added up is then the time itself.      *)
THEOREM NotLate == Spec => []TimeoutNotLate
<1>1. IInv => TimeoutNotLate
  BY DEF IInv, TimeInv
<1>. QED
  BY <1>1, Invariance, PTL
=============================================================================
