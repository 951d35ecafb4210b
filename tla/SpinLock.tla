----------------------------- MODULE SpinLock -----------------------------
(***************************************************************************)
(* The spin lock of CpuSync.c, shared by the processors that use it:       *)
(* AcquireSpinLock with its timeout, AcquireSpinLockOrFail and             *)
(* ReleaseSpinLock.                                                        *)
(*                                                                         *)
(* The timeout is measured with a performance counter that runs from       *)
(* StartVal to EndVal, up or down, and then starts again.  The counter     *)
(* runs on its own: it is not a step of any processor.                     *)
(*                                                                         *)
(* A store waits in a buffer of its processor before it reaches memory.    *)
(* The compare-and-exchange acts on memory at once; the lock is released   *)
(* by an ordinary store, behind those of the critical section.             *)
(***************************************************************************)
EXTENDS Integers, SequencesExt

CONSTANTS
  Cpus,
  PcdSpinLockTimeout,  \* in microseconds; 0 turns the timeout off
  Frequency,           \* what GetPerformanceCounterProperties tells
  StartVal, EndVal,
  Half,                \* 2^63: an INT64 lies between -Half and Half - 1
  Ordered,             \* do the stores of a processor reach memory in their order?
  MaxStores,           \* bound: stores waiting in a buffer
  MaxWait              \* bound: ticks a processor may be seen waiting for

\* The counter's ends may be any UINT64.
ASSUME CounterAssumption ==
  Half \in Nat \ {0} /\ StartVal \in 0..2 * Half - 1 /\ EndVal \in 0..2 * Half - 1

\* No wait lasts for 2^64 ticks.
ASSUME TimeoutAssumption ==
  PcdSpinLockTimeout \in Nat /\ Frequency \in Nat /\ MaxWait \in 0..2 * Half - 1

ASSUME MemoryAssumption == Ordered \in BOOLEAN /\ MaxStores \in Nat

RELEASED == 1
ACQUIRED == 2

VARIABLES
  asserts,  \* does a failed ASSERT stop the processor?  Fixed by the build.
  lock,     \* *SpinLock in memory
  buffer,   \* stores of each processor on their way to memory
  counter,  \* the performance counter
  pc,       \* where each processor is
  call,     \* how it got there: a try, the first attempt of a wait, or the loop
  current,  \* Current of its wait
  total,    \* Total of its wait
  waited,   \* history: ticks since the wait took its first sample
  seen,     \* history: the ticks of them at its last sample
  missed    \* history: did more time pass between two samples than they can tell?

timing == <<current, total, waited, seen, missed>>
memory == <<lock, buffer>>
vars == <<asserts, memory, counter, pc, call, timing>>

Low  == IF StartVal <= EndVal THEN StartVal ELSE EndVal
High == IF StartVal <= EndVal THEN EndVal ELSE StartVal
Span == High - Low

\* InitializeSpinLock has been called before the lock is shared.
Init ==
  /\ asserts \in BOOLEAN
  /\ lock = RELEASED
  /\ buffer = [c \in Cpus |-> <<>>]
  /\ counter = StartVal
  /\ pc = [c \in Cpus |-> "idle"]
  /\ call = [c \in Cpus |-> "try"]
  /\ current = [c \in Cpus |-> StartVal]
  /\ total = [c \in Cpus |-> 0]
  /\ waited = [c \in Cpus |-> 0]
  /\ seen = [c \in Cpus |-> 0]
  /\ missed = [c \in Cpus |-> FALSE]

Goto(c, where) == pc' = [pc EXCEPT ![c] = where]

\* The locals end with the call.
ForgetLocals(c) ==
  /\ call' = [call EXCEPT ![c] = "try"]
  /\ current' = [current EXCEPT ![c] = StartVal]
  /\ total' = [total EXCEPT ![c] = 0]
  /\ waited' = [waited EXCEPT ![c] = 0]
  /\ seen' = [seen EXCEPT ![c] = 0]
  /\ missed' = [missed EXCEPT ![c] = FALSE]

----------------------------------------------------------------------------
(* The caller *)

\* AcquireSpinLockOrFail, called from outside.
TryAcquire(c) ==
  /\ pc[c] = "idle"
  /\ Goto(c, "exchange")
  /\ call' = [call EXCEPT ![c] = "try"]
  /\ UNCHANGED <<asserts, memory, counter, timing>>

Acquire(c) ==
  /\ pc[c] = "idle"
  /\ Goto(c, "exchange")
  /\ call' = [call EXCEPT ![c] = "first"]
  /\ UNCHANGED <<asserts, memory, counter, timing>>

\* The owner works on what the lock protects.
Store(c) ==
  /\ pc[c] = "held"
  /\ Len(buffer[c]) < MaxStores
  /\ buffer' = [buffer EXCEPT ![c] = Append(@, "data")]
  /\ UNCHANGED <<asserts, lock, counter, pc, call, timing>>

\* Mutant: the store overtakes those of the owner.
ReleaseSpinLockFirst(c) ==
  /\ pc[c] = "held"
  /\ buffer' = [buffer EXCEPT ![c] = <<"release">> \o @]
  /\ Goto(c, "idle")
  /\ UNCHANGED <<asserts, lock, counter, call, timing>>

\* The owner stores the released value; nobody else may call it.
ReleaseSpinLock(c) ==
  /\ pc[c] = "held"
  /\ buffer' = [buffer EXCEPT ![c] = Append(@, "release")]
  /\ Goto(c, "idle")
  /\ UNCHANGED <<asserts, lock, counter, call, timing>>

\* Mutant: another value is stored.
CommittedZero(kind) == IF kind = "release" THEN 0 ELSE lock

\* What the lock is once a store has reached memory.
Committed(kind) == IF kind = "release" THEN RELEASED ELSE lock

\* A store reaches memory: the oldest of its processor, or any.
Commit(c) ==
  \E i \in 1..Len(buffer[c]) :
    /\ Ordered => i = 1
    /\ lock' = Committed(buffer[c][i])
    /\ buffer' = [buffer EXCEPT ![c] = RemoveAt(@, i)]
    /\ UNCHANGED <<asserts, counter, pc, call, timing>>

----------------------------------------------------------------------------
(* AcquireSpinLockOrFail: one compare-and-exchange.  The value that is read
   before it is only asserted to be one of the two.  A processor's own store
   to the lock comes before its exchange of it.                           *)

Releasing(c) == \E i \in 1..Len(buffer[c]) : buffer[c][i] = "release"

\* Mutant: the exchange does not compare.
ExchangeTakenUnchecked(c) ==
  /\ pc[c] = "exchange" /\ ~Releasing(c)
  /\ lock' = ACQUIRED
  /\ Goto(c, "held")
  /\ ForgetLocals(c)
  /\ UNCHANGED <<asserts, buffer, counter>>

ExchangeTaken(c) ==
  /\ pc[c] = "exchange" /\ ~Releasing(c)
  /\ lock = RELEASED
  /\ lock' = ACQUIRED
  /\ Goto(c, "held")
  /\ ForgetLocals(c)
  /\ UNCHANGED <<asserts, buffer, counter>>

\* Mutant: a wait gives up like a try.
AfterFailureNever(c) ==
  IF PcdSpinLockTimeout # 0 THEN "idle" ELSE "exchange"

\* Where a failed attempt goes on: it returns, tries again, or looks at the time.
AfterFailure(c) ==
  IF call[c] = "try" THEN "idle"
  ELSE IF PcdSpinLockTimeout = 0 THEN "exchange" ELSE "sample"

ExchangeFailed(c) ==
  /\ pc[c] = "exchange" /\ ~Releasing(c)
  /\ lock # RELEASED
  /\ Goto(c, AfterFailure(c))
  /\ UNCHANGED <<asserts, memory, counter, call, timing>>

----------------------------------------------------------------------------
(* AcquireSpinLock: the samples of the counter *)

FirstSample(c) ==
  /\ pc[c] = "sample"
  /\ call[c] = "first"
  /\ current' = [current EXCEPT ![c] = counter]
  /\ total' = [total EXCEPT ![c] = 0]
  /\ waited' = [waited EXCEPT ![c] = 0]
  /\ seen' = [seen EXCEPT ![c] = 0]
  /\ missed' = [missed EXCEPT ![c] = FALSE]
  /\ call' = [call EXCEPT ![c] = "loop"]
  /\ Goto(c, "exchange")
  /\ UNCHANGED <<asserts, memory, counter>>

Timeout == (Frequency * PcdSpinLockTimeout) \div 1000000

\* What an INT64 and a UINT64 hold of x, when x is off by less than 2^64.  A
\* signed overflow is undefined, and no property is about a counter that has one.
Signed(x) ==
  IF x >= Half THEN x - 2 * Half ELSE IF x < -Half THEN x + 2 * Half ELSE x
Unsigned(x) ==
  IF x >= 2 * Half THEN x - 2 * Half ELSE IF x < 0 THEN x + 2 * Half ELSE x

Abs(x) == IF x < 0 THEN -x ELSE x

\* Mutant: one tick short.
CycleShort == Abs(Signed(EndVal - StartVal))

Cycle == Signed(Abs(Signed(EndVal - StartVal)) + 1)

\* Mutant: the direction of the counter is not looked at.
DeltaUndirected(previous, now) ==
  LET difference == Signed(now - previous)
  IN IF difference < 0 THEN Signed(difference + Cycle) ELSE difference

\* What the code takes for the ticks between two samples.
Delta(previous, now) ==
  LET difference == Signed(now - previous)
      directed == IF StartVal > EndVal THEN Signed(-difference) ELSE difference
  IN IF directed < 0 THEN Signed(directed + Cycle) ELSE directed

\* The most ticks two samples can tell: a whole turn looks like none, and what
\* does not fit an INT64 looks like a turn.
Limit == IF Span < Half THEN Span ELSE Half - 1

NextSample(c) ==
  /\ pc[c] = "sample"
  /\ call[c] = "loop"
  /\ current' = [current EXCEPT ![c] = counter]
  /\ total' = [total EXCEPT ![c] = Unsigned(@ + Delta(current[c], counter))]
  /\ Goto(c, IF asserts /\ total'[c] >= Timeout THEN "stopped" ELSE "exchange")
  /\ seen' = [seen EXCEPT ![c] = waited[c]]
  /\ missed' = [missed EXCEPT ![c] = @ \/ waited[c] - seen[c] > Limit]
  /\ UNCHANGED <<asserts, memory, counter, call, waited>>

----------------------------------------------------------------------------
(* The counter *)

Waiting(c) == pc[c] \in {"exchange", "sample"} /\ call[c] = "loop"

Tick ==
  /\ \A c \in Cpus : waited[c] < MaxWait
  /\ counter' = IF counter = EndVal THEN StartVal
                ELSE IF StartVal <= EndVal THEN counter + 1 ELSE counter - 1
  /\ waited' = [c \in Cpus |-> IF Waiting(c) THEN waited[c] + 1 ELSE waited[c]]
  /\ UNCHANGED <<asserts, memory, pc, call, current, total, seen, missed>>

----------------------------------------------------------------------------
Attempt(c) == ExchangeTaken(c) \/ ExchangeFailed(c)
Sample(c)  == FirstSample(c) \/ NextSample(c)

Next ==
  \/ \E c \in Cpus :
       \/ TryAcquire(c) \/ Acquire(c) \/ Attempt(c) \/ Sample(c)
       \/ Store(c) \/ ReleaseSpinLock(c) \/ Commit(c)
  \/ Tick

Spec == Init /\ [][Next]_vars

(* Every processor keeps executing, a caller that holds the lock releases it,
   and stores reach memory.  Nothing makes the compare-and-exchange fair. *)
Fairness ==
  \A c \in Cpus :
    WF_vars(Attempt(c) \/ Sample(c)) /\ WF_vars(ReleaseSpinLock(c)) /\ WF_vars(Commit(c))

FairSpec == Spec /\ Fairness

----------------------------------------------------------------------------
(* Properties *)

TypeOK ==
  /\ asserts \in BOOLEAN
  /\ lock \in {RELEASED, ACQUIRED}
  /\ buffer \in [Cpus -> Seq({"data", "release"})]
  /\ counter \in Low..High
  /\ pc \in [Cpus -> {"idle", "exchange", "sample", "held", "stopped"}]
  /\ call \in [Cpus -> {"try", "first", "loop"}]
  /\ current \in [Cpus -> Low..High]
  /\ total \in [Cpus -> 0..2 * Half - 1]
  /\ waited \in [Cpus -> 0..MaxWait]
  /\ seen \in [Cpus -> 0..MaxWait]
  /\ missed \in [Cpus -> BOOLEAN]

Holders == {c \in Cpus : pc[c] = "held"}

\* The holder, or who has released the lock while memory does not know yet.
Owners == {c \in Cpus : pc[c] = "held" \/ Releasing(c)}

(* Two processors never own the lock, and its value says whether one does,
   although it is given back by an ordinary store that takes its time.    *)
MutualExclusion ==
  /\ \A c, d \in Owners : c = d
  /\ lock = ACQUIRED <=> Owners # {}

(* "All state transitions of SpinLock must be performed using MP safe
   mechanisms" (CpuSync.c:73): who holds the lock finds in memory whatever
   earlier holders stored before they released it.                        *)
HandedOver == \A c \in Holders, d \in Cpus : c # d => buffer[d] = <<>>

(* The counters whose turns AcquireSpinLock can measure: one whose cycle fits
   an INT64, and one that uses all 64 bits.  One between them it measures
   wrong whenever it turns over.                                          *)
Short == Span < Half - 1
Full  == Span = 2 * Half - 1

(* A processor is stopped by the timeout only after it has been waiting for
   that long, whichever way the counter counts and, if it is short, however
   often it turned over between two looks; if it is full, the looks must not
   be 2^63 ticks apart.                                                   *)
TimeoutNeverEarly ==
  \A c \in Cpus :
    pc[c] = "stopped" /\ (Short \/ (Full /\ ~missed[c])) => waited[c] >= Timeout

(* A processor that goes on waiting, with its ASSERTs compiled in, had not
   waited for the timeout when it last looked at a short or full counter,
   unless more time passed between two of its looks than they can tell.   *)
TimeoutNotLate ==
  \A c \in Cpus :
    asserts /\ Waiting(c) /\ (Short \/ Full) /\ ~missed[c] =>
      seen[c] < Timeout \/ seen[c] = 0

(* While processors wait for the lock, one or another of them gets it, if no
   ASSERT stops the one that would have.                                  *)
SomeoneAcquires ==
  ~asserts /\ (\E c \in Cpus : pc[c] \in {"exchange", "sample"} /\ call[c] # "try")
    ~> Holders # {}
=============================================================================
