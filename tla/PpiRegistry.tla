---------------------------- MODULE PpiRegistry ----------------------------
(***************************************************************************)
(* What the PEI core promises about PPIs, without saying how: a log of     *)
(* descriptors that grows by whole lists, and a dispatcher that runs the   *)
(* descriptors of the log one after the other, each exactly once, in the   *)
(* order they were installed.  PeiPpi is shown to implement it.            *)
(***************************************************************************)
EXTENDS Naturals, Sequences

CONSTANTS
  Lists,     \* the descriptor lists PEIMs may pass, each a sequence of descriptors
  MaxCount   \* capacity of the pool behind the log

VARIABLES
  db,        \* installed descriptors, in installation order
  ran        \* descriptors that have been run, in that order

vars == <<db, ran>>

Init ==
  /\ db = <<>>
  /\ ran = <<>>

\* A list is appended as a whole, if every descriptor is a PPI and it fits.
Install(l) ==
  /\ Len(db) + Len(l) <= MaxCount
  /\ \A i \in 1..Len(l) : l[i].ppi
  /\ db' = db \o l
  /\ UNCHANGED ran

\* The next descriptor that has not run yet is run.
Run ==
  /\ Len(ran) < Len(db)
  /\ ran' = Append(ran, db[Len(ran) + 1])
  /\ UNCHANGED db

Next == Run \/ \E l \in Lists : Install(l)

Spec == Init /\ [][Next]_vars
=============================================================================
