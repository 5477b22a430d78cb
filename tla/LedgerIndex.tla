----------------------------- MODULE LedgerIndex -----------------------------
(***************************************************************************)
(* What table "ledger" promises its readers: one run of consecutive        *)
(* ledgers, seeded once, extended at the top by the next ledger and at     *)
(* the bottom by the next one down.  A ledger below the seed may be        *)
(* waived (given up); it may still be filled in later.  Nothing is lost.   *)
(* LedgerIngest implements this under both processes and their crashes.    *)
(***************************************************************************)
EXTENDS Integers

VARIABLES
  indexed,  \* ledgers that have a row
  waived    \* ledgers below the top that were given up

indexVars == <<indexed, waived>>

IsLowest(s)  == s \in indexed \cup waived /\ \A t \in indexed \cup waived : s <= t
IsHighest(s) == s \in indexed /\ \A t \in indexed : t <= s

Init == indexed = {} /\ waived = {}

Seed ==
  /\ indexed = {}
  /\ \E s \in indexed' : s \in Nat /\ indexed' = {s}
  /\ UNCHANGED waived

ExtendUp ==
  /\ \E s \in indexed : IsHighest(s) /\ indexed' = indexed \cup {s + 1}
  /\ UNCHANGED waived

ExtendDown ==
  /\ \E s \in indexed \cup waived : IsLowest(s) /\ indexed' = indexed \cup {s - 1}
  /\ UNCHANGED waived

WaiveDown ==
  /\ \E s \in indexed \cup waived : IsLowest(s) /\ waived' = waived \cup {s - 1}
  /\ UNCHANGED indexed

FillWaived ==
  \E s \in waived : indexed' = indexed \cup {s} /\ waived' = waived \ {s}

Next == Seed \/ ExtendUp \/ ExtendDown \/ WaiveDown \/ FillWaived

Spec == Init /\ [][Next]_indexVars
=============================================================================
