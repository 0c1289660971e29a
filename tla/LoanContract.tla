---------------------------- MODULE LoanContract ----------------------------
(***************************************************************************)
(* What one originated loan promises.  Its installments are settled in     *)
(* order: the first `paid` of them are paid, the next `misses` are         *)
(* missed, the rest have not come due.  A due date either pays everything  *)
(* owed so far or adds one miss, never a part; the third miss in a row is  *)
(* the default; the loan is paid off by its last installment; and what has *)
(* ended never changes again.                                              *)
(***************************************************************************)
EXTENDS Naturals

CONSTANTS Term,            \* installments of the schedule
          DefaultMisses    \* misses in a row that make a default

VARIABLES status, paid, misses

vars == <<status, paid, misses>>

Live == status \in {"disbursed", "repaying"}

Init == status = "none" /\ paid = 0 /\ misses = 0

Disburse ==
  /\ status = "none"
  /\ status' = "disbursed"
  /\ UNCHANGED <<paid, misses>>

PayAll ==
  /\ Live
  /\ paid' = paid + misses + 1
  /\ misses' = 0
  /\ status' = IF paid' = Term THEN "paid_off" ELSE "repaying"

Miss ==
  /\ Live
  /\ paid + misses < Term
  /\ misses' = misses + 1
  /\ status' = IF misses' = DefaultMisses THEN "defaulted" ELSE "repaying"
  /\ UNCHANGED paid

Next == Disburse \/ PayAll \/ Miss

Spec == Init /\ [][Next]_vars
=============================================================================
