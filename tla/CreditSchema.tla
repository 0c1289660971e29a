----------------------------- MODULE CreditSchema -----------------------------
(***************************************************************************)
(* The database under the bank's credit handlers.  Its CHECKs and triggers *)
(* refuse a write that is not a step of a loan: RAISE(ABORT) fails the     *)
(* whole tick, and since a resumed run tries the same tick again, a write  *)
(* of the handlers that the schema refuses would stop the run for good.    *)
(* The rules are translated from the SQL, the writes from the handlers.    *)
(***************************************************************************)
EXTENDS CreditLifecycle

-----------------------------------------------------------------------------
(* Applications, reviews, decisions.                                       *)

loan_applications_status_transition ==
  ({"submitted"} \X {"under_review", "withdrawn"})
    \cup ({"under_review"} \X {"approved", "rejected", "withdrawn"})

\* An application is inserted undecided, for a bank that is not closed.
loan_applications(c) == application[c] = "none" /\ application'[c] = "submitted"

\* The review is inserted before the application is updated.
loan_application_reviews_valid_insert(c) ==
  application'[c] = "under_review" => application[c] = "submitted"

decided(c) == application'[c] \in {"approved", "rejected"} /\ application[c] # application'[c]

loan_application_decisions_valid_insert(c) ==
  decided(c) => application[c] = "under_review"

-----------------------------------------------------------------------------
(* The assessment of the breakers, as a row.                               *)

evaluateBankLendingCircuit ==
  [before |-> bankStatus, deposits |-> totalDeposits, projected |-> assessedDeposits,
   capital |-> effectiveCapital,
   reservePassed |-> ratioBp(Reserve, assessedDeposits) >= ReserveMinBp,
   capitalPassed |-> ratioBp(effectiveCapital, assessedDeposits) >= CapitalMinBp,
   after |-> bankStatusAfter]

allowed(a) == a.reservePassed /\ a.capitalPassed

\* CHECKs of the row by itself.
bank_lending_assessments(a) ==
  /\ a.projected = a.deposits + Principal
  /\ a.before # "closed"
  /\ a.after = IF allowed(a) THEN "active" ELSE "lending_halted"

atLeast(amount, base, minBp) ==
  LET bp == (amount * 10000) \div base IN (IF bp > 100000 THEN 100000 ELSE bp) >= minBp

\* The row against the accounts of the bank: each sum and ratio again, in SQL.
bank_lending_assessments_valid_insert(a) ==
  LET net == OpeningCapital + bank.income - bank.loss
      checking == deposits + sumTo(cash, NCompanies)
  IN  /\ a.before = bankStatus
      /\ a.deposits = checking
      /\ a.capital = IF net > 0 THEN net ELSE 0
      /\ a.reservePassed <=> atLeast(Reserve, a.projected, ReserveMinBp)
      /\ a.capitalPassed <=> atLeast(a.capital, a.projected, CapitalMinBp)

\* The handlers that assess: at a decision, and before a disbursement.
assessing(c) ==
  /\ stage = "credit" /\ turn = c /\ status[c] = "active"
  /\ \/ application[c] = "under_review"
     \/ application[c] = "approved" /\ loan[c].status = "none"

bank_lending_status_requires_assessment ==
  bankStatus' # bankStatus =>
    \E c \in Companies : assessing(c) /\ evaluateBankLendingCircuit.after = bankStatus'

loan_decisions_require_circuit_assessment(c) ==
  decided(c) =>
    /\ assessing(c)
    /\ application'[c] = "approved" => allowed(evaluateBankLendingCircuit)

loans_require_circuit_assessment(c) ==
  assessing(c) /\ application[c] = "approved" /\ allowed(evaluateBankLendingCircuit)

-----------------------------------------------------------------------------
(* Loans and their installments.                                           *)

inserted(c) == loan[c].status = "none" /\ loan'[c].status # "none"

\* The three legs of the disbursement, and no fourth.
disbursement_legs(c) ==
  /\ asset'[c] = asset[c] + Principal
  /\ cash'[c] = cash[c] + Principal
  /\ bank' = [bank EXCEPT !.source = @ - 2 * Principal]

loans_valid_insert(c) ==
  /\ application[c] = "approved"
  /\ status[c] = "active"                 \* its deposit account is open
  /\ disbursement_legs(c)

\* A full schedule, every row due on its day.
loan_installments(c) ==
  /\ loan'[c].status = "disbursed" /\ loan'[c].age = 0
  /\ loan'[c].outstanding = Principal /\ loan'[c].misses = 0
  /\ \A k \in Rows : loan'[c].rows[k] = "due"

loan_installments_collection_transition ==
  {<<"due", "missed">>, <<"due", "completed">>, <<"missed", "completed">>}

changedRows(c) == {k \in Rows : loan[c].rows[k] # loan'[c].rows[k]}
completedRows(c) == {k \in changedRows(c) : loan'[c].rows[k] = "completed"}

\* Every completed row has its own payment, with exactly the amounts of the row.
loan_installments_payment_valid(c) ==
  LET ks == completedRows(c)
  IN  ks # {} =>
        /\ cash'[c] = cash[c] - principalOf(ks) - interestOf(ks)
        /\ asset'[c] = asset[c] - principalOf(ks)
        /\ bank' = [bank EXCEPT !.source = @ + 2 * principalOf(ks),
                                !.income = @ + interestOf(ks)]

\* The columns of a loan that a collection may update, at any time.
updated(c) ==
  LET columns(l) == <<l.status, l.outstanding, l.misses>>
  IN  loan[c].status # "none" /\ columns(loan[c]) # columns(loan'[c])

loans_collection_transition(l, m) ==
  LET missed == m.misses = l.misses + 1 /\ m.outstanding = l.outstanding
  IN  /\ l.status \in {"disbursed", "repaying"}
      /\ \/ m.status = "repaying" /\ missed /\ m.misses < 3
         \/ m.status = "repaying" /\ m.outstanding < l.outstanding /\ m.misses = 0
         \/ m.status = "paid_off" /\ m.outstanding = 0 /\ m.misses = 0
         \/ m.status = "defaulted" /\ missed /\ m.misses >= 3

loans_outstanding_matches_installments(m) ==
  m.outstanding = Principal - principalOf(completedOf(m))

\* The record of a default: what is outstanding, positive, is written down.
loan_defaults(c) ==
  /\ loan'[c].outstanding > 0
  /\ Cardinality({k \in Rows : loan'[c].rows[k] = "missed"}) >= 3

loan_defaults_valid_insert(c) ==
  /\ loan'[c].misses >= 3
  /\ asset'[c] = asset[c] - loan'[c].outstanding
  /\ bank' = [bank EXCEPT !.loss = @ + loan'[c].outstanding]

-----------------------------------------------------------------------------
(* Properties.                                                             *)

applicationAccepted(c) ==
  application'[c] # application[c] =>
    /\ loan_applications(c) \/
         <<application[c], application'[c]>> \in loan_applications_status_transition
    /\ loan_application_reviews_valid_insert(c)
    /\ loan_application_decisions_valid_insert(c)
    /\ loan_decisions_require_circuit_assessment(c)

assessmentAccepted(c) ==
  assessing(c) =>
    /\ bank_lending_assessments(evaluateBankLendingCircuit)
    /\ bank_lending_assessments_valid_insert(evaluateBankLendingCircuit)

loanAccepted(c) ==
  /\ inserted(c) =>
       /\ loans_require_circuit_assessment(c)
       /\ loans_valid_insert(c)
       /\ loan_installments(c)
  /\ updated(c) =>
       /\ \A k \in changedRows(c) : <<loan[c].rows[k], loan'[c].rows[k]>>
                                      \in loan_installments_collection_transition
       /\ loan_installments_payment_valid(c)
       /\ loans_collection_transition(loan[c], loan'[c])
       /\ loans_outstanding_matches_installments(loan'[c])
       /\ loan'[c].status = "defaulted" => loan_defaults(c) /\ loan_defaults_valid_insert(c)

\* The schema never refuses a write of the handlers, whatever arrears, defaults
\* and halts came before: no loan or application can stop the run in a trigger,
\* and no company's row but those its handler names is touched.
SchemaAccepts ==
  [][failure' = "none" /\ failure = "none" =>
       /\ bank_lending_status_requires_assessment
       /\ \A c \in Companies :
            applicationAccepted(c) /\ assessmentAccepted(c) /\ loanAccepted(c)]_vars

(* The books of every state: types, schedules, and the ledger beside them. *)
BooksKept == TypeOK /\ ScheduleKept /\ LedgerMatchesLoans
=============================================================================
