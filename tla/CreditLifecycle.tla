--------------------------- MODULE CreditLifecycle ---------------------------
(***************************************************************************)
(* The working-capital loans of founder companies, over the days of one    *)
(* run: application, review, decision, disbursement behind the bank's      *)
(* circuit breakers, collection, default, and the wind-down of an          *)
(* insolvent borrower.  The handlers of a tick run in the fixed order of   *)
(* its phases inside one transaction; a handler that throws rolls the      *)
(* whole tick back and pauses the run.                                     *)
(*                                                                         *)
(* Companies are numbered in the order their handlers visit them.  What    *)
(* customers, payroll and the rest of the world do to the accounts is      *)
(* external: at settlement, balances move between a few levels.            *)
(***************************************************************************)
EXTENDS Integers, FiniteSets

CONSTANTS NCompanies,      \* founder companies
          Principal,       \* cents a founder company borrows
          Term,            \* installments of its loan
          RateBp,          \* annual rate of the offer, basis points
          DaysPerMonth,    \* ticks between two due dates
          ShortfallDays,   \* days of cash shortfall that end a company
          Reserve,         \* the bank's liquid reserves, cents
          ReserveMinBp,    \* minimum reserve ratio, basis points
          OpeningCapital,  \* the bank's capital at genesis, cents
          CapitalMinBp,    \* minimum capital ratio, basis points
          CashLevels,      \* balances settlement can leave a company with
          DepositLevels    \* deposits of everyone else after settlement

ASSUME ScaleAssumption ==
  /\ {NCompanies, Principal, Term, DaysPerMonth, ShortfallDays} \subseteq Nat \ {0}
  /\ {RateBp, Reserve, ReserveMinBp, OpeningCapital, CapitalMinBp} \subseteq Nat
  /\ Term <= Principal
  /\ CashLevels # {} /\ DepositLevels # {}
  /\ CashLevels \subseteq Nat /\ DepositLevels \subseteq Nat

Companies == 1 .. NCompanies
Rows == 1 .. Term
LOAN_DEFAULT_CONSECUTIVE_MISSES == 3

VARIABLES stage,        \* the handler the tick in hand is at, "idle" between ticks
          turn,         \* the company that handler visits next
          committed,    \* the world as the last committed tick left it
          failure,      \* why the last tick failed, "none" while the run is going
          status,       \* company -> companies.status
          shortfall,    \* company -> consecutive days of cash shortfall
          cash,         \* company -> balance of its checking account
          application,  \* company -> status of its loan application
          loan,         \* company -> its row of loans with its installments
          asset,        \* company -> balance of the loan's bank asset account
          bankStatus,   \* banks.status
          bank,         \* balances of the bank's internal accounts
          deposits,     \* checking balances of everyone else
          row           \* balance of the rest-of-world account

world == <<status, shortfall, cash, application, loan, asset,
           bankStatus, bank, deposits, row>>
vars == <<stage, turn, committed, failure, world>>

worldRecord ==
  [status |-> status, shortfall |-> shortfall, cash |-> cash,
   application |-> application, loan |-> loan, asset |-> asset,
   bankStatus |-> bankStatus, bank |-> bank, deposits |-> deposits, row |-> row]

-----------------------------------------------------------------------------
(* The schedule: equal principal, the last row takes the residue, interest *)
(* on the opening principal by 30/360, half to even.                       *)

regularPrincipal == Principal \div Term

openingPrincipal(k) == Principal - (k - 1) * regularPrincipal

\* Mutant: the last row forgets the residue of the division.
principalDueEvenly(k) == regularPrincipal

principalDue(k) == IF k = Term THEN openingPrincipal(k) ELSE regularPrincipal

mulDiv(amount, num, den) ==
  LET quotient == (amount * num) \div den
      twice == 2 * ((amount * num) % den)
  IN  IF twice > den \/ (twice = den /\ quotient % 2 = 1)
      THEN quotient + 1 ELSE quotient

interestDue(k) == mulDiv(openingPrincipal(k), RateBp * 30, 10000 * 360)

\* f[1] + ... + f[n]
sumTo(f, n) ==
  LET upTo[i \in 0 .. n] == IF i = 0 THEN 0 ELSE upTo[i - 1] + f[i]
  IN  upTo[n]

principalOf(ks) == sumTo([k \in Rows |-> IF k \in ks THEN principalDue(k) ELSE 0], Term)
interestOf(ks) == sumTo([k \in Rows |-> IF k \in ks THEN interestDue(k) ELSE 0], Term)

-----------------------------------------------------------------------------
NoLoan == [status |-> "none", age |-> 0, outstanding |-> 0, misses |-> 0,
           rows |-> [k \in Rows |-> "due"]]

NewLoan == [NoLoan EXCEPT !.status = "disbursed", !.outstanding = Principal]

liveLoan(l) == l.status \in {"disbursed", "repaying"}
completedOf(l) == {k \in Rows : l.rows[k] = "completed"}

\* The installment of loan l due exactly today, as a set of at most one row.
dueRows(l) ==
  {k \in Rows : liveLoan(l) /\ l.rows[k] = "due" /\ l.age = k * DaysPerMonth}

\* A collection takes the row due today and every earlier missed one.
targets(l, k) == {j \in 1 .. k : j = k \/ l.rows[j] = "missed"}

canCollect(c, ks) == cash[c] >= principalOf(ks) + interestOf(ks)

\* Mutant: a payment that cures arrears leaves their count standing.
loanStateStillMissed(l, ks) ==
  [l EXCEPT !.outstanding = @ - principalOf(ks),
            !.status = IF l.outstanding = principalOf(ks) THEN "paid_off" ELSE "repaying",
            !.rows = [j \in Rows |-> IF j \in ks THEN "completed" ELSE @[j]]]

loanStateAfterCollection(l, ks) ==
  [l EXCEPT !.outstanding = @ - principalOf(ks),
            !.misses = 0,
            !.status = IF l.outstanding = principalOf(ks) THEN "paid_off" ELSE "repaying",
            !.rows = [j \in Rows |-> IF j \in ks THEN "completed" ELSE @[j]]]

\* Mutant: a default clears what is outstanding before it is written down.
loanStateAfterMissCleared(l, k) ==
  LET defaults == l.misses + 1 >= LOAN_DEFAULT_CONSECUTIVE_MISSES
  IN  [l EXCEPT !.misses = @ + 1,
                !.status = IF defaults THEN "defaulted" ELSE "repaying",
                !.outstanding = IF defaults THEN 0 ELSE @,
                !.rows[k] = "missed"]

loanStateAfterMiss(l, k) ==
  [l EXCEPT !.misses = @ + 1,
            !.status = IF l.misses + 1 >= LOAN_DEFAULT_CONSECUTIVE_MISSES
                       THEN "defaulted" ELSE "repaying",
            !.rows[k] = "missed"]

-----------------------------------------------------------------------------
(* The bank's position and its breakers.                                   *)

sumCash == sumTo(cash, NCompanies)
totalDeposits == deposits + sumCash

ratioBp(numerator, denominator) ==
  IF denominator = 0 THEN 10000
  ELSE LET r == (numerator * 10000) \div denominator IN IF r > 100000 THEN 100000 ELSE r

effectiveCapital ==
  LET c == OpeningCapital + bank.income - bank.loss IN IF c > 0 THEN c ELSE 0

\* Mutant: the position is assessed without the loan asked for.
assessedDepositsToday == totalDeposits

\* The ratios a loan of the standard amount would leave.
assessedDeposits == totalDeposits + Principal

systemicPassed ==
  /\ ratioBp(Reserve, assessedDeposits) >= ReserveMinBp
  /\ ratioBp(effectiveCapital, assessedDeposits) >= CapitalMinBp

bankStatusAfter == IF systemicPassed THEN "active" ELSE "lending_halted"

-----------------------------------------------------------------------------
(* One tick: its phases, its commit, its rollback.                         *)

advanceTo(s) == IF turn = NCompanies THEN stage' = s /\ turn' = 1
                                     ELSE stage' = stage /\ turn' = turn + 1

\* A tick opens a transaction, and every loan is a day older.
beginTick ==
  /\ stage = "idle" /\ failure = "none"
  /\ stage' = "collect" /\ turn' = 1
  /\ loan' = [c \in Companies |->
       IF liveLoan(loan[c]) /\ loan[c].age < Term * DaysPerMonth + 1
       THEN [loan[c] EXCEPT !.age = @ + 1] ELSE loan[c]]
  /\ UNCHANGED <<committed, failure, status, shortfall, cash, application, asset,
                 bankStatus, bank, deposits, row>>

failTick(why) ==
  /\ failure' = why
  /\ status' = committed.status /\ shortfall' = committed.shortfall
  /\ cash' = committed.cash /\ deposits' = committed.deposits /\ row' = committed.row
  /\ application' = committed.application /\ loan' = committed.loan
  /\ asset' = committed.asset /\ bank' = committed.bank
  /\ bankStatus' = committed.bankStatus
  /\ stage' = "idle" /\ turn' = 1
  /\ UNCHANGED committed

commitTick ==
  /\ stage = "commit"
  /\ committed' = worldRecord
  /\ stage' = "idle"
  /\ UNCHANGED <<turn, failure, world>>

\* An operator resumes the paused run, which tries the same tick again.
resume ==
  /\ failure # "none"
  /\ failure' = "none"
  /\ UNCHANGED <<stage, turn, committed, world>>

-----------------------------------------------------------------------------
(* Obligations: collection, one loan at a time.                            *)

nothingDue(c) ==
  /\ dueRows(loan[c]) = {}
  /\ advanceTo("credit")
  /\ UNCHANGED <<committed, failure, world>>

collect(c) ==
  \E k \in dueRows(loan[c]) :
    LET ks == targets(loan[c], k)
    IN  /\ status[c] = "active"
        /\ canCollect(c, ks)
        /\ cash' = [cash EXCEPT ![c] = @ - principalOf(ks) - interestOf(ks)]
        /\ asset' = [asset EXCEPT ![c] = @ - principalOf(ks)]
        /\ bank' = [bank EXCEPT !.source = @ + 2 * principalOf(ks),
                                !.income = @ + interestOf(ks)]
        /\ loan' = [loan EXCEPT ![c] = loanStateAfterCollection(@, ks)]
        /\ advanceTo("credit")
        /\ UNCHANGED <<committed, failure, status, shortfall, application,
                       bankStatus, deposits, row>>

\* The write-down of a third miss moves what is outstanding to credit losses.
recordDefault(c, outstanding) ==
  /\ asset' = [asset EXCEPT ![c] = @ - outstanding]
  /\ bank' = [bank EXCEPT !.loss = @ + outstanding]

recordMiss(c) ==
  \E k \in dueRows(loan[c]) :
    LET l == loanStateAfterMiss(loan[c], k)
    IN  /\ status[c] = "active"
        /\ ~canCollect(c, targets(loan[c], k))
        /\ loan' = [loan EXCEPT ![c] = l]
        /\ IF l.status = "defaulted"
           THEN recordDefault(c, l.outstanding)
           ELSE UNCHANGED <<asset, bank>>
        /\ advanceTo("credit")
        /\ UNCHANGED <<committed, failure, status, shortfall, cash, application,
                       bankStatus, deposits, row>>

\* The checking account of a wound-down borrower is closed.
borrowerAccountClosed(c) ==
  /\ dueRows(loan[c]) # {}
  /\ status[c] = "closed"
  /\ failTick("borrower account is not active")

processDueInstallments ==
  /\ stage = "collect"
  /\ \/ nothingDue(turn)
     \/ collect(turn)
     \/ recordMiss(turn)
     \/ borrowerAccountClosed(turn)

-----------------------------------------------------------------------------
(* Execution: at most one step of the credit lifecycle per company.        *)

noCreditStep(c) ==
  /\ \/ status[c] = "closed"
     \/ application[c] = "rejected"
     \/ loan[c].status # "none"
     \/ application[c] = "none"        \* launched or earning too little so far
  /\ advanceTo("settle")
  /\ UNCHANGED <<committed, failure, world>>

submitApplication(c) ==
  /\ status[c] = "active" /\ application[c] = "none" /\ bankStatus = "active"
  /\ application' = [application EXCEPT ![c] = "submitted"]
  /\ advanceTo("settle")
  /\ UNCHANGED <<committed, failure, status, shortfall, cash, loan, asset,
                 bankStatus, bank, deposits, row>>

noActiveBank(c) ==
  /\ status[c] = "active" /\ application[c] = "none" /\ bankStatus # "active"
  /\ failTick("no active bank")

\* Mutant: a halted bank reviews nothing.
beginReviewUnlessHalted(c) ==
  /\ status[c] = "active" /\ application[c] = "submitted"
  /\ application' = [application EXCEPT ![c] =
       IF bankStatus = "active" THEN "under_review" ELSE "submitted"]
  /\ advanceTo("settle")
  /\ UNCHANGED <<committed, failure, status, shortfall, cash, loan, asset,
                 bankStatus, bank, deposits, row>>

beginReview(c) ==
  /\ status[c] = "active" /\ application[c] = "submitted"
  /\ application' = [application EXCEPT ![c] = "under_review"]
  /\ advanceTo("settle")
  /\ UNCHANGED <<committed, failure, status, shortfall, cash, loan, asset,
                 bankStatus, bank, deposits, row>>

\* The breakers are assessed first; score, income and term are external.
decideApplication(c) ==
  /\ status[c] = "active" /\ application[c] = "under_review"
  /\ bankStatus' = bankStatusAfter
  /\ \E applicantPassed \in BOOLEAN :
       application' = [application EXCEPT ![c] =
         IF applicantPassed /\ systemicPassed THEN "approved" ELSE "rejected"]
  /\ advanceTo("settle")
  /\ UNCHANGED <<committed, failure, status, shortfall, cash, loan, asset,
                 bank, deposits, row>>

tryDisburseApprovedApplication(c) ==
  /\ status[c] = "active" /\ application[c] = "approved" /\ loan[c].status = "none"
  /\ bankStatus' = bankStatusAfter
  /\ IF systemicPassed
     THEN /\ loan' = [loan EXCEPT ![c] = NewLoan]
          /\ asset' = [asset EXCEPT ![c] = @ + Principal]
          /\ cash' = [cash EXCEPT ![c] = @ + Principal]
          /\ bank' = [bank EXCEPT !.source = @ - 2 * Principal]
     ELSE UNCHANGED <<loan, asset, cash, bank>>
  /\ advanceTo("settle")
  /\ UNCHANGED <<committed, failure, status, shortfall, application, deposits, row>>

processCreditLifecycle ==
  /\ stage = "credit"
  /\ \/ noCreditStep(turn)
     \/ submitApplication(turn)
     \/ noActiveBank(turn)
     \/ beginReview(turn)
     \/ decideApplication(turn)
     \/ tryDisburseApprovedApplication(turn)

-----------------------------------------------------------------------------
(* Settlement is external; the rest of the world balances what it moves.   *)

settle ==
  /\ stage = "settle"
  /\ \E levels \in [Companies -> CashLevels] :
       cash' = [c \in Companies |-> IF status[c] = "active" THEN levels[c] ELSE cash[c]]
  /\ deposits' \in DepositLevels
  /\ row' = row + totalDeposits - totalDeposits'
  /\ stage' = "solvency"
  /\ UNCHANGED <<turn, committed, failure, status, shortfall, application, loan, asset,
                 bankStatus, bank>>

(* Metrics: a day's shortfall counts, the last of a streak winds the       *)
(* company down: its cash goes to its creditors and its account is closed. *)
(* The obligations compared with its cash are external, and no loan is     *)
(* among them.                                                             *)

windDown(c) ==
  /\ status' = [status EXCEPT ![c] = "closed"]
  /\ cash' = [cash EXCEPT ![c] = 0]
  /\ deposits' = deposits + cash[c]

assessCompany(c) ==
  /\ status[c] = "active"
  /\ \E short \in BOOLEAN :
       LET days == IF short THEN shortfall[c] + 1 ELSE 0
           insolvent == days >= ShortfallDays
       IN  /\ shortfall' = [shortfall EXCEPT ![c] = days]
           /\ IF insolvent THEN windDown(c) ELSE UNCHANGED <<status, cash, deposits>>
  /\ advanceTo("commit")
  /\ UNCHANGED <<committed, failure, application, loan, asset, bankStatus, bank, row>>

alreadyClosed(c) ==
  /\ status[c] = "closed"
  /\ advanceTo("commit")
  /\ UNCHANGED <<committed, failure, world>>

assessAll ==
  /\ stage = "solvency"
  /\ (assessCompany(turn) \/ alreadyClosed(turn))

-----------------------------------------------------------------------------
Init ==
  /\ stage = "idle" /\ turn = 1 /\ failure = "none"
  /\ status = [c \in Companies |-> "active"]
  /\ shortfall = [c \in Companies |-> 0]
  /\ cash \in [Companies -> CashLevels]
  /\ application = [c \in Companies |-> "none"]
  /\ loan = [c \in Companies |-> NoLoan]
  /\ asset = [c \in Companies |-> 0]
  /\ bankStatus = "active"
  /\ bank = [source |-> 0, income |-> 0, loss |-> 0]
  /\ deposits \in DepositLevels
  /\ row = - totalDeposits
  /\ committed = worldRecord

Next ==
  \/ beginTick
  \/ processDueInstallments
  \/ processCreditLifecycle
  \/ settle
  \/ assessAll
  \/ commitTick
  \/ resume

Spec == Init /\ [][Next]_vars

\* A running run ticks on by itself; only the operator's resume is not owed.
LiveSpec ==
  Spec /\ WF_vars(beginTick \/ processDueInstallments \/ processCreditLifecycle
                  \/ settle \/ assessAll \/ commitTick)

-----------------------------------------------------------------------------
(* Properties.                                                             *)

\* Rows of the tables: "none" stands for no row yet.
ApplicationRows == {"none", "submitted", "under_review", "approved", "rejected", "withdrawn"}
InstallmentRows == {"due", "missed", "completed"}
LoanRows ==
  [status : {"none", "disbursed", "repaying", "paid_off", "defaulted"},
   age : 0 .. Term * DaysPerMonth + 1, outstanding : 0 .. Principal,
   misses : 0 .. LOAN_DEFAULT_CONSECUTIVE_MISSES, rows : [Rows -> InstallmentRows]]

\* Every state is well typed; no balance of the bank, and no borrower's, is
\* negative, and a loan never owes more than it lent.
TypeOK ==
  /\ stage \in {"idle", "collect", "credit", "settle", "solvency", "commit"}
  /\ turn \in Companies
  /\ failure \in {"none", "borrower account is not active", "no active bank"}
  /\ status \in [Companies -> {"active", "closed"}]
  /\ shortfall \in [Companies -> 0 .. ShortfallDays]
  /\ cash \in [Companies -> Nat]
  /\ application \in [Companies -> ApplicationRows]
  /\ loan \in [Companies -> LoanRows]
  /\ asset \in [Companies -> 0 .. Principal]
  /\ bankStatus \in {"active", "lending_halted"}
  /\ bank \in [source : Int, income : Nat, loss : Nat]
  /\ deposits \in Nat /\ row \in Int

\* The rows of every loan are a run of completed ones, then exactly as many
\* missed ones as the loan counts in a row, then the rows not yet due: arrears
\* are cured all together or not at all (processOne, collect, recordMiss).
ArrearsInOrder ==
  \A c \in Companies : \E paid \in 0 .. Term :
    \A k \in Rows : loan[c].rows[k] =
      CASE k <= paid -> "completed"
        [] paid < k /\ k <= paid + loan[c].misses -> "missed"
        [] paid + loan[c].misses < k -> "due"

\* The ledger agrees with the loans: the asset of a live loan is what it still
\* owes and its schedule still holds, a default leaves the asset empty and the
\* same sum in credit losses, interest income is the interest of the completed
\* rows, the loan source mirrors every principal twice, and no money appears
\* or disappears over all accounts.
LedgerMatchesLoans ==
  LET owed == [c \in Companies |-> loan[c].outstanding]
      lost == [c \in Companies |->
                 IF loan[c].status = "defaulted" THEN loan[c].outstanding ELSE 0]
      earned == [c \in Companies |-> interestOf(completedOf(loan[c]))]
      total(f) == sumTo(f, NCompanies)
  IN  /\ \A c \in Companies : loan[c].status # "none" =>
           loan[c].outstanding = Principal - principalOf(completedOf(loan[c]))
      /\ \A c \in Companies :
           asset[c] = IF liveLoan(loan[c]) THEN loan[c].outstanding ELSE 0
      /\ bank.loss = total(lost)
      /\ bank.income = total(earned)
      /\ bank.source = -2 * total(owed)
      /\ row + totalDeposits + total(asset) + bank.source + bank.income + bank.loss = 0

\* Whatever crosses in between, each row of a loan is evaluated on its day: a
\* committed row of a live loan is still due only if its day is to come.
NoInstallmentSkipped ==
  \A c \in Companies : LET l == committed.loan[c]
                         IN  liveLoan(l) =>
    \A k \in Rows : l.rows[k] = "due" => k * DaysPerMonth > l.age

\* The schedule is kept: no row is passed over, and arrears are one block.
ScheduleKept == ArrearsInOrder /\ NoInstallmentSkipped

\* Committed tick by committed tick, each loan keeps the contract of a loan.
Contract(c) ==
  INSTANCE LoanContract WITH
    DefaultMisses <- LOAN_DEFAULT_CONSECUTIVE_MISSES,
    status <- committed.loan[c].status,
    misses <- committed.loan[c].misses,
    paid <- Cardinality(completedOf(committed.loan[c]))

LoanContracts ==
  /\ \A c \in Companies : Contract(c)!Init
  /\ [][\A c \in Companies : [Contract(c)!Next]_(Contract(c)!vars)]_committed

\* An application in the pipeline is decided, unless its company fails first
\* or the run itself is brought to a stop.
ApplicationsDecided ==
  \A c \in Companies :
    application[c] \in {"submitted", "under_review"} ~>
      \/ application[c] \in {"approved", "rejected"}
      \/ status[c] = "closed"
      \/ failure # "none"

=============================================================================
