------------------------------ MODULE TownLedger ------------------------------
(***************************************************************************)
(* The double-entry ledger of the town and what is paid through it on a    *)
(* fixed day: wages with their withholding, and unemployment benefits.     *)
(*                                                                         *)
(* A handler of a tick maps the town, a record, to the town it leaves.  A  *)
(* handler that throws leaves the reason in the field fault, and nothing   *)
(* after it is executed; the tick is then rolled back.                     *)
(***************************************************************************)
EXTENDS Integers, FiniteSets, SequencesExt

CONSTANTS Residents,     \* agents in the order of their ids
          Shops,         \* companies in the order of their ids
          Households,    \* households in the order of their ids
          Withholding,   \* personal withholding rate, basis points
          AnnualBenefit  \* unemployment benefit of a year, cents

Utility == "utility"
Treasury == "treasury"
Row == "row"
Mint == "mint"

Agents == ToSet(Residents)
Companies == ToSet(Shops)
Owners == Agents \cup Companies \cup {Utility, Treasury, Row, Mint}

ASSUME LedgerAssumption ==
  /\ IsInjective(Residents) /\ IsInjective(Shops) /\ IsInjective(Households)
  /\ Agents \cap Companies = {}
  /\ {Utility, Treasury, Row, Mint} \cap (Agents \cup Companies) = {}
  /\ Withholding \in 0 .. 10000
  /\ AnnualBenefit \in Nat
  /\ \A i \in DOMAIN Households :
       /\ ToSet(Households[i].members) \subseteq Agents
       /\ {Households[i].rent, Households[i].spare} \subseteq Nat

HouseholdIds == {Households[i].id : i \in DOMAIN Households}

\* The bank reads the accounts of a bill in the order of their ids.
SortedMembers(h) == SelectSeq(Residents, LAMBDA a : a \in ToSet(h.members))

\* Deposits of the town.
Domestic == Owners \ {Row, Mint}

\* Only the rest of the world and the source of the mint may be overdrawn.
floorOf(o) == IF o \in Domestic THEN 0 ELSE -1000000

\* Rows: balances of the accounts, keys of the day's transactions with the kinds
\* that changed the total, active employment, and what was withheld or not paid.
AccountRows == [Owners -> Int]
TransactionKinds == {"payroll", "benefit", "purchase", "row_settlement"}
EmploymentRows == [employer : Companies \cup {Utility}, agent : Agents, annual : Nat \ {0}]
WageRows == [Agents -> Nat]

-----------------------------------------------------------------------------
(* Exact money.                                                            *)

\* n / d to the nearest integer, a tie to the even one.
mulDiv(n, d) ==
  LET q == n \div d
      r == n % d
  IN  IF 2 * r > d \/ (2 * r = d /\ q % 2 = 1) THEN q + 1 ELSE q

applyRateBp(amount, bp) == mulDiv(amount * bp, 10000)

\* Equal parts of an amount: the first ones take a cent of the remainder each.
allocate(total, parts) ==
  [i \in 0 .. parts - 1 |-> (total \div parts) + (IF i < total % parts THEN 1 ELSE 0)]

partAt(total, parts, i) == allocate(total, parts)[i]

-----------------------------------------------------------------------------
(* Posting.  A leg is an owner with the signed change of its account: what *)
(* the ledger debits grows, what it credits shrinks.                       *)

debit(o, amount) == [owner |-> o, amount |-> amount]
credit(o, amount) == [owner |-> o, amount |-> -amount]

deltaOf(legs, o) ==
  FoldLeft(LAMBDA sum, leg : IF leg.owner = o THEN sum + leg.amount ELSE sum, 0, legs)

throw(town, why) == IF town.fault = "none" THEN [town EXCEPT !.fault = why] ELSE town

controlledKinds == {"row_settlement"}

\* A controlled kind needs an account it is controlled by.
assertMoneyChannelAuthorized(kind, legs) ==
  kind \in controlledKinds => \E i \in DOMAIN legs : legs[i].owner = Row

crossesFloor(town, legs) ==
  \E o \in {legs[i].owner : i \in DOMAIN legs} :
    town.balance[o] + deltaOf(legs, o) < floorOf(o)

balanced(legs) == FoldLeft(LAMBDA sum, leg : sum + leg.amount, 0, legs) = 0

\* The kinds of postings that changed what the town holds in total.
auditConservation(town, kind, legs) ==
  LET domestic == SelectSeq(legs, LAMBDA leg : leg.owner \in Domestic)
  IN  IF balanced(domestic) THEN town.channels ELSE town.channels \cup {kind}

saveTransaction(town, kind, key, legs) ==
  [town EXCEPT !.balance = [o \in Owners |-> @[o] + deltaOf(legs, o)],
               !.posted = @ \cup {key},
               !.channels = auditConservation(town, kind, legs)]

\* A key that was posted before is ignored.
post(town, kind, key, legs) ==
  CASE town.fault # "none" \/ key \in town.posted -> town
    [] Cardinality({legs[i].owner : i \in DOMAIN legs}) < 2 -> throw(town, "VALIDATION_FAILED")
    [] ~assertMoneyChannelAuthorized(kind, legs) -> throw(town, "PERMISSION_DENIED")
    [] ~balanced(legs) -> throw(town, "VALIDATION_FAILED")
    [] crossesFloor(town, legs) -> throw(town, "INSUFFICIENT_FUNDS")
    [] OTHER -> saveTransaction(town, kind, key, legs)

-----------------------------------------------------------------------------
(* Wages and benefits.                                                     *)

DAYS_PER_MONTH == 30
PAY_PERIODS_PER_YEAR == 24

dayOfMonth(tick) == ((tick - 1) % DAYS_PER_MONTH) + 1
isPayrollDay(tick) == dayOfMonth(tick) \in {15, 30}

\* Semi-monthly periods of a year, from zero.
periodIndexWithinYear(tick) ==
  LET day == ((tick - 1) % 360) + 1 IN ((day + 14) \div 15) - 1

payrollGrossForPeriod(annual, i) == partAt(annual, PAY_PERIODS_PER_YEAR, i)

quotePayroll(annual, i) ==
  LET gross == payrollGrossForPeriod(annual, i)
      withheld == applyRateBp(gross, Withholding)
  IN  [gross |-> gross, withheld |-> withheld, net |-> gross - withheld]

\* An institution is no company an agent founded: its shortfall comes from the
\* rest of the world.
isInstitution(employer) == employer = Utility

fundInstitution(town, e, gross) ==
  IF isInstitution(e.employer) /\ town.balance[e.employer] < gross
  THEN LET needed == gross - town.balance[e.employer]
       IN  post(town, "row_settlement", <<"funding", e.agent>>,
                <<debit(e.employer, needed), credit(Row, needed)>>)
  ELSE town

payrollTransaction(e, quote) ==
  <<credit(e.employer, quote.gross), debit(e.agent, quote.net)>>
    \o (IF quote.withheld > 0 THEN <<debit(Treasury, quote.withheld)>> ELSE <<>>)

\* A wage that is missed is not owed at the next period.
paySalary(town, e, tick) ==
  LET quote == quotePayroll(e.annual, periodIndexWithinYear(tick))
      funded == fundInstitution(town, e, quote.gross)
  IN  IF funded.balance[e.employer] < quote.gross
      THEN [funded EXCEPT !.missed = @ \cup {e.agent}]
      ELSE [post(funded, "payroll", <<"payroll", e.agent>>, payrollTransaction(e, quote))
              EXCEPT !.paid[e.agent] = quote.gross]

\* Active contracts in the order of their employees.
listPayrollObligations(town) ==
  FoldLeft(LAMBDA list, a :
             list \o SetToSeq({e \in town.employment : e.agent = a}), <<>>, Residents)

runPayroll(town, tick) ==
  IF isPayrollDay(tick)
  THEN FoldLeft(LAMBDA t, e : paySalary(t, e, tick), town, listPayrollObligations(town))
  ELSE town

unemployedAgents(town) ==
  SelectSeq(Residents, LAMBDA a : \A e \in town.employment : e.agent # a)

payBenefit(town, a, benefit) ==
  IF town.balance[Treasury] < benefit THEN town
  ELSE post(town, "benefit", <<"benefit", a>>, <<debit(a, benefit), credit(Treasury, benefit)>>)

runBenefits(town, tick) ==
  LET benefit == payrollGrossForPeriod(AnnualBenefit, periodIndexWithinYear(tick))
  IN  IF isPayrollDay(tick)
      THEN FoldLeft(LAMBDA t, a : payBenefit(t, a, benefit), town, unemployedAgents(town))
      ELSE town

=============================================================================
