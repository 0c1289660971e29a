----------------------------- MODULE CompanyLife ------------------------------
(***************************************************************************)
(* The companies agents found, from the achieved goal to the wind-down:    *)
(* the formation pipeline with its incorporation contract, the launch that *)
(* hires a first worker and offers a product, employment and its end, the  *)
(* daily solvency assessment, and the liquidation of an insolvent company. *)
(*                                                                         *)
(* A tick runs its handlers in the order of the variable phase, in one     *)
(* transaction; a handler that throws fails the tick and stops the run,    *)
(* which is the phase "failed".  Each founder founds at most one company,  *)
(* so a company bears the number of its founder.  Trade, wages, households *)
(* and energy bills of the rest of the town are external: at settlement    *)
(* they leave a company or a founder with one of a few balances.           *)
(***************************************************************************)
EXTENDS LegalContract, Integers, FiniteSetsExt, SequencesExt

CONSTANTS Population,   \* agents of the labor force, numbered from 1
          Founders,     \* those with a goal to start a business
          Fee,          \* incorporation fee, cents
          Capital,      \* founding capital a goal saves for, cents
          Wage,         \* gross pay of one payroll period, cents
          Bill,         \* a month's energy bill of a company, cents
          RowPrice,     \* the rest of the world's reference price of a unit, cents
          MinUnemploymentBp, \* unemployment a launch may not hire below
          ShortfallDays,     \* consecutive days of shortfall that end a company
          MaxAge,       \* bound on the ticks counted since activation
          WalletLevels, \* balances a founder's spending can leave
          CashLevels,   \* balances a company's trade can leave
          FundCash      \* opening balance of the venture fund, cents

Companies == Founders
Agents == 1 .. Population
Workers == Agents \ Founders
Nobody == 0

ASSUME TownAssumption ==
  /\ Population \in Nat
  /\ Founders \subseteq Agents /\ Founders # {}
  /\ {Fee, Capital, Wage, Bill, RowPrice, ShortfallDays, MaxAge} \subseteq Nat \ {0}
  /\ MinUnemploymentBp \in Nat
  /\ WalletLevels \subseteq Nat /\ CashLevels \subseteq Nat
  /\ FundCash \in Nat

VARIABLES phase,      \* the handler that runs next; "failed" once one has thrown
          turn,       \* company the solvency handler visits next
          goal,       \* founder -> status of the goal to start a business
          wallet,     \* agent -> balance
          employer,   \* agent -> agents.organization_id, Nobody if unemployed
          company,    \* company -> its row of companies
          cash,       \* company -> balance of its checking account
          contract,   \* company -> type -> its legal contract
          job,        \* company -> status of its launch job
          employment, \* company -> employee and status of its employment contract
          notice,     \* company -> ticks to a pending termination, or none
          offering,   \* company -> whether its offering is active
          stock,      \* company -> units in its inventory
          arrears,    \* company -> its rejected energy bills, cents
          streak,     \* company -> consecutive days of shortfall
          windDown_,  \* company -> its row of company_wind_downs with the claims
          others      \* balances of filing counsel, utility, fund, rest of the world

lifeVars == <<phase, turn, goal, wallet, employer, company, cash, contract, job,
              employment, notice, offering, stock, arrears, streak, windDown_, others>>

none == -1
unemployed == {a \in Agents : employer[a] = Nobody}

Stages == <<"agreement_drafted", "fee_paid", "registered", "account_opened",
            "capitalized", "active">>

\* The rows of the tables the handlers write.
CompanyRows ==
  [status : {"none", "forming", "registered", "active", "closed"},
   stage : {"none"} \cup ToSet(Stages), age : 0 .. MaxAge]
JobStatuses == {"none", "open", "filled", "withdrawn"}
EmploymentRows == [status : {"none", "active", "ended"}, agent : Agents \cup {Nobody}]
ClaimRows == [kind : {"employee_wage", "trade", "equity_residual"},
              creditor : Agents \cup {Nobody}, amount : Nat \ {0}]
RecoveryRows == [claim : ClaimRows, recovered : Nat]

NoCompany == [status |-> "none", stage |-> "none", age |-> 0]
NoEmployment == [status |-> "none", agent |-> Nobody]
NoWindDown == [pool |-> 0, claims |-> <<>>]

\* The next handler, in the order of the phases of a tick.
after == [obligations |-> "goals", goals |-> "decisions", decisions |-> "investments",
          investments |-> "formation", formation |-> "launch", launch |-> "settlement",
          settlement |-> "metrics", metrics |-> "obligations"]

fail(why) == phase' = why

Failures == {"INSUFFICIENT_FUNDS", "company wind-down left dangling state",
             "cannot issue investment shares", "requires its open negotiated fund",
             "investment close lacks matching rows"}

-----------------------------------------------------------------------------
(* Obligations: contracts and terminations that have come due.             *)

legalContractToday(k) ==
  LET overdue == overdueObligation(k)
      today == [k EXCEPT !.wait = 0]
      active == IF today.status = "signed" THEN transitionLegalContract(today, "active") ELSE today
  IN  IF overdue THEN transitionLegalContract(active, "breached")
                 ELSE fireLegalObligation(active)

\* Terminations whose notice has run out.
terminationsDue == {c \in Companies : notice[c] = 1}

terminated(k) == transitionLegalContract(k, "terminated")

processEmploymentTerminations ==
  /\ employment' = [c \in Companies |->
       IF c \in terminationsDue THEN [employment[c] EXCEPT !.status = "ended"] ELSE employment[c]]
  /\ employer' = [a \in Agents |->
       IF \E c \in terminationsDue : employment[c].agent = a THEN Nobody ELSE employer[a]]

processLegalObligations ==
  /\ phase = "obligations"
  /\ company' = [c \in Companies |->
       IF company[c].stage = "active" /\ company[c].age < MaxAge
       THEN [company[c] EXCEPT !.age = @ + 1] ELSE company[c]]
  /\ notice' = [c \in Companies |->
       IF notice[c] > 0 THEN notice[c] - 1 ELSE notice[c]]
  /\ processEmploymentTerminations
  /\ contract' = [c \in Companies |-> [t \in ContractTypes |->
       IF t = "employment" /\ c \in terminationsDue
       THEN terminated(legalContractToday(contract[c][t]))
       ELSE legalContractToday(contract[c][t])]]
  /\ phase' = after[phase]
  /\ UNCHANGED <<turn, goal, wallet, cash, job, offering, stock, arrears, streak,
                 windDown_, others>>

(* Perception and decisions: agents' goals progress or are given up, and    *)
(* an employee may give notice.                                             *)

\* A goal that is given up never founds anything: it stays out, as if active.
goalMoves(s) == IF s = "active" THEN {"active", "achieved"} ELSE {s}

goalsProgress ==
  /\ phase = "goals"
  /\ goal' \in {g \in [Founders -> {"active", "achieved"}] :
                  \A f \in Founders : g[f] \in goalMoves(goal[f])}
  /\ phase' = after[phase]
  /\ UNCHANGED <<turn, wallet, employer, company, cash, contract, job, employment,
                 notice, offering, stock, arrears, streak, windDown_, others>>

noticeDays == 1

\* Called by scenario drivers only; no agent action of the program does so.
requestEmploymentTermination(c) ==
  /\ phase = "decisions"
  /\ employment[c].status = "active" /\ notice[c] = none
  /\ notice' = [notice EXCEPT ![c] = noticeDays]
  /\ UNCHANGED <<phase, turn, goal, wallet, employer, company, cash, contract, job,
                 employment, offering, stock, arrears, streak, windDown_, others>>

-----------------------------------------------------------------------------
(* Execution: formation, one stage of one company per tick.                 *)

hasFounded(f) == company[f].status # "none"

readyToForm ==
  {f \in Founders : goal[f] = "achieved" /\ ~hasFounded(f) /\ wallet[f] >= Capital + Fee}

requestCompanyFormation ==
  [status |-> "forming", stage |-> "agreement_drafted", age |-> 0]

\* Founder and filing counsel sign on the tick of the draft.
incorporationSigned ==
  signLegalContract(signLegalContract(createContractFromTemplate("incorporation", 1)))

\* A goal whose founder lacks the funds waits; the funds are not set aside.
processAchievedFounderGoals(co, con) ==
  [company  |-> [c \in Companies |-> IF c \in readyToForm THEN requestCompanyFormation ELSE co[c]],
   contract |-> [c \in Companies |->
      IF c \in readyToForm THEN [con[c] EXCEPT !["incorporation"] = incorporationSigned] ELSE con[c]]]

\* Mutant: the fee waits for a contract that is still only signed.
payingFeeSigned == {c \in Companies : company[c].stage = "agreement_drafted"
                                      /\ contract[c]["incorporation"].status = "signed"}

\* The fee waits for the contract to be active, every later stage for a tick.
payingFee == {c \in Companies : company[c].stage = "agreement_drafted"
                                /\ contract[c]["incorporation"].status = "active"}
depositing == {c \in Companies : company[c].stage = "account_opened"}

canFund == /\ \A c \in payingFee : wallet[c] >= Fee
           /\ \A c \in depositing : wallet[c] >= Capital

nextStage(c) ==
  LET s == company[c].stage
      i == CHOOSE j \in 1 .. 5 : Stages[j] = s
  IN  IF s \in {"none", "active"} \/ (s = "agreement_drafted" /\ c \notin payingFee)
      THEN s ELSE Stages[i + 1]

updateCompanyStage(c) ==
  [company[c] EXCEPT !.stage = nextStage(c),
     !.status = CASE nextStage(c) = "registered" /\ @ = "forming" -> "registered"
                  [] nextStage(c) = "active" /\ @ = "registered"  -> "active"
                  [] OTHER -> @]

paidIn(c) == c \in depositing

processCompanyFormations ==
  /\ wallet' = [a \in Agents |->
       wallet[a] - (IF a \in payingFee THEN Fee ELSE 0)
                 - (IF a \in Founders /\ a \in depositing THEN Capital ELSE 0)]
  /\ cash' = [c \in Companies |-> IF paidIn(c) THEN cash[c] + Capital ELSE cash[c]]
  /\ others' = [others EXCEPT !.counsel = @ + Fee * Cardinality(payingFee)]

formCompanies ==
  /\ phase = "formation"
  /\ canFund
  /\ processCompanyFormations
  /\ LET staged == [c \in Companies |-> updateCompanyStage(c)]
         paid == [c \in Companies |->
           IF c \in payingFee THEN [contract[c] EXCEPT !["incorporation"] = completeLegalObligation(@)]
                              ELSE contract[c]]
         formed == processAchievedFounderGoals(staged, paid)
     IN  company' = formed.company /\ contract' = formed.contract
  /\ phase' = after[phase]
  /\ UNCHANGED <<turn, goal, employer, job, employment, notice, offering, stock, arrears,
                 streak, windDown_>>

\* The funds were seen at the request; they may be gone ticks later.
formationUnfunded ==
  /\ phase = "formation"
  /\ ~canFund
  /\ fail("INSUFFICIENT_FUNDS")
  /\ UNCHANGED <<turn, goal, wallet, employer, company, cash, contract, job, employment, notice,
                 offering, stock, arrears, streak, windDown_, others>>

-----------------------------------------------------------------------------
(* Execution: the launch.  Companies in the order of their activation post *)
(* a job, take on the first unemployed agent but their founder, and offer  *)
(* a product once the job is filled, all on one tick.                      *)

\* Active since an earlier tick, with its launch not completed.
eligibleCompanies ==
  {c \in Companies : company[c].status = "active" /\ company[c].age > 0 /\ job[c] # "filled"}

\* The longest active comes first, and the lower number of two as old.
before(c, d) == company[c].age > company[d].age \/ (company[c].age = company[d].age /\ c < d)
first(S) == CHOOSE c \in S : \A d \in S \ {c} : before(c, d)

launchCandidate(c, emp) ==
  LET idle == {a \in Agents : emp[a] = Nobody}
      projected == ((Cardinality(idle) - 1) * 10000) \div Cardinality(Agents)
  IN  IF idle # {} /\ projected >= MinUnemploymentBp THEN idle \ {c} ELSE {}

employmentSigned ==
  transitionLegalContract(
    signLegalContract(signLegalContract(createContractFromTemplate("employment", 0))), "active")

hireApplication(c, a, w) ==
  [w EXCEPT !.employer[a] = c,
            !.employment[c] = [status |-> "active", agent |-> a],
            !.contract[c]["employment"] = employmentSigned,
            !.job[c] = "filled",
            !.offering[c] = TRUE]

postJob(c, w) == [w EXCEPT !.job[c] = "open"]

launchOne(w, c) ==
  LET posted == postJob(c, w)
      hireable == launchCandidate(c, w.employer)
  IN  IF hireable = {} THEN posted ELSE hireApplication(c, Min(hireable), posted)

\* The rows the launches work on, with the companies still to come, ...
launchStart ==
  [employer |-> employer, employment |-> employment, contract |-> contract,
   job |-> job, offering |-> offering, queue |-> eligibleCompanies]

launchNext(w) ==
  IF w.queue = {} THEN w
  ELSE LET c == first(w.queue) IN [launchOne(w, c) EXCEPT !.queue = @ \ {c}]

\* ... and as all of them leave those rows.
launched ==
  LET at[k \in 0 .. Cardinality(eligibleCompanies)] ==
        IF k = 0 THEN launchStart ELSE launchNext(at[k - 1])
  IN  at[Cardinality(eligibleCompanies)]

processLaunches ==
  /\ phase = "launch"
  /\ LET w == launched
     IN  /\ employer' = w.employer /\ employment' = w.employment
         /\ contract' = w.contract /\ job' = w.job /\ offering' = w.offering
  /\ phase' = after[phase]
  /\ UNCHANGED <<turn, goal, wallet, company, cash, notice, stock, arrears, streak,
                 windDown_, others>>

-----------------------------------------------------------------------------
(* Settlement is external: trade, spending, and the month's energy bill,    *)
(* which is rejected when the company cannot pay it and stays rejected.     *)

trading(c) == company[c].status = "active"

\* Founders whose spending can still stand in the way of a company.
founding == {f \in Founders : company[f].status \in {"none", "forming", "registered"}}

\* The sum of the first n numbers, and of those f has for agents.
sumTo(f, n) ==
  LET sum[k \in 0 .. n] == IF k = 0 THEN 0 ELSE sum[k - 1] + f[k]
  IN  sum[n]
sumOver(f) == sumTo([a \in Agents |-> IF a \in DOMAIN f THEN f[a] ELSE 0], Population)

totalMoney == sumOver(wallet) + sumOver(cash) + others.counsel + others.utility
              + others.fund + others.row

settlement ==
  /\ phase = "settlement"
  /\ cash' \in {k \in [Companies -> CashLevels \cup {cash[c] : c \in Companies}] :
                  \A c \in Companies : IF trading(c) THEN k[c] \in CashLevels ELSE k[c] = cash[c]}
  /\ wallet' \in {w \in [Agents -> WalletLevels \cup {wallet[a] : a \in Agents}] :
                    \A a \in Agents : w[a] # wallet[a] =>
                      a \in founding /\ w[a] < wallet[a] /\ w[a] \in WalletLevels}
  /\ stock' = [c \in Companies |-> IF offering[c] THEN 1 ELSE stock[c]]
  /\ arrears' = [c \in Companies |->
       IF trading(c) /\ offering[c] /\ cash'[c] < Bill THEN Bill ELSE arrears[c]]
  /\ others' = [others EXCEPT !.row = @ + sumOver(wallet) - sumOver(wallet')
                                        + sumOver(cash) - sumOver(cash')]
  /\ phase' = after[phase]
  /\ turn' = Min(Companies)
  /\ UNCHANGED <<goal, employer, company, contract, job, employment, notice, offering,
                 streak, windDown_>>

-----------------------------------------------------------------------------
(* Metrics: solvency and liquidation, one company after the other.         *)

INVENTORY_SALVAGE_RATE_BP == 5000

inventorySalvageUnitPrice ==
  Max({1, (RowPrice * INVENTORY_SALVAGE_RATE_BP) \div 10000})

salvageProceeds(c) == stock[c] * inventorySalvageUnitPrice

\* What falls due soon: the next payroll, and the rejected energy bills.
automaticClaims(c) ==
  (IF employment[c].status = "active"
   THEN <<[kind |-> "employee_wage", creditor |-> employment[c].agent, amount |-> Wage]>> ELSE <<>>)
  \o (IF arrears[c] > 0
      THEN <<[kind |-> "trade", creditor |-> Nobody, amount |-> arrears[c]]>> ELSE <<>>)

amounts(claims) == [i \in DOMAIN claims |-> claims[i].amount]

claimTotal(claims) == sumTo(amounts(claims), Len(claims))

assessCompanySolvency(c) ==
  IF claimTotal(automaticClaims(c)) > cash[c] THEN streak[c] + 1 ELSE 0

\* Claims come in the order of their seniority; what the pool leaves over is
\* the founder's residual claim.
claimsWithResidual(c, pool) ==
  LET claims == automaticClaims(c)
      left == pool - claimTotal(claims)
  IN  IF left > 0
      THEN Append(claims, [kind |-> "equity_residual", creditor |-> c, amount |-> left])
      ELSE claims

\* Mutant: the pool is offered to the last claim first.
allocateCreditorWaterfallReversed(pool, claims) ==
  [i \in DOMAIN claims |->
     LET junior == claimTotal(SubSeq(claims, i + 1, Len(claims)))
     IN  [claim |-> claims[i], recovered |-> Max({0, Min({claims[i].amount, pool - junior})})]]

allocateCreditorWaterfall(pool, claims) ==
  [i \in DOMAIN claims |->
     LET senior == sumTo(amounts(claims), i - 1)
     IN  [claim |-> claims[i], recovered |-> Max({0, Min({claims[i].amount, pool - senior})})]]

recoveredBy(allocations, creditor) ==
  sumTo([i \in DOMAIN allocations |->
           IF allocations[i].claim.creditor = creditor THEN allocations[i].recovered ELSE 0],
        Len(allocations))

terminateContracts(c) ==
  [t \in ContractTypes |->
     IF contract[c][t].status = "active"
     THEN transitionLegalContract(waiveObligation(contract[c][t]), "terminated")
     ELSE contract[c][t]]

\* Mutant: a pending termination outlives the company.
abandonNoTermination(c) == notice' = notice

abandonTerminations(c) == notice' = [notice EXCEPT ![c] = none]

terminateCompanyRelationshipsForFailure(c) ==
  /\ employment' = [employment EXCEPT ![c].status = IF @ = "active" THEN "ended" ELSE @]
  /\ employer' = [a \in Agents |->
       IF employment[c].status = "active" /\ employment[c].agent = a THEN Nobody ELSE employer[a]]
  /\ abandonTerminations(c)
  /\ job' = [job EXCEPT ![c] = IF @ = "open" THEN "withdrawn" ELSE @]
  /\ contract' = [contract EXCEPT ![c] = terminateContracts(c)]

\* A signed contract is live, and teardown ends active ones only.
postconditionsHold(c) ==
  \A t \in ContractTypes : terminateContracts(c)[t].status \notin {"signed", "active"}

windDown(c) ==
  LET pool == cash[c] + salvageProceeds(c)
      paid == allocateCreditorWaterfall(pool, claimsWithResidual(c, pool))
  IN  /\ terminateCompanyRelationshipsForFailure(c)
      /\ windDown_' = [windDown_ EXCEPT ![c] = [pool |-> pool, claims |-> paid]]
      /\ offering' = [offering EXCEPT ![c] = FALSE]
      /\ stock' = [stock EXCEPT ![c] = 0]
      /\ arrears' = [arrears EXCEPT ![c] = 0]
      /\ wallet' = [a \in Agents |-> wallet[a] + recoveredBy(paid, a)]
      /\ others' = [others EXCEPT !.utility = @ + recoveredBy(paid, Nobody),
                                  !.row = @ - salvageProceeds(c)]
      /\ cash' = [cash EXCEPT ![c] = 0]
      /\ company' = [company EXCEPT ![c].status = "closed", ![c].age = 0]

nextCompany ==
  IF turn = Max(Companies)
  THEN phase' = after[phase] /\ turn' = Min(Companies)
  ELSE phase' = phase /\ turn' = Min({c \in Companies : c > turn})

insolvent(c) == assessCompanySolvency(c) >= ShortfallDays

assessCompany ==
  /\ phase = "metrics"
  /\ LET c == turn
     IN  /\ company[c].status = "active"
         /\ ~insolvent(c)
         /\ streak' = [streak EXCEPT ![c] = assessCompanySolvency(c)]
  /\ nextCompany
  /\ UNCHANGED <<goal, wallet, employer, company, cash, contract, job, employment, notice,
                 offering, stock, arrears, windDown_, others>>

notAssessed ==
  /\ phase = "metrics"
  /\ company[turn].status # "active"
  /\ nextCompany
  /\ UNCHANGED <<goal, wallet, employer, company, cash, contract, job, employment, notice,
                 offering, stock, arrears, streak, windDown_, others>>

liquidate ==
  /\ phase = "metrics"
  /\ company[turn].status = "active"
  /\ insolvent(turn)
  /\ postconditionsHold(turn)
  /\ windDown(turn)
  /\ streak' = [streak EXCEPT ![turn] = 0]
  /\ nextCompany
  /\ UNCHANGED goal

leftDangling ==
  /\ phase = "metrics"
  /\ company[turn].status = "active"
  /\ insolvent(turn)
  /\ ~postconditionsHold(turn)
  /\ fail("company wind-down left dangling state")
  /\ UNCHANGED <<turn, goal, wallet, employer, company, cash, contract, job, employment, notice,
                 offering, stock, arrears, streak, windDown_, others>>

-----------------------------------------------------------------------------
LifeInit ==
  /\ phase = "obligations" /\ turn = Min(Companies)
  /\ goal = [f \in Founders |-> "active"]
  /\ wallet \in {w \in [Agents -> WalletLevels \cup {0}] : \A a \in Workers : w[a] = 0}
  /\ employer = [a \in Agents |-> Nobody]
  /\ company = [c \in Companies |-> NoCompany]
  /\ cash = [c \in Companies |-> 0]
  /\ contract = [c \in Companies |-> [t \in ContractTypes |-> noContract]]
  /\ job = [c \in Companies |-> "none"]
  /\ employment = [c \in Companies |-> NoEmployment]
  /\ notice = [c \in Companies |-> none]
  /\ offering = [c \in Companies |-> FALSE]
  /\ stock = [c \in Companies |-> 0]
  /\ arrears = [c \in Companies |-> 0]
  /\ streak = [c \in Companies |-> 0]
  /\ windDown_ = [c \in Companies |-> NoWindDown]
  /\ others = [counsel |-> 0, utility |-> 0, fund |-> FundCash, row |-> - FundCash - sumOver(wallet)]

\* Every handler but those of conversations and investments.
LifeNext ==
  \/ processLegalObligations
  \/ goalsProgress
  \/ \E c \in Companies : requestEmploymentTermination(c)
  \/ formCompanies
  \/ formationUnfunded
  \/ processLaunches
  \/ settlement
  \/ assessCompany
  \/ notAssessed
  \/ liquidate
  \/ leftDangling
=============================================================================
