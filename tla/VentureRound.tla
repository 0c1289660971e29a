----------------------------- MODULE VentureRound -----------------------------
(***************************************************************************)
(* The investment of the town's venture fund in the companies its agents   *)
(* found: the pitch, its negotiation, the atomic closing, and what the cap *)
(* table is used for afterwards (a dividend).  The module adds             *)
(* the handlers of the decisions phase to the ticks of CompanyLife, so     *)
(* that negotiation, formation and insolvency interleave as they do in a   *)
(* run.  One fund and one partner: the program creates no second ones.     *)
(*                                                                         *)
(* What a negotiation says is external; it ends with terms inside the      *)
(* bounds of the pitch or with none.                                       *)
(***************************************************************************)
EXTENDS CompanyLife

CONSTANTS PitchDelay,     \* ticks from activation to the pitch
          Lifetime,       \* ticks from the pitch to its expiry
          FundSize,       \* capital the fund may deploy, cents
          FoundingShares, \* shares a founder is issued
          Dividend        \* the dividend a company may pay, cents

ASSUME RoundAssumption ==
  /\ {PitchDelay, Lifetime, FundSize, FoundingShares, Dividend} \subseteq Nat \ {0}

VARIABLES proposal,  \* company -> its investment proposal
          talk,      \* company -> the negotiation about it
          pitched,   \* companies in the order of their proposals
          shares,    \* company -> its cap table
          deployed,  \* what the fund has deployed, cents
          dividend   \* company -> its distribution, as paid to founder and fund

roundVars == <<proposal, talk, pitched, shares, deployed, dividend>>
vars == <<lifeVars, roundVars>>

ProposalStatuses == {"none", "negotiating", "agreed", "completed", "rejected", "expired"}
ProposalRows == [status : ProposalStatuses, left : 0 .. Lifetime]
\* A cap table with its stakes, and a distribution with its allocations.
CapTables == [total : Nat, founder : {0, FoundingShares}, fund : Nat]
DistributionRows == [amount : {0, Dividend}, founder : Nat, fund : Nat]
NoProposal == [status |-> "none", left |-> 0]
NoTalk == [status |-> "none", amount |-> 0, preMoney |-> 0]
NoDividend == [amount |-> 0, founder |-> 0, fund |-> 0]

-----------------------------------------------------------------------------
(* Terms.                                                                  *)

ask == Capital
preMoney == 4 * ask

boundedMinimum(value) == Max({1, (value * 4) \div 5})

termsWithinConversationBounds(t) ==
  /\ t.amount \in boundedMinimum(ask) .. ask
  /\ t.preMoney \in boundedMinimum(preMoney) .. preMoney

Terms == [amount : boundedMinimum(ask) .. ask, preMoney : boundedMinimum(preMoney) .. preMoney]

\* Nearest share of the post-money value, in basis points.
investmentEquityBasisPoints(amount, pre) ==
  (amount * 10000 + (pre + amount) \div 2) \div (pre + amount)

\* Price and shares of a round are whole numbers, or the round is refused.
quotePricedRound(total, t) ==
  LET price == t.preMoney \div total
      issued == t.amount \div Max({price, 1})
      exact == (issued * 10000 + (total + issued) \div 2) \div (total + issued)
      gap == exact - investmentEquityBasisPoints(t.amount, t.preMoney)
  IN  [ok |-> /\ t.preMoney % total = 0
              /\ price > 0 /\ t.amount % price = 0
              /\ gap \in -1 .. 1,
       issued |-> issued]

fundStatus(d) == IF d = FundSize THEN "fully_deployed" ELSE "open"

canDeploy(d, amount) == d + amount <= FundSize

deployCapital(d, amount) == d + amount

-----------------------------------------------------------------------------
(* Decisions, first: conversations close with an outcome or go on.         *)

Outcomes == {[NoTalk EXCEPT !.status = s] : s \in {"declined", "ended"}}
            \cup {[status |-> "agreement", amount |-> t.amount, preMoney |-> t.preMoney] : t \in Terms}

conversationPhase ==
  /\ phase = "decisions"
  /\ \/ talk' = talk
     \/ \E c \in Companies, outcome \in Outcomes :
          talk[c].status = "active" /\ talk' = [talk EXCEPT ![c] = outcome]
  /\ phase' = after[phase]
  /\ UNCHANGED <<turn, goal, wallet, employer, company, cash, contract, job, employment, notice,
                 offering, stock, arrears, streak, windDown_, others>>
  /\ UNCHANGED <<proposal, pitched, shares, deployed, dividend>>

-----------------------------------------------------------------------------
(* Decisions, later: proposals whose negotiation has ended or run out are  *)
(* settled, one company pitches, and what was agreed closes.               *)

running(c) == proposal[c].status = "negotiating"

expires(c) == running(c) /\ talk[c].status = "active" /\ proposal[c].left = 1

transitionTerminal(c) ==
  IF expires(c) THEN "expired"
  ELSE IF talk[c].status = "agreement" /\ termsWithinConversationBounds(talk[c])
  THEN "agreed" ELSE "rejected"

settled(c) ==
  IF ~running(c) THEN proposal[c]
  ELSE IF talk[c].status = "active" /\ ~expires(c) THEN [proposal[c] EXCEPT !.left = @ - 1]
  ELSE [status |-> transitionTerminal(c), left |-> 0]

closedTalk(c) == IF expires(c) THEN [NoTalk EXCEPT !.status = "expired"] ELSE talk[c]

\* A company that has pitched never does so again.
candidates == {c \in Companies : /\ company[c].status = "active" /\ company[c].age >= PitchDelay
                                /\ proposal[c].status = "none"}

\* The first candidate whose founder and partner are free, while the fund has
\* the money.  busy: founders who cannot meet the partner on this tick.
proposeEligible(busy) ==
  LET free == candidates \ busy
  IN  IF free = {} \/ fundStatus(deployed) # "open" \/ ~canDeploy(deployed, ask)
      THEN {} ELSE {first(free)}

propose == [status |-> "negotiating", left |-> Lifetime]

assertCompanyCanIssue(c) == company[c].status = "active"

investmentSigned ==
  signLegalContract(signLegalContract(createContractFromTemplate("investment", 0)))

NoFault == ""

\* What a close checks before it writes anything.  Only refusals of the terms
\* reject the proposal, any other failure is the tick's.
prepare(w, c) ==
  CASE fundStatus(w.deployed) # "open"                  -> "requires its open negotiated fund"
    [] ~canDeploy(w.deployed, talk[c].amount)           -> "rejected"
    [] ~quotePricedRound(w.shares[c].total, talk[c]).ok -> "rejected"
    [] ~assertCompanyCanIssue(c)                        -> "cannot issue investment shares"
    [] OTHER                                            -> "ready"

capitalCall(balance, amount) == Max({0, amount - balance})

insertOwnershipStake(table, issued) == [table EXCEPT !.fund = @ + issued, !.total = @ + issued]

closePrepared(w, c) ==
  LET amount == talk[c].amount
      called == capitalCall(w.others.fund, amount)
  IN  [fault    |-> w.fault,
       proposal |-> [w.proposal EXCEPT ![c].status = "completed"],
       contract |-> [w.contract EXCEPT ![c]["investment"] = investmentSigned],
       others   |-> [w.others EXCEPT !.fund = @ + called - amount, !.row = @ - called],
       cash     |-> [w.cash EXCEPT ![c] = @ + amount],
       deployed |-> deployCapital(w.deployed, amount),
       shares   |-> [w.shares EXCEPT ![c] =
                       insertOwnershipStake(@, quotePricedRound(@.total, talk[c]).issued)]]

\* What the triggers of the table of investments ask of the rows of a close.
investments_validate_close(w, c) ==
  /\ w.proposal[c].status = "completed"
  /\ w.contract[c]["investment"].status \in {"signed", "active", "completed"}
  /\ w.shares[c].total = w.shares[c].founder + w.shares[c].fund
  /\ w.shares[c].fund * talk[c].preMoney = w.shares[c].founder * talk[c].amount
  /\ w.deployed <= FundSize

closeOne(w, c) ==
  IF w.fault # NoFault \/ w.proposal[c].status # "agreed" THEN w
  ELSE LET ready == prepare(w, c)
           closed == closePrepared(w, c)
       IN  CASE ready = "ready"    ->
                  IF investments_validate_close(closed, c) THEN closed
                  ELSE [w EXCEPT !.fault = "investment close lacks matching rows"]
             [] ready = "rejected" -> [w EXCEPT !.proposal[c].status = "rejected"]
             [] OTHER              -> [w EXCEPT !.fault = ready]

closingStart(new) ==
  [fault |-> NoFault, contract |-> contract, others |-> others, cash |-> cash,
   deployed |-> deployed, shares |-> shares,
   proposal |-> [c \in Companies |-> IF c \in new THEN propose ELSE settled(c)]]

\* What is agreed closes in the order of the pitches.
closing(new) ==
  LET at[k \in 0 .. Len(pitched)] ==
        IF k = 0 THEN closingStart(new) ELSE closeOne(at[k - 1], pitched[k])
  IN  at[Len(pitched)]

\* The terms of a rejected proposal are cleared.
investmentsPhase ==
  /\ phase = "investments"
  /\ \E busy \in SUBSET Founders :
       LET new == proposeEligible(busy)
           w == closing(new)
       IN  /\ w.fault = NoFault
           /\ proposal' = w.proposal /\ contract' = w.contract /\ others' = w.others
           /\ cash' = w.cash /\ deployed' = w.deployed /\ shares' = w.shares
           /\ pitched' = IF new = {} THEN pitched ELSE Append(pitched, first(new))
           /\ talk' = [c \in Companies |->
                IF c \in new THEN [NoTalk EXCEPT !.status = "active"]
                ELSE IF w.proposal[c].status = "rejected" THEN [NoTalk EXCEPT !.status = "ended"]
                ELSE closedTalk(c)]
  /\ phase' = after[phase]
  /\ UNCHANGED <<turn, goal, wallet, employer, company, job, employment, notice, offering, stock,
                 arrears, streak, windDown_, dividend>>

investmentFailed ==
  /\ phase = "investments"
  /\ closing({}).fault # NoFault
  /\ fail(closing({}).fault)
  /\ UNCHANGED <<turn, goal, wallet, employer, company, cash, contract, job, employment, notice,
                 offering, stock, arrears, streak, windDown_, others>>
  /\ UNCHANGED roundVars

-----------------------------------------------------------------------------
(* Founding shares, and the dividend a company may share out among its     *)
(* owners, once per reference: a service that only tests call.             *)

issueFounding ==
  shares' = [c \in Companies |->
    IF company'[c].status = "active" /\ company[c].status # "active"
    THEN [total |-> FoundingShares, founder |-> FoundingShares, fund |-> 0] ELSE shares[c]]

\* Largest remainder first, the founder before the fund when they are equal.
allocate(amount, table) ==
  LET share(n) == (amount * n) \div table.total
      rest(n) == (amount * n) % table.total
      left == amount - share(table.founder) - share(table.fund)
      extra == IF left = 1 /\ rest(table.founder) >= rest(table.fund) THEN 1 ELSE 0
  IN  [amount |-> amount, founder |-> share(table.founder) + extra,
       fund |-> share(table.fund) + left - extra]

\* What the triggers of the table of distributions ask of its allocations.
investment_distributions_validate(split) ==
  split.amount = split.founder + split.fund

distributed(c) == dividend[c] # NoDividend

distribute(c) ==
  /\ phase = "decisions"
  /\ ~distributed(c)
  /\ shares[c].fund > 0 \* a bound: a sole owner gets all of it
  /\ company[c].status = "active"
  /\ Dividend <= cash[c]
  /\ LET split == allocate(Dividend, shares[c])
     IN  /\ investment_distributions_validate(split)
         /\ dividend' = [dividend EXCEPT ![c] = split]
         /\ wallet' = [wallet EXCEPT ![c] = @ + split.founder]
         /\ others' = [others EXCEPT !.fund = @ + split.fund]
         /\ cash' = [cash EXCEPT ![c] = @ - Dividend]
  /\ UNCHANGED <<phase, turn, goal, employer, company, contract, job, employment, notice, offering,
                 stock, arrears, streak, windDown_>>
  /\ UNCHANGED <<proposal, talk, pitched, shares, deployed>>

-----------------------------------------------------------------------------
Init ==
  /\ LifeInit
  /\ proposal = [c \in Companies |-> NoProposal]
  /\ talk = [c \in Companies |-> NoTalk]
  /\ pitched = <<>>
  /\ shares = [c \in Companies |-> [total |-> 0, founder |-> 0, fund |-> 0]]
  /\ deployed = 0
  /\ dividend = [c \in Companies |-> NoDividend]

\* A handler of the company's life, with the shares an activation issues.
lifeStep == LifeNext /\ issueFounding
            /\ UNCHANGED <<proposal, talk, pitched, deployed, dividend>>

Next ==
  \/ lifeStep
  \/ conversationPhase
  \/ investmentsPhase
  \/ investmentFailed
  \/ \E c \in Companies : distribute(c)

stopped == phase \in Failures

\* The loop goes on from handler to handler until one fails, which is weak
\* fairness of Next: some handler is enabled in every other state.
Spec == Init /\ [][Next]_vars /\ ([]<>stopped \/ []<><<Next>>_vars)

-----------------------------------------------------------------------------
(* Properties.                                                             *)

\* Every variable keeps to the values its rows may take.
TypeOK ==
  /\ phase \in DOMAIN after \cup Failures
  /\ turn \in Companies
  /\ goal \in [Founders -> {"active", "achieved"}]
  /\ wallet \in [Agents -> Nat] /\ cash \in [Companies -> Nat]
  /\ employer \in [Agents -> Companies \cup {Nobody}]
  /\ company \in [Companies -> CompanyRows]
  /\ employment \in [Companies -> EmploymentRows]
  /\ proposal \in [Companies -> ProposalRows]
  /\ shares \in [Companies -> CapTables]
  /\ dividend \in [Companies -> DistributionRows]
  /\ \A c \in Companies : ToSet(windDown_[c].claims) \subseteq RecoveryRows
  /\ contract \in [Companies -> [ContractTypes -> LegalContracts]]
  /\ job \in [Companies -> JobStatuses]
  /\ notice \in [Companies -> none .. noticeDays]
  /\ streak \in [Companies -> 0 .. ShortfallDays - 1]
  /\ deployed \in 0 .. FundSize

\* A company that has failed has, from then on, no worker, no live contract,
\* no open job, no offer, no stock and no money (assertWindDownPostconditions
\* checks most of it once; no later handler brings any of it back).
FailureIsFinal ==
  \A c \in Companies : company[c].status = "closed" =>
    /\ employment[c].status # "active"
    /\ \A t \in ContractTypes : contract[c][t].status \notin {"draft", "signed", "active"}
    /\ job[c] # "open" /\ notice[c] = none
    /\ ~offering[c] /\ stock[c] = 0 /\ arrears[c] = 0 /\ cash[c] = 0
    /\ \A a \in Agents : employer[a] # c

\* An agent's organization, the employment row and the employment contract
\* always tell the same: whoever works for a company does so under its active
\* contract, once, and whoever has such a contract works there.
EmploymentAgrees ==
  \A c \in Companies :
    /\ employment[c].status = "active" <=> contract[c]["employment"].status = "active"
    /\ \A a \in Agents :
         employer[a] = c <=> employment[c].status = "active" /\ employment[c].agent = a

\* The creditors of a failed company are paid in the order of seniority: a
\* claim that is not paid in full leaves nothing to a later one, and the
\* payments add up to the pool.
WaterfallExact ==
  \A c \in Companies :
    LET paid == windDown_[c].claims
    IN  /\ \A i, j \in DOMAIN paid :
             i < j /\ paid[i].recovered < paid[i].claim.amount => paid[j].recovered = 0
        /\ sumTo([i \in DOMAIN paid |-> paid[i].recovered], Len(paid)) = windDown_[c].pool

\* Money moves, it is never made: fees and capital are paid once per company,
\* through restarts of the pipeline on every tick, and an incorporation whose
\* fee falls due is never breached while the run goes on.
FormationPaidOnce ==
  /\ totalMoney = 0
  /\ others.counsel = Fee * Cardinality({c \in Companies :
       company[c].stage \notin {"none", "agreement_drafted"}})
  /\ \A c \in Companies :
       /\ company[c].stage = "capitalized" => cash[c] = Capital
       /\ contract[c]["incorporation"].status # "breached"

\* The close is atomic (INV-4): the cap table is the sum of its stakes; a
\* completed proposal, an investment contract and issued shares come together,
\* at one whole price; the fund has deployed what its rounds were paid; and only
\* a talk still open when its proposal runs out expires.
CloseIsAtomic ==
  /\ \A c \in Companies :
       LET closed == proposal[c].status = "completed"
       IN  /\ shares[c].total = shares[c].founder + shares[c].fund
           /\ shares[c].founder \in {0, FoundingShares}
           /\ closed <=> contract[c]["investment"].status # "none"
           /\ closed <=> shares[c].fund > 0
           /\ proposal[c].status = "expired" => talk[c].status = "expired"
           /\ closed => talk[c].amount * FoundingShares = talk[c].preMoney * shares[c].fund
  /\ deployed = sumOver([c \in Companies |->
         IF proposal[c].status = "completed" THEN talk[c].amount ELSE 0])
  /\ others.fund >= 0

\* A drafted company becomes active and a pitch comes to an end, unless the
\* run stops on a failed tick.
FormationSettles ==
  \A c \in Companies :
    /\ company[c].status \in {"forming", "registered"} ~> company[c].status = "active" \/ stopped
    /\ proposal[c].status = "negotiating"
         ~> proposal[c].status \notin {"negotiating", "agreed"} \/ stopped

\* What the handlers of a day leave behind agrees, whichever of formation,
\* launch, closing and failure came first.
CompaniesConsistent == TypeOK /\ FailureIsFinal /\ EmploymentAgrees /\ CloseIsAtomic

\* Formation and failure each account for every cent they move.
MoneyExact == FormationPaidOnce /\ WaterfallExact
=============================================================================
