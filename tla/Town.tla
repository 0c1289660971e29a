--------------------------------- MODULE Town ---------------------------------
(***************************************************************************)
(* Days of the town: the handlers of ledger, market, energy and world      *)
(* events in the order in which a tick runs them, in one transaction.  A   *)
(* handler that throws rolls the tick back and stops the run.  Between two *)
(* ticks the run may be paused, and events are injected into it then.      *)
(*                                                                         *)
(* Who works for whom, and which company is alive, are decided elsewhere:  *)
(* here a company may cease between ticks, as a liquidation leaves it.     *)
(***************************************************************************)
EXTENDS WorldEvents

CONSTANTS FirstTick, LastTick,  \* days that are modelled
          Jobs,                 \* employment at the start
          Opening,              \* balances the start may have
          OpeningStock,         \* shelves the companies may start with
          OpeningPrice,         \* prices a company may start with, or be given
          GroceryWeight,        \* weight of groceries in the price index, basis points
          MayCease,             \* companies that may be liquidated
          Creditor,             \* whom a liquidation pays
          MaxEvents             \* bound on the injected events

ASSUME TownAssumption ==
  /\ FirstTick \in Nat \ {0} /\ LastTick \in Nat /\ FirstTick <= LastTick
  /\ Jobs \subseteq EmploymentRows
  /\ \A i, j \in Jobs : i.agent = j.agent => i = j
  /\ Opening \subseteq [Domestic -> Nat]
  /\ OpeningStock \subseteq [Companies -> Nat] /\ OpeningPrice \subseteq Nat \ {0}
  /\ GroceryWeight \in 0 .. 10000
  /\ MayCease \subseteq Companies /\ Creditor \in Agents /\ MaxEvents \in Nat

VARIABLES tick,    \* the tick being executed, or the last one that was
          phase,   \* the handler that runs next; "idle" between ticks
          town     \* rows of the town's tables, and the day's log

vars == <<tick, phase, town>>

Categories == {"food", "utilities", "rent", "discretionary"}
Indicators == [m1 : Int, treasury : Int, gdp : Nat, averageWage : Nat, cpi : Nat,
               unemploymentRate : 0 .. 10000, businesses : Nat]
Faults == {"none", "VALIDATION_FAILED", "PERMISSION_DENIED", "INSUFFICIENT_FUNDS", "CONFLICT",
           "capacityUnitsPerTick must be at least one"}

\* The handlers of a tick in their order.
after == [scheduler |-> "tariffs", tariffs |-> "payroll", payroll |-> "pricing",
          pricing |-> "production", production |-> "households", households |-> "energy",
          energy |-> "review", review |-> "metrics", metrics |-> "idle"]

-----------------------------------------------------------------------------
(* Households.                                                             *)

request(category, amount, essential) ==
  [category |-> category, requested |-> amount, essential |-> essential]

foodMonthlyNow(t, day) ==
  scaleMoneyByBasisPoints(mulDiv(FoodMonthly * t.rowPrice, RowPrice), demandMultiplierBp(t, day))

\* Mutant: leisure is budgeted before the rent.
householdDailyRequestsLeisureFirst(t, h, day) ==
  LET index == dayOfMonth(day) - 1
      utilities == IF dayOfMonth(day) = DAYS_PER_MONTH
                   THEN <<request("utilities", t.tariff["household"], TRUE)>> ELSE <<>>
  IN  <<request("food",
          partAt(foodMonthlyNow(t, day) * Len(h.members), DAYS_PER_MONTH, index), TRUE)>>
      \o utilities
      \o <<request("discretionary", h.spare, FALSE),
           request("rent", partAt(h.rent, DAYS_PER_MONTH, index), TRUE)>>

\* The flat tariff of the utility is due on the last day of the month.
householdDailyRequests(t, h, day) ==
  LET index == dayOfMonth(day) - 1
      utilities == IF dayOfMonth(day) = DAYS_PER_MONTH
                   THEN <<request("utilities", t.tariff["household"], TRUE)>> ELSE <<>>
  IN  <<request("food",
          partAt(foodMonthlyNow(t, day) * Len(h.members), DAYS_PER_MONTH, index), TRUE)>>
      \o utilities
      \o <<request("rent", partAt(h.rent, DAYS_PER_MONTH, index), TRUE),
           request("discretionary", h.spare, FALSE)>>

\* What a request gets of what is left; a utility bill is paid whole or not.
approve(request_, remaining) ==
  CASE request_.requested <= remaining -> request_.requested
    [] request_.category = "utilities" -> 0
    [] OTHER -> clamp(remaining, 0, remaining)

allocateHouseholdSpending(available, requests) ==
  FoldLeft(LAMBDA done, r :
      LET amount == approve(r, done.remaining)
      IN  [remaining |-> done.remaining - amount,
           list |-> Append(done.list, [category |-> r.category, requested |-> r.requested,
                                       essential |-> r.essential, approved |-> amount])],
    [remaining |-> available, list |-> <<>>], requests).list

settleWithRow(t, h, category, amount, accounts) ==
  IF amount = 0 THEN t
  ELSE post(t, "row_settlement", <<"household", h.id, category>>,
            <<debit(Row, amount)>> \o payerLegs(accounts, amount))

\* The food a household could not buy in town is bought from the rest of the world.
spendOnFood(t, h, approved) ==
  LET accounts == accountsOf(t, h.members)
      local == settleLocalFoodPurchases(t, h, approved, accounts)
      abroad == local.remaining
  IN  [settleWithRow(local.town, h, "food", abroad, local.accounts)
         EXCEPT !.imported[h.id] = abroad]

logged(t, h, allocation, amount) ==
  [t EXCEPT !.spent[h.id][allocation.category] =
      [asked |-> allocation.requested, got |-> amount]]

billedOrNot(t, h) ==
  IF \E b \in t.bills : b.customer = h.id /\ b.status = "paid"
  THEN t.tariff["household"] ELSE 0

spend(t, h, day, allocation) ==
  CASE allocation.category = "utilities" ->
         LET billed == settleHouseholdBill(t, h, day)
         IN  logged(billed, h, allocation, billedOrNot(billed, h))
    [] allocation.approved = 0 -> logged(t, h, allocation, 0)
    [] allocation.category = "food" ->
         logged(spendOnFood(t, h, allocation.approved), h, allocation, allocation.approved)
    [] OTHER ->
         logged(settleWithRow(t, h, allocation.category, allocation.approved,
                              accountsOf(t, h.members)), h, allocation, allocation.approved)

settleHousehold(t, h, day) ==
  FoldLeft(LAMBDA u, allocation : spend(u, h, day, allocation), t,
           allocateHouseholdSpending(fundsOf(t, h), householdDailyRequests(t, h, day)))

runHouseholdSettlement(t, day) ==
  FoldLeft(LAMBDA u, h : settleHousehold(u, h, day), t, Households)

-----------------------------------------------------------------------------
(* Metrics.                                                                *)

representativePostedPrice(t) ==
  mulDiv(MapThenSumSet(LAMBDA c : t.price[c], t.open), Cardinality(t.open))

groceryPrice(t) == IF t.open = {} THEN t.rowPrice ELSE representativePostedPrice(t)

\* Groceries and electricity, weighted, over their prices of the first day.
fixedBasketCpiIndex(t) ==
  mulDiv((groceryPrice(t) * GroceryWeight * HouseholdTariff
            + t.tariff["household"] * (10000 - GroceryWeight) * RowPrice) * 1000,
         RowPrice * HouseholdTariff * 10000)

activeBusinessCount(t) == Cardinality(t.open) + 1

computeIndicatorSnapshot(t) ==
  LET wages == MapThenSumSet(LAMBDA e : e.annual, t.employment)
      jobless == Cardinality(Agents) - Cardinality(t.employment)
  IN  [m1 |-> MapThenSumSet(LAMBDA o : t.balance[o], Agents \cup Companies \cup {Utility}),
       treasury |-> t.balance[Treasury],
       gdp |-> t.finalSales,
       averageWage |-> IF t.employment = {} THEN 0
                       ELSE mulDiv(wages, Cardinality(t.employment)),
       unemploymentRate |-> mulDiv(jobless * 10000, Cardinality(Agents)),
       cpi |-> fixedBasketCpiIndex(t),
       businesses |-> activeBusinessCount(t)]

householdEnergy(t) ==
  MapThenSumSet(LAMBDA b : b.amount, {b \in paidBills(t) : b.class = "household"})

recordMetrics(t) ==
  LET sold == [t EXCEPT !.finalSales = @ + householdEnergy(t)]
  IN  [sold EXCEPT !.indicators = computeIndicatorSnapshot(sold)]

-----------------------------------------------------------------------------
(* Ticks.                                                                  *)

nothingSpent == [h \in HouseholdIds |-> [c \in Categories |-> [asked |-> 0, got |-> 0]]]
noUnits == [c \in Companies |-> 0]

\* The log of a day: what a tick looks up of its own rows.
newDay(t) ==
  [t EXCEPT !.posted = {}, !.missed = {}, !.paid = [a \in Agents |-> 0], !.made = noUnits,
            !.bills = {}, !.priced = {}, !.spent = nothingSpent,
            !.imported = [h \in HouseholdIds |-> 0]]

noIndicators == [m1 |-> 0, treasury |-> 0, gdp |-> 0, averageWage |-> 0, cpi |-> 0,
                 unemploymentRate |-> 0, businesses |-> 0]

openedAccounts == [o \in Owners |-> 0]

\* What every deposit holds at the start was minted.
openingMint(accounts, balance) ==
  [o \in Owners |-> accounts[o] + (CASE o = Row -> 0
                                    [] o = Mint -> 0 - SumFunction(balance)
                                    [] OTHER -> balance[o])]

initialize(balance, stock, price) ==
  [balance |-> openingMint(openedAccounts, balance),
   employment |-> Jobs, open |-> Companies,
   price |-> price, stock |-> stock, cost |-> [c \in Companies |-> Profile[c].unitCost],
   sold |-> noUnits, unfilled |-> noUnits, finalSales |-> 0,
   tariff |-> EnergySystem, fuel |-> FuelPrice, rowPrice |-> RowPrice, burnt |-> 0,
   events |-> <<>>, effects |-> {}, indicators |-> noIndicators,
   posted |-> {}, missed |-> {}, paid |-> [a \in Agents |-> 0], made |-> noUnits, bills |-> {},
   priced |-> {}, spent |-> nothingSpent, imported |-> [h \in HouseholdIds |-> 0],
   channels |-> {}, fault |-> "none"]

Init ==
  /\ tick = FirstTick - 1
  /\ phase = "idle"
  /\ \E balance \in Opening, stock \in OpeningStock,
        price \in [Companies -> OpeningPrice] :
       town = initialize(balance, stock, price)

\* A handler's outcome: committed with the tick, or the end of the run.
runs(handler, outcome) ==
  /\ phase = handler
  /\ IF outcome.fault = "none"
     THEN phase' = after[phase] /\ town' = outcome
     ELSE phase' = "failed" /\ town' = [town EXCEPT !.fault = outcome.fault]
  /\ UNCHANGED tick

startTick ==
  /\ phase = "idle" /\ tick < LastTick
  /\ tick' = tick + 1
  /\ phase' = "scheduler"
  /\ town' = newDay(town)

\* Only into a run that is created or paused, which it is between two ticks.
injectWorldEvent(spec, due) ==
  /\ phase = "idle"
  /\ Len(town.events) < MaxEvents
  /\ validateSpecTargets(spec)
  /\ due \in tick + 1 .. LastTick
  /\ town' = schedule(town, spec, due)
  /\ UNCHANGED <<tick, phase>>

\* As a liquidation leaves it: no offering, no workers, an account paid out.
companyCeases(c) ==
  /\ phase = "idle" /\ c \in town.open
  /\ town' = [town EXCEPT !.open = @ \ {c}, !.stock[c] = 0,
                          !.balance[c] = 0, !.balance[Creditor] = @ + town.balance[c],
                          !.employment = {e \in @ : e.employer # c}]
  /\ UNCHANGED <<tick, phase>>

fireDueTasks == runs("scheduler", fireDue(town, tick))
tariffCycle == runs("tariffs", processTariffCycle(town, tick))
payroll == runs("payroll", runBenefits(runPayroll(town, tick), tick))

\* A founder may set any price within the bounds of the unit cost.
applyFounderPriceOverride(c, price) ==
  /\ phase = "pricing"
  /\ c \in listFounderPricingOpportunities(town, tick)
  /\ withinBounds(price, unitCostOf(town, c))
  /\ town' = recordPriceChange(town, c, price)
  /\ town' # town
  /\ UNCHANGED <<tick, phase>>

decisionsEnd == runs("pricing", town)

capacityNow ==
  [c \in Companies |-> scaleCapacity(Profile[c].capacity, capacityMultiplierBp(town, c, tick))]

production == runs("production", processProduction(town, capacityNow))
households == runs("households", runHouseholdSettlement(town, tick))
energyBills == runs("energy", purchaseFuelForTick(billBusinessProduction(town)))
weeklyPricing == runs("review", processWeeklyPricing(town, tick))
metrics == runs("metrics", recordMetrics(town))

stopped == phase = "failed" \/ (phase = "idle" /\ tick = LastTick)

Next ==
  \/ startTick
  \/ \E spec \in EventSpecs, due \in FirstTick .. LastTick : injectWorldEvent(spec, due)
  \/ \E c \in MayCease : companyCeases(c)
  \/ fireDueTasks
  \/ tariffCycle
  \/ payroll
  \/ \E c \in Companies : \E price \in OpeningPrice : applyFounderPriceOverride(c, price)
  \/ decisionsEnd
  \/ production
  \/ households
  \/ energyBills
  \/ weeklyPricing
  \/ metrics

Spec == Init /\ [][Next]_vars

-----------------------------------------------------------------------------
(* Properties.                                                             *)

\* The rows of the town's tables have their types on every tick.
TypeOK ==
  /\ tick \in FirstTick - 1 .. LastTick
  /\ phase \in DOMAIN after \cup {"idle", "failed"}
  /\ town.balance \in AccountRows /\ town.channels \subseteq TransactionKinds
  /\ town.employment \subseteq EmploymentRows /\ town.paid \in WageRows
  /\ town.open \subseteq Companies
  /\ town.price \in OfferingRows
  /\ town.stock \in InventoryRows /\ town.cost \in InventoryRows
  /\ town.made \in ProductionRows /\ town.sold \in InventoryRows
  /\ town.unfilled \in StockoutRows
  /\ town.tariff \in TariffRows
  /\ town.fuel \in FuelPriceRows /\ town.rowPrice \in ReferencePriceRows
  /\ town.bills \subseteq Bills
  /\ \A i \in DOMAIN town.events : town.events[i] \in EventRows(LastTick)
  /\ town.effects \subseteq EffectRows(LastTick)
  /\ town.indicators \in Indicators
  /\ town.fault \in Faults

\* Every posting balances over all accounts, no deposit is overdrawn, the total
\* the town holds changes through settlements with the rest of the world only,
\* and the money supply published at the end of a tick is what was minted less
\* what the rest of the world holds (auditConservation, reconcile, M1).
BooksBalance ==
  /\ SumFunction(town.balance) = 0
  /\ \A o \in Domestic : town.balance[o] >= 0
  /\ town.channels \subseteq controlledKinds
  /\ phase = "idle" /\ tick >= FirstTick =>
       town.indicators.m1 + town.indicators.treasury = -(town.balance[Mint] + town.balance[Row])

\* No handler of a day throws: what a household is allowed to spend is there when
\* it is spent, over local orders, the bill and the rest of the world, and no
\* posting crosses a floor.
HandlersNeverThrow == phase # "failed"

\* On a payday every contract is paid its period's gross whole or is missed; only
\* a company misses, and one that holds less than the wage it missed.
WagesWhole ==
  phase = "pricing" /\ isPayrollDay(tick) =>
    \A e \in town.employment :
      LET gross == payrollGrossForPeriod(e.annual, periodIndexWithinYear(tick))
      IN  IF e.agent \in town.missed
          THEN e.employer \in Companies /\ town.paid[e.agent] = 0
               /\ town.balance[e.employer] < gross
          ELSE town.paid[e.agent] = gross

\* Food comes from abroad only when no local shop could have sold another unit
\* for what was spent abroad: the shelves are empty or the price is too high.
LocalFirst ==
  phase = "energy" =>
    \A h \in HouseholdIds : town.imported[h] > 0 =>
      \A c \in town.open : town.stock[c] = 0 \/ town.price[c] > town.imported[h]

shortOf(h, category) == town.spent[h][category].got < town.spent[h][category].asked

\* A household short of food spends nothing on what comes later, but for a bill
\* that is nothing either; one short of rent spends nothing at its leisure.
EssentialsFirst ==
  phase \in {"energy", "review", "metrics"} =>
    \A h \in HouseholdIds :
      /\ shortOf(h, "food") => \A c \in Categories \ {"food"} : town.spent[h][c].got = 0
      /\ shortOf(h, "rent") => town.spent[h]["discretionary"].got = 0
      /\ town.spent[h]["utilities"].got \in {0, town.spent[h]["utilities"].asked}

dueThrough(day) == {i \in DOMAIN town.events : town.events[i].due <= day}

plannedReduction(c) ==
  MapThenSumSet(LAMBDA i : town.events[i].spec.pct,
    {i \in dueThrough(tick) : LET s == town.events[i].spec
                              IN  s.type = "disaster" /\ s.company = c
                                  /\ tick < town.events[i].due + s.duration})

plannedDemand ==
  MapThenSumSet(LAMBDA i : town.events[i].spec.pct,
    {i \in dueThrough(tick) : LET s == town.events[i].spec
                              IN  s.type = "demand_shock" /\ tick < town.events[i].due + s.duration})

\* What was injected is what is in force: once the tasks of a tick have fired,
\* every event due has been applied once, on its tick, and capacity and demand
\* are changed by exactly the events whose days these are.
EventsInForce ==
  phase \in DOMAIN after \ {"scheduler"} =>
    /\ \A i \in DOMAIN town.events :
         IF i \in dueThrough(tick)
         THEN town.events[i].status = "applied" /\ town.events[i].fired = town.events[i].due
         ELSE town.events[i].status = "scheduled" /\ town.events[i].fired = 0
    /\ demandMultiplierBp(town, tick) = clamp(10000 + 100 * plannedDemand, 1000, 50000)
    /\ \A c \in Companies :
         capacityMultiplierBp(town, c, tick) = 10000 - 100 * clamp(plannedReduction(c), 0, 100)

\* What the books promise on every tick, and to everyone who is paid from them.
BooksSound == TypeOK /\ BooksBalance /\ HandlersNeverThrow /\ WagesWhole

\* Where a household's money goes: necessities first, and to local shops first.
HouseholdsServed == LocalFirst /\ EssentialsFirst

\* A day goes as it was planned: the households spend in the order of their
\* policy, under the events of the day and no others.
DaysAsPlanned == HouseholdsServed /\ EventsInForce

=============================================================================
