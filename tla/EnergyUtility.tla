---------------------------- MODULE EnergyUtility ----------------------------
(***************************************************************************)
(* The regulated utility: tariffs that follow the price of fuel once a     *)
(* month, the monthly bill of a household, the daily bill of a company for *)
(* the units it produced, and the fuel burnt to serve the bills.           *)
(***************************************************************************)
EXTENDS TownLedger

CONSTANTS HouseholdTariff, \* base tariff of a household's month, cents
          BusinessTariff,  \* base tariff of a unit of production, cents
          FuelPrice        \* reference price of a fuel unit, cents

ASSUME EnergyAssumption == {HouseholdTariff, BusinessTariff, FuelPrice} \subseteq Nat \ {0}

CustomerClasses == {"household", "business"}
TariffRows == [CustomerClasses -> Nat \ {0}]
FuelPriceRows == Nat \ {0}
EnergySystem == [household |-> HouseholdTariff, business |-> BusinessTariff]

ENERGY_BILLING_INTERVAL_TICKS == 30
ENERGY_PASS_THROUGH_BP == 6000
ENERGY_MINIMUM_TARIFF_BP == 5000
ENERGY_MAXIMUM_TARIFF_BP == 20000
ENERGY_MINIMUM_FUEL_PRICE_BP == 5000
ENERGY_MAXIMUM_FUEL_PRICE_BP == 30000
FuelMilliunits == [household |-> 100000, business |-> 250]

ceilDiv(n, d) == (n + d - 1) \div d
clamp(value, least, greatest) ==
  IF value < least THEN least ELSE IF value > greatest THEN greatest ELSE value

energyBillingCycleDue(tick) == tick % ENERGY_BILLING_INTERVAL_TICKS = 0

energyTariffForFuelPrice(base, fuel) ==
  LET least == ceilDiv(base * ENERGY_MINIMUM_TARIFF_BP, 10000)
      greatest == (base * ENERGY_MAXIMUM_TARIFF_BP) \div 10000
  IN  clamp(base + mulDiv(base * (fuel - FuelPrice) * ENERGY_PASS_THROUGH_BP, FuelPrice * 10000),
            least, greatest)

changedFuelPrice(fuel, changeBp) ==
  clamp(applyRateBp(fuel, 10000 + changeBp),
        applyRateBp(FuelPrice, ENERGY_MINIMUM_FUEL_PRICE_BP),
        applyRateBp(FuelPrice, ENERGY_MAXIMUM_FUEL_PRICE_BP))

fuelPurchaseTotal(fuel, milliunits) ==
  LET total == mulDiv(fuel * milliunits, 1000) IN IF total > 0 THEN total ELSE 1

applyFuelShock(town, changeBp) == [town EXCEPT !.fuel = changedFuelPrice(@, changeBp)]

\* Tariffs move on the billing day only, to where the fuel price is that day.
processTariffCycle(town, tick) ==
  IF energyBillingCycleDue(tick)
  THEN [town EXCEPT !.tariff =
          [c \in CustomerClasses |-> energyTariffForFuelPrice(EnergySystem[c], town.fuel)]]
  ELSE town

-----------------------------------------------------------------------------
(* Bills are paid whole, or rejected and never presented again.            *)

\* Accounts as they were read, with the balances they had.
payerLegs(accounts, amount) ==
  FoldLeft(LAMBDA legs, a :
      LET due == amount + FoldLeft(LAMBDA sum, leg : sum + leg.amount, 0, legs)
          paid == IF a.balance < due THEN a.balance ELSE due
      IN  IF paid > 0 THEN Append(legs, credit(a.owner, paid)) ELSE legs,
    <<>>, accounts)

accountsOf(town, owners) ==
  [i \in DOMAIN owners |-> [owner |-> owners[i], balance |-> town.balance[owners[i]]]]

availableIn(accounts) == FoldLeft(LAMBDA sum, a : sum + a.balance, 0, accounts)

Bills == [class : CustomerClasses, customer : Companies \cup HouseholdIds, units : Nat \ {0}, amount : Nat \ {0},
          status : {"paid", "rejected"}]

settleBill(town, class, customer, owners, units) ==
  LET accounts == accountsOf(town, owners)
      amount == town.tariff[class] * units
      status == IF availableIn(accounts) < amount THEN "rejected" ELSE "paid"
      bill == [class |-> class, customer |-> customer, units |-> units, amount |-> amount,
               status |-> status]
      billed == [town EXCEPT !.bills = @ \cup {bill}]
  IN  IF status = "rejected" THEN billed
      ELSE post(billed, "purchase", <<"bill", customer>>,
                <<debit(Utility, amount)>> \o payerLegs(accounts, amount))

\* A household is billed once a month; the caller bills on that day only.
settleHouseholdBill(town, h, tick) ==
  IF energyBillingCycleDue(tick)
  THEN settleBill(town, "household", h.id, SortedMembers(h), 1)
  ELSE throw(town, "CONFLICT")

billBusinessProduction(town) ==
  FoldLeft(LAMBDA t, c : settleBill(t, "business", c, <<c>>, t.made[c]), town,
           SelectSeq(Shops, LAMBDA c : town.made[c] > 0))

-----------------------------------------------------------------------------
(* Fuel is bought once a tick for the bills that were paid on it.          *)

paidBills(town) == {b \in town.bills : b.status = "paid"}

fuelBurnt(bills) == MapThenSumSet(LAMBDA b : FuelMilliunits[b.class] * b.units, bills)

\* A purchase the utility cannot pay is skipped, and not made up for later.
purchaseFuelForTick(town) ==
  LET total == fuelPurchaseTotal(town.fuel, fuelBurnt(paidBills(town)))
  IN  IF paidBills(town) = {} \/ town.balance[Utility] < total THEN town
      ELSE [post(town, "row_settlement", <<"fuel", Utility>>,
                 <<debit(Row, total), credit(Utility, total)>>)
              EXCEPT !.burnt = @ + fuelBurnt(paidBills(town))]

=============================================================================
