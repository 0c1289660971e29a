----------------------------- MODULE GoodsMarket ------------------------------
(***************************************************************************)
(* The goods market: what a company produces on a tick, the orders of the  *)
(* households at posted prices, and the weekly review of those prices.     *)
(* One good is traded, the groceries, and a company offers it once.        *)
(***************************************************************************)
EXTENDS EnergyUtility

CONSTANTS Profile,     \* company -> its production profile and the tick of its offering
          FoodMonthly  \* groceries of a person and month at the reference price, cents

ASSUME MarketAssumption ==
  /\ FoodMonthly \in Nat \ {0}
  /\ \A c \in Companies :
       /\ {Profile[c].hours, Profile[c].productivity, Profile[c].capacity, Profile[c].unitCost}
             \subseteq Nat \ {0}
       /\ Profile[c].created \in Nat

MARKET_PRICE_REVIEW_INTERVAL_TICKS == 7
MARKET_PRICE_ADJUSTMENT_BP == 500
MARKET_PRICE_MAX_MARKUP_BP == 5000

OrderRejections == {"inactive_offering", "price_changed", "insufficient_funds", "stockout"}

\* Rows: the posted price of an offering, the shelf with its average cost, and
\* the units produced, sold and not sold for want of stock.
OfferingRows == [Companies -> Nat \ {0}]
InventoryRows == [Companies -> Nat]
ProductionRows == [Companies -> Nat]
StockoutRows == [Companies -> Nat]

-----------------------------------------------------------------------------
(* Production.                                                             *)

linearProductionUnits(workers, c, capacity) ==
  LET labor == (workers * Profile[c].hours * Profile[c].productivity) \div 1000
  IN  IF labor < capacity THEN labor ELSE capacity

movingAverageUnitCost(quantity, average, produced, unitCost) ==
  mulDiv(average * quantity + unitCost * produced, quantity + produced)

workersOf(town, c) == Cardinality({e \in town.employment : e.employer = c})

increaseInventory(town, c, units) ==
  [town EXCEPT !.stock[c] = @ + units,
               !.made[c] = units,
               !.cost[c] = movingAverageUnitCost(town.stock[c], @, units,
                              Profile[c].unitCost + town.tariff["business"])]

\* A capacity of nothing is no capacity of a profile: it is rejected.
produce(town, c, capacity) ==
  LET units == linearProductionUnits(workersOf(town, c), c, capacity)
  IN  CASE town.fault # "none" -> town
        [] capacity < 1 -> throw(town, "capacityUnitsPerTick must be at least one")
        [] units = 0 -> town
        [] OTHER -> increaseInventory(town, c, units)

processProduction(town, capacityOf) ==
  FoldLeft(LAMBDA t, c : produce(t, c, capacityOf[c]), town,
           SelectSeq(Shops, LAMBDA c : c \in town.open))

-----------------------------------------------------------------------------
(* Orders at the posted price.                                             *)

\* Cheapest first, and by id among equals.
sortPostedPriceOfferings(town, shops) ==
  LET rank(c) == town.price[c] * (Len(Shops) + 1) + (CHOOSE i \in DOMAIN Shops : Shops[i] = c)
  IN  SortSeq(shops, LAMBDA c, d : rank(c) < rank(d))

listActiveOfferings(town) ==
  sortPostedPriceOfferings(town, SelectSeq(Shops, LAMBDA c : c \in town.open))

affordableQuantity(budget, price) == budget \div price

fundsOf(town, h) == availableIn(accountsOf(town, h.members))

\* Why an order is rejected, both when it is placed and when it is settled.
rejection(town, h, c, price, quantity) ==
  CASE c \notin town.open -> "inactive_offering"
    [] town.price[c] # price -> "price_changed"
    [] fundsOf(town, h) < price * quantity -> "insufficient_funds"
    [] town.stock[c] < quantity -> "stockout"
    [] OTHER -> "none"

insertStockout(town, c, quantity) == [town EXCEPT !.unfilled[c] = @ + quantity - town.stock[c]]

placeOrder(town, h, c, price, quantity) ==
  LET reason == rejection(town, h, c, price, quantity)
  IN  [town |-> IF reason = "stockout" THEN insertStockout(town, c, quantity) ELSE town,
       reason |-> reason]

\* The payment and the movement of the goods are one transaction.
settleOrder(town, h, c, price, quantity, accounts) ==
  LET paid == post(town, "purchase", <<"order", h.id, c>>,
                   <<debit(c, price * quantity)>> \o payerLegs(accounts, price * quantity))
  IN  IF rejection(town, h, c, price, quantity) # "none" THEN town
      ELSE [paid EXCEPT !.stock[c] = @ - quantity, !.sold[c] = @ + quantity,
                        !.finalSales = @ + price * quantity]

\* An order that finds too little in stock is placed again for what there is.
retryQuantity(town, c, reason) == IF reason = "stockout" THEN town.stock[c] ELSE 0

\* Mutant: the balances of before the purchase are used after it.
refreshHouseholdAccountsNever(town, h, read) == read

\* The balances after a purchase, whatever was read before it.
refreshHouseholdAccounts(town, h, read) == accountsOf(town, h.members)

\* One offering of the loop over the offerings: what is left of the budget, the
\* accounts as they were last read, and whether the loop goes on.
buyFrom(loop, h, c, price) ==
  LET desired == affordableQuantity(loop.remaining, price)
      first == placeOrder(loop.town, h, c, price, desired)
      again == retryQuantity(loop.town, c, first.reason)
      quantity == IF first.reason = "none" THEN desired ELSE again
      second == IF first.reason = "none" THEN first ELSE placeOrder(first.town, h, c, price, again)
      settled == settleOrder(second.town, h, c, price, quantity, loop.accounts)
  IN  CASE ~loop.goes \/ loop.remaining <= 0 \/ desired = 0 -> loop
        [] first.reason = "insufficient_funds" -> [loop EXCEPT !.goes = FALSE]
        [] first.reason # "none" /\ again = 0 -> [loop EXCEPT !.town = first.town]
        [] second.reason # "none" -> [loop EXCEPT !.town = second.town]
        [] OTHER -> [loop EXCEPT !.town = settled,
                                 !.remaining = @ - price * quantity,
                                 !.accounts = refreshHouseholdAccounts(settled, h, @)]

settleLocalFoodPurchases(town, h, approved, accounts) ==
  FoldLeft(LAMBDA loop, c : buyFrom(loop, h, c, town.price[c]),
           [town |-> town, remaining |-> approved, accounts |-> accounts, goes |-> TRUE],
           listActiveOfferings(town))

-----------------------------------------------------------------------------
(* Prices.                                                                 *)

unitCostOf(town, c) == IF town.cost[c] > 0 THEN town.cost[c] ELSE Profile[c].unitCost

marketPriceBounds(unitCost) ==
  [least |-> unitCost, greatest |-> (unitCost * (10000 + MARKET_PRICE_MAX_MARKUP_BP)) \div 10000]

withinBounds(price, unitCost) ==
  price \in marketPriceBounds(unitCost).least .. marketPriceBounds(unitCost).greatest

clampPrice(price, unitCost) ==
  clamp(price, marketPriceBounds(unitCost).least, marketPriceBounds(unitCost).greatest)

marketPriceReviewDue(created, tick) ==
  tick > created /\ (tick - created) % MARKET_PRICE_REVIEW_INTERVAL_TICKS = 0

\* Five percent, and a cent at least.
steppedPrice(price, direction) ==
  LET rounded == applyRateBp(price, 10000 + direction * MARKET_PRICE_ADJUSTMENT_BP)
  IN  IF direction = 1 /\ rounded <= price THEN price + 1
      ELSE IF direction = -1 /\ rounded >= price THEN price - 1 ELSE rounded

\* Whether a week of sales raises a price, lowers it, or leaves it.
priceSignal(stock, sold, unfilled) ==
  CASE unfilled > 0 -> 1
    [] sold = 0 -> IF stock > 0 THEN -1 ELSE 0
    [] (stock * 10000) \div sold < 5000 -> 1
    [] (stock * 10000) \div sold > 20000 -> -1
    [] OTHER -> 0

weeklyMarketPriceAdjustment(town, c) ==
  LET price == town.price[c]
      cost == unitCostOf(town, c)
      direction == priceSignal(town.stock[c], town.sold[c], town.unfilled[c])
  IN  CASE clampPrice(price, cost) # price -> clampPrice(price, cost)
        [] direction = 0 -> price
        [] OTHER -> clampPrice(steppedPrice(price, direction), cost)

\* A price that stays leaves no history, and the tick open to a later change.
recordPriceChange(town, c, price) ==
  IF price = town.price[c] THEN town
  ELSE [town EXCEPT !.price[c] = price, !.priced = @ \cup {c}]

\* Offerings reviewed on a tick that have no new price on it yet.
listFounderPricingOpportunities(town, tick) ==
  {c \in town.open \ town.priced : marketPriceReviewDue(Profile[c].created, tick)}

\* Closes the week of every offering due, whether its price was decided or not.
priceWindowClosed(town, tick) ==
  LET due == {c \in Companies : marketPriceReviewDue(Profile[c].created, tick)}
  IN  [town EXCEPT !.sold = [c \in Companies |-> IF c \in due THEN 0 ELSE @[c]],
                   !.unfilled = [c \in Companies |-> IF c \in due THEN 0 ELSE @[c]]]

processWeeklyPricing(town, tick) ==
  LET reviewed == FoldLeft(
        LAMBDA t, c : recordPriceChange(t, c, weeklyMarketPriceAdjustment(t, c)), town,
        SelectSeq(Shops, LAMBDA c : c \in listFounderPricingOpportunities(town, tick)))
  IN  priceWindowClosed(reviewed, tick)

=============================================================================
