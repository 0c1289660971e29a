----------------------------- MODULE WorldEvents ------------------------------
(***************************************************************************)
(* Events an administrator injects into a run that is not running, the     *)
(* durable tasks that carry them to their tick, and the effects they leave *)
(* in the books of the town: a new fuel price, a new price of the rest of  *)
(* the world, a demand or a capacity that is changed for a while.          *)
(***************************************************************************)
EXTENDS GoodsMarket

CONSTANTS RowPrice,     \* reference price of a unit of groceries abroad, cents
          EventSpecs    \* events that may be injected

ASSUME EventAssumption ==
  /\ RowPrice \in Nat \ {0}
  /\ \A s \in EventSpecs :
       /\ s.type \in {"fuel_price_shock", "reference_price_shift", "demand_shock", "disaster"}
       /\ s.pct \in -99 .. 1000
       /\ s.type = "disaster" => s.company \in Companies /\ s.pct \in 1 .. 100
       /\ s.type \in {"demand_shock", "disaster"} => s.duration \in 1 .. 360

EventRows(lastTick) ==
  [spec : EventSpecs, due : 1 .. lastTick, fired : 0 .. lastTick,
   status : {"scheduled", "applied"}]

EffectRows(lastTick) ==
  [event : Nat \ {0}, from : 1 .. lastTick, until : Nat]

ReferencePriceRows == Nat \ {0}

percentageToBasisPoints(pct) == pct * 100

changedReferencePrice(price, changeBp) ==
  LET changed == applyRateBp(price, 10000 + changeBp) IN IF changed < 1 THEN 1 ELSE changed

combinedDemandMultiplierBp(changes) == clamp(10000 + changes, 1000, 50000)

combinedCapacityMultiplierBp(reductions) == 10000 - clamp(reductions, 0, 10000)

scaleMoneyByBasisPoints(amount, bp) == applyRateBp(amount, bp)
scaleCapacity(capacity, bp) == (capacity * bp) \div 10000

\* What the effects in force on a tick add up to, overlapping ones included.
inForce(town, type, tick) ==
  {e \in town.effects : /\ town.events[e.event].spec.type = type
                        /\ e.from <= tick /\ tick <= e.until}

changeOf(town, e) == percentageToBasisPoints(town.events[e.event].spec.pct)

demandMultiplierBp(town, tick) ==
  combinedDemandMultiplierBp(MapThenSumSet(LAMBDA e : changeOf(town, e),
                                           inForce(town, "demand_shock", tick)))

capacityMultiplierBp(town, c, tick) ==
  combinedCapacityMultiplierBp(MapThenSumSet(LAMBDA e : changeOf(town, e),
    {e \in inForce(town, "disaster", tick) : town.events[e.event].spec.company = c}))

-----------------------------------------------------------------------------
(* Injection, between ticks: the event and its task are one transaction.   *)

validateSpecTargets(spec) == spec.type = "disaster" => spec.company \in Companies

recordScheduled(spec, due) == [spec |-> spec, due |-> due, fired |-> 0, status |-> "scheduled"]

\* Due later than the current tick, and not after the last one.
schedule(town, spec, due) == [town EXCEPT !.events = Append(@, recordScheduled(spec, due))]

-----------------------------------------------------------------------------
(* The scheduler: first handler of a tick.                                 *)

\* Tasks that have not fired and are due, in the order of their due ticks and ids.
listPending(town, tick) ==
  LET due == SelectSeq([i \in DOMAIN town.events |-> i],
                LAMBDA i : town.events[i].fired = 0 /\ town.events[i].due <= tick)
      rank(i) == town.events[i].due * (Len(town.events) + 1) + i
  IN  SortSeq(due, LAMBDA i, j : rank(i) < rank(j))

\* Mutant: an effect of one tick lasts into the next.
expiresTickLate(spec, tick) == tick + spec.duration

expiresTick(spec, tick) == tick + spec.duration - 1

effectRow(town, i, tick) ==
  [event |-> i, from |-> tick, until |-> expiresTick(town.events[i].spec, tick)]

applyEffect(town, i, tick) ==
  LET spec == town.events[i].spec
      changeBp == percentageToBasisPoints(spec.pct)
  IN  CASE spec.type = "fuel_price_shock" -> applyFuelShock(town, changeBp)
        [] spec.type = "reference_price_shift" ->
             [town EXCEPT !.rowPrice = changedReferencePrice(@, changeBp)]
        [] OTHER -> [town EXCEPT !.effects = @ \cup {effectRow(town, i, tick)}]

applyTask(town, i, tick) ==
  IF town.events[i].status # "scheduled" THEN throw(town, "CONFLICT")
  ELSE [applyEffect(town, i, tick) EXCEPT !.events[i].status = "applied"]

fireDue(town, tick) ==
  FoldLeft(LAMBDA t, i : applyTask([t EXCEPT !.events[i].fired = tick], i, tick), town,
           listPending(town, tick))

=============================================================================
