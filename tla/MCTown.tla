-------------------------------- MODULE MCTown --------------------------------
(* Three residents in two households, two shops, and days around the end of a
   month: the 29th of one to the first of the next. *)
EXTENDS Town

TwoHouseholds ==
  << [id |-> "h1", members |-> <<"ann", "bob">>, rent |-> 90, spare |-> 2],
     [id |-> "h2", members |-> <<"cyd">>, rent |-> 60, spare |-> 1] >>

ThreeResidents == <<"ann", "bob", "cyd">>
TwoShops == <<"mill", "shop">>

ShopProfiles ==
  [mill |-> [hours |-> 8, productivity |-> 500, capacity |-> 4, unitCost |-> 2, created |-> 23],
   shop |-> [hours |-> 8, productivity |-> 250, capacity |-> 2, unitCost |-> 3, created |-> 9]]

SomeJobs == {[employer |-> "mill", agent |-> "ann", annual |-> 500],
             [employer |-> "utility", agent |-> "bob", annual |-> 700]}

opening(x, y, z) ==
  [ann |-> x, bob |-> 5, cyd |-> y, mill |-> z, shop |-> 3, utility |-> 12, treasury |-> 9]

OneShelfEmpty == {[mill |-> 0, shop |-> 3], [mill |-> 3, shop |-> 0]}

SomeOpenings == {opening(0, 30, 40), opening(20, 4, 40), opening(20, 30, 10)}

disaster(c, pct, days) == [type |-> "disaster", company |-> c, pct |-> pct, duration |-> days]

MildEvents ==
  {[type |-> "fuel_price_shock", pct |-> 90],
   [type |-> "reference_price_shift", pct |-> 50],
   [type |-> "demand_shock", pct |-> 100, duration |-> 2],
   disaster("mill", 30, 2)}
=============================================================================
