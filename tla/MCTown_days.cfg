SPECIFICATION Spec
CONSTANTS
  Residents <- ThreeResidents
  Shops <- TwoShops
  Households <- TwoHouseholds
  Withholding = 1000
  AnnualBenefit = 100
  HouseholdTariff = 9
  BusinessTariff = 1
  FuelPrice = 10
  Profile <- ShopProfiles
  FoodMonthly = 180
  RowPrice = 4
  EventSpecs <- MildEvents
  FirstTick = 29
  LastTick = 31
  Jobs <- SomeJobs
  Opening <- SomeOpenings
  OpeningStock <- OneShelfEmpty
  OpeningPrice = {3, 4}
  GroceryWeight = 6000
  MayCease = {"mill"}
  Creditor = "cyd"
  MaxEvents = 2
INVARIANTS BooksSound DaysAsPlanned
CHECK_DEADLOCK FALSE
