SPECIFICATION Spec
CONSTANTS
  Population = 3
  Founders = {2, 3}
  Fee = 1
  Capital = 2
  Wage = 1
  Bill = 2
  RowPrice = 2
  MinUnemploymentBp = 3000
  ShortfallDays = 2
  MaxAge = 1
  WalletLevels = {0, 3}
  CashLevels = {0, 2}
  FundCash = 1
  PitchDelay = 1
  Lifetime = 2
  FundSize = 2
  FoundingShares = 4
  Dividend = 1
INVARIANTS CompaniesConsistent MoneyExact
PROPERTY FormationSettles
CHECK_DEADLOCK FALSE
