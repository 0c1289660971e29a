SPECIFICATION LiveSpec
CONSTANTS
  NCompanies = 2
  Principal = 5
  Term = 4
  RateBp = 30000
  DaysPerMonth = 1
  ShortfallDays = 2
  Reserve = 5
  ReserveMinBp = 1300
  OpeningCapital = 6
  CapitalMinBp = 1000
  CashLevels = {1, 6}
  DepositLevels = {27}
INVARIANTS BooksKept
PROPERTIES SchemaAccepts LoanContracts ApplicationsDecided
