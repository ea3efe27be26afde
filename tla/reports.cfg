SPECIFICATION Spec
CONSTANTS
  Numbers = {1, 2}
  Amounts = {1}
  Limits <- MCLimits
  LegacyLines <- MCLines
  LastStamp = 2
  Month <- MCMonth
  StatementLimit = 2
  DefaultRecent = 1
  MostRecent = 2
  ListingRoom = 1
  MaxTransactions = 3
  MaxSteps = 1
INVARIANTS TypeOK StatementAddsUp SummaryExplainsBalance DashboardAgrees RecentIsRecent ListingComplete
