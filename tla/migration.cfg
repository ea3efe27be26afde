SPECIFICATION Spec
CONSTANTS
  Servers = {s1, s2}
  AccountsFile <- MCAccountsFile
  TransactionsFile <- MCTransactionsFile
  Unreadable = unreadable
  NoFunds = 5
  Numbers = {1, 3}
  Pins = {1111}
  Amounts = {1}
  Salts = {7}
  AdminNames = {"root", "boss"}
  Now = 9
  MaxStarts = 3
  MaxTransactions = 3
SYMMETRY AnyServer
INVARIANTS TypeOK NativeLedgerExplainsBalance ImportComplete LinesImportedOnce SingleAdminServes
PROPERTIES ImportOnlyAdds
CHECK_DEADLOCK FALSE
