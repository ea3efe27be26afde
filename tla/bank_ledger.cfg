SPECIFICATION Spec
CONSTANTS
  Numbers = {0, 1, 2, 3}
  Pins = {1111}
  Amounts = {0, 1}
  AdminNames = {"root"}
  Passwords = {"longpass"}
  Long <- MCLong
  Trim <- MCTrim
  Salts = {7}
  MaxTransactions = 4
INVARIANTS TypeOK LedgerExplainsBalance TransfersPaired RowsNameLiveAccounts SessionNamesLiveRow
PROPERTIES AuditTrailIntact ImplementsBank
