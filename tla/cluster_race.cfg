SPECIFICATION FairSpec
CONSTANTS
  Servers = {s1, s2}
  NoServer = none
  Numbers = {1}
  Pins = {1111, 2222}
  Amounts = {1}
  AdminNames = {"root"}
  Passwords = {"longpass"}
  Long <- MCLong
  Trim <- MCTrim
  Salts = {7}
  MaxTransactions = 0
INVARIANTS TypeOK LockMatchesFailures
PROPERTIES EveryRequestAnswered
