SPECIFICATION Spec
CONSTANTS
  Servers = {s1, s2}
  NoServer = none
  Numbers = {1}
  Pins = {1111}
  Amounts = {1}
  AdminNames = {"root"}
  Passwords = {"longpass"}
  Long <- MCLong
  Trim <- MCTrim
  Salts = {7}
  MaxTransactions = 1
PROPERTIES LockClearedOnlyByAdmin
