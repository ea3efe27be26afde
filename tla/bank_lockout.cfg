SPECIFICATION Spec
CONSTANTS
  Numbers = {1, 2}
  Pins = {999, 1111, 2222}
  Amounts = {1}
  AdminNames = {"root", "guest"}
  Passwords = {"short", " short ", "longpass", " longpass", "otherpass"}
  Long <- MCLong
  Trim <- MCTrim
  Salts = {7, 8}
  MaxTransactions = 1
INVARIANTS TypeOK LockMatchesFailures
PROPERTIES LockClearedOnlyByAdmin ImplementsBank
