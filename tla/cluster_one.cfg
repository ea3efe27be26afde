SPECIFICATION Spec
CONSTANTS
  Servers = {s1}
  NoServer = none
  Numbers = {1, 2, 3}
  Pins = {1111, 2222}
  Amounts = {1}
  AdminNames = {"root"}
  Passwords = {"longpass", "otherpass"}
  Long <- MCLong
  Trim <- MCTrim
  Salts = {7}
  MaxTransactions = 3
CONSTRAINT OneThingAtATime
PROPERTIES ImplementsServer
