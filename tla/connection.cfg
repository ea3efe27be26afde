SPECIFICATION FairSpec
CONSTANTS
  Clients = {c1, c2}
  NoClient = nobody
  Numbers = {1}
  Admins = {"root"}
  Offered = {"LOGIN", "ADMIN_LOGIN", "LOGOUT", "DEPOSIT", "ADMIN_CREDIT"}
  Backlog = 1
  MaxMoves = 2
  MaxAbandoned = 1
INVARIANTS TypeOK MenuMatchesSession MovedOncePerRequest DeathsFromAbandonedReplies
PROPERTIES EveryRequestEnds
