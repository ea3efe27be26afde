------------------------------ MODULE MCAtmReports ------------------------------
(* Times and lines for model-checking AtmReports.  The last time is in the *)
(* next month; a time stamp of transactions.txt may sort before, among or  *)
(* after those of the clock.                                               *)
EXTENDS AtmReports

MCLimits == {-1, 0, 1, 3}
MCMonth(t) == IF t < LastStamp THEN 1 ELSE 2

MCLine(no, type, amount, timestamp) ==
  [account_no |-> no, type |-> type, amount |-> amount, timestamp |-> timestamp]
MCLines ==
  {MCLine(1, "Deposit", 2, 0), MCLine(1, "Transfer Sent", 2, LastStamp),
   MCLine(2, "Interest", 2, LastStamp + 1)}
===============================================================================
