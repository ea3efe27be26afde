----------------------------- MODULE MCAtmMigration -----------------------------
(* Legacy files for model-checking AtmMigration: two accounts, and lines   *)
(* of which one cannot be read and one names an account accounts.dat does  *)
(* not have, with a line after it.                                         *)
EXTENDS AtmMigration, TLC

Entry(timestamp, account_no, type) ==
  [timestamp |-> timestamp, account_no |-> account_no, type |-> type, amount |-> 1]

MCAccountsFile == <<1, 2>>
MCTransactionsFile ==
  <<Entry(1, 1, "Deposit"), Unreadable, Entry(3, 2, "Transfer Sent"),
    Entry(4, 3, "Fee"), Entry(5, 1, "Withdraw")>>

AnyServer == Permutations(Servers)
===============================================================================
