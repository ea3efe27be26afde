------------------------------ MODULE AtmMigration ------------------------------
(***************************************************************************)
(* How a server process starts: db_open creates the tables if they are     *)
(* missing and imports accounts.dat and transactions.txt, each into a      *)
(* table it finds empty and row by row, every row committed by itself;     *)
(* then the first admin is seeded, and the process serves.  Processes may  *)
(* start on the same file at the same time, an import may fail in any      *)
(* statement, which db_open does not report, and a process may end between *)
(* any two statements.                                                     *)
(*                                                                         *)
(* While processes serve, the handlers that fill, empty, renumber and drop *)
(* accounts change the tables, each in one step (AtmCluster has their      *)
(* statements).  A definition named Slip... is the one after it with a     *)
(* mistake in it.                                                          *)
(***************************************************************************)
EXTENDS AtmTables, Sequences, FiniteSets

CONSTANTS
  Servers,          \* server processes that may run
  AccountsFile,     \* the account numbers of accounts.dat, in order
  TransactionsFile, \* the lines of transactions.txt, in order
  Unreadable,       \* a line that has not the four fields
  NoFunds,          \* the balance a record of accounts.dat carries
  Numbers, Pins, Amounts, Salts,    \* what requests may carry
  AdminNames,       \* what ATM_ADMIN_USERNAME may hold
  Now,              \* the time stamp of a row a handler writes
  MaxStarts,        \* bound: starts of a server process
  MaxTransactions   \* bound: transaction rows ever written

ASSUME NumbersPositive == Numbers \subseteq Nat \ {NoAccount}
ASSUME AmountsAssumption == Amounts \subseteq Int
ASSUME FilesAreFinite == Len(AccountsFile) \in Nat /\ Len(TransactionsFile) \in Nat
ASSUME FileIsOld ==
  \A i, j \in 1 .. Len(TransactionsFile) :
    LET entry == TransactionsFile[i]
        other == TransactionsFile[j]
    IN  entry # Unreadable =>
          /\ entry.timestamp # Now
          /\ other # Unreadable /\ i # j => entry.timestamp # other.timestamp

VARIABLES
  accounts, transactions, nextId,   \* the tables, as in AtmServer
  admins,           \* the names in the admins table
  pc,               \* where each process stands
  line,             \* the record or line its import reads next
  starts,           \* starts so far
  past              \* what has happened so far, for the properties

tables == <<accounts, transactions, nextId>>
vars == <<tables, admins, pc, line, starts, past>>

Importing == {"importAccounts", "importTransactions"}
Starting == Importing \union {"accounts", "transactions", "admins", "insertAdmin"}

Init ==
  /\ accounts = [a \in {} |-> NewAccountRow(<<>>, 0)]
  /\ transactions = [i \in {} |-> StampedRow(TransactionRow(0, 0, "", 0, 0), Now)]
  /\ nextId = 1
  /\ admins = {}
  /\ pc = [s \in Servers |-> "off"]
  /\ line = [s \in Servers |-> 1]
  /\ starts = 0
  /\ past = [overlap |-> FALSE, stopped |-> FALSE, served |-> FALSE]

Go(s, place) == pc' = [pc EXCEPT ![s] = place]

RoomForTransactions == nextId <= MaxTransactions

-------------------------------------------------------------------------------
(* db_open as far as the schema.                                           *)
Start(s) ==
  /\ pc[s] = "off"
  /\ starts < MaxStarts
  /\ starts' = starts + 1
  /\ Go(s, "accounts")
  /\ past' = [past EXCEPT !.overlap = @ \/ \E r \in Servers : pc[r] \in Starting]
  /\ UNCHANGED <<tables, admins, line>>

SlipImportable(table) == TRUE
(* An import runs on an empty table only.                                  *)
Importable(table) == DOMAIN table = {}

BeginImport(s, from, table, import, next) ==
  /\ pc[s] = from
  /\ Go(s, IF Importable(table) THEN import ELSE next)
  /\ line' = [line EXCEPT ![s] = 1]
  /\ UNCHANGED <<tables, admins, starts, past>>

CountAccounts(s) ==
  BeginImport(s, "accounts", accounts, "importAccounts", "transactions")
CountTransactions(s) ==
  BeginImport(s, "transactions", transactions, "importTransactions", "admins")

EndOfFile(s, place, file, next) ==
  /\ pc[s] = place
  /\ line[s] > Len(file)
  /\ Go(s, next)
  /\ UNCHANGED <<tables, admins, line, starts, past>>

NextLine(s) == line' = [line EXCEPT ![s] = @ + 1]

(* A hash of the old program: no PIN has it under the new salt.            *)
LegacyHash == PinHash(0, 0)

SlipLegacyRow(salt) == [NewAccountRow(LegacyHash, salt) EXCEPT !.balance = NoFunds]
(* The row of an imported account: the balance of the file is left behind. *)
LegacyRow(salt) == NewAccountRow(LegacyHash, salt)

SlipInsertOrIgnore(no, row) == InsertAccountRow(accounts, no, row)
(* INSERT OR IGNORE: an account that exists stays as it is.                *)
InsertOrIgnore(no, row) ==
  IF no \in DOMAIN accounts THEN accounts ELSE InsertAccountRow(accounts, no, row)

ImportAccount(s) ==
  /\ pc[s] = "importAccounts"
  /\ line[s] <= Len(AccountsFile)
  /\ \E salt \in Salts :
       accounts' = InsertOrIgnore(AccountsFile[line[s]], LegacyRow(salt))
  /\ NextLine(s)
  /\ UNCHANGED <<transactions, nextId, admins, pc, starts, past>>

AtLine(s) ==
  /\ pc[s] = "importTransactions"
  /\ line[s] <= Len(TransactionsFile)

SlipSkipLine(s) ==
  /\ AtLine(s)
  /\ TransactionsFile[line[s]] = Unreadable
  /\ Go(s, "admins")
  /\ UNCHANGED <<tables, admins, line, starts, past>>
(* A line without the four fields is passed over.                          *)
SkipLine(s) ==
  /\ AtLine(s)
  /\ TransactionsFile[line[s]] = Unreadable
  /\ NextLine(s)
  /\ UNCHANGED <<tables, admins, pc, starts, past>>

SlipForeignKey(no) == TRUE
(* PRAGMA foreign_keys, and the foreign key of transactions.               *)
ForeignKey(no) == no \in DOMAIN accounts

ImportTransaction(s) ==
  /\ AtLine(s)
  /\ RoomForTransactions
  /\ LET entry == TransactionsFile[line[s]]
     IN  /\ entry # Unreadable
         /\ ForeignKey(entry.account_no)
         /\ transactions' =
              InsertTransaction(transactions, nextId, LegacyTransaction(entry))
  /\ nextId' = nextId + 1
  /\ NextLine(s)
  /\ UNCHANGED <<accounts, admins, pc, starts, past>>

(* The foreign key refuses the row of an account that does not exist: the  *)
(* import ends there, and the start goes on.                               *)
UnknownAccount(s) ==
  /\ AtLine(s)
  /\ LET entry == TransactionsFile[line[s]]
     IN  entry # Unreadable /\ ~ForeignKey(entry.account_no)
  /\ Go(s, "admins")
  /\ UNCHANGED <<tables, admins, line, starts, past>>

(* Any statement of an import fails, its count included.  db_open looks at *)
(* the result of neither.                                                  *)
FailImport(s) ==
  /\ \/ pc[s] \in {"accounts", "importAccounts"} /\ Go(s, "transactions")
     \/ pc[s] \in {"transactions", "importTransactions"} /\ Go(s, "admins")
  /\ past' = [past EXCEPT !.stopped = TRUE]
  /\ UNCHANGED <<tables, admins, line, starts>>

-------------------------------------------------------------------------------
SlipSeeded == TRUE
Seeded == admins # {}

CountAdmins(s) ==
  /\ pc[s] = "admins"
  /\ Go(s, IF Seeded THEN "serving" ELSE "insertAdmin")
  /\ UNCHANGED <<tables, admins, line, starts, past>>

(* INSERT INTO admins, whose key is the name: it fails if another process  *)
(* has been faster with the same name, and the process ends.               *)
InsertAdmin(s, username) ==
  /\ pc[s] = "insertAdmin"
  /\ admins' = admins \union {username}
  /\ Go(s, IF username \in admins THEN "off" ELSE "serving")
  /\ UNCHANGED <<tables, line, starts, past>>

(* The process ends at any statement: by itself, because db_seed_admin     *)
(* found no usable credentials or met an error, or because it is killed.   *)
End(s) ==
  /\ pc[s] # "off"
  /\ Go(s, "off")
  /\ past' = [past EXCEPT !.stopped = @ \/ (pc[s] \in Importing /\ line[s] > 1)]
  /\ UNCHANGED <<tables, admins, line, starts>>

-------------------------------------------------------------------------------
(* Handlers of the processes that serve.                                   *)
Serving == \E s \in Servers : pc[s] = "serving"

Served ==
  /\ Serving
  /\ past' = [past EXCEPT !.served = TRUE]
  /\ UNCHANGED <<admins, pc, line, starts>>

CreateAccount(no, pin, salt) ==
  /\ Served
  /\ no \notin DOMAIN accounts
  /\ accounts' = InsertAccountRow(accounts, no,
                                  NewAccountRow(PinHash(salt, pin), salt))
  /\ UNCHANGED <<transactions, nextId>>

(* Deposit, withdrawal, admin credit and admin debit.                      *)
Enter(no, amount, type) ==
  /\ Served
  /\ RoomForTransactions
  /\ amount > 0
  /\ no \in DOMAIN accounts
  /\ type \in CreditTypes \/ amount <= accounts[no].balance
  /\ LET updated_balance ==
           IF type \in CreditTypes THEN accounts[no].balance + amount
                                   ELSE accounts[no].balance - amount
     IN  /\ accounts' = UpdateBalance(accounts, no, updated_balance)
         /\ transactions' =
              InsertTransaction(transactions, nextId,
                StampedRow(TransactionRow(no, NoAccount, type, amount,
                                          updated_balance), Now))
  /\ nextId' = nextId + 1

EditAccount(old, new, pin, salt) ==
  /\ Served
  /\ old \in DOMAIN accounts
  /\ new = old \/ new \notin DOMAIN accounts
  /\ accounts' = InsertAccountRow(DeleteAccountRow(accounts, old), new,
                                  RenumberedRow(accounts[old], pin, salt))
  /\ transactions' = RelinkRows(MoveRows(transactions, old, new), old, new)
  /\ UNCHANGED nextId

DeleteAccount(no) ==
  /\ Served
  /\ no \in DOMAIN accounts
  /\ accounts[no].balance = 0
  /\ transactions' = DeleteRowsOf(RelinkRows(transactions, no, NoAccount), no)
  /\ accounts' = DeleteAccountRow(accounts, no)
  /\ UNCHANGED nextId

Handler ==
  \/ \E no \in Numbers, pin \in Pins, salt \in Salts :
       \/ CreateAccount(no, pin, salt)
       \/ \E new \in Numbers : EditAccount(no, new, pin, salt)
  \/ \E no \in Numbers, amount \in Amounts :
       Enter(no, amount, "DEPOSIT") \/ Enter(no, amount, "WITHDRAW")
  \/ \E no \in Numbers : DeleteAccount(no)

Startup(s) ==
  \/ Start(s)
  \/ CountAccounts(s) \/ ImportAccount(s)
  \/ EndOfFile(s, "importAccounts", AccountsFile, "transactions")
  \/ CountTransactions(s) \/ SkipLine(s) \/ ImportTransaction(s) \/ UnknownAccount(s)
  \/ EndOfFile(s, "importTransactions", TransactionsFile, "admins")
  \/ FailImport(s)
  \/ CountAdmins(s) \/ \E username \in AdminNames : InsertAdmin(s, username)
  \/ End(s)

Next == Handler \/ \E s \in Servers : Startup(s)

Spec == Init /\ [][Next]_vars

-------------------------------------------------------------------------------
FileAccounts == {AccountsFile[i] : i \in 1 .. Len(AccountsFile)}

(* The lines an import that nothing disturbs writes: the readable ones     *)
(* before the first that names an account accounts.dat does not have.      *)
WrittenLines ==
  {i \in 1 .. Len(TransactionsFile) :
     /\ TransactionsFile[i] # Unreadable
     /\ \A j \in 1 .. i :
          TransactionsFile[j] # Unreadable =>
            TransactionsFile[j].account_no \in FileAccounts}

RowsFrom(i) ==
  {id \in DOMAIN transactions :
     TransactionsFile[i] # Unreadable /\
     transactions[id].created_at = TransactionsFile[i].timestamp}

(* The tables, the position of every process and the id counter have their *)
(* types, and every row names an account that exists: the foreign key      *)
(* holds through imports, renumberings and deletions at the same time.     *)
TypeOK ==
  /\ \A a \in DOMAIN accounts : accounts[a].balance \in Nat
  /\ DOMAIN transactions \subseteq 1 .. nextId - 1
  /\ \A i \in DOMAIN transactions :
       /\ transactions[i].account_no \in DOMAIN accounts
       /\ transactions[i].type \in TransactionTypes \union {"LEGACY"}
       /\ transactions[i].balance_after \in Nat \union {Null}
  /\ admins \subseteq AdminNames
  /\ pc \in [Servers -> Starting \union {"off", "serving"}]
  /\ line \in [Servers -> 1 .. Len(AccountsFile) + Len(TransactionsFile) + 1]

(* Imported rows carry no total and imported accounts no money: the        *)
(* balance of an account is explained by the rows handlers wrote, wherever *)
(* the rows of the file lie between them (apply_balance_transaction and    *)
(* migrate_legacy_transactions).                                           *)
NativeRows ==
  [i \in {j \in DOMAIN transactions : transactions[j].balance_after # Null}
     |-> transactions[i]]
NativeLedgerExplainsBalance ==
  /\ RunningTotals(NativeRows)
  /\ BalanceIsTotal(accounts, NativeRows)

(* A process that serves after a start nothing disturbed has imported all  *)
(* of accounts.dat, and of transactions.txt each readable line once, as    *)
(* far as the first that names an unknown account: the end of a process    *)
(* before its first row, or between the two imports, is made up for by the *)
(* next start (db_open).                                                   *)
ImportComplete ==
  Serving /\ ~past.overlap /\ ~past.stopped /\ ~past.served =>
    /\ DOMAIN accounts = FileAccounts
    /\ \A i \in 1 .. Len(TransactionsFile) :
         Cardinality(RowsFrom(i)) = IF i \in WrittenLines THEN 1 ELSE 0

(* No line of transactions.txt stands in the table twice, whatever was     *)
(* deleted and however often the server was restarted, unless two          *)
(* processes were starting at the same time (the count of                  *)
(* migrate_legacy_transactions and its inserts are separate transactions). *)
LinesImportedOnce ==
  ~past.overlap =>
    \A i \in 1 .. Len(TransactionsFile) : Cardinality(RowsFrom(i)) <= 1

(* No process serves without an admin, and there is one admin, unless two  *)
(* processes were starting at the same time with different names           *)
(* (seed_default_admin).                                                   *)
SingleAdminServes ==
  Serving => /\ admins # {}
             /\ past.overlap \/ Cardinality(admins) = 1

(* An import only adds: the accounts and rows it finds, which another      *)
(* process may be writing at the time, stay as they are.                   *)
ImportOnlyAdds ==
  [][ (\E s \in Servers : pc[s] \in Importing /\ line'[s] > line[s]) =>
        /\ \A a \in DOMAIN accounts :
             a \in DOMAIN accounts' /\ accounts'[a] = accounts[a]
        /\ \A i \in DOMAIN transactions :
             i \in DOMAIN transactions' /\ transactions'[i] = transactions[i] ]_vars
===============================================================================
