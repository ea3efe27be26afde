------------------------------- MODULE AtmTables -------------------------------
(***************************************************************************)
(* The accounts and transactions tables of the SQLite database, as values, *)
(* and the SQL statements src/src/*.c run on them, as operators from a     *)
(* table to a table.  The state machines share these operators, so a       *)
(* statement is translated once.                                           *)
(*                                                                         *)
(* accounts is a function from account numbers to rows, transactions a     *)
(* function from row ids to rows.  Customer names are not kept, and time   *)
(* stamps only where rows are read back (StampedRow): no handler that      *)
(* changes anything looks at them.  Amounts and balances are natural       *)
(* numbers of cents.                                                       *)
(***************************************************************************)
EXTENDS Integers

(* SQL NULL in related_account, and the account number of no session.  The *)
(* code refuses account numbers that are not positive.                     *)
NoAccount == 0

(* SQL NULL in balance_after: the row was imported, no handler wrote it.   *)
Null == -1

CreditTypes == {"DEPOSIT", "ADMIN_CREDIT", "TRANSFER_RECEIVED"}
DebitTypes == {"WITHDRAW", "ADMIN_DEBIT", "TRANSFER_SENT"}
TransactionTypes == CreditTypes \union DebitTypes

ValidPin(pin) == pin \in 1000 .. 9999

(* The first 64 bits of SHA-256(salt o digits of the PIN), idealised as a  *)
(* function with no collisions.                                            *)
PinHash(salt, pin) == <<salt, pin>>

(* SHA-256(salt o username o password), idealised the same way.            *)
PasswordHash(salt, username, password) == <<salt, username, password>>

-------------------------------------------------------------------------------
(* The Session of a connection.  NoName is the empty admin_username.       *)
NoName == ""

ResetSession ==
  [customer_account_no |-> NoAccount, is_admin |-> 0, admin_username |-> NoName]

(* require_customer_session and require_admin_session.                     *)
IsCustomerSession(session) ==
  session.customer_account_no > 0 /\ session.is_admin = 0
IsAdminSession(session) == session.is_admin = 1

-------------------------------------------------------------------------------
(* Rows as the handlers compute them.  A definition named Slip... is the   *)
(* one after it with a mistake in it: no specification uses it, it shows   *)
(* that a property notices.                                                *)

AdminRow(username, password, salt) ==
  [password_hash |-> PasswordHash(salt, username, password),
   password_salt |-> salt]

SlipLockAfterThird(failed_attempts) == IF failed_attempts > 3 THEN 1 ELSE 0
FailedAttemptsLock(failed_attempts) == IF failed_attempts >= 3 THEN 1 ELSE 0

SlipRenumberedFromZero(row, pin, salt) ==
  [row EXCEPT !.pin_hash = PinHash(salt, pin), !.salt = salt, !.balance = 0]
SlipRenumberedOldSalt(row, pin, salt) == [row EXCEPT !.pin_hash = PinHash(salt, pin)]
(* The row db_edit_account inserts under a new number: the money, the      *)
(* failed attempts and the lock of the old one, with the new PIN.          *)
RenumberedRow(row, pin, salt) ==
  [row EXCEPT !.pin_hash = PinHash(salt, pin), !.salt = salt]

-------------------------------------------------------------------------------
(* Statements on the accounts table.  An UPDATE ... WHERE account_no = ?   *)
(* that matches no row changes nothing and is no error.                    *)

NewAccountRow(pin_hash, salt) ==
  [pin_hash |-> pin_hash, salt |-> salt, balance |-> 0,
   failed_attempts |-> 0, is_locked |-> 0]

InsertAccountRow(accounts, no, row) ==
  [a \in DOMAIN accounts \union {no} |-> IF a = no THEN row ELSE accounts[a]]

DeleteAccountRow(accounts, no) ==
  [a \in DOMAIN accounts \ {no} |-> accounts[a]]

UpdateBalance(accounts, no, balance) ==
  [a \in DOMAIN accounts |->
     IF a = no THEN [accounts[a] EXCEPT !.balance = balance] ELSE accounts[a]]

UpdateLoginState(accounts, no, failed_attempts, is_locked) ==
  [a \in DOMAIN accounts |->
     IF a = no
       THEN [accounts[a] EXCEPT !.failed_attempts = failed_attempts,
                                !.is_locked = is_locked]
       ELSE accounts[a]]

UpdatePin(accounts, no, pin_hash, salt) ==
  [a \in DOMAIN accounts |->
     IF a = no
       THEN [accounts[a] EXCEPT !.pin_hash = pin_hash, !.salt = salt]
       ELSE accounts[a]]

-------------------------------------------------------------------------------
(* Statements on the transactions table.  id is AUTOINCREMENT: the caller  *)
(* passes an id above every id the table ever used.                        *)

TransactionRow(account_no, related_account, type, amount, balance_after) ==
  [account_no |-> account_no, related_account |-> related_account,
   type |-> type, amount |-> amount, balance_after |-> balance_after]

(* The row with its created_at, where a module needs it.                   *)
StampedRow(row, created_at) ==
  [account_no |-> row.account_no, related_account |-> row.related_account,
   type |-> row.type, amount |-> row.amount, balance_after |-> row.balance_after,
   created_at |-> created_at]

(* The names of the old program, and any other.                            *)
NormalizeLegacyType(type) ==
  CASE type = "Deposit" -> "DEPOSIT"
    [] type = "Withdraw" -> "WITHDRAW"
    [] type = "Transfer Sent" -> "TRANSFER_SENT"
    [] type = "Transfer Received" -> "TRANSFER_RECEIVED"
    [] OTHER -> "LEGACY"

(* The row of a line of transactions.txt.  It keeps the time stamp of the  *)
(* line, and says nothing of the balance.                                  *)
LegacyTransaction(entry) ==
  StampedRow(TransactionRow(entry.account_no, NoAccount,
                            NormalizeLegacyType(entry.type), entry.amount, Null),
             entry.timestamp)

InsertTransaction(transactions, id, row) ==
  [i \in DOMAIN transactions \union {id} |->
     IF i = id THEN row ELSE transactions[i]]

(* UPDATE transactions SET account_no = new WHERE account_no = old         *)
MoveRows(transactions, old, new) ==
  [i \in DOMAIN transactions |->
     IF transactions[i].account_no = old
       THEN [transactions[i] EXCEPT !.account_no = new]
       ELSE transactions[i]]

(* UPDATE transactions SET related_account = new WHERE related_account =   *)
(* old; new is NoAccount for SET related_account = NULL.                   *)
RelinkRows(transactions, old, new) ==
  [i \in DOMAIN transactions |->
     IF transactions[i].related_account = old
       THEN [transactions[i] EXCEPT !.related_account = new]
       ELSE transactions[i]]

RowsOf(transactions, no) ==
  {i \in DOMAIN transactions : transactions[i].account_no = no}

DeleteRowsOf(transactions, no) ==
  [i \in DOMAIN transactions \ RowsOf(transactions, no) |-> transactions[i]]

-------------------------------------------------------------------------------
(* What the two tables must say of each other.                             *)

Signed(row) == IF row.type \in CreditTypes THEN row.amount ELSE -row.amount

(* Row i is the next row of its account after row j.                       *)
Succeeds(transactions, i, j) ==
  /\ j < i
  /\ transactions[j].account_no = transactions[i].account_no
  /\ \A k \in RowsOf(transactions, transactions[i].account_no) :
       k <= j \/ i <= k

IsFirst(transactions, i) ==
  \A k \in RowsOf(transactions, transactions[i].account_no) : i <= k

IsLatest(transactions, i) ==
  \A k \in RowsOf(transactions, transactions[i].account_no) : k <= i

(* balance_after is the running total of the account's rows, oldest first. *)
RunningTotals(transactions) ==
  \A i \in DOMAIN transactions :
    /\ IsFirst(transactions, i) =>
         transactions[i].balance_after = Signed(transactions[i])
    /\ \A j \in DOMAIN transactions :
         Succeeds(transactions, i, j) =>
           transactions[i].balance_after =
             transactions[j].balance_after + Signed(transactions[i])

(* The balance column is where the account's running total stands.         *)
BalanceIsTotal(accounts, transactions) ==
  \A a \in DOMAIN accounts :
    /\ RowsOf(transactions, a) = {} => accounts[a].balance = 0
    /\ \A i \in RowsOf(transactions, a) :
         IsLatest(transactions, i) =>
           accounts[a].balance = transactions[i].balance_after

(* Rows i and j are the two sides of one transfer.                         *)
TwoSides(transactions, i, j) ==
  /\ transactions[i].type = "TRANSFER_SENT"
  /\ transactions[j].type = "TRANSFER_RECEIVED"
  /\ transactions[i].related_account = transactions[j].account_no
  /\ transactions[j].related_account = transactions[i].account_no
  /\ transactions[i].amount = transactions[j].amount

(* A row that names another account is one side of a transfer, and the     *)
(* row with the neighbouring id is the other side.                         *)
LinkedRowsPaired(transactions) ==
  \A i \in DOMAIN transactions :
    transactions[i].related_account # NoAccount =>
      \/ /\ i + 1 \in DOMAIN transactions
         /\ TwoSides(transactions, i, i + 1)
      \/ /\ i - 1 \in DOMAIN transactions
         /\ TwoSides(transactions, i - 1, i)

(* Every account number in a row is that of an existing account.           *)
RowsNameAccounts(accounts, transactions) ==
  \A i \in DOMAIN transactions :
    /\ transactions[i].account_no \in DOMAIN accounts
    /\ transactions[i].related_account \in
         (DOMAIN accounts \union {NoAccount}) \ {transactions[i].account_no}
===============================================================================
