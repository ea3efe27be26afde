------------------------------- MODULE AtmServer -------------------------------
(***************************************************************************)
(* One ATM server process on its database: the session of the client being *)
(* served and one action per request of handle_request (src/src/server.c)  *)
(* that can change anything.  A handler is one step: the server serves one *)
(* client at a time, and a handler that fails part of the way rolls its    *)
(* transaction back, so that a refused or failed request changes nothing   *)
(* and is a stuttering step, as is a request that only reads.              *)
(*                                                                         *)
(* A definition named Slip... is the operation after it with a mistake in  *)
(* it.  No specification uses one: each shows that a property notices.     *)
(***************************************************************************)
EXTENDS AtmTables

CONSTANTS
  Numbers,          \* account numbers a request may carry
  Pins,             \* PINs a request may carry
  Amounts,          \* amounts a request may carry
  AdminNames,       \* admin user names a request may carry
  Passwords,        \* admin passwords a request may carry
  Long(_),          \* is the password at least 8 characters long?
  Trim(_),          \* the password without leading and trailing blanks
  Salts,            \* what generate_salt may return
  MaxTransactions   \* bound: transaction rows ever written

ASSUME NumbersAssumption == Numbers \subseteq Int
ASSUME PinsAssumption == Pins \subseteq Int
ASSUME AmountsAssumption == Amounts \subseteq Int
ASSUME NamesAssumption == NoName \notin AdminNames
ASSUME TrimAssumption == \A w \in Passwords : Trim(w) \in Passwords
ASSUME MaxTransactionsAssumption == MaxTransactions \in Nat

VARIABLES
  accounts,         \* the accounts table
  transactions,     \* the transactions table
  nextId,           \* the next AUTOINCREMENT id of transactions
  admins,           \* the admins table
  session           \* the Session of the connected client

tables == <<accounts, transactions, nextId>>
vars == <<accounts, transactions, nextId, admins, session>>

PinMatches(no, pin) ==
  accounts[no].pin_hash = PinHash(accounts[no].salt, pin)

PasswordMatches(username, password) ==
  admins[username].password_hash
    = PasswordHash(admins[username].password_salt, username, password)

-------------------------------------------------------------------------------
(* The first start on an empty database: no account, and the one admin of  *)
(* the environment variables.                                              *)
Init ==
  /\ accounts = [a \in {} |-> NewAccountRow(<<>>, 0)]
  /\ transactions = [i \in {} |-> TransactionRow(0, 0, "", 0, 0)]
  /\ nextId = 1
  /\ \E username \in AdminNames, password \in Passwords, salt \in Salts :
       /\ Long(password)
       /\ admins = [u \in {username} |-> AdminRow(u, password, salt)]
  /\ session = ResetSession

(* CREATE_ACCOUNT asks for no session.                                     *)
CreateAccount(no, pin, salt) ==
  /\ no > 0
  /\ ValidPin(pin)
  /\ no \notin DOMAIN accounts
  /\ accounts' = InsertAccountRow(accounts, no,
                                  NewAccountRow(PinHash(salt, pin), salt))
  /\ UNCHANGED <<transactions, nextId, admins, session>>

(* The lock looked at for a wrong PIN only.                                *)
SlipLoginIgnoresLock(no, pin) ==
  /\ ValidPin(pin)
  /\ no \in DOMAIN accounts
  /\ PinMatches(no, pin)
  /\ accounts' = UpdateLoginState(accounts, no, 0, 0)
  /\ session' = [ResetSession EXCEPT !.customer_account_no = no]
  /\ UNCHANGED <<transactions, nextId, admins>>

(* LOGIN with the right PIN clears the failed attempts and replaces the    *)
(* session, whoever it belonged to.                                        *)
LoginRightPin(no, pin) ==
  /\ ValidPin(pin)
  /\ no \in DOMAIN accounts
  /\ accounts[no].is_locked = 0
  /\ PinMatches(no, pin)
  /\ accounts' = UpdateLoginState(accounts, no, 0, 0)
  /\ session' = [ResetSession EXCEPT !.customer_account_no = no]
  /\ UNCHANGED <<transactions, nextId, admins>>

(* LOGIN with a wrong PIN counts; the session stays as it was.             *)
LoginWrongPin(no, pin) ==
  /\ ValidPin(pin)
  /\ no \in DOMAIN accounts
  /\ accounts[no].is_locked = 0
  /\ ~PinMatches(no, pin)
  /\ LET failed_attempts == accounts[no].failed_attempts + 1
     IN  accounts' = UpdateLoginState(accounts, no, failed_attempts,
                                      FailedAttemptsLock(failed_attempts))
  /\ UNCHANGED <<transactions, nextId, admins, session>>

SlipAdminLoginKeepsSession(username, password) ==
  /\ username \in DOMAIN admins
  /\ PasswordMatches(username, password)
  /\ session' = [session EXCEPT !.is_admin = 1, !.admin_username = username]
  /\ UNCHANGED <<tables, admins>>

AdminLogin(username, password) ==
  /\ username \in DOMAIN admins
  /\ PasswordMatches(username, password)
  /\ session' = [ResetSession EXCEPT !.is_admin = 1, !.admin_username = username]
  /\ UNCHANGED <<tables, admins>>

(* LOGOUT, and the fresh session handle_client gives every connection: the *)
(* end of a connection or a restart of the server looks the same.          *)
Logout ==
  /\ session' = ResetSession
  /\ UNCHANGED <<tables, admins>>

-------------------------------------------------------------------------------
RoomForTransactions(n) == nextId + n <= MaxTransactions + 1

SlipAnyAmountCovered(no, amount, type) == TRUE

(* Only a debit is held against the balance.                               *)
Covered(no, amount, type) ==
  type \in CreditTypes \/ amount <= accounts[no].balance

(* apply_balance_transaction: the new balance and its row, in one          *)
(* transaction.                                                            *)
ApplyBalanceTransaction(no, amount, type) ==
  /\ RoomForTransactions(1)
  /\ amount > 0
  /\ no \in DOMAIN accounts
  /\ Covered(no, amount, type)
  /\ LET updated_balance ==
           IF type \in CreditTypes THEN accounts[no].balance + amount
                                   ELSE accounts[no].balance - amount
     IN  /\ accounts' = UpdateBalance(accounts, no, updated_balance)
         /\ transactions' =
              InsertTransaction(transactions, nextId,
                TransactionRow(no, NoAccount, type, amount, updated_balance))
  /\ nextId' = nextId + 1
  /\ UNCHANGED <<admins, session>>

Deposit(amount) ==
  /\ IsCustomerSession(session)
  /\ ApplyBalanceTransaction(session.customer_account_no, amount, "DEPOSIT")

Withdraw(amount) ==
  /\ IsCustomerSession(session)
  /\ ApplyBalanceTransaction(session.customer_account_no, amount, "WITHDRAW")

AdminCredit(no, amount) ==
  /\ IsAdminSession(session)
  /\ ApplyBalanceTransaction(no, amount, "ADMIN_CREDIT")

AdminDebit(no, amount) ==
  /\ IsAdminSession(session)
  /\ ApplyBalanceTransaction(no, amount, "ADMIN_DEBIT")

(* The two rows of a transfer, sender first.                               *)
InsertTransferRows(from, to, amount, sender_balance, receiver_balance) ==
  InsertTransaction(
    InsertTransaction(transactions, nextId,
      TransactionRow(from, to, "TRANSFER_SENT", amount, sender_balance)),
    nextId + 1,
    TransactionRow(to, from, "TRANSFER_RECEIVED", amount, receiver_balance))

(* db_transfer: two balances and two rows in one transaction.              *)
Transfer(to, amount) ==
  /\ IsCustomerSession(session)
  /\ RoomForTransactions(2)
  /\ LET from == session.customer_account_no
         sender_balance == accounts[from].balance - amount
         receiver_balance == accounts[to].balance + amount
     IN  /\ to > 0
         /\ to # from
         /\ amount > 0
         /\ {from, to} \subseteq DOMAIN accounts
         /\ amount <= accounts[from].balance
         /\ accounts' = UpdateBalance(UpdateBalance(accounts, from, sender_balance),
                                      to, receiver_balance)
         /\ transactions' = InsertTransferRows(from, to, amount, sender_balance,
                                               receiver_balance)
  /\ nextId' = nextId + 2
  /\ UNCHANGED <<admins, session>>

-------------------------------------------------------------------------------
LockAccount(no) ==
  /\ IsAdminSession(session)
  /\ no > 0
  /\ no \in DOMAIN accounts
  /\ accounts' = UpdateLoginState(accounts, no, 3, 1)
  /\ UNCHANGED <<transactions, nextId, admins, session>>

SlipUnlockKeepsFailures(no) ==
  /\ IsAdminSession(session)
  /\ no > 0
  /\ no \in DOMAIN accounts
  /\ accounts' = UpdateLoginState(accounts, no, accounts[no].failed_attempts, 0)
  /\ UNCHANGED <<transactions, nextId, admins, session>>

UnlockAccount(no) ==
  /\ IsAdminSession(session)
  /\ no > 0
  /\ no \in DOMAIN accounts
  /\ accounts' = UpdateLoginState(accounts, no, 0, 0)
  /\ UNCHANGED <<transactions, nextId, admins, session>>

SlipLinksNotMoved(no, new_no) == MoveRows(transactions, no, new_no)

(* The transactions follow: their own number and their links.              *)
RenumberedTransactions(no, new_no) ==
  RelinkRows(MoveRows(transactions, no, new_no), no, new_no)

EditAccount(no, new_no, pin, salt) ==
  /\ IsAdminSession(session)
  /\ no > 0
  /\ new_no > 0
  /\ ValidPin(pin)
  /\ no \in DOMAIN accounts
  /\ \/ /\ no = new_no
        /\ accounts' = UpdatePin(accounts, no, PinHash(salt, pin), salt)
        /\ UNCHANGED transactions
     \/ /\ no # new_no
        /\ new_no \notin DOMAIN accounts
        /\ accounts' = DeleteAccountRow(
                         InsertAccountRow(accounts, new_no,
                           RenumberedRow(accounts[no], pin, salt)),
                         no)
        /\ transactions' = RenumberedTransactions(no, new_no)
  /\ UNCHANGED <<nextId, admins, session>>

SlipLinksLeft(no) == DeleteRowsOf(transactions, no)
SlipBothSidesDeleted(no) ==
  [i \in {j \in DOMAIN transactions :
            no \notin {transactions[j].account_no, transactions[j].related_account}}
     |-> transactions[i]]

(* Rows that name the account lose their link, its own rows go.            *)
TransactionsWithout(no) ==
  DeleteRowsOf(RelinkRows(transactions, no, NoAccount), no)

SlipAnyBalanceDeletable(no) == TRUE
Deletable(no) == accounts[no].balance = 0

DeleteAccount(no) ==
  /\ IsAdminSession(session)
  /\ no > 0
  /\ no \in DOMAIN accounts
  /\ Deletable(no)
  /\ transactions' = TransactionsWithout(no)
  /\ accounts' = DeleteAccountRow(accounts, no)
  /\ UNCHANGED <<nextId, admins, session>>

(* The new password is trimmed before it is measured and hashed; the row   *)
(* is that of the session's admin_username.                                *)
ChangeAdminPassword(password, salt) ==
  /\ IsAdminSession(session)
  /\ Long(Trim(password))
  /\ session.admin_username \in DOMAIN admins
  /\ admins' = [admins EXCEPT ![session.admin_username] =
                  AdminRow(session.admin_username, Trim(password), salt)]
  /\ UNCHANGED <<tables, session>>

-------------------------------------------------------------------------------
AccountRequest ==
  \E no \in Numbers :
    \/ \E pin \in Pins, salt \in Salts : CreateAccount(no, pin, salt)
    \/ \E pin \in Pins : LoginRightPin(no, pin) \/ LoginWrongPin(no, pin)

CustomerRequest ==
  \E amount \in Amounts :
    \/ Deposit(amount)
    \/ Withdraw(amount)
    \/ \E to \in Numbers : Transfer(to, amount)

AdminRequest ==
  \/ \E username \in AdminNames, password \in Passwords :
       AdminLogin(username, password)
  \/ \E password \in Passwords, salt \in Salts :
       ChangeAdminPassword(password, salt)
  \/ \E no \in Numbers :
       \/ LockAccount(no)
       \/ UnlockAccount(no)
       \/ DeleteAccount(no)
       \/ \E amount \in Amounts : AdminCredit(no, amount) \/ AdminDebit(no, amount)
       \/ \E new_no \in Numbers, pin \in Pins, salt \in Salts :
            EditAccount(no, new_no, pin, salt)

Next == AccountRequest \/ CustomerRequest \/ AdminRequest \/ Logout

Spec == Init /\ [][Next]_vars

-------------------------------------------------------------------------------
AccountRows ==
  [pin_hash : Salts \X Pins, salt : Salts, balance : Nat,
   failed_attempts : 0 .. 3, is_locked : {0, 1}]

TransactionRows ==
  [account_no : Numbers, related_account : Numbers \union {NoAccount},
   type : TransactionTypes, amount : Nat \ {0}, balance_after : Nat]

AdminRows ==
  [password_hash : Salts \X AdminNames \X Passwords, password_salt : Salts]

Sessions ==
  [customer_account_no : Numbers \union {NoAccount}, is_admin : {0, 1},
   admin_username : AdminNames \union {NoName}]

(* Types, with what the types alone rule out: an overdrawn balance, an     *)
(* entry of nothing, a fourth failed attempt, an account number that is    *)
(* not positive, a transaction id not yet handed out.                      *)
TypeOK ==
  /\ DOMAIN accounts \subseteq {no \in Numbers : no > 0}
  /\ accounts \in [DOMAIN accounts -> AccountRows]
  /\ nextId \in 1 .. MaxTransactions + 1
  /\ DOMAIN transactions \subseteq 1 .. nextId - 1
  /\ transactions \in [DOMAIN transactions -> TransactionRows]
  /\ DOMAIN admins \subseteq AdminNames
  /\ admins \in [DOMAIN admins -> AdminRows]
  /\ session \in Sessions

(* The transactions table explains the accounts table: each account's rows *)
(* add up, one after the other, to the balance column.  Every handler that *)
(* touches a balance or a row, a renumbering and a deletion with reuse of  *)
(* the number included, has to keep the two in step.                       *)
LedgerExplainsBalance ==
  RunningTotals(transactions) /\ BalanceIsTotal(accounts, transactions)

(* A row that names a counterparty has the other side of the same transfer *)
(* beside it: db_edit_account must move both sides' columns and            *)
(* db_delete_account must cut the link of the side that stays.             *)
TransfersPaired == LinkedRowsPaired(transactions)

(* No row names an account that does not exist, in either column.  The     *)
(* schema has a foreign key on account_no only, so related_account is kept *)
(* by the handlers' own statements.                                        *)
RowsNameLiveAccounts == RowsNameAccounts(accounts, transactions)

(* The session always belongs to somebody: a customer session to an        *)
(* account that exists, whatever was renumbered or deleted since LOGIN, an *)
(* admin session to an admin of the table, and never to both.              *)
SessionNamesLiveRow ==
  /\ session.customer_account_no # NoAccount =>
       session.customer_account_no \in DOMAIN accounts
  /\ session.is_admin = 1 =>
       /\ session.customer_account_no = NoAccount
       /\ session.admin_username \in DOMAIN admins
  /\ session.is_admin = 0 => session.admin_username = NoName

(* An account is locked exactly when three failed attempts are on record:  *)
(* by wrong PINs or by an admin, before and after a renumbering.           *)
LockMatchesFailures ==
  \A a \in DOMAIN accounts :
    accounts[a].is_locked = 1 <=> accounts[a].failed_attempts = 3

(* History is only ever added to: a row keeps its id, type, amount and     *)
(* balance_after for as long as its account exists, changes its number     *)
(* only when its account does, and a new row gets the highest id.          *)
AuditTrailIntact ==
  [][ /\ \A i \in DOMAIN transactions :
           IF i \in DOMAIN transactions'
             THEN /\ transactions'[i].type = transactions[i].type
                  /\ transactions'[i].amount = transactions[i].amount
                  /\ transactions'[i].balance_after = transactions[i].balance_after
                  /\ \/ transactions'[i].account_no = transactions[i].account_no
                     \/ transactions[i].account_no \notin DOMAIN accounts'
             ELSE transactions[i].account_no \notin DOMAIN accounts'
      /\ \A i \in DOMAIN transactions' \ DOMAIN transactions :
           \A j \in DOMAIN transactions : j < i
    ]_vars

(* README.md: a locked account "must be unlocked by an administrator".  A  *)
(* lock goes away only in a step of an admin session; no PIN clears it.    *)
LockClearedOnlyByAdmin ==
  [][ \A a \in DOMAIN accounts :
        accounts[a].is_locked = 1 =>
          \/ a \in DOMAIN accounts' /\ accounts'[a].is_locked = 1
          \/ session.is_admin = 1
    ]_vars

(* What the server promises, seen through the tables.                      *)
OpeningPins(a) == {pin \in Pins : PinMatches(a, pin)}
AdmittingPasswords(u) == {w \in Passwords : PasswordMatches(u, w)}

Bank == INSTANCE AtmBank WITH
  funds <- [a \in DOMAIN accounts |-> accounts[a].balance],
  pins <- [a \in DOMAIN accounts |-> OpeningPins(a)],
  strikes <- [a \in DOMAIN accounts |-> accounts[a].failed_attempts],
  keys <- [u \in DOMAIN admins |-> AdmittingPasswords(u)],
  who <- [customer |-> session.customer_account_no,
          admin |-> session.admin_username]

(* The server implements AtmBank: money moves only at the word of someone  *)
(* entitled to it, a PIN opens exactly its account, strikes and money      *)
(* survive a renumbering, and three strikes bar an account to everyone.    *)
ImplementsBank == Bank!Spec
===============================================================================
