---------------------------- MODULE AtmServerProofs ----------------------------
(***************************************************************************)
(* The invariants and action properties of AtmServer, for every set of     *)
(* numbers, PINs, amounts, names, passwords and salts, and every           *)
(* MaxTransactions; and, in the last part, that AtmServer implements       *)
(* AtmBank.                                                                *)
(***************************************************************************)
EXTENDS AtmServer, AtmTablesProofs

USE DEF NoAccount

LEMMA CreateAccountTyped ==
  ASSUME TypeOK, NEW no \in Numbers, NEW pin \in Pins, NEW salt \in Salts,
         CreateAccount(no, pin, salt)
  PROVE  TypeOK'
<1>1. NewAccountRow(PinHash(salt, pin), salt) \in AccountRows
  BY DEF NewAccountRow, PinHash, AccountRows
<1> QED
  BY <1>1 DEF TypeOK, CreateAccount, InsertAccountRow

(* The statement that LOGIN, LOCK_ACCOUNT and UNLOCK_ACCOUNT share.         *)
LEMMA LoginStateTyped ==
  ASSUME TypeOK, NEW no, NEW failed \in 0 .. 3, NEW locked \in {0, 1}
  PROVE  /\ UpdateLoginState(accounts, no, failed, locked)
              \in [DOMAIN accounts -> AccountRows]
         /\ DOMAIN UpdateLoginState(accounts, no, failed, locked) = DOMAIN accounts
<1>1. ASSUME NEW a \in DOMAIN accounts
      PROVE  [accounts[a] EXCEPT !.failed_attempts = failed, !.is_locked = locked]
               \in AccountRows
  <2>1. accounts[a] \in AccountRows
    BY DEF TypeOK
  <2> QED
    BY <2>1 DEF AccountRows
<1>2. \A a \in DOMAIN accounts : accounts[a] \in AccountRows
  BY DEF TypeOK
<1> QED
  BY <1>1, <1>2 DEF UpdateLoginState

(* Column by column, what that statement writes and leaves.                *)
LEMMA LoginStateColumns ==
  ASSUME TypeOK, NEW no, NEW failed, NEW locked, NEW a \in DOMAIN accounts
  PROVE  LET row == UpdateLoginState(accounts, no, failed, locked)[a]
         IN  /\ row.failed_attempts = IF a = no THEN failed
                                              ELSE accounts[a].failed_attempts
             /\ row.is_locked = IF a = no THEN locked ELSE accounts[a].is_locked
             /\ row.balance = accounts[a].balance
             /\ row.pin_hash = accounts[a].pin_hash
             /\ row.salt = accounts[a].salt
<1>1. accounts[a] \in AccountRows
  BY DEF TypeOK
<1>2. UpdateLoginState(accounts, no, failed, locked)[a]
        = IF a = no
            THEN [accounts[a] EXCEPT !.failed_attempts = failed, !.is_locked = locked]
            ELSE accounts[a]
  BY DEF UpdateLoginState
<1> QED
  BY <1>1, <1>2 DEF AccountRows

(* The same for the PIN of an account that keeps or changes its number.    *)
LEMMA NewPinColumns ==
  ASSUME NEW row \in AccountRows, NEW pin, NEW salt
  PROVE  LET new == [row EXCEPT !.pin_hash = PinHash(salt, pin), !.salt = salt]
         IN  /\ new.pin_hash = PinHash(salt, pin)
             /\ new.salt = salt
             /\ new.balance = row.balance
             /\ new.failed_attempts = row.failed_attempts
             /\ new.is_locked = row.is_locked
  BY DEF AccountRows

LEMMA LoginRightPinTyped ==
  ASSUME TypeOK, NEW no \in Numbers, NEW pin \in Pins, LoginRightPin(no, pin)
  PROVE  TypeOK'
<1>1. session' \in Sessions
  BY DEF LoginRightPin, ResetSession, Sessions
<1> QED
  BY <1>1, LoginStateTyped DEF TypeOK, LoginRightPin

LEMMA LoginWrongPinTyped ==
  ASSUME TypeOK, LockMatchesFailures,
         NEW no \in Numbers, NEW pin \in Pins, LoginWrongPin(no, pin)
  PROVE  TypeOK'
<1> DEFINE failed == accounts[no].failed_attempts + 1
<1>1. failed \in 0 .. 3
  <2>1. accounts[no] \in AccountRows
    BY DEF TypeOK, LoginWrongPin
  <2>2. accounts[no].failed_attempts # 3
    BY DEF LoginWrongPin, LockMatchesFailures
  <2> QED
    BY <2>1, <2>2 DEF AccountRows
<1>2. FailedAttemptsLock(failed) \in {0, 1}
  BY DEF FailedAttemptsLock
<1>3. accounts' = UpdateLoginState(accounts, no, failed, FailedAttemptsLock(failed))
  BY DEF LoginWrongPin
<1> HIDE DEF failed
<1> QED
  BY <1>1, <1>2, <1>3, LoginStateTyped DEF TypeOK, LoginWrongPin

LEMMA LockTyped ==
  ASSUME TypeOK, NEW no \in Numbers, LockAccount(no) \/ UnlockAccount(no)
  PROVE  TypeOK'
  BY LoginStateTyped DEF TypeOK, LockAccount, UnlockAccount

LEMMA ApplyTyped ==
  ASSUME TypeOK, NEW no, NEW amount \in Amounts,
         NEW type \in TransactionTypes,
         ApplyBalanceTransaction(no, amount, type)
  PROVE  TypeOK'
<1> DEFINE updated == IF type \in CreditTypes THEN accounts[no].balance + amount
                                   ELSE accounts[no].balance - amount
<1>0. amount \in Nat \ {0}
  BY AmountsAssumption DEF ApplyBalanceTransaction
<1>1. updated \in Nat
  BY <1>0 DEF TypeOK, AccountRows, ApplyBalanceTransaction, Covered
<1>2. TransactionRow(no, NoAccount, type, amount, updated) \in TransactionRows
  BY <1>0, <1>1 DEF TransactionRow, TransactionRows, TypeOK, ApplyBalanceTransaction
<1>3. accounts' \in [DOMAIN accounts -> AccountRows]
  BY <1>1 DEF ApplyBalanceTransaction, UpdateBalance, TypeOK, AccountRows
<1>4. /\ transactions' \in [DOMAIN transactions \union {nextId} -> TransactionRows]
  BY <1>2 DEF ApplyBalanceTransaction, InsertTransaction, TypeOK
<1>5. nextId' \in 1..MaxTransactions + 1 /\ nextId' = nextId + 1
  BY MaxTransactionsAssumption DEF ApplyBalanceTransaction, RoomForTransactions, TypeOK
<1> QED
  BY <1>3, <1>4, <1>5 DEF TypeOK, ApplyBalanceTransaction

LEMMA TransferTyped ==
  ASSUME TypeOK, NEW to \in Numbers, NEW amount \in Amounts, Transfer(to, amount)
  PROVE  TypeOK'
<1> DEFINE from == session.customer_account_no
           sender_balance == accounts[from].balance - amount
           receiver_balance == accounts[to].balance + amount
<1>1. /\ from \in Numbers \union {NoAccount}
      /\ from > 0
      /\ from \in DOMAIN accounts
      /\ to \in DOMAIN accounts
      /\ to # from
      /\ accounts[from] \in AccountRows
      /\ accounts[to] \in AccountRows
  BY DEF TypeOK, Sessions, Transfer, IsCustomerSession
<1>2. /\ amount \in Nat \ {0}
      /\ sender_balance \in Nat
      /\ receiver_balance \in Nat
  BY <1>1, AmountsAssumption DEF AccountRows, Transfer
<1>3. accounts' = UpdateBalance(UpdateBalance(accounts, from, sender_balance),
                                to, receiver_balance)
  BY DEF Transfer
<1>4. transactions' = InsertTransferRows(from, to, amount, sender_balance,
                                         receiver_balance)
  BY DEF Transfer
<1>5. from \in Numbers
  BY <1>1 DEF TypeOK
<1> HIDE DEF from, sender_balance, receiver_balance
<1>6. accounts' \in [DOMAIN accounts -> AccountRows]
  BY <1>1, <1>2, <1>3 DEF UpdateBalance, TypeOK, AccountRows
<1>7. /\ TransactionRow(from, to, "TRANSFER_SENT", amount, sender_balance)
           \in TransactionRows
      /\ TransactionRow(to, from, "TRANSFER_RECEIVED", amount, receiver_balance)
           \in TransactionRows
  BY <1>2, <1>5 DEF TransactionRow, TransactionRows, TransactionTypes,
                    CreditTypes, DebitTypes
<1>8. transactions' \in [DOMAIN transactions \union {nextId, nextId + 1}
                          -> TransactionRows]
  BY <1>4, <1>7 DEF InsertTransferRows, InsertTransaction, TypeOK
<1>9. nextId' \in 1 .. MaxTransactions + 1 /\ nextId' = nextId + 2
  BY MaxTransactionsAssumption DEF Transfer, RoomForTransactions, TypeOK
<1> QED
  BY <1>6, <1>8, <1>9 DEF TypeOK, Transfer

LEMMA EditAccountTyped ==
  ASSUME TypeOK, NEW no \in Numbers, NEW new_no \in Numbers, NEW pin \in Pins,
         NEW salt \in Salts, EditAccount(no, new_no, pin, salt)
  PROVE  TypeOK'
<1>1. /\ PinHash(salt, pin) \in Salts \X Pins
      /\ \A a \in DOMAIN accounts : accounts[a] \in AccountRows
      /\ \A i \in DOMAIN transactions : transactions[i] \in TransactionRows
      /\ no \in DOMAIN accounts
      /\ new_no > 0
  BY DEF PinHash, TypeOK, EditAccount
<1>2. ASSUME NEW row \in AccountRows
      PROVE  [row EXCEPT !.pin_hash = PinHash(salt, pin), !.salt = salt] \in AccountRows
  BY <1>1 DEF AccountRows
<1>3. CASE no = new_no
  <2>1. /\ accounts' = UpdatePin(accounts, no, PinHash(salt, pin), salt)
        /\ UNCHANGED <<transactions, nextId, admins, session>>
    BY <1>3 DEF EditAccount
  <2>2. accounts' \in [DOMAIN accounts -> AccountRows]
    BY <1>1, <1>2, <2>1 DEF UpdatePin
  <2> QED
    BY <2>1, <2>2 DEF TypeOK
<1>4. CASE no # new_no
  <2>1. /\ accounts' = DeleteAccountRow(
                          InsertAccountRow(accounts, new_no,
                            RenumberedRow(accounts[no], pin, salt)), no)
        /\ transactions' = RenumberedTransactions(no, new_no)
        /\ UNCHANGED <<nextId, admins, session>>
    BY <1>4 DEF EditAccount
  <2>2. RenumberedRow(accounts[no], pin, salt) \in AccountRows
    BY <1>1, <1>2 DEF RenumberedRow
  <2>3. accounts' \in [(DOMAIN accounts \union {new_no}) \ {no} -> AccountRows]
    BY <1>1, <2>1, <2>2 DEF DeleteAccountRow, InsertAccountRow
  <2>4. transactions' \in [DOMAIN transactions -> TransactionRows]
    BY <1>1, <2>1 DEF RenumberedTransactions, RelinkRows, MoveRows, TransactionRows
  <2> QED
    BY <1>1, <2>1, <2>3, <2>4 DEF TypeOK
<1> QED
  BY <1>3, <1>4

LEMMA DeleteAccountTyped ==
  ASSUME TypeOK, NEW no \in Numbers, DeleteAccount(no)
  PROVE  TypeOK'
<1>1. /\ accounts' \in [DOMAIN accounts \ {no} -> AccountRows]
      /\ UNCHANGED <<nextId, admins, session>>
  BY DEF TypeOK, DeleteAccount, DeleteAccountRow
<1>2. \A i \in DOMAIN transactions : transactions[i] \in TransactionRows
  BY DEF TypeOK
<1>3. RelinkRows(transactions, no, NoAccount)
        \in [DOMAIN transactions -> TransactionRows]
  BY <1>2 DEF RelinkRows, TransactionRows
<1>4. /\ DOMAIN transactions' \subseteq DOMAIN transactions
      /\ transactions' \in [DOMAIN transactions' -> TransactionRows]
  BY <1>3 DEF DeleteAccount, TransactionsWithout, DeleteRowsOf, RowsOf
<1> QED
  BY <1>1, <1>4 DEF TypeOK

LEMMA ChangeAdminPasswordTyped ==
  ASSUME TypeOK, NEW password \in Passwords, NEW salt \in Salts,
         ChangeAdminPassword(password, salt)
  PROVE  TypeOK'
<1>1. AdminRow(session.admin_username, Trim(password), salt) \in AdminRows
  BY TrimAssumption DEF ChangeAdminPassword, TypeOK, AdminRow, AdminRows, PasswordHash
<1> QED
  BY <1>1 DEF TypeOK, ChangeAdminPassword, tables

LEMMA NextTyped ==
  ASSUME TypeOK, LockMatchesFailures, [Next]_vars
  PROVE  TypeOK'
<1>1. ASSUME NEW no \in Numbers, NEW pin \in Pins, NEW salt \in Salts,
             CreateAccount(no, pin, salt)
      PROVE  TypeOK'
  BY <1>1, CreateAccountTyped
<1>2. ASSUME NEW no \in Numbers, NEW pin \in Pins,
             LoginRightPin(no, pin) \/ LoginWrongPin(no, pin)
      PROVE  TypeOK'
  BY <1>2, LoginRightPinTyped, LoginWrongPinTyped
<1>3. ASSUME CustomerRequest
      PROVE  TypeOK'
  <2>1. PICK amount \in Amounts : \/ Deposit(amount)
                                  \/ Withdraw(amount)
                                  \/ \E to \in Numbers : Transfer(to, amount)
    BY <1>3 DEF CustomerRequest
  <2>2. CASE Deposit(amount)
    BY <2>2, ApplyTyped DEF Deposit, TransactionTypes, CreditTypes
  <2>3. CASE Withdraw(amount)
    BY <2>3, ApplyTyped DEF Withdraw, TransactionTypes, DebitTypes
  <2>4. CASE \E to \in Numbers : Transfer(to, amount)
    BY <2>4, TransferTyped
  <2> QED
    BY <2>1, <2>2, <2>3, <2>4
<1>4. ASSUME NEW username \in AdminNames, NEW password \in Passwords,
             AdminLogin(username, password)
      PROVE  TypeOK'
  BY <1>4 DEF TypeOK, AdminLogin, Sessions, ResetSession, tables
<1>5. ASSUME NEW password \in Passwords, NEW salt \in Salts,
             ChangeAdminPassword(password, salt)
      PROVE  TypeOK'
  BY <1>5, ChangeAdminPasswordTyped
<1>6. ASSUME NEW no \in Numbers, LockAccount(no) \/ UnlockAccount(no)
      PROVE  TypeOK'
  BY <1>6, LockTyped
<1>7. ASSUME NEW no \in Numbers, DeleteAccount(no)
      PROVE  TypeOK'
  BY <1>7, DeleteAccountTyped
<1>8. ASSUME NEW no \in Numbers, NEW amount \in Amounts,
             AdminCredit(no, amount) \/ AdminDebit(no, amount)
      PROVE  TypeOK'
  BY <1>8, ApplyTyped DEF AdminCredit, AdminDebit, TransactionTypes, CreditTypes,
                          DebitTypes
<1>9. ASSUME NEW no \in Numbers, NEW new_no \in Numbers, NEW pin \in Pins,
             NEW salt \in Salts, EditAccount(no, new_no, pin, salt)
      PROVE  TypeOK'
  BY <1>9, EditAccountTyped
<1>10. CASE Logout
  BY <1>10 DEF TypeOK, Logout, Sessions, ResetSession, tables
<1>11. CASE UNCHANGED vars
  BY <1>11 DEF TypeOK, vars
<1> QED
  BY <1>1, <1>2, <1>3, <1>4, <1>5, <1>6, <1>7, <1>8, <1>9, <1>10, <1>11
     DEF Next, AccountRequest, AdminRequest

-------------------------------------------------------------------------------
(* The lock and the failed attempts.                                       *)
LEMMA NextLockMatches ==
  ASSUME TypeOK, LockMatchesFailures, [Next]_vars
  PROVE  LockMatchesFailures'
<1> USE DEF LockMatchesFailures
<1>0. \A a \in DOMAIN accounts : accounts[a] \in AccountRows
  BY DEF TypeOK
<1>1. ASSUME NEW no, NEW pin, NEW salt, CreateAccount(no, pin, salt)
      PROVE  LockMatchesFailures'
  BY <1>1 DEF CreateAccount, InsertAccountRow, NewAccountRow
<1>2. ASSUME NEW no, NEW failed, NEW locked, locked = 1 <=> failed = 3,
             accounts' = UpdateLoginState(accounts, no, failed, locked)
      PROVE  LockMatchesFailures'
  <2>1. DOMAIN accounts' = DOMAIN accounts
    BY <1>2 DEF UpdateLoginState
  <2> QED
    BY <1>2, <2>1, LoginStateColumns
<1>3. ASSUME NEW no, NEW pin, LoginRightPin(no, pin)
      PROVE  LockMatchesFailures'
  BY <1>2, <1>3 DEF LoginRightPin
<1>4. ASSUME NEW no, NEW pin, LoginWrongPin(no, pin)
      PROVE  LockMatchesFailures'
  <2> DEFINE failed == accounts[no].failed_attempts + 1
  <2>1. FailedAttemptsLock(failed) = 1 <=> failed = 3
    BY <1>0, <1>4 DEF LoginWrongPin, FailedAttemptsLock, AccountRows
  <2>2. accounts' = UpdateLoginState(accounts, no, failed, FailedAttemptsLock(failed))
    BY <1>4 DEF LoginWrongPin
  <2> HIDE DEF failed
  <2> QED
    BY <1>2, <2>1, <2>2
<1>10. ASSUME NEW no, LockAccount(no) \/ UnlockAccount(no)
      PROVE  LockMatchesFailures'
  BY <1>2, <1>10 DEF LockAccount, UnlockAccount
<1>5. ASSUME NEW no, NEW amount, NEW type, ApplyBalanceTransaction(no, amount, type)
      PROVE  LockMatchesFailures'
  BY <1>0, <1>5 DEF ApplyBalanceTransaction, UpdateBalance, AccountRows
<1>6. ASSUME NEW to, NEW amount, Transfer(to, amount)
      PROVE  LockMatchesFailures'
  BY <1>0, <1>6 DEF Transfer, UpdateBalance, AccountRows
<1>7. ASSUME NEW no, NEW new_no, NEW pin, NEW salt, EditAccount(no, new_no, pin, salt)
      PROVE  LockMatchesFailures'
  <2>1. CASE accounts' = UpdatePin(accounts, no, PinHash(salt, pin), salt)
    <3>1. DOMAIN accounts' = DOMAIN accounts
      BY <2>1 DEF UpdatePin
    <3>2. ASSUME NEW a \in DOMAIN accounts
          PROVE  /\ accounts'[a].is_locked = accounts[a].is_locked
                 /\ accounts'[a].failed_attempts = accounts[a].failed_attempts
      <4>1. accounts'[a]
              = IF a = no
                  THEN [accounts[a] EXCEPT !.pin_hash = PinHash(salt, pin),
                                           !.salt = salt]
                  ELSE accounts[a]
        BY <2>1 DEF UpdatePin
      <4> QED
        BY <1>0, <4>1, NewPinColumns
    <3> QED
      BY <3>1, <3>2
  <2>2. CASE accounts' = DeleteAccountRow(
                           InsertAccountRow(accounts, new_no,
                             RenumberedRow(accounts[no], pin, salt)), no)
    BY <1>0, <1>7, <2>2, NewPinColumns DEF EditAccount, RenumberedRow,
       DeleteAccountRow, InsertAccountRow
  <2> QED
    BY <1>7, <2>1, <2>2 DEF EditAccount
<1>8. ASSUME NEW no, DeleteAccount(no)
      PROVE  LockMatchesFailures'
  BY <1>8 DEF DeleteAccount, DeleteAccountRow
<1>9. ASSUME UNCHANGED accounts
      PROVE  LockMatchesFailures'
  BY <1>9
<1> QED
  BY <1>1, <1>3, <1>4, <1>5, <1>6, <1>7, <1>8, <1>9, <1>10
     DEF Next, AccountRequest, CustomerRequest, AdminRequest, Deposit, Withdraw,
         AdminCredit, AdminDebit, AdminLogin, ChangeAdminPassword, Logout, tables, vars

LEMMA InitTyped ==
  ASSUME Init
  PROVE  TypeOK /\ LockMatchesFailures
<1>1. PICK username \in AdminNames, password \in Passwords, salt \in Salts :
        admins = [u \in {username} |-> AdminRow(u, password, salt)]
  BY DEF Init
<1>2. AdminRow(username, password, salt) \in AdminRows
  BY DEF AdminRow, AdminRows, PasswordHash
<1>3. admins \in [DOMAIN admins -> AdminRows] /\ DOMAIN admins \subseteq AdminNames
  BY <1>1, <1>2
<1>4. session \in Sessions
  BY DEF Init, ResetSession, Sessions
<1>5. /\ DOMAIN accounts = {}
      /\ DOMAIN transactions = {}
      /\ accounts \in [DOMAIN accounts -> AccountRows]
      /\ transactions \in [DOMAIN transactions -> TransactionRows]
      /\ nextId \in 1 .. MaxTransactions + 1
  BY MaxTransactionsAssumption DEF Init
<1> QED
  BY <1>3, <1>4, <1>5 DEF TypeOK, LockMatchesFailures

-------------------------------------------------------------------------------
(* The session.                                                            *)
LEMMA NextSessionLive ==
  ASSUME TypeOK, SessionNamesLiveRow, [Next]_vars
  PROVE  SessionNamesLiveRow'
<1> USE DEF SessionNamesLiveRow
<1>1. session \in Sessions
  BY DEF TypeOK
<1>2. ASSUME NEW no, NEW pin, NEW salt, CreateAccount(no, pin, salt)
      PROVE  SessionNamesLiveRow'
  BY <1>2 DEF CreateAccount, InsertAccountRow
<1>3. ASSUME NEW no, NEW pin, LoginRightPin(no, pin)
      PROVE  SessionNamesLiveRow'
  <2>1. /\ DOMAIN accounts' = DOMAIN accounts
        /\ no \in DOMAIN accounts
    BY <1>3 DEF LoginRightPin, UpdateLoginState
  <2>2. /\ session'.customer_account_no = no
        /\ session'.is_admin = 0
        /\ session'.admin_username = NoName
    BY <1>3 DEF LoginRightPin, ResetSession
  <2> QED
    BY <2>1, <2>2
<1>4. ASSUME NEW username, NEW password, AdminLogin(username, password)
      PROVE  SessionNamesLiveRow'
  BY <1>4 DEF AdminLogin, ResetSession, tables
<1>5. CASE Logout
  BY <1>5 DEF Logout, ResetSession, tables
<1>6. ASSUME NEW no, NEW new_no, NEW pin, NEW salt, EditAccount(no, new_no, pin, salt)
      PROVE  SessionNamesLiveRow'
  BY <1>6 DEF EditAccount, IsAdminSession
<1>7. ASSUME NEW no, DeleteAccount(no)
      PROVE  SessionNamesLiveRow'
  BY <1>7 DEF DeleteAccount, IsAdminSession
<1>8. ASSUME DOMAIN accounts' = DOMAIN accounts, DOMAIN admins' = DOMAIN admins,
             UNCHANGED session
      PROVE  SessionNamesLiveRow'
  BY <1>8
<1>9. ASSUME NEW password, NEW salt, ChangeAdminPassword(password, salt)
      PROVE  SessionNamesLiveRow'
  BY <1>8, <1>9 DEF ChangeAdminPassword, tables
<1>10. ASSUME NEW no, NEW pin,
              \/ LoginWrongPin(no, pin)
              \/ LockAccount(no)
              \/ UnlockAccount(no)
       PROVE  SessionNamesLiveRow'
  BY <1>8, <1>10 DEF LoginWrongPin, LockAccount, UnlockAccount, UpdateLoginState
<1>11. ASSUME NEW no, NEW amount, NEW type, ApplyBalanceTransaction(no, amount, type)
       PROVE  SessionNamesLiveRow'
  BY <1>8, <1>11 DEF ApplyBalanceTransaction, UpdateBalance
<1>12. ASSUME NEW to, NEW amount, Transfer(to, amount)
       PROVE  SessionNamesLiveRow'
  BY <1>8, <1>12 DEF Transfer, UpdateBalance
<1>13. CASE UNCHANGED vars
  BY <1>8, <1>13 DEF vars
<1> QED
  BY <1>2, <1>3, <1>4, <1>5, <1>6, <1>7, <1>9, <1>10, <1>11, <1>12, <1>13
     DEF Next, AccountRequest, CustomerRequest, AdminRequest, Deposit, Withdraw,
         AdminCredit, AdminDebit

-------------------------------------------------------------------------------
(* The rows of the transactions table.                                     *)
LEMMA RowsShaped ==
  ASSUME TypeOK
  PROVE  /\ transactions \in [DOMAIN transactions -> RowShape]
         /\ nextId \in Int
         /\ DOMAIN transactions \subseteq Int
         /\ \A i \in DOMAIN transactions : i < nextId
         /\ NoAccount \notin DOMAIN accounts
<1>1. ASSUME NEW row \in TransactionRows
      PROVE  row \in RowShape
  <2>1. /\ row.account_no \in Numbers
        /\ row.related_account \in Numbers \union {NoAccount}
        /\ row.type \in TransactionTypes
        /\ row.amount \in Nat \ {0}
        /\ row.balance_after \in Nat
        /\ row = [account_no |-> row.account_no,
                   related_account |-> row.related_account, type |-> row.type,
                   amount |-> row.amount, balance_after |-> row.balance_after]
    BY <1>1 DEF TransactionRows
  <2>2. /\ row.account_no \in Int
        /\ row.related_account \in Int
        /\ row.amount \in Int
        /\ row.balance_after \in Int
    BY <2>1, NumbersAssumption
  <2> QED
    BY <2>1, <2>2 DEF RowShape
<1>2. \A i \in DOMAIN transactions : transactions[i] \in RowShape
  BY <1>1 DEF TypeOK
<1> QED
  BY <1>2 DEF TypeOK

TablesAgree == RowsNameLiveAccounts /\ TransfersPaired /\ LedgerExplainsBalance

(* Steps that change no balance, no row and no number.                     *)
LEMMA QuietAgree ==
  ASSUME TablesAgree, UNCHANGED transactions, DOMAIN accounts' = DOMAIN accounts,
         \A a \in DOMAIN accounts : accounts'[a].balance = accounts[a].balance
  PROVE  TablesAgree'
<1>1. Ledger(accounts, transactions)
  BY DEF TablesAgree, LedgerExplainsBalance, Ledger
<1>2. Ledger(accounts', transactions')
  BY <1>1, LedgerSameColumns
<1> QED
  BY <1>2 DEF TablesAgree, RowsNameLiveAccounts, RowsNameAccounts, TransfersPaired,
              LedgerExplainsBalance, Ledger

LEMMA CreateAccountAgree ==
  ASSUME TypeOK, TablesAgree, NEW no, NEW pin, NEW salt, CreateAccount(no, pin, salt)
  PROVE  TablesAgree'
<1> DEFINE row == NewAccountRow(PinHash(salt, pin), salt)
<1>1. /\ accounts' = InsertAccountRow(accounts, no, row)
      /\ no \notin DOMAIN accounts
      /\ UNCHANGED transactions
      /\ row.balance = 0
  BY DEF CreateAccount, NewAccountRow
<1>2. RowsOf(transactions, no) = {}
  BY <1>1 DEF TablesAgree, RowsNameLiveAccounts, RowsNameAccounts, RowsOf
<1> HIDE DEF row
<1>3. Ledger(accounts', transactions')
  BY <1>1, <1>2, LedgerAfterCreate DEF TablesAgree, LedgerExplainsBalance, Ledger
<1>4. DOMAIN accounts \subseteq DOMAIN accounts'
  BY <1>1 DEF InsertAccountRow
<1> QED
  BY <1>1, <1>3, <1>4 DEF TablesAgree, RowsNameLiveAccounts, RowsNameAccounts,
     TransfersPaired, LedgerExplainsBalance, Ledger

(* One balance and one row: the step shared by a deposit, a withdrawal and *)
(* the admin's credit and debit, and half of a transfer's ledger.          *)
LEMMA EntryLedger ==
  ASSUME NEW acc, NEW t, NEW id \in Int, NEW no \in DOMAIN acc, NEW related,
         NEW type \in TransactionTypes, NEW amount \in Int,
         \A a \in DOMAIN acc : acc[a] \in AccountRows,
         DOMAIN t \subseteq Int, \A i \in DOMAIN t : i < id,
         Ledger(acc, t)
  PROVE  LET after == IF type \in CreditTypes THEN acc[no].balance + amount
                                             ELSE acc[no].balance - amount
         IN  Ledger(UpdateBalance(acc, no, after),
                    InsertTransaction(t, id,
                      TransactionRow(no, related, type, amount, after)))
<1> DEFINE after == IF type \in CreditTypes THEN acc[no].balance + amount
                                           ELSE acc[no].balance - amount
           row == TransactionRow(no, related, type, amount, after)
           acc2 == UpdateBalance(acc, no, after)
<1>1. acc[no].balance \in Int
  BY DEF AccountRows
<1>2. /\ row.account_no = no
      /\ row.balance_after = after
      /\ Signed(row) \in Int
      /\ after = acc[no].balance + Signed(row)
  BY <1>1 DEF TransactionRow, Signed
<1>3. /\ DOMAIN acc2 = DOMAIN acc
      /\ acc2[no].balance = after
      /\ \A a \in DOMAIN acc \ {no} : acc2[a].balance = acc[a].balance
  BY DEF UpdateBalance, AccountRows
<1> HIDE DEF after, row, acc2
<1>4. Ledger(acc2, InsertTransaction(t, id, row))
  BY <1>1, <1>2, <1>3, LedgerAfterEntry
<1> QED
  BY <1>4 DEF after, row, acc2

LEMMA ApplyAgree ==
  ASSUME TypeOK, TablesAgree, NEW no, NEW amount \in Amounts,
         NEW type \in TransactionTypes, ApplyBalanceTransaction(no, amount, type)
  PROVE  TablesAgree'
<1> DEFINE after == IF type \in CreditTypes THEN accounts[no].balance + amount
                                           ELSE accounts[no].balance - amount
           row == TransactionRow(no, NoAccount, type, amount, after)
<1>1. /\ accounts' = UpdateBalance(accounts, no, after)
      /\ transactions' = InsertTransaction(transactions, nextId, row)
      /\ no \in DOMAIN accounts
  BY DEF ApplyBalanceTransaction
<1>2. /\ row.account_no = no
      /\ row.related_account = NoAccount
  BY DEF TransactionRow
<1>3. Ledger(accounts', transactions')
  <2>1. \A a \in DOMAIN accounts : accounts[a] \in AccountRows
    BY DEF TypeOK
  <2>2. amount \in Int /\ Ledger(accounts, transactions)
    BY AmountsAssumption DEF TablesAgree, LedgerExplainsBalance, Ledger
  <2> QED
    BY <1>1, <2>1, <2>2, RowsShaped, EntryLedger
<1> HIDE DEF row, after
<1>4. TransfersPaired'
  BY <1>1, <1>2, RowsShaped, PairsAfterEntry DEF TablesAgree, TransfersPaired
<1>5. RowsNameLiveAccounts'
  <2>1. DOMAIN accounts' = DOMAIN accounts
    BY <1>1 DEF UpdateBalance
  <2>2. /\ DOMAIN transactions' = DOMAIN transactions \union {nextId}
        /\ transactions'[nextId] = row
        /\ \A i \in DOMAIN transactions \ {nextId} : transactions'[i] = transactions[i]
    BY <1>1 DEF InsertTransaction
  <2> QED
    BY <1>1, <1>2, <2>1, <2>2, RowsShaped
       DEF TablesAgree, RowsNameLiveAccounts, RowsNameAccounts
<1> QED
  BY <1>3, <1>4, <1>5 DEF TablesAgree, LedgerExplainsBalance, Ledger

LEMMA TransferAgree ==
  ASSUME TypeOK, TablesAgree, NEW to \in Numbers, NEW amount \in Amounts,
         Transfer(to, amount)
  PROVE  TablesAgree'
<1> DEFINE from == session.customer_account_no
           sender_balance == accounts[from].balance - amount
           receiver_balance == accounts[to].balance + amount
           sent == TransactionRow(from, to, "TRANSFER_SENT", amount, sender_balance)
           received == TransactionRow(to, from, "TRANSFER_RECEIVED", amount,
                                      receiver_balance)
           middle == UpdateBalance(accounts, from, sender_balance)
           half == InsertTransaction(transactions, nextId, sent)
<1>1. /\ accounts' = UpdateBalance(middle, to, receiver_balance)
      /\ transactions' = InsertTransaction(half, nextId + 1, received)
      /\ from \in DOMAIN accounts
      /\ to \in DOMAIN accounts
      /\ to # from
      /\ amount \in Nat
      /\ amount <= accounts[from].balance
  BY AmountsAssumption DEF Transfer, InsertTransferRows
<1>2. \A a \in DOMAIN accounts : accounts[a] \in AccountRows
  BY DEF TypeOK
<1>3. Ledger(middle, half)
  <2>1. "TRANSFER_SENT" \in TransactionTypes /\ "TRANSFER_SENT" \notin CreditTypes
    BY DEF TransactionTypes, DebitTypes, CreditTypes
  <2>2. Ledger(accounts, transactions)
    BY DEF TablesAgree, LedgerExplainsBalance, Ledger
  <2>3. amount \in Int /\ sender_balance = accounts[from].balance - amount
    BY <1>1
  <2>4. /\ nextId \in Int
        /\ DOMAIN transactions \subseteq Int
        /\ \A i \in DOMAIN transactions : i < nextId
    BY RowsShaped
  <2> HIDE DEF from, sender_balance
  <2> QED
    BY <1>1, <1>2, <2>1, <2>2, <2>3, <2>4, EntryLedger
<1>4. /\ DOMAIN middle = DOMAIN accounts
      /\ \A a \in DOMAIN middle : middle[a] \in AccountRows
      /\ middle[to] = accounts[to]
  BY <1>1, <1>2 DEF UpdateBalance, AccountRows
<1>5. /\ DOMAIN half = DOMAIN transactions \union {nextId}
      /\ half[nextId] = sent
      /\ \A i \in DOMAIN transactions : half[i] = transactions[i]
  BY RowsShaped DEF InsertTransaction
<1>6. Ledger(accounts', transactions')
  <2>1. "TRANSFER_RECEIVED" \in TransactionTypes /\ "TRANSFER_RECEIVED" \in CreditTypes
    BY DEF TransactionTypes, CreditTypes
  <2>2. /\ nextId + 1 \in Int
        /\ DOMAIN half \subseteq Int
        /\ \A i \in DOMAIN half : i < nextId + 1
    BY <1>5, RowsShaped
  <2>3. receiver_balance = middle[to].balance + amount
    BY <1>4
  <2> HIDE DEF middle, half
  <2>4. amount \in Int /\ to \in DOMAIN middle
    BY <1>1, <1>4
  <2> QED
    BY <1>1, <1>3, <1>4, <2>1, <2>2, <2>3, <2>4, EntryLedger
<1>7. /\ sent.account_no = from
      /\ sent.related_account = to
      /\ sent.type = "TRANSFER_SENT"
      /\ sent.amount = amount
      /\ received.account_no = to
      /\ received.related_account = from
      /\ received.type = "TRANSFER_RECEIVED"
      /\ received.amount = amount
  BY DEF TransactionRow
<1>8. transactions' = InsertTransaction(
                        InsertTransaction(transactions, nextId, sent),
                        nextId + 1, received)
  BY <1>1
<1> HIDE DEF sent, received, middle, half
<1>9. TransfersPaired'
  <2>1. nextId \notin DOMAIN transactions /\ nextId + 1 \notin DOMAIN transactions
    BY RowsShaped
  <2> QED
    BY <1>7, <1>8, <2>1, RowsShaped, PairsAfterTransfer DEF TablesAgree, TransfersPaired
<1>10. RowsNameLiveAccounts'
  <2>1. DOMAIN accounts' = DOMAIN accounts
    BY <1>1, <1>4 DEF UpdateBalance
  <2>2. /\ DOMAIN transactions' = DOMAIN transactions \union {nextId, nextId + 1}
        /\ transactions'[nextId] = sent
        /\ transactions'[nextId + 1] = received
        /\ \A i \in DOMAIN transactions : transactions'[i] = transactions[i]
    BY <1>8, RowsShaped DEF InsertTransaction
  <2> QED
    BY <1>1, <1>7, <2>1, <2>2 DEF TablesAgree, RowsNameLiveAccounts, RowsNameAccounts
<1> QED
  BY <1>6, <1>9, <1>10 DEF TablesAgree, LedgerExplainsBalance, Ledger

LEMMA RenumberAgree ==
  ASSUME TypeOK, TablesAgree, NEW no \in Numbers, NEW new_no \in Numbers,
         NEW pin, NEW salt, EditAccount(no, new_no, pin, salt), no # new_no
  PROVE  TablesAgree'
<1> DEFINE row == RenumberedRow(accounts[no], pin, salt)
<1>1. /\ accounts' = DeleteAccountRow(InsertAccountRow(accounts, new_no, row), no)
      /\ transactions' = RelinkRows(MoveRows(transactions, no, new_no), no, new_no)
      /\ no \in DOMAIN accounts
      /\ new_no \notin DOMAIN accounts
      /\ no > 0
      /\ new_no > 0
      /\ no \in Int
      /\ new_no \in Int
  BY NumbersAssumption DEF EditAccount, RenumberedTransactions
<1>2. row.balance = accounts[no].balance
  BY <1>1, NewPinColumns DEF RenumberedRow, TypeOK
<1> HIDE DEF row
<1>3. /\ DOMAIN accounts' = (DOMAIN accounts \union {new_no}) \ {no}
      /\ accounts'[new_no] = row
      /\ \A a \in DOMAIN accounts \ {no, new_no} : accounts'[a] = accounts[a]
  BY <1>1 DEF DeleteAccountRow, InsertAccountRow
<1>4. \A i \in DOMAIN transactions :
        new_no \notin {transactions[i].account_no, transactions[i].related_account}
  BY <1>1 DEF TablesAgree, RowsNameLiveAccounts, RowsNameAccounts
<1>5. Ledger(accounts', transactions')
  <2> DEFINE moved == MoveRows(transactions, no, new_no)
  <2>1. Ledger(accounts', moved)
    <3>1. RowsOf(transactions, new_no) = {}
      BY <1>4 DEF RowsOf
    <3>2. Ledger(accounts, transactions)
      BY DEF TablesAgree, LedgerExplainsBalance, Ledger
    <3> QED
      BY <1>1, <1>2, <1>3, <3>1, <3>2, RowsShaped, LedgerAfterMove
  <2>2. moved \in [DOMAIN transactions -> RowShape] /\ DOMAIN moved = DOMAIN transactions
    BY <1>1, RowsShaped, MoveShape
  <2> HIDE DEF moved
  <2>3. /\ DOMAIN RelinkRows(moved, no, new_no) = DOMAIN moved
        /\ \A i \in DOMAIN moved :
             /\ RelinkRows(moved, no, new_no)[i].account_no = moved[i].account_no
             /\ RelinkRows(moved, no, new_no)[i].type = moved[i].type
             /\ RelinkRows(moved, no, new_no)[i].amount = moved[i].amount
             /\ RelinkRows(moved, no, new_no)[i].balance_after = moved[i].balance_after
    <3>1. DOMAIN RelinkRows(moved, no, new_no) = DOMAIN moved
      BY DEF RelinkRows
    <3> QED
      BY <2>2, <3>1, RelinkColumns
  <2>4. Ledger(accounts', RelinkRows(moved, no, new_no))
    BY <2>1, <2>3, LedgerSameColumns
  <2> QED
    BY <1>1, <2>4 DEF moved
<1>6. TransfersPaired'
  BY <1>1, <1>4, RowsShaped, PairsAfterRenumber DEF TablesAgree, TransfersPaired
<1>7. RowsNameLiveAccounts'
  BY <1>1, <1>3, RowsShaped, NamesAfterRenumber DEF TablesAgree, RowsNameLiveAccounts
<1> QED
  BY <1>5, <1>6, <1>7 DEF TablesAgree, LedgerExplainsBalance, Ledger

LEMMA EditAccountAgree ==
  ASSUME TypeOK, TablesAgree, NEW no \in Numbers, NEW new_no \in Numbers,
         NEW pin, NEW salt, EditAccount(no, new_no, pin, salt)
  PROVE  TablesAgree'
<1>1. CASE no # new_no
  BY <1>1, RenumberAgree
<1>2. CASE no = new_no
  <2>1. /\ accounts' = UpdatePin(accounts, no, PinHash(salt, pin), salt)
        /\ UNCHANGED transactions
    BY <1>2 DEF EditAccount
  <2>2. DOMAIN accounts' = DOMAIN accounts
    BY <2>1 DEF UpdatePin
  <2>3. ASSUME NEW a \in DOMAIN accounts
        PROVE  accounts'[a].balance = accounts[a].balance
    <3>1. accounts'[a]
            = IF a = no
                THEN [accounts[a] EXCEPT !.pin_hash = PinHash(salt, pin), !.salt = salt]
                ELSE accounts[a]
      BY <2>1 DEF UpdatePin
    <3> QED
      BY <3>1, NewPinColumns DEF TypeOK
  <2> QED
    BY <2>1, <2>2, <2>3, QuietAgree
<1> QED
  BY <1>1, <1>2

LEMMA DeleteAccountAgree ==
  ASSUME TypeOK, TablesAgree, NEW no \in Numbers, DeleteAccount(no)
  PROVE  TablesAgree'
<1> DEFINE cut == RelinkRows(transactions, no, NoAccount)
<1>1. /\ accounts' = DeleteAccountRow(accounts, no)
      /\ transactions' = DeleteRowsOf(cut, no)
  BY DEF DeleteAccount, TransactionsWithout
<1>2. Ledger(accounts', transactions')
  <2>1. /\ DOMAIN cut = DOMAIN transactions
        /\ \A i \in DOMAIN transactions :
             /\ cut[i].account_no = transactions[i].account_no
             /\ cut[i].type = transactions[i].type
             /\ cut[i].amount = transactions[i].amount
             /\ cut[i].balance_after = transactions[i].balance_after
    <3>1. DOMAIN cut = DOMAIN transactions
      BY DEF RelinkRows
    <3> QED
      BY <3>1, RowsShaped, RelinkColumns
  <2> HIDE DEF cut
  <2>2. Ledger(accounts, cut)
    BY <2>1, LedgerSameColumns DEF TablesAgree, LedgerExplainsBalance, Ledger
  <2> QED
    BY <1>1, <2>2, LedgerAfterDelete
<1>3. TransfersPaired'
  BY <1>1, RowsShaped, PairsAfterDelete DEF TablesAgree, TransfersPaired
<1>4. RowsNameLiveAccounts'
  BY <1>1, RowsShaped, NamesAfterDelete DEF TablesAgree, RowsNameLiveAccounts
<1> QED
  BY <1>2, <1>3, <1>4 DEF TablesAgree, LedgerExplainsBalance, Ledger

LEMMA NextAgree ==
  ASSUME TypeOK, TablesAgree, [Next]_vars
  PROVE  TablesAgree'
<1>1. ASSUME NEW no, NEW pin, NEW salt, CreateAccount(no, pin, salt)
      PROVE  TablesAgree'
  BY <1>1, CreateAccountAgree
<1>2. ASSUME NEW no, NEW failed, NEW locked, UNCHANGED transactions,
             accounts' = UpdateLoginState(accounts, no, failed, locked)
      PROVE  TablesAgree'
  <2>1. DOMAIN accounts' = DOMAIN accounts
    BY <1>2 DEF UpdateLoginState
  <2> QED
    BY <1>2, <2>1, LoginStateColumns, QuietAgree
<1>3. ASSUME NEW no, NEW pin, LoginRightPin(no, pin)
      PROVE  TablesAgree'
  BY <1>2, <1>3 DEF LoginRightPin
<1>4. ASSUME NEW no, NEW pin, LoginWrongPin(no, pin)
      PROVE  TablesAgree'
  BY <1>2, <1>4 DEF LoginWrongPin
<1>5. ASSUME NEW no, LockAccount(no) \/ UnlockAccount(no)
      PROVE  TablesAgree'
  BY <1>2, <1>5 DEF LockAccount, UnlockAccount
<1>6. ASSUME NEW no, NEW amount \in Amounts, NEW type \in TransactionTypes,
             ApplyBalanceTransaction(no, amount, type)
      PROVE  TablesAgree'
  BY <1>6, ApplyAgree
<1>7. {"DEPOSIT", "WITHDRAW", "ADMIN_CREDIT", "ADMIN_DEBIT"} \subseteq TransactionTypes
  BY DEF TransactionTypes, CreditTypes, DebitTypes
<1>8. ASSUME NEW to \in Numbers, NEW amount \in Amounts, Transfer(to, amount)
      PROVE  TablesAgree'
  BY <1>8, TransferAgree
<1>9. ASSUME NEW no \in Numbers, NEW new_no \in Numbers, NEW pin, NEW salt,
             EditAccount(no, new_no, pin, salt)
      PROVE  TablesAgree'
  BY <1>9, EditAccountAgree
<1>10. ASSUME NEW no \in Numbers, DeleteAccount(no)
       PROVE  TablesAgree'
  BY <1>10, DeleteAccountAgree
<1>11. ASSUME UNCHANGED tables
       PROVE  TablesAgree'
  BY <1>11, QuietAgree DEF tables
<1> QED
  BY <1>1, <1>3, <1>4, <1>5, <1>6, <1>7, <1>8, <1>9, <1>10, <1>11
     DEF Next, AccountRequest, CustomerRequest, AdminRequest, Deposit, Withdraw,
         AdminCredit, AdminDebit, AdminLogin, ChangeAdminPassword, Logout, tables, vars

-------------------------------------------------------------------------------
(* The inductive invariant.  None of the table properties is inductive on  *)
(* its own: a new row continues the total of its account only if no row of *)
(* another life of the number is left (RowsNameLiveAccounts), and a        *)
(* renumbering keeps the pairs only if no row names the new number yet.    *)
IInv ==
  TypeOK /\ LockMatchesFailures /\ SessionNamesLiveRow /\ TablesAgree

LEMMA InitIInv == Init => IInv
<1> SUFFICES ASSUME Init PROVE IInv
  OBVIOUS
<1>1. TypeOK /\ LockMatchesFailures
  BY InitTyped
<1>2. DOMAIN accounts = {} /\ DOMAIN transactions = {} /\ session = ResetSession
  BY DEF Init
<1>3. SessionNamesLiveRow
  BY <1>2 DEF SessionNamesLiveRow, ResetSession
<1>4. TablesAgree
  BY <1>2 DEF TablesAgree, RowsNameLiveAccounts, RowsNameAccounts, TransfersPaired,
     LinkedRowsPaired, LedgerExplainsBalance, RunningTotals, BalanceIsTotal
<1> QED
  BY <1>1, <1>3, <1>4 DEF IInv

LEMMA NextIInv == IInv /\ [Next]_vars => IInv'
  BY NextTyped, NextLockMatches, NextSessionLive, NextAgree DEF IInv

LEMMA Invariance == Spec => []IInv
  BY InitIInv, NextIInv, PTL DEF Spec

(* The tables and the session keep their types: balances are never         *)
(* negative and no account collects a fourth failed attempt, whatever      *)
(* requests come.                                                          *)
THEOREM TypeCorrect == Spec => []TypeOK
<1>1. IInv => TypeOK
  BY DEF IInv
<1> QED
  BY <1>1, Invariance, PTL

(* An account is locked exactly when it has three failed attempts.         *)
THEOREM LockCorrect == Spec => []LockMatchesFailures
<1>1. IInv => LockMatchesFailures
  BY DEF IInv
<1> QED
  BY <1>1, Invariance, PTL

(* A session belongs to an account or an admin that still exists.          *)
THEOREM SessionCorrect == Spec => []SessionNamesLiveRow
<1>1. IInv => SessionNamesLiveRow
  BY DEF IInv
<1> QED
  BY <1>1, Invariance, PTL

(* Every balance is the running total of its account's rows.               *)
THEOREM LedgerCorrect == Spec => []LedgerExplainsBalance
<1>1. IInv => LedgerExplainsBalance
  BY DEF IInv, TablesAgree
<1> QED
  BY <1>1, Invariance, PTL

(* The two sides of a transfer stay together through renumberings and      *)
(* deletions.                                                              *)
THEOREM PairsCorrect == Spec => []TransfersPaired
<1>1. IInv => TransfersPaired
  BY DEF IInv, TablesAgree
<1> QED
  BY <1>1, Invariance, PTL

(* No row names an account that does not exist.                            *)
THEOREM NamesCorrect == Spec => []RowsNameLiveAccounts
<1>1. IInv => RowsNameLiveAccounts
  BY DEF IInv, TablesAgree
<1> QED
  BY <1>1, Invariance, PTL

-------------------------------------------------------------------------------
(* What no step does: lose or rewrite history, or clear a lock at the word  *)
(* of anybody but an administrator.                                        *)

(* Every lock of before the step is a lock after it.                       *)
LocksStay ==
  \A a \in DOMAIN accounts :
    accounts[a].is_locked = 1 => a \in DOMAIN accounts' /\ accounts'[a].is_locked = 1

(* A LOGIN that meets a lock is refused: it writes another account's row.  *)
LEMMA LoginLeavesLocks ==
  ASSUME TypeOK, NEW no, NEW pin, LoginRightPin(no, pin) \/ LoginWrongPin(no, pin)
  PROVE  LocksStay
<1>1. accounts[no].is_locked # 1
  BY DEF LoginRightPin, LoginWrongPin
<1>2. PICK failed, locked : accounts' = UpdateLoginState(accounts, no, failed, locked)
  BY DEF LoginRightPin, LoginWrongPin
<1>3. DOMAIN accounts' = DOMAIN accounts
  BY <1>2 DEF UpdateLoginState
<1> QED
  BY <1>1, <1>2, <1>3, LoginStateColumns DEF LocksStay

LEMMA BalanceLeavesLocks ==
  ASSUME NEW acc, NEW no, NEW balance, acc \in [DOMAIN acc -> AccountRows]
  PROVE  LET after == UpdateBalance(acc, no, balance)
         IN  /\ DOMAIN after = DOMAIN acc
             /\ \A a \in DOMAIN acc : after[a].is_locked = acc[a].is_locked
  BY DEF UpdateBalance, AccountRows

LEMMA EntryLeavesLocks ==
  ASSUME TypeOK, NEW no, NEW amount, NEW type, ApplyBalanceTransaction(no, amount, type)
  PROVE  LocksStay
<1>1. PICK balance : accounts' = UpdateBalance(accounts, no, balance)
  BY DEF ApplyBalanceTransaction
<1> QED
  BY <1>1, BalanceLeavesLocks DEF LocksStay, TypeOK

LEMMA TransferLeavesLocks ==
  ASSUME TypeOK, NEW to \in Numbers, NEW amount \in Amounts, Transfer(to, amount)
  PROVE  LocksStay
<1> DEFINE from == session.customer_account_no
           middle == UpdateBalance(accounts, from, accounts[from].balance - amount)
           receiver_balance == accounts[to].balance + amount
<1>1. accounts' = UpdateBalance(middle, to, receiver_balance)
  BY DEF Transfer
<1>2. middle \in [DOMAIN accounts -> AccountRows]
  <2>1. /\ accounts[from].balance - amount \in Nat
        /\ accounts \in [DOMAIN accounts -> AccountRows]
    BY AmountsAssumption DEF Transfer, TypeOK, AccountRows
  <2> QED
    BY <2>1 DEF UpdateBalance, AccountRows
<1>3. /\ DOMAIN middle = DOMAIN accounts
      /\ \A a \in DOMAIN accounts : middle[a].is_locked = accounts[a].is_locked
  BY BalanceLeavesLocks DEF TypeOK
<1> HIDE DEF middle, receiver_balance
<1>4. /\ DOMAIN accounts' = DOMAIN middle
      /\ \A a \in DOMAIN middle : accounts'[a].is_locked = middle[a].is_locked
  BY <1>1, <1>2, <1>3, BalanceLeavesLocks
<1> QED
  BY <1>3, <1>4 DEF LocksStay

LEMMA NextLeavesLocks ==
  ASSUME TypeOK, [Next]_vars
  PROVE  LocksStay \/ session.is_admin = 1
<1>1. ASSUME NEW no, NEW pin, NEW salt, CreateAccount(no, pin, salt)
      PROVE  LocksStay
  BY <1>1 DEF LocksStay, CreateAccount, InsertAccountRow
<1>2. ASSUME UNCHANGED accounts
      PROVE  LocksStay
  BY <1>2 DEF LocksStay
<1>3. CASE AccountRequest
  BY <1>1, <1>3, LoginLeavesLocks DEF AccountRequest
<1>4. CASE CustomerRequest
  BY <1>4, EntryLeavesLocks, TransferLeavesLocks DEF CustomerRequest, Deposit, Withdraw
<1>5. CASE AdminRequest
  BY <1>2, <1>5
     DEF AdminRequest, AdminLogin, tables, ChangeAdminPassword, LockAccount, UnlockAccount,
         DeleteAccount, AdminCredit, AdminDebit, EditAccount, IsAdminSession
<1>6. CASE Logout \/ UNCHANGED vars
  BY <1>2, <1>6 DEF Logout, tables, vars
<1> QED
  BY <1>3, <1>4, <1>5, <1>6 DEF Next

(* No PIN, right or wrong, and no movement of money clears a lock.         *)
THEOREM LockClearing == Spec => LockClearedOnlyByAdmin
<1>1. IInv /\ [Next]_vars =>
        [ \A a \in DOMAIN accounts :
            accounts[a].is_locked = 1 =>
              \/ a \in DOMAIN accounts' /\ accounts'[a].is_locked = 1
              \/ session.is_admin = 1 ]_vars
  BY NextLeavesLocks DEF IInv, LocksStay
<1> QED
  BY <1>1, Invariance, PTL DEF Spec, LockClearedOnlyByAdmin

-------------------------------------------------------------------------------
(* A row that stays keeps what it says, a row goes or changes its number   *)
(* only with its account, a new row is the youngest.                       *)
HistoryKept ==
  /\ \A i \in DOMAIN transactions :
       IF i \in DOMAIN transactions'
         THEN /\ transactions'[i].type = transactions[i].type
              /\ transactions'[i].amount = transactions[i].amount
              /\ transactions'[i].balance_after = transactions[i].balance_after
              /\ \/ transactions'[i].account_no = transactions[i].account_no
                 \/ transactions[i].account_no \notin DOMAIN accounts'
         ELSE transactions[i].account_no \notin DOMAIN accounts'
  /\ \A i \in DOMAIN transactions' \ DOMAIN transactions :
       \A j \in DOMAIN transactions : j < i

(* Rows with ids at or above nextId are new.                               *)
LEMMA NewRowsKeepHistory ==
  ASSUME TypeOK,
         DOMAIN transactions' \subseteq DOMAIN transactions \union {nextId, nextId + 1},
         \A i \in DOMAIN transactions :
           i \in DOMAIN transactions' /\ transactions'[i] = transactions[i]
  PROVE  HistoryKept
  BY RowsShaped DEF HistoryKept

LEMMA EntryKeepsHistory ==
  ASSUME TypeOK, NEW no, NEW amount, NEW type, ApplyBalanceTransaction(no, amount, type)
  PROVE  HistoryKept
<1>1. PICK row : transactions' = InsertTransaction(transactions, nextId, row)
  BY DEF ApplyBalanceTransaction
<1>2. nextId \notin DOMAIN transactions
  BY RowsShaped
<1> QED
  BY <1>1, <1>2, NewRowsKeepHistory DEF InsertTransaction

LEMMA TransferKeepsHistory ==
  ASSUME TypeOK, NEW to, NEW amount, Transfer(to, amount)
  PROVE  HistoryKept
<1>1. PICK sent, received :
        transactions' = InsertTransaction(InsertTransaction(transactions, nextId, sent),
                                          nextId + 1, received)
  BY DEF Transfer, InsertTransferRows
<1>2. nextId \notin DOMAIN transactions /\ nextId + 1 \notin DOMAIN transactions
  BY RowsShaped
<1> QED
  BY <1>1, <1>2, NewRowsKeepHistory DEF InsertTransaction

LEMMA EditKeepsHistory ==
  ASSUME TypeOK, NEW no \in Numbers, NEW new_no \in Numbers, NEW pin, NEW salt,
         EditAccount(no, new_no, pin, salt)
  PROVE  HistoryKept
<1>1. CASE no = new_no
  BY <1>1 DEF EditAccount, HistoryKept
<1>2. CASE no # new_no
  <2> DEFINE moved == MoveRows(transactions, no, new_no)
  <2>1. /\ transactions' = RelinkRows(moved, no, new_no)
        /\ no \notin DOMAIN accounts'
    BY <1>2 DEF EditAccount, RenumberedTransactions, DeleteAccountRow
  <2>2. /\ moved \in [DOMAIN transactions -> RowShape]
        /\ DOMAIN moved = DOMAIN transactions
    BY RowsShaped, MoveShape, NumbersAssumption
  <2>3. \A i \in DOMAIN transactions :
          /\ moved[i].account_no \in {transactions[i].account_no, new_no}
          /\ transactions[i].account_no # no =>
               moved[i].account_no = transactions[i].account_no
          /\ moved[i].type = transactions[i].type
          /\ moved[i].amount = transactions[i].amount
          /\ moved[i].balance_after = transactions[i].balance_after
    BY RowsShaped, MoveColumns
  <2> HIDE DEF moved
  <2>4. DOMAIN transactions' = DOMAIN moved
    BY <2>1 DEF RelinkRows
  <2>5. \A i \in DOMAIN moved :
          /\ transactions'[i].account_no = moved[i].account_no
          /\ transactions'[i].type = moved[i].type
          /\ transactions'[i].amount = moved[i].amount
          /\ transactions'[i].balance_after = moved[i].balance_after
    BY <2>1, <2>2, RelinkColumns
  <2> QED
    BY <2>1, <2>2, <2>3, <2>4, <2>5 DEF HistoryKept
<1> QED
  BY <1>1, <1>2

LEMMA DeleteKeepsHistory ==
  ASSUME TypeOK, NEW no \in Numbers, DeleteAccount(no)
  PROVE  HistoryKept
<1> DEFINE cut == RelinkRows(transactions, no, NoAccount)
<1>1. /\ transactions' = DeleteRowsOf(cut, no)
      /\ no \notin DOMAIN accounts'
  BY DEF DeleteAccount, TransactionsWithout, DeleteAccountRow
<1>2. /\ DOMAIN cut = DOMAIN transactions
      /\ \A i \in DOMAIN transactions :
           /\ cut[i].account_no = transactions[i].account_no
           /\ cut[i].type = transactions[i].type
           /\ cut[i].amount = transactions[i].amount
           /\ cut[i].balance_after = transactions[i].balance_after
  <2>1. DOMAIN cut = DOMAIN transactions
    BY DEF RelinkRows
  <2> QED
    BY <2>1, RowsShaped, RelinkColumns
<1> HIDE DEF cut
<1>3. /\ DOMAIN transactions' = {i \in DOMAIN cut : cut[i].account_no # no}
      /\ \A i \in DOMAIN transactions' : transactions'[i] = cut[i]
  BY <1>1 DEF DeleteRowsOf, RowsOf
<1> QED
  BY <1>1, <1>2, <1>3 DEF HistoryKept

LEMMA NextKeepsHistory ==
  ASSUME TypeOK, [Next]_vars
  PROVE  HistoryKept
<1>1. ASSUME UNCHANGED transactions
      PROVE  HistoryKept
  BY <1>1 DEF HistoryKept
<1>2. CASE AccountRequest
  BY <1>1, <1>2 DEF AccountRequest, CreateAccount, LoginRightPin, LoginWrongPin
<1>3. CASE CustomerRequest
  BY <1>3, EntryKeepsHistory, TransferKeepsHistory DEF CustomerRequest, Deposit, Withdraw
<1>4. CASE AdminRequest
  BY <1>1, <1>4, EntryKeepsHistory, EditKeepsHistory, DeleteKeepsHistory
     DEF AdminRequest, AdminLogin, tables, ChangeAdminPassword, LockAccount, UnlockAccount,
         AdminCredit, AdminDebit
<1>5. CASE Logout \/ UNCHANGED vars
  BY <1>1, <1>5 DEF Logout, tables, vars
<1> QED
  BY <1>2, <1>3, <1>4, <1>5 DEF Next

(* History is only ever added to, but for the rows of a deleted account.   *)
THEOREM AuditTrail == Spec => AuditTrailIntact
<1>1. IInv /\ [Next]_vars => [HistoryKept]_vars
  BY NextKeepsHistory DEF IInv
<1> QED
  BY <1>1, Invariance, PTL DEF Spec, AuditTrailIntact, HistoryKept

-------------------------------------------------------------------------------
(***************************************************************************)
(* AtmServer implements AtmBank: every request is one of the bank's        *)
(* transactions on the money, the PINs, the strikes and the keys that the  *)
(* tables stand for, or leaves all of them as they are.                    *)
(***************************************************************************)

(* The variables of AtmBank as AtmServer's Bank reads them off the tables. *)
Funds == [a \in DOMAIN accounts |-> accounts[a].balance]
Opening == [a \in DOMAIN accounts |-> OpeningPins(a)]
Strikes == [a \in DOMAIN accounts |-> accounts[a].failed_attempts]
Keys == [u \in DOMAIN admins |-> AdmittingPasswords(u)]
Who == [customer |-> session.customer_account_no, admin |-> session.admin_username]

-------------------------------------------------------------------------------
(* A column that no statement wrote stands for the same as before.         *)
LEMMA SameFunds ==
  ASSUME DOMAIN accounts' = DOMAIN accounts,
         \A a \in DOMAIN accounts : accounts'[a].balance = accounts[a].balance
  PROVE  Funds' = Funds
  BY DEF Funds

LEMMA SamePins ==
  ASSUME DOMAIN accounts' = DOMAIN accounts,
         \A a \in DOMAIN accounts :
           accounts'[a].pin_hash = accounts[a].pin_hash /\ accounts'[a].salt = accounts[a].salt
  PROVE  Opening' = Opening
  BY DEF Opening, OpeningPins, PinMatches

LEMMA SameStrikes ==
  ASSUME DOMAIN accounts' = DOMAIN accounts,
         \A a \in DOMAIN accounts :
           accounts'[a].failed_attempts = accounts[a].failed_attempts
  PROVE  Strikes' = Strikes
  BY DEF Strikes

LEMMA SameKeys ==
  ASSUME UNCHANGED admins
  PROVE  Keys' = Keys
  BY DEF Keys, AdmittingPasswords, PasswordMatches

LEMMA SameAccounts ==
  ASSUME UNCHANGED accounts
  PROVE  Funds' = Funds /\ Opening' = Opening /\ Strikes' = Strikes
  BY SameFunds, SamePins, SameStrikes

(* An admin session is that of a present admin.                            *)
LEMMA AdminIsPresent ==
  ASSUME SessionNamesLiveRow, IsAdminSession(session)
  PROVE  Bank!AdminPresent
  BY DEF SessionNamesLiveRow, IsAdminSession, Bank!AdminPresent

-------------------------------------------------------------------------------
LEMMA InitRefines == Init => Bank!Init
<1> SUFFICES ASSUME Init PROVE Bank!Init
  OBVIOUS
<1>1. Funds = [a \in {} |-> 0] /\ Opening = [a \in {} |-> {}] /\ Strikes = [a \in {} |-> 0]
  BY DEF Init, Funds, Opening, Strikes
<1>2. PICK n \in AdminNames, w \in Passwords, salt \in Salts :
        admins = [u \in {n} |-> AdminRow(u, w, salt)]
  BY DEF Init
<1>3. Keys = [m \in {n} |-> {w}]
  <2>1. DOMAIN admins = {n} /\ admins[n] = AdminRow(n, w, salt)
    BY <1>2
  <2>2. AdmittingPasswords(n) = {w}
    BY <2>1 DEF AdmittingPasswords, PasswordMatches, AdminRow, PasswordHash
  <2> QED
    BY <2>1, <2>2 DEF Keys
<1>4. Who = Bank!Nobody
  <2>1. session.customer_account_no = NoAccount /\ session.admin_username = NoName
    BY DEF Init, ResetSession
  <2> QED
    BY <2>1 DEF Who, NoAccount, Bank!Nobody
<1> QED
  BY <1>1, <1>3, <1>4 DEF Bank!Init, Funds, Opening, Strikes, Keys, Who

LEMMA CreateAccountRefines ==
  ASSUME NEW no, NEW pin \in Pins, NEW salt, CreateAccount(no, pin, salt)
  PROVE  Bank!Open(no, pin)
<1>1. /\ no \notin DOMAIN accounts
      /\ DOMAIN accounts' = DOMAIN accounts \union {no}
      /\ accounts'[no] = NewAccountRow(PinHash(salt, pin), salt)
      /\ \A a \in DOMAIN accounts : accounts'[a] = accounts[a]
  BY DEF CreateAccount, InsertAccountRow
<1>2. Funds' = Bank!With(Funds, no, 0)
  BY <1>1 DEF Funds, Bank!With, NewAccountRow
<1>3. Opening' = Bank!With(Opening, no, {pin})
  <2>1. OpeningPins(no)' = {pin}
    BY <1>1 DEF OpeningPins, PinMatches, NewAccountRow, PinHash
  <2>2. \A a \in DOMAIN accounts : OpeningPins(a)' = OpeningPins(a)
    BY <1>1 DEF OpeningPins, PinMatches
  <2> QED
    BY <1>1, <2>1, <2>2 DEF Opening, Bank!With
<1>4. Strikes' = Bank!With(Strikes, no, 0)
  BY <1>1 DEF Strikes, Bank!With, NewAccountRow
<1>5. UNCHANGED <<Keys, Who>>
  BY SameKeys DEF CreateAccount, Who
<1> QED
  BY <1>1, <1>2, <1>3, <1>4, <1>5 DEF Bank!Open, Funds, Opening, Strikes, Keys, Who

(* What the statement of LOGIN, LOCK_ACCOUNT and UNLOCK_ACCOUNT means.     *)
LEMMA LoginStateRefines ==
  ASSUME TypeOK, NEW no \in DOMAIN accounts, NEW failed, NEW locked,
         accounts' = UpdateLoginState(accounts, no, failed, locked)
  PROVE  Funds' = Funds /\ Opening' = Opening /\ Strikes' = Bank!With(Strikes, no, failed)
<1>1. DOMAIN accounts' = DOMAIN accounts
  BY DEF UpdateLoginState
<1>2. Strikes' = Bank!With(Strikes, no, failed)
  <2>1. \A a \in DOMAIN accounts :
          accounts'[a].failed_attempts = IF a = no THEN failed
                                                   ELSE accounts[a].failed_attempts
    BY LoginStateColumns
  <2> QED
    BY <1>1, <2>1 DEF Strikes, Bank!With
<1> QED
  BY <1>1, <1>2, LoginStateColumns, SameFunds, SamePins

LEMMA LoginRightPinRefines ==
  ASSUME TypeOK, LockMatchesFailures, NEW no, NEW pin \in Pins, LoginRightPin(no, pin)
  PROVE  Bank!SignIn(no, pin)
<1>1. no \in DOMAIN accounts /\ Strikes[no] < 3 /\ pin \in Opening[no]
  BY DEF LoginRightPin, LockMatchesFailures, TypeOK, AccountRows, Strikes, Opening, OpeningPins
<1>2. Funds' = Funds /\ Opening' = Opening /\ Strikes' = Bank!With(Strikes, no, 0)
  BY <1>1, LoginStateRefines DEF LoginRightPin
<1>3. Who' = [Bank!Nobody EXCEPT !.customer = no]
  BY DEF LoginRightPin, ResetSession, Who, Bank!Nobody
<1>4. Keys' = Keys
  BY SameKeys DEF LoginRightPin
<1> QED
  BY <1>1, <1>2, <1>3, <1>4
     DEF Bank!SignIn, Bank!MaxStrikes, Funds, Opening, Strikes, Keys, Who

LEMMA LoginWrongPinRefines ==
  ASSUME TypeOK, LockMatchesFailures, NEW no, NEW pin \in Pins, LoginWrongPin(no, pin)
  PROVE  Bank!WrongPin(no, pin)
<1>1. no \in DOMAIN accounts /\ Strikes[no] < 3 /\ pin \notin Opening[no]
  BY DEF LoginWrongPin, LockMatchesFailures, TypeOK, AccountRows, Strikes, Opening, OpeningPins
<1>2. /\ Funds' = Funds /\ Opening' = Opening
      /\ Strikes' = Bank!With(Strikes, no, accounts[no].failed_attempts + 1)
  BY <1>1, LoginStateRefines DEF LoginWrongPin
<1>3. UNCHANGED <<Keys, Who>>
  BY SameKeys DEF LoginWrongPin, Who
<1>4. Strikes[no] = accounts[no].failed_attempts
  BY <1>1 DEF Strikes
<1> QED
  BY <1>1, <1>2, <1>3, <1>4
     DEF Bank!WrongPin, Bank!MaxStrikes, Funds, Opening, Strikes, Keys, Who

LEMMA SetStrikesRefines ==
  ASSUME TypeOK, SessionNamesLiveRow, NEW no, LockAccount(no) \/ UnlockAccount(no)
  PROVE  \E s \in {0, Bank!MaxStrikes} : Bank!SetStrikes(no, s)
<1>1. PICK s \in {0, 3}, locked \in {0, 1} : accounts' = UpdateLoginState(accounts, no, s, locked)
  BY DEF LockAccount, UnlockAccount
<1>2. no \in DOMAIN accounts /\ Bank!AdminPresent
  BY AdminIsPresent DEF LockAccount, UnlockAccount
<1>3. Funds' = Funds /\ Opening' = Opening /\ Strikes' = Bank!With(Strikes, no, s)
  BY <1>1, <1>2, LoginStateRefines
<1>4. UNCHANGED <<Keys, Who>>
  BY SameKeys DEF LockAccount, UnlockAccount, Who
<1>5. Bank!SetStrikes(no, s)
  BY <1>2, <1>3, <1>4
     DEF Bank!SetStrikes, Bank!MaxStrikes, Funds, Opening, Strikes, Keys, Who
<1> QED
  BY <1>5 DEF Bank!MaxStrikes

-------------------------------------------------------------------------------
(* What a new balance means.                                               *)
LEMMA BalanceColumns ==
  ASSUME NEW acc, acc \in [DOMAIN acc -> AccountRows], NEW no, NEW balance,
         NEW a \in DOMAIN acc
  PROVE  LET row == UpdateBalance(acc, no, balance)[a]
         IN  /\ row.balance = IF a = no THEN balance ELSE acc[a].balance
             /\ row.pin_hash = acc[a].pin_hash
             /\ row.salt = acc[a].salt
             /\ row.failed_attempts = acc[a].failed_attempts
             /\ DOMAIN UpdateBalance(acc, no, balance) = DOMAIN acc
  BY DEF UpdateBalance, AccountRows

LEMMA EntryRefines ==
  ASSUME TypeOK, NEW no, NEW amount, NEW type, ApplyBalanceTransaction(no, amount, type),
         Bank!MayHandle(no)
  PROVE  Bank!PayIn(no, amount) \/ Bank!PayOut(no, amount)
<1> DEFINE after == IF type \in CreditTypes THEN accounts[no].balance + amount
                                           ELSE accounts[no].balance - amount
<1>1. accounts' = UpdateBalance(accounts, no, after) /\ no \in DOMAIN accounts /\ amount > 0
  BY DEF ApplyBalanceTransaction
<1>2. accounts \in [DOMAIN accounts -> AccountRows]
  BY DEF TypeOK
<1> HIDE DEF after
<1>3. /\ DOMAIN accounts' = DOMAIN accounts
      /\ \A a \in DOMAIN accounts :
           /\ accounts'[a].balance = IF a = no THEN after ELSE accounts[a].balance
           /\ accounts'[a].pin_hash = accounts[a].pin_hash
           /\ accounts'[a].salt = accounts[a].salt
           /\ accounts'[a].failed_attempts = accounts[a].failed_attempts
  BY <1>1, <1>2, BalanceColumns DEF UpdateBalance
<1>4. Opening' = Opening /\ Strikes' = Strikes
  BY <1>3, SamePins, SameStrikes
<1>5. Funds' = Bank!With(Funds, no, after) /\ Funds[no] = accounts[no].balance
  BY <1>1, <1>3 DEF Funds, Bank!With
<1>6. UNCHANGED <<Keys, Who>>
  BY SameKeys DEF ApplyBalanceTransaction, Who
<1>7. CASE type \in CreditTypes
  <2>1. Funds' = Bank!With(Funds, no, Funds[no] + amount)
    BY <1>5, <1>7 DEF after
  <2> QED
    BY <1>1, <1>4, <1>6, <2>1 DEF Bank!PayIn, Funds, Opening, Strikes, Keys, Who
<1>8. CASE type \notin CreditTypes
  <2>1. Funds' = Bank!With(Funds, no, Funds[no] - amount) /\ amount <= Funds[no]
    BY <1>5, <1>8 DEF after, ApplyBalanceTransaction, Covered
  <2> QED
    BY <1>1, <1>4, <1>6, <2>1 DEF Bank!PayOut, Funds, Opening, Strikes, Keys, Who
<1> QED
  BY <1>7, <1>8

LEMMA TransferRefines ==
  ASSUME TypeOK, NEW to, NEW amount \in Amounts, Transfer(to, amount)
  PROVE  Bank!Move(session.customer_account_no, to, amount)
<1> DEFINE from == session.customer_account_no
           sender_balance == accounts[from].balance - amount
           receiver_balance == accounts[to].balance + amount
           middle == UpdateBalance(accounts, from, sender_balance)
<1>1. /\ accounts' = UpdateBalance(middle, to, receiver_balance)
      /\ from \in DOMAIN accounts
      /\ to \in DOMAIN accounts \ {from}
      /\ amount > 0
      /\ amount <= accounts[from].balance
  BY DEF Transfer
<1>2. accounts \in [DOMAIN accounts -> AccountRows]
  BY DEF TypeOK
<1>3. middle \in [DOMAIN accounts -> AccountRows]
  <2>1. sender_balance \in Nat
    BY <1>1, <1>2, AmountsAssumption DEF AccountRows
  <2> QED
    BY <1>2, <2>1 DEF UpdateBalance, AccountRows
<1> HIDE DEF sender_balance, receiver_balance
<1>4. \A a \in DOMAIN accounts :
        /\ middle[a].balance = IF a = from THEN sender_balance ELSE accounts[a].balance
        /\ middle[a].pin_hash = accounts[a].pin_hash
        /\ middle[a].salt = accounts[a].salt
        /\ middle[a].failed_attempts = accounts[a].failed_attempts
  BY <1>2, BalanceColumns
<1> HIDE DEF middle
<1>5. /\ DOMAIN middle = DOMAIN accounts
      /\ DOMAIN accounts' = DOMAIN accounts
  BY <1>1, <1>3 DEF UpdateBalance
<1>6. \A a \in DOMAIN accounts :
        /\ accounts'[a].balance = IF a = to THEN receiver_balance ELSE middle[a].balance
        /\ accounts'[a].pin_hash = middle[a].pin_hash
        /\ accounts'[a].salt = middle[a].salt
        /\ accounts'[a].failed_attempts = middle[a].failed_attempts
  BY <1>1, <1>3, <1>5, BalanceColumns
<1>7. Opening' = Opening /\ Strikes' = Strikes
  BY <1>4, <1>5, <1>6, SamePins, SameStrikes
<1>8. UNCHANGED <<Keys, Who>>
  BY SameKeys DEF Transfer, Who
<1>9. /\ sender_balance = Funds[from] - amount
      /\ receiver_balance = Funds[to] + amount
  BY <1>1 DEF sender_balance, receiver_balance, Funds
<1>10. Funds' = Bank!With(Bank!With(Funds, from, sender_balance), to, receiver_balance)
  <2> DEFINE half == Bank!With(Funds, from, sender_balance)
  <2>1. /\ DOMAIN half = DOMAIN accounts
        /\ \A a \in DOMAIN accounts : half[a] = middle[a].balance
    BY <1>1, <1>4 DEF Funds, Bank!With
  <2> HIDE DEF half
  <2>2. Funds' = [a \in DOMAIN accounts |-> IF a = to THEN receiver_balance ELSE half[a]]
    BY <1>5, <1>6, <2>1 DEF Funds
  <2>3. Funds' = Bank!With(half, to, receiver_balance)
    BY <1>1, <2>1, <2>2 DEF Bank!With
  <2> QED
    BY <2>3 DEF half
<1>11. Funds' = Bank!With(Bank!With(Funds, from, Funds[from] - amount), to, Funds[to] + amount)
  BY <1>9, <1>10
<1> QED
  BY <1>1, <1>7, <1>8, <1>11
     DEF Bank!Move, Bank!AtCounter, Funds, Opening, Strikes, Keys, Who

-------------------------------------------------------------------------------
(* Renumbered replaces the entry of a by one for b, which may be a.        *)
LEMMA RenamedIs ==
  ASSUME NEW f, NEW g, NEW a \in DOMAIN f, NEW b, NEW value,
         g = [x \in (DOMAIN f \ {a}) \union {b} |-> IF x = b THEN value ELSE f[x]]
  PROVE  g = Bank!Renamed(f, a, b, value)
<1> DEFINE rest == Bank!Without(f, a)
<1>1. /\ DOMAIN rest = DOMAIN f \ {a}
      /\ \A x \in DOMAIN f \ {a} : rest[x] = f[x]
  BY DEF Bank!Without
<1> HIDE DEF rest
<1>2. g = Bank!With(rest, b, value)
  BY <1>1 DEF Bank!With
<1> QED
  BY <1>2 DEF rest, Bank!Renamed

LEMMA EditAccountRefines ==
  ASSUME TypeOK, SessionNamesLiveRow, NEW no, NEW new_no, NEW pin \in Pins, NEW salt,
         EditAccount(no, new_no, pin, salt)
  PROVE  Bank!Reissue(no, new_no, pin)
<1> DEFINE row == [accounts[no] EXCEPT !.pin_hash = PinHash(salt, pin), !.salt = salt]
<1>1. /\ no \in DOMAIN accounts
      /\ new_no = no \/ new_no \notin DOMAIN accounts
      /\ accounts[no] \in AccountRows
      /\ Bank!AdminPresent
  BY AdminIsPresent DEF EditAccount, TypeOK
<1>2. /\ row.pin_hash = PinHash(salt, pin)
      /\ row.salt = salt
      /\ row.balance = accounts[no].balance
      /\ row.failed_attempts = accounts[no].failed_attempts
  BY <1>1, NewPinColumns
<1>3. /\ DOMAIN accounts' = (DOMAIN accounts \ {no}) \union {new_no}
      /\ accounts'[new_no] = row
      /\ \A a \in DOMAIN accounts' \ {new_no} : accounts'[a] = accounts[a]
  <2>1. CASE no = new_no
    BY <1>1, <2>1 DEF EditAccount, UpdatePin
  <2>2. CASE no # new_no
    BY <1>1, <2>2 DEF EditAccount, DeleteAccountRow, InsertAccountRow, RenumberedRow
  <2> QED
    BY <2>1, <2>2
<1> HIDE DEF row
<1>4. Funds' = Bank!Renamed(Funds, no, new_no, Funds[no])
  <2>1. Funds' = [x \in (DOMAIN Funds \ {no}) \union {new_no} |->
                    IF x = new_no THEN Funds[no] ELSE Funds[x]]
    BY <1>1, <1>2, <1>3 DEF Funds
  <2>2. no \in DOMAIN Funds
    BY <1>1 DEF Funds
  <2> QED
    BY <2>1, <2>2, RenamedIs
<1>5. Strikes' = Bank!Renamed(Strikes, no, new_no, Strikes[no])
  <2>1. Strikes' = [x \in (DOMAIN Strikes \ {no}) \union {new_no} |->
                      IF x = new_no THEN Strikes[no] ELSE Strikes[x]]
    BY <1>1, <1>2, <1>3 DEF Strikes
  <2>2. no \in DOMAIN Strikes
    BY <1>1 DEF Strikes
  <2> QED
    BY <2>1, <2>2, RenamedIs
<1>6. Opening' = Bank!Renamed(Opening, no, new_no, {pin})
  <2>1. OpeningPins(new_no)' = {pin}
    BY <1>2, <1>3 DEF OpeningPins, PinMatches, PinHash
  <2>2. \A a \in DOMAIN accounts' \ {new_no} : OpeningPins(a)' = OpeningPins(a)
    BY <1>3 DEF OpeningPins, PinMatches
  <2>3. Opening' = [x \in (DOMAIN Opening \ {no}) \union {new_no} |->
                      IF x = new_no THEN {pin} ELSE Opening[x]]
    BY <1>1, <1>3, <2>1, <2>2 DEF Opening
  <2> QED
    BY <1>1, <2>3, RenamedIs DEF Opening
<1>7. UNCHANGED <<Keys, Who>>
  BY SameKeys DEF EditAccount, Who
<1> QED
  BY <1>1, <1>4, <1>5, <1>6, <1>7 DEF Bank!Reissue, Funds, Opening, Strikes, Keys, Who

LEMMA DeleteAccountRefines ==
  ASSUME SessionNamesLiveRow, NEW no, DeleteAccount(no)
  PROVE  Bank!Close(no)
<1>1. /\ no \in DOMAIN accounts
      /\ accounts[no].balance = 0
      /\ DOMAIN accounts' = DOMAIN accounts \ {no}
      /\ \A a \in DOMAIN accounts' : accounts'[a] = accounts[a]
      /\ Bank!AdminPresent
  BY AdminIsPresent DEF DeleteAccount, Deletable, DeleteAccountRow
<1>2. Funds' = Bank!Without(Funds, no) /\ Strikes' = Bank!Without(Strikes, no)
  BY <1>1 DEF Funds, Strikes, Bank!Without
<1>3. Opening' = Bank!Without(Opening, no)
  <2>1. \A a \in DOMAIN accounts' : OpeningPins(a)' = OpeningPins(a)
    BY <1>1 DEF OpeningPins, PinMatches
  <2> QED
    BY <1>1, <2>1 DEF Opening, Bank!Without
<1>4. UNCHANGED <<Keys, Who>>
  BY SameKeys DEF DeleteAccount, Who
<1> QED
  BY <1>1, <1>2, <1>3, <1>4 DEF Bank!Close, Funds, Opening, Strikes, Keys, Who

-------------------------------------------------------------------------------
LEMMA AdminLoginRefines ==
  ASSUME NEW username, NEW password \in Passwords, AdminLogin(username, password)
  PROVE  Bank!AdminSignIn(username, password)
<1>1. username \in DOMAIN Keys /\ password \in Keys[username]
  BY DEF AdminLogin, Keys, AdmittingPasswords
<1>2. UNCHANGED <<accounts, admins>>
  BY DEF AdminLogin, tables
<1>3. UNCHANGED <<Funds, Opening, Strikes, Keys>>
  BY <1>2, SameAccounts, SameKeys
<1>4. Who' = [Bank!Nobody EXCEPT !.admin = username]
  BY DEF AdminLogin, ResetSession, Who, Bank!Nobody, NoAccount
<1> QED
  BY <1>1, <1>3, <1>4 DEF Bank!AdminSignIn, Funds, Opening, Strikes, Keys, Who

LEMMA LogoutRefines ==
  ASSUME Logout
  PROVE  Bank!Leave
<1>1. UNCHANGED <<accounts, admins>>
  BY DEF Logout, tables
<1>2. UNCHANGED <<Funds, Opening, Strikes, Keys>>
  BY <1>1, SameAccounts, SameKeys
<1>3. Who' = Bank!Nobody
  <2>1. session'.customer_account_no = NoAccount /\ session'.admin_username = NoName
    BY DEF Logout, ResetSession
  <2> QED
    BY <2>1 DEF Who, NoAccount, Bank!Nobody
<1> QED
  BY <1>2, <1>3 DEF Bank!Leave, Funds, Opening, Strikes, Keys, Who

LEMMA ChangeAdminPasswordRefines ==
  ASSUME SessionNamesLiveRow, NEW password, NEW salt, Trim(password) \in Passwords,
         ChangeAdminPassword(password, salt)
  PROVE  Bank!ChangeKey(Trim(password))
<1> DEFINE u == session.admin_username
           row == AdminRow(u, Trim(password), salt)
<1>1. /\ u \in DOMAIN admins
      /\ admins' = [admins EXCEPT ![u] = row]
      /\ UNCHANGED <<accounts, session>>
      /\ Bank!AdminPresent
  BY AdminIsPresent DEF ChangeAdminPassword, tables
<1>2. /\ row.password_hash = PasswordHash(salt, u, Trim(password))
      /\ row.password_salt = salt
  BY DEF AdminRow
<1> HIDE DEF u, row
<1>3. /\ DOMAIN admins' = DOMAIN admins
      /\ \A x \in DOMAIN admins : admins'[x] = IF x = u THEN row ELSE admins[x]
  BY <1>1
<1>4. AdmittingPasswords(u)' = {Trim(password)}
  BY <1>1, <1>2, <1>3 DEF AdmittingPasswords, PasswordMatches, PasswordHash, u
<1>5. \A x \in DOMAIN admins \ {u} : AdmittingPasswords(x)' = AdmittingPasswords(x)
  BY <1>3 DEF AdmittingPasswords, PasswordMatches
<1>6. Keys' = Bank!With(Keys, u, {Trim(password)})
  <2>1. u' = u
    BY <1>1 DEF u
  <2> QED
    BY <1>1, <1>3, <1>4, <1>5, <2>1 DEF Keys, Bank!With
<1>7. UNCHANGED <<Funds, Opening, Strikes, Who>> /\ Who.admin = u
  BY <1>1, SameAccounts DEF Who, u
<1> QED
  BY <1>1, <1>6, <1>7 DEF Bank!ChangeKey, Funds, Opening, Strikes, Keys, Who

-------------------------------------------------------------------------------
LEMMA NextRefines ==
  ASSUME IInv, [Next]_vars
  PROVE  [Bank!Next]_(Bank!bankVars)
<1> USE DEF IInv
<1>1. CASE AccountRequest
  BY <1>1, CreateAccountRefines, LoginRightPinRefines, LoginWrongPinRefines
     DEF AccountRequest, Bank!Next
<1>2. CASE CustomerRequest
  <2>1. session.customer_account_no \in Numbers /\ Bank!MayHandle(session.customer_account_no)
    BY <1>2 DEF CustomerRequest, Deposit, Withdraw, Transfer, IsCustomerSession, NoAccount,
       TypeOK, Sessions, SessionNamesLiveRow, Bank!MayHandle, Bank!AtCounter
  <2> QED
    BY <1>2, <2>1, EntryRefines, TransferRefines DEF CustomerRequest, Deposit, Withdraw, Bank!Next
<1>3. CASE AdminRequest
  <2>1. ASSUME NEW no \in Numbers, LockAccount(no) \/ UnlockAccount(no)
        PROVE  Bank!Next
    BY <2>1, SetStrikesRefines DEF Bank!Next
  <2>2. ASSUME NEW no \in Numbers, NEW amount \in Amounts,
               AdminCredit(no, amount) \/ AdminDebit(no, amount)
        PROVE  Bank!Next
    <3>1. Bank!MayHandle(no)
      BY <2>2, AdminIsPresent DEF AdminCredit, AdminDebit, ApplyBalanceTransaction, Bank!MayHandle
    <3> QED
      BY <2>2, <3>1, EntryRefines DEF AdminCredit, AdminDebit, Bank!Next
  <2>3. ASSUME NEW no \in Numbers, DeleteAccount(no)
        PROVE  Bank!Next
    BY <2>3, DeleteAccountRefines DEF Bank!Next
  <2>4. ASSUME NEW no \in Numbers, NEW new_no \in Numbers, NEW pin \in Pins,
               NEW salt \in Salts, EditAccount(no, new_no, pin, salt)
        PROVE  Bank!Next
    BY <2>4, EditAccountRefines DEF Bank!Next
  <2>5. ASSUME NEW username \in AdminNames, NEW password \in Passwords,
               AdminLogin(username, password)
        PROVE  Bank!Next
    BY <2>5, AdminLoginRefines DEF Bank!Next
  <2>6. ASSUME NEW password \in Passwords, NEW salt \in Salts,
               ChangeAdminPassword(password, salt)
        PROVE  Bank!Next
    BY <2>6, TrimAssumption, ChangeAdminPasswordRefines DEF Bank!Next
  <2> QED
    BY <1>3, <2>1, <2>2, <2>3, <2>4, <2>5, <2>6 DEF AdminRequest
<1>4. CASE Logout
  BY <1>4, LogoutRefines DEF Bank!Next
<1>5. CASE UNCHANGED vars
  <2>1. UNCHANGED <<Funds, Opening, Strikes, Keys, Who>>
    BY <1>5, SameAccounts, SameKeys DEF vars, Who
  <2> QED
    BY <2>1 DEF Bank!bankVars, Funds, Opening, Strikes, Keys, Who
<1> QED
  BY <1>1, <1>2, <1>3, <1>4, <1>5 DEF Next

(* The server implements the bank: no request moves money, opens an        *)
(* account, sets a strike or changes a key but as AtmBank allows.          *)
THEOREM ServerImplementsBank == Spec => ImplementsBank
<1>1. IInv /\ [Next]_vars => [Bank!Next]_(Bank!bankVars)
  BY NextRefines
<1> QED
  BY <1>1, InitRefines, Invariance, PTL DEF Spec, ImplementsBank, Bank!Spec
===============================================================================
