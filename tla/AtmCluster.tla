------------------------------ MODULE AtmCluster ------------------------------
(***************************************************************************)
(* Server processes that share one database file, handler by handler and   *)
(* statement by statement.  The program takes the port and the database    *)
(* path as arguments, waits 5 seconds for a busy database and begins its   *)
(* transactions IMMEDIATE, so several processes may serve the same file.   *)
(*                                                                         *)
(* SQLite, as the code uses it: a statement outside a transaction reads    *)
(* the committed tables, and writes them if no other process holds the     *)
(* write lock; BEGIN IMMEDIATE takes the write lock; the statements of a   *)
(* transaction work on tables nobody else sees until COMMIT; ROLLBACK, or  *)
(* the end of the process, forgets them.                                   *)
(*                                                                         *)
(* Any statement may fail, and a process may end between any two steps.    *)
(* A definition named Slip... is the one after it with a mistake in it.    *)
(***************************************************************************)
EXTENDS AtmTables, Sequences

CONSTANTS
  Servers,          \* the server processes
  NoServer,         \* the holder of a write lock nobody holds
  Numbers, Pins, Amounts, AdminNames, Passwords, Long(_), Trim(_), Salts,
                    \* what requests may carry, as in AtmServer
  MaxTransactions   \* bound: transaction rows ever written

ASSUME NoServerAssumption == NoServer \notin Servers
ASSUME NumbersAssumption == Numbers \subseteq Int
ASSUME AmountsAssumption == Amounts \subseteq Int
ASSUME MaxTransactionsAssumption == MaxTransactions \in Nat

VARIABLES
  db,               \* the committed accounts, transactions and next id
  admins,           \* the admins table
  writer,           \* who holds the write lock
  work,             \* the tables as the open transaction sees them
  session,          \* the Session of each process's client
  pc,               \* where each process stands in its handler
  request,          \* the request it is handling
  seen,             \* the account row it read before any transaction
  todo              \* the statements left in its transaction

database == <<db, admins, writer, work>>
local == <<session, pc, request, seen, todo>>
vars == <<database, local>>

NoRequest == [op |-> "NONE"]
NoRow == NewAccountRow(<<>>, 0)

Init ==
  /\ db = [accounts |-> [a \in {} |-> NoRow], nextId |-> 1,
           transactions |-> [i \in {} |-> TransactionRow(0, 0, "", 0, 0)]]
  /\ \E username \in AdminNames, password \in Passwords, salt \in Salts :
       /\ Long(password)
       /\ admins = [u \in {username} |-> AdminRow(u, password, salt)]
  /\ writer = NoServer
  /\ work = db
  /\ session = [s \in Servers |-> ResetSession]
  /\ pc = [s \in Servers |-> "idle"]
  /\ request = [s \in Servers |-> NoRequest]
  /\ seen = [s \in Servers |-> NoRow]
  /\ todo = [s \in Servers |-> << >>]

-------------------------------------------------------------------------------
(* Requests that pass the session check and the checks on their arguments: *)
(* any other is refused before it reaches the database.                    *)
Positive(numbers) == {n \in numbers : n > 0}
GoodPins == {pin \in Pins : ValidPin(pin)}

PublicRequests ==
  [op : {"CREATE_ACCOUNT"}, no : Positive(Numbers), pin : GoodPins, salt : Salts]
    \union [op : {"LOGIN"}, no : Positive(Numbers), pin : GoodPins]

CustomerRequests(no) ==
  [op : {"DEPOSIT", "WITHDRAW"}, no : {no}, amount : Positive(Amounts)]
    \union [op : {"TRANSFER"}, no : {no}, to : Positive(Numbers) \ {no},
            amount : Positive(Amounts)]

AdminRequests(username) ==
  [op : {"LOCK_ACCOUNT", "UNLOCK_ACCOUNT", "DELETE_ACCOUNT"}, no : Positive(Numbers)]
    \union [op : {"ADMIN_CREDIT", "ADMIN_DEBIT"}, no : Positive(Numbers),
            amount : Positive(Amounts)]
    \union [op : {"EDIT_ACCOUNT"}, no : Positive(Numbers), to : Positive(Numbers),
            pin : GoodPins, salt : Salts]
    \union [op : {"CHANGE_ADMIN_PASSWORD"}, username : {username},
            password : {w \in Passwords : Long(Trim(w))}, salt : Salts]

Requests(s) ==
  PublicRequests
    \union (IF IsCustomerSession(session[s])
              THEN CustomerRequests(session[s].customer_account_no) ELSE {})
    \union (IF IsAdminSession(session[s])
              THEN AdminRequests(session[s].admin_username) ELSE {})

(* The first thing the handler does with the database.                     *)
FirstStep(op) ==
  CASE op \in {"LOGIN", "LOCK_ACCOUNT", "UNLOCK_ACCOUNT", "DELETE_ACCOUNT"} -> "look"
    [] op \in {"CREATE_ACCOUNT", "CHANGE_ADMIN_PASSWORD"} -> "write"
    [] OTHER -> "begin"

Receive(s) ==
  /\ pc[s] = "idle"
  /\ \E r \in Requests(s) :
       /\ request' = [request EXCEPT ![s] = r]
       /\ pc' = [pc EXCEPT ![s] = FirstStep(r.op)]
  /\ UNCHANGED <<database, session, seen, todo>>

(* ADMIN_LOGIN is one SELECT.                                              *)
AdminLogin(s) ==
  /\ pc[s] = "idle"
  /\ \E username \in DOMAIN admins, password \in Passwords :
       /\ admins[username].password_hash
            = PasswordHash(admins[username].password_salt, username, password)
       /\ session' = [session EXCEPT ![s] =
            [ResetSession EXCEPT !.is_admin = 1, !.admin_username = username]]
  /\ UNCHANGED <<database, pc, request, seen, todo>>

(* LOGOUT, or the next connection.                                         *)
Logout(s) ==
  /\ pc[s] = "idle"
  /\ session' = [session EXCEPT ![s] = ResetSession]
  /\ UNCHANGED <<database, pc, request, seen, todo>>

-------------------------------------------------------------------------------
(* The process answers and forgets what it was doing.                      *)
Answer(s) ==
  /\ pc' = [pc EXCEPT ![s] = "idle"]
  /\ request' = [request EXCEPT ![s] = NoRequest]
  /\ seen' = [seen EXCEPT ![s] = NoRow]
  /\ todo' = [todo EXCEPT ![s] = << >>]

SlipNoRollback(s) == UNCHANGED <<writer, work>>
Rollback(s) ==
  IF writer = s THEN writer' = NoServer /\ work' = db
                ELSE UNCHANGED <<writer, work>>

(* What a handler asks of the row it read outside a transaction.           *)
LooksGood(r, row) ==
  CASE r.op = "LOGIN" -> row.is_locked = 0
    [] r.op = "DELETE_ACCOUNT" -> row.balance = 0
    [] OTHER -> TRUE

(* db_read_account, before any write.                                      *)
Look(s) ==
  /\ pc[s] = "look"
  /\ LET r == request[s] IN
       IF r.no \in DOMAIN db.accounts /\ LooksGood(r, db.accounts[r.no])
         THEN /\ seen' = [seen EXCEPT ![s] = db.accounts[r.no]]
              /\ pc' = [pc EXCEPT ![s] =
                          IF r.op = "DELETE_ACCOUNT" THEN "begin" ELSE "write"]
              /\ UNCHANGED <<request, todo>>
         ELSE Answer(s)
  /\ UNCHANGED <<database, session>>

-------------------------------------------------------------------------------
(* Handlers whose only write is one statement of its own.                  *)

WriteAccounts(accounts) ==
  /\ db' = [db EXCEPT !.accounts = accounts]
  /\ work' = [work EXCEPT !.accounts = accounts]

WriteNewAccount(r) ==
  /\ r.op = "CREATE_ACCOUNT"
  /\ IF r.no \in DOMAIN db.accounts
       THEN UNCHANGED <<db, work>>
       ELSE WriteAccounts(InsertAccountRow(db.accounts, r.no,
                            NewAccountRow(PinHash(r.salt, r.pin), r.salt)))
  /\ UNCHANGED <<admins, session>>

(* The whole row as it was read is written back.                           *)
SlipWriteBack(s, r) ==
  /\ r.op = "LOGIN"
  /\ WriteAccounts([a \in DOMAIN db.accounts |->
       IF a = r.no THEN [seen[s] EXCEPT !.failed_attempts = 0] ELSE db.accounts[a]])
  /\ session' = [session EXCEPT ![s] =
                   [ResetSession EXCEPT !.customer_account_no = r.no]]
  /\ UNCHANGED admins

WriteLogin(s, r) ==
  /\ r.op = "LOGIN"
  /\ IF seen[s].pin_hash = PinHash(seen[s].salt, r.pin)
       THEN /\ WriteAccounts(UpdateLoginState(db.accounts, r.no, 0, 0))
            /\ session' = [session EXCEPT ![s] =
                             [ResetSession EXCEPT !.customer_account_no = r.no]]
       ELSE LET failed_attempts == seen[s].failed_attempts + 1
            IN  /\ WriteAccounts(UpdateLoginState(db.accounts, r.no, failed_attempts,
                                   FailedAttemptsLock(failed_attempts)))
                /\ UNCHANGED session
  /\ UNCHANGED admins

SlipLockOnly(r) ==
  /\ r.op \in {"LOCK_ACCOUNT", "UNLOCK_ACCOUNT"}
  /\ WriteAccounts(UpdateLoginState(db.accounts, r.no, 0,
                     IF r.op = "LOCK_ACCOUNT" THEN 1 ELSE 0))
  /\ UNCHANGED <<admins, session>>

WriteLock(r) ==
  /\ r.op \in {"LOCK_ACCOUNT", "UNLOCK_ACCOUNT"}
  /\ LET locked == r.op = "LOCK_ACCOUNT"
     IN  WriteAccounts(UpdateLoginState(db.accounts, r.no,
                         IF locked THEN 3 ELSE 0, IF locked THEN 1 ELSE 0))
  /\ UNCHANGED <<admins, session>>

WriteAdminPassword(r) ==
  /\ r.op = "CHANGE_ADMIN_PASSWORD"
  /\ admins' = [admins EXCEPT ![r.username] =
                  AdminRow(r.username, Trim(r.password), r.salt)]
  /\ UNCHANGED <<db, work, session>>

Write(s) ==
  /\ pc[s] = "write"
  /\ writer = NoServer
  /\ \/ WriteNewAccount(request[s])
     \/ WriteLogin(s, request[s])
     \/ WriteLock(request[s])
     \/ WriteAdminPassword(request[s])
  /\ Answer(s)
  /\ UNCHANGED writer

-------------------------------------------------------------------------------
(* Handlers with a transaction.                                            *)

(* BEGIN without the lock: the tables are copied while another process may *)
(* be about to commit.                                                     *)
SlipBeginDeferred(s) ==
  /\ pc[s] = "begin"
  /\ writer' = s
  /\ work' = IF writer = NoServer THEN db ELSE work
  /\ pc' = [pc EXCEPT ![s] = "plan"]
  /\ UNCHANGED <<db, admins, session, request, seen, todo>>

(* BEGIN IMMEDIATE.                                                        *)
Begin(s) ==
  /\ pc[s] = "begin"
  /\ writer = NoServer
  /\ writer' = s
  /\ work' = db
  /\ pc' = [pc EXCEPT ![s] = "plan"]
  /\ UNCHANGED <<db, admins, session, request, seen, todo>>

IsCredit(op) == op \in {"DEPOSIT", "ADMIN_CREDIT"}
IsEntry(op) == IsCredit(op) \/ op \in {"WITHDRAW", "ADMIN_DEBIT"}

RowsWritten(op) == CASE IsEntry(op) -> 1 [] op = "TRANSFER" -> 2 [] OTHER -> 0

(* What a handler checks on the rows it reads inside the transaction.      *)
Admissible(r, d) ==
  /\ d.nextId + RowsWritten(r.op) <= MaxTransactions + 1
  /\ r.op # "DELETE_ACCOUNT" => r.no \in DOMAIN d.accounts
  /\ r.op = "TRANSFER" => r.to \in DOMAIN d.accounts
  /\ r.op \in {"WITHDRAW", "ADMIN_DEBIT", "TRANSFER"} =>
       r.amount <= d.accounts[r.no].balance

(* The statements it then runs, in the order of the code.                  *)
SetBalance(no, value) == [stmt |-> "balance", no |-> no, value |-> value]
AddRow(row) == [stmt |-> "row", row |-> row]

EntryStatements(r, d) ==
  LET balance == IF IsCredit(r.op) THEN d.accounts[r.no].balance + r.amount
                                   ELSE d.accounts[r.no].balance - r.amount
  IN  << SetBalance(r.no, balance),
         AddRow(TransactionRow(r.no, NoAccount, r.op, r.amount, balance)) >>

TransferStatements(r, d) ==
  LET sender_balance == d.accounts[r.no].balance - r.amount
      receiver_balance == d.accounts[r.to].balance + r.amount
  IN  << SetBalance(r.no, sender_balance),
         SetBalance(r.to, receiver_balance),
         AddRow(TransactionRow(r.no, r.to, "TRANSFER_SENT", r.amount, sender_balance)),
         AddRow(TransactionRow(r.to, r.no, "TRANSFER_RECEIVED", r.amount,
                               receiver_balance)) >>

EditStatements(r, d) ==
  IF r.no = r.to
    THEN << [stmt |-> "pin", no |-> r.no, pin |-> r.pin, salt |-> r.salt] >>
    ELSE << [stmt |-> "account", no |-> r.to,
             row |-> RenumberedRow(d.accounts[r.no], r.pin, r.salt)],
            [stmt |-> "move", no |-> r.no, to |-> r.to],
            [stmt |-> "relink", no |-> r.no, to |-> r.to],
            [stmt |-> "delete", no |-> r.no] >>

DeleteStatements(r) ==
  << [stmt |-> "relink", no |-> r.no, to |-> NoAccount],
     [stmt |-> "deleteRows", no |-> r.no],
     [stmt |-> "delete", no |-> r.no] >>

Statements(r, d) ==
  CASE IsEntry(r.op) -> EntryStatements(r, d)
    [] r.op = "TRANSFER" -> TransferStatements(r, d)
    [] r.op = "EDIT_ACCOUNT" -> EditStatements(r, d)
    [] r.op = "DELETE_ACCOUNT" -> DeleteStatements(r)

Plan(s) ==
  /\ pc[s] = "plan"
  /\ IF Admissible(request[s], work)
       THEN /\ todo' = [todo EXCEPT ![s] = Statements(request[s], work)]
            /\ pc' = [pc EXCEPT ![s] = "execute"]
            /\ UNCHANGED <<writer, work, request, seen>>
       ELSE Rollback(s) /\ Answer(s)
  /\ UNCHANGED <<db, admins, session>>

(* SQLite refuses a second row of a primary key, a transaction row of no   *)
(* account and the deletion of an account that has transaction rows.       *)
Violates(st, d) ==
  \/ st.stmt = "account" /\ st.no \in DOMAIN d.accounts
  \/ st.stmt = "row" /\ st.row.account_no \notin DOMAIN d.accounts
  \/ st.stmt = "delete" /\ RowsOf(d.transactions, st.no) # {}

Effect(st, d) ==
  CASE st.stmt = "balance" ->
         [d EXCEPT !.accounts = UpdateBalance(@, st.no, st.value)]
    [] st.stmt = "pin" ->
         [d EXCEPT !.accounts = UpdatePin(@, st.no, PinHash(st.salt, st.pin), st.salt)]
    [] st.stmt = "account" -> [d EXCEPT !.accounts = InsertAccountRow(@, st.no, st.row)]
    [] st.stmt = "delete" -> [d EXCEPT !.accounts = DeleteAccountRow(@, st.no)]
    [] st.stmt = "row" ->
         [d EXCEPT !.transactions = InsertTransaction(@, d.nextId, st.row),
                   !.nextId = @ + 1]
    [] st.stmt = "move" -> [d EXCEPT !.transactions = MoveRows(@, st.no, st.to)]
    [] st.stmt = "relink" -> [d EXCEPT !.transactions = RelinkRows(@, st.no, st.to)]
    [] st.stmt = "deleteRows" -> [d EXCEPT !.transactions = DeleteRowsOf(@, st.no)]

(* Statements outside any transaction: each is committed as it ends.       *)
SlipExecuteUnprotected(s) ==
  /\ pc[s] = "execute"
  /\ todo[s] # << >>
  /\ IF Violates(Head(todo[s]), work)
       THEN Rollback(s) /\ Answer(s) /\ UNCHANGED db
       ELSE /\ work' = Effect(Head(todo[s]), work)
            /\ db' = work'
            /\ todo' = [todo EXCEPT ![s] = Tail(@)]
            /\ UNCHANGED <<writer, pc, request, seen>>
  /\ UNCHANGED <<admins, session>>

Execute(s) ==
  /\ pc[s] = "execute"
  /\ todo[s] # << >>
  /\ IF Violates(Head(todo[s]), work)
       THEN Rollback(s) /\ Answer(s)
       ELSE /\ work' = Effect(Head(todo[s]), work)
            /\ todo' = [todo EXCEPT ![s] = Tail(@)]
            /\ UNCHANGED <<writer, pc, request, seen>>
  /\ UNCHANGED <<db, admins, session>>

Commit(s) ==
  /\ pc[s] = "execute"
  /\ todo[s] = << >>
  /\ db' = work
  /\ writer' = NoServer
  /\ Answer(s)
  /\ UNCHANGED <<work, admins, session>>

-------------------------------------------------------------------------------
(* A statement fails: an I/O error, a full disk.                           *)
Fail(s) ==
  /\ pc[s] # "idle"
  /\ Rollback(s)
  /\ Answer(s)
  /\ UNCHANGED <<db, admins, session>>

(* No busy timeout: the process waits for as long as it takes.             *)
SlipWaitForever(s) == pc[s] = "waiting" /\ Answer(s) /\ UNCHANGED <<database, session>>

(* The 5 seconds of the busy timeout pass while another process writes.    *)
BusyTimeout(s) ==
  /\ pc[s] \in {"write", "begin"}
  /\ writer \notin {NoServer, s}
  /\ Answer(s)
  /\ UNCHANGED <<database, session>>

(* The process ends, and a new one takes its place.                        *)
Crash(s) ==
  /\ Rollback(s)
  /\ Answer(s)
  /\ session' = [session EXCEPT ![s] = ResetSession]
  /\ UNCHANGED <<db, admins>>

Advance(s) ==
  Look(s) \/ Write(s) \/ Begin(s) \/ Plan(s) \/ Execute(s) \/ Commit(s) \/ BusyTimeout(s)

Next ==
  \E s \in Servers :
    Receive(s) \/ AdminLogin(s) \/ Logout(s) \/ Advance(s) \/ Fail(s) \/ Crash(s)

Spec == Init /\ [][Next]_vars

(* A handler is straight-line code and every SQLite call returns, after 5  *)
(* seconds at the latest: a process in a handler takes its next step.      *)
FairSpec == Spec /\ \A s \in Servers : WF_vars(Advance(s))

-------------------------------------------------------------------------------
AccountRows ==
  [pin_hash : Salts \X Pins, salt : Salts, balance : Nat,
   failed_attempts : 0 .. 3, is_locked : {0, 1}]

(* Types; committed balances are never negative and failed attempts never  *)
(* exceed three, whoever raced with whom.                                  *)
TypeOK ==
  /\ \A d \in {db, work} :
       /\ DOMAIN d.accounts \subseteq Positive(Numbers)
       /\ \A a \in DOMAIN d.accounts : d.accounts[a] \in AccountRows
       /\ d.nextId \in 1 .. MaxTransactions + 1
       /\ DOMAIN d.transactions \subseteq 1 .. d.nextId - 1
  /\ writer \in Servers \union {NoServer}
  /\ pc \in [Servers -> {"idle", "look", "write", "begin", "plan", "execute"}]

(* What other processes can read of the two tables always agrees: balances *)
(* with rows, one side of a transfer with the other, and rows with         *)
(* accounts, whatever is under way, has failed or has crashed.             *)
DatabaseAgrees ==
  /\ RunningTotals(db.transactions)
  /\ BalanceIsTotal(db.accounts, db.transactions)
  /\ LinkedRowsPaired(db.transactions)
  /\ RowsNameAccounts(db.accounts, db.transactions)

TransactionOps ==
  {"DEPOSIT", "ADMIN_CREDIT", "WITHDRAW", "ADMIN_DEBIT", "TRANSFER", "EDIT_ACCOUNT",
   "DELETE_ACCOUNT"}
WriteOps ==
  {"CREATE_ACCOUNT", "CHANGE_ADMIN_PASSWORD", "LOGIN", "LOCK_ACCOUNT", "UNLOCK_ACCOUNT"}

(* d2 is d after the whole transaction of request r, handler by handler.   *)
NewBalance(r, d) ==
  IF IsCredit(r.op) THEN d.accounts[r.no].balance + r.amount
                    ELSE d.accounts[r.no].balance - r.amount

EntryOutcome(r, d, d2) ==
  /\ IsEntry(r.op)
  /\ d2.nextId = d.nextId + 1
  /\ d2.accounts = UpdateBalance(d.accounts, r.no, NewBalance(r, d))
  /\ d2.transactions =
       InsertTransaction(d.transactions, d.nextId,
         TransactionRow(r.no, NoAccount, r.op, r.amount, NewBalance(r, d)))

TransferOutcome(r, d, d2) ==
  LET sender_balance == d.accounts[r.no].balance - r.amount
      receiver_balance == d.accounts[r.to].balance + r.amount
  IN  /\ r.op = "TRANSFER"
      /\ d2.nextId = d.nextId + 2
      /\ d2.accounts = UpdateBalance(UpdateBalance(d.accounts, r.no, sender_balance),
                                     r.to, receiver_balance)
      /\ d2.transactions =
           InsertTransaction(
             InsertTransaction(d.transactions, d.nextId,
               TransactionRow(r.no, r.to, "TRANSFER_SENT", r.amount, sender_balance)),
             d.nextId + 1,
             TransactionRow(r.to, r.no, "TRANSFER_RECEIVED", r.amount, receiver_balance))

PinOutcome(r, d, d2) ==
  /\ r.op = "EDIT_ACCOUNT"
  /\ r.no = r.to
  /\ d2.nextId = d.nextId
  /\ d2.accounts = UpdatePin(d.accounts, r.no, PinHash(r.salt, r.pin), r.salt)
  /\ d2.transactions = d.transactions

RenumberOutcome(r, d, d2) ==
  /\ r.op = "EDIT_ACCOUNT"
  /\ r.no # r.to
  /\ r.to \notin DOMAIN d.accounts
  /\ d2.nextId = d.nextId
  /\ d2.accounts =
       DeleteAccountRow(
         InsertAccountRow(d.accounts, r.to, RenumberedRow(d.accounts[r.no], r.pin, r.salt)),
         r.no)
  /\ d2.transactions = RelinkRows(MoveRows(d.transactions, r.no, r.to), r.no, r.to)

DeleteOutcome(r, d, d2) ==
  /\ r.op = "DELETE_ACCOUNT"
  /\ d2.nextId = d.nextId
  /\ d2.accounts = DeleteAccountRow(d.accounts, r.no)
  /\ d2.transactions = DeleteRowsOf(RelinkRows(d.transactions, r.no, NoAccount), r.no)

Outcome(r, d, d2) ==
  \/ EntryOutcome(r, d, d2)
  \/ TransferOutcome(r, d, d2)
  \/ PinOutcome(r, d, d2)
  \/ RenumberOutcome(r, d, d2)
  \/ DeleteOutcome(r, d, d2)

(* A transaction as a whole, its checks still true of the tables it meets. *)
WholeTransaction(r, d, d2) ==
  r.op \in TransactionOps /\ Admissible(r, d) /\ Outcome(r, d, d2)

(* A statement of its own: a new account without money, or the login       *)
(* columns of an account that is there.                                    *)
SingleWrite(r, d, d2) ==
  /\ r.op \in WriteOps
  /\ d2.transactions = d.transactions /\ d2.nextId = d.nextId
  /\ \/ /\ r.op = "CREATE_ACCOUNT"
        /\ r.no \notin DOMAIN d.accounts
        /\ d2.accounts = InsertAccountRow(d.accounts, r.no,
                           NewAccountRow(PinHash(r.salt, r.pin), r.salt))
     \/ /\ r.op \in {"LOGIN", "LOCK_ACCOUNT", "UNLOCK_ACCOUNT"}
        /\ \E failed \in 0 .. 3 :
             d2.accounts = UpdateLoginState(d.accounts, r.no, failed,
                             FailedAttemptsLock(failed))

(* What another process sees change is one request as a whole, applied to  *)
(* what was committed right before it: no update of a balance is lost, no  *)
(* money leaves an account that does not have it by then, and no statement *)
(* outside a transaction touches a balance or a row of the ledger.         *)
WholeRequests ==
  [][ db' # db =>
        \E s \in Servers :
          \/ WholeTransaction(request[s], db, db')
          \/ SingleWrite(request[s], db, db')
    ]_vars

(* is_locked and failed_attempts are written together: no race between a   *)
(* LOGIN and an admin's lock leaves one without the other.                 *)
LockMatchesFailures ==
  \A a \in DOMAIN db.accounts :
    db.accounts[a].is_locked = 1 <=> db.accounts[a].failed_attempts = 3

(* A process that has answered holds no transaction open: every refusal    *)
(* and failure after BEGIN reaches db_rollback_transaction.  Otherwise all *)
(* later writes, by every process, would fail.                             *)
NoIdleTransaction ==
  \A s \in Servers : writer = s <=> pc[s] \in {"plan", "execute"}

(* Every request is answered, if only with an error, although other        *)
(* processes may keep taking the write lock.                               *)
EveryRequestAnswered ==
  \A s \in Servers : pc[s] # "idle" ~> pc[s] = "idle"

(* account.c: "Account balance must be zero before deletion."  An account  *)
(* that goes away was empty, unless it lives on under another number.      *)
DeletedOnlyWhenEmpty ==
  [][ \A a \in DOMAIN db.accounts \ DOMAIN db'.accounts :
        \/ db.accounts[a].balance = 0
        \/ \E b \in DOMAIN db'.accounts \ DOMAIN db.accounts :
             db'.accounts[b].balance = db.accounts[a].balance
    ]_vars

(* README.md: a locked account "must be unlocked by an administrator".     *)
(* Only the end of an admin's request takes a lock away.                   *)
LockClearedOnlyByAdmin ==
  [][ \A a \in DOMAIN db.accounts :
        db.accounts[a].is_locked = 1 =>
          \/ a \in DOMAIN db'.accounts /\ db'.accounts[a].is_locked = 1
          \/ \E s \in Servers :
               /\ request[s].op \in {"UNLOCK_ACCOUNT", "EDIT_ACCOUNT", "DELETE_ACCOUNT"}
               /\ request'[s] = NoRequest
    ]_vars

(* With one process the statements of a handler are one step of AtmServer: *)
(* this is what makes AtmServer a fair account of a single server that     *)
(* fails and crashes.                                                      *)
TheServer == CHOOSE s \in Servers : TRUE

Atomic == INSTANCE AtmServer WITH
  accounts <- db.accounts,
  transactions <- db.transactions,
  nextId <- db.nextId,
  admins <- admins,
  session <- session[TheServer]

ImplementsServer == Atomic!Spec
===============================================================================
