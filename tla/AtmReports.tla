------------------------------- MODULE AtmReports -------------------------------
(***************************************************************************)
(* The reports of src/src/account.c: statement, monthly summary, account   *)
(* details, dashboard, listing and recent transactions.  One process makes *)
(* a report, in one SELECT or in two with no transaction around them; the  *)
(* handlers of the others write in between, each in one step (AtmCluster   *)
(* has their statements), and a process that starts imports the lines of   *)
(* transactions.txt between their rows (AtmMigration).  PINs and locks     *)
(* play no part here.                                                      *)
(*                                                                         *)
(* Rows are read back in the order of their time stamps.  A handler's come *)
(* from the local time of day: the clock moves on at any moment, and may   *)
(* be set back.  Those of imported rows stood in the file and may lie      *)
(* anywhere.  A definition named Slip... is the one after it with a        *)
(* mistake in it.                                                          *)
(***************************************************************************)
EXTENDS AtmTables, SequencesExt

CONSTANTS
  Numbers, Amounts, \* what requests may carry
  Limits,           \* limits RECENT_TRANSACTIONS may carry
  LegacyLines,      \* the readable lines of transactions.txt
  LastStamp,        \* bound: the latest time
  Month(_),         \* the month of a time
  StatementLimit,   \* ATM_STATEMENT_LIMIT
  DefaultRecent, MostRecent,  \* how many recent transactions are listed
  ListingRoom,      \* how many accounts fit into the buffer of a listing
  MaxTransactions,  \* bound: transaction rows ever written
  MaxSteps          \* bound: times the clock is set back

ASSUME NumbersPositive == Numbers \subseteq Nat \ {NoAccount}
ASSUME AmountsPositive == Amounts \subseteq Nat \ {0}
ASSUME LimitsSensible ==
  /\ Limits \subseteq Int
  /\ StatementLimit \in Nat \ {0} /\ ListingRoom \in Nat \ {0}
  /\ MostRecent \in Nat /\ DefaultRecent \in 1 .. MostRecent
ASSUME TimesAssumption ==
  LastStamp \in Nat \ {0} /\ \A t \in 1 .. LastStamp : Month(t) \in Int
ASSUME LinesAssumption ==
  \A entry \in LegacyLines :
    entry.amount \in Int /\ entry.timestamp \in Int /\ Month(entry.timestamp) \in Int

VARIABLES
  accounts, transactions, nextId,   \* the tables, as in AtmServer
  now,              \* the time of day
  setBack,          \* how often the clock has been set back
  reading,          \* the report whose first SELECT has run, with what it read
  shown             \* the report just made, until something else happens

tables == <<accounts, transactions, nextId>>
clock == <<now, setBack>>
vars == <<tables, clock, reading, shown>>

NoReport == [op |-> "NONE"]

Stamps == 1 .. LastStamp
Months == {Month(t) : t \in Stamps \union {entry.timestamp : entry \in LegacyLines}}

Init ==
  /\ accounts = [a \in {} |-> NewAccountRow(<<>>, 0)]
  /\ transactions = [i \in {} |-> StampedRow(TransactionRow(0, 0, "", 0, 0), 0)]
  /\ nextId = 1
  /\ now = 1
  /\ setBack = 0
  /\ reading = NoReport
  /\ shown = NoReport

-------------------------------------------------------------------------------
(* The clock, and the handlers that write.                                 *)
Tick ==
  /\ now < LastStamp
  /\ now' = now + 1
  /\ shown' = NoReport
  /\ UNCHANGED <<tables, setBack, reading>>

(* localtime_r follows the time zone: the clock goes back once a year, and *)
(* whenever it is corrected.                                               *)
SetBack ==
  /\ now > 1
  /\ setBack < MaxSteps
  /\ now' = now - 1
  /\ setBack' = setBack + 1
  /\ shown' = NoReport
  /\ UNCHANGED <<tables, reading>>

(* A write that meets a report between its two SELECTs.                    *)
Written ==
  /\ reading' = IF reading = NoReport THEN NoReport
                                      ELSE [reading EXCEPT !.interrupted = TRUE]
  /\ shown' = NoReport
  /\ UNCHANGED clock

RoomForTransactions(n) == nextId + n <= MaxTransactions + 1

(* An account of accounts.dat comes with the same balance, which is 0.     *)
CreateAccount(no) ==
  /\ no \notin DOMAIN accounts
  /\ accounts' = InsertAccountRow(accounts, no, NewAccountRow(<<>>, 0))
  /\ UNCHANGED <<transactions, nextId>>
  /\ Written

SlipCovered(no, amount, type) == TRUE
Covered(no, amount, type) ==
  type \in CreditTypes \/ amount <= accounts[no].balance

(* The time stamp is taken inside the write transaction.                   *)
Enter(no, amount, type) ==
  /\ RoomForTransactions(1)
  /\ no \in DOMAIN accounts
  /\ Covered(no, amount, type)
  /\ LET updated_balance ==
           IF type \in CreditTypes THEN accounts[no].balance + amount
                                   ELSE accounts[no].balance - amount
     IN  /\ accounts' = UpdateBalance(accounts, no, updated_balance)
         /\ transactions' =
              InsertTransaction(transactions, nextId,
                StampedRow(TransactionRow(no, NoAccount, type, amount,
                                          updated_balance), now))
  /\ nextId' = nextId + 1
  /\ Written

Transfer(from, to, amount) ==
  /\ RoomForTransactions(2)
  /\ from # to
  /\ {from, to} \subseteq DOMAIN accounts
  /\ amount <= accounts[from].balance
  /\ LET sender_balance == accounts[from].balance - amount
         receiver_balance == accounts[to].balance + amount
     IN  /\ accounts' = UpdateBalance(UpdateBalance(accounts, from, sender_balance),
                                      to, receiver_balance)
         /\ transactions' =
              InsertTransaction(
                InsertTransaction(transactions, nextId,
                  StampedRow(TransactionRow(from, to, "TRANSFER_SENT", amount,
                                            sender_balance), now)),
                nextId + 1,
                StampedRow(TransactionRow(to, from, "TRANSFER_RECEIVED", amount,
                                          receiver_balance), now))
  /\ nextId' = nextId + 2
  /\ Written

Renumber(old, new) ==
  /\ old \in DOMAIN accounts
  /\ new \notin DOMAIN accounts
  /\ accounts' = InsertAccountRow(DeleteAccountRow(accounts, old), new, accounts[old])
  /\ transactions' = RelinkRows(MoveRows(transactions, old, new), old, new)
  /\ UNCHANGED nextId
  /\ Written

DeleteAccount(no) ==
  /\ no \in DOMAIN accounts
  /\ accounts[no].balance = 0
  /\ transactions' = DeleteRowsOf(RelinkRows(transactions, no, NoAccount), no)
  /\ accounts' = DeleteAccountRow(accounts, no)
  /\ UNCHANGED nextId
  /\ Written

(* One line of the import of a process that found no transactions when it  *)
(* counted them, however long ago: it belongs to an account that exists by *)
(* now, and moves no balance.                                              *)
ImportTransaction(entry) ==
  /\ RoomForTransactions(1)
  /\ entry.account_no \in DOMAIN accounts
  /\ transactions' = InsertTransaction(transactions, nextId, LegacyTransaction(entry))
  /\ nextId' = nextId + 1
  /\ shown' = NoReport
  /\ UNCHANGED <<accounts, clock, reading>>

-------------------------------------------------------------------------------
(* The members of a set, in the order of an ORDER BY.                      *)
Ordered(S, Before(_, _)) ==
  CHOOSE s \in [1 .. Cardinality(S) -> S] :
    \A j, k \in DOMAIN s : j < k => Before(s[j], s[k])

(* SELECT ... ORDER BY created_at DESC, id DESC LIMIT ?  A limit below     *)
(* zero is none.                                                           *)
SlipNewer(i, j) ==
  \/ transactions[i].created_at > transactions[j].created_at
  \/ transactions[i].created_at = transactions[j].created_at /\ i < j
Newer(i, j) ==
  \/ transactions[i].created_at > transactions[j].created_at
  \/ transactions[i].created_at = transactions[j].created_at /\ i > j

Newest(ids, limit) ==
  LET sorted == Ordered(ids, Newer)
      rows == [k \in DOMAIN sorted |-> transactions[sorted[k]]]
  IN  IF limit < 0 \/ limit > Len(rows) THEN rows ELSE SubSeq(rows, 1, limit)

(* One report at a time: a process answers one request after the other.    *)
Begin(report) ==
  /\ reading = NoReport
  /\ reading' = report
  /\ shown' = NoReport
  /\ UNCHANGED <<tables, clock>>

Show(report) ==
  /\ shown' = report
  /\ reading' = NoReport
  /\ UNCHANGED <<tables, clock>>

(* The first SELECT of a statement, a summary and the details: the account.*)
ReadAccount(op, no) ==
  /\ no \in DOMAIN accounts
  /\ Begin([op |-> op, no |-> no, balance |-> accounts[no].balance,
            interrupted |-> FALSE])

(* A statement that fails, or an account that is not found: ERR.           *)
Fail ==
  /\ reading # NoReport
  /\ Show(NoReport)

MiniStatement ==
  /\ reading.op = "MINI_STATEMENT"
  /\ Show([op |-> "MINI_STATEMENT", no |-> reading.no, balance |-> reading.balance,
           rows |-> Newest(RowsOf(transactions, reading.no), StatementLimit),
           interrupted |-> reading.interrupted])

RowsOfType(ids, type) == {i \in ids : transactions[i].type = type}
SumOfType(ids, type) ==
  MapThenSumSet(LAMBDA i : transactions[i].amount, RowsOfType(ids, type))

SlipNetChange(ids) ==
  SumOfType(ids, "DEPOSIT") - SumOfType(ids, "WITHDRAW") - SumOfType(ids, "TRANSFER_SENT")
(* The net change leaves out what administrators entered.                  *)
NetChange(ids) ==
  SumOfType(ids, "DEPOSIT") + SumOfType(ids, "TRANSFER_RECEIVED")
    - SumOfType(ids, "WITHDRAW") - SumOfType(ids, "TRANSFER_SENT")

(* No month in the request means the current one.                          *)
MonthlySummary(month) ==
  /\ reading.op = "MONTHLY_SUMMARY"
  /\ LET ids == {i \in RowsOf(transactions, reading.no) :
                   Month(transactions[i].created_at) = month}
     IN  Show([op |-> "MONTHLY_SUMMARY", no |-> reading.no, month |-> month,
               balance |-> reading.balance, count |-> Cardinality(ids),
               net_change |-> NetChange(ids), interrupted |-> reading.interrupted])

(* Should the second SELECT of the details fail, they say that there are   *)
(* no transactions yet.                                                    *)
AccountDetails(fails) ==
  /\ reading.op = "VIEW_ACCOUNT_DETAILS"
  /\ Show([op |-> "VIEW_ACCOUNT_DETAILS", no |-> reading.no,
           balance |-> reading.balance, failed |-> fails,
           rows |-> IF fails THEN <<>>
                             ELSE Newest(RowsOf(transactions, reading.no), 1),
           interrupted |-> reading.interrupted])

(* The counts and sums of the dashboard are one SELECT.                    *)
CountAll ==
  Begin([op |-> "ADMIN_DASHBOARD",
         total_accounts |-> Cardinality(DOMAIN accounts),
         total_balance |-> MapThenSumSet(LAMBDA a : accounts[a].balance, DOMAIN accounts),
         total_transactions |-> Cardinality(DOMAIN transactions),
         interrupted |-> FALSE])

SlipRicher(a, b) ==
  \/ accounts[a].balance < accounts[b].balance
  \/ accounts[a].balance = accounts[b].balance /\ a <= b
(* ORDER BY balance DESC, account_no ASC                                   *)
Richer(a, b) ==
  \/ accounts[a].balance > accounts[b].balance
  \/ accounts[a].balance = accounts[b].balance /\ a <= b

SystemSummary(fails) ==
  /\ reading.op = "ADMIN_DASHBOARD"
  /\ LET top == IF fails THEN {}
                ELSE {a \in DOMAIN accounts : \A b \in DOMAIN accounts : Richer(a, b)}
     IN  Show([report |-> reading, op |-> "ADMIN_DASHBOARD", failed |-> fails,
               top |-> {<<a, accounts[a].balance>> : a \in top}])

SlipListing(sorted) ==
  IF Len(sorted) <= ListingRoom THEN sorted ELSE SubSeq(sorted, 1, ListingRoom)
(* A listing that does not fit is refused.                                 *)
Listing(sorted) == IF Len(sorted) <= ListingRoom THEN sorted ELSE <<"ERR">>

AccountListing ==
  /\ reading = NoReport
  /\ LET sorted == Ordered(DOMAIN accounts, <)
     IN  Show([op |-> "LIST_ACCOUNTS",
               listed |-> Listing([k \in DOMAIN sorted |->
                            <<sorted[k], accounts[sorted[k]].balance>>])])

SlipRecentLimit(limit) == IF limit > MostRecent THEN MostRecent ELSE limit
RecentLimit(limit) ==
  CASE limit <= 0 -> DefaultRecent
    [] limit > MostRecent -> MostRecent
    [] OTHER -> limit

RecentTransactions(limit) ==
  /\ reading = NoReport
  /\ Show([op |-> "RECENT_TRANSACTIONS",
           rows |-> Newest(DOMAIN transactions, RecentLimit(limit))])

-------------------------------------------------------------------------------
Handler ==
  \/ \E no \in Numbers : CreateAccount(no) \/ DeleteAccount(no)
  \/ \E no \in Numbers, amount \in Amounts,
        type \in {"DEPOSIT", "WITHDRAW", "ADMIN_CREDIT", "ADMIN_DEBIT"} :
       Enter(no, amount, type)
  \/ \E from, to \in Numbers :
       \/ Renumber(from, to)
       \/ \E amount \in Amounts : Transfer(from, to, amount)

Report ==
  \/ \E no \in Numbers,
        op \in {"MINI_STATEMENT", "MONTHLY_SUMMARY", "VIEW_ACCOUNT_DETAILS"} :
       ReadAccount(op, no)
  \/ MiniStatement
  \/ \E month \in Months : MonthlySummary(month)
  \/ \E fails \in BOOLEAN : AccountDetails(fails) \/ SystemSummary(fails)
  \/ CountAll
  \/ AccountListing
  \/ \E limit \in Limits : RecentTransactions(limit)
  \/ Fail

Import == \E entry \in LegacyLines : ImportTransaction(entry)

Next == Tick \/ SetBack \/ Handler \/ Import \/ Report

Spec == Init /\ [][Next]_vars

-------------------------------------------------------------------------------
SteadyClock == setBack = 0

(* The rows handlers wrote, among the rows of a set.                       *)
Native(ids) == {i \in ids : transactions[i].balance_after # Null}

(* The tables have their types, imported rows among them.  The time stamps *)
(* of handlers lie in the past of a clock that was never set back, and in  *)
(* the order of the ids: they are taken inside the write transaction.      *)
TypeOK ==
  /\ \A a \in DOMAIN accounts : accounts[a].balance \in Nat
  /\ DOMAIN transactions \subseteq 1 .. nextId - 1
  /\ \A i \in DOMAIN transactions :
       /\ transactions[i].type \in TransactionTypes \union {"LEGACY"}
       /\ transactions[i].balance_after \in Nat \union {Null}
  /\ \A i \in Native(DOMAIN transactions) :
       /\ transactions[i].created_at \in Stamps
       /\ SteadyClock => /\ transactions[i].created_at <= now
                         /\ \A j \in Native(DOMAIN transactions) :
                              i < j => transactions[i].created_at
                                         <= transactions[j].created_at
  /\ now \in Stamps

(* The lines of a statement that show a balance; imported ones show "n/a". *)
Balanced(rows) == {k \in DOMAIN rows : rows[k].balance_after # Null}

(* The newest balance is the current one.  Where all lines are imported,   *)
(* and are all there are, nothing has ever moved the balance.              *)
Explained(rows, limit, balance) ==
  /\ \A k \in Balanced(rows) :
       (\A j \in Balanced(rows) : k <= j) => rows[k].balance_after = balance
  /\ Balanced(rows) = {} /\ Len(rows) < limit => balance = 0

(* Unless the clock was set back, the lines of a mini statement that show  *)
(* a balance are consecutive rows the handlers wrote for the account,      *)
(* newest first: each balance is the one below it plus or minus its        *)
(* amount, rows of one second among them.  Imported lines may stand        *)
(* between them, whatever their time stamps say.  Unless a handler came    *)
(* between the two SELECTs of a statement or of the account details, their *)
(* first balance is the current one they show (db_build_mini_statement,    *)
(* db_build_account_details).                                              *)
StatementAddsUp ==
  /\ shown.op = "MINI_STATEMENT" /\ SteadyClock =>
       /\ \A j, k \in Balanced(shown.rows) :
            j < k /\ (\A l \in Balanced(shown.rows) : l <= j \/ k <= l) =>
              shown.rows[j].balance_after
                = shown.rows[k].balance_after + Signed(shown.rows[j])
       /\ ~shown.interrupted => Explained(shown.rows, StatementLimit, shown.balance)
  /\ shown.op = "VIEW_ACCOUNT_DETAILS" /\ SteadyClock =>
       shown.interrupted \/ shown.failed \/ Explained(shown.rows, 1, shown.balance)

(* The balance beside a summary of the last month in which handlers wrote  *)
(* for an account is what they wrote in earlier months, plus the net       *)
(* change, less what imported rows of the month put into it, plus what     *)
(* administrators entered in that month, which the net change does not     *)
(* contain: whatever the clock did, unless a handler came between the two  *)
(* SELECTs (db_build_monthly_summary).                                     *)
SignedSum(ids) == MapThenSumSet(LAMBDA i : Signed(transactions[i]), ids)
SummaryExplainsBalance ==
  shown.op = "MONTHLY_SUMMARY" =>
    LET own == RowsOf(transactions, shown.no)
        month(i) == Month(transactions[i].created_at)
        before == {i \in Native(own) : month(i) < shown.month}
        imported == {i \in own \ Native(own) : /\ month(i) = shown.month
                                              /\ transactions[i].type # "LEGACY"}
        byAdmin == {i \in own : /\ month(i) = shown.month
                                /\ transactions[i].type \in {"ADMIN_CREDIT", "ADMIN_DEBIT"}}
    IN  ~shown.interrupted /\ (\A i \in Native(own) : month(i) <= shown.month) =>
          shown.balance = SignedSum(before) + shown.net_change
                            - SignedSum(imported) + SignedSum(byAdmin)

(* The dashboard's total is the sum of every row the handlers wrote,       *)
(* transfers cancelling out and imported rows left aside, and there is an  *)
(* account with the highest balance, which the total lies above and the    *)
(* number of accounts times it does not, unless a handler came between the *)
(* two SELECTs (db_build_system_summary).                                  *)
DashboardAgrees ==
  shown.op = "ADMIN_DASHBOARD" /\ ~shown.report.interrupted =>
    LET counts == shown.report
    IN  /\ counts.total_balance = SignedSum(Native(DOMAIN transactions))
        /\ ~shown.failed =>
             /\ Cardinality(shown.top) = IF counts.total_accounts = 0 THEN 0 ELSE 1
             /\ \A t \in shown.top :
                  /\ t[2] <= counts.total_balance
                  /\ counts.total_balance <= counts.total_accounts * t[2]

(* Whatever limit was asked for, the recent transactions are never more    *)
(* than MostRecent, none only if there are none, and no row stands twice.  *)
(* Unless the clock was set back, a row a handler wrote is among them only *)
(* below every later one: imported rows may push rows off the list, but    *)
(* never a later one before an earlier one (db_build_recent_transactions). *)
RecentIsRecent ==
  shown.op = "RECENT_TRANSACTIONS" =>
    /\ Len(shown.rows) <= MostRecent
    /\ shown.rows = <<>> => DOMAIN transactions = {}
    /\ \E ids \in [DOMAIN shown.rows -> DOMAIN transactions] :
         /\ \A k \in DOMAIN ids : shown.rows[k] = transactions[ids[k]]
         /\ \A j, k \in DOMAIN ids : j # k => ids[j] # ids[k]
         /\ SteadyClock =>
              \A k \in DOMAIN ids, i \in Native(DOMAIN transactions) :
                ids[k] \in Native(DOMAIN transactions) /\ ids[k] < i =>
                  \E j \in 1 .. k - 1 : ids[j] = i

(* A listing shows every account, in order, or is refused: never the part  *)
(* that fits (db_build_account_listing, append_formatted).                 *)
ListingComplete ==
  shown.op = "LIST_ACCOUNTS" =>
    \/ shown.listed = <<"ERR">> /\ Cardinality(DOMAIN accounts) > ListingRoom
    \/ /\ {shown.listed[k][1] : k \in DOMAIN shown.listed} = DOMAIN accounts
       /\ \A k \in 1 .. Len(shown.listed) - 1 :
            shown.listed[k][1] < shown.listed[k + 1][1]
===============================================================================
