# A verification development of the ATM management system

The program in `src/` is an ATM: a server in C that keeps accounts and their
transactions in a SQLite file and answers requests over TCP, and a menu-driven
client. This directory holds TLA+ specifications of the server's logic, the
configurations that model-check them with TLC, and theorems about them that
TLAPS proves for every value of the constants.

## 1. The system

| Part | Source | State | Operations | Modelled in |
|---|---|---|---|---|
| session and dispatch | `server.c` | one `Session` per connection: customer number, admin flag, admin name | `handle_request`: 23 requests, each behind the session check it needs | `AtmServer`, `AtmCluster`; reports: `AtmReports`; the loop of `handle_client`: `AtmConnection` |
| authentication | `auth.c` | PIN hash, salt, `failed_attempts`, `is_locked` of an account; hash and salt of an admin | create account, login, admin login, change admin password, seed the first admin | `AtmServer`, `AtmCluster` |
| account operations | `account.c` | balance, transaction rows | deposit, withdraw, transfer, admin credit and debit, lock, unlock, edit, delete | `AtmServer`, `AtmCluster` |
| SQL helpers | `database.c` | the SQLite connection, its open transaction | begin, commit, rollback, read and update a row, insert a transaction row | `AtmTables`, `AtmCluster` |
| several processes on a file | `main.c` (path argument), `database.c` (busy timeout) | the write lock, committed and uncommitted tables | any interleaving of statements, failures, process ends | `AtmCluster` |
| startup, migration | `database.c`, `auth.c`, `main.c` | `accounts.dat`, `transactions.txt`, how far an import is | import at start if the table is empty, seed the first admin | `AtmMigration` |
| reports | `account.c` | none (they read) | statements, summaries, details, dashboard, listings | `AtmReports` |
| connections | `main.c`, `network.c`, `server.c` | the listening and the accepted socket | accept, serve to the end, close | `AtmConnection` |
| framing | `protocol.c` | bytes in flight | length prefix, partial reads and writes | `AtmFraming` |
| client | `client.c` | menu position, socket, the request it waits for | requests and replies | `AtmConnection` |
| parsing, clock | `utils.c` | none | trim, parse, time stamps | trim: `AtmServer`; clock: `AtmReports` |
| SHA-256 | `sha256.c` | `Sha256Ctx` | hash, salt | absorption and padding: `AtmSha256`; the rest idealised |

How they interact: a client sends one framed request and waits for one framed
reply. The server accepts one connection, serves it until it ends, then accepts
the next; all its state besides the session is in the database. A handler checks
the session, then calls one `db_...` function, which runs SQL statements, most
within `BEGIN IMMEDIATE ... COMMIT`. Nothing keeps a second server process from
opening the same file on another port: path and port are arguments, the
connection has a busy timeout of 5 seconds and the code handles a busy database.

What is hard: a handler runs several statements, each of which may fail and
between any two of which the process may end; two tables say the same thing
twice (a balance, and the rows that add up to it) and two rows say the same
transfer; a renumbering or deletion has to touch every place a number stands in;
a few decisions (login, deletion) are taken on a row read before the transaction
that acts on it; locks, failed attempts, sessions and renumbering meet. Around
that: client and server keep two records of who is logged in, and replies get
lost; one client at a time is served, and a dead peer can end the server; an
import of old files runs row by row outside a transaction, may stop anywhere
without a word and may meet another process; reports read in two steps and sort
by a local time of day that goes back once a year.

What makes each part correct: the ledger explains every balance, transfers have
two sides, no row names an account that is gone, history is only added to; three
wrong PINs lock and only an administrator unlocks; a session is one person's;
refusals and failures change nothing and leave no transaction open; every
request is answered; the menu a user sees is the session the server has; money
moves once per request; messages arrive whole and in order; an import only adds,
and each line at most once; a report agrees with the ledger it was made from.

## 2. The modules

- `AtmTables` - the two tables and a session as values; every SQL statement of
  the handlers as an operator from a table to a table, and the row an import makes
  of a line of `transactions.txt` (`LegacyTransaction`: no counterparty, no balance,
  the line's time stamp); the predicates that relate the tables (`RunningTotals`, `BalanceIsTotal`, `LinkedRowsPaired`,
  `RowsNameAccounts`). `AtmServer`, `AtmCluster`, `AtmMigration`, `AtmReports` and, for the
  session, `AtmConnection` share it.
- `AtmServer` - one server process, one step per request. Variables `accounts`,
  `transactions`, `nextId` (AUTOINCREMENT), `admins`, `session`. Actions have the
  names of the requests; `LOGIN` is two actions, for the right PIN and for a
  wrong one. A refused, failed or read-only request changes nothing and is
  a stuttering step. `Logout` also stands for the end of a connection and for a
  restart, which leave the tables and reset the session.
- `AtmBank` - what the server promises: money, PINs, strikes, admin keys and who
  stands at the counter, with no hash, salt or row. `AtmServer!Bank` maps to it:
  a PIN opens an account if its hash with the stored salt is the stored hash,
  a password admits an admin likewise.
- `AtmCluster` - the same handlers statement by statement, for any set of
  processes on one file. `pc` is where a process stands (`look`: the read before
  any transaction, `write`: a single UPDATE or INSERT, `begin`, `plan`: the reads
  and checks inside the transaction, `execute`: its statements, one at a time);
  `work` holds the tables as the open transaction sees them. `Fail` is any
  statement that returns an error, `Crash` the end of the process and a new start,
  `BusyTimeout` the 5 seconds.
- `AtmConnection` - clients (`menu`, `account`, `awaiting`), connections (`sent`,
  `answer`: the request and the reply under way), the listen queue (`backlog`) and
  the server (`serving`, `at`, `session`, `doing`, `result`). `Accept`, `Receive`,
  `Handle`, `SendLength`, `SendText` are the steps of `main`, `handle_client` and
  `send_message`; `BrokenPipe` is SIGPIPE at the second send to a peer that is gone;
  `Send`, `SeeReply`, `LoseConnection`, `Quit`, `Abandon` are the client. Of a handler only
  the session and the fact that money moved are kept. The last six variables
  (`moves` to `deaths`) are a history for the properties.
- `AtmFraming` - one direction of a connection: `Write` and `Read` are single calls of
  `send` and `recv` that take any part of what there is; `part`, `left` and `buffer` are where
  `receive_message` stands. `AtmChannel` is what it promises: a queue of whole messages
  that may end. `AtmFraming!Channel` maps to it.
- `AtmMigration` - a start of a process: `CountAccounts`, `ImportAccount`,
  `CountTransactions`, `ImportTransaction` and its skips, `CountAdmins`, `InsertAdmin`, one step per
  statement; `FailImport` is any of them failing, which `db_open` does not look at.
  `End` is the end of the process anywhere. Processes that serve create, fill, renumber
  and delete accounts meanwhile.
- `AtmReports` - the reports as one or two SELECTs (`reading` holds what the first one
  found, `shown` the report just made) among handlers of other processes, with the clock
  `now` that moves on or is set back. `ImportTransaction` is one line of an import between them: its
  row has no balance ("n/a" in a statement), any of the five types an import writes and
  the time stamp of the file, before, among or after those of the clock, and moves no
  money. An imported account comes with balance 0, as a new one does, and is
  `CreateAccount` (a record of `accounts.dat` is taken to have a positive number). An import may come at any time (a process that counted the empty table
  long ago), stop anywhere and repeat lines, as `AtmMigration` allows; which lines it
  writes is the subject of that module.
- `AtmSha256` - `hash_input` put together from its parts, and `Sha256Ctx` byte by
  byte, with the code's sizes.
- `AtmTablesProofs` - lemmas about the table operators; `AtmServerProofs` - the
  invariants and action properties of `AtmServer`, and that it implements `AtmBank`;
  `AtmClusterProofs` - the invariants of `AtmCluster`, and that one process of it implements
  `AtmServer`; `AtmConnectionProofs`, `AtmMigrationProofs`, `AtmFramingProofs`, `AtmReportsProofs`,
  `AtmSha256Proofs` - the theorems about the module each is named after.
- `MCAtm...` - constants for TLC.

A definition named `Slip...` is the one after it with a plausible mistake in it. No
specification uses it; put in the place of the original it makes a property fail,
which shows that the property has something to say.

### Abstractions

- Amounts and balances are natural numbers of cents; the code uses doubles.
- A hash is a collision-free function of its input; salts come from a set.
- Customer names are left out, and time stamps appear in `AtmReports` and
  `AtmMigration` only: no handler that changes anything reads them back. A month is a
  function of a time. Reports leave out names, locks and layout.
- `Trim` stands for `trim_whitespace` of the copy that `db_change_admin_password` makes.
- In `AtmConnection` any request may be refused; TCP keeps order within a connection, a
  closed connection delivers what was sent before, and whether a send to a peer that
  is gone succeeds, fails or raises SIGPIPE is a choice.
- In `AtmFraming` a byte is a digit below `Base` and the length has `LengthBytes` of them;
  the code has 256 and 4.
- A line of `transactions.txt` is unreadable or has its four fields; time stamps tell the
  lines apart. `AtmMigration` leaves out transfers, which are two entries to it.
- `AtmServer`, `AtmBank` and `AtmCluster` start from an empty database, with no imported
  rows: `LedgerExplainsBalance` and `DatabaseAgrees` speak of ledgers that handlers alone
  have written. What becomes of them on a migrated file is `NativeLedgerExplainsBalance` of
  `AtmMigration`, and the reports of `AtmReports` are judged on such files too.
- In `AtmSha256` the state of the hash is the sequence of blocks compressed.
- A request whose arguments do not parse or pass the first checks changes
  nothing. `AtmServer` offers some of those values (zero amounts and numbers,
  a three-digit PIN, short passwords); `AtmCluster` only offers requests that
  reach the database.
- SQLite is modelled from what the code asks of it: serialised write
  transactions, committed reads outside them, the primary key and the foreign key
  on `transactions.account_no`.
- `MaxTransactions` bounds the rows ever written (the id counter); a handler that would
  pass it is refused. The other bounds: `MaxMoves` and `MaxAbandoned` (requests that move
  money, clients ended while they wait), `MaxMessages`, `MaxStarts`, `LastStamp` and
  `MaxSteps` (the latest time, how often the clock is set back).

## 3. The runs

| Run | Instance | Question |
|---|---|---|
| `bank_ledger` | numbers 0..3, amounts 0 and 1, 4 rows, one PIN | do money movements, renumberings, deletions and reuse of numbers, in every order, keep balances, rows, links and session in step, and implement `AtmBank`? |
| `bank_lockout` | 2 accounts, 3 PINs (one malformed), 2 salts, 5 passwords, one admin of two names | do PINs, attempts, locks, salts and passwords admit exactly whom they should, and implement `AtmBank`? |
| `cluster_one` | 1 process, 3 numbers, 2 PINs, 2 passwords, 3 rows | do a handler's statements, with failures and crashes in between, amount to the one step of `AtmServer`? |
| `cluster_two` | 2 processes, 3 numbers, 3 rows, exchanged by symmetry | do committed tables always agree, is what is committed one request as a whole, and does no process that has answered hold a transaction? |
| `cluster_race` | 2 processes, 1 number (an EDIT changes the PIN), 2 PINs, no rows | do lock and failed attempts stay consistent through every race, and is every request answered? |
| `connection` | 2 clients, queue of 1, 1 account, 1 admin, 2 movements, 1 client ended while waiting | do menu and session agree, does money move once per request, what takes the server down, and is every wait ended? |
| `framing` | messages of 0, 1, 2, 3, 5 and 9 bytes, buffer of 3, two-byte length, 4 messages | do messages arrive whole, in order and once however the bytes are cut up, and does one that is too long end the connection? |
| `migration` | 2 processes, 3 starts, 2 records, 5 lines (one unreadable, one of an unknown account), 2 admin names, 3 rows | what of the old files is in the tables after any failures, ends and overlapping starts? |
| `reports` | 2 accounts, 3 rows, 3 lines of an old file, statement of 2 rows, 2 months and those of the lines, the clock set back once | do the reports agree with the ledger, imported rows among it? |
| `sha256` | 64, 8 and 512 bytes as in the code, passwords of 0 to 130 bytes after user names of 0, 1, 440 and 505 | is what is compressed the padded message? |
| `cluster_delete` | 2 processes, 1 account | violated: see the findings |
| `cluster_lock` | 2 processes, 1 account | violated: see the findings |

Why the bounds are enough for the cases that matter: three numbers let a transfer's
counterparty be renumbered to a free number and let a number be reused; four
rows hold a deposit, a two-row transfer and a later withdrawal, so running
totals have a middle; two PINs and two salts distinguish a renumbering that
keeps the old salt; two processes suffice for every race of two statements.
In `cluster_race` no rows may be written (deposits and withdrawals are refused
inside their transaction), because the run is about the account row; money
is the subject of `cluster_two`.

`cluster_one` and `cluster_two` have three rows and three numbers: a deposit, the two rows
of a transfer, and with the third number a renumbering of either side of it (the link of
the other side is moved) and a deletion of the emptied side (the link is cut). Two
constraints of `MCAtmCluster` keep them within minutes by leaving out mixtures, never a
statement, a failure or a crash of a handler. `OneThingAtATime` (`cluster_one`): passwords
change while there is no account, wrong PINs and locks come before the second row, and the
third number is used only to renumber to and to delete, after the last row. `MoneyOnly`
(`cluster_two`): nobody locks or unlocks, the third number is only the new number of
an EDIT, and a history ends when an account has it. TLC checks the step into a state
before a constraint drops it, so the renumbering itself is checked, with both processes
anywhere.

In `connection` one client is served while the other waits in the queue, and a third
would find it full. In `framing` the messages lie below, at (3) and above the limit of
the buffer, one is too long for the length field (9, the base is 3), and the socket holds 6
bytes, so that a message and the length of the next share a read. In `migration` a start may stop, another complete the
import and a third find everything deleted; two starts overlap in any way. In
`reports` three rows on one account are more than a statement shows, a transfer
puts two rows into one second, the listing has room for one account of two, and
the limits asked for are -1, 0, 1 and 3 with 2 the most and 1 the default. The three
lines of the old file are a deposit before all rows of the clock, a sent transfer at
its last second and one of an unknown type after it; their amount (2) is not that of
the handlers (1), so that a sum which takes in one for the other is noticed. In
`sha256` the lengths pass each boundary of a block and of its length field more
than once and fill the input to the last byte.

`SYMMETRY` is used in `cluster_two` and `migration`, which check invariants and
action properties only; the processes run the same program and none is singled out.

Deadlock is checked in every run in which a server may always receive another
request. `framing`, `migration` and `sha256` may stop: the connection is over, the starts
are used up, the digest is made.

### Fairness

`FairSpec` of `AtmCluster` assumes weak fairness of `Advance(s)`: a process inside
a handler takes its next statement. Handlers are straight-line code and each SQLite
call returns, at the latest when the busy timeout ends. No fairness is assumed of
`Begin` or `Write` themselves: a process whose competitors always hold the
lock ends in `BusyTimeout`, and the request is then answered with an error. Nothing is
assumed of clients, failures or crashes.

`FairSpec` of `AtmConnection` assumes weak fairness of the server's steps (every call
returns but `accept` and `recv`, which are enabled only when there is something to
return), of a client that sees the reply it waits for, and of one that notices the
end of its connection. Nothing is assumed of users, crashes and restarts.
`FairSpec` of `AtmFraming` assumes it of `Write`, `Read` and `ReadEnd`, the loops of `write_all` and
`read_all`; nothing is assumed of the caller of `send_message`.

### What the properties say

`AtmServer`: `LedgerExplainsBalance`, `TransfersPaired`, `RowsNameLiveAccounts`,
`SessionNamesLiveRow`, `LockMatchesFailures` (invariants); `AuditTrailIntact`,
`LockClearedOnlyByAdmin` (steps); `ImplementsBank` (refinement).
`AtmCluster`: `DatabaseAgrees`, `NoIdleTransaction`, `LockMatchesFailures`,
`EveryRequestAnswered`, `ImplementsServer`; `WholeRequests` (a step that changes what is
committed is one request as a whole, its checks still true, or a single statement that touches no
balance and no row). Between processes a wrong PIN may go uncounted (`auth.c:250`): no
property objects to that, though `README.md:255-256` promises a lock after three.
`AtmConnection`: `MenuMatchesSession` (two records of a login never differ between
requests); `MovedOncePerRequest` (what moved beyond what users were told is covered by
the replies they lost or wait for); `DeathsFromAbandonedReplies` (only a client ended
while it waited can take the server away, once); `EveryRequestEnds` (liveness: a wait ends
unless one other client stays for good, the limitation of `README.md:280`).
`AtmFraming`: `ImplementsChannel`, `EveryMessageArrives`.
`AtmMigration`: `NativeLedgerExplainsBalance` (balances are explained by the rows of
handlers alone: imported rows carry no total and the balance of the file is
dropped), `ImportComplete`, `LinesImportedOnce`, `SingleAdminServes`, `ImportOnlyAdds`. The
exceptions they name are real: a failed or interrupted import is never made up for,
a line of an unknown account ends the import silently, two overlapping starts may
import lines twice or seed two admins.
An import of the whole file again, after all rows were deleted, is in the model and breaks
none of them: there is still one row for each line.
`AtmReports`: `StatementAddsUp` (the lines that show a balance are consecutive rows of the
handlers, wherever imported lines stand between them, and the first of them is the current
balance; an account with imported lines only has none), `SummaryExplainsBalance` (the net change
contains imported deposits, withdrawals and transfers and leaves out what administrators
entered: the property says what to take away and to add),
`DashboardAgrees` (`total_balance` is the sum of the rows the handlers wrote, not of all rows),
`RecentIsRecent` (imported rows may push rows off the list, but no later row before an
earlier one), `ListingComplete`, each with what it excepts: a write between two
SELECTs, a clock set back, a second SELECT that fails unnoticed.
`AtmSha256`: `HashesPaddedMessage`, against the padding of FIPS 180-4.
Each module has one `TypeOK`, which also
carries the bounds that are not obvious (a balance is a natural number, failed
attempts end at three).

### Findings

Both need two server processes on the same file. With one process they do not
occur: `cluster_one` shows that its handlers are as good as atomic and
`bank_lockout` that `LockClearedOnlyByAdmin` then holds.

1. `cluster_delete`: `db_delete_account` reads the balance (`account.c:772`) before it
   begins its transaction (`account.c:788`) and does not look again. A deposit
   that commits in between is deleted with the account, against "Account balance
   must be zero before deletion." (`account.c:784`).
2. `cluster_lock`: `db_login` reads the row (`auth.c:206`) and later writes the lock
   columns from what it read (`auth.c:266`). A lock an administrator sets in
   between is cleared by the customer, against `README.md:255-256`.

## 4. The proofs

Every invariant, action property and refinement that a passing run checks is also a theorem,
for all constants that satisfy the named assumptions of the module:

| Module | Theorem | Says |
|---|---|---|
| `AtmServerProofs` | `TypeCorrect` | `Spec => []TypeOK` |
| | `LockCorrect` | `Spec => []LockMatchesFailures` |
| | `SessionCorrect` | `Spec => []SessionNamesLiveRow` |
| | `LedgerCorrect` | `Spec => []LedgerExplainsBalance` |
| | `PairsCorrect` | `Spec => []TransfersPaired` |
| | `NamesCorrect` | `Spec => []RowsNameLiveAccounts` |
| | `LockClearing` | `Spec => LockClearedOnlyByAdmin` |
| | `AuditTrail` | `Spec => AuditTrailIntact` |
| | `ServerImplementsBank` | `Spec => ImplementsBank` |
| `AtmClusterProofs` | `TransactionsEnd` | `Spec => []NoIdleTransaction` |
| | `TypeCorrect` | `Spec => []TypeOK` |
| | `LockCorrect` | `Spec => []LockMatchesFailures` |
| | `DatabaseCorrect` | `Spec => []DatabaseAgrees` |
| | `RequestsAreWhole` | `Spec => WholeRequests` |
| | `OneServerImplements` | `Spec => ImplementsServer`, for one process |
| | `OneServerDeletesEmpty` | `Spec => DeletedOnlyWhenEmpty`, for one process |
| | `OneServerKeepsLocks` | `Spec => LockClearedOnlyByAdmin`, for one process |
| `AtmConnectionProofs` | `TypeCorrect` | `Spec => []TypeOK` |
| | `MenuCorrect` | `Spec => []MenuMatchesSession` |
| | `DeathsBounded` | `Spec => []DeathsFromAbandonedReplies` |
| | `MoneyMovesOnce` | `Spec => []MovedOncePerRequest` |
| `AtmMigrationProofs` | `TypeCorrect` | `Spec => []TypeOK` |
| | `ImportCorrect` | `Spec => ImportOnlyAdds` |
| | `NativeLedgerCorrect` | `Spec => []NativeLedgerExplainsBalance` |
| | `AdminCorrect` | `Spec => []SingleAdminServes` |
| | `LinesCorrect` | `Spec => []LinesImportedOnce` |
| | `CompleteCorrect` | `Spec => []ImportComplete` |
| `AtmFramingProofs` | `TypeCorrect` | `Spec => []TypeOK` |
| | `FramingImplementsChannel` | `Spec => ImplementsChannel` |
| | `LengthFieldCorrect` | `FieldValue(LengthField(n)) = n` for the length `n` of any message that fits |
| `AtmReportsProofs` | `TypeCorrect` | `Spec => []TypeOK` |
| | `StatementsCorrect` | `Spec => []StatementAddsUp` |
| | `DashboardCorrect` | `Spec => []DashboardAgrees` |
| | `SummaryCorrect` | `Spec => []SummaryExplainsBalance` |
| | `ListingCorrect` | `Spec => []ListingComplete` |
| | `RecentCorrect` | `Spec => []RecentIsRecent` |
| `AtmSha256Proofs` | `TypeCorrect` | `Spec => []TypeOK` |
| | `PaddingCorrect` | `Spec => []HashesPaddedMessage` |

### Assumptions

- `AtmServer`: numbers, PINs and amounts are integers, the empty name is no admin's,
  trimming stays within the passwords, the bound on rows is a natural number.
- `AtmCluster`: numbers and amounts are integers, the bound is a natural number, nobody is
  called `NoServer`. The set of processes is any set. Three theorems name their
  hypothesis: the set has one member.
- `AtmConnection`: a finite set of clients, account numbers are positive, the empty name is
  no admin's, nobody is called `NoClient`, the queue has room for one.
- `AtmMigration`: account numbers are positive, amounts are integers, both files have an
  end (`FilesAreFinite`), and a line's time stamp is its own and older than any row a
  handler writes (`FileIsOld`: it tells the lines apart, which the properties count).
- `AtmFraming`: the base is at least 2, the length field, the buffer and the socket hold at
  least a byte, and messages contain no 0.
- `AtmReports`: account numbers and amounts are positive, the statement and the listing
  have room for a row, the default limit lies between 1 and the greatest, there is a time, and
  months are integers; amounts, time stamps and months of the lines of the old file are
  integers (`LinesAssumption`). Nothing ties the months to the order of time, and
  nothing a line's time stamp to the clock.
- `AtmSha256`: the length field is shorter than a block and has a byte, the salt fits into
  `hash_input`, the lengths of names and passwords are natural numbers.

### The arguments

**`AtmTablesProofs`** says what inserting, moving, relinking and deleting rows does to each
of the four predicates of `AtmTables`, independently of any state machine, so that the
same lemmas serve `AtmServer`, `AtmCluster` and `AtmMigration`.

**`AtmServer`.** The inductive invariant is `TypeOK /\ LockMatchesFailures /\
SessionNamesLiveRow /\ TablesAgree`, where `TablesAgree` is the conjunction of the four
predicates. They lean on each other: a deletion keeps `BalanceIsTotal` for a number's next
owner only because no row of that number is left (`RowsNameAccounts`), and a
renumbering keeps `RunningTotals` only because the new number has no rows of its own.
`SessionNamesLiveRow` needs that a customer session and an admin session exclude
each other: only then can an edit or a deletion not pull the account from under the
session. `TypeOK` gives that ids grow, which makes a new row the latest of its account.
The action properties follow step by step from `TypeOK`: a LOGIN that meets a lock is
disabled, and only new rows have ids from `nextId` on. The refinement names the five
functions of the mapping (`Funds`, `Opening`, `Strikes`, `Keys`, `Who`), shows that a step which
leaves a column alone leaves its function alone, and maps each action to one action of
`AtmBank`; it needs `LockMatchesFailures` (an account that is not locked has fewer than three
strikes) and `SessionNamesLiveRow` (an admin session is that of a present admin, a
customer stands at an open account).

**`AtmCluster`.** Four parts. `LockHeldInside`: the write lock is held by exactly the process
inside a transaction, so each way out (COMMIT, refusal, failed statement, crash)
reaches `writer' = NoServer`. `Sound`: the committed tables are well typed and agree.
`Remembered`: the row a LOGIN goes by, however old, was not locked and so had fewer than three
failed attempts; what LOGIN writes from it fits together even when it is stale.
`OnTheWay`: in the middle of a transaction the tables do not agree, so the invariant says
what the statements still to run will make of them. `Promise(statements, d, r, d0)`:
wherever the statements stop, the tables are well typed, and if all of them
succeed, the request `r` has had its outcome on the tables `d0` the transaction
started from. One statement takes a promise to the promise of the rest; when none is
left, COMMIT publishes the outcome, and that an outcome keeps `Sound` is the content of
`AtmTablesProofs`. Nothing says so of two transactions, because the lock keeps `db` equal to
`d0` until the end. `WholeRequests` is what these promises come to, for any number of
processes: no update of a balance is lost, and the balance a withdrawal or transfer checks
is the one it takes the money from. Of a deletion it says only that the rows go
together; that the balance was zero is checked before the transaction, which is the
first finding.

With one process two more facts are invariant: `Fresh` (what was read before the write or
the transaction is still so) and `AdminsKnown` (an admin session is that of an admin in the
table). With them each statement of `AtmCluster` is one step of `AtmServer` or none. With two
processes `Fresh` is false, which is what the two findings show.

**`AtmConnection`.** The inductive invariant `IInv` says where the request of the client that
is served may be: `Unhandled` (not sent, or in the connection), `Received`, `Handled` (the reply
is being sent) or `Answered` (the reply is in the connection). In the first two the menu is
already that of the session; in the last two it is the menu the reply will open, for
the session has changed and the user does not know yet. A connection in the queue is in the
main menu and owed nothing. `TypeOK` needs the same invariant: that a client which waits is
served by a server working on its request and no other is what keeps an answer from
lying in a connection nobody reads. The other two invariants are counts, each
strengthened by the requests under way: `DeathsAllowed` adds the clients that have ended and
whose request the server still works on (each may yet end it), `Accounted` adds the
requests that have moved nothing yet (`Unmoved`) and those that have moved money without the user
knowing (`Untold`). `Accounted` needs `OneAtATime`: a client that has ended leaves one request
behind, never one in work and another in its connection.

**`AtmMigration`.** `Typed` adds to `TypeOK` the columns of a row, which the handlers' updates
keep. `Alone`: unless starts overlapped, one process is starting and none but the first
inserts an admin. `LinesOnce`: unless they overlapped, a line has at most one row and
those that an import has yet to read have none. `Progress`: as long as nobody served, failed or
overlapped, the accounts are those of the file up to the line the import is at,
and the rows likewise up to the first line the foreign key refuses. `ImportOnlyAdds` and
`NativeLedgerExplainsBalance` need none of this: a row the import adds carries no
total, so it goes between the native rows of its account without disturbing them.

**`AtmFraming`.** The invariant says that there is a stream of bytes, the frames of all
messages ever put one behind the other, and that what is in the socket and what is unsent are
consecutive windows of it; the receiver stands at the message after those received, and
its buffer is the window before the socket's. The stream is no variable of the model: a
`SendMessage` extends it, `Close` forgets its end. From there a length that has been read
completely is the length of the next message, and its text ends where the next frame
begins. Each step is then one of `AtmChannel` or none. That a length survives its
encoding is `LengthFieldCorrect`: after `k` bytes `ntohl` has the number without its lowest
`LengthBytes - k` bytes.

**`AtmReports`.** What handlers make of the tables is `Good`: `Typed`, the `Ledger` of `AtmTables`, and
`Books` (a balance is the sum of what the rows of its account have moved, and all balances together
are the sum of all rows). With imported rows among them it is false of the whole table and
true of its native part, the rows that carry a balance: `Kept` is `Good` of `NativeTable` and
`Held` (types and accounts) of everything. A handler's row is the latest native row whatever
lies before it; moving, cutting and deleting rows commutes with leaving out the imported
ones; a line of an import leaves the native part alone. So every handler and every import keeps
`Kept`, whatever the clock does; `InTime` (the time stamps of native rows stand in the order of ids
and none lies ahead) holds until the clock is set back. `Reading` says
that what the first SELECT has read is still so unless the report is marked as interrupted.
A report is then judged against the tables it is made from. The proofs rest on two
small theories. Sums: `Total` over a finite set is the `MapThenSumSet` of the reports, and
adding, changing, joining and renaming its members do to it what they should. Orders: a
finite set that a relation orders linearly has exactly one `Ordered` sequence, so an ORDER BY
has one answer, LIMIT takes the first rows of it, and under `InTime` the native ones among
these are the highest native ids, each following the next in the native ledger. A sum over all rows
is the sum over the native ones and the sum over the imported ones (`TotalSplit`), which is what
`SummaryExplainsBalance` writes out.

**`AtmSha256`.** Until the digest is made, `Absorbed` holds: byte `B * (n - 1) + k` of the input is byte
`k` of block `n`, the rest of the input so far is at the beginning of the buffer, and the bits
counted are those of the blocks. `sha256_final` adds one block or two; that these bytes,
written one behind the other, are those of the padded message is arithmetic of
division (`SamePadded`), for which the recursive definition of `FlattenSeq` is given a
closed form (`FlattenIs`), and the number of zeros in `Padded` is shown to be unique.

The library's induction theorems take an operator as a parameter, which the provers cannot
use; inductions over numbers and finite sets are therefore made with a smallest
counterexample (`LeastNumber`, `SmallestSet`), and a recursive function is compared with
a closed form of it.

Before it was proved inductive, each of these invariants was an invariant of a TLC run: that of
`AtmCluster` on the instances of `cluster_two` and of `cluster_lock` with a second number, `Fresh`
and `AdminsKnown` on that of `cluster_one`, the others on the instance of their module's run.

### Only model-checked

- `EveryRequestAnswered`, `EveryRequestEnds`, `EveryMessageArrives`: liveness under fairness is outside
  what the prover decides.
- `DeletedOnlyWhenEmpty` and, in `AtmCluster`, `LockClearedOnlyByAdmin`: theorems for one
  process, violated with two (the findings).

## 5. Not modelled, and the plan

Next: `WholeRequests` with the sessions (whose request may be committed, and that a LOGIN of
several processes opens an account only to a PIN that was its own when it was read), and
the same of `AtmMigration` while other processes serve.

Left out for good:

- Money as doubles: TLC has no floating point. Sums of cents may leave a residue
  that is not 0.0 and keep an account from being deleted (`account.c:782`), and `parse_double`
  accepts `inf` and `nan` (`utils.c:84`); both are listed as hazards without a property.
- Several processes and sessions at once: that a session may outlive its account when
  another process deletes or renumbers it (`server.c:158`) is a hazard no document
  promises anything about. `AtmCluster` contains such runs.
- Reading lines and numbers (`utils.c`), splitting a request into lines
  (`server.c:26-39`), the wording and layout of replies: data that no property is about. Texts
  that are cut (an administrator's name at 63 characters, a new password at 127)
  have no length in the models.
- The 64 rounds of the compression function of SHA-256, the source of salts.
- The logger (nothing reads it), the build, the test script, the screenshots.
