---------------------------- MODULE AtmClusterProofs ----------------------------
(***************************************************************************)
(* AtmCluster, for any number of server processes: the write lock is held  *)
(* exactly by the process that is inside a transaction; the tables, as     *)
(* committed and as the open transaction has them, are well typed; and     *)
(* what is committed agrees.                                               *)
(*                                                                         *)
(* A transaction is followed by what its remaining statements promise:     *)
(* wherever it stops, no table is ill-typed, and if they all succeed the   *)
(* request has had the outcome its handler is for.                         *)
(*                                                                         *)
(* The last part is about one process: it implements AtmServer.            *)
(***************************************************************************)
EXTENDS AtmCluster, AtmTablesProofs

Places == {"idle", "look", "write", "begin", "plan", "execute"}

(* Inductive: a process that answers is idle and has let go of the lock,   *)
(* and no other process moved.                                             *)
LockHeldInside == pc \in [Servers -> Places] /\ NoIdleTransaction

LEMMA StaysOutside ==
  ASSUME LockHeldInside, NEW s \in Servers, NEW place \in {"idle", "look", "write", "begin"},
         pc[s] \notin {"plan", "execute"}, pc' = [pc EXCEPT ![s] = place],
         UNCHANGED writer
  PROVE  LockHeldInside'
  BY DEF LockHeldInside, NoIdleTransaction, Places

LEMMA StaysInside ==
  ASSUME LockHeldInside, NEW s \in Servers, NEW place \in {"plan", "execute"},
         pc[s] \in {"plan", "execute"}, pc' = [pc EXCEPT ![s] = place],
         UNCHANGED writer
  PROVE  LockHeldInside'
  BY DEF LockHeldInside, NoIdleTransaction, Places

LEMMA LetsGo ==
  ASSUME LockHeldInside, NEW s \in Servers, Answer(s),
         writer' = IF writer = s THEN NoServer ELSE writer
  PROVE  LockHeldInside'
<1>1. pc' = [pc EXCEPT ![s] = "idle"]
  BY DEF Answer
<1> QED
  BY <1>1, NoServerAssumption DEF LockHeldInside, NoIdleTransaction, Places

LEMMA RollbackLetsGo ==
  ASSUME LockHeldInside, NEW s \in Servers, Answer(s), Rollback(s)
  PROVE  LockHeldInside'
<1>1. writer' = IF writer = s THEN NoServer ELSE writer
  BY DEF Rollback
<1> QED
  BY <1>1, LetsGo

LEMMA NextLockHeld ==
  ASSUME LockHeldInside, [Next]_vars
  PROVE  LockHeldInside'
<1>1. ASSUME NEW s \in Servers, Receive(s)
      PROVE  LockHeldInside'
  <2>1. PICK r : pc' = [pc EXCEPT ![s] = FirstStep(r.op)]
    BY <1>1 DEF Receive
  <2>2. FirstStep(r.op) \in {"look", "write", "begin"}
    BY DEF FirstStep
  <2> QED
    BY <1>1, <2>1, <2>2, StaysOutside DEF Receive, database
<1>2. ASSUME NEW s \in Servers, AdminLogin(s) \/ Logout(s)
      PROVE  LockHeldInside'
  BY <1>2 DEF AdminLogin, Logout, database, LockHeldInside, NoIdleTransaction
<1>3. ASSUME NEW s \in Servers, Look(s)
      PROVE  LockHeldInside'
  <2>1. PICK place \in {"idle", "write", "begin"} : pc' = [pc EXCEPT ![s] = place]
    BY <1>3 DEF Look, Answer
  <2> QED
    BY <1>3, <2>1, StaysOutside DEF Look, database
<1>4. ASSUME NEW s \in Servers, Write(s)
      PROVE  LockHeldInside'
  BY <1>4, StaysOutside DEF Write, Answer
<1>5. ASSUME NEW s \in Servers, Begin(s)
      PROVE  LockHeldInside'
  BY <1>5, NoServerAssumption DEF Begin, LockHeldInside, NoIdleTransaction, Places
<1>6. ASSUME NEW s \in Servers, Plan(s)
      PROVE  LockHeldInside'
  <2>1. CASE Admissible(request[s], work)
    BY <1>6, <2>1, StaysInside DEF Plan
  <2>2. CASE ~Admissible(request[s], work)
    BY <1>6, <2>2, RollbackLetsGo DEF Plan
  <2> QED
    BY <2>1, <2>2
<1>7. ASSUME NEW s \in Servers, Execute(s)
      PROVE  LockHeldInside'
  <2>1. CASE Violates(Head(todo[s]), work)
    BY <1>7, <2>1, RollbackLetsGo DEF Execute
  <2>2. CASE ~Violates(Head(todo[s]), work)
    BY <1>7, <2>2 DEF Execute, LockHeldInside, NoIdleTransaction
  <2> QED
    BY <2>1, <2>2
<1>8. ASSUME NEW s \in Servers, Commit(s)
      PROVE  LockHeldInside'
  <2>1. writer = s
    BY <1>8 DEF Commit, LockHeldInside, NoIdleTransaction
  <2> QED
    BY <1>8, <2>1, LetsGo DEF Commit
<1>9. ASSUME NEW s \in Servers, BusyTimeout(s)
      PROVE  LockHeldInside'
  BY <1>9, StaysOutside DEF BusyTimeout, Answer, database
<1>10. ASSUME NEW s \in Servers, Fail(s) \/ Crash(s)
       PROVE  LockHeldInside'
  BY <1>10, RollbackLetsGo DEF Fail, Crash
<1>11. CASE UNCHANGED vars
  BY <1>11 DEF vars, local, database, LockHeldInside, NoIdleTransaction
<1> QED
  BY <1>1, <1>2, <1>3, <1>4, <1>5, <1>6, <1>7, <1>8, <1>9, <1>10, <1>11 DEF Next, Advance

(* Among any number of processes, whatever fails or crashes, a process     *)
(* that has answered holds no transaction open.                            *)
THEOREM TransactionsEnd == Spec => []NoIdleTransaction
<1>1. Init => LockHeldInside
  BY NoServerAssumption DEF Init, LockHeldInside, NoIdleTransaction, Places
<1>2. LockHeldInside /\ [Next]_vars => LockHeldInside'
  BY NextLockHeld
<1>3. LockHeldInside => NoIdleTransaction
  BY DEF LockHeldInside
<1> QED
  BY <1>1, <1>2, <1>3, PTL DEF Spec
-------------------------------------------------------------------------------
(* Where a transaction takes the tables.  The invariant of the processes   *)
(* is about tables as values: these are the conditions it is made of.      *)

(* The types of one state of the tables, committed or not.                 *)
Typed(d) ==
  /\ DOMAIN d = {"accounts", "nextId", "transactions"}
  /\ DOMAIN d.accounts \subseteq Positive(Numbers)
  /\ d.accounts \in [DOMAIN d.accounts -> AccountRows]
  /\ d.nextId \in 1 .. MaxTransactions + 1
  /\ DOMAIN d.transactions \subseteq 1 .. d.nextId - 1
  /\ d.transactions \in [DOMAIN d.transactions -> RowShape]

LocksAgree(accounts) ==
  \A a \in DOMAIN accounts :
    accounts[a].is_locked = 1 <=> accounts[a].failed_attempts = 3

(* What every committed state is.                                          *)
Sound(d) ==
  Typed(d) /\ LocksAgree(d.accounts) /\ Consistent(d.accounts, d.transactions)

(* path is what the first n of the statements make of d, none refused.     *)
Runs(statements, d, n, path) ==
  /\ path[0] = d
  /\ \A j \in 1 .. n : /\ ~Violates(statements[j], path[j - 1])
                       /\ path[j] = Effect(statements[j], path[j - 1])

(* However far the statements get from d, the tables stay well typed, and  *)
(* if they all succeed the request r has had its outcome on d0.            *)
Promise(statements, d, r, d0) ==
  \A n \in 0 .. Len(statements) : \A path :
    Runs(statements, d, n, path) =>
      /\ Typed(path[n])
      /\ n = Len(statements) => Outcome(r, d0, path[n])

(* What the arguments of a request with a transaction are.                 *)
Fits(r) ==
  /\ r.op \in TransactionOps
  /\ r.no \in Positive(Numbers)
  /\ IsEntry(r.op) \/ r.op = "TRANSFER" => r.amount \in Positive(Amounts)
  /\ r.op = "TRANSFER" => r.to \in Positive(Numbers) \ {r.no}
  /\ r.op = "EDIT_ACCOUNT" =>
       r.to \in Positive(Numbers) /\ r.pin \in Pins /\ r.salt \in Salts

-------------------------------------------------------------------------------
(* One statement at a time: the columns it writes, and that it keeps types. *)
LEMMA BalanceEffect ==
  ASSUME NEW d, Typed(d), NEW no, NEW value \in Nat
  PROVE  LET after == Effect(SetBalance(no, value), d)
         IN  /\ after.accounts = UpdateBalance(d.accounts, no, value)
             /\ after.nextId = d.nextId
             /\ after.transactions = d.transactions
             /\ Typed(after)
<1> DEFINE after == Effect(SetBalance(no, value), d)
<1>1. after = [d EXCEPT !.accounts = UpdateBalance(d.accounts, no, value)]
  BY DEF Effect, SetBalance
<1>2. /\ after.accounts = UpdateBalance(d.accounts, no, value)
      /\ after.nextId = d.nextId
      /\ after.transactions = d.transactions
      /\ DOMAIN after = DOMAIN d
  BY <1>1 DEF Typed
<1>3. /\ UpdateBalance(d.accounts, no, value) \in [DOMAIN d.accounts -> AccountRows]
      /\ DOMAIN UpdateBalance(d.accounts, no, value) = DOMAIN d.accounts
  BY DEF UpdateBalance, Typed, AccountRows
<1> HIDE DEF after
<1>4. Typed(after)
  BY <1>2, <1>3 DEF Typed
<1> QED
  BY <1>2, <1>4 DEF after

LEMMA PinEffect ==
  ASSUME NEW d, Typed(d), NEW no, NEW pin \in Pins, NEW salt \in Salts
  PROVE  LET st == [stmt |-> "pin", no |-> no, pin |-> pin, salt |-> salt]
             after == Effect(st, d)
         IN  /\ after.accounts = UpdatePin(d.accounts, no, PinHash(salt, pin), salt)
             /\ after.nextId = d.nextId
             /\ after.transactions = d.transactions
             /\ Typed(after)
<1> DEFINE st == [stmt |-> "pin", no |-> no, pin |-> pin, salt |-> salt]
           new == UpdatePin(d.accounts, no, PinHash(salt, pin), salt)
           after == Effect(st, d)
<1>1. after = [d EXCEPT !.accounts = new]
  BY DEF Effect
<1>2. ASSUME NEW a \in DOMAIN d.accounts
      PROVE  [d.accounts[a] EXCEPT !.pin_hash = PinHash(salt, pin), !.salt = salt]
               \in AccountRows
  <2>1. d.accounts[a] \in AccountRows /\ PinHash(salt, pin) \in Salts \X Pins
    BY DEF Typed, PinHash
  <2> QED
    BY <2>1 DEF AccountRows
<1>3. /\ new \in [DOMAIN d.accounts -> AccountRows]
      /\ DOMAIN new = DOMAIN d.accounts
  BY <1>2 DEF UpdatePin, Typed
<1> HIDE DEF new
<1>4. /\ after.accounts = new
      /\ after.nextId = d.nextId
      /\ after.transactions = d.transactions
      /\ DOMAIN after = DOMAIN d
  BY <1>1 DEF Typed
<1> HIDE DEF after
<1>5. Typed(after)
  BY <1>3, <1>4 DEF Typed
<1> QED
  BY <1>4, <1>5 DEF after, new

LEMMA AccountEffect ==
  ASSUME NEW d, Typed(d), NEW no \in Positive(Numbers), NEW row \in AccountRows
  PROVE  LET after == Effect([stmt |-> "account", no |-> no, row |-> row], d)
         IN  /\ after.accounts = InsertAccountRow(d.accounts, no, row)
             /\ after.nextId = d.nextId
             /\ after.transactions = d.transactions
             /\ Typed(after)
<1> DEFINE new == InsertAccountRow(d.accounts, no, row)
           after == Effect([stmt |-> "account", no |-> no, row |-> row], d)
<1>1. after = [d EXCEPT !.accounts = new]
  BY DEF Effect
<1>2. /\ new \in [DOMAIN d.accounts \union {no} -> AccountRows]
      /\ DOMAIN new = DOMAIN d.accounts \union {no}
  BY DEF InsertAccountRow, Typed
<1> HIDE DEF new
<1>3. /\ after.accounts = new
      /\ after.nextId = d.nextId
      /\ after.transactions = d.transactions
      /\ DOMAIN after = DOMAIN d
  BY <1>1 DEF Typed
<1> HIDE DEF after
<1>4. Typed(after)
  BY <1>2, <1>3 DEF Typed
<1> QED
  BY <1>3, <1>4 DEF after, new

LEMMA DeleteEffect ==
  ASSUME NEW d, Typed(d), NEW no
  PROVE  LET after == Effect([stmt |-> "delete", no |-> no], d)
         IN  /\ after.accounts = DeleteAccountRow(d.accounts, no)
             /\ after.nextId = d.nextId
             /\ after.transactions = d.transactions
             /\ Typed(after)
<1> DEFINE new == DeleteAccountRow(d.accounts, no)
           after == Effect([stmt |-> "delete", no |-> no], d)
<1>1. after = [d EXCEPT !.accounts = new]
  BY DEF Effect
<1>2. /\ new \in [DOMAIN d.accounts \ {no} -> AccountRows]
      /\ DOMAIN new = DOMAIN d.accounts \ {no}
  BY DEF DeleteAccountRow, Typed
<1> HIDE DEF new
<1>3. /\ after.accounts = new
      /\ after.nextId = d.nextId
      /\ after.transactions = d.transactions
      /\ DOMAIN after = DOMAIN d
  BY <1>1 DEF Typed
<1> HIDE DEF after
<1>4. Typed(after)
  BY <1>2, <1>3 DEF Typed
<1> QED
  BY <1>3, <1>4 DEF after, new

LEMMA RowEffect ==
  ASSUME NEW d, Typed(d), NEW row \in RowShape, d.nextId <= MaxTransactions
  PROVE  LET after == Effect(AddRow(row), d)
         IN  /\ after.accounts = d.accounts
             /\ after.nextId = d.nextId + 1
             /\ after.transactions = InsertTransaction(d.transactions, d.nextId, row)
             /\ Typed(after)
<1> DEFINE new == InsertTransaction(d.transactions, d.nextId, row)
           after == Effect(AddRow(row), d)
<1>1. after = [d EXCEPT !.transactions = new, !.nextId = d.nextId + 1]
  BY DEF Effect, AddRow
<1>2. /\ new \in [DOMAIN d.transactions \union {d.nextId} -> RowShape]
      /\ DOMAIN new = DOMAIN d.transactions \union {d.nextId}
  BY DEF InsertTransaction, Typed
<1> HIDE DEF new
<1>3. /\ after.accounts = d.accounts
      /\ after.nextId = d.nextId + 1
      /\ after.transactions = new
      /\ DOMAIN after = DOMAIN d
  BY <1>1 DEF Typed
<1> HIDE DEF after
<1>4. Typed(after)
  BY <1>2, <1>3, MaxTransactionsAssumption DEF Typed
<1> QED
  BY <1>3, <1>4 DEF after, new

(* The statements that rewrite or delete transaction rows.                 *)
LEMMA RowsEffect ==
  ASSUME NEW d, Typed(d), NEW st, NEW new,
         Effect(st, d) = [d EXCEPT !.transactions = new],
         DOMAIN new \subseteq DOMAIN d.transactions,
         new \in [DOMAIN new -> RowShape]
  PROVE  LET after == Effect(st, d)
         IN  /\ after.accounts = d.accounts
             /\ after.nextId = d.nextId
             /\ after.transactions = new
             /\ Typed(after)
<1> DEFINE after == Effect(st, d)
<1>1. /\ after.accounts = d.accounts
      /\ after.nextId = d.nextId
      /\ after.transactions = new
      /\ DOMAIN after = DOMAIN d
  BY DEF Typed
<1> HIDE DEF after
<1>2. Typed(after)
  BY <1>1 DEF Typed
<1> QED
  BY <1>1, <1>2 DEF after

LEMMA MoveEffect ==
  ASSUME NEW d, Typed(d), NEW no, NEW to \in Int
  PROVE  LET after == Effect([stmt |-> "move", no |-> no, to |-> to], d)
         IN  /\ after.accounts = d.accounts
             /\ after.nextId = d.nextId
             /\ after.transactions = MoveRows(d.transactions, no, to)
             /\ Typed(after)
<1> DEFINE st == [stmt |-> "move", no |-> no, to |-> to]
<1>1. Effect(st, d) = [d EXCEPT !.transactions = MoveRows(d.transactions, no, to)]
  BY DEF Effect
<1>2. /\ MoveRows(d.transactions, no, to) \in [DOMAIN d.transactions -> RowShape]
      /\ DOMAIN MoveRows(d.transactions, no, to) = DOMAIN d.transactions
  BY MoveShape DEF Typed
<1> HIDE DEF st
<1>3. LET after == Effect(st, d)
      IN  /\ after.accounts = d.accounts
          /\ after.nextId = d.nextId
          /\ after.transactions = MoveRows(d.transactions, no, to)
          /\ Typed(after)
  BY <1>1, <1>2, RowsEffect
<1> QED
  BY <1>3 DEF st

LEMMA RelinkEffect ==
  ASSUME NEW d, Typed(d), NEW no, NEW to \in Int
  PROVE  LET after == Effect([stmt |-> "relink", no |-> no, to |-> to], d)
         IN  /\ after.accounts = d.accounts
             /\ after.nextId = d.nextId
             /\ after.transactions = RelinkRows(d.transactions, no, to)
             /\ Typed(after)
<1> DEFINE st == [stmt |-> "relink", no |-> no, to |-> to]
<1>1. Effect(st, d) = [d EXCEPT !.transactions = RelinkRows(d.transactions, no, to)]
  BY DEF Effect
<1>2. /\ RelinkRows(d.transactions, no, to) \in [DOMAIN d.transactions -> RowShape]
      /\ DOMAIN RelinkRows(d.transactions, no, to) = DOMAIN d.transactions
  BY RelinkShape DEF Typed
<1> HIDE DEF st
<1>3. LET after == Effect(st, d)
      IN  /\ after.accounts = d.accounts
          /\ after.nextId = d.nextId
          /\ after.transactions = RelinkRows(d.transactions, no, to)
          /\ Typed(after)
  BY <1>1, <1>2, RowsEffect
<1> QED
  BY <1>3 DEF st

LEMMA DeleteRowsEffect ==
  ASSUME NEW d, Typed(d), NEW no
  PROVE  LET after == Effect([stmt |-> "deleteRows", no |-> no], d)
         IN  /\ after.accounts = d.accounts
             /\ after.nextId = d.nextId
             /\ after.transactions = DeleteRowsOf(d.transactions, no)
             /\ Typed(after)
<1> DEFINE st == [stmt |-> "deleteRows", no |-> no]
           new == DeleteRowsOf(d.transactions, no)
<1>1. Effect(st, d) = [d EXCEPT !.transactions = new]
  BY DEF Effect
<1>2. DOMAIN new \subseteq DOMAIN d.transactions /\ new \in [DOMAIN new -> RowShape]
  BY DEF DeleteRowsOf, Typed
<1> HIDE DEF st, new
<1>3. LET after == Effect(st, d)
      IN  /\ after.accounts = d.accounts
          /\ after.nextId = d.nextId
          /\ after.transactions = new
          /\ Typed(after)
  BY <1>1, <1>2, RowsEffect
<1> QED
  BY <1>3 DEF st, new

-------------------------------------------------------------------------------
(* Handler by handler, what a transaction plans is what it may promise.    *)
LEMMA FirstOnPath ==
  ASSUME NEW statements, NEW d, NEW n \in Nat, NEW path, Runs(statements, d, n, path)
  PROVE  /\ path[0] = d
         /\ n > 0 => /\ ~Violates(statements[1], path[0])
                     /\ path[1] = Effect(statements[1], path[0])
         /\ n > 1 => path[2] = Effect(statements[2], path[1])
         /\ n > 2 => path[3] = Effect(statements[3], path[2])
         /\ n > 3 => path[4] = Effect(statements[4], path[3])
<1>1. /\ n > 0 => 1 \in 1 .. n
      /\ n > 1 => 2 \in 1 .. n
      /\ n > 2 => 3 \in 1 .. n
      /\ n > 3 => 4 \in 1 .. n
      /\ 1 - 1 = 0 /\ 2 - 1 = 1 /\ 3 - 1 = 2 /\ 4 - 1 = 3
  OBVIOUS
<1>2. /\ n > 0 => path[1] = Effect(statements[1], path[1 - 1])
      /\ n > 0 => ~Violates(statements[1], path[1 - 1])
      /\ n > 1 => path[2] = Effect(statements[2], path[2 - 1])
      /\ n > 2 => path[3] = Effect(statements[3], path[3 - 1])
      /\ n > 3 => path[4] = Effect(statements[4], path[4 - 1])
  <2>1. \A j \in 1 .. n : /\ ~Violates(statements[j], path[j - 1])
                         /\ path[j] = Effect(statements[j], path[j - 1])
    BY DEF Runs
  <2> QED
    BY <1>1, <2>1
<1> QED
  BY <1>1, <1>2 DEF Runs

LEMMA PositiveNumbers ==
  /\ \A n \in Positive(Numbers) : n \in Int /\ n > 0 /\ n \in Numbers
  /\ \A n \in Positive(Amounts) : n \in Int /\ n > 0
  BY NumbersAssumption, AmountsAssumption DEF Positive

(* The columns of a row that an account has.                               *)
LEMMA AccountColumns ==
  ASSUME NEW d, Typed(d), NEW a \in DOMAIN d.accounts
  PROVE  /\ d.accounts[a] \in AccountRows
         /\ d.accounts[a].balance \in Nat
         /\ d.accounts[a].failed_attempts \in 0 .. 3
         /\ d.accounts[a].is_locked \in {0, 1}
<1>1. d.accounts[a] \in AccountRows
  BY DEF Typed
<1> QED
  BY <1>1 DEF AccountRows

(* What an admissible entry writes.                                        *)
LEMMA EntryFits ==
  ASSUME NEW d, Typed(d), NEW r, Fits(r), IsEntry(r.op), Admissible(r, d)
  PROVE  /\ NewBalance(r, d) \in Nat
         /\ r.no \in DOMAIN d.accounts
         /\ d.nextId <= MaxTransactions
         /\ TransactionRow(r.no, NoAccount, r.op, r.amount, NewBalance(r, d)) \in RowShape
<1>1. /\ r.no \in DOMAIN d.accounts
      /\ r.op \in {"WITHDRAW", "ADMIN_DEBIT"} => r.amount <= d.accounts[r.no].balance
      /\ d.nextId + 1 <= MaxTransactions + 1
  BY DEF Admissible, RowsWritten, IsEntry, IsCredit
<1>2. /\ d.accounts[r.no].balance \in Nat
      /\ r.amount \in Int /\ r.amount > 0
      /\ r.no \in Int
      /\ d.nextId \in Int
  BY <1>1, AccountColumns, PositiveNumbers DEF Fits, Typed
<1>3. NewBalance(r, d) \in Nat
  BY <1>1, <1>2 DEF NewBalance, IsEntry, IsCredit
<1>4. r.op \in TransactionTypes
  BY DEF IsEntry, IsCredit, TransactionTypes, CreditTypes, DebitTypes
<1> QED
  BY <1>1, <1>2, <1>3, <1>4, MaxTransactionsAssumption
     DEF TransactionRow, RowShape, NoAccount

LEMMA EntryPromise ==
  ASSUME NEW d, Typed(d), NEW r, Fits(r), IsEntry(r.op), Admissible(r, d)
  PROVE  Promise(EntryStatements(r, d), d, r, d)
<1> DEFINE balance == NewBalance(r, d)
           row == TransactionRow(r.no, NoAccount, r.op, r.amount, balance)
           first == SetBalance(r.no, balance)
           second == AddRow(row)
           d1 == Effect(first, d)
           d2 == Effect(second, d1)
<1>1. EntryStatements(r, d) = << first, second >>
  BY DEF EntryStatements, NewBalance
<1>2. balance \in Nat /\ row \in RowShape /\ d.nextId <= MaxTransactions
  BY EntryFits
<1> HIDE DEF balance, row
<1>3. /\ d1.accounts = UpdateBalance(d.accounts, r.no, balance)
      /\ d1.nextId = d.nextId
      /\ d1.transactions = d.transactions
      /\ Typed(d1)
  BY <1>2, BalanceEffect
<1> HIDE DEF d1, first
<1>4. /\ d2.accounts = d1.accounts
      /\ d2.nextId = d1.nextId + 1
      /\ d2.transactions = InsertTransaction(d1.transactions, d1.nextId, row)
      /\ Typed(d2)
  BY <1>2, <1>3, RowEffect
<1>5. EntryOutcome(r, d, d2)
  BY <1>3, <1>4 DEF EntryOutcome, balance, row
<1> HIDE DEF d2, second
<1> DEFINE all == << first, second >>
<1>6. ASSUME NEW n \in 0 .. 2, NEW path, Runs(all, d, n, path)
      PROVE  Typed(path[n]) /\ (n = 2 => Outcome(r, d, path[n]))
  <2>1. all[1] = first /\ all[2] = second /\ path[0] = d
    BY <1>6 DEF Runs
  <2> HIDE DEF all
  <2>2. n > 0 => path[1] = d1
    BY <1>6, <2>1, FirstOnPath DEF d1
  <2>3. n > 1 => path[2] = d2
    BY <1>6, <2>1, <2>2, FirstOnPath DEF d2
  <2> QED
    BY <1>3, <1>4, <1>5, <2>1, <2>2, <2>3 DEF Outcome
<1>7. Len(all) = 2
  OBVIOUS
<1> HIDE DEF all
<1> QED
  BY <1>1, <1>6, <1>7 DEF Promise, all

LEMMA TransferFits ==
  ASSUME NEW d, Typed(d), NEW r, Fits(r), r.op = "TRANSFER", Admissible(r, d)
  PROVE  /\ {r.no, r.to} \subseteq DOMAIN d.accounts
         /\ r.no \in Int /\ r.to \in Int /\ r.no # r.to
         /\ r.amount \in Int /\ r.amount > 0
         /\ d.accounts[r.no].balance - r.amount \in Nat
         /\ d.accounts[r.to].balance + r.amount \in Nat
         /\ d.nextId \in Int
         /\ d.nextId + 1 <= MaxTransactions
<1>1. /\ {r.no, r.to} \subseteq DOMAIN d.accounts
      /\ r.amount <= d.accounts[r.no].balance
      /\ d.nextId + 2 <= MaxTransactions + 1
  BY DEF Admissible, RowsWritten, IsEntry, IsCredit
<1>2. /\ d.accounts[r.no].balance \in Nat
      /\ d.accounts[r.to].balance \in Nat
  BY <1>1, AccountColumns
<1>3. /\ r.amount \in Int /\ r.amount > 0
      /\ r.no \in Int /\ r.to \in Int /\ r.no # r.to
      /\ d.nextId \in Int
  BY PositiveNumbers DEF Fits, Typed
<1> QED
  BY <1>1, <1>2, <1>3, MaxTransactionsAssumption

LEMMA TransferPromise ==
  ASSUME NEW d, Typed(d), NEW r, Fits(r), r.op = "TRANSFER", Admissible(r, d)
  PROVE  Promise(TransferStatements(r, d), d, r, d)
<1> DEFINE sender_balance == d.accounts[r.no].balance - r.amount
           receiver_balance == d.accounts[r.to].balance + r.amount
           sent == TransactionRow(r.no, r.to, "TRANSFER_SENT", r.amount, sender_balance)
           received == TransactionRow(r.to, r.no, "TRANSFER_RECEIVED", r.amount,
                                      receiver_balance)
           st1 == SetBalance(r.no, sender_balance)
           st2 == SetBalance(r.to, receiver_balance)
           st3 == AddRow(sent)
           st4 == AddRow(received)
           d1 == Effect(st1, d)
           d2 == Effect(st2, d1)
           d3 == Effect(st3, d2)
           d4 == Effect(st4, d3)
<1>1. TransferStatements(r, d) = << st1, st2, st3, st4 >>
  BY DEF TransferStatements
<1>2. /\ sender_balance \in Nat
      /\ receiver_balance \in Nat
      /\ d.nextId \in Int
      /\ d.nextId + 1 <= MaxTransactions
  BY TransferFits
<1>3. sent \in RowShape /\ received \in RowShape
  <2>1. "TRANSFER_SENT" \in TransactionTypes /\ "TRANSFER_RECEIVED" \in TransactionTypes
    BY DEF TransactionTypes, CreditTypes, DebitTypes
  <2> HIDE DEF sender_balance, receiver_balance
  <2> QED
    BY <1>2, <2>1, TransferFits DEF TransactionRow, RowShape
<1> HIDE DEF sender_balance, receiver_balance
<1>4. /\ d1.accounts = UpdateBalance(d.accounts, r.no, sender_balance)
      /\ d1.nextId = d.nextId
      /\ d1.transactions = d.transactions
      /\ Typed(d1)
  BY <1>2, BalanceEffect
<1> HIDE DEF d1, st1
<1>5. /\ d2.accounts = UpdateBalance(d1.accounts, r.to, receiver_balance)
      /\ d2.nextId = d1.nextId
      /\ d2.transactions = d1.transactions
      /\ Typed(d2)
  BY <1>2, <1>4, BalanceEffect
<1> HIDE DEF d2, st2, sent, received
<1>6. d2.nextId <= MaxTransactions
  BY <1>2, <1>4, <1>5, MaxTransactionsAssumption
<1>7. /\ d3.accounts = d2.accounts
      /\ d3.nextId = d2.nextId + 1
      /\ d3.transactions = InsertTransaction(d2.transactions, d2.nextId, sent)
      /\ Typed(d3)
  BY <1>3, <1>5, <1>6, RowEffect
<1> HIDE DEF d3, st3
<1>8. d3.nextId <= MaxTransactions
  BY <1>2, <1>4, <1>5, <1>7, MaxTransactionsAssumption
<1>9. /\ d4.accounts = d3.accounts
      /\ d4.nextId = d3.nextId + 1
      /\ d4.transactions = InsertTransaction(d3.transactions, d3.nextId, received)
      /\ Typed(d4)
  BY <1>3, <1>7, <1>8, RowEffect
<1> HIDE DEF d4, st4
<1>10. TransferOutcome(r, d, d4)
  <2>1. d4.nextId = d.nextId + 2
    BY <1>2, <1>4, <1>5, <1>7, <1>9
  <2> QED
    BY <2>1, <1>4, <1>5, <1>7, <1>9
       DEF TransferOutcome, sent, received, sender_balance, receiver_balance
<1> DEFINE all == << st1, st2, st3, st4 >>
<1>11. ASSUME NEW n \in 0 .. 4, NEW path, Runs(all, d, n, path)
       PROVE  Typed(path[n]) /\ (n = 4 => Outcome(r, d, path[n]))
  <2>1. all[1] = st1 /\ all[2] = st2 /\ all[3] = st3 /\ all[4] = st4 /\ path[0] = d
    BY <1>11 DEF Runs
  <2> HIDE DEF all
  <2>2. n > 0 => path[1] = d1
    BY <1>11, <2>1, FirstOnPath DEF d1
  <2>3. n > 1 => path[2] = d2
    BY <1>11, <2>1, <2>2, FirstOnPath DEF d2
  <2>4. n > 2 => path[3] = d3
    BY <1>11, <2>1, <2>3, FirstOnPath DEF d3
  <2>5. n > 3 => path[4] = d4
    BY <1>11, <2>1, <2>4, FirstOnPath DEF d4
  <2> QED
    BY <1>4, <1>5, <1>7, <1>9, <1>10, <2>1, <2>2, <2>3, <2>4, <2>5 DEF Outcome
<1>12. Len(all) = 4
  OBVIOUS
<1> HIDE DEF all
<1> QED
  BY <1>1, <1>11, <1>12 DEF Promise, all

LEMMA RenumberedTyped ==
  ASSUME NEW row \in AccountRows, NEW pin \in Pins, NEW salt \in Salts
  PROVE  /\ RenumberedRow(row, pin, salt) \in AccountRows
         /\ RenumberedRow(row, pin, salt).balance = row.balance
         /\ RenumberedRow(row, pin, salt).failed_attempts = row.failed_attempts
         /\ RenumberedRow(row, pin, salt).is_locked = row.is_locked
<1>1. PinHash(salt, pin) \in Salts \X Pins
  BY DEF PinHash
<1> QED
  BY <1>1 DEF RenumberedRow, AccountRows

LEMMA PinPromise ==
  ASSUME NEW d, Typed(d), NEW r, Fits(r), r.op = "EDIT_ACCOUNT", r.no = r.to,
         Admissible(r, d)
  PROVE  Promise(EditStatements(r, d), d, r, d)
<1> DEFINE st1 == [stmt |-> "pin", no |-> r.no, pin |-> r.pin, salt |-> r.salt]
           d1 == Effect(st1, d)
<1>1. EditStatements(r, d) = << st1 >>
  BY DEF EditStatements
<1>2. /\ d1.accounts = UpdatePin(d.accounts, r.no, PinHash(r.salt, r.pin), r.salt)
      /\ d1.nextId = d.nextId
      /\ d1.transactions = d.transactions
      /\ Typed(d1)
  BY PinEffect DEF Fits
<1> HIDE DEF d1, st1
<1>3. PinOutcome(r, d, d1)
  BY <1>2 DEF PinOutcome
<1> DEFINE all == << st1 >>
<1>4. ASSUME NEW n \in 0 .. 1, NEW path, Runs(all, d, n, path)
      PROVE  Typed(path[n]) /\ (n = 1 => Outcome(r, d, path[n]))
  <2>1. all[1] = st1 /\ path[0] = d
    BY <1>4 DEF Runs
  <2> HIDE DEF all
  <2>2. n > 0 => path[1] = d1
    BY <1>4, <2>1, FirstOnPath DEF d1
  <2> QED
    BY <1>2, <1>3, <2>1, <2>2 DEF Outcome
<1>5. Len(all) = 1
  OBVIOUS
<1> HIDE DEF all
<1> QED
  BY <1>1, <1>4, <1>5 DEF Promise, all

LEMMA RenumberPromise ==
  ASSUME NEW d, Typed(d), NEW r, Fits(r), r.op = "EDIT_ACCOUNT", r.no # r.to,
         Admissible(r, d)
  PROVE  Promise(EditStatements(r, d), d, r, d)
<1> DEFINE row == RenumberedRow(d.accounts[r.no], r.pin, r.salt)
           st1 == [stmt |-> "account", no |-> r.to, row |-> row]
           st2 == [stmt |-> "move", no |-> r.no, to |-> r.to]
           st3 == [stmt |-> "relink", no |-> r.no, to |-> r.to]
           st4 == [stmt |-> "delete", no |-> r.no]
           d1 == Effect(st1, d)
           d2 == Effect(st2, d1)
           d3 == Effect(st3, d2)
           d4 == Effect(st4, d3)
<1>1. EditStatements(r, d) = << st1, st2, st3, st4 >>
  BY DEF EditStatements
<1>2. /\ r.to \in Positive(Numbers) /\ r.to \in Int
      /\ r.pin \in Pins /\ r.salt \in Salts
      /\ row \in AccountRows
  <2>1. r.no \in DOMAIN d.accounts
    BY DEF Admissible
  <2>2. d.accounts[r.no] \in AccountRows
    BY <2>1, AccountColumns
  <2> QED
    BY <2>2, RenumberedTyped, PositiveNumbers DEF Fits
<1>3. Violates(st1, d) <=> r.to \in DOMAIN d.accounts
  BY DEF Violates
<1> HIDE DEF row
<1>4. /\ d1.accounts = InsertAccountRow(d.accounts, r.to, row)
      /\ d1.nextId = d.nextId
      /\ d1.transactions = d.transactions
      /\ Typed(d1)
  BY <1>2, AccountEffect
<1> HIDE DEF d1, st1
<1>5. /\ d2.accounts = d1.accounts
      /\ d2.nextId = d1.nextId
      /\ d2.transactions = MoveRows(d1.transactions, r.no, r.to)
      /\ Typed(d2)
  BY <1>2, <1>4, MoveEffect
<1> HIDE DEF d2, st2
<1>6. /\ d3.accounts = d2.accounts
      /\ d3.nextId = d2.nextId
      /\ d3.transactions = RelinkRows(d2.transactions, r.no, r.to)
      /\ Typed(d3)
  BY <1>2, <1>5, RelinkEffect
<1> HIDE DEF d3, st3
<1>7. /\ d4.accounts = DeleteAccountRow(d3.accounts, r.no)
      /\ d4.nextId = d3.nextId
      /\ d4.transactions = d3.transactions
      /\ Typed(d4)
  BY <1>6, DeleteEffect
<1> HIDE DEF d4, st4
<1>8. r.to \notin DOMAIN d.accounts => RenumberOutcome(r, d, d4)
  BY <1>4, <1>5, <1>6, <1>7 DEF RenumberOutcome, row
<1> DEFINE all == << st1, st2, st3, st4 >>
<1>9. ASSUME NEW n \in 0 .. 4, NEW path, Runs(all, d, n, path)
      PROVE  Typed(path[n]) /\ (n = 4 => Outcome(r, d, path[n]))
  <2>1. all[1] = st1 /\ all[2] = st2 /\ all[3] = st3 /\ all[4] = st4 /\ path[0] = d
    BY <1>9 DEF Runs
  <2> HIDE DEF all
  <2>2. n > 0 => path[1] = d1 /\ ~Violates(st1, d)
    BY <1>9, <2>1, FirstOnPath DEF d1
  <2>3. n > 1 => path[2] = d2
    BY <1>9, <2>1, <2>2, FirstOnPath DEF d2
  <2>4. n > 2 => path[3] = d3
    BY <1>9, <2>1, <2>3, FirstOnPath DEF d3
  <2>5. n > 3 => path[4] = d4
    BY <1>9, <2>1, <2>4, FirstOnPath DEF d4
  <2> QED
    BY <1>3, <1>4, <1>5, <1>6, <1>7, <1>8, <2>1, <2>2, <2>3, <2>4, <2>5 DEF Outcome
<1>10. Len(all) = 4
  OBVIOUS
<1> HIDE DEF all
<1> QED
  BY <1>1, <1>9, <1>10 DEF Promise, all

LEMMA DeletePromise ==
  ASSUME NEW d, Typed(d), NEW r, Fits(r), r.op = "DELETE_ACCOUNT"
  PROVE  Promise(DeleteStatements(r), d, r, d)
<1> DEFINE st1 == [stmt |-> "relink", no |-> r.no, to |-> NoAccount]
           st2 == [stmt |-> "deleteRows", no |-> r.no]
           st3 == [stmt |-> "delete", no |-> r.no]
           d1 == Effect(st1, d)
           d2 == Effect(st2, d1)
           d3 == Effect(st3, d2)
<1>1. DeleteStatements(r) = << st1, st2, st3 >>
  BY DEF DeleteStatements
<1>2. NoAccount \in Int
  BY DEF NoAccount
<1>3. /\ d1.accounts = d.accounts
      /\ d1.nextId = d.nextId
      /\ d1.transactions = RelinkRows(d.transactions, r.no, NoAccount)
      /\ Typed(d1)
  BY <1>2, RelinkEffect
<1> HIDE DEF d1, st1
<1>4. /\ d2.accounts = d1.accounts
      /\ d2.nextId = d1.nextId
      /\ d2.transactions = DeleteRowsOf(d1.transactions, r.no)
      /\ Typed(d2)
  BY <1>3, DeleteRowsEffect
<1> HIDE DEF d2, st2
<1>5. /\ d3.accounts = DeleteAccountRow(d2.accounts, r.no)
      /\ d3.nextId = d2.nextId
      /\ d3.transactions = d2.transactions
      /\ Typed(d3)
  BY <1>4, DeleteEffect
<1> HIDE DEF d3, st3
<1>6. DeleteOutcome(r, d, d3)
  BY <1>3, <1>4, <1>5 DEF DeleteOutcome
<1> DEFINE all == << st1, st2, st3 >>
<1>7. ASSUME NEW n \in 0 .. 3, NEW path, Runs(all, d, n, path)
      PROVE  Typed(path[n]) /\ (n = 3 => Outcome(r, d, path[n]))
  <2>1. all[1] = st1 /\ all[2] = st2 /\ all[3] = st3 /\ path[0] = d
    BY <1>7 DEF Runs
  <2> HIDE DEF all
  <2>2. n > 0 => path[1] = d1
    BY <1>7, <2>1, FirstOnPath DEF d1
  <2>3. n > 1 => path[2] = d2
    BY <1>7, <2>1, <2>2, FirstOnPath DEF d2
  <2>4. n > 2 => path[3] = d3
    BY <1>7, <2>1, <2>3, FirstOnPath DEF d3
  <2> QED
    BY <1>3, <1>4, <1>5, <1>6, <2>1, <2>2, <2>3, <2>4 DEF Outcome
<1>8. Len(all) = 3
  OBVIOUS
<1> HIDE DEF all
<1> QED
  BY <1>1, <1>7, <1>8 DEF Promise, all

(* The plan of any handler with a transaction.                             *)
LEMMA PlanPromise ==
  ASSUME NEW d, Typed(d), NEW r, Fits(r), Admissible(r, d)
  PROVE  /\ Promise(Statements(r, d), d, r, d)
         /\ \E S : Statements(r, d) \in Seq(S)
<1>1. CASE IsEntry(r.op)
  <2>1. Statements(r, d) = EntryStatements(r, d)
    BY <1>1 DEF Statements, IsEntry, IsCredit
  <2>2. \E S : EntryStatements(r, d) \in Seq(S)
    <3>1. PICK a, b : EntryStatements(r, d) = << a, b >>
      BY DEF EntryStatements
    <3>2. << a, b >> \in Seq({a, b})
      OBVIOUS
    <3> QED
      BY <3>1, <3>2
  <2> QED
    BY <1>1, <2>1, <2>2, EntryPromise
<1>2. CASE r.op = "TRANSFER"
  <2>1. Statements(r, d) = TransferStatements(r, d)
    BY <1>2 DEF Statements, IsEntry, IsCredit
  <2>2. \E S : TransferStatements(r, d) \in Seq(S)
    <3>1. PICK a, b, c, e : TransferStatements(r, d) = << a, b, c, e >>
      BY DEF TransferStatements
    <3>2. << a, b, c, e >> \in Seq({a, b, c, e})
      OBVIOUS
    <3> QED
      BY <3>1, <3>2
  <2> QED
    BY <1>2, <2>1, <2>2, TransferPromise
<1>3. CASE r.op = "EDIT_ACCOUNT"
  <2>1. Statements(r, d) = EditStatements(r, d)
    BY <1>3 DEF Statements, IsEntry, IsCredit
  <2>2. \E S : EditStatements(r, d) \in Seq(S)
    <3>1. CASE r.no = r.to
      <4>1. PICK a : EditStatements(r, d) = << a >>
        BY <3>1 DEF EditStatements
      <4>2. << a >> \in Seq({a})
        OBVIOUS
      <4> QED
        BY <4>1, <4>2
    <3>2. CASE r.no # r.to
      <4>1. PICK a, b, c, e : EditStatements(r, d) = << a, b, c, e >>
        BY <3>2 DEF EditStatements
      <4>2. << a, b, c, e >> \in Seq({a, b, c, e})
        OBVIOUS
      <4> QED
        BY <4>1, <4>2
    <3> QED
      BY <3>1, <3>2
  <2> QED
    BY <1>3, <2>1, <2>2, PinPromise, RenumberPromise
<1>4. CASE r.op = "DELETE_ACCOUNT"
  <2>1. Statements(r, d) = DeleteStatements(r)
    BY <1>4 DEF Statements, IsEntry, IsCredit
  <2>2. \E S : DeleteStatements(r) \in Seq(S)
    <3>1. PICK a, b, c : DeleteStatements(r) = << a, b, c >>
      BY DEF DeleteStatements
    <3>2. << a, b, c >> \in Seq({a, b, c})
      OBVIOUS
    <3> QED
      BY <3>1, <3>2
  <2> QED
    BY <1>4, <2>1, <2>2, DeletePromise
<1> QED
  BY <1>1, <1>2, <1>3, <1>4 DEF Fits, TransactionOps, IsEntry, IsCredit

(* A promise holds for what is left after the first statement.             *)
LEMMA PromiseAfterOne ==
  ASSUME NEW S, NEW statements \in Seq(S), statements # << >>, NEW d, NEW r, NEW d0,
         Promise(statements, d, r, d0), ~Violates(Head(statements), d)
  PROVE  Promise(Tail(statements), Effect(Head(statements), d), r, d0)
<1> DEFINE rest == Tail(statements)
           next == Effect(Head(statements), d)
<1>1. /\ Len(rest) = Len(statements) - 1
      /\ Len(statements) \in Nat
      /\ Len(statements) > 0
      /\ \A j \in 1 .. Len(rest) : rest[j] = statements[j + 1]
      /\ Head(statements) = statements[1]
  OBVIOUS
<1>2. ASSUME NEW n \in 0 .. Len(rest), NEW path, Runs(rest, next, n, path)
      PROVE  /\ Typed(path[n])
             /\ n = Len(rest) => Outcome(r, d0, path[n])
  <2> DEFINE whole == [j \in 0 .. n + 1 |-> IF j = 0 THEN d ELSE path[j - 1]]
  <2>1. n + 1 \in 0 .. Len(statements) /\ n \in Nat
    BY <1>1
  <2>2. /\ whole[0] = d
        /\ \A j \in 1 .. n + 1 : whole[j] = path[j - 1]
    BY <2>1
  <2> HIDE DEF whole
  <2>3. ASSUME NEW j \in 1 .. n + 1
        PROVE  /\ ~Violates(statements[j], whole[j - 1])
               /\ whole[j] = Effect(statements[j], whole[j - 1])
    <3>1. CASE j = 1
      <4>1. path[0] = next
        BY <1>2 DEF Runs
      <4> QED
        BY <1>1, <2>1, <2>2, <3>1, <4>1
    <3>2. CASE j # 1
      <4> DEFINE i == j - 1
      <4>1. i \in 1 .. n /\ i \in 1 .. Len(rest) /\ i + 1 = j /\ i \in 1 .. n + 1
        BY <2>1, <3>2, <1>1
      <4>2. ~Violates(rest[i], path[i - 1]) /\ path[i] = Effect(rest[i], path[i - 1])
        BY <1>2, <4>1 DEF Runs
      <4>3. rest[i] = statements[j]
        BY <1>1, <4>1
      <4>4. whole[i] = path[i - 1] /\ whole[j] = path[i]
        BY <2>2, <4>1
      <4> QED
        BY <4>2, <4>3, <4>4
    <3> QED
      BY <3>1, <3>2
  <2>4. Runs(statements, d, n + 1, whole)
    BY <2>2, <2>3 DEF Runs
  <2>5. whole[n + 1] = path[n]
    BY <2>1, <2>2
  <2>6. n = Len(rest) <=> n + 1 = Len(statements)
    BY <1>1, <2>1
  <2> QED
    BY <2>1, <2>4, <2>5, <2>6 DEF Promise
<1> QED
  BY <1>2 DEF Promise

(* A promise with nothing left to do, and one just made.                   *)
LEMMA PromiseNow ==
  ASSUME NEW S, NEW statements \in Seq(S), NEW d, NEW r, NEW d0,
         Promise(statements, d, r, d0)
  PROVE  /\ Typed(d)
         /\ statements = << >> => Outcome(r, d0, d)
<1> DEFINE path == [j \in {0} |-> d]
<1>1. Runs(statements, d, 0, path) /\ path[0] = d
  BY DEF Runs
<1>2. 0 \in 0 .. Len(statements)
  OBVIOUS
<1>3. statements = << >> => Len(statements) = 0
  OBVIOUS
<1> HIDE DEF path
<1> QED
  BY <1>1, <1>2, <1>3 DEF Promise

-------------------------------------------------------------------------------
(* Handler by handler, a transaction takes a sound database to a sound one. *)
LEMMA SoundNumbers ==
  ASSUME NEW d, Typed(d)
  PROVE  /\ NoAccount \notin DOMAIN d.accounts
         /\ d.nextId \in Int
         /\ DOMAIN d.transactions \subseteq Int
         /\ \A i \in DOMAIN d.transactions : i < d.nextId
         /\ d.transactions \in [DOMAIN d.transactions -> RowShape]
<1>1. \A a \in DOMAIN d.accounts : a # NoAccount
  BY PositiveNumbers DEF Typed, NoAccount
<1> QED
  BY <1>1 DEF Typed

LEMMA BalanceColumns ==
  ASSUME NEW acc, acc \in [DOMAIN acc -> AccountRows], NEW no, NEW value
  PROVE  LET after == UpdateBalance(acc, no, value)
         IN  /\ DOMAIN after = DOMAIN acc
             /\ \A a \in DOMAIN acc :
                  /\ after[a].balance = IF a = no THEN value ELSE acc[a].balance
                  /\ after[a].failed_attempts = acc[a].failed_attempts
                  /\ after[a].is_locked = acc[a].is_locked
                  /\ after[a].pin_hash = acc[a].pin_hash
                  /\ after[a].salt = acc[a].salt
  BY DEF UpdateBalance, AccountRows

LEMMA LoginStateColumns ==
  ASSUME NEW acc, acc \in [DOMAIN acc -> AccountRows], NEW no, NEW failed, NEW locked
  PROVE  LET after == UpdateLoginState(acc, no, failed, locked)
         IN  /\ DOMAIN after = DOMAIN acc
             /\ \A a \in DOMAIN acc :
                  /\ after[a].balance = acc[a].balance
                  /\ after[a].failed_attempts =
                       IF a = no THEN failed ELSE acc[a].failed_attempts
                  /\ after[a].is_locked = IF a = no THEN locked ELSE acc[a].is_locked
                  /\ after[a].pin_hash = acc[a].pin_hash
                  /\ after[a].salt = acc[a].salt
  BY DEF UpdateLoginState, AccountRows

LEMMA PinColumns ==
  ASSUME NEW acc, acc \in [DOMAIN acc -> AccountRows], NEW no, NEW hash, NEW salt
  PROVE  LET after == UpdatePin(acc, no, hash, salt)
         IN  /\ DOMAIN after = DOMAIN acc
             /\ \A a \in DOMAIN acc :
                  /\ after[a].balance = acc[a].balance
                  /\ after[a].failed_attempts = acc[a].failed_attempts
                  /\ after[a].is_locked = acc[a].is_locked
  BY DEF UpdatePin, AccountRows

LEMMA EntrySound ==
  ASSUME NEW d, Sound(d), NEW r, Fits(r), Admissible(r, d),
         NEW d2, Typed(d2), EntryOutcome(r, d, d2)
  PROVE  Sound(d2)
<1> DEFINE balance == NewBalance(r, d)
           row == TransactionRow(r.no, NoAccount, r.op, r.amount, balance)
<1>1. /\ d2.accounts = UpdateBalance(d.accounts, r.no, balance)
      /\ d2.transactions = InsertTransaction(d.transactions, d.nextId, row)
      /\ Typed(d)
      /\ IsEntry(r.op)
  BY DEF EntryOutcome, Sound
<1>2. r.no \in DOMAIN d.accounts /\ balance \in Nat /\ row \in RowShape
  BY <1>1, EntryFits
<1>3. /\ row.account_no = r.no
      /\ row.related_account = NoAccount
      /\ row.balance_after = balance
      /\ Signed(row) \in Int
      /\ balance = d.accounts[r.no].balance + Signed(row)
  <2>1. r.amount \in Int /\ d.accounts[r.no].balance \in Int
    BY <1>1, <1>2, AccountColumns, PositiveNumbers DEF Fits
  <2>2. Signed(row) = IF IsCredit(r.op) THEN r.amount ELSE -r.amount
    BY <1>1 DEF Signed, TransactionRow, CreditTypes, IsEntry, IsCredit
  <2> QED
    BY <2>1, <2>2 DEF TransactionRow, NewBalance
<1> HIDE DEF row, balance
<1>4. /\ DOMAIN d2.accounts = DOMAIN d.accounts
      /\ \A a \in DOMAIN d.accounts :
           /\ d2.accounts[a].balance = IF a = r.no THEN balance ELSE d.accounts[a].balance
           /\ d2.accounts[a].failed_attempts = d.accounts[a].failed_attempts
           /\ d2.accounts[a].is_locked = d.accounts[a].is_locked
  BY <1>1, BalanceColumns DEF Typed
<1>5. Consistent(d2.accounts, d2.transactions)
  <2>1. PICK acc, acc2, t, id : acc = d.accounts /\ acc2 = d2.accounts /\ t = d.transactions /\ id = d.nextId
    OBVIOUS
  <2>2. /\ row.account_no \in DOMAIN acc
        /\ row.balance_after = acc[row.account_no].balance + Signed(row)
        /\ acc[row.account_no].balance \in Int
    BY <1>1, <1>2, <1>3, <2>1, AccountColumns
  <2>3. /\ DOMAIN acc2 = DOMAIN acc
        /\ acc2[row.account_no].balance = row.balance_after
        /\ \A a \in DOMAIN acc \ {row.account_no} : acc2[a].balance = acc[a].balance
    BY <1>2, <1>3, <1>4, <2>1
  <2>4. /\ id \in Int /\ DOMAIN t \subseteq Int /\ \A i \in DOMAIN t : i < id
        /\ NoAccount \notin DOMAIN acc
    BY <1>1, <2>1, SoundNumbers
  <2>5. Consistent(acc, t) /\ row.related_account = NoAccount /\ Signed(row) \in Int
    BY <1>3, <2>1 DEF Sound
  <2>6. Consistent(acc2, InsertTransaction(t, id, row))
    BY <2>2, <2>3, <2>4, <2>5, ConsistentAfterEntry
  <2> QED
    BY <1>1, <2>1, <2>6
<1>6. LocksAgree(d2.accounts)
  BY <1>4 DEF LocksAgree, Sound
<1> QED
  BY <1>5, <1>6 DEF Sound

LEMMA TransferSound ==
  ASSUME NEW d, Sound(d), NEW r, Fits(r), Admissible(r, d),
         NEW d2, Typed(d2), TransferOutcome(r, d, d2)
  PROVE  Sound(d2)
<1> DEFINE sender_balance == d.accounts[r.no].balance - r.amount
           receiver_balance == d.accounts[r.to].balance + r.amount
           sent == TransactionRow(r.no, r.to, "TRANSFER_SENT", r.amount, sender_balance)
           received == TransactionRow(r.to, r.no, "TRANSFER_RECEIVED", r.amount,
                                      receiver_balance)
           mid == UpdateBalance(d.accounts, r.no, sender_balance)
<1>1. /\ d2.accounts = UpdateBalance(mid, r.to, receiver_balance)
      /\ d2.transactions =
           InsertTransaction(InsertTransaction(d.transactions, d.nextId, sent),
                             d.nextId + 1, received)
      /\ Typed(d)
      /\ r.op = "TRANSFER"
  BY DEF TransferOutcome, Sound
<1>2. /\ r.no \in DOMAIN d.accounts /\ r.to \in DOMAIN d.accounts
      /\ r.no # r.to
      /\ r.amount \in Int
      /\ sender_balance \in Nat
      /\ receiver_balance \in Nat
  BY <1>1, TransferFits
<1>3. /\ d.accounts \in [DOMAIN d.accounts -> AccountRows]
      /\ d.accounts[r.no].balance \in Int
      /\ d.accounts[r.to].balance \in Int
  BY <1>1, <1>2, AccountColumns DEF Typed
<1>4. /\ sent.balance_after = sender_balance
      /\ received.balance_after = receiver_balance
  BY DEF TransactionRow
<1>5. /\ DOMAIN mid = DOMAIN d.accounts
      /\ mid \in [DOMAIN mid -> AccountRows]
      /\ \A a \in DOMAIN d.accounts :
           /\ mid[a].balance = IF a = r.no THEN sender_balance ELSE d.accounts[a].balance
           /\ mid[a].failed_attempts = d.accounts[a].failed_attempts
           /\ mid[a].is_locked = d.accounts[a].is_locked
  <2>1. DOMAIN mid = DOMAIN d.accounts /\ mid \in [DOMAIN mid -> AccountRows]
    <3> HIDE DEF sender_balance
    <3> QED
      BY <1>2, <1>3 DEF UpdateBalance, AccountRows
  <2> QED
    BY <2>1, <1>3, BalanceColumns
<1>6. sent = TransactionRow(r.no, r.to, "TRANSFER_SENT", r.amount,
                            d.accounts[r.no].balance - r.amount)
      /\ received = TransactionRow(r.to, r.no, "TRANSFER_RECEIVED", r.amount,
                                   d.accounts[r.to].balance + r.amount)
  OBVIOUS
<1> HIDE DEF mid, sent, received, sender_balance, receiver_balance
<1>7. /\ DOMAIN d2.accounts = DOMAIN mid
      /\ \A a \in DOMAIN mid :
           /\ d2.accounts[a].balance = IF a = r.to THEN receiver_balance ELSE mid[a].balance
           /\ d2.accounts[a].failed_attempts = mid[a].failed_attempts
           /\ d2.accounts[a].is_locked = mid[a].is_locked
  BY <1>1, <1>5, BalanceColumns
<1>8. Consistent(d2.accounts, d2.transactions)
  <2>1. TransferWrites(d.accounts, mid, d2.accounts, r.no, r.to, r.amount, sent, received)
    BY <1>2, <1>3, <1>4, <1>5, <1>6, <1>7 DEF TransferWrites
  <2>2. /\ Consistent(d.accounts, d.transactions)
        /\ NoAccount \notin DOMAIN d.accounts
        /\ d.nextId \in Int
        /\ DOMAIN d.transactions \subseteq Int
        /\ \A i \in DOMAIN d.transactions : i < d.nextId
    BY <1>1, SoundNumbers DEF Sound
  <2>3. Consistent(d2.accounts,
          InsertTransaction(InsertTransaction(d.transactions, d.nextId, sent),
                            d.nextId + 1, received))
    BY <2>1, <2>2, ConsistentAfterTransfer
  <2> QED
    BY <1>1, <2>3
<1>9. LocksAgree(d2.accounts)
  BY <1>5, <1>7 DEF LocksAgree, Sound
<1> QED
  BY <1>8, <1>9 DEF Sound

LEMMA PinSound ==
  ASSUME NEW d, Sound(d), NEW r, NEW d2, Typed(d2), PinOutcome(r, d, d2)
  PROVE  Sound(d2)
<1>1. /\ DOMAIN d2.accounts = DOMAIN d.accounts
      /\ \A a \in DOMAIN d.accounts :
           /\ d2.accounts[a].balance = d.accounts[a].balance
           /\ d2.accounts[a].failed_attempts = d.accounts[a].failed_attempts
           /\ d2.accounts[a].is_locked = d.accounts[a].is_locked
  BY PinColumns DEF PinOutcome, Sound, Typed
<1>2. Consistent(d2.accounts, d2.transactions)
  BY <1>1, ConsistentAfterQuiet DEF Sound, PinOutcome
<1> QED
  BY <1>1, <1>2 DEF Sound, LocksAgree

LEMMA RenumberSound ==
  ASSUME NEW d, Sound(d), NEW r, Fits(r), Admissible(r, d),
         NEW d2, Typed(d2), RenumberOutcome(r, d, d2)
  PROVE  Sound(d2)
<1> DEFINE row == RenumberedRow(d.accounts[r.no], r.pin, r.salt)
<1>1. /\ r.no \in DOMAIN d.accounts
      /\ r.to \notin DOMAIN d.accounts
      /\ r.no # r.to
      /\ r.no \in Int /\ r.no # NoAccount
      /\ r.to \in Int /\ r.to # NoAccount
      /\ d2.accounts = DeleteAccountRow(InsertAccountRow(d.accounts, r.to, row), r.no)
      /\ d2.transactions = RelinkRows(MoveRows(d.transactions, r.no, r.to), r.no, r.to)
      /\ Typed(d)
  BY PositiveNumbers DEF RenumberOutcome, Sound, Admissible, Fits, NoAccount
<1>2. /\ row.balance = d.accounts[r.no].balance
      /\ row.failed_attempts = d.accounts[r.no].failed_attempts
      /\ row.is_locked = d.accounts[r.no].is_locked
  <2>1. d.accounts[r.no] \in AccountRows
    BY <1>1, AccountColumns
  <2>2. r.pin \in Pins /\ r.salt \in Salts
    BY DEF Fits, RenumberOutcome
  <2> QED
    BY <2>1, <2>2, RenumberedTyped
<1> HIDE DEF row
<1>3. /\ DOMAIN d2.accounts = (DOMAIN d.accounts \union {r.to}) \ {r.no}
      /\ d2.accounts[r.to] = row
      /\ \A a \in DOMAIN d.accounts \ {r.no, r.to} : d2.accounts[a] = d.accounts[a]
  BY <1>1 DEF DeleteAccountRow, InsertAccountRow
<1>4. Consistent(d2.accounts, d2.transactions)
  <2>1. /\ d.transactions \in [DOMAIN d.transactions -> RowShape]
        /\ d2.accounts[r.to].balance = d.accounts[r.no].balance
        /\ \A a \in DOMAIN d.accounts \ {r.no, r.to} :
             d2.accounts[a].balance = d.accounts[a].balance
        /\ Consistent(d.accounts, d.transactions)
    BY <1>1, <1>2, <1>3, SoundNumbers DEF Sound
  <2>2. Consistent(d2.accounts,
                   RelinkRows(MoveRows(d.transactions, r.no, r.to), r.no, r.to))
    BY <1>1, <1>3, <2>1, ConsistentAfterRenumber
  <2> QED
    BY <1>1, <2>2
<1>5. LocksAgree(d2.accounts)
  <2>1. \A a \in DOMAIN d2.accounts \ {r.to} :
          a \in DOMAIN d.accounts /\ d2.accounts[a] = d.accounts[a]
    BY <1>3
  <2>2. LocksAgree(d.accounts)
    BY DEF Sound
  <2>3. row.is_locked = 1 <=> row.failed_attempts = 3
    BY <1>1, <1>2, <2>2 DEF LocksAgree
  <2> QED
    BY <1>3, <2>1, <2>2, <2>3 DEF LocksAgree
<1> QED
  BY <1>4, <1>5 DEF Sound

LEMMA DeleteSound ==
  ASSUME NEW d, Sound(d), NEW r, NEW d2, Typed(d2), DeleteOutcome(r, d, d2)
  PROVE  Sound(d2)
<1>1. Consistent(d2.accounts, d2.transactions)
  BY SoundNumbers, ConsistentAfterDelete DEF Sound, DeleteOutcome
<1>2. LocksAgree(d2.accounts)
  BY DEF DeleteOutcome, DeleteAccountRow, LocksAgree, Sound
<1> QED
  BY <1>1, <1>2 DEF Sound

LEMMA OutcomeSound ==
  ASSUME NEW d, Sound(d), NEW r, Fits(r), Admissible(r, d),
         NEW d2, Typed(d2), Outcome(r, d, d2)
  PROVE  Sound(d2)
  BY EntrySound, TransferSound, PinSound, RenumberSound, DeleteSound DEF Outcome

-------------------------------------------------------------------------------
(* The processes.  LookOps are the requests whose handlers read a row      *)
(* outside any transaction.                                                *)
LookOps == {"LOGIN", "LOCK_ACCOUNT", "UNLOCK_ACCOUNT", "DELETE_ACCOUNT"}

(* The request of a process fits its session and the place it stands at.   *)
Asked(s) ==
  /\ pc[s] # "idle" => request[s] \in Requests(s)
  /\ pc[s] = "look" => request[s].op \in LookOps
  /\ pc[s] = "write" => request[s].op \in WriteOps
  /\ pc[s] \in {"begin", "plan", "execute"} => request[s].op \in TransactionOps

(* The row a LOGIN goes by, however old it is: not locked, and so with     *)
(* fewer than three failed attempts.                                       *)
Remembered(s) ==
  pc[s] = "write" /\ request[s].op = "LOGIN" =>
    /\ seen[s] \in AccountRows
    /\ seen[s].is_locked = 0
    /\ seen[s].failed_attempts # 3

(* A transaction starts from the committed tables, and what is left of it  *)
(* takes them where its request should.                                    *)
OnTheWay(s) ==
  /\ pc[s] = "plan" => work = db
  /\ pc[s] = "execute" =>
       /\ Admissible(request[s], db)
       /\ Promise(todo[s], work, request[s], db)
       /\ \E S : todo[s] \in Seq(S)

InHandler(s) == Asked(s) /\ Remembered(s) /\ OnTheWay(s)

SessionFits(s) == session[s].customer_account_no \in Positive(Numbers) \union {NoAccount}

Shapes ==
  /\ DOMAIN session = Servers
  /\ DOMAIN request = Servers
  /\ DOMAIN seen = Servers
  /\ DOMAIN todo = Servers

IInv ==
  /\ LockHeldInside
  /\ writer \in Servers \union {NoServer}
  /\ Sound(db)
  /\ writer = NoServer => work = db
  /\ Shapes
  /\ \A s \in Servers : SessionFits(s) /\ InHandler(s)

(* A step of s touches the locals of no other process.                     *)
OthersKeep(s) ==
  \A t \in Servers \ {s} :
    /\ session'[t] = session[t]
    /\ pc'[t] = pc[t]
    /\ request'[t] = request[t]
    /\ seen'[t] = seen[t]
    /\ todo'[t] = todo[t]

LEMMA SameRequests ==
  ASSUME NEW t, session'[t] = session[t]
  PROVE  Requests(t)' = Requests(t)
  BY DEF Requests

LEMMA OthersInHandler ==
  ASSUME IInv, NEW s \in Servers, OthersKeep(s),
         writer \notin {s, NoServer} => UNCHANGED <<db, work>>,
         NEW t \in Servers \ {s}
  PROVE  SessionFits(t)' /\ InHandler(t)'
<1>1. Asked(t)'
  <2>1. Requests(t)' = Requests(t)
    BY SameRequests DEF OthersKeep
  <2> QED
    BY <2>1 DEF OthersKeep, IInv, InHandler, Asked
<1>2. Remembered(t)'
  BY DEF OthersKeep, IInv, InHandler, Remembered
<1>3. OnTheWay(t)'
  <2>1. CASE pc[t] \notin {"plan", "execute"}
    BY <2>1 DEF OthersKeep, OnTheWay
  <2>2. CASE pc[t] \in {"plan", "execute"}
    <3>1. writer = t
      BY <2>2 DEF IInv, LockHeldInside, NoIdleTransaction
    <3>2. db' = db /\ work' = work
      BY <3>1, NoServerAssumption
    <3> QED
      BY <3>2 DEF OthersKeep, IInv, InHandler, OnTheWay
  <2> QED
    BY <2>1, <2>2
<1>4. SessionFits(t)'
  BY DEF OthersKeep, IInv, SessionFits
<1> QED
  BY <1>1, <1>2, <1>3, <1>4 DEF InHandler

(* What remains to be shown of a step of s.                                *)
LEMMA StepKeepsIInv ==
  ASSUME IInv, [Next]_vars, NEW s \in Servers, OthersKeep(s), Shapes',
         writer \notin {s, NoServer} => UNCHANGED <<db, work>>,
         writer' \in {writer, s, NoServer},
         Sound(db'),
         writer' = NoServer => work' = db',
         SessionFits(s)',
         InHandler(s)'
  PROVE  IInv'
<1>1. LockHeldInside'
  BY NextLockHeld DEF IInv
<1>2. writer' \in Servers \union {NoServer}
  BY DEF IInv
<1>3. \A t \in Servers : SessionFits(t)' /\ InHandler(t)'
  BY OthersInHandler
<1> QED
  BY <1>1, <1>2, <1>3 DEF IInv

(* The end of a handler.                                                   *)
LEMMA AnswerLocals ==
  ASSUME IInv, NEW s \in Servers, Answer(s)
  PROVE  /\ InHandler(s)'
         /\ DOMAIN request' = Servers /\ DOMAIN seen' = Servers /\ DOMAIN todo' = Servers
         /\ \A t \in Servers \ {s} :
              /\ pc'[t] = pc[t]
              /\ request'[t] = request[t]
              /\ seen'[t] = seen[t]
              /\ todo'[t] = todo[t]
<1>1. pc'[s] = "idle"
  BY DEF Answer, IInv, LockHeldInside
<1>2. InHandler(s)'
  BY <1>1 DEF InHandler, Asked, Remembered, OnTheWay
<1> QED
  BY <1>2 DEF Answer, IInv, Shapes, LockHeldInside

LEMMA AnswerKeepsIInv ==
  ASSUME IInv, [Next]_vars, NEW s \in Servers, Answer(s),
         \/ UNCHANGED session
         \/ session' = [session EXCEPT ![s] = ResetSession]
         \/ \E no \in Positive(Numbers) :
              session' = [session EXCEPT ![s] = [ResetSession EXCEPT !.customer_account_no = no]],
         writer \notin {s, NoServer} => UNCHANGED <<db, work>>,
         writer' \in {writer, NoServer},
         Sound(db'),
         writer' = NoServer => work' = db'
  PROVE  IInv'
<1>1. InHandler(s)'
  BY AnswerLocals
<1>2. OthersKeep(s)
  BY AnswerLocals DEF OthersKeep, IInv, Shapes
<1>3. Shapes'
  BY AnswerLocals DEF Shapes, IInv
<1>4. SessionFits(s)'
  BY DEF SessionFits, IInv, Shapes, ResetSession
<1> QED
  BY <1>1, <1>2, <1>3, <1>4, StepKeepsIInv

(* A refusal or a failure: the transaction, if there is one, is forgotten. *)
LEMMA RollbackKeepsIInv ==
  ASSUME IInv, [Next]_vars, NEW s \in Servers, Answer(s), Rollback(s), UNCHANGED db,
         UNCHANGED session \/ session' = [session EXCEPT ![s] = ResetSession]
  PROVE  IInv'
<1>1. writer \notin {s, NoServer} => UNCHANGED <<db, work>>
  BY DEF Rollback
<1>2. writer' \in {writer, NoServer} /\ (writer' = NoServer => work' = db')
  BY DEF Rollback, IInv
<1>3. Sound(db')
  BY DEF IInv
<1> QED
  BY <1>1, <1>2, <1>3, AnswerKeepsIInv

(* A process that stays in its handler, with the tables left alone.        *)
LEMMA RequestFits ==
  ASSUME NEW s, SessionFits(s), NEW r \in Requests(s)
  PROVE  /\ r.op \in TransactionOps => Fits(r)
         /\ r.op \in LookOps \union {"CREATE_ACCOUNT"} => r.no \in Positive(Numbers)
         /\ r.op \in {"CREATE_ACCOUNT", "LOGIN"} => r.pin \in GoodPins
         /\ r.op = "CREATE_ACCOUNT" => r.salt \in Salts
         /\ r.op \in LookOps \union WriteOps \union TransactionOps
<1>1. CASE r \in PublicRequests
  BY <1>1 DEF PublicRequests, TransactionOps, LookOps, WriteOps
<1>2. CASE IsCustomerSession(session[s])
           /\ r \in CustomerRequests(session[s].customer_account_no)
  <2>1. session[s].customer_account_no \in Positive(Numbers)
    BY <1>2 DEF SessionFits, IsCustomerSession, NoAccount
  <2> QED
    BY <1>2, <2>1
       DEF CustomerRequests, TransactionOps, LookOps, WriteOps, Fits, IsEntry, IsCredit
<1>3. CASE r \in AdminRequests(session[s].admin_username)
  BY <1>3
     DEF AdminRequests, TransactionOps, LookOps, WriteOps, Fits, IsEntry, IsCredit, GoodPins
<1> QED
  BY <1>1, <1>2, <1>3 DEF Requests

-------------------------------------------------------------------------------
(* Action by action.                                                       *)
LEMMA ReceiveKeepsIInv ==
  ASSUME IInv, [Next]_vars, NEW s \in Servers, Receive(s)
  PROVE  IInv'
<1>1. PICK r \in Requests(s) :
        /\ request' = [request EXCEPT ![s] = r]
        /\ pc' = [pc EXCEPT ![s] = FirstStep(r.op)]
  BY DEF Receive
<1>2. UNCHANGED <<db, admins, writer, work, session, seen, todo>>
  BY DEF Receive, database
<1>3. pc'[s] = FirstStep(r.op) /\ request'[s] = r
  BY <1>1 DEF IInv, Shapes, LockHeldInside
<1>4. r.op \in LookOps \union WriteOps \union TransactionOps
  BY RequestFits DEF IInv
<1>5. InHandler(s)'
  <2>1. Requests(s)' = Requests(s)
    BY <1>2, SameRequests
  <2>2. FirstStep(r.op) \notin {"idle", "plan", "execute"}
    BY DEF FirstStep
  <2>3. FirstStep(r.op) = "write" => r.op \in {"CREATE_ACCOUNT", "CHANGE_ADMIN_PASSWORD"}
    BY DEF FirstStep
  <2>4. FirstStep(r.op) = "look" => r.op \in LookOps
    BY DEF FirstStep, LookOps
  <2>5. FirstStep(r.op) = "begin" => r.op \in TransactionOps
    BY <1>4 DEF FirstStep, LookOps, WriteOps
  <2>6. Asked(s)'
    BY <1>3, <2>1, <2>2, <2>3, <2>4, <2>5 DEF Asked, WriteOps
  <2>7. Remembered(s)' /\ OnTheWay(s)'
    BY <1>3, <2>2, <2>3 DEF Remembered, OnTheWay
  <2> QED
    BY <2>6, <2>7 DEF InHandler
<1>6. OthersKeep(s) /\ Shapes' /\ SessionFits(s)'
  BY <1>1, <1>2 DEF OthersKeep, Shapes, SessionFits, IInv, LockHeldInside
<1> QED
  BY <1>2, <1>5, <1>6, StepKeepsIInv DEF IInv

LEMMA SessionKeepsIInv ==
  ASSUME IInv, [Next]_vars, NEW s \in Servers, AdminLogin(s) \/ Logout(s)
  PROVE  IInv'
<1>1. /\ UNCHANGED <<db, admins, writer, work, pc, request, seen, todo>>
      /\ pc[s] = "idle"
  BY DEF AdminLogin, Logout, database
<1>2. /\ DOMAIN session' = Servers
      /\ \A t \in Servers \ {s} : session'[t] = session[t]
      /\ session'[s].customer_account_no = NoAccount
  <2>1. PICK new : /\ session' = [session EXCEPT ![s] = new]
                   /\ new.customer_account_no = NoAccount
    <3>1. CASE Logout(s)
      <4>1. session' = [session EXCEPT ![s] = ResetSession]
        BY <3>1 DEF Logout
      <4>2. ResetSession.customer_account_no = NoAccount
        BY DEF ResetSession
      <4> QED
        BY <4>1, <4>2
    <3>2. ASSUME NEW username,
                 session' = [session EXCEPT ![s] =
                   [ResetSession EXCEPT !.is_admin = 1, !.admin_username = username]]
          PROVE  \E new : /\ session' = [session EXCEPT ![s] = new]
                          /\ new.customer_account_no = NoAccount
      <4>1. [ResetSession EXCEPT !.is_admin = 1,
                                 !.admin_username = username].customer_account_no = NoAccount
        BY DEF ResetSession
      <4> QED
        BY <3>2, <4>1
    <3> QED
      BY <3>1, <3>2 DEF AdminLogin
  <2> QED
    BY <2>1 DEF IInv, Shapes
<1>3. InHandler(s)'
  BY <1>1 DEF InHandler, Asked, Remembered, OnTheWay
<1>4. OthersKeep(s) /\ Shapes' /\ SessionFits(s)'
  BY <1>1, <1>2 DEF OthersKeep, Shapes, SessionFits, IInv
<1> QED
  BY <1>1, <1>3, <1>4, StepKeepsIInv DEF IInv

LEMMA LookKeepsIInv ==
  ASSUME IInv, [Next]_vars, NEW s \in Servers, Look(s)
  PROVE  IInv'
<1>1. UNCHANGED <<db, admins, writer, work, session>> /\ pc[s] = "look"
  BY DEF Look, database
<1>2. CASE Answer(s)
  BY <1>1, <1>2, AnswerKeepsIInv DEF IInv
<1>3. CASE ~Answer(s)
  <2> DEFINE r == request[s]
             row == db.accounts[r.no]
  <2>1. /\ r.no \in DOMAIN db.accounts
        /\ LooksGood(r, row)
        /\ seen' = [seen EXCEPT ![s] = row]
        /\ pc' = [pc EXCEPT ![s] = IF r.op = "DELETE_ACCOUNT" THEN "begin" ELSE "write"]
        /\ UNCHANGED <<request, todo>>
    BY <1>3 DEF Look
  <2>2. /\ pc'[s] = (IF r.op = "DELETE_ACCOUNT" THEN "begin" ELSE "write")
        /\ seen'[s] = row
        /\ request'[s] = r
    BY <2>1 DEF IInv, Shapes, LockHeldInside
  <2>3. r.op \in LookOps /\ r \in Requests(s)
    BY <1>1 DEF IInv, InHandler, Asked
  <2>4. Asked(s)'
    <3>1. Requests(s)' = Requests(s)
      BY <1>1, SameRequests
    <3> QED
      BY <2>2, <2>3, <3>1 DEF Asked, LookOps, WriteOps, TransactionOps
  <2>5. Remembered(s)'
    <3>1. row \in AccountRows
      BY <2>1 DEF IInv, Sound, Typed
    <3>2. r.op = "LOGIN" => row.is_locked = 0
      BY <2>1 DEF LooksGood
    <3>3. row.is_locked = 0 => row.failed_attempts # 3
      BY <2>1 DEF IInv, Sound, LocksAgree
    <3> QED
      BY <2>2, <3>1, <3>2, <3>3 DEF Remembered
  <2>6. OnTheWay(s)'
    BY <2>2 DEF OnTheWay
  <2>7. OthersKeep(s) /\ Shapes' /\ SessionFits(s)'
    BY <1>1, <2>1 DEF OthersKeep, Shapes, SessionFits, IInv, LockHeldInside
  <2>8. InHandler(s)'
    BY <2>4, <2>5, <2>6 DEF InHandler
  <2> QED
    BY <1>1, <2>7, <2>8, StepKeepsIInv DEF IInv
<1> QED
  BY <1>2, <1>3

(* One statement of its own writes committed and working tables alike.     *)
LEMMA WriteAccountsColumns ==
  ASSUME NEW accounts, Typed(db), work = db, WriteAccounts(accounts)
  PROVE  /\ db'.accounts = accounts
         /\ db'.nextId = db.nextId
         /\ db'.transactions = db.transactions
         /\ DOMAIN db' = DOMAIN db
         /\ work' = db'
  BY DEF WriteAccounts, Typed

LEMMA WriteLoginStateSound ==
  ASSUME Sound(db), work = db, NEW no, NEW failed \in 0 .. 3, NEW locked \in {0, 1},
         locked = 1 <=> failed = 3,
         WriteAccounts(UpdateLoginState(db.accounts, no, failed, locked))
  PROVE  Sound(db') /\ work' = db'
<1> DEFINE new == UpdateLoginState(db.accounts, no, failed, locked)
<1>1. /\ db'.accounts = new
      /\ db'.nextId = db.nextId
      /\ db'.transactions = db.transactions
      /\ DOMAIN db' = DOMAIN db
      /\ work' = db'
  BY WriteAccountsColumns DEF Sound
<1>2. db.accounts \in [DOMAIN db.accounts -> AccountRows]
  BY DEF Sound, Typed
<1>3. /\ DOMAIN new = DOMAIN db.accounts
      /\ \A a \in DOMAIN db.accounts :
           /\ new[a].balance = db.accounts[a].balance
           /\ new[a].failed_attempts = IF a = no THEN failed
                                        ELSE db.accounts[a].failed_attempts
           /\ new[a].is_locked = IF a = no THEN locked ELSE db.accounts[a].is_locked
  BY <1>2, LoginStateColumns
<1>4. new \in [DOMAIN new -> AccountRows]
  <2>1. ASSUME NEW a \in DOMAIN db.accounts
        PROVE  [db.accounts[a] EXCEPT !.failed_attempts = failed, !.is_locked = locked]
                 \in AccountRows
    <3>1. db.accounts[a] \in AccountRows
      BY <1>2
    <3> QED
      BY <3>1 DEF AccountRows
  <2> QED
    BY <1>2, <1>3, <2>1 DEF UpdateLoginState
<1> HIDE DEF new
<1>5. Typed(db')
  BY <1>1, <1>3, <1>4 DEF Sound, Typed
<1>6. LocksAgree(db'.accounts)
  BY <1>1, <1>3 DEF Sound, LocksAgree
<1>7. Consistent(db'.accounts, db'.transactions)
  BY <1>1, <1>3, ConsistentAfterQuiet DEF Sound
<1> QED
  BY <1>1, <1>5, <1>6, <1>7 DEF Sound

LEMMA WriteNewAccountSound ==
  ASSUME Sound(db), work = db, NEW r, WriteNewAccount(r),
         r.no \in Positive(Numbers), r.pin \in GoodPins, r.salt \in Salts
  PROVE  Sound(db') /\ work' = db'
<1> DEFINE row == NewAccountRow(PinHash(r.salt, r.pin), r.salt)
           new == InsertAccountRow(db.accounts, r.no, row)
<1>1. CASE r.no \in DOMAIN db.accounts
  BY <1>1 DEF WriteNewAccount
<1>2. CASE r.no \notin DOMAIN db.accounts
  <2>1. WriteAccounts(new)
    BY <1>2 DEF WriteNewAccount
  <2>2. /\ row \in AccountRows
        /\ row.balance = 0
        /\ row.is_locked = 0
        /\ row.failed_attempts = 0
    BY DEF NewAccountRow, PinHash, AccountRows, GoodPins
  <2> HIDE DEF row
  <2>3. /\ DOMAIN new = DOMAIN db.accounts \union {r.no}
        /\ new[r.no] = row
        /\ \A a \in DOMAIN db.accounts : new[a] = db.accounts[a]
        /\ new \in [DOMAIN new -> AccountRows]
    BY <1>2, <2>2 DEF InsertAccountRow, Sound, Typed
  <2>4. Consistent(new, db.transactions)
    <3>1. r.no # NoAccount
      BY PositiveNumbers DEF NoAccount
    <3> QED
      BY <1>2, <2>2, <3>1, ConsistentAfterCreate DEF Sound
  <2> HIDE DEF new
  <2>5. /\ db'.accounts = new
        /\ db'.nextId = db.nextId
        /\ db'.transactions = db.transactions
        /\ DOMAIN db' = DOMAIN db
        /\ work' = db'
    BY <2>1, WriteAccountsColumns DEF Sound
  <2>6. Typed(db')
    BY <2>3, <2>5 DEF Sound, Typed
  <2>7. LocksAgree(db'.accounts)
    BY <2>2, <2>3, <2>5 DEF Sound, LocksAgree
  <2> QED
    BY <2>4, <2>5, <2>6, <2>7 DEF Sound
<1> QED
  BY <1>1, <1>2

LEMMA WriteKeepsIInv ==
  ASSUME IInv, [Next]_vars, NEW s \in Servers, Write(s)
  PROVE  IInv'
<1> DEFINE r == request[s]
<1>1. /\ work = db /\ Sound(db) /\ writer = NoServer /\ writer' = NoServer
      /\ Answer(s)
      /\ pc[s] = "write"
  BY DEF Write, IInv
<1>2. r \in Requests(s) /\ SessionFits(s) /\ Remembered(s)
  BY <1>1 DEF IInv, InHandler, Asked
<1>3. CASE WriteNewAccount(r)
  <2>1. r.no \in Positive(Numbers) /\ r.pin \in GoodPins /\ r.salt \in Salts
    BY <1>2, <1>3, RequestFits DEF WriteNewAccount
  <2>2. Sound(db') /\ work' = db'
    BY <1>1, <1>3, <2>1, WriteNewAccountSound
  <2> QED
    BY <1>1, <1>3, <2>2, AnswerKeepsIInv DEF WriteNewAccount
<1>4. CASE WriteLogin(s, r)
  <2>1. /\ seen[s].failed_attempts \in 0 .. 2
        /\ r.no \in Positive(Numbers)
    <3>1. seen[s] \in AccountRows /\ seen[s].failed_attempts # 3
      BY <1>1, <1>2, <1>4 DEF Remembered, WriteLogin
    <3>2. r.op \in LookOps
      BY <1>4 DEF WriteLogin, LookOps
    <3> QED
      BY <1>2, <3>1, <3>2, RequestFits DEF AccountRows
  <2>2. CASE seen[s].pin_hash = PinHash(seen[s].salt, r.pin)
    <3>1. /\ WriteAccounts(UpdateLoginState(db.accounts, r.no, 0, 0))
          /\ session' = [session EXCEPT ![s] =
                           [ResetSession EXCEPT !.customer_account_no = r.no]]
      BY <1>4, <2>2 DEF WriteLogin
    <3>2. Sound(db') /\ work' = db'
      BY <1>1, <3>1, WriteLoginStateSound
    <3> QED
      BY <1>1, <2>1, <3>1, <3>2, AnswerKeepsIInv
  <2>3. CASE seen[s].pin_hash # PinHash(seen[s].salt, r.pin)
    <3> DEFINE failed_attempts == seen[s].failed_attempts + 1
    <3>1. /\ WriteAccounts(UpdateLoginState(db.accounts, r.no, failed_attempts,
                             FailedAttemptsLock(failed_attempts)))
          /\ UNCHANGED session
      BY <1>4, <2>3 DEF WriteLogin
    <3>2. /\ failed_attempts \in 0 .. 3
          /\ FailedAttemptsLock(failed_attempts) \in {0, 1}
          /\ FailedAttemptsLock(failed_attempts) = 1 <=> failed_attempts = 3
      BY <2>1 DEF FailedAttemptsLock
    <3> HIDE DEF failed_attempts
    <3>3. Sound(db') /\ work' = db'
      BY <1>1, <3>1, <3>2, WriteLoginStateSound
    <3> QED
      BY <1>1, <3>1, <3>3, AnswerKeepsIInv
  <2> QED
    BY <2>2, <2>3
<1>5. CASE WriteLock(r)
  <2> DEFINE locked == r.op = "LOCK_ACCOUNT"
             failed_attempts == IF locked THEN 3 ELSE 0
             is_locked == IF locked THEN 1 ELSE 0
  <2>1. /\ WriteAccounts(UpdateLoginState(db.accounts, r.no, failed_attempts, is_locked))
        /\ UNCHANGED session
    BY <1>5 DEF WriteLock
  <2>2. /\ failed_attempts \in 0 .. 3
        /\ is_locked \in {0, 1}
        /\ is_locked = 1 <=> failed_attempts = 3
    OBVIOUS
  <2> HIDE DEF failed_attempts, is_locked
  <2>3. Sound(db') /\ work' = db'
    BY <1>1, <2>1, <2>2, WriteLoginStateSound
  <2> QED
    BY <1>1, <2>1, <2>3, AnswerKeepsIInv
<1>6. CASE WriteAdminPassword(r)
  BY <1>1, <1>6, AnswerKeepsIInv DEF WriteAdminPassword
<1> QED
  BY <1>3, <1>4, <1>5, <1>6 DEF Write

LEMMA BeginKeepsIInv ==
  ASSUME IInv, [Next]_vars, NEW s \in Servers, Begin(s)
  PROVE  IInv'
<1>1. /\ pc' = [pc EXCEPT ![s] = "plan"]
      /\ pc[s] = "begin"
      /\ writer = NoServer /\ writer' = s /\ work' = db
      /\ UNCHANGED <<db, admins, session, request, seen, todo>>
  BY DEF Begin
<1>2. pc'[s] = "plan" /\ s # NoServer
  BY <1>1, NoServerAssumption DEF IInv, LockHeldInside
<1>3. Asked(s)'
  <2>1. Requests(s)' = Requests(s)
    BY <1>1, SameRequests
  <2> QED
    BY <1>1, <1>2, <2>1 DEF IInv, InHandler, Asked
<1>4. Remembered(s)' /\ OnTheWay(s)'
  BY <1>1, <1>2 DEF Remembered, OnTheWay
<1>5. OthersKeep(s) /\ Shapes' /\ SessionFits(s)'
  BY <1>1 DEF OthersKeep, Shapes, SessionFits, IInv, LockHeldInside
<1>6. InHandler(s)'
  BY <1>3, <1>4 DEF InHandler
<1> QED
  BY <1>1, <1>2, <1>5, <1>6, StepKeepsIInv DEF IInv

LEMMA PlanKeepsIInv ==
  ASSUME IInv, [Next]_vars, NEW s \in Servers, Plan(s)
  PROVE  IInv'
<1> DEFINE r == request[s]
<1>1. /\ pc[s] = "plan"
      /\ UNCHANGED <<db, admins, session>>
  BY DEF Plan
<1>2. /\ work = db
      /\ writer = s
      /\ Typed(db)
      /\ r \in Requests(s)
      /\ r.op \in TransactionOps
  BY <1>1 DEF IInv, InHandler, OnTheWay, Asked, Sound, LockHeldInside, NoIdleTransaction
<1>3. CASE Admissible(r, work)
  <2>1. /\ todo' = [todo EXCEPT ![s] = Statements(r, work)]
        /\ pc' = [pc EXCEPT ![s] = "execute"]
        /\ UNCHANGED <<writer, work, request, seen>>
    BY <1>3 DEF Plan
  <2>2. /\ pc'[s] = "execute"
        /\ todo'[s] = Statements(r, db)
        /\ request'[s] = r
        /\ work' = db'
    BY <1>1, <1>2, <2>1 DEF IInv, Shapes, LockHeldInside
  <2>3. Asked(s)'
    <3>1. Requests(s)' = Requests(s)
      BY <1>1, SameRequests
    <3> QED
      BY <1>2, <2>2, <3>1 DEF Asked
  <2>4. OnTheWay(s)'
    <3>1. Fits(r)
      BY <1>2, RequestFits DEF IInv
    <3>2. /\ Promise(Statements(r, db), db, r, db)
          /\ \E S : Statements(r, db) \in Seq(S)
      BY <1>2, <1>3, <3>1, PlanPromise
    <3> QED
      BY <1>1, <1>2, <1>3, <2>1, <2>2, <3>2 DEF OnTheWay
  <2>5. Remembered(s)'
    BY <2>2 DEF Remembered
  <2>6. OthersKeep(s) /\ Shapes' /\ SessionFits(s)'
    BY <1>1, <2>1 DEF OthersKeep, Shapes, SessionFits, IInv, LockHeldInside
  <2>7. InHandler(s)'
    BY <2>3, <2>4, <2>5 DEF InHandler
  <2> QED
    BY <1>1, <2>1, <2>6, <2>7, StepKeepsIInv DEF IInv
<1>4. CASE ~Admissible(r, work)
  BY <1>4, RollbackKeepsIInv DEF Plan
<1> QED
  BY <1>3, <1>4

LEMMA ExecuteKeepsIInv ==
  ASSUME IInv, [Next]_vars, NEW s \in Servers, Execute(s)
  PROVE  IInv'
<1> DEFINE r == request[s]
<1>1. /\ pc[s] = "execute"
      /\ todo[s] # << >>
      /\ UNCHANGED <<db, admins, session>>
  BY DEF Execute
<1>2. /\ Admissible(r, db)
      /\ Promise(todo[s], work, r, db)
      /\ \E S : todo[s] \in Seq(S)
      /\ r \in Requests(s)
      /\ r.op \in TransactionOps
      /\ writer = s
  BY <1>1 DEF IInv, InHandler, OnTheWay, Asked, LockHeldInside, NoIdleTransaction
<1>3. CASE Violates(Head(todo[s]), work)
  BY <1>3, RollbackKeepsIInv DEF Execute
<1>4. CASE ~Violates(Head(todo[s]), work)
  <2>1. /\ work' = Effect(Head(todo[s]), work)
        /\ todo' = [todo EXCEPT ![s] = Tail(todo[s])]
        /\ UNCHANGED <<writer, pc, request, seen>>
    BY <1>4 DEF Execute
  <2>2. todo'[s] = Tail(todo[s])
    BY <2>1 DEF IInv, Shapes
  <2>3. Asked(s)'
    <3>1. Requests(s)' = Requests(s)
      BY <1>1, SameRequests
    <3> QED
      BY <1>1, <1>2, <2>1, <3>1 DEF Asked
  <2>4. OnTheWay(s)'
    <3>1. Promise(Tail(todo[s]), work', r, db)
      BY <1>1, <1>2, <1>4, <2>1, PromiseAfterOne
    <3>2. PICK S : todo[s] \in Seq(S)
      BY <1>2
    <3>3. Tail(todo[s]) \in Seq(S)
      BY <1>1, <3>2
    <3> QED
      BY <1>1, <1>2, <2>1, <2>2, <3>1, <3>3 DEF OnTheWay
  <2>5. Remembered(s)'
    BY <1>1, <2>1 DEF Remembered
  <2>6. OthersKeep(s) /\ Shapes' /\ SessionFits(s)'
    BY <1>1, <2>1 DEF OthersKeep, Shapes, SessionFits, IInv, LockHeldInside
  <2>7. InHandler(s)'
    BY <2>3, <2>4, <2>5 DEF InHandler
  <2>8. writer # NoServer /\ writer' = writer
    BY <1>2, <2>1, NoServerAssumption
  <2> QED
    BY <1>1, <1>2, <2>6, <2>7, <2>8, StepKeepsIInv DEF IInv
<1> QED
  BY <1>3, <1>4

(* What a committed transaction has done.                                  *)
LEMMA CommitOutcome ==
  ASSUME IInv, NEW s \in Servers, Commit(s)
  PROVE  /\ Outcome(request[s], db, db')
         /\ Admissible(request[s], db)
         /\ Fits(request[s])
         /\ Typed(db')
<1>1. /\ Admissible(request[s], db)
      /\ Promise(todo[s], work, request[s], db)
      /\ \E S : todo[s] \in Seq(S)
      /\ request[s] \in Requests(s)
      /\ request[s].op \in TransactionOps
      /\ todo[s] = << >>
      /\ db' = work
  BY DEF Commit, IInv, InHandler, OnTheWay, Asked
<1>2. Fits(request[s])
  BY <1>1, RequestFits DEF IInv
<1>3. Outcome(request[s], db, work) /\ Typed(work)
  BY <1>1, PromiseNow
<1> QED
  BY <1>1, <1>2, <1>3

LEMMA CommitKeepsIInv ==
  ASSUME IInv, [Next]_vars, NEW s \in Servers, Commit(s)
  PROVE  IInv'
<1>1. Sound(db')
  BY CommitOutcome, OutcomeSound DEF IInv
<1>2. /\ writer = s
      /\ writer' = NoServer
      /\ work' = db'
      /\ UNCHANGED session
      /\ Answer(s)
  BY DEF Commit, IInv, LockHeldInside, NoIdleTransaction
<1> QED
  BY <1>1, <1>2, AnswerKeepsIInv

LEMMA NextIInv ==
  ASSUME IInv, [Next]_vars
  PROVE  IInv'
<1>1. ASSUME NEW s \in Servers, BusyTimeout(s)
      PROVE  IInv'
  BY <1>1, AnswerKeepsIInv DEF BusyTimeout, database, IInv
<1>2. ASSUME NEW s \in Servers, Fail(s) \/ Crash(s)
      PROVE  IInv'
  BY <1>2, RollbackKeepsIInv DEF Fail, Crash
<1>3. CASE UNCHANGED vars
  <2>1. /\ UNCHANGED <<db, admins, writer, work>>
        /\ UNCHANGED <<session, pc, request, seen, todo>>
    BY <1>3 DEF vars, database, local
  <2>2. LockHeldInside'
    BY NextLockHeld DEF IInv
  <2>3. ASSUME NEW s \in Servers
        PROVE  SessionFits(s)' /\ InHandler(s)'
    <3>1. Requests(s)' = Requests(s)
      BY <2>1, SameRequests
    <3> QED
      BY <2>1, <3>1 DEF IInv, SessionFits, InHandler, Asked, Remembered, OnTheWay
  <2> QED
    BY <2>1, <2>2, <2>3 DEF IInv, Shapes
<1> QED
  BY <1>1, <1>2, <1>3, ReceiveKeepsIInv, SessionKeepsIInv, LookKeepsIInv, WriteKeepsIInv,
     BeginKeepsIInv, PlanKeepsIInv, ExecuteKeepsIInv, CommitKeepsIInv DEF Next, Advance

LEMMA InitIInv ==
  ASSUME Init
  PROVE  IInv
<1>1. LockHeldInside /\ writer = NoServer /\ work = db
  BY NoServerAssumption DEF Init, LockHeldInside, NoIdleTransaction, Places
<1>2. Sound(db)
  <2>1. /\ DOMAIN db = {"accounts", "nextId", "transactions"}
        /\ DOMAIN db.accounts = {}
        /\ DOMAIN db.transactions = {}
        /\ db.nextId = 1
        /\ db.accounts = [a \in {} |-> NoRow]
        /\ db.transactions = [i \in {} |-> TransactionRow(0, 0, "", 0, 0)]
    BY DEF Init
  <2>2. /\ db.accounts \in [DOMAIN db.accounts -> AccountRows]
        /\ db.transactions \in [DOMAIN db.transactions -> RowShape]
    <3>1. \A a \in {} : db.accounts[a] \in AccountRows
      OBVIOUS
    <3> QED
      BY <2>1
  <2>3. Typed(db)
    BY <2>1, <2>2, MaxTransactionsAssumption DEF Typed
  <2>4. LocksAgree(db.accounts)
    BY <2>1 DEF LocksAgree
  <2>5. Consistent(db.accounts, db.transactions)
    BY <2>1
       DEF Consistent, Ledger, RunningTotals, BalanceIsTotal, LinkedRowsPaired,
           RowsNameAccounts
  <2> QED
    BY <2>3, <2>4, <2>5 DEF Sound
<1>3. Shapes /\ \A s \in Servers : pc[s] = "idle" /\ SessionFits(s)
  BY DEF Init, Shapes, SessionFits, ResetSession
<1> QED
  BY <1>1, <1>2, <1>3 DEF IInv, InHandler, Asked, Remembered, OnTheWay

LEMMA Invariance == Spec => []IInv
<1>1. Init => IInv
  BY InitIInv
<1>2. IInv /\ [Next]_vars => IInv'
  BY NextIInv
<1> QED
  BY <1>1, <1>2, PTL DEF Spec

(* What the open transaction sees is typed as well, at every statement.    *)
LEMMA WorkTyped ==
  ASSUME IInv
  PROVE  Typed(work)
<1>1. CASE writer = NoServer
  BY <1>1 DEF IInv, Sound
<1>2. CASE writer \in Servers
  <2>1. pc[writer] \in {"plan", "execute"} /\ InHandler(writer)
    BY <1>2 DEF IInv, LockHeldInside, NoIdleTransaction
  <2>2. CASE pc[writer] = "plan"
    BY <2>1, <2>2 DEF IInv, InHandler, OnTheWay, Sound
  <2>3. CASE pc[writer] = "execute"
    BY <2>1, <2>3, PromiseNow DEF InHandler, OnTheWay
  <2> QED
    BY <2>1, <2>2, <2>3
<1> QED
  BY <1>1, <1>2 DEF IInv

(* Whichever processes race, fail or crash, balances stay natural numbers  *)
(* and no row has more than three failed attempts, committed or not.       *)
THEOREM TypeCorrect == Spec => []TypeOK
<1>1. IInv => TypeOK
  <2> SUFFICES ASSUME IInv PROVE TypeOK
    OBVIOUS
  <2>1. Typed(db) /\ Typed(work)
    BY WorkTyped DEF IInv, Sound
  <2>2. pc \in [Servers -> Places] /\ writer \in Servers \union {NoServer}
    BY DEF IInv, LockHeldInside
  <2> QED
    BY <2>1, <2>2 DEF TypeOK, Typed, Places
<1> QED
  BY <1>1, Invariance, PTL

(* No race of a LOGIN with an administrator, or of two LOGINs, leaves a    *)
(* lock without its three failed attempts, or the other way round.         *)
THEOREM LockCorrect == Spec => []LockMatchesFailures
<1>1. IInv => LockMatchesFailures
  BY DEF IInv, Sound, LocksAgree, LockMatchesFailures
<1> QED
  BY <1>1, Invariance, PTL

(* Whatever the other processes are in the middle of, what a process reads *)
(* agrees: balances with rows, transfers with each other, rows with        *)
(* accounts.                                                               *)
THEOREM DatabaseCorrect == Spec => []DatabaseAgrees
<1>1. IInv => DatabaseAgrees
  BY DEF IInv, Sound, Consistent, Ledger, DatabaseAgrees
<1> QED
  BY <1>1, Invariance, PTL

-------------------------------------------------------------------------------
LEMMA WriteIsSingle ==
  ASSUME IInv, NEW s \in Servers, Write(s), db' # db
  PROVE  SingleWrite(request[s], db, db')
<1> DEFINE r == request[s]
<1>1. work = db /\ Typed(db) /\ pc[s] = "write" /\ Remembered(s)
  BY DEF Write, IInv, Sound, InHandler
<1>2. CASE WriteNewAccount(r)
  <2>1. r.op = "CREATE_ACCOUNT" /\ r.no \notin DOMAIN db.accounts
    BY <1>2 DEF WriteNewAccount
  <2>2. PICK accounts : /\ accounts = InsertAccountRow(db.accounts, r.no,
                                        NewAccountRow(PinHash(r.salt, r.pin), r.salt))
                        /\ WriteAccounts(accounts)
    BY <1>2, <2>1 DEF WriteNewAccount
  <2>3. db'.accounts = accounts /\ db'.nextId = db.nextId
        /\ db'.transactions = db.transactions
    BY <1>1, <2>2, WriteAccountsColumns
  <2> QED
    BY <2>1, <2>2, <2>3 DEF SingleWrite, WriteOps
<1>3. ASSUME NEW failed \in 0 .. 3, r.op \in {"LOGIN", "LOCK_ACCOUNT", "UNLOCK_ACCOUNT"},
             WriteAccounts(UpdateLoginState(db.accounts, r.no, failed,
                                            FailedAttemptsLock(failed)))
      PROVE  SingleWrite(r, db, db')
  <2>1. PICK accounts : /\ accounts = UpdateLoginState(db.accounts, r.no, failed,
                                        FailedAttemptsLock(failed))
                        /\ WriteAccounts(accounts)
    BY <1>3
  <2>2. db'.accounts = accounts /\ db'.nextId = db.nextId
        /\ db'.transactions = db.transactions
    BY <1>1, <2>1, WriteAccountsColumns
  <2> QED
    BY <1>3, <2>1, <2>2 DEF SingleWrite, WriteOps
<1>4. FailedAttemptsLock(0) = 0 /\ FailedAttemptsLock(3) = 1
  BY DEF FailedAttemptsLock
<1>5. CASE WriteLogin(s, r)
  <2>1. r.op = "LOGIN"
    BY <1>5 DEF WriteLogin
  <2>2. CASE seen[s].pin_hash = PinHash(seen[s].salt, r.pin)
    <3>1. WriteAccounts(UpdateLoginState(db.accounts, r.no, 0, FailedAttemptsLock(0)))
      BY <1>4, <1>5, <2>2 DEF WriteLogin
    <3> QED
      BY <1>3, <2>1, <3>1
  <2>3. CASE seen[s].pin_hash # PinHash(seen[s].salt, r.pin)
    <3>1. PICK failed : /\ failed = seen[s].failed_attempts + 1
                        /\ WriteAccounts(UpdateLoginState(db.accounts, r.no, failed,
                                                          FailedAttemptsLock(failed)))
      BY <1>5, <2>3 DEF WriteLogin
    <3>2. seen[s].failed_attempts \in 0 .. 2
      BY <1>1, <2>1 DEF Remembered, AccountRows
    <3>3. failed \in 0 .. 3
      BY <3>1, <3>2
    <3> QED
      BY <1>3, <2>1, <3>1, <3>3
  <2> QED
    BY <2>2, <2>3
<1>6. CASE WriteLock(r)
  <2>1. r.op \in {"LOCK_ACCOUNT", "UNLOCK_ACCOUNT"}
    BY <1>6 DEF WriteLock
  <2>2. \/ WriteAccounts(UpdateLoginState(db.accounts, r.no, 3, FailedAttemptsLock(3)))
        \/ WriteAccounts(UpdateLoginState(db.accounts, r.no, 0, FailedAttemptsLock(0)))
    BY <1>4, <1>6 DEF WriteLock
  <2> QED
    BY <1>3, <2>1, <2>2
<1>7. CASE WriteAdminPassword(r)
  BY <1>7 DEF WriteAdminPassword
<1> QED
  BY <1>2, <1>5, <1>6, <1>7 DEF Write

(* Among any number of processes, failing and crashing anywhere, committed *)
(* tables change by whole requests only (db_begin_transaction and the      *)
(* handlers of account.c that use it).                                     *)
THEOREM RequestsAreWhole == Spec => WholeRequests
<1> DEFINE Whole ==
      db' # db =>
        \E s \in Servers :
          \/ WholeTransaction(request[s], db, db')
          \/ SingleWrite(request[s], db, db')
<1>1. ASSUME IInv, [Next]_vars
      PROVE  Whole
  <2>1. ASSUME NEW s \in Servers, Write(s)
        PROVE  Whole
    BY <1>1, <2>1, WriteIsSingle
  <2>2. ASSUME NEW s \in Servers, Commit(s)
        PROVE  Whole
    BY <1>1, <2>2, CommitOutcome DEF WholeTransaction, Fits
  <2>3. CASE UNCHANGED db
    BY <2>3
  <2> QED
    BY <1>1, <2>1, <2>2, <2>3
       DEF Next, Advance, Receive, AdminLogin, Logout, Look, Begin, Plan, Execute,
           BusyTimeout, Fail, Crash, vars, database
<1>2. IInv /\ [Next]_vars => Whole
  BY <1>1
<1> HIDE DEF Whole
<1>3. Spec => [][Whole]_vars
  BY <1>2, Invariance, PTL DEF Spec
<1> QED
  BY <1>3 DEF Whole, WholeRequests

-------------------------------------------------------------------------------
(***************************************************************************)
(* One AtmCluster process implements AtmServer: whatever fails, times out  *)
(* or crashes between two statements, what the handlers make of the        *)
(* committed tables and the session are the steps of AtmServer.  Its       *)
(* tables are those of db, its session that of the one process.  So the    *)
(* two races that runs cluster_delete and cluster_lock show are ruled out. *)
(***************************************************************************)

(* The one process is the only one to write: what it read before its       *)
(* write, or before its transaction, is still so.                          *)
Fresh(s) ==
  LET r == request[s]
  IN  /\ pc[s] = "write" /\ r.op \in LookOps => r.no \in DOMAIN db.accounts
      /\ pc[s] = "write" /\ r.op = "LOGIN" => seen[s] = db.accounts[r.no]
      /\ pc[s] \in {"begin", "plan", "execute"} /\ r.op = "DELETE_ACCOUNT" =>
           r.no \in DOMAIN db.accounts /\ db.accounts[r.no].balance = 0

(* Every admin has one of the names, and an admin session that of an admin. *)
AdminsKnown ==
  /\ DOMAIN admins \subseteq AdminNames
  /\ \A s \in Servers :
       IsAdminSession(session[s]) => session[s].admin_username \in DOMAIN admins

RInv == IInv /\ AdminsKnown /\ \A s \in Servers : Fresh(s)

-------------------------------------------------------------------------------
LEMMA AnswerIsFresh ==
  ASSUME IInv, NEW s \in Servers, Answer(s)
  PROVE  Fresh(s)'
<1>1. pc'[s] = "idle"
  BY DEF Answer, IInv, LockHeldInside
<1> QED
  BY <1>1 DEF Fresh

LEMMA NextFresh ==
  ASSUME RInv, [Next]_vars, NEW one, Servers = {one}
  PROVE  Fresh(one)'
<1>0. one \in Servers /\ IInv /\ Fresh(one)
  BY DEF RInv
<1>1. CASE Receive(one)
  <2>1. PICK r \in Requests(one) :
          /\ request' = [request EXCEPT ![one] = r]
          /\ pc' = [pc EXCEPT ![one] = FirstStep(r.op)]
    BY <1>1 DEF Receive
  <2>2. pc'[one] = FirstStep(r.op) /\ request'[one] = r
    BY <1>0, <2>1 DEF IInv, Shapes, LockHeldInside
  <2>3. /\ r.op \in LookOps => FirstStep(r.op) = "look"
        /\ FirstStep(r.op) \in {"look", "write", "begin"}
    BY DEF FirstStep, LookOps
  <2> QED
    BY <2>2, <2>3 DEF Fresh, LookOps
<1>2. CASE AdminLogin(one) \/ Logout(one)
  BY <1>2 DEF AdminLogin, Logout, Fresh
<1>3. CASE Look(one)
  <2> DEFINE r == request[one]
  <2>1. CASE Answer(one)
    BY <1>0, <2>1, AnswerIsFresh
  <2>2. CASE ~Answer(one)
    <3>1. /\ r.no \in DOMAIN db.accounts
          /\ LooksGood(r, db.accounts[r.no])
          /\ seen' = [seen EXCEPT ![one] = db.accounts[r.no]]
          /\ UNCHANGED <<request, db>>
      BY <1>3, <2>2 DEF Look, database
    <3>2. seen'[one] = db.accounts[r.no]
      BY <1>0, <3>1 DEF IInv, Shapes
    <3>3. r.op = "DELETE_ACCOUNT" => db.accounts[r.no].balance = 0
      BY <3>1 DEF LooksGood
    <3> QED
      BY <3>1, <3>2, <3>3 DEF Fresh
  <2> QED
    BY <2>1, <2>2
<1>4. CASE Begin(one) \/ Plan(one) \/ Execute(one)
  <2>1. CASE Answer(one)
    BY <1>0, <2>1, AnswerIsFresh
  <2>2. CASE ~Answer(one)
    <3>1. /\ pc'[one] \in {"plan", "execute"}
          /\ pc[one] \in {"begin", "plan", "execute"}
          /\ UNCHANGED <<request, db>>
      <4>1. CASE Begin(one)
        BY <1>0, <4>1 DEF Begin, IInv, LockHeldInside
      <4>2. CASE Plan(one)
        BY <1>0, <2>2, <4>2 DEF Plan, IInv, LockHeldInside
      <4>3. CASE Execute(one)
        BY <1>0, <2>2, <4>3 DEF Execute, IInv, LockHeldInside
      <4> QED
        BY <1>4, <4>1, <4>2, <4>3
    <3> QED
      BY <1>0, <3>1 DEF Fresh
  <2> QED
    BY <2>1, <2>2
<1>5. CASE Write(one) \/ Commit(one) \/ BusyTimeout(one) \/ Fail(one) \/ Crash(one)
  BY <1>0, <1>5, AnswerIsFresh DEF Write, Commit, BusyTimeout, Fail, Crash
<1>6. CASE UNCHANGED vars
  BY <1>0, <1>6 DEF vars, database, local, Fresh
<1> QED
  BY <1>1, <1>2, <1>3, <1>4, <1>5, <1>6 DEF Next, Advance

(* A session changes to that of a present admin, or to none of an admin.   *)
LEMMA NextSessions ==
  ASSUME IInv, [Next]_vars
  PROVE  \/ UNCHANGED session
         \/ \E s \in Servers : \E new :
              /\ session' = [session EXCEPT ![s] = new]
              /\ IsAdminSession(new) => new.admin_username \in DOMAIN admins
<1>1. ASSUME NEW s \in Servers, AdminLogin(s)
      PROVE  \E new : /\ session' = [session EXCEPT ![s] = new]
                      /\ IsAdminSession(new) => new.admin_username \in DOMAIN admins
  <2>1. PICK username \in DOMAIN admins :
          session' = [session EXCEPT ![s] =
            [ResetSession EXCEPT !.is_admin = 1, !.admin_username = username]]
    BY <1>1 DEF AdminLogin
  <2>2. [ResetSession EXCEPT !.is_admin = 1, !.admin_username = username].admin_username
          = username
    BY DEF ResetSession
  <2> QED
    BY <2>1, <2>2
<1>2. ASSUME NEW s \in Servers, session' = [session EXCEPT ![s] = ResetSession]
      PROVE  \E new : /\ session' = [session EXCEPT ![s] = new]
                      /\ IsAdminSession(new) => new.admin_username \in DOMAIN admins
  <2>1. ~IsAdminSession(ResetSession)
    BY DEF ResetSession, IsAdminSession
  <2> QED
    BY <1>2, <2>1
<1>3. ASSUME NEW s \in Servers, NEW r, WriteLogin(s, r)
      PROVE  \/ UNCHANGED session
             \/ \E new : /\ session' = [session EXCEPT ![s] = new]
                         /\ IsAdminSession(new) => new.admin_username \in DOMAIN admins
  <2>1. ~IsAdminSession([ResetSession EXCEPT !.customer_account_no = r.no])
    BY DEF ResetSession, IsAdminSession
  <2> QED
    BY <1>3, <2>1 DEF WriteLogin
<1>4. CASE UNCHANGED vars
  BY <1>4 DEF vars, local
<1> QED
  BY <1>1, <1>2, <1>3, <1>4
     DEF Next, Advance, Receive, Logout, Look, Write, WriteNewAccount, WriteLock,
         WriteAdminPassword, Begin, Plan, Execute, Commit, BusyTimeout, Fail, Crash

LEMMA NextAdmins ==
  ASSUME IInv, [Next]_vars
  PROVE  DOMAIN admins' = DOMAIN admins
<1>1. CASE UNCHANGED vars
  BY <1>1 DEF vars, database
<1> QED
  BY <1>1
     DEF Next, Advance, Receive, AdminLogin, Logout, Look, Write, WriteNewAccount,
         WriteLogin, WriteLock, WriteAdminPassword, Begin, Plan, Execute, Commit,
         BusyTimeout, Fail, Crash, database

LEMMA NextAdminsKnown ==
  ASSUME IInv, AdminsKnown, [Next]_vars
  PROVE  AdminsKnown'
<1>1. DOMAIN session = Servers
  BY DEF IInv, Shapes
<1> QED
  BY <1>1, NextSessions, NextAdmins DEF AdminsKnown

LEMMA NextRInv ==
  ASSUME RInv, [Next]_vars, NEW one, Servers = {one}
  PROVE  RInv'
  BY NextIInv, NextAdminsKnown, NextFresh DEF RInv

LEMMA InitRInv ==
  ASSUME Init
  PROVE  RInv
<1>1. IInv
  BY InitIInv
<1>2. AdminsKnown
  BY DEF Init, AdminsKnown, ResetSession, IsAdminSession
<1>3. \A s \in Servers : Fresh(s)
  BY DEF Init, Fresh
<1> QED
  BY <1>1, <1>2, <1>3 DEF RInv

-------------------------------------------------------------------------------
(* AtmServer's statements are those of AtmTables.                          *)
LEMMA SameStatements ==
  /\ \A acc, no, row : Atomic!InsertAccountRow(acc, no, row) = InsertAccountRow(acc, no, row)
  /\ \A acc, no : Atomic!DeleteAccountRow(acc, no) = DeleteAccountRow(acc, no)
  /\ \A acc, no, b : Atomic!UpdateBalance(acc, no, b) = UpdateBalance(acc, no, b)
  /\ \A acc, no, f, l : Atomic!UpdateLoginState(acc, no, f, l) = UpdateLoginState(acc, no, f, l)
  /\ \A acc, no, h, salt : Atomic!UpdatePin(acc, no, h, salt) = UpdatePin(acc, no, h, salt)
  /\ \A t, id, row : Atomic!InsertTransaction(t, id, row) = InsertTransaction(t, id, row)
  /\ \A t, a, b : Atomic!MoveRows(t, a, b) = MoveRows(t, a, b)
  /\ \A t, a, b : Atomic!RelinkRows(t, a, b) = RelinkRows(t, a, b)
  /\ \A t, a : Atomic!DeleteRowsOf(t, a) = DeleteRowsOf(t, a)
  BY DEF Atomic!InsertAccountRow, InsertAccountRow, Atomic!DeleteAccountRow, DeleteAccountRow,
         Atomic!UpdateBalance, UpdateBalance, Atomic!UpdateLoginState, UpdateLoginState,
         Atomic!UpdatePin, UpdatePin, Atomic!InsertTransaction, InsertTransaction,
         Atomic!MoveRows, MoveRows, Atomic!RelinkRows, RelinkRows,
         Atomic!DeleteRowsOf, DeleteRowsOf, Atomic!RowsOf, RowsOf

(* So are its rows, hashes and checks.                                     *)
LEMMA SameRows ==
  /\ \A no, rel, type, amount, after :
       Atomic!TransactionRow(no, rel, type, amount, after)
         = TransactionRow(no, rel, type, amount, after)
  /\ \A hash, salt : Atomic!NewAccountRow(hash, salt) = NewAccountRow(hash, salt)
  /\ \A row, pin, salt : Atomic!RenumberedRow(row, pin, salt) = RenumberedRow(row, pin, salt)
  /\ \A u, w, salt : Atomic!AdminRow(u, w, salt) = AdminRow(u, w, salt)
  /\ \A salt, pin : Atomic!PinHash(salt, pin) = PinHash(salt, pin)
  /\ \A salt, u, w : Atomic!PasswordHash(salt, u, w) = PasswordHash(salt, u, w)
  /\ \A pin : Atomic!ValidPin(pin) <=> ValidPin(pin)
  /\ \A n : Atomic!FailedAttemptsLock(n) = FailedAttemptsLock(n)
  /\ Atomic!ResetSession = ResetSession
  /\ Atomic!NoAccount = NoAccount
  /\ \A x : Atomic!IsCustomerSession(x) <=> IsCustomerSession(x)
  /\ \A x : Atomic!IsAdminSession(x) <=> IsAdminSession(x)
  BY DEF Atomic!TransactionRow, TransactionRow, Atomic!NewAccountRow, NewAccountRow,
         Atomic!RenumberedRow, RenumberedRow, Atomic!AdminRow, AdminRow,
         Atomic!PinHash, PinHash, Atomic!PasswordHash, PasswordHash,
         Atomic!ValidPin, ValidPin, Atomic!FailedAttemptsLock, FailedAttemptsLock,
         Atomic!ResetSession, ResetSession, Atomic!NoAccount, NoAccount,
         Atomic!NoName, NoName, Atomic!IsCustomerSession, IsCustomerSession,
         Atomic!IsAdminSession, IsAdminSession

LEMMA TheOnlyServer ==
  ASSUME NEW one, Servers = {one}
  PROVE  TheServer = one
  BY DEF TheServer

(* A request was allowed by the session it came with.                      *)
LEMMA RequestAllowed ==
  ASSUME NEW s, NEW r \in Requests(s)
  PROVE  /\ r.op \in {"DEPOSIT", "WITHDRAW", "TRANSFER"} =>
              /\ IsCustomerSession(session[s])
              /\ r.no = session[s].customer_account_no
         /\ r.op \in {"ADMIN_CREDIT", "ADMIN_DEBIT", "LOCK_ACCOUNT", "UNLOCK_ACCOUNT",
                      "EDIT_ACCOUNT", "DELETE_ACCOUNT", "CHANGE_ADMIN_PASSWORD"} =>
              IsAdminSession(session[s])
         /\ r.op = "EDIT_ACCOUNT" => r.pin \in GoodPins
         /\ r.op = "CHANGE_ADMIN_PASSWORD" =>
              /\ r.username = session[s].admin_username
              /\ r.password \in Passwords
              /\ Long(Trim(r.password))
              /\ r.salt \in Salts
<1>1. CASE r \in PublicRequests
  BY <1>1 DEF PublicRequests
<1>2. CASE IsCustomerSession(session[s])
           /\ r \in CustomerRequests(session[s].customer_account_no)
  BY <1>2 DEF CustomerRequests
<1>3. CASE IsAdminSession(session[s]) /\ r \in AdminRequests(session[s].admin_username)
  BY <1>3 DEF AdminRequests
<1> QED
  BY <1>1, <1>2, <1>3 DEF Requests

-------------------------------------------------------------------------------
(* Step by step.  What a handler does before it writes is a stutter.       *)
LEMMA QuietStep ==
  ASSUME UNCHANGED <<db, admins, session>>
  PROVE  UNCHANGED Atomic!vars
  BY DEF Atomic!vars

LEMMA AdminLoginStep ==
  ASSUME RInv, NEW one, Servers = {one}, AdminLogin(one)
  PROVE  Atomic!Next
<1>1. PICK username \in DOMAIN admins, password \in Passwords :
        /\ admins[username].password_hash
             = PasswordHash(admins[username].password_salt, username, password)
        /\ session' = [session EXCEPT ![one] =
             [ResetSession EXCEPT !.is_admin = 1, !.admin_username = username]]
  BY DEF AdminLogin
<1>2. session'[TheServer] = [ResetSession EXCEPT !.is_admin = 1, !.admin_username = username]
  BY <1>1, TheOnlyServer DEF RInv, IInv, Shapes
<1>3. UNCHANGED <<db, admins>>
  BY DEF AdminLogin, database
<1>4. Atomic!AdminLogin(username, password)
  BY <1>1, <1>2, <1>3, SameRows DEF Atomic!AdminLogin, Atomic!PasswordMatches, Atomic!tables
<1>5. username \in AdminNames
  BY DEF RInv, AdminsKnown
<1> QED
  BY <1>4, <1>5 DEF Atomic!Next, Atomic!AdminRequest

LEMMA LogoutStep ==
  ASSUME IInv, NEW one, Servers = {one}, UNCHANGED <<db, admins>>,
         session' = [session EXCEPT ![one] = ResetSession]
  PROVE  Atomic!Next
<1>1. session'[TheServer] = ResetSession
  BY TheOnlyServer DEF IInv, Shapes
<1>2. Atomic!Logout
  BY <1>1, SameRows DEF Atomic!Logout, Atomic!tables
<1> QED
  BY <1>2 DEF Atomic!Next

LEMMA CreateAccountStep ==
  ASSUME RInv, NEW one, Servers = {one}, Write(one), WriteNewAccount(request[one])
  PROVE  [Atomic!Next]_(Atomic!vars)
<1> DEFINE r == request[one]
<1>1. /\ r.op = "CREATE_ACCOUNT"
      /\ UNCHANGED <<admins, session>>
      /\ one \in Servers /\ IInv /\ work = db /\ Typed(db)
      /\ r \in Requests(one)
      /\ SessionFits(one)
  BY DEF Write, WriteNewAccount, RInv, IInv, InHandler, Asked, Sound
<1>2. CASE r.no \in DOMAIN db.accounts
  BY <1>1, <1>2, QuietStep DEF WriteNewAccount
<1>3. CASE r.no \notin DOMAIN db.accounts
  <2>1. r.no \in Positive(Numbers) /\ r.pin \in GoodPins /\ r.salt \in Salts
    BY <1>1, RequestFits
  <2>2. WriteAccounts(InsertAccountRow(db.accounts, r.no,
                        NewAccountRow(PinHash(r.salt, r.pin), r.salt)))
    BY <1>3 DEF WriteNewAccount
  <2>3. /\ db'.accounts = InsertAccountRow(db.accounts, r.no,
                            NewAccountRow(PinHash(r.salt, r.pin), r.salt))
        /\ db'.nextId = db.nextId
        /\ db'.transactions = db.transactions
    BY <1>1, <2>2, WriteAccountsColumns
  <2>4. r.no > 0 /\ ValidPin(r.pin)
    BY <2>1 DEF Positive, GoodPins
  <2>5. Atomic!CreateAccount(r.no, r.pin, r.salt)
    BY <1>1, <1>3, <2>3, <2>4, SameStatements, SameRows DEF Atomic!CreateAccount
  <2> QED
    BY <2>1, <2>5 DEF Atomic!Next, Atomic!AccountRequest, Positive, GoodPins
<1> QED
  BY <1>2, <1>3

LEMMA LoginStep ==
  ASSUME RInv, NEW one, Servers = {one}, Write(one), WriteLogin(one, request[one])
  PROVE  Atomic!Next
<1> DEFINE r == request[one]
           row == db.accounts[r.no]
<1>1. /\ r.op = "LOGIN"
      /\ UNCHANGED admins
      /\ one \in Servers /\ IInv /\ work = db /\ Typed(db)
      /\ r \in Requests(one)
      /\ SessionFits(one)
      /\ pc[one] = "write"
  BY DEF Write, WriteLogin, RInv, IInv, InHandler, Asked, Sound
<1>2. r.no \in DOMAIN db.accounts /\ seen[one] = row
  BY <1>1 DEF RInv, Fresh, LookOps
<1>3. row.is_locked = 0
  BY <1>1, <1>2 DEF IInv, InHandler, Remembered
<1>4. r.no \in Positive(Numbers) /\ r.pin \in GoodPins
  BY <1>1, RequestFits DEF LookOps
<1>5. ASSUME NEW failed, NEW locked,
             WriteAccounts(UpdateLoginState(db.accounts, r.no, failed, locked))
      PROVE  /\ db'.accounts = Atomic!UpdateLoginState(db.accounts, r.no, failed, locked)
             /\ db'.nextId = db.nextId
             /\ db'.transactions = db.transactions
  BY <1>1, <1>5, WriteAccountsColumns, SameStatements
<1>6. CASE seen[one].pin_hash = PinHash(seen[one].salt, r.pin)
  <2>1. /\ WriteAccounts(UpdateLoginState(db.accounts, r.no, 0, 0))
        /\ session' = [session EXCEPT ![one] =
                         [ResetSession EXCEPT !.customer_account_no = r.no]]
    BY <1>6 DEF WriteLogin
  <2>2. session'[TheServer] = [ResetSession EXCEPT !.customer_account_no = r.no]
    BY <1>1, <2>1, TheOnlyServer DEF IInv, Shapes
  <2>3. Atomic!PinMatches(r.no, r.pin) /\ Atomic!ValidPin(r.pin)
    BY <1>2, <1>4, <1>6, SameRows DEF Atomic!PinMatches, GoodPins
  <2>4. Atomic!LoginRightPin(r.no, r.pin)
    BY <1>1, <1>2, <1>3, <1>5, <2>1, <2>2, <2>3, SameRows DEF Atomic!LoginRightPin
  <2> QED
    BY <1>4, <2>4 DEF Atomic!Next, Atomic!AccountRequest, Positive, GoodPins
<1>7. CASE seen[one].pin_hash # PinHash(seen[one].salt, r.pin)
  <2> DEFINE failed_attempts == row.failed_attempts + 1
  <2>1. /\ WriteAccounts(UpdateLoginState(db.accounts, r.no, failed_attempts,
                           FailedAttemptsLock(failed_attempts)))
        /\ UNCHANGED session
    BY <1>2, <1>7 DEF WriteLogin
  <2>2. ~Atomic!PinMatches(r.no, r.pin) /\ Atomic!ValidPin(r.pin)
    BY <1>2, <1>4, <1>7, SameRows DEF Atomic!PinMatches, GoodPins
  <2>3. db'.accounts = Atomic!UpdateLoginState(db.accounts, r.no, failed_attempts,
                         Atomic!FailedAttemptsLock(failed_attempts))
    BY <1>5, <2>1, SameRows
  <2>4. Atomic!LoginWrongPin(r.no, r.pin)
    BY <1>1, <1>2, <1>3, <1>5, <2>1, <2>2, <2>3 DEF Atomic!LoginWrongPin
  <2> QED
    BY <1>4, <2>4 DEF Atomic!Next, Atomic!AccountRequest, Positive, GoodPins
<1> QED
  BY <1>6, <1>7

LEMMA LockStep ==
  ASSUME RInv, NEW one, Servers = {one}, Write(one), WriteLock(request[one])
  PROVE  Atomic!Next
<1> DEFINE r == request[one]
           locked == r.op = "LOCK_ACCOUNT"
<1>1. /\ r.op \in {"LOCK_ACCOUNT", "UNLOCK_ACCOUNT"}
      /\ UNCHANGED <<admins, session>>
      /\ one \in Servers /\ IInv /\ work = db /\ Typed(db)
      /\ r \in Requests(one)
      /\ SessionFits(one)
      /\ pc[one] = "write"
  BY DEF Write, WriteLock, RInv, IInv, InHandler, Asked, Sound
<1>2. r.no \in DOMAIN db.accounts
  BY <1>1 DEF RInv, Fresh, LookOps
<1>3. r.no \in Positive(Numbers) /\ Atomic!IsAdminSession(session[TheServer])
  BY <1>1, RequestFits, RequestAllowed, TheOnlyServer, SameRows DEF LookOps
<1>4. WriteAccounts(UpdateLoginState(db.accounts, r.no, IF locked THEN 3 ELSE 0,
                      IF locked THEN 1 ELSE 0))
  BY DEF WriteLock
<1>5. /\ db'.accounts = Atomic!UpdateLoginState(db.accounts, r.no,
                          IF locked THEN 3 ELSE 0, IF locked THEN 1 ELSE 0)
      /\ db'.nextId = db.nextId
      /\ db'.transactions = db.transactions
  BY <1>1, <1>4, WriteAccountsColumns, SameStatements
<1>6. Atomic!LockAccount(r.no) \/ Atomic!UnlockAccount(r.no)
  BY <1>1, <1>2, <1>3, <1>5 DEF Atomic!LockAccount, Atomic!UnlockAccount, Positive
<1> QED
  BY <1>3, <1>6 DEF Atomic!Next, Atomic!AdminRequest, Positive

LEMMA PasswordStep ==
  ASSUME RInv, NEW one, Servers = {one}, Write(one), WriteAdminPassword(request[one])
  PROVE  Atomic!Next
<1> DEFINE r == request[one]
<1>1. /\ r.op = "CHANGE_ADMIN_PASSWORD"
      /\ UNCHANGED <<db, session>>
      /\ admins' = [admins EXCEPT ![r.username] = AdminRow(r.username, Trim(r.password), r.salt)]
      /\ r \in Requests(one)
  BY DEF Write, WriteAdminPassword, RInv, IInv, InHandler, Asked
<1>2. /\ IsAdminSession(session[one])
      /\ r.username = session[one].admin_username
      /\ r.password \in Passwords
      /\ Long(Trim(r.password))
      /\ r.salt \in Salts
  BY <1>1, RequestAllowed
<1>3. session[one].admin_username \in DOMAIN admins
  BY <1>2 DEF RInv, AdminsKnown
<1>4. Atomic!ChangeAdminPassword(r.password, r.salt)
  BY <1>1, <1>2, <1>3, TheOnlyServer, SameRows DEF Atomic!ChangeAdminPassword, Atomic!tables
<1> QED
  BY <1>2, <1>4 DEF Atomic!Next, Atomic!AdminRequest

-------------------------------------------------------------------------------
(* COMMIT is the whole handler, seen from outside.                         *)
LEMMA CommitFacts ==
  ASSUME RInv, NEW one, Servers = {one}, Commit(one)
  PROVE  LET r == request[one]
         IN  /\ Outcome(r, db, db')
             /\ Admissible(r, db)
             /\ Fits(r)
             /\ r \in Requests(one)
             /\ r.op = "DELETE_ACCOUNT" =>
                  r.no \in DOMAIN db.accounts /\ db.accounts[r.no].balance = 0
             /\ UNCHANGED <<admins, session>>
<1>1. one \in Servers /\ IInv /\ pc[one] = "execute" /\ UNCHANGED <<admins, session>>
  BY DEF RInv, Commit
<1>2. request[one] \in Requests(one)
  BY <1>1 DEF IInv, InHandler, Asked
<1>3. Fresh(one)
  BY DEF RInv
<1> QED
  BY <1>1, <1>2, <1>3, CommitOutcome DEF Fresh

LEMMA EntryStep ==
  ASSUME RInv, NEW one, Servers = {one}, Commit(one),
         EntryOutcome(request[one], db, db')
  PROVE  Atomic!Next
<1> DEFINE r == request[one]
<1>1. /\ IsEntry(r.op) /\ Admissible(r, db) /\ Fits(r) /\ r \in Requests(one)
      /\ UNCHANGED <<admins, session>>
  BY CommitFacts DEF EntryOutcome
<1>2. r.op \in {"DEPOSIT", "ADMIN_CREDIT", "WITHDRAW", "ADMIN_DEBIT"}
  BY <1>1 DEF IsEntry, IsCredit
<1>3. /\ IsCredit(r.op) <=> r.op \in Atomic!CreditTypes
      /\ RowsWritten(r.op) = 1
  BY <1>1, <1>2 DEF IsCredit, IsEntry, RowsWritten, Atomic!CreditTypes
<1>4. /\ r.no \in DOMAIN db.accounts
      /\ r.no \in Numbers
      /\ r.amount \in Amounts /\ r.amount > 0
      /\ db.nextId + 1 <= MaxTransactions + 1
      /\ r.op \in Atomic!CreditTypes \/ r.amount <= db.accounts[r.no].balance
  BY <1>1, <1>2, <1>3 DEF Admissible, Fits, Positive, IsCredit
<1>5. Atomic!ApplyBalanceTransaction(r.no, r.amount, r.op)
  <2> DEFINE after == IF r.op \in Atomic!CreditTypes
                        THEN db.accounts[r.no].balance + r.amount
                        ELSE db.accounts[r.no].balance - r.amount
  <2>1. after = NewBalance(r, db)
    BY <1>3 DEF NewBalance
  <2> HIDE DEF after
  <2>2. /\ db'.nextId = db.nextId + 1
        /\ db'.accounts = Atomic!UpdateBalance(db.accounts, r.no, after)
        /\ db'.transactions =
             Atomic!InsertTransaction(db.transactions, db.nextId,
               Atomic!TransactionRow(r.no, Atomic!NoAccount, r.op, r.amount, after))
    BY <2>1, SameStatements, SameRows DEF EntryOutcome
  <2>3. Atomic!RoomForTransactions(1) /\ Atomic!Covered(r.no, r.amount, r.op)
    BY <1>4 DEF Atomic!RoomForTransactions, Atomic!Covered
  <2> QED
    BY <1>1, <1>4, <2>2, <2>3 DEF Atomic!ApplyBalanceTransaction, after
<1>6. CASE r.op \in {"DEPOSIT", "WITHDRAW"}
  <2>1. /\ Atomic!IsCustomerSession(session[TheServer])
        /\ r.no = session[TheServer].customer_account_no
    BY <1>1, <1>6, RequestAllowed, TheOnlyServer, SameRows
  <2>2. Atomic!Deposit(r.amount) \/ Atomic!Withdraw(r.amount)
    BY <1>5, <1>6, <2>1 DEF Atomic!Deposit, Atomic!Withdraw
  <2> QED
    BY <1>4, <2>2 DEF Atomic!Next, Atomic!CustomerRequest
<1>7. CASE r.op \in {"ADMIN_CREDIT", "ADMIN_DEBIT"}
  <2>1. Atomic!IsAdminSession(session[TheServer])
    BY <1>1, <1>7, RequestAllowed, TheOnlyServer, SameRows
  <2>2. Atomic!AdminCredit(r.no, r.amount) \/ Atomic!AdminDebit(r.no, r.amount)
    BY <1>5, <1>7, <2>1 DEF Atomic!AdminCredit, Atomic!AdminDebit
  <2> QED
    BY <1>4, <2>2 DEF Atomic!Next, Atomic!AdminRequest
<1> QED
  BY <1>2, <1>6, <1>7

LEMMA TransferStep ==
  ASSUME RInv, NEW one, Servers = {one}, Commit(one),
         TransferOutcome(request[one], db, db')
  PROVE  Atomic!Next
<1> DEFINE r == request[one]
           sender_balance == db.accounts[r.no].balance - r.amount
           receiver_balance == db.accounts[r.to].balance + r.amount
<1>1. /\ r.op = "TRANSFER" /\ Admissible(r, db) /\ Fits(r) /\ r \in Requests(one)
      /\ UNCHANGED <<admins, session>>
  BY CommitFacts DEF TransferOutcome
<1>2. RowsWritten(r.op) = 2
  BY <1>1 DEF RowsWritten, IsEntry, IsCredit
<1>3. /\ r.no \in DOMAIN db.accounts /\ r.to \in DOMAIN db.accounts
      /\ r.to \in Numbers /\ r.to > 0 /\ r.to # r.no
      /\ r.amount \in Amounts /\ r.amount > 0
      /\ r.amount <= db.accounts[r.no].balance
      /\ db.nextId + 2 <= MaxTransactions + 1
  BY <1>1, <1>2 DEF Admissible, Fits, Positive
<1>4. /\ Atomic!IsCustomerSession(session[TheServer])
      /\ r.no = session[TheServer].customer_account_no
  BY <1>1, RequestAllowed, TheOnlyServer, SameRows
<1>5. /\ db'.nextId = db.nextId + 2
      /\ db'.accounts = UpdateBalance(UpdateBalance(db.accounts, r.no, sender_balance),
                                      r.to, receiver_balance)
      /\ db'.transactions =
           InsertTransaction(
             InsertTransaction(db.transactions, db.nextId,
               TransactionRow(r.no, r.to, "TRANSFER_SENT", r.amount, sender_balance)),
             db.nextId + 1,
             TransactionRow(r.to, r.no, "TRANSFER_RECEIVED", r.amount, receiver_balance))
  BY DEF TransferOutcome
<1>6. /\ db'.accounts = Atomic!UpdateBalance(
                          Atomic!UpdateBalance(db.accounts, r.no, sender_balance),
                          r.to, receiver_balance)
      /\ db'.transactions =
           Atomic!InsertTransferRows(r.no, r.to, r.amount, sender_balance, receiver_balance)
  BY <1>5, SameStatements, SameRows DEF Atomic!InsertTransferRows
<1>7. Atomic!Transfer(r.to, r.amount)
  <2>1. Atomic!RoomForTransactions(2)
    BY <1>3 DEF Atomic!RoomForTransactions
  <2> QED
    BY <1>1, <1>3, <1>4, <1>5, <1>6, <2>1 DEF Atomic!Transfer
<1> QED
  BY <1>3, <1>7 DEF Atomic!Next, Atomic!CustomerRequest

LEMMA EditStep ==
  ASSUME RInv, NEW one, Servers = {one}, Commit(one),
         \/ PinOutcome(request[one], db, db')
         \/ RenumberOutcome(request[one], db, db')
  PROVE  Atomic!Next
<1> DEFINE r == request[one]
<1>1. /\ r.op = "EDIT_ACCOUNT" /\ Admissible(r, db) /\ Fits(r) /\ r \in Requests(one)
      /\ UNCHANGED <<admins, session>>
  BY CommitFacts DEF PinOutcome, RenumberOutcome
<1>2. /\ r.no \in DOMAIN db.accounts
      /\ r.no \in Numbers /\ r.no > 0
      /\ r.to \in Numbers /\ r.to > 0
      /\ r.pin \in Pins /\ r.salt \in Salts
  BY <1>1 DEF Admissible, Fits, Positive
<1>3. Atomic!ValidPin(r.pin) /\ Atomic!IsAdminSession(session[TheServer])
  BY <1>1, RequestAllowed, TheOnlyServer, SameRows DEF GoodPins
<1>4. db'.nextId = db.nextId
  BY DEF PinOutcome, RenumberOutcome
<1>5. \/ /\ r.no = r.to
         /\ db'.accounts = Atomic!UpdatePin(db.accounts, r.no,
                             Atomic!PinHash(r.salt, r.pin), r.salt)
         /\ db'.transactions = db.transactions
      \/ /\ r.no # r.to
         /\ r.to \notin DOMAIN db.accounts
         /\ db'.accounts = Atomic!DeleteAccountRow(
                             Atomic!InsertAccountRow(db.accounts, r.to,
                               Atomic!RenumberedRow(db.accounts[r.no], r.pin, r.salt)),
                             r.no)
         /\ db'.transactions = Atomic!RenumberedTransactions(r.no, r.to)
  BY SameStatements, SameRows
     DEF PinOutcome, RenumberOutcome, Atomic!RenumberedTransactions
<1>6. Atomic!EditAccount(r.no, r.to, r.pin, r.salt)
  BY <1>1, <1>2, <1>3, <1>4, <1>5 DEF Atomic!EditAccount
<1> QED
  BY <1>2, <1>6 DEF Atomic!Next, Atomic!AdminRequest

LEMMA DeleteStep ==
  ASSUME RInv, NEW one, Servers = {one}, Commit(one),
         DeleteOutcome(request[one], db, db')
  PROVE  Atomic!Next
<1> DEFINE r == request[one]
<1>1. /\ r.op = "DELETE_ACCOUNT" /\ Fits(r) /\ r \in Requests(one)
      /\ r.no \in DOMAIN db.accounts /\ db.accounts[r.no].balance = 0
      /\ UNCHANGED <<admins, session>>
  BY CommitFacts DEF DeleteOutcome
<1>2. r.no \in Numbers /\ r.no > 0
  BY <1>1 DEF Fits, Positive
<1>3. Atomic!IsAdminSession(session[TheServer])
  BY <1>1, RequestAllowed, TheOnlyServer, SameRows
<1>4. /\ db'.nextId = db.nextId
      /\ db'.accounts = Atomic!DeleteAccountRow(db.accounts, r.no)
      /\ db'.transactions = Atomic!TransactionsWithout(r.no)
  BY SameStatements, SameRows DEF DeleteOutcome, Atomic!TransactionsWithout
<1>5. Atomic!DeleteAccount(r.no)
  BY <1>1, <1>2, <1>3, <1>4 DEF Atomic!DeleteAccount, Atomic!Deletable
<1> QED
  BY <1>2, <1>5 DEF Atomic!Next, Atomic!AdminRequest

LEMMA CommitStep ==
  ASSUME RInv, NEW one, Servers = {one}, Commit(one)
  PROVE  Atomic!Next
  BY CommitFacts, EntryStep, TransferStep, EditStep, DeleteStep DEF Outcome

-------------------------------------------------------------------------------
LEMMA NextImplements ==
  ASSUME RInv, [Next]_vars, NEW one, Servers = {one}
  PROVE  [Atomic!Next]_(Atomic!vars)
<1>0. one \in Servers /\ IInv
  BY DEF RInv
<1>1. CASE \/ Receive(one) \/ Look(one) \/ Begin(one) \/ Plan(one) \/ Execute(one)
           \/ BusyTimeout(one) \/ Fail(one)
  <2>1. UNCHANGED <<db, admins, session>>
    BY <1>1 DEF Receive, Look, Begin, Plan, Execute, BusyTimeout, Fail, database
  <2> QED
    BY <2>1, QuietStep
<1>2. CASE AdminLogin(one)
  BY <1>2, AdminLoginStep
<1>3. CASE Logout(one) \/ Crash(one)
  BY <1>0, <1>3, LogoutStep DEF Logout, Crash, database
<1>4. CASE Write(one)
  BY <1>4, CreateAccountStep, LoginStep, LockStep, PasswordStep DEF Write
<1>5. CASE Commit(one)
  BY <1>5, CommitStep
<1>6. CASE UNCHANGED vars
  BY <1>6, QuietStep DEF vars, database, local
<1> QED
  BY <1>1, <1>2, <1>3, <1>4, <1>5, <1>6 DEF Next, Advance

LEMMA InitImplements ==
  ASSUME Init, NEW one, Servers = {one}
  PROVE  Atomic!Init
<1>1. /\ db.accounts = [a \in {} |-> NoRow]
      /\ db.transactions = [i \in {} |-> TransactionRow(0, 0, "", 0, 0)]
      /\ db.nextId = 1
      /\ session[one] = ResetSession
  BY DEF Init
<1>2. /\ db.accounts = [a \in {} |-> Atomic!NewAccountRow(<<>>, 0)]
      /\ db.transactions = [i \in {} |-> Atomic!TransactionRow(0, 0, "", 0, 0)]
  BY <1>1, SameRows DEF NoRow
<1>3. \E username \in AdminNames, password \in Passwords, salt \in Salts :
        /\ Long(password)
        /\ admins = [u \in {username} |-> Atomic!AdminRow(u, password, salt)]
  <2>1. PICK username \in AdminNames, password \in Passwords, salt \in Salts :
          /\ Long(password)
          /\ admins = [u \in {username} |-> AdminRow(u, password, salt)]
    BY DEF Init
  <2>2. admins = [u \in {username} |-> Atomic!AdminRow(u, password, salt)]
    BY <2>1, SameRows
  <2> QED
    BY <2>1, <2>2
<1> QED
  BY <1>1, <1>2, <1>3, TheOnlyServer, SameRows DEF Atomic!Init

(* One server process that fails, times out and crashes between any two    *)
(* statements implements the server whose handlers are single steps:       *)
(* whatever is proved of AtmServer holds of it.                            *)
THEOREM OneServerImplements ==
  ASSUME NEW one, Servers = {one}
  PROVE  Spec => ImplementsServer
<1>1. Init => RInv /\ Atomic!Init
  BY InitRInv, InitImplements
<1>2. RInv /\ [Next]_vars => RInv'
  BY NextRInv
<1>3. RInv /\ [Next]_vars => [Atomic!Next]_(Atomic!vars)
  BY NextImplements
<1> QED
  BY <1>1, <1>2, <1>3, PTL DEF Spec, ImplementsServer, Atomic!Spec

-------------------------------------------------------------------------------
(* What goes wrong with two processes does not with one.                   *)

LEMMA WriteKeepsAccounts ==
  ASSUME RInv, NEW one, Servers = {one}, Write(one)
  PROVE  DOMAIN db.accounts \subseteq DOMAIN db'.accounts
<1>1. work = db /\ Typed(db)
  BY DEF Write, RInv, IInv, Sound
<1>2. ASSUME NEW accounts, WriteAccounts(accounts), DOMAIN db.accounts \subseteq DOMAIN accounts
      PROVE  DOMAIN db.accounts \subseteq DOMAIN db'.accounts
  BY <1>1, <1>2, WriteAccountsColumns
<1>3. \A no, row : DOMAIN db.accounts \subseteq DOMAIN InsertAccountRow(db.accounts, no, row)
  BY DEF InsertAccountRow
<1>4. \A no, failed, locked :
        DOMAIN UpdateLoginState(db.accounts, no, failed, locked) = DOMAIN db.accounts
  BY DEF UpdateLoginState
<1> QED
  BY <1>2, <1>3, <1>4 DEF Write, WriteNewAccount, WriteLogin, WriteLock, WriteAdminPassword

(* The row a deletion or renumbering takes away, and what it leaves.       *)
LEMMA CommitTakesAway ==
  ASSUME RInv, NEW one, Servers = {one}, Commit(one),
         NEW a \in DOMAIN db.accounts \ DOMAIN db'.accounts
  PROVE  \/ db.accounts[a].balance = 0
         \/ \E b \in DOMAIN db'.accounts \ DOMAIN db.accounts :
              db'.accounts[b].balance = db.accounts[a].balance
<1> DEFINE r == request[one]
<1>1. Outcome(r, db, db') /\ Typed(db) /\ Admissible(r, db) /\ Fits(r)
  BY CommitFacts DEF RInv, IInv, Sound
<1>2. CASE DeleteOutcome(r, db, db')
  <2>1. a = r.no /\ r.op = "DELETE_ACCOUNT"
    BY <1>2 DEF DeleteOutcome, DeleteAccountRow
  <2> QED
    BY <2>1, CommitFacts
<1>3. CASE RenumberOutcome(r, db, db')
  <2> DEFINE row == RenumberedRow(db.accounts[r.no], r.pin, r.salt)
  <2>1. /\ r.no # r.to /\ r.to \notin DOMAIN db.accounts
        /\ db'.accounts = DeleteAccountRow(InsertAccountRow(db.accounts, r.to, row), r.no)
    BY <1>3 DEF RenumberOutcome
  <2>2. a = r.no /\ r.to \in DOMAIN db'.accounts /\ db'.accounts[r.to] = row
    BY <2>1 DEF DeleteAccountRow, InsertAccountRow
  <2>3. row.balance = db.accounts[a].balance
    <3>1. db.accounts[a] \in AccountRows
      BY <1>1 DEF Typed
    <3> QED
      BY <2>2, <3>1 DEF RenumberedRow, AccountRows
  <2> QED
    BY <2>1, <2>2, <2>3
<1>4. CASE EntryOutcome(r, db, db') \/ TransferOutcome(r, db, db') \/ PinOutcome(r, db, db')
  <2>1. DOMAIN db'.accounts = DOMAIN db.accounts
    BY <1>4 DEF EntryOutcome, TransferOutcome, PinOutcome, UpdateBalance, UpdatePin
  <2> QED
    BY <2>1
<1> QED
  BY <1>1, <1>2, <1>3, <1>4 DEF Outcome

(* One process deletes no account that holds money: the balance it read    *)
(* before its transaction (ADMIN_DELETE_ACCOUNT) is still the balance when *)
(* the row goes.  Run cluster_delete shows that two processes do.          *)
THEOREM OneServerDeletesEmpty ==
  ASSUME NEW one, Servers = {one}
  PROVE  Spec => DeletedOnlyWhenEmpty
<1> DEFINE Taken ==
      \A a \in DOMAIN db.accounts \ DOMAIN db'.accounts :
        \/ db.accounts[a].balance = 0
        \/ \E b \in DOMAIN db'.accounts \ DOMAIN db.accounts :
             db'.accounts[b].balance = db.accounts[a].balance
<1>1. ASSUME RInv, [Next]_vars
      PROVE  Taken
  <2>1. CASE Write(one)
    BY <1>1, <2>1, WriteKeepsAccounts
  <2>2. CASE Commit(one)
    BY <1>1, <2>2, CommitTakesAway
  <2>3. CASE UNCHANGED db
    BY <2>3
  <2> QED
    BY <1>1, <2>1, <2>2, <2>3
       DEF Next, Advance, Receive, AdminLogin, Logout, Look, Begin, Plan, Execute,
           BusyTimeout, Fail, Crash, vars, database
<1>2. Init => RInv
  BY InitRInv
<1>3. RInv /\ [Next]_vars => RInv'
  BY NextRInv
<1>4. RInv /\ [Next]_vars => Taken
  BY <1>1
<1> HIDE DEF Taken
<1>5. Spec => [][Taken]_vars
  BY <1>2, <1>3, <1>4, PTL DEF Spec
<1> QED
  BY <1>5 DEF Taken, DeletedOnlyWhenEmpty

LEMMA WriteKeepsLocks ==
  ASSUME RInv, NEW one, Servers = {one}, Write(one),
         NEW a \in DOMAIN db.accounts, db.accounts[a].is_locked = 1
  PROVE  \/ a \in DOMAIN db'.accounts /\ db'.accounts[a].is_locked = 1
         \/ request[one].op = "UNLOCK_ACCOUNT"
<1> DEFINE r == request[one]
<1>1. /\ work = db /\ Typed(db) /\ one \in Servers /\ IInv /\ pc[one] = "write"
      /\ db.accounts \in [DOMAIN db.accounts -> AccountRows]
  BY DEF Write, RInv, IInv, Sound, Typed
<1>2. ASSUME NEW no, NEW failed, NEW locked, a # no \/ locked = 1,
             WriteAccounts(UpdateLoginState(db.accounts, no, failed, locked))
      PROVE  a \in DOMAIN db'.accounts /\ db'.accounts[a].is_locked = 1
  <2>1. db'.accounts = UpdateLoginState(db.accounts, no, failed, locked)
    BY <1>1, <1>2, WriteAccountsColumns
  <2>2. /\ a \in DOMAIN db'.accounts
        /\ db'.accounts[a].is_locked = IF a = no THEN locked ELSE db.accounts[a].is_locked
    BY <1>1, <2>1 DEF UpdateLoginState, AccountRows
  <2> QED
    BY <1>2, <2>2
<1>3. CASE WriteNewAccount(r)
  <2>1. CASE r.no \in DOMAIN db.accounts
    BY <1>3, <2>1 DEF WriteNewAccount
  <2>2. CASE r.no \notin DOMAIN db.accounts
    <3>1. PICK row : db'.accounts = InsertAccountRow(db.accounts, r.no, row)
      BY <1>1, <1>3, <2>2, WriteAccountsColumns DEF WriteNewAccount
    <3> QED
      BY <2>2, <3>1 DEF InsertAccountRow
  <2> QED
    BY <2>1, <2>2
<1>4. CASE WriteLogin(one, r)
  <2>1. a # r.no
    <3>1. r.op = "LOGIN" /\ Fresh(one) /\ Remembered(one)
      BY <1>1, <1>4 DEF WriteLogin, RInv, IInv, InHandler
    <3> QED
      BY <1>1, <3>1 DEF Fresh, Remembered
  <2>2. \E failed, locked :
          WriteAccounts(UpdateLoginState(db.accounts, r.no, failed, locked))
    BY <1>4 DEF WriteLogin
  <2> QED
    BY <1>2, <2>1, <2>2
<1>5. CASE WriteLock(r)
  BY <1>2, <1>5 DEF WriteLock
<1>6. CASE WriteAdminPassword(r)
  BY <1>6 DEF WriteAdminPassword
<1> QED
  BY <1>3, <1>4, <1>5, <1>6 DEF Write

LEMMA CommitKeepsLocks ==
  ASSUME RInv, NEW one, Servers = {one}, Commit(one),
         NEW a \in DOMAIN db.accounts, db.accounts[a].is_locked = 1
  PROVE  \/ a \in DOMAIN db'.accounts /\ db'.accounts[a].is_locked = 1
         \/ request[one].op \in {"EDIT_ACCOUNT", "DELETE_ACCOUNT"}
<1> DEFINE r == request[one]
<1>1. Outcome(r, db, db') /\ db.accounts \in [DOMAIN db.accounts -> AccountRows]
  BY CommitFacts DEF RInv, IInv, Sound, Typed
<1>2. ASSUME NEW acc, NEW no, NEW balance, acc \in [DOMAIN acc -> AccountRows],
             NEW x \in DOMAIN acc
      PROVE  /\ x \in DOMAIN UpdateBalance(acc, no, balance)
             /\ UpdateBalance(acc, no, balance)[x].is_locked = acc[x].is_locked
  BY <1>2 DEF UpdateBalance, AccountRows
<1>3. CASE EntryOutcome(r, db, db')
  BY <1>1, <1>2, <1>3 DEF EntryOutcome
<1>4. CASE TransferOutcome(r, db, db')
  <2> DEFINE sender_balance == db.accounts[r.no].balance - r.amount
             mid == UpdateBalance(db.accounts, r.no, sender_balance)
  <2>1. \E balance : db'.accounts = UpdateBalance(mid, r.to, balance)
    BY <1>4 DEF TransferOutcome
  <2>2. mid \in [DOMAIN mid -> AccountRows]
    <3>1. sender_balance \in Nat
      <4>1. Admissible(r, db) /\ Fits(r) /\ r.op = "TRANSFER"
        BY <1>4, CommitFacts DEF TransferOutcome
      <4>2. r.no \in DOMAIN db.accounts /\ r.amount \in Int
            /\ r.amount <= db.accounts[r.no].balance
        BY <4>1, AmountsAssumption DEF Admissible, Fits, Positive
      <4> QED
        BY <1>1, <4>2 DEF AccountRows
    <3> QED
      BY <1>1, <3>1 DEF UpdateBalance, AccountRows
  <2>3. a \in DOMAIN mid /\ mid[a].is_locked = 1
    BY <1>1, <1>2
  <2> HIDE DEF mid
  <2> QED
    BY <1>2, <2>1, <2>2, <2>3
<1> QED
  BY <1>1, <1>3, <1>4 DEF Outcome, PinOutcome, RenumberOutcome, DeleteOutcome

(* With one process a lock goes only with an administrator's request: no   *)
(* LOGIN that read the row before it was locked writes it back unlocked.   *)
(* Run cluster_lock shows that two processes do that.                      *)
THEOREM OneServerKeepsLocks ==
  ASSUME NEW one, Servers = {one}
  PROVE  Spec => LockClearedOnlyByAdmin
<1> DEFINE Kept ==
      \A a \in DOMAIN db.accounts :
        db.accounts[a].is_locked = 1 =>
          \/ a \in DOMAIN db'.accounts /\ db'.accounts[a].is_locked = 1
          \/ \E s \in Servers :
               /\ request[s].op \in {"UNLOCK_ACCOUNT", "EDIT_ACCOUNT", "DELETE_ACCOUNT"}
               /\ request'[s] = NoRequest
<1>1. ASSUME RInv, [Next]_vars
      PROVE  Kept
  <2>1. Answer(one) => request'[one] = NoRequest
    BY <1>1 DEF Answer, RInv, IInv, Shapes
  <2>2. CASE Write(one)
    BY <1>1, <2>1, <2>2, WriteKeepsLocks DEF Write
  <2>3. CASE Commit(one)
    BY <1>1, <2>1, <2>3, CommitKeepsLocks DEF Commit
  <2>4. CASE UNCHANGED db
    BY <2>4
  <2> QED
    BY <1>1, <2>2, <2>3, <2>4
       DEF Next, Advance, Receive, AdminLogin, Logout, Look, Begin, Plan, Execute,
           BusyTimeout, Fail, Crash, vars, database
<1>2. Init => RInv
  BY InitRInv
<1>3. RInv /\ [Next]_vars => RInv'
  BY NextRInv
<1>4. RInv /\ [Next]_vars => Kept
  BY <1>1
<1> HIDE DEF Kept
<1>5. Spec => [][Kept]_vars
  BY <1>2, <1>3, <1>4, PTL DEF Spec
<1> QED
  BY <1>5 DEF Kept, LockClearedOnlyByAdmin
===============================================================================
