--------------------------- MODULE AtmMigrationProofs ---------------------------
(***************************************************************************)
(* AtmMigration for any number of processes and any legacy files: what the *)
(* starts of several processes make of the tables, whoever fails, ends or  *)
(* serves meanwhile.                                                       *)
(***************************************************************************)
EXTENDS AtmMigration, AtmTablesProofs, FiniteSetTheorems

AccountColumns == {"pin_hash", "salt", "balance", "failed_attempts", "is_locked"}
RowColumns ==
  {"account_no", "related_account", "type", "amount", "balance_after", "created_at"}

(* Types, with the columns every row has.                                  *)
Typed ==
  /\ TypeOK
  /\ nextId \in Nat \ {0}
  /\ \A a \in DOMAIN accounts : DOMAIN accounts[a] = AccountColumns
  /\ \A i \in DOMAIN transactions : DOMAIN transactions[i] = RowColumns

(* Starts that never overlapped: one process at a time is starting, and    *)
(* none inserts an admin but the first.                                    *)
OneStarts == \A r, s \in Servers : pc[r] \in Starting /\ pc[s] \in Starting => r = s
FirstAdmin ==
  /\ admins = {} \/ \E u \in admins : admins = {u}
  /\ \A s \in Servers : pc[s] = "insertAdmin" => admins = {}
Alone ==
  /\ Serving => admins # {}
  /\ ~past.overlap => OneStarts /\ FirstAdmin

(* No line has two rows, and those an import has yet to read have none.    *)
LinesOnce ==
  ~past.overlap =>
    /\ \A i \in 1 .. Len(TransactionsFile) : \A x, y \in RowsFrom(i) : x = y
    /\ \A s \in Servers : pc[s] = "importTransactions" =>
         \A i \in line[s] .. Len(TransactionsFile) : RowsFrom(i) = {}

(* How far imports have got while nothing disturbs them: nowhere, to the   *)
(* line of the process that is at it, or to the end.                       *)
Undisturbed == ~past.overlap /\ ~past.stopped /\ ~past.served
AccountsTo(n) == DOMAIN accounts = {AccountsFile[i] : i \in 1 .. n - 1}
LinesTo(n) ==
  \A i \in 1 .. Len(TransactionsFile) :
    RowsFrom(i) # {} <=> i \in WrittenLines /\ i < n
AllAccounts == DOMAIN accounts = FileAccounts
AllLines == LinesTo(Len(TransactionsFile) + 1)
KnownTo(n) ==
  \A i \in 1 .. Len(TransactionsFile) :
    i < n /\ TransactionsFile[i] # Unreadable => TransactionsFile[i].account_no \in FileAccounts

PastAccounts == {"transactions", "importTransactions", "admins", "insertAdmin", "serving"}
PastLines == {"admins", "insertAdmin", "serving"}

AccountsProgress ==
  /\ \A s \in Servers : pc[s] = "importAccounts" =>
       line[s] <= Len(AccountsFile) + 1 /\ AccountsTo(line[s])
  /\ (\A s \in Servers : pc[s] # "importAccounts") => DOMAIN accounts = {} \/ AllAccounts
  /\ \A s \in Servers : pc[s] \in PastAccounts => AllAccounts
LinesProgress ==
  /\ \A s \in Servers : pc[s] = "importTransactions" =>
       /\ LinesTo(line[s]) /\ KnownTo(line[s])
       /\ line[s] = 1 => DOMAIN transactions = {}
  /\ (\A s \in Servers : pc[s] # "importTransactions") =>
       DOMAIN transactions = {} \/ AllLines
  /\ \A s \in Servers : pc[s] \in PastLines => AllLines
Progress == Undisturbed => AccountsProgress /\ LinesProgress

IInv == Typed /\ Alone /\ LinesOnce /\ Progress

-------------------------------------------------------------------------------
(* What the handlers write, column by column.                              *)
Renumbered(t, t2, old, new) ==
  /\ Moved(t, t2, old, new)
  /\ \A i \in DOMAIN t :
       /\ t2[i].created_at = t[i].created_at
       /\ DOMAIN t2[i] = RowColumns

LEMMA RelinkedColumns ==
  ASSUME NEW t, NEW old, NEW new, \A i \in DOMAIN t : DOMAIN t[i] = RowColumns
  PROVE  /\ DOMAIN RelinkRows(t, old, new) = DOMAIN t
         /\ \A i \in DOMAIN t :
              LET row == RelinkRows(t, old, new)[i]
              IN  /\ row.account_no = t[i].account_no
                  /\ row.type = t[i].type
                  /\ row.amount = t[i].amount
                  /\ row.balance_after = t[i].balance_after
                  /\ row.created_at = t[i].created_at
                  /\ DOMAIN row = RowColumns
  BY DEF RelinkRows, RowColumns

LEMMA RenumberedColumns ==
  ASSUME NEW t, NEW old, NEW new, \A i \in DOMAIN t : DOMAIN t[i] = RowColumns
  PROVE  Renumbered(t, RelinkRows(MoveRows(t, old, new), old, new), old, new)
<1> DEFINE moved == MoveRows(t, old, new)
<1>1. Renumbered(t, moved, old, new)
  BY DEF MoveRows, RowColumns, Renumbered, Moved
<1> HIDE DEF moved
<1>2. \A i \in DOMAIN moved : DOMAIN moved[i] = RowColumns
  BY <1>1 DEF Renumbered, Moved
<1>3. Renumbered(t, RelinkRows(moved, old, new), old, new)
  BY <1>1, <1>2, RelinkedColumns DEF Renumbered, Moved
<1> QED
  BY <1>3 DEF moved

EditWrites(old, new) ==
  /\ old \in DOMAIN accounts
  /\ new = old \/ new \notin DOMAIN accounts
  /\ DOMAIN accounts' = (DOMAIN accounts \ {old}) \union {new}
  /\ accounts'[new].balance = accounts[old].balance
  /\ DOMAIN accounts'[new] = AccountColumns
  /\ \A a \in DOMAIN accounts \ {old, new} : accounts'[a] = accounts[a]
  /\ Renumbered(transactions, transactions', old, new)
  /\ nextId' = nextId

LEMMA EditColumns ==
  ASSUME Typed, NEW old, NEW new, NEW pin, NEW salt, EditAccount(old, new, pin, salt)
  PROVE  EditWrites(old, new)
<1> DEFINE row == RenumberedRow(accounts[old], pin, salt)
<1>1. /\ old \in DOMAIN accounts
      /\ new = old \/ new \notin DOMAIN accounts
      /\ accounts' = InsertAccountRow(DeleteAccountRow(accounts, old), new, row)
      /\ transactions' = RelinkRows(MoveRows(transactions, old, new), old, new)
      /\ nextId' = nextId
  BY DEF EditAccount
<1>2. DOMAIN row = AccountColumns /\ row.balance = accounts[old].balance
  BY <1>1 DEF RenumberedRow, Typed, AccountColumns
<1> HIDE DEF row
<1>3. /\ DOMAIN accounts' = (DOMAIN accounts \ {old}) \union {new}
      /\ accounts'[new] = row
      /\ \A a \in DOMAIN accounts \ {old, new} : accounts'[a] = accounts[a]
  BY <1>1 DEF InsertAccountRow, DeleteAccountRow
<1>4. Renumbered(transactions, transactions', old, new)
  BY <1>1, RenumberedColumns DEF Typed
<1> QED
  BY <1>1, <1>2, <1>3, <1>4 DEF EditWrites

DeleteWrites(no) ==
  /\ no \in DOMAIN accounts
  /\ DOMAIN accounts' = DOMAIN accounts \ {no}
  /\ \A a \in DOMAIN accounts \ {no} : accounts'[a] = accounts[a]
  /\ DOMAIN transactions' = DOMAIN transactions \ RowsOf(transactions, no)
  /\ \A i \in DOMAIN transactions' :
       /\ transactions'[i].account_no = transactions[i].account_no
       /\ transactions'[i].type = transactions[i].type
       /\ transactions'[i].amount = transactions[i].amount
       /\ transactions'[i].balance_after = transactions[i].balance_after
       /\ transactions'[i].created_at = transactions[i].created_at
       /\ DOMAIN transactions'[i] = RowColumns
  /\ nextId' = nextId

LEMMA DeleteColumns ==
  ASSUME Typed, NEW no, DeleteAccount(no)
  PROVE  DeleteWrites(no)
<1> DEFINE cut == RelinkRows(transactions, no, NoAccount)
<1>1. /\ no \in DOMAIN accounts
      /\ accounts' = DeleteAccountRow(accounts, no)
      /\ transactions' = DeleteRowsOf(cut, no)
      /\ nextId' = nextId
  BY DEF DeleteAccount
<1>2. /\ DOMAIN cut = DOMAIN transactions
      /\ \A i \in DOMAIN transactions :
           /\ cut[i].account_no = transactions[i].account_no
           /\ cut[i].type = transactions[i].type
           /\ cut[i].amount = transactions[i].amount
           /\ cut[i].balance_after = transactions[i].balance_after
           /\ cut[i].created_at = transactions[i].created_at
           /\ DOMAIN cut[i] = RowColumns
  BY RelinkedColumns DEF Typed
<1> HIDE DEF cut
<1>3. /\ DOMAIN transactions' = DOMAIN transactions \ RowsOf(transactions, no)
      /\ \A i \in DOMAIN transactions' : transactions'[i] = cut[i]
  BY <1>1, <1>2 DEF DeleteRowsOf, RowsOf
<1>4. /\ DOMAIN accounts' = DOMAIN accounts \ {no}
      /\ \A a \in DOMAIN accounts \ {no} : accounts'[a] = accounts[a]
  BY <1>1 DEF DeleteAccountRow
<1> QED
  BY <1>1, <1>2, <1>3, <1>4 DEF DeleteWrites

(* A row appended, by a handler or an import.                              *)
Appends(row) ==
  /\ DOMAIN transactions' = DOMAIN transactions \union {nextId}
  /\ transactions'[nextId] = row
  /\ \A i \in DOMAIN transactions : transactions'[i] = transactions[i]
  /\ nextId' = nextId + 1
  /\ nextId \notin DOMAIN transactions

LEMMA AppendsRow ==
  ASSUME Typed, NEW row, transactions' = InsertTransaction(transactions, nextId, row),
         nextId' = nextId + 1
  PROVE  Appends(row)
<1>1. nextId \notin DOMAIN transactions
  BY DEF Typed, TypeOK
<1> QED
  BY <1>1 DEF Appends, InsertTransaction

EnteredRow(no, amount, type) ==
  LET balance == IF type \in CreditTypes THEN accounts[no].balance + amount
                                         ELSE accounts[no].balance - amount
  IN  StampedRow(TransactionRow(no, NoAccount, type, amount, balance), Now)

EnterWrites(no, amount, type) ==
  LET row == EnteredRow(no, amount, type)
  IN  /\ no \in DOMAIN accounts
      /\ row.balance_after \in Nat
      /\ row.balance_after = accounts[no].balance + Signed(row)
      /\ Signed(row) \in Int
      /\ row.account_no = no
      /\ row.type = type
      /\ row.created_at = Now
      /\ DOMAIN row = RowColumns
      /\ DOMAIN accounts' = DOMAIN accounts
      /\ accounts'[no].balance = row.balance_after
      /\ \A a \in DOMAIN accounts : DOMAIN accounts'[a] = AccountColumns
      /\ \A a \in DOMAIN accounts \ {no} : accounts'[a] = accounts[a]
      /\ Appends(row)

LEMMA EnterColumns ==
  ASSUME Typed, NEW no, NEW amount \in Amounts, NEW type, Enter(no, amount, type)
  PROVE  EnterWrites(no, amount, type)
<1> DEFINE balance == IF type \in CreditTypes THEN accounts[no].balance + amount
                                              ELSE accounts[no].balance - amount
           row == EnteredRow(no, amount, type)
<1>1. /\ no \in DOMAIN accounts
      /\ amount > 0
      /\ type \in CreditTypes \/ amount <= accounts[no].balance
      /\ accounts' = UpdateBalance(accounts, no, balance)
      /\ transactions' = InsertTransaction(transactions, nextId, row)
      /\ nextId' = nextId + 1
  BY DEF Enter, EnteredRow
<1>2. balance \in Nat /\ amount \in Int
  BY <1>1, AmountsAssumption DEF Typed, TypeOK
<1>3. /\ row.account_no = no
      /\ row.type = type
      /\ row.amount = amount
      /\ row.balance_after = balance
      /\ row.created_at = Now
      /\ DOMAIN row = RowColumns
  BY DEF EnteredRow, StampedRow, TransactionRow, RowColumns
<1>4. Signed(row) \in Int /\ balance = accounts[no].balance + Signed(row)
  BY <1>1, <1>2, <1>3 DEF Signed, Typed, TypeOK
<1> HIDE DEF row, balance
<1>5. /\ DOMAIN accounts' = DOMAIN accounts
      /\ accounts'[no].balance = balance
      /\ \A a \in DOMAIN accounts : DOMAIN accounts'[a] = AccountColumns
      /\ \A a \in DOMAIN accounts \ {no} : accounts'[a] = accounts[a]
  BY <1>1 DEF UpdateBalance, Typed, AccountColumns
<1>6. Appends(row)
  BY <1>1, AppendsRow
<1> QED
  BY <1>1, <1>2, <1>3, <1>4, <1>5, <1>6 DEF EnterWrites, row

(* An account added with no money, by a handler or an import.              *)
AddsAccount(no) ==
  /\ no \notin DOMAIN accounts
  /\ DOMAIN accounts' = DOMAIN accounts \union {no}
  /\ accounts'[no].balance = 0
  /\ DOMAIN accounts'[no] = AccountColumns
  /\ \A a \in DOMAIN accounts : accounts'[a] = accounts[a]
  /\ UNCHANGED <<transactions, nextId>>

LEMMA NewRowAdds ==
  ASSUME NEW no, no \notin DOMAIN accounts, NEW hash, NEW salt,
         accounts' = InsertAccountRow(accounts, no, NewAccountRow(hash, salt)),
         UNCHANGED <<transactions, nextId>>
  PROVE  AddsAccount(no)
  BY DEF AddsAccount, InsertAccountRow, NewAccountRow, AccountColumns

LEMMA ImportAccountAdds ==
  ASSUME NEW s, ImportAccount(s)
  PROVE  \/ AddsAccount(AccountsFile[line[s]])
         \/ AccountsFile[line[s]] \in DOMAIN accounts /\ UNCHANGED tables
<1> DEFINE no == AccountsFile[line[s]]
<1>1. PICK salt \in Salts : accounts' = InsertOrIgnore(no, LegacyRow(salt))
  BY DEF ImportAccount
<1>2. UNCHANGED <<transactions, nextId>>
  BY DEF ImportAccount
<1>3. CASE no \in DOMAIN accounts
  BY <1>1, <1>2, <1>3 DEF InsertOrIgnore, tables
<1>4. CASE no \notin DOMAIN accounts
  BY <1>1, <1>2, <1>4, NewRowAdds DEF InsertOrIgnore, LegacyRow
<1> QED
  BY <1>3, <1>4

ImportWrites(entry) ==
  LET row == LegacyTransaction(entry)
  IN  /\ entry # Unreadable
      /\ entry.account_no \in DOMAIN accounts
      /\ row.account_no = entry.account_no
      /\ row.type \in TransactionTypes \union {"LEGACY"}
      /\ row.balance_after = Null
      /\ row.created_at = entry.timestamp
      /\ DOMAIN row = RowColumns
      /\ accounts' = accounts
      /\ Appends(row)

LEMMA ImportTransactionColumns ==
  ASSUME Typed, NEW s, ImportTransaction(s)
  PROVE  ImportWrites(TransactionsFile[line[s]])
<1> DEFINE entry == TransactionsFile[line[s]]
           row == LegacyTransaction(entry)
<1>1. /\ entry # Unreadable
      /\ entry.account_no \in DOMAIN accounts
      /\ transactions' = InsertTransaction(transactions, nextId, row)
      /\ nextId' = nextId + 1
      /\ accounts' = accounts
  BY DEF ImportTransaction, ForeignKey
<1>2. NormalizeLegacyType(entry.type) \in TransactionTypes \union {"LEGACY"}
  BY DEF NormalizeLegacyType, TransactionTypes, CreditTypes, DebitTypes
<1>3. /\ row.account_no = entry.account_no
      /\ row.type \in TransactionTypes \union {"LEGACY"}
      /\ row.balance_after = Null
      /\ row.created_at = entry.timestamp
      /\ DOMAIN row = RowColumns
  BY <1>2 DEF LegacyTransaction, StampedRow, TransactionRow, RowColumns
<1> HIDE DEF row
<1>4. Appends(row)
  BY <1>1, AppendsRow
<1> QED
  BY <1>1, <1>3, <1>4 DEF ImportWrites, row

(* Every step writes the tables in one of these ways, or not at all.       *)
LEMMA NextWrites ==
  ASSUME Typed, [Next]_vars
  PROVE  \/ UNCHANGED tables
         \/ \E no : AddsAccount(no)
         \/ \E entry : ImportWrites(entry)
         \/ \E no, amount : \E type \in TransactionTypes : EnterWrites(no, amount, type)
         \/ \E old, new : EditWrites(old, new)
         \/ \E no : DeleteWrites(no)
<1>1. ASSUME NEW no, NEW pin, NEW salt, CreateAccount(no, pin, salt)
      PROVE  AddsAccount(no)
  BY <1>1, NewRowAdds DEF CreateAccount
<1>2. ASSUME NEW no, NEW amount \in Amounts,
             Enter(no, amount, "DEPOSIT") \/ Enter(no, amount, "WITHDRAW")
      PROVE  \E type \in TransactionTypes : EnterWrites(no, amount, type)
  BY <1>2, EnterColumns DEF TransactionTypes, CreditTypes, DebitTypes
<1>3. ASSUME NEW s \in Servers, Startup(s)
      PROVE  \/ UNCHANGED tables
             \/ \E no : AddsAccount(no)
             \/ \E entry : ImportWrites(entry)
  <2>1. CASE ImportAccount(s)
    BY <2>1, ImportAccountAdds
  <2>2. CASE ImportTransaction(s)
    BY <2>2, ImportTransactionColumns
  <2>3. CASE ~(ImportAccount(s) \/ ImportTransaction(s))
    BY <1>3, <2>3
       DEF Startup, Start, CountAccounts, CountTransactions, BeginImport, EndOfFile,
           SkipLine, UnknownAccount, FailImport, CountAdmins, InsertAdmin, End
  <2> QED
    BY <2>1, <2>2, <2>3
<1>4. CASE UNCHANGED vars
  BY <1>4 DEF vars
<1>5. CASE Handler
  BY <1>1, <1>2, <1>5, EditColumns, DeleteColumns DEF Handler
<1> QED
  BY <1>3, <1>4, <1>5 DEF Next

(* What a step may do besides: a handler none of it, a start nothing but   *)
(* move the process, its line and the admins.                              *)
Places == Starting \union {"off", "serving"}
Lines == 1 .. Len(AccountsFile) + Len(TransactionsFile) + 1

LEMMA NextControl ==
  ASSUME Typed, [Next]_vars
  PROVE  /\ admins' \subseteq AdminNames
         /\ pc' \in [Servers -> Places]
         /\ line' \in [Servers -> Lines]
<1> USE DEF Places, Starting, Importing
<1>1. /\ admins \subseteq AdminNames
      /\ pc \in [Servers -> Places]
      /\ line \in [Servers -> Lines]
  BY DEF Typed, TypeOK, Lines
<1>2. ASSUME NEW s \in Servers, NEW place \in Places, Go(s, place)
      PROVE  pc' \in [Servers -> Places]
  BY <1>1, <1>2 DEF Go
<1>3. ASSUME NEW s \in Servers, Startup(s)
      PROVE  /\ admins' \subseteq AdminNames
             /\ pc' \in [Servers -> Places]
             /\ line' \in [Servers -> Lines]
  <2>1. CASE Start(s) \/ FailImport(s) \/ CountAdmins(s) \/ End(s)
    BY <1>1, <1>2, <2>1 DEF Start, FailImport, CountAdmins, End
  <2>2. CASE CountAccounts(s) \/ CountTransactions(s)
    <3>1. \E place \in Places : Go(s, place)
      BY <2>2 DEF CountAccounts, CountTransactions, BeginImport
    <3>2. line' = [line EXCEPT ![s] = 1] /\ admins' = admins
      BY <2>2 DEF CountAccounts, CountTransactions, BeginImport
    <3>3. line' \in [Servers -> Lines]
      BY <1>1, <3>2, FilesAreFinite DEF Lines
    <3> QED
      BY <1>1, <1>2, <3>1, <3>2, <3>3
  <2>3. CASE \/ EndOfFile(s, "importAccounts", AccountsFile, "transactions")
             \/ EndOfFile(s, "importTransactions", TransactionsFile, "admins")
             \/ UnknownAccount(s)
    BY <1>1, <1>2, <2>3 DEF EndOfFile, UnknownAccount
  <2>4. CASE ImportAccount(s) \/ SkipLine(s) \/ ImportTransaction(s)
    <3>1. /\ line[s] <= Len(AccountsFile) \/ line[s] <= Len(TransactionsFile)
          /\ line' = [line EXCEPT ![s] = line[s] + 1]
          /\ UNCHANGED <<admins, pc>>
      BY <2>4 DEF ImportAccount, SkipLine, ImportTransaction, AtLine, NextLine
    <3>2. line[s] + 1 \in Lines
      BY <1>1, <3>1, FilesAreFinite DEF Lines
    <3> QED
      BY <1>1, <3>1, <3>2
  <2>5. ASSUME NEW username \in AdminNames, InsertAdmin(s, username)
        PROVE  /\ admins' \subseteq AdminNames
               /\ pc' \in [Servers -> Places]
               /\ line' \in [Servers -> Lines]
    BY <1>1, <1>2, <2>5 DEF InsertAdmin
  <2> QED
    BY <1>3, <2>1, <2>2, <2>3, <2>4, <2>5 DEF Startup
<1>4. CASE Handler
  <2>1. UNCHANGED <<admins, pc, line>>
    BY <1>4 DEF Handler, CreateAccount, Enter, EditAccount, DeleteAccount, Served
  <2> QED
    BY <1>1, <2>1
<1>5. CASE UNCHANGED vars
  BY <1>1, <1>5 DEF vars
<1> QED
  BY <1>3, <1>4, <1>5 DEF Next

LEMMA NextTyped ==
  ASSUME Typed, [Next]_vars
  PROVE  Typed'
<1> DEFINE TablesTyped ==
      /\ \A a \in DOMAIN accounts :
           accounts[a].balance \in Nat /\ DOMAIN accounts[a] = AccountColumns
      /\ nextId \in Nat \ {0}
      /\ DOMAIN transactions \subseteq 1 .. nextId - 1
      /\ \A i \in DOMAIN transactions :
           /\ transactions[i].account_no \in DOMAIN accounts
           /\ transactions[i].type \in TransactionTypes \union {"LEGACY"}
           /\ transactions[i].balance_after \in Nat \union {Null}
           /\ DOMAIN transactions[i] = RowColumns
<1>1. TablesTyped
  BY DEF Typed, TypeOK
<1>2. ASSUME UNCHANGED tables
      PROVE  TablesTyped'
  BY <1>1, <1>2 DEF tables
<1>3. ASSUME NEW no, AddsAccount(no)
      PROVE  TablesTyped'
  BY <1>1, <1>3 DEF AddsAccount
<1>4. ASSUME NEW row, Appends(row), DOMAIN accounts' = DOMAIN accounts,
             row.account_no \in DOMAIN accounts,
             row.type \in TransactionTypes \union {"LEGACY"},
             row.balance_after \in Nat \union {Null},
             DOMAIN row = RowColumns,
             \A a \in DOMAIN accounts :
               accounts'[a].balance \in Nat /\ DOMAIN accounts'[a] = AccountColumns
      PROVE  TablesTyped'
  <2>1. \A i \in DOMAIN transactions' : i = nextId \/ i \in DOMAIN transactions
    BY <1>4 DEF Appends
  <2>2. nextId' \in Nat \ {0} /\ DOMAIN transactions' \subseteq 1 .. nextId' - 1
    BY <1>1, <1>4 DEF Appends
  <2>3. \A i \in DOMAIN transactions' :
          /\ transactions'[i].account_no \in DOMAIN accounts'
          /\ transactions'[i].type \in TransactionTypes \union {"LEGACY"}
          /\ transactions'[i].balance_after \in Nat \union {Null}
          /\ DOMAIN transactions'[i] = RowColumns
    BY <1>1, <1>4, <2>1 DEF Appends
  <2> QED
    BY <1>4, <2>2, <2>3
<1>5. ASSUME NEW entry, ImportWrites(entry)
      PROVE  TablesTyped'
  BY <1>1, <1>4, <1>5 DEF ImportWrites
<1>6. ASSUME NEW no, NEW amount, NEW type \in TransactionTypes, EnterWrites(no, amount, type)
      PROVE  TablesTyped'
  BY <1>1, <1>4, <1>6 DEF EnterWrites
<1>7. ASSUME NEW old, NEW new, EditWrites(old, new)
      PROVE  TablesTyped'
  <2>1. \A a \in DOMAIN accounts' :
          accounts'[a].balance \in Nat /\ DOMAIN accounts'[a] = AccountColumns
    BY <1>1, <1>7 DEF EditWrites
  <2>2. \A i \in DOMAIN transactions : transactions'[i].account_no \in DOMAIN accounts'
    BY <1>1, <1>7 DEF EditWrites, Renumbered, Moved
  <2> QED
    BY <1>1, <1>7, <2>1, <2>2 DEF EditWrites, Renumbered, Moved
<1>8. ASSUME NEW no, DeleteWrites(no)
      PROVE  TablesTyped'
  BY <1>1, <1>8 DEF DeleteWrites, RowsOf
<1>9. TablesTyped'
  BY <1>2, <1>3, <1>5, <1>6, <1>7, <1>8, NextWrites
<1> QED
  BY <1>9, NextControl DEF Typed, TypeOK, Places, Lines

LEMMA InitTyped ==
  ASSUME Init
  PROVE  Typed
<1>1. /\ DOMAIN accounts = {}
      /\ DOMAIN transactions = {}
      /\ nextId = 1
      /\ admins = {}
      /\ pc = [s \in Servers |-> "off"]
      /\ line = [s \in Servers |-> 1]
  BY DEF Init
<1>2. line \in [Servers -> 1 .. Len(AccountsFile) + Len(TransactionsFile) + 1]
  BY <1>1, FilesAreFinite
<1>3. pc \in [Servers -> Starting \union {"off", "serving"}]
  BY <1>1
<1>4. /\ DOMAIN accounts = {}
      /\ DOMAIN transactions = {}
      /\ nextId = 1
      /\ admins = {}
  BY <1>1
<1> QED
  BY <1>2, <1>3, <1>4 DEF Typed, TypeOK

(* However many processes start, import, serve, fail and end at the same   *)
(* time, no balance becomes negative and no row loses its account.         *)
THEOREM TypeCorrect == Spec => []TypeOK
<1>1. Init => Typed
  BY InitTyped
<1>2. Typed /\ [Next]_vars => Typed'
  BY NextTyped
<1>3. Typed => TypeOK
  BY DEF Typed
<1> QED
  BY <1>1, <1>2, <1>3, PTL DEF Spec

(* ImportOnlyAdds of one step.                                             *)
LEMMA StepImportsOnlyAdd ==
  ASSUME Typed, [Next]_vars, NEW s \in Servers, line'[s] > line[s]
  PROVE  /\ \A a \in DOMAIN accounts :
              a \in DOMAIN accounts' /\ accounts'[a] = accounts[a]
         /\ \A i \in DOMAIN transactions :
              i \in DOMAIN transactions' /\ transactions'[i] = transactions[i]
<1>1. line \in [Servers -> Lines]
  BY DEF Typed, TypeOK, Lines
<1>2. CASE UNCHANGED line
  BY <1>1, <1>2 DEF Lines
<1>3. CASE UNCHANGED tables
  BY <1>3 DEF tables
<1>4. ASSUME NEW r \in Servers, ImportAccount(r) \/ ImportTransaction(r)
      PROVE  \/ UNCHANGED tables
             \/ \E no : AddsAccount(no)
             \/ \E entry : ImportWrites(entry)
  BY <1>4, ImportAccountAdds, ImportTransactionColumns
<1>5. ASSUME NEW no, AddsAccount(no)
      PROVE  /\ \A a \in DOMAIN accounts :
                  a \in DOMAIN accounts' /\ accounts'[a] = accounts[a]
             /\ transactions' = transactions
  BY <1>5 DEF AddsAccount
<1>6. ASSUME NEW entry, ImportWrites(entry)
      PROVE  /\ \A i \in DOMAIN transactions :
                  i \in DOMAIN transactions' /\ transactions'[i] = transactions[i]
             /\ accounts' = accounts
  BY <1>6 DEF ImportWrites, Appends
<1>7. ASSUME NEW r \in Servers, Startup(r), ~(ImportAccount(r) \/ ImportTransaction(r))
      PROVE  UNCHANGED tables \/ UNCHANGED line
  BY <1>7
     DEF Startup, Start, CountAccounts, CountTransactions, BeginImport, EndOfFile,
         SkipLine, UnknownAccount, FailImport, CountAdmins, InsertAdmin, End
<1>8. Handler \/ UNCHANGED vars => UNCHANGED line
  BY DEF Handler, CreateAccount, Enter, EditAccount, DeleteAccount, Served, vars
<1> QED
  BY <1>2, <1>3, <1>4, <1>5, <1>6, <1>7, <1>8 DEF Next

(* An import, whatever the other processes wrote since it counted, takes   *)
(* nothing away and changes nothing it finds.                              *)
THEOREM ImportCorrect == Spec => ImportOnlyAdds
<1> DEFINE OnlyAdds ==
      (\E s \in Servers : pc[s] \in Importing /\ line'[s] > line[s]) =>
        /\ \A a \in DOMAIN accounts :
             a \in DOMAIN accounts' /\ accounts'[a] = accounts[a]
        /\ \A i \in DOMAIN transactions :
             i \in DOMAIN transactions' /\ transactions'[i] = transactions[i]
<1>1. Init => Typed
  BY InitTyped
<1>2. Typed /\ [Next]_vars => Typed'
  BY NextTyped
<1>3. Typed /\ [Next]_vars => OnlyAdds
  BY StepImportsOnlyAdd
<1> HIDE DEF OnlyAdds
<1>4. Spec => [][OnlyAdds]_vars
  BY <1>1, <1>2, <1>3, PTL DEF Spec
<1> QED
  BY <1>4 DEF OnlyAdds, ImportOnlyAdds

-------------------------------------------------------------------------------
(* The rows handlers wrote, and the balances they explain.                 *)
Native(t) == [i \in {j \in DOMAIN t : t[j].balance_after # Null} |-> t[i]]
LedgerHolds == Ledger(accounts, Native(transactions))

LEMMA LedgerHoldsIs == LedgerHolds <=> NativeLedgerExplainsBalance
  BY DEF LedgerHolds, Native, NativeLedgerExplainsBalance, NativeRows, Ledger

LEMMA LedgerWithAccount ==
  ASSUME Typed, LedgerHolds, NEW no, AddsAccount(no)
  PROVE  LedgerHolds'
<1> DEFINE t == Native(transactions)
<1>1. t' = t
  BY DEF AddsAccount
<1>2. RowsOf(t, no) = {}
  BY DEF AddsAccount, Typed, TypeOK, RowsOf, Native
<1>3. Ledger(accounts, t)
  BY DEF LedgerHolds
<1> HIDE DEF t
<1>4. Ledger(accounts', t)
  BY <1>2, <1>3 DEF AddsAccount, Ledger, BalanceIsTotal
<1> QED
  BY <1>1, <1>4 DEF LedgerHolds, t

LEMMA LedgerWithImport ==
  ASSUME Typed, LedgerHolds, NEW entry, ImportWrites(entry)
  PROVE  LedgerHolds'
<1>1. PICK row : Appends(row) /\ row.balance_after = Null
  BY DEF ImportWrites
<1>2. Native(transactions)' = Native(transactions)
  BY <1>1 DEF Appends, Native
<1> QED
  BY <1>2 DEF LedgerHolds, ImportWrites

LEMMA LedgerWithEntry ==
  ASSUME Typed, LedgerHolds, NEW no, NEW amount, NEW type, EnterWrites(no, amount, type)
  PROVE  LedgerHolds'
<1> DEFINE t == Native(transactions)
           row == EnteredRow(no, amount, type)
<1>1. /\ Appends(row)
      /\ row.balance_after \in Nat
      /\ row.balance_after = accounts[no].balance + Signed(row)
      /\ Signed(row) \in Int
      /\ row.account_no = no
      /\ no \in DOMAIN accounts
      /\ DOMAIN accounts' = DOMAIN accounts
      /\ accounts'[no].balance = row.balance_after
      /\ \A a \in DOMAIN accounts \ {no} : accounts'[a] = accounts[a]
      /\ nextId \in Int
      /\ DOMAIN transactions \subseteq 1 .. nextId - 1
      /\ accounts[no].balance \in Int
  BY DEF EnterWrites, Typed, TypeOK
<1> HIDE DEF row
<1>2. t' = InsertTransaction(t, nextId, row)
  <2>1. row.balance_after # Null
    BY <1>1 DEF Null
  <2> QED
    BY <1>1, <2>1 DEF Native, Appends, InsertTransaction
<1>3. /\ DOMAIN t \subseteq Int
      /\ \A i \in DOMAIN t : i < nextId
  BY <1>1 DEF Native
<1>4. Ledger(accounts, t)
  BY DEF LedgerHolds
<1> HIDE DEF t
<1>5. Ledger(accounts', InsertTransaction(t, nextId, row))
  BY <1>1, <1>3, <1>4, LedgerAfterEntry
<1> QED
  BY <1>2, <1>5 DEF LedgerHolds, t

LEMMA LedgerWithEdit ==
  ASSUME Typed, LedgerHolds, NEW old, NEW new, EditWrites(old, new)
  PROVE  LedgerHolds'
<1> DEFINE t == Native(transactions)
           t2 == Native(transactions')
<1>1. Moved(t, t2, old, new)
  BY DEF EditWrites, Renumbered, Moved, Native
<1>2. Ledger(accounts, t)
  BY DEF LedgerHolds
<1>3. /\ old \in DOMAIN accounts
      /\ DOMAIN accounts' = (DOMAIN accounts \ {old}) \union {new}
      /\ accounts'[new].balance = accounts[old].balance
      /\ \A a \in DOMAIN accounts \ {old, new} : accounts'[a].balance = accounts[a].balance
  BY DEF EditWrites
<1>4. new # old => RowsOf(t, new) = {}
  BY DEF EditWrites, Typed, TypeOK, RowsOf, Native
<1> HIDE DEF t, t2
<1>5. CASE new = old
  <2>1. /\ DOMAIN accounts' = DOMAIN accounts
        /\ \A a \in DOMAIN accounts : accounts'[a].balance = accounts[a].balance
        /\ DOMAIN t2 = DOMAIN t
        /\ \A i \in DOMAIN t : /\ t2[i].account_no = t[i].account_no
                               /\ t2[i].type = t[i].type
                               /\ t2[i].amount = t[i].amount
                               /\ t2[i].balance_after = t[i].balance_after
    BY <1>1, <1>3, <1>5 DEF Moved
  <2> QED
    BY <1>2, <2>1, LedgerSameColumns DEF LedgerHolds, t2
<1>6. CASE new # old
  <2>1. DOMAIN accounts' = (DOMAIN accounts \union {new}) \ {old}
    BY <1>3, <1>6
  <2> QED
    BY <1>1, <1>2, <1>3, <1>4, <1>6, <2>1, LedgerAfterMoving DEF LedgerHolds, t2
<1> QED
  BY <1>5, <1>6

LEMMA LedgerWithDelete ==
  ASSUME Typed, LedgerHolds, NEW no, DeleteWrites(no)
  PROVE  LedgerHolds'
<1> DEFINE t == Native(transactions)
           t2 == Native(transactions')
           rest == DeleteRowsOf(t, no)
           others == DeleteAccountRow(accounts, no)
<1>1. Ledger(others, rest)
  BY LedgerAfterDelete DEF LedgerHolds
<1>2. /\ DOMAIN accounts' = DOMAIN others
      /\ \A a \in DOMAIN others : accounts'[a].balance = others[a].balance
  BY DEF DeleteWrites, DeleteAccountRow
<1>3. DOMAIN t2 = DOMAIN rest
  BY DEF DeleteWrites, Native, DeleteRowsOf, RowsOf
<1>4. \A i \in DOMAIN rest : /\ t2[i].account_no = rest[i].account_no
                             /\ t2[i].type = rest[i].type
                             /\ t2[i].amount = rest[i].amount
                             /\ t2[i].balance_after = rest[i].balance_after
  BY DEF DeleteWrites, Native, DeleteRowsOf, RowsOf
<1> HIDE DEF t2, rest, others
<1>5. Ledger(accounts', t2)
  BY <1>1, <1>2, <1>3, <1>4, LedgerSameColumns
<1> QED
  BY <1>5 DEF LedgerHolds, t2

LEMMA NextLedgerHolds ==
  ASSUME Typed, LedgerHolds, [Next]_vars
  PROVE  LedgerHolds'
<1>1. CASE UNCHANGED tables
  BY <1>1 DEF tables, LedgerHolds
<1> QED
  BY <1>1, NextWrites, LedgerWithAccount, LedgerWithImport, LedgerWithEntry,
     LedgerWithEdit, LedgerWithDelete

(* The rows of the legacy file, wherever they come to lie, leave every     *)
(* balance explained by the rows the handlers wrote.                       *)
THEOREM NativeLedgerCorrect == Spec => []NativeLedgerExplainsBalance
<1>1. Init => Typed /\ LedgerHolds
  <2> SUFFICES ASSUME Init PROVE LedgerHolds
    BY InitTyped
  <2>1. DOMAIN accounts = {} /\ DOMAIN Native(transactions) = {}
    BY DEF Init, Native
  <2> QED
    BY <2>1 DEF LedgerHolds, Ledger, RunningTotals, BalanceIsTotal
<1>2. Typed /\ LedgerHolds /\ [Next]_vars => (Typed /\ LedgerHolds)'
  BY NextTyped, NextLedgerHolds
<1>3. LedgerHolds => NativeLedgerExplainsBalance
  BY LedgerHoldsIs
<1> QED
  BY <1>1, <1>2, <1>3, PTL DEF Spec

-------------------------------------------------------------------------------
(* What past remembers of a step.                                          *)
Pasts == [overlap : BOOLEAN, stopped : BOOLEAN, served : BOOLEAN]

LEMMA PastOfStart ==
  ASSUME past \in Pasts, NEW s, Start(s)
  PROVE  /\ past' \in Pasts
         /\ past'.stopped = past.stopped
         /\ past'.served = past.served
         /\ ~past'.overlap => ~past.overlap /\ \A r \in Servers : pc[r] \notin Starting
<1> DEFINE b == past.overlap \/ \E r \in Servers : pc[r] \in Starting
<1>1. past' = [past EXCEPT !.overlap = b]
  BY DEF Start
<1>2. b \in BOOLEAN
  OBVIOUS
<1>3. ~b => ~past.overlap /\ \A r \in Servers : pc[r] \notin Starting
  OBVIOUS
<1> HIDE DEF b
<1>4. /\ past' \in Pasts
      /\ past'.stopped = past.stopped
      /\ past'.served = past.served
      /\ past'.overlap = b
  BY <1>1, <1>2 DEF Pasts
<1> QED
  BY <1>3, <1>4

LEMMA PastOfEnd ==
  ASSUME past \in Pasts, NEW s, End(s)
  PROVE  /\ past' \in Pasts
         /\ past'.overlap = past.overlap
         /\ past'.served = past.served
         /\ ~past'.stopped => ~past.stopped /\ ~(pc[s] \in Importing /\ line[s] > 1)
<1> DEFINE b == past.stopped \/ (pc[s] \in Importing /\ line[s] > 1)
<1>1. past' = [past EXCEPT !.stopped = b]
  BY DEF End
<1>2. b \in BOOLEAN
  OBVIOUS
<1>3. ~b => ~past.stopped /\ ~(pc[s] \in Importing /\ line[s] > 1)
  OBVIOUS
<1> HIDE DEF b
<1>4. /\ past' \in Pasts
      /\ past'.overlap = past.overlap
      /\ past'.served = past.served
      /\ past'.stopped = b
  BY <1>1, <1>2 DEF Pasts
<1> QED
  BY <1>3, <1>4

LEMMA PastOfFail ==
  ASSUME past \in Pasts, NEW s, FailImport(s)
  PROVE  past' \in Pasts /\ past'.stopped /\ past'.overlap = past.overlap
<1>1. past' = [past EXCEPT !.stopped = TRUE]
  BY DEF FailImport
<1> QED
  BY <1>1 DEF Pasts

LEMMA PastOfHandler ==
  ASSUME past \in Pasts, Served
  PROVE  past' \in Pasts /\ past'.served /\ past'.overlap = past.overlap
<1>1. past' = [past EXCEPT !.served = TRUE]
  BY DEF Served
<1> QED
  BY <1>1 DEF Pasts

LEMMA HandlerServed ==
  ASSUME Handler
  PROVE  Served
  BY DEF Handler, CreateAccount, Enter, EditAccount, DeleteAccount

(* What is forgiven stays forgiven: no step takes back what past says.     *)
LEMMA NextPast ==
  ASSUME past \in Pasts, [Next]_vars
  PROVE  /\ past' \in Pasts
         /\ ~past'.overlap => ~past.overlap
<1>1. CASE Handler
  BY <1>1, HandlerServed, PastOfHandler
<1>2. ASSUME NEW s \in Servers, Startup(s)
      PROVE  past' \in Pasts /\ (~past'.overlap => ~past.overlap)
  <2>1. CASE Start(s)
    BY <2>1, PastOfStart
  <2>2. CASE End(s)
    BY <2>2, PastOfEnd
  <2>3. CASE FailImport(s)
    BY <2>3, PastOfFail
  <2>4. CASE UNCHANGED past
    BY <2>4
  <2> QED
    BY <1>2, <2>1, <2>2, <2>3, <2>4
       DEF Startup, CountAccounts, CountTransactions, BeginImport, ImportAccount, EndOfFile,
           SkipLine, ImportTransaction, UnknownAccount, CountAdmins, InsertAdmin
<1>3. CASE UNCHANGED vars
  BY <1>3 DEF vars
<1> QED
  BY <1>1, <1>2, <1>3 DEF Next

(* A process that goes from one place to another while starting, or leaves *)
(* the start, lets no second process in.                                   *)
LEMMA OneStartsKept ==
  ASSUME Typed, OneStarts, NEW s \in Servers, NEW place, Go(s, place),
         place \in Starting => pc[s] \in Starting
  PROVE  OneStarts'
<1>1. pc \in [Servers -> Starting \union {"off", "serving"}]
  BY DEF Typed, TypeOK
<1> QED
  BY <1>1 DEF OneStarts, Go

LEMMA NextOneStarts ==
  ASSUME Typed, past \in Pasts, [Next]_vars, ~past.overlap => OneStarts, ~past'.overlap
  PROVE  OneStarts'
<1>0. OneStarts
  BY NextPast
<1>1. CASE UNCHANGED pc
  BY <1>0, <1>1 DEF OneStarts
<1>2. ASSUME NEW s \in Servers, Startup(s)
      PROVE  OneStarts'
  <2>1. CASE Start(s)
    <3>1. \A r \in Servers : pc[r] \notin Starting
      BY <2>1, PastOfStart
    <3>2. pc' = [pc EXCEPT ![s] = "accounts"] /\ pc \in [Servers -> Starting \union {"off", "serving"}]
      BY <2>1 DEF Start, Go, Typed, TypeOK
    <3> QED
      BY <3>1, <3>2 DEF OneStarts
  <2>2. CASE UNCHANGED pc
    BY <1>1, <2>2
  <2>3. ASSUME ~Start(s), ~UNCHANGED pc
        PROVE  \E place : Go(s, place) /\ (place \in Starting => pc[s] \in Starting)
    <3>1. CASE CountAccounts(s) \/ CountTransactions(s)
      BY <3>1 DEF CountAccounts, CountTransactions, BeginImport, Starting
    <3>2. CASE \/ EndOfFile(s, "importAccounts", AccountsFile, "transactions")
               \/ EndOfFile(s, "importTransactions", TransactionsFile, "admins")
               \/ UnknownAccount(s)
      BY <3>2 DEF EndOfFile, UnknownAccount, AtLine, Starting, Importing
    <3>3. CASE FailImport(s)
      BY <3>3 DEF FailImport, Starting, Importing
    <3>4. CASE CountAdmins(s) \/ End(s)
      BY <3>4 DEF CountAdmins, End, Starting, Importing
    <3>5. CASE \E username \in AdminNames : InsertAdmin(s, username)
      BY <3>5 DEF InsertAdmin, Starting, Importing
    <3> QED
      BY <1>2, <2>3, <3>1, <3>2, <3>3, <3>4, <3>5
         DEF Startup, ImportAccount, SkipLine, ImportTransaction
  <2> QED
    BY <1>0, <2>1, <2>2, <2>3, OneStartsKept
<1>3. CASE Handler
  BY <1>1, <1>3, HandlerServed DEF Served
<1>4. CASE UNCHANGED vars
  BY <1>1, <1>4 DEF vars
<1> QED
  BY <1>2, <1>3, <1>4 DEF Next

LEMMA NextAdmins ==
  ASSUME Typed, past \in Pasts, Alone, [Next]_vars
  PROVE  Alone'
<1>0. /\ pc \in [Servers -> Starting \union {"off", "serving"}]
      /\ ~past'.overlap => ~past.overlap /\ OneStarts' /\ OneStarts /\ FirstAdmin
  BY NextPast, NextOneStarts DEF Typed, TypeOK, Alone
<1>1. CASE UNCHANGED <<admins, pc>>
  BY <1>0, <1>1 DEF Alone, Serving, FirstAdmin
<1>2. ASSUME NEW s \in Servers, NEW place, Go(s, place), UNCHANGED admins,
             place \notin {"insertAdmin", "serving"}
      PROVE  Alone'
  BY <1>0, <1>2 DEF Alone, Serving, FirstAdmin, Go
<1>3. ASSUME NEW s \in Servers, CountAdmins(s)
      PROVE  Alone'
  BY <1>0, <1>3 DEF CountAdmins, Seeded, Alone, Serving, FirstAdmin, Go
<1>4. ASSUME NEW s \in Servers, NEW username \in AdminNames, InsertAdmin(s, username)
      PROVE  Alone'
  <2>1. /\ pc[s] = "insertAdmin"
        /\ admins' = admins \union {username}
        /\ admins' # {}
        /\ pc'[s] \in {"off", "serving"}
        /\ \A t \in Servers \ {s} : pc'[t] = pc[t]
    BY <1>0, <1>4 DEF InsertAdmin, Go
  <2>2. Serving' => admins' # {}
    BY <2>1
  <2>3. ASSUME ~past'.overlap
        PROVE  FirstAdmin'
    <3>1. admins = {}
      BY <1>0, <2>1, <2>3 DEF FirstAdmin
    <3>2. \A t \in Servers : pc'[t] # "insertAdmin"
      BY <1>0, <2>1, <2>3 DEF OneStarts, Starting
    <3> QED
      BY <2>1, <3>1, <3>2 DEF FirstAdmin
  <2> QED
    BY <1>0, <2>2, <2>3 DEF Alone
<1>5. ASSUME NEW s \in Servers, Startup(s)
      PROVE  Alone'
  <2>1. CASE Start(s) \/ FailImport(s) \/ End(s) \/ UnknownAccount(s)
    BY <1>2, <2>1 DEF Start, FailImport, End, UnknownAccount
  <2>2. CASE CountAccounts(s) \/ CountTransactions(s)
    BY <1>2, <2>2 DEF CountAccounts, CountTransactions, BeginImport
  <2>3. CASE \/ EndOfFile(s, "importAccounts", AccountsFile, "transactions")
             \/ EndOfFile(s, "importTransactions", TransactionsFile, "admins")
    BY <1>2, <2>3 DEF EndOfFile
  <2>4. CASE ImportAccount(s) \/ SkipLine(s) \/ ImportTransaction(s)
    BY <1>1, <2>4 DEF ImportAccount, SkipLine, ImportTransaction
  <2> QED
    BY <1>3, <1>4, <1>5, <2>1, <2>2, <2>3, <2>4 DEF Startup
<1>6. CASE Handler
  BY <1>1, <1>6, HandlerServed DEF Served
<1>7. CASE UNCHANGED vars
  BY <1>1, <1>7 DEF vars
<1> QED
  BY <1>5, <1>6, <1>7 DEF Next

LEMMA InitAlone ==
  ASSUME Init
  PROVE  past \in Pasts /\ Alone
  BY DEF Init, Pasts, Alone, Serving, OneStarts, FirstAdmin, Starting, Importing

LEMMA AloneMeans ==
  ASSUME past \in Pasts, Alone
  PROVE  SingleAdminServes
<1>1. Serving => admins # {}
  BY DEF Alone
<1>2. ~past.overlap /\ admins # {} => Cardinality(admins) = 1
  <2> SUFFICES ASSUME ~past.overlap, admins # {} PROVE Cardinality(admins) = 1
    OBVIOUS
  <2>1. PICK u : admins = {u}
    BY DEF Alone, FirstAdmin
  <2> QED
    BY <2>1, FS_Singleton
<1> QED
  BY <1>1, <1>2 DEF SingleAdminServes

(* No process serves customers before there is an administrator, and       *)
(* starts that do not overlap make one and no more.                        *)
THEOREM AdminCorrect == Spec => []SingleAdminServes
<1>1. Init => Typed /\ past \in Pasts /\ Alone
  BY InitTyped, InitAlone
<1>2. Typed /\ past \in Pasts /\ Alone /\ [Next]_vars => (Typed /\ past \in Pasts /\ Alone)'
  BY NextTyped, NextPast, NextAdmins
<1>3. past \in Pasts /\ Alone => SingleAdminServes
  BY AloneMeans
<1> QED
  BY <1>1, <1>2, <1>3, PTL DEF Spec

-------------------------------------------------------------------------------
(* Rows of lines.  Their time stamps tell the lines apart, and no handler  *)
(* writes one.                                                             *)
Numbered == 1 .. Len(TransactionsFile)

LEMMA RowsFromStay ==
  ASSUME Typed, [Next]_vars, \A s \in Servers : ~ImportTransaction(s), NEW i \in Numbered
  PROVE  RowsFrom(i)' \subseteq RowsFrom(i)
<1>1. CASE UNCHANGED transactions
  BY <1>1 DEF RowsFrom
<1>2. ASSUME NEW no, NEW amount, NEW type, EnterWrites(no, amount, type)
      PROVE  RowsFrom(i)' \subseteq RowsFrom(i)
  BY <1>2, FileIsOld DEF EnterWrites, Appends, RowsFrom, Numbered
<1>3. ASSUME NEW old, NEW new, EditWrites(old, new)
      PROVE  RowsFrom(i)' \subseteq RowsFrom(i)
  BY <1>3 DEF EditWrites, Renumbered, Moved, RowsFrom
<1>4. ASSUME NEW no, DeleteWrites(no)
      PROVE  RowsFrom(i)' \subseteq RowsFrom(i)
  BY <1>4 DEF DeleteWrites, RowsFrom
<1>5. ASSUME NEW no \in Numbers, NEW amount \in Amounts,
             Enter(no, amount, "DEPOSIT") \/ Enter(no, amount, "WITHDRAW")
      PROVE  RowsFrom(i)' \subseteq RowsFrom(i)
  BY <1>2, <1>5, EnterColumns
<1>6. CASE Handler
  <2>1. ASSUME NEW no, NEW pin, NEW salt, CreateAccount(no, pin, salt)
        PROVE  UNCHANGED transactions
    BY <2>1 DEF CreateAccount
  <2> QED
    BY <1>1, <1>3, <1>4, <1>5, <1>6, <2>1, EditColumns, DeleteColumns DEF Handler
<1>7. ASSUME NEW s \in Servers, Startup(s)
      PROVE  UNCHANGED transactions
  BY <1>7
     DEF Startup, Start, CountAccounts, CountTransactions, BeginImport, EndOfFile, ImportAccount,
         SkipLine, UnknownAccount, FailImport, CountAdmins, InsertAdmin, End, tables
<1> QED
  BY <1>1, <1>6, <1>7 DEF Next, vars, tables

LEMMA RowsFromImport ==
  ASSUME Typed, NEW s \in Servers, ImportTransaction(s), NEW l, l = line[s]
  PROVE  /\ l \in Numbered
         /\ RowsFrom(l)' = RowsFrom(l) \union {nextId}
         /\ \A i \in Numbered \ {l} : RowsFrom(i)' = RowsFrom(i)
<1> DEFINE entry == TransactionsFile[l]
<1>1. l \in Numbered
  <2>1. l \in Lines /\ l <= Len(TransactionsFile)
    BY DEF ImportTransaction, AtLine, Typed, TypeOK, Lines
  <2> QED
    BY <2>1, FilesAreFinite DEF Lines, Numbered
<1>2. ImportWrites(entry)
  BY ImportTransactionColumns
<1>3. PICK row : Appends(row) /\ row.created_at = entry.timestamp /\ entry # Unreadable
  BY <1>2 DEF ImportWrites
<1>4. RowsFrom(l)' = RowsFrom(l) \union {nextId}
  BY <1>3 DEF Appends, RowsFrom
<1>5. ASSUME NEW i \in Numbered \ {l}
      PROVE  RowsFrom(i)' = RowsFrom(i)
  <2>1. TransactionsFile[i] # Unreadable => row.created_at # TransactionsFile[i].timestamp
    BY <1>1, <1>3, FileIsOld DEF Numbered
  <2>2. transactions'[nextId] = row
    BY <1>3 DEF Appends
  <2> QED
    BY <1>3, <2>1, <2>2 DEF Appends, RowsFrom
<1> QED
  BY <1>1, <1>4, <1>5

LEMMA NextLinesOnce ==
  ASSUME Typed, past \in Pasts, Alone, LinesOnce, [Next]_vars
  PROVE  LinesOnce'
<1> DEFINE Once == \A i \in Numbered : \A x, y \in RowsFrom(i) : x = y
           Ahead(s) == \A i \in line[s] .. Len(TransactionsFile) : RowsFrom(i) = {}
<1> SUFFICES ASSUME ~past'.overlap
             PROVE  /\ Once'
                    /\ \A s \in Servers : pc'[s] = "importTransactions" => Ahead(s)'
  BY DEF LinesOnce, Numbered
<1>1. /\ OneStarts
      /\ Once
      /\ \A s \in Servers : pc[s] = "importTransactions" => Ahead(s)
      /\ pc \in [Servers -> Places]
      /\ line \in [Servers -> Lines]
  BY NextPast DEF Alone, LinesOnce, Numbered, Typed, TypeOK, Places, Lines
<1>2. \A s \in Servers : line[s] \in Nat \ {0}
  BY <1>1 DEF Lines
<1>3. \A s \in Servers : \A i \in line[s] .. Len(TransactionsFile) : i \in Numbered
  BY <1>2, FilesAreFinite DEF Numbered
<1>4. CASE Handler
  <2>1. UNCHANGED <<pc, line>>
    BY <1>4, HandlerServed DEF Served
  <2>2. \A s \in Servers : ~ImportTransaction(s)
    <3>1. ASSUME NEW s \in Servers, ImportTransaction(s)
          PROVE  FALSE
      BY <1>2, <2>1, <3>1, <1>1 DEF ImportTransaction, NextLine
    <3> QED
      BY <3>1
  <2>3. \A i \in Numbered : RowsFrom(i)' \subseteq RowsFrom(i)
    BY <2>2, RowsFromStay
  <2>4. Once'
    BY <1>1, <2>3
  <2>5. ASSUME NEW s \in Servers, pc'[s] = "importTransactions"
        PROVE  Ahead(s)'
    BY <1>1, <1>3, <2>1, <2>3, <2>5
  <2> QED
    BY <2>4, <2>5
<1>5. ASSUME NEW s \in Servers, ImportTransaction(s)
      PROVE  /\ Once'
             /\ \A r \in Servers : pc'[r] = "importTransactions" => Ahead(r)'
  <2>1. /\ pc[s] = "importTransactions"
        /\ pc' = pc
        /\ line' = [line EXCEPT ![s] = line[s] + 1]
    BY <1>5 DEF ImportTransaction, AtLine, NextLine
  <2>0. PICK l : l = line[s]
    OBVIOUS
  <2>2. /\ l \in Numbered
        /\ RowsFrom(l)' = RowsFrom(l) \union {nextId}
        /\ \A i \in Numbered \ {l} : RowsFrom(i)' = RowsFrom(i)
    BY <1>5, <2>0, RowsFromImport
  <2>3. RowsFrom(l) = {}
    BY <1>1, <2>0, <2>1, <2>2, FilesAreFinite DEF Numbered
  <2>4. Once'
    <3>1. ASSUME NEW i \in Numbered
          PROVE  \A x, y \in RowsFrom(i)' : x = y
      <4>1. CASE i = l
        BY <2>2, <2>3, <4>1
      <4>2. CASE i # l
        BY <1>1, <2>2, <4>2
      <4> QED
        BY <4>1, <4>2
    <3> QED
      BY <3>1
  <2>5. ASSUME NEW r \in Servers, pc'[r] = "importTransactions"
        PROVE  Ahead(r)'
    <3>1. r = s
      BY <1>1, <2>1, <2>5 DEF OneStarts, Starting, Importing
    <3>2. line'[r] = l + 1
      BY <1>1, <2>0, <2>1, <3>1
    <3>3. ASSUME NEW i \in line'[r] .. Len(TransactionsFile)
          PROVE  RowsFrom(i)' = {}
      <4>1. i \in line[s] .. Len(TransactionsFile) /\ i # l
        BY <1>2, <2>0, <3>2, FilesAreFinite
      <4> QED
        BY <1>1, <1>3, <2>1, <2>2, <4>1
    <3> QED
      BY <3>3
  <2> QED
    BY <2>4, <2>5
<1>6. ASSUME NEW s \in Servers, Startup(s), ~ImportTransaction(s)
      PROVE  /\ Once'
             /\ \A r \in Servers : pc'[r] = "importTransactions" => Ahead(r)'
  <2>1. UNCHANGED transactions
    BY <1>6
       DEF Startup, Start, CountAccounts, CountTransactions, BeginImport, EndOfFile, ImportAccount,
           SkipLine, UnknownAccount, FailImport, CountAdmins, InsertAdmin, End, tables
  <2>2. \A i : RowsFrom(i)' = RowsFrom(i)
    BY <2>1 DEF RowsFrom
  <2>3. ASSUME NEW r \in Servers, pc'[r] = "importTransactions"
        PROVE  \/ pc[r] = "importTransactions" /\ line'[r] \in {line[r], line[r] + 1}
               \/ DOMAIN transactions = {}
    <3>1. CASE UNCHANGED pc /\ (UNCHANGED line \/ NextLine(s))
      BY <1>1, <2>3, <3>1 DEF NextLine
    <3>2. CASE UNCHANGED line /\ \E place : Go(s, place) /\ place # "importTransactions"
      BY <1>1, <2>3, <3>2 DEF Go
    <3>3. CASE CountAccounts(s)
      BY <1>1, <2>3, <3>3 DEF CountAccounts, BeginImport, Go
    <3>4. CASE CountTransactions(s)
      BY <1>1, <2>3, <3>4 DEF CountTransactions, BeginImport, Go, Importable
    <3>5. CASE ImportAccount(s) \/ SkipLine(s)
      BY <3>1, <3>5 DEF ImportAccount, SkipLine
    <3>6. CASE ~(CountAccounts(s) \/ CountTransactions(s) \/ ImportAccount(s) \/ SkipLine(s))
      <4>1. UNCHANGED line /\ \E place : Go(s, place) /\ place # "importTransactions"
        BY <1>6, <3>6
           DEF Startup, Start, EndOfFile, UnknownAccount, FailImport, CountAdmins, InsertAdmin, End
      <4> QED
        BY <3>2, <4>1
    <3> QED
      BY <3>3, <3>4, <3>5, <3>6
  <2>4. ASSUME NEW r \in Servers, pc'[r] = "importTransactions"
        PROVE  Ahead(r)'
    <3>1. CASE pc[r] = "importTransactions" /\ line'[r] \in {line[r], line[r] + 1}
      <4>1. ASSUME NEW i \in line'[r] .. Len(TransactionsFile)
            PROVE  i \in line[r] .. Len(TransactionsFile)
        BY <1>2, <3>1, FilesAreFinite
      <4> QED
        BY <1>1, <2>2, <3>1, <4>1
    <3>2. CASE DOMAIN transactions = {}
      BY <2>2, <3>2 DEF RowsFrom
    <3> QED
      BY <2>3, <2>4, <3>1, <3>2
  <2> QED
    BY <1>1, <2>2, <2>4
<1>7. CASE UNCHANGED vars
  <2>1. UNCHANGED <<pc, line>> /\ \A i : RowsFrom(i)' = RowsFrom(i)
    BY <1>7 DEF vars, tables, RowsFrom
  <2> QED
    BY <1>1, <2>1
<1> QED
  BY <1>4, <1>5, <1>6, <1>7 DEF Next

LEMMA InitLinesOnce ==
  ASSUME Init
  PROVE  LinesOnce
  BY DEF Init, LinesOnce, RowsFrom

LEMMA LinesOnceMeans ==
  ASSUME LinesOnce
  PROVE  LinesImportedOnce
<1> SUFFICES ASSUME ~past.overlap, NEW i \in 1 .. Len(TransactionsFile)
             PROVE  Cardinality(RowsFrom(i)) <= 1
  BY DEF LinesImportedOnce
<1> DEFINE rows == RowsFrom(i)
<1>1. \A x, y \in rows : x = y
  BY DEF LinesOnce
<1> HIDE DEF rows
<1>2. rows = {} \/ \E x : rows = {x}
  <2> SUFFICES ASSUME NEW x \in rows PROVE rows = {x}
    OBVIOUS
  <2> QED
    BY <1>1
<1>3. Cardinality(rows) \in {0, 1}
  BY <1>2, FS_EmptySet, FS_Singleton
<1> QED
  BY <1>3 DEF rows

(* Whatever is deleted, renumbered and written while processes end and     *)
(* start again, no line of transactions.txt is imported a second time,     *)
(* unless two processes were starting together.                            *)
THEOREM LinesCorrect == Spec => []LinesImportedOnce
<1>1. Init => Typed /\ past \in Pasts /\ Alone /\ LinesOnce
  BY InitTyped, InitAlone, InitLinesOnce
<1>2. Typed /\ past \in Pasts /\ Alone /\ LinesOnce /\ [Next]_vars
        => (Typed /\ past \in Pasts /\ Alone /\ LinesOnce)'
  BY NextTyped, NextPast, NextAdmins, NextLinesOnce
<1>3. LinesOnce => LinesImportedOnce
  BY LinesOnceMeans
<1> QED
  BY <1>1, <1>2, <1>3, PTL DEF Spec

-------------------------------------------------------------------------------
(* How far imports have got that nothing disturbs.  Such a step is one of  *)
(* a starting process: no handler, no failure, no end in mid-import.       *)
LEMMA UndisturbedStep ==
  ASSUME past \in Pasts, [Next]_vars, Undisturbed'
  PROVE  /\ Undisturbed
         /\ UNCHANGED vars \/ \E s \in Servers : Startup(s) /\ ~FailImport(s)
         /\ \A s \in Servers : End(s) => ~(pc[s] \in Importing /\ line[s] > 1)
<1>0. ~past'.overlap /\ ~past'.stopped /\ ~past'.served
  BY DEF Undisturbed
<1>1. ~Handler
  BY <1>0, HandlerServed, PastOfHandler
<1>2. \A s \in Servers : ~FailImport(s)
  BY <1>0, PastOfFail
<1>3. \A s \in Servers : End(s) => ~(pc[s] \in Importing /\ line[s] > 1)
  BY <1>0, PastOfEnd
<1>4. ASSUME NEW s \in Servers, Startup(s)
      PROVE  Undisturbed
  <2>1. CASE Start(s)
    BY <1>0, <2>1, PastOfStart DEF Undisturbed
  <2>2. CASE End(s)
    BY <1>0, <2>2, PastOfEnd DEF Undisturbed
  <2>3. CASE UNCHANGED past
    BY <1>0, <2>3 DEF Undisturbed
  <2> QED
    BY <1>2, <1>4, <2>1, <2>2, <2>3
       DEF Startup, CountAccounts, CountTransactions, BeginImport, ImportAccount, EndOfFile,
           SkipLine, ImportTransaction, UnknownAccount, CountAdmins, InsertAdmin
<1>5. UNCHANGED vars => Undisturbed
  BY <1>0 DEF vars, Undisturbed
<1> QED
  BY <1>1, <1>2, <1>3, <1>4, <1>5 DEF Next

(* A step of one process that neither enters, leaves nor moves on its      *)
(* import of a file leaves the progress on that file as it is.             *)
Moves(s, place) ==
  /\ pc \in [Servers -> Places]
  /\ line \in [Servers -> Lines]
  /\ Go(s, place)
  /\ \A r \in Servers \ {s} : line'[r] = line[r]

LEMMA AccountsProgressKept ==
  ASSUME NEW s \in Servers, NEW place, Moves(s, place), AccountsProgress, UNCHANGED accounts,
         pc[s] # "importAccounts", place # "importAccounts",
         place \in PastAccounts => pc[s] \in PastAccounts
  PROVE  AccountsProgress'
<1>1. /\ pc'[s] = place
      /\ \A r \in Servers \ {s} : pc'[r] = pc[r] /\ line'[r] = line[r]
  BY DEF Moves, Go
<1> QED
  BY <1>1 DEF AccountsProgress, AccountsTo, AllAccounts, FileAccounts

LEMMA LinesProgressKept ==
  ASSUME NEW s \in Servers, NEW place, Moves(s, place), LinesProgress, UNCHANGED transactions,
         pc[s] # "importTransactions", place # "importTransactions",
         place \in PastLines => pc[s] \in PastLines
  PROVE  LinesProgress'
<1>1. /\ pc'[s] = place
      /\ \A r \in Servers \ {s} : pc'[r] = pc[r] /\ line'[r] = line[r]
  BY DEF Moves, Go
<1>2. \A i : RowsFrom(i)' = RowsFrom(i)
  BY DEF RowsFrom
<1>3. \A r \in Servers \ {s} : LinesTo(line[r]) => LinesTo(line[r])'
  BY <1>1, <1>2 DEF LinesTo
<1>4. \A r \in Servers \ {s} : KnownTo(line[r]) => KnownTo(line[r])'
  BY <1>1 DEF KnownTo
<1>5. AllLines => AllLines'
  BY <1>2 DEF AllLines, LinesTo
<1> QED
  BY <1>1, <1>3, <1>4, <1>5 DEF LinesProgress

(* What each step of an undisturbed start makes of either file.            *)
Advances(s) ==
  /\ s \in Servers
  /\ Typed /\ OneStarts /\ AccountsProgress /\ LinesProgress
  /\ Startup(s)

LEMMA StepMoves ==
  ASSUME Typed, NEW s \in Servers, Startup(s)
  PROVE  \E place : Moves(s, place)
<1>1. pc \in [Servers -> Places] /\ line \in [Servers -> Lines]
  BY DEF Typed, TypeOK, Places, Lines
<1>2. UNCHANGED pc => Go(s, pc[s])
  BY <1>1 DEF Go
<1>3. CASE CountAccounts(s) \/ CountTransactions(s)
  <2>1. /\ \E place : Go(s, place)
        /\ line' = [line EXCEPT ![s] = 1]
    BY <1>3 DEF CountAccounts, CountTransactions, BeginImport
  <2> QED
    BY <1>1, <2>1 DEF Moves
<1>4. CASE ImportAccount(s) \/ SkipLine(s) \/ ImportTransaction(s)
  <2>1. UNCHANGED pc /\ line' = [line EXCEPT ![s] = line[s] + 1]
    BY <1>4 DEF ImportAccount, SkipLine, ImportTransaction, NextLine
  <2> QED
    BY <1>1, <1>2, <2>1 DEF Moves
<1>5. CASE UNCHANGED line /\ \E place : Go(s, place)
  BY <1>1, <1>5 DEF Moves
<1> QED
  BY <1>3, <1>4, <1>5
     DEF Startup, Start, EndOfFile, UnknownAccount, FailImport, CountAdmins, InsertAdmin, End

LEMMA AccountsAdvance ==
  ASSUME NEW s, Advances(s), ~FailImport(s), End(s) => ~(pc[s] \in Importing /\ line[s] > 1)
  PROVE  AccountsProgress'
<1>0. /\ s \in Servers /\ Typed /\ OneStarts /\ AccountsProgress /\ Startup(s)
      /\ pc \in [Servers -> Places]
      /\ line \in [Servers -> Lines]
      /\ line[s] \in Nat \ {0}
  BY DEF Advances, Typed, TypeOK, Places, Lines
<1>1. PICK place : Moves(s, place)
  BY <1>0, StepMoves
<1>2. /\ pc'[s] = place
      /\ \A r \in Servers \ {s} : pc'[r] = pc[r] /\ line'[r] = line[r]
  BY <1>0, <1>1 DEF Moves, Go
<1>3. pc[s] \in Starting => \A r \in Servers \ {s} : pc[r] # "importAccounts"
  BY <1>0 DEF OneStarts, Starting, Importing
<1>4. CASE CountAccounts(s)
  <2>1. /\ pc[s] = "accounts"
        /\ place = IF DOMAIN accounts = {} THEN "importAccounts" ELSE "transactions"
        /\ line'[s] = 1
        /\ accounts' = accounts
    BY <1>0, <1>2, <1>4 DEF CountAccounts, BeginImport, Go, Importable, tables
  <2>2. \A r \in Servers : pc[r] # "importAccounts"
    BY <1>3, <2>1 DEF Starting
  <2>3. DOMAIN accounts = {} \/ AllAccounts
    BY <1>0, <2>2 DEF AccountsProgress
  <2>4. AllAccounts => AllAccounts'
    BY <2>1 DEF AllAccounts
  <2>5. CASE DOMAIN accounts = {}
    <3>1. AccountsTo(1)
      BY <2>5 DEF AccountsTo
    <3>2. pc'[s] = "importAccounts" /\ line'[s] <= Len(AccountsFile) + 1
      BY <1>2, <2>1, <2>5, FilesAreFinite
    <3>3. AccountsTo(line[s])'
      BY <2>1, <3>1 DEF AccountsTo
    <3> QED
      BY <1>0, <1>2, <2>2, <2>4, <3>2, <3>3 DEF AccountsProgress, PastAccounts
  <2>6. CASE DOMAIN accounts # {}
    <3>1. AllAccounts' /\ pc'[s] = "transactions"
      BY <1>2, <2>1, <2>3, <2>4, <2>6
    <3>2. \A r \in Servers : pc'[r] # "importAccounts"
      BY <1>2, <2>2, <3>1
    <3> QED
      BY <3>1, <3>2 DEF AccountsProgress
  <2> QED
    BY <2>5, <2>6
<1>5. CASE ImportAccount(s)
  <2>0. PICK l : l = line[s]
    OBVIOUS
  <2>1. /\ pc[s] = "importAccounts"
        /\ l <= Len(AccountsFile)
        /\ pc' = pc
        /\ line'[s] = l + 1
        /\ l \in Nat \ {0}
    BY <1>0, <1>5, <2>0 DEF ImportAccount, NextLine
  <2>2. DOMAIN accounts' = DOMAIN accounts \union {AccountsFile[l]}
    BY <1>5, <2>0, ImportAccountAdds DEF AddsAccount, tables
  <2>3. AccountsTo(l)
    BY <1>0, <2>0, <2>1 DEF AccountsProgress
  <2>4. AccountsTo(line[s])'
    <3>1. \A i : i \in 1 .. (l + 1) - 1 <=> i \in 1 .. l - 1 \/ i = l
      BY <2>1
    <3> QED
      BY <2>1, <2>2, <2>3, <3>1 DEF AccountsTo
  <2>5. AllAccounts => AllAccounts'
    <3>1. AccountsFile[l] \in FileAccounts
      BY <2>1, FilesAreFinite DEF FileAccounts
    <3> QED
      BY <2>2, <3>1 DEF AllAccounts, FileAccounts
  <2>6. line'[s] <= Len(AccountsFile) + 1
    BY <2>1, FilesAreFinite
  <2>7. \A r \in Servers \ {s} : pc'[r] # "importAccounts"
    BY <1>3, <2>1 DEF Starting, Importing
  <2> QED
    BY <1>0, <2>1, <2>4, <2>5, <2>6, <2>7 DEF AccountsProgress
<1>6. CASE EndOfFile(s, "importAccounts", AccountsFile, "transactions")
  <2>1. /\ pc[s] = "importAccounts"
        /\ place = "transactions"
        /\ line[s] > Len(AccountsFile)
        /\ accounts' = accounts
    BY <1>0, <1>2, <1>6 DEF EndOfFile, Go, tables
  <2>2. line[s] <= Len(AccountsFile) + 1 /\ AccountsTo(line[s])
    BY <1>0, <2>1 DEF AccountsProgress
  <2>3. line[s] - 1 = Len(AccountsFile)
    BY <1>0, <2>1, <2>2, FilesAreFinite
  <2>4. AllAccounts'
    BY <2>1, <2>2, <2>3 DEF AccountsTo, AllAccounts, FileAccounts
  <2>5. \A r \in Servers : pc'[r] # "importAccounts"
    BY <1>2, <1>3, <2>1 DEF Starting, Importing
  <2> QED
    BY <2>4, <2>5 DEF AccountsProgress
<1>7. CASE End(s) /\ pc[s] = "importAccounts"
  <2>1. line[s] = 1 /\ place = "off" /\ accounts' = accounts
    BY <1>0, <1>2, <1>7 DEF End, Go, Importing, tables
  <2>2. AccountsTo(1)
    BY <1>0, <1>7, <2>1 DEF AccountsProgress
  <2>3. DOMAIN accounts' = {}
    BY <2>1, <2>2 DEF AccountsTo
  <2>4. \A r \in Servers : pc'[r] # "importAccounts"
    BY <1>2, <1>3, <1>7, <2>1 DEF Starting, Importing
  <2>5. \A r \in Servers : pc'[r] \in PastAccounts => AllAccounts'
    BY <1>0, <1>2, <2>1 DEF AccountsProgress, AllAccounts, PastAccounts
  <2> QED
    BY <2>3, <2>4, <2>5 DEF AccountsProgress
<1>8. CASE ~(\/ CountAccounts(s) \/ ImportAccount(s)
             \/ EndOfFile(s, "importAccounts", AccountsFile, "transactions")
             \/ End(s) /\ pc[s] = "importAccounts")
  <2>1. UNCHANGED accounts
    BY <1>0, <1>8
       DEF Startup, Start, CountTransactions, BeginImport, EndOfFile, SkipLine, ImportTransaction,
           UnknownAccount, FailImport, CountAdmins, InsertAdmin, End, tables
  <2>2. /\ pc[s] # "importAccounts"
        /\ place # "importAccounts"
        /\ place \in PastAccounts => pc[s] \in PastAccounts
    <3>1. CASE Start(s) \/ End(s)
      BY <1>0, <1>2, <1>8, <3>1 DEF Start, End, Go, PastAccounts
    <3>2. CASE CountTransactions(s) \/ UnknownAccount(s)
      BY <1>0, <1>2, <3>2
         DEF CountTransactions, BeginImport, UnknownAccount, AtLine, Go, PastAccounts
    <3>3. CASE EndOfFile(s, "importTransactions", TransactionsFile, "admins")
      BY <1>0, <1>2, <3>3 DEF EndOfFile, Go, PastAccounts
    <3>4. CASE SkipLine(s) \/ ImportTransaction(s)
      BY <1>0, <1>2, <3>4 DEF SkipLine, ImportTransaction, AtLine, PastAccounts
    <3>5. CASE CountAdmins(s) \/ \E username \in AdminNames : InsertAdmin(s, username)
      BY <1>0, <1>2, <3>5 DEF CountAdmins, InsertAdmin, Go, PastAccounts
    <3> QED
      BY <1>0, <1>8, <3>1, <3>2, <3>3, <3>4, <3>5 DEF Startup
  <2> QED
    BY <1>0, <1>1, <2>1, <2>2, AccountsProgressKept
<1> QED
  BY <1>4, <1>5, <1>6, <1>7, <1>8

LEMMA LinesAdvance ==
  ASSUME NEW s, Advances(s), ~FailImport(s), End(s) => ~(pc[s] \in Importing /\ line[s] > 1)
  PROVE  LinesProgress'
<1>0. /\ s \in Servers /\ Typed /\ OneStarts /\ LinesProgress /\ Startup(s)
      /\ pc \in [Servers -> Places]
      /\ line \in [Servers -> Lines]
      /\ line[s] \in Nat \ {0}
  BY DEF Advances, Typed, TypeOK, Places, Lines
<1>1. PICK place : Moves(s, place)
  BY <1>0, StepMoves
<1>2. /\ pc'[s] = place
      /\ \A r \in Servers \ {s} : pc'[r] = pc[r] /\ line'[r] = line[r]
  BY <1>0, <1>1 DEF Moves, Go
<1>3. pc[s] \in Starting => \A r \in Servers \ {s} : pc[r] # "importTransactions"
  BY <1>0 DEF OneStarts, Starting, Importing
<1>4. UNCHANGED transactions => (AllLines => AllLines') /\ \A n \in Nat : LinesTo(n) => LinesTo(n)'
  BY DEF AllLines, LinesTo, RowsFrom
<1>5. pc[s] = "importTransactions" =>
        /\ AllAccounts
        /\ LinesTo(line[s])
        /\ KnownTo(line[s])
        /\ line[s] = 1 => DOMAIN transactions = {}
  BY <1>0 DEF Advances, AccountsProgress, LinesProgress, PastAccounts
<1>6. CASE CountTransactions(s)
  <2>1. /\ pc[s] = "transactions"
        /\ place = IF DOMAIN transactions = {} THEN "importTransactions" ELSE "admins"
        /\ line'[s] = 1
        /\ transactions' = transactions
    BY <1>0, <1>2, <1>6 DEF CountTransactions, BeginImport, Go, Importable, tables
  <2>2. \A r \in Servers : pc[r] # "importTransactions"
    BY <1>3, <2>1 DEF Starting
  <2>3. DOMAIN transactions = {} \/ AllLines
    BY <1>0, <2>2 DEF LinesProgress
  <2>4. CASE DOMAIN transactions = {}
    <3>1. LinesTo(1) /\ KnownTo(1)
      BY <2>4, FilesAreFinite DEF LinesTo, KnownTo, RowsFrom
    <3>2. LinesTo(line[s])' /\ KnownTo(line[s])'
      BY <2>1, <2>4, FilesAreFinite DEF LinesTo, KnownTo, RowsFrom
    <3>3. pc'[s] = "importTransactions"
      BY <1>2, <2>1, <2>4
    <3> QED
      BY <1>0, <1>2, <1>4, <2>1, <2>2, <2>4, <3>2, <3>3 DEF LinesProgress, PastLines
  <2>5. CASE DOMAIN transactions # {}
    <3>1. AllLines' /\ pc'[s] = "admins"
      BY <1>2, <1>4, <2>1, <2>3, <2>5
    <3>2. \A r \in Servers : pc'[r] # "importTransactions"
      BY <1>2, <2>2, <3>1
    <3> QED
      BY <3>1, <3>2 DEF LinesProgress
  <2> QED
    BY <2>4, <2>5
<1>7. CASE SkipLine(s)
  <2>0. PICK l : l = line[s]
    OBVIOUS
  <2>1. /\ pc[s] = "importTransactions"
        /\ l \in Nat \ {0}
        /\ TransactionsFile[l] = Unreadable
        /\ pc' = pc
        /\ line'[s] = l + 1
        /\ transactions' = transactions
    BY <1>0, <1>7, <2>0 DEF SkipLine, AtLine, NextLine, tables
  <2>2. LinesTo(l + 1)
    <3>1. l \notin WrittenLines
      BY <2>1 DEF WrittenLines
    <3>2. \A i \in Numbered : i < l + 1 <=> i < l \/ i = l
      BY <2>1, FilesAreFinite DEF Numbered
    <3>3. LinesTo(l)
      BY <1>5, <2>0, <2>1
    <3> QED
      BY <3>1, <3>2, <3>3 DEF LinesTo, Numbered
  <2>3. KnownTo(l + 1)
    <3>1. \A i \in Numbered : i < l + 1 <=> i < l \/ i = l
      BY <2>1, FilesAreFinite DEF Numbered
    <3> QED
      BY <1>5, <2>0, <2>1, <3>1 DEF KnownTo, Numbered
  <2>4. LinesTo(line[s])' /\ KnownTo(line[s])' /\ line'[s] # 1
    BY <2>1, <2>2, <2>3 DEF LinesTo, KnownTo, RowsFrom
  <2>5. \A r \in Servers \ {s} : pc'[r] # "importTransactions"
    BY <1>3, <2>1 DEF Starting, Importing
  <2> QED
    BY <1>0, <1>4, <2>1, <2>4, <2>5 DEF LinesProgress
<1>8. CASE ImportTransaction(s)
  <2>0. PICK l : l = line[s]
    OBVIOUS
  <2>1. /\ pc[s] = "importTransactions"
        /\ l \in Nat \ {0}
        /\ TransactionsFile[l] # Unreadable
        /\ TransactionsFile[l].account_no \in DOMAIN accounts
        /\ pc' = pc
        /\ line'[s] = l + 1
    BY <1>0, <1>8, <2>0 DEF ImportTransaction, AtLine, NextLine, ForeignKey
  <2>2. /\ l \in Numbered
        /\ RowsFrom(l)' = RowsFrom(l) \union {nextId}
        /\ \A i \in Numbered \ {l} : RowsFrom(i)' = RowsFrom(i)
    BY <1>0, <1>8, <2>0, RowsFromImport
  <2>3. TransactionsFile[l].account_no \in FileAccounts
    BY <1>5, <2>1 DEF AllAccounts
  <2>4. \A i \in Numbered : i < l + 1 <=> i < l \/ i = l
    BY <2>1, FilesAreFinite DEF Numbered
  <2>5. KnownTo(l + 1)
    BY <1>5, <2>0, <2>1, <2>3, <2>4 DEF KnownTo, Numbered
  <2>6. l \in WrittenLines
    <3>1. \A j \in 1 .. l : j \in Numbered /\ j < l + 1
      BY <2>2, FilesAreFinite DEF Numbered
    <3> QED
      BY <2>1, <2>2, <2>5, <3>1 DEF KnownTo, WrittenLines, Numbered
  <2>7. LinesTo(l)
    BY <1>5, <2>0, <2>1
  <2>8. LinesTo(line[s])' /\ KnownTo(line[s])' /\ line'[s] # 1
    <3>1. \A i \in Numbered : RowsFrom(i)' # {} <=> i \in WrittenLines /\ i < l + 1
      <4>1. ASSUME NEW i \in Numbered, i = l
            PROVE  RowsFrom(i)' # {} /\ i \in WrittenLines /\ i < l + 1
        BY <2>1, <2>2, <2>6, <4>1
      <4>2. ASSUME NEW i \in Numbered, i # l
            PROVE  RowsFrom(i)' # {} <=> i \in WrittenLines /\ i < l + 1
        BY <2>2, <2>4, <2>7, <4>2 DEF LinesTo, Numbered
      <4> QED
        BY <4>1, <4>2
    <3>2. LinesTo(line[s])'
      BY <2>1, <3>1 DEF LinesTo, Numbered
    <3> QED
      BY <2>1, <2>5, <3>2 DEF KnownTo
  <2>9. \A r \in Servers : pc'[r] \notin PastLines
    <3>1. RowsFrom(l) = {}
      BY <2>1, <2>2, <2>7 DEF LinesTo, Numbered
    <3>2. ~AllLines
      <4>1. l < Len(TransactionsFile) + 1
        BY <2>2, FilesAreFinite DEF Numbered
      <4> QED
        BY <2>2, <2>6, <3>1, <4>1 DEF AllLines, LinesTo, Numbered
    <3> QED
      BY <1>0, <2>1, <3>2 DEF LinesProgress
  <2>10. \A r \in Servers \ {s} : pc'[r] # "importTransactions"
    BY <1>3, <2>1 DEF Starting, Importing
  <2> QED
    BY <1>0, <2>1, <2>8, <2>9, <2>10 DEF LinesProgress
<1>9. CASE EndOfFile(s, "importTransactions", TransactionsFile, "admins") \/ UnknownAccount(s)
  <2>0. PICK l : l = line[s]
    OBVIOUS
  <2>1. /\ pc[s] = "importTransactions"
        /\ place = "admins"
        /\ l \in Nat \ {0}
        /\ transactions' = transactions
    BY <1>0, <1>2, <1>9, <2>0 DEF EndOfFile, UnknownAccount, AtLine, Go, tables
  <2>2. \A i \in WrittenLines : i < l
    <3>1. CASE l > Len(TransactionsFile)
      BY <2>1, <3>1, FilesAreFinite DEF WrittenLines
    <3>2. CASE UnknownAccount(s)
      <4>1. /\ TransactionsFile[l] # Unreadable
            /\ TransactionsFile[l].account_no \notin FileAccounts
        BY <1>5, <2>0, <2>1, <3>2 DEF UnknownAccount, ForeignKey, AllAccounts
      <4>2. ASSUME NEW i \in WrittenLines, ~(i < l)
            PROVE  l \in 1 .. i
        BY <2>1, <4>2, FilesAreFinite DEF WrittenLines
      <4> QED
        BY <4>1, <4>2 DEF WrittenLines
    <3> QED
      BY <1>9, <2>0, <3>1, <3>2 DEF EndOfFile
  <2>3. LinesTo(l)
    BY <1>5, <2>0, <2>1
  <2>4. AllLines
    <3>1. \A i \in Numbered : i < Len(TransactionsFile) + 1
      BY FilesAreFinite DEF Numbered
    <3> QED
      BY <2>2, <2>3, <3>1 DEF AllLines, LinesTo, Numbered
  <2>5. \A r \in Servers : pc'[r] # "importTransactions"
    BY <1>2, <1>3, <2>1 DEF Starting, Importing
  <2> QED
    BY <1>4, <2>1, <2>4, <2>5 DEF LinesProgress
<1>10. CASE End(s) /\ pc[s] = "importTransactions"
  <2>1. line[s] = 1 /\ place = "off" /\ transactions' = transactions
    BY <1>0, <1>2, <1>10 DEF End, Go, Importing, tables
  <2>2. DOMAIN transactions' = {}
    BY <1>5, <1>10, <2>1
  <2>3. \A r \in Servers : pc'[r] # "importTransactions"
    BY <1>2, <1>3, <1>10, <2>1 DEF Starting, Importing
  <2>4. \A r \in Servers : pc'[r] \in PastLines => AllLines'
    BY <1>0, <1>2, <1>4, <2>1 DEF LinesProgress, PastLines
  <2> QED
    BY <2>2, <2>3, <2>4 DEF LinesProgress
<1>11. CASE ~(\/ CountTransactions(s) \/ SkipLine(s) \/ ImportTransaction(s) \/ UnknownAccount(s)
              \/ EndOfFile(s, "importTransactions", TransactionsFile, "admins")
              \/ End(s) /\ pc[s] = "importTransactions")
  <2>1. UNCHANGED transactions
    BY <1>0, <1>11
       DEF Startup, Start, CountAccounts, BeginImport, EndOfFile, ImportAccount, FailImport,
           CountAdmins, InsertAdmin, End, tables
  <2>2. /\ pc[s] # "importTransactions"
        /\ place # "importTransactions"
        /\ place \in PastLines => pc[s] \in PastLines
    <3>1. CASE Start(s) \/ End(s)
      BY <1>0, <1>2, <1>11, <3>1 DEF Start, End, Go, PastLines
    <3>2. CASE CountAccounts(s)
      BY <1>0, <1>2, <3>2 DEF CountAccounts, BeginImport, Go, PastLines
    <3>3. CASE EndOfFile(s, "importAccounts", AccountsFile, "transactions")
      BY <1>0, <1>2, <3>3 DEF EndOfFile, Go, PastLines
    <3>4. CASE ImportAccount(s)
      BY <1>0, <1>2, <3>4 DEF ImportAccount, PastLines
    <3>5. CASE CountAdmins(s) \/ \E username \in AdminNames : InsertAdmin(s, username)
      BY <1>0, <1>2, <3>5 DEF CountAdmins, InsertAdmin, Go, PastLines
    <3> QED
      BY <1>0, <1>11, <3>1, <3>2, <3>3, <3>4, <3>5 DEF Startup
  <2> QED
    BY <1>0, <1>1, <2>1, <2>2, LinesProgressKept
<1> QED
  BY <1>6, <1>7, <1>8, <1>9, <1>10, <1>11

LEMMA NextProgress ==
  ASSUME Typed, past \in Pasts, Alone, Progress, [Next]_vars
  PROVE  Progress'
<1> SUFFICES ASSUME Undisturbed'
             PROVE  AccountsProgress' /\ LinesProgress'
  BY DEF Progress
<1>1. /\ Undisturbed
      /\ UNCHANGED vars \/ \E s \in Servers : Startup(s) /\ ~FailImport(s)
      /\ \A s \in Servers : End(s) => ~(pc[s] \in Importing /\ line[s] > 1)
  BY UndisturbedStep
<1>2. OneStarts /\ AccountsProgress /\ LinesProgress
  BY <1>1 DEF Undisturbed, Alone, Progress
<1>3. CASE UNCHANGED vars
  BY <1>2, <1>3
     DEF vars, tables, AccountsProgress, AccountsTo, AllAccounts, LinesProgress, LinesTo, KnownTo,
         AllLines, RowsFrom
<1>4. ASSUME NEW s \in Servers, Startup(s), ~FailImport(s)
      PROVE  AccountsProgress' /\ LinesProgress'
  <2>1. Advances(s)
    BY <1>2, <1>4 DEF Advances
  <2> QED
    BY <1>1, <1>4, <2>1, AccountsAdvance, LinesAdvance
<1> QED
  BY <1>1, <1>3, <1>4

LEMMA InitProgress ==
  ASSUME Init
  PROVE  Progress
<1>1. DOMAIN accounts = {} /\ DOMAIN transactions = {} /\ pc = [s \in Servers |-> "off"]
  BY DEF Init
<1> QED
  BY <1>1 DEF Progress, AccountsProgress, LinesProgress, PastAccounts, PastLines

LEMMA IInvMeansComplete ==
  ASSUME IInv
  PROVE  ImportComplete
<1> SUFFICES ASSUME Serving, Undisturbed
             PROVE  /\ DOMAIN accounts = FileAccounts
                    /\ \A i \in Numbered :
                         Cardinality(RowsFrom(i)) = IF i \in WrittenLines THEN 1 ELSE 0
  BY DEF ImportComplete, Undisturbed, Numbered
<1>1. AllAccounts /\ AllLines
  BY DEF IInv, Progress, AccountsProgress, LinesProgress, Serving, PastAccounts, PastLines
<1>2. ASSUME NEW i \in Numbered
      PROVE  Cardinality(RowsFrom(i)) = IF i \in WrittenLines THEN 1 ELSE 0
  <2> DEFINE rows == RowsFrom(i)
  <2>1. rows # {} <=> i \in WrittenLines
    <3>1. i < Len(TransactionsFile) + 1
      BY FilesAreFinite DEF Numbered
    <3> QED
      BY <1>1, <3>1 DEF AllLines, LinesTo, Numbered
  <2>2. \A x, y \in rows : x = y
    BY DEF IInv, LinesOnce, Undisturbed, Numbered
  <2> HIDE DEF rows
  <2>3. CASE i \notin WrittenLines
    BY <2>1, <2>3, FS_EmptySet DEF rows
  <2>4. CASE i \in WrittenLines
    <3>1. PICK x : x \in rows
      BY <2>1, <2>4
    <3>2. rows = {x}
      BY <2>2, <3>1
    <3>3. Cardinality(rows) = 1
      BY <3>2, FS_Singleton
    <3> QED
      BY <2>4, <3>3 DEF rows
  <2> QED
    BY <2>3, <2>4
<1> QED
  BY <1>1, <1>2 DEF AllAccounts

(* A process that serves after starts that neither overlapped nor were cut *)
(* short has all of accounts.dat, and of transactions.txt what the foreign *)
(* key lets in, whatever files it found and wherever earlier starts ended. *)
THEOREM CompleteCorrect == Spec => []ImportComplete
<1>1. Init => past \in Pasts /\ IInv
  BY InitTyped, InitAlone, InitLinesOnce, InitProgress DEF IInv
<1>2. past \in Pasts /\ IInv /\ [Next]_vars => (past \in Pasts /\ IInv)'
  BY NextTyped, NextPast, NextAdmins, NextLinesOnce, NextProgress DEF IInv
<1>3. IInv => ImportComplete
  BY IInvMeansComplete
<1> QED
  BY <1>1, <1>2, <1>3, PTL DEF Spec
===============================================================================
