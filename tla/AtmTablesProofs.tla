---------------------------- MODULE AtmTablesProofs ----------------------------
(***************************************************************************)
(* What each group of statements of AtmTables does to the running totals,  *)
(* to the pairing of transfer rows and to the account numbers in the rows, *)
(* for every table and every argument.  The proofs about state machines    *)
(* cite these lemmas.                                                      *)
(***************************************************************************)
EXTENDS AtmTables, TLAPS

(* The shape of a row, without the sets a state machine takes it from.     *)
RowShape ==
  [account_no : Int, related_account : Int, type : TransactionTypes,
   amount : Int, balance_after : Int]

Ledger(acc, t) == RunningTotals(t) /\ BalanceIsTotal(acc, t)

-------------------------------------------------------------------------------
(* Column by column, what the statements on transactions write and leave.  *)
LEMMA RelinkColumns ==
  ASSUME NEW t, NEW old, NEW new, NEW i \in DOMAIN t, t[i] \in RowShape
  PROVE  LET row == RelinkRows(t, old, new)[i]
         IN  /\ row.account_no = t[i].account_no
             /\ row.related_account = IF t[i].related_account = old THEN new
                                       ELSE t[i].related_account
             /\ row.type = t[i].type
             /\ row.amount = t[i].amount
             /\ row.balance_after = t[i].balance_after
             /\ DOMAIN RelinkRows(t, old, new) = DOMAIN t
  BY DEF RelinkRows, RowShape

LEMMA MoveColumns ==
  ASSUME NEW t, NEW old, NEW new, NEW i \in DOMAIN t, t[i] \in RowShape
  PROVE  LET row == MoveRows(t, old, new)[i]
         IN  /\ row.account_no = IF t[i].account_no = old THEN new
                                  ELSE t[i].account_no
             /\ row.related_account = t[i].related_account
             /\ row.type = t[i].type
             /\ row.amount = t[i].amount
             /\ row.balance_after = t[i].balance_after
             /\ DOMAIN MoveRows(t, old, new) = DOMAIN t
  BY DEF MoveRows, RowShape

LEMMA RelinkShape ==
  ASSUME NEW t, t \in [DOMAIN t -> RowShape], NEW old, NEW new \in Int
  PROVE  /\ RelinkRows(t, old, new) \in [DOMAIN t -> RowShape]
         /\ DOMAIN RelinkRows(t, old, new) = DOMAIN t
  BY DEF RelinkRows, RowShape

LEMMA MoveShape ==
  ASSUME NEW t, t \in [DOMAIN t -> RowShape], NEW old, NEW new \in Int
  PROVE  /\ MoveRows(t, old, new) \in [DOMAIN t -> RowShape]
         /\ DOMAIN MoveRows(t, old, new) = DOMAIN t
  BY DEF MoveRows, RowShape

-------------------------------------------------------------------------------
(* A new row that continues its account's total, with the balance set to   *)
(* the row's balance_after, keeps the ledger.                              *)
LEMMA LedgerAfterEntry ==
  ASSUME NEW acc, NEW acc2, NEW t, NEW id \in Int, NEW row,
         DOMAIN t \subseteq Int, \A i \in DOMAIN t : i < id,
         row.account_no \in DOMAIN acc,
         row.balance_after = acc[row.account_no].balance + Signed(row),
         acc[row.account_no].balance \in Int,
         Signed(row) \in Int,
         DOMAIN acc2 = DOMAIN acc,
         acc2[row.account_no].balance = row.balance_after,
         \A a \in DOMAIN acc \ {row.account_no} : acc2[a].balance = acc[a].balance,
         Ledger(acc, t)
  PROVE  Ledger(acc2, InsertTransaction(t, id, row))
<1> DEFINE t2 == InsertTransaction(t, id, row)
           no == row.account_no
<1>1. /\ DOMAIN t2 = DOMAIN t \union {id}
      /\ t2[id] = row
      /\ \A i \in DOMAIN t : t2[i] = t[i] /\ i # id
  BY DEF InsertTransaction
<1>2. /\ RowsOf(t2, no) = RowsOf(t, no) \union {id}
      /\ \A a : a # no => RowsOf(t2, a) = RowsOf(t, a)
  BY <1>1 DEF RowsOf
<1> HIDE DEF t2
<1>3. ASSUME NEW i \in DOMAIN t
      PROVE  /\ IsFirst(t2, i) => t2[i].balance_after = Signed(t2[i])
             /\ \A j \in DOMAIN t2 : Succeeds(t2, i, j) =>
                  t2[i].balance_after = t2[j].balance_after + Signed(t2[i])
  <2>1. IsFirst(t2, i) => IsFirst(t, i)
    BY <1>1, <1>2 DEF IsFirst, RowsOf
  <2>2. \A j \in DOMAIN t2 : Succeeds(t2, i, j) => j \in DOMAIN t /\ Succeeds(t, i, j)
    BY <1>1, <1>2 DEF Succeeds, RowsOf
  <2> QED
    BY <1>1, <2>1, <2>2 DEF Ledger, RunningTotals
<1>4. IsFirst(t2, id) => t2[id].balance_after = Signed(t2[id])
  <2>1. IsFirst(t2, id) => RowsOf(t, no) = {}
    BY <1>1, <1>2 DEF IsFirst, RowsOf
  <2>2. RowsOf(t, no) = {} => acc[no].balance = 0
    BY DEF Ledger, BalanceIsTotal
  <2> QED
    BY <1>1, <2>1, <2>2
<1>5. ASSUME NEW j \in DOMAIN t2, Succeeds(t2, id, j)
      PROVE  t2[id].balance_after = t2[j].balance_after + Signed(t2[id])
  <2>1. j \in RowsOf(t, no) /\ IsLatest(t, j)
    BY <1>1, <1>2, <1>5 DEF Succeeds, RowsOf, IsLatest
  <2>2. acc[no].balance = t[j].balance_after
    BY <2>1 DEF Ledger, BalanceIsTotal
  <2> QED
    BY <1>1, <2>1, <2>2 DEF RowsOf
<1>6. RunningTotals(t2)
  BY <1>1, <1>3, <1>4, <1>5 DEF RunningTotals
<1>7. BalanceIsTotal(acc2, t2)
  <2>1. ASSUME NEW i \in RowsOf(t2, no), IsLatest(t2, i)
        PROVE  acc2[no].balance = t2[i].balance_after
    <3>1. i = id
      BY <1>1, <1>2, <2>1 DEF IsLatest, RowsOf
    <3> QED
      BY <1>1, <3>1
  <2>2. ASSUME NEW a \in DOMAIN acc \ {no}
        PROVE  /\ RowsOf(t2, a) = {} => acc2[a].balance = 0
               /\ \A i \in RowsOf(t2, a) : IsLatest(t2, i) =>
                     acc2[a].balance = t2[i].balance_after
    <3>1. \A i \in RowsOf(t2, a) : IsLatest(t2, i) => IsLatest(t, i)
      BY <1>1, <1>2 DEF IsLatest, RowsOf
    <3> QED
      BY <1>1, <1>2, <3>1 DEF Ledger, BalanceIsTotal, RowsOf
  <2> QED
    BY <1>2, <2>1, <2>2 DEF BalanceIsTotal
<1> QED
  BY <1>6, <1>7 DEF Ledger, t2

(* Rows with the same ids, numbers, types, amounts and totals are the same *)
(* ledger, whatever their links.                                           *)
LEMMA LedgerSameColumns ==
  ASSUME NEW acc, NEW acc2, NEW t, NEW t2,
         DOMAIN acc2 = DOMAIN acc,
         \A a \in DOMAIN acc : acc2[a].balance = acc[a].balance,
         DOMAIN t2 = DOMAIN t,
         \A i \in DOMAIN t : /\ t2[i].account_no = t[i].account_no
                             /\ t2[i].type = t[i].type
                             /\ t2[i].amount = t[i].amount
                             /\ t2[i].balance_after = t[i].balance_after,
         Ledger(acc, t)
  PROVE  Ledger(acc2, t2)
<1>1. \A a : RowsOf(t2, a) = RowsOf(t, a)
  BY DEF RowsOf
<1>2. ASSUME NEW i \in DOMAIN t
      PROVE  /\ IsFirst(t2, i) <=> IsFirst(t, i)
             /\ IsLatest(t2, i) <=> IsLatest(t, i)
             /\ \A j \in DOMAIN t : Succeeds(t2, i, j) <=> Succeeds(t, i, j)
             /\ Signed(t2[i]) = Signed(t[i])
  BY <1>1 DEF IsFirst, IsLatest, Succeeds, Signed
<1>3. RunningTotals(t2)
  BY <1>2 DEF Ledger, RunningTotals
<1>4. BalanceIsTotal(acc2, t2)
  BY <1>1, <1>2 DEF Ledger, BalanceIsTotal, RowsOf
<1> QED
  BY <1>3, <1>4 DEF Ledger

(* A new account with no rows and no money keeps the ledger.               *)
LEMMA LedgerAfterCreate ==
  ASSUME NEW acc, NEW t, NEW no, NEW row,
         row.balance = 0,
         RowsOf(t, no) = {},
         Ledger(acc, t)
  PROVE  Ledger(InsertAccountRow(acc, no, row), t)
<1>1. /\ DOMAIN InsertAccountRow(acc, no, row) = DOMAIN acc \union {no}
      /\ InsertAccountRow(acc, no, row)[no] = row
      /\ \A a \in DOMAIN acc \ {no} : InsertAccountRow(acc, no, row)[a] = acc[a]
  BY DEF InsertAccountRow
<1> QED
  BY <1>1 DEF Ledger, BalanceIsTotal

(* Moving the money and the rows to a number that no row carries.          *)
Moved(t, t2, old, new) ==
  /\ DOMAIN t2 = DOMAIN t
  /\ \A i \in DOMAIN t :
       /\ t2[i].account_no = IF t[i].account_no = old THEN new ELSE t[i].account_no
       /\ t2[i].type = t[i].type
       /\ t2[i].amount = t[i].amount
       /\ t2[i].balance_after = t[i].balance_after

LEMMA LedgerAfterMoving ==
  ASSUME NEW acc, NEW acc2, NEW t, NEW t2, NEW old, NEW new,
         Moved(t, t2, old, new),
         old # new,
         old \in DOMAIN acc,
         RowsOf(t, new) = {},
         DOMAIN acc2 = (DOMAIN acc \union {new}) \ {old},
         acc2[new].balance = acc[old].balance,
         \A a \in DOMAIN acc \ {old, new} : acc2[a].balance = acc[a].balance,
         Ledger(acc, t)
  PROVE  Ledger(acc2, t2)
<1>1. /\ DOMAIN t2 = DOMAIN t
      /\ \A i \in DOMAIN t :
           /\ t2[i].account_no = IF t[i].account_no = old THEN new ELSE t[i].account_no
           /\ t2[i].type = t[i].type
           /\ t2[i].amount = t[i].amount
           /\ t2[i].balance_after = t[i].balance_after
  BY DEF Moved
<1>2. /\ RowsOf(t2, new) = RowsOf(t, old)
      /\ \A a : a \notin {old, new} => RowsOf(t2, a) = RowsOf(t, a)
  BY <1>1 DEF RowsOf
<1>3. ASSUME NEW i \in DOMAIN t
      PROVE  /\ IsFirst(t2, i) <=> IsFirst(t, i)
             /\ IsLatest(t2, i) <=> IsLatest(t, i)
             /\ \A j \in DOMAIN t : Succeeds(t2, i, j) <=> Succeeds(t, i, j)
             /\ Signed(t2[i]) = Signed(t[i])
  <2>1. RowsOf(t2, t2[i].account_no) = RowsOf(t, t[i].account_no)
    BY <1>1, <1>2 DEF RowsOf
  <2>2. ASSUME NEW j \in DOMAIN t
        PROVE  t2[j].account_no = t2[i].account_no
                 <=> t[j].account_no = t[i].account_no
    BY <1>1, <2>2 DEF RowsOf
  <2> QED
    BY <1>1, <2>1, <2>2 DEF IsFirst, IsLatest, Succeeds, Signed
<1>4. RunningTotals(t2)
  BY <1>1, <1>3 DEF Ledger, RunningTotals
<1>5. BalanceIsTotal(acc2, t2)
  BY <1>1, <1>2, <1>3 DEF Ledger, BalanceIsTotal, RowsOf
<1> QED
  BY <1>4, <1>5 DEF Ledger

LEMMA LedgerAfterMove ==
  ASSUME NEW acc, NEW acc2, NEW t, t \in [DOMAIN t -> RowShape], NEW old, NEW new,
         old # new,
         old \in DOMAIN acc,
         RowsOf(t, new) = {},
         DOMAIN acc2 = (DOMAIN acc \union {new}) \ {old},
         acc2[new].balance = acc[old].balance,
         \A a \in DOMAIN acc \ {old, new} : acc2[a].balance = acc[a].balance,
         Ledger(acc, t)
  PROVE  Ledger(acc2, MoveRows(t, old, new))
<1>1. DOMAIN MoveRows(t, old, new) = DOMAIN t
  BY DEF MoveRows
<1>2. Moved(t, MoveRows(t, old, new), old, new)
  BY <1>1, MoveColumns DEF Moved
<1> QED
  BY <1>2, LedgerAfterMoving

(* Deleting an account with all its rows.                                  *)
LEMMA LedgerAfterDelete ==
  ASSUME NEW acc, NEW t, NEW no, Ledger(acc, t)
  PROVE  Ledger(DeleteAccountRow(acc, no), DeleteRowsOf(t, no))
<1> DEFINE t2 == DeleteRowsOf(t, no)
           acc2 == DeleteAccountRow(acc, no)
<1>1. /\ DOMAIN t2 = DOMAIN t \ RowsOf(t, no)
      /\ \A i \in DOMAIN t2 : t2[i] = t[i] /\ t[i].account_no # no
      /\ DOMAIN acc2 = DOMAIN acc \ {no}
      /\ \A a \in DOMAIN acc2 : acc2[a] = acc[a]
  BY DEF DeleteRowsOf, RowsOf, DeleteAccountRow
<1> HIDE DEF t2, acc2
<1>2. \A a : a # no => RowsOf(t2, a) = RowsOf(t, a)
  BY <1>1 DEF RowsOf
<1>3. ASSUME NEW i \in DOMAIN t2
      PROVE  /\ IsFirst(t2, i) <=> IsFirst(t, i)
             /\ IsLatest(t2, i) <=> IsLatest(t, i)
             /\ \A j \in DOMAIN t2 : Succeeds(t2, i, j) <=> Succeeds(t, i, j)
  BY <1>1, <1>2 DEF IsFirst, IsLatest, Succeeds
<1>4. RunningTotals(t2)
  BY <1>1, <1>3 DEF Ledger, RunningTotals
<1>5. BalanceIsTotal(acc2, t2)
  BY <1>1, <1>2, <1>3 DEF Ledger, BalanceIsTotal, RowsOf
<1> QED
  BY <1>4, <1>5 DEF Ledger, t2, acc2

-------------------------------------------------------------------------------
(* A row without a counterparty leaves the pairs as they were.             *)
LEMMA PairsAfterEntry ==
  ASSUME NEW t, NEW id, id \notin DOMAIN t, NEW row,
         row.related_account = NoAccount,
         LinkedRowsPaired(t)
  PROVE  LinkedRowsPaired(InsertTransaction(t, id, row))
<1> DEFINE t2 == InsertTransaction(t, id, row)
<1>1. /\ DOMAIN t2 = DOMAIN t \union {id}
      /\ t2[id] = row
      /\ \A i \in DOMAIN t : t2[i] = t[i]
  BY DEF InsertTransaction
<1> HIDE DEF t2
<1> QED
  BY <1>1 DEF LinkedRowsPaired, TwoSides, t2

(* The two rows of a transfer pair with each other.                        *)
LEMMA PairsAfterTransfer ==
  ASSUME NEW t, NEW id \in Int, id \notin DOMAIN t, id + 1 \notin DOMAIN t,
         NEW sent, NEW received,
         sent.type = "TRANSFER_SENT",
         received.type = "TRANSFER_RECEIVED",
         sent.related_account = received.account_no,
         received.related_account = sent.account_no,
         sent.amount = received.amount,
         LinkedRowsPaired(t)
  PROVE  LinkedRowsPaired(
           InsertTransaction(InsertTransaction(t, id, sent), id + 1, received))
<1> DEFINE t2 == InsertTransaction(InsertTransaction(t, id, sent), id + 1, received)
<1>1. /\ DOMAIN t2 = DOMAIN t \union {id, id + 1}
      /\ t2[id] = sent
      /\ t2[id + 1] = received
      /\ \A i \in DOMAIN t : t2[i] = t[i]
  BY DEF InsertTransaction
<1> HIDE DEF t2
<1>2. TwoSides(t2, id, id + 1)
  BY <1>1 DEF TwoSides
<1>3. ASSUME NEW i \in DOMAIN t, t2[i].related_account # NoAccount
      PROVE  \/ i + 1 \in DOMAIN t2 /\ TwoSides(t2, i, i + 1)
             \/ i - 1 \in DOMAIN t2 /\ TwoSides(t2, i - 1, i)
  BY <1>1, <1>3 DEF LinkedRowsPaired, TwoSides
<1>4. (id + 1) - 1 = id
  OBVIOUS
<1>5. ASSUME NEW i \in {id, id + 1}
      PROVE  \/ i + 1 \in DOMAIN t2 /\ TwoSides(t2, i, i + 1)
             \/ i - 1 \in DOMAIN t2 /\ TwoSides(t2, i - 1, i)
  BY <1>1, <1>2, <1>4
<1> QED
  BY <1>1, <1>3, <1>5 DEF LinkedRowsPaired, t2

(* Moving both columns of both sides to a number no row carries.           *)
LEMMA PairsAfterRenumber ==
  ASSUME NEW t, t \in [DOMAIN t -> RowShape], NEW old \in Int, NEW new \in Int,
         old # NoAccount,
         \A i \in DOMAIN t : new \notin {t[i].account_no, t[i].related_account},
         LinkedRowsPaired(t)
  PROVE  LinkedRowsPaired(RelinkRows(MoveRows(t, old, new), old, new))
<1> DEFINE To(a) == IF a = old THEN new ELSE a
           moved == MoveRows(t, old, new)
           t2 == RelinkRows(moved, old, new)
<1>1. moved \in [DOMAIN t -> RowShape] /\ DOMAIN moved = DOMAIN t
  BY MoveShape
<1>2. ASSUME NEW i \in DOMAIN t
      PROVE  /\ t2[i].account_no = To(t[i].account_no)
             /\ t2[i].related_account = To(t[i].related_account)
             /\ t2[i].type = t[i].type
             /\ t2[i].amount = t[i].amount
  <2>1. t[i] \in RowShape /\ moved[i] \in RowShape /\ i \in DOMAIN moved
    BY <1>1
  <2>2. /\ moved[i].account_no = To(t[i].account_no)
        /\ moved[i].related_account = t[i].related_account
        /\ moved[i].type = t[i].type
        /\ moved[i].amount = t[i].amount
    BY <2>1, MoveColumns
  <2> HIDE DEF moved
  <2>3. /\ t2[i].account_no = moved[i].account_no
        /\ t2[i].related_account = To(moved[i].related_account)
        /\ t2[i].type = moved[i].type
        /\ t2[i].amount = moved[i].amount
    BY <2>1, RelinkColumns
  <2> QED
    BY <2>2, <2>3
<1>3. DOMAIN t2 = DOMAIN t
  BY <1>1, RelinkShape
<1> HIDE DEF t2, moved
<1>4. ASSUME NEW i \in DOMAIN t, NEW j \in DOMAIN t, TwoSides(t, i, j)
      PROVE  TwoSides(t2, i, j)
  BY <1>2, <1>4 DEF TwoSides
<1>5. ASSUME NEW i \in DOMAIN t, t2[i].related_account # NoAccount
      PROVE  t[i].related_account # NoAccount
  BY <1>2, <1>5
<1> QED
  BY <1>3, <1>4, <1>5 DEF LinkedRowsPaired, t2, moved

(* Cutting the links to a number and then deleting its rows.               *)
LEMMA PairsAfterDelete ==
  ASSUME NEW t, t \in [DOMAIN t -> RowShape], NEW no,
         LinkedRowsPaired(t)
  PROVE  LinkedRowsPaired(DeleteRowsOf(RelinkRows(t, no, NoAccount), no))
<1> DEFINE cut == RelinkRows(t, no, NoAccount)
           t2 == DeleteRowsOf(cut, no)
<1>1. DOMAIN cut = DOMAIN t
  BY RelinkShape DEF NoAccount
<1>2. ASSUME NEW i \in DOMAIN t
      PROVE  /\ cut[i].account_no = t[i].account_no
             /\ cut[i].related_account = IF t[i].related_account = no THEN NoAccount
                                         ELSE t[i].related_account
             /\ cut[i].type = t[i].type
             /\ cut[i].amount = t[i].amount
  BY RelinkColumns
<1> HIDE DEF cut
<1>3. /\ DOMAIN t2 = {i \in DOMAIN t : t[i].account_no # no}
      /\ \A i \in DOMAIN t2 : t2[i] = cut[i]
  BY <1>1, <1>2 DEF DeleteRowsOf, RowsOf
<1> HIDE DEF t2
<1>4. ASSUME NEW i \in DOMAIN t, NEW j \in DOMAIN t, TwoSides(t, i, j),
             t[i].related_account # no, t[i].account_no # no
      PROVE  i \in DOMAIN t2 /\ j \in DOMAIN t2 /\ TwoSides(t2, i, j)
  BY <1>2, <1>3, <1>4 DEF TwoSides
<1>5. ASSUME NEW i \in DOMAIN t2, t2[i].related_account # NoAccount
      PROVE  \/ i + 1 \in DOMAIN t2 /\ TwoSides(t2, i, i + 1)
             \/ i - 1 \in DOMAIN t2 /\ TwoSides(t2, i - 1, i)
  <2>1. /\ i \in DOMAIN t
        /\ t[i].account_no # no
        /\ t[i].related_account # no
        /\ t[i].related_account # NoAccount
    BY <1>2, <1>3, <1>5
  <2>2. CASE i + 1 \in DOMAIN t /\ TwoSides(t, i, i + 1)
    BY <1>4, <2>1, <2>2
  <2>3. CASE i - 1 \in DOMAIN t /\ TwoSides(t, i - 1, i)
    <3>1. t[i - 1].account_no = t[i].related_account
          /\ t[i - 1].related_account = t[i].account_no
      BY <2>3 DEF TwoSides
    <3> QED
      BY <1>4, <2>1, <2>3, <3>1
  <2> QED
    BY <2>1, <2>2, <2>3 DEF LinkedRowsPaired
<1> QED
  BY <1>5 DEF LinkedRowsPaired, t2, cut

-------------------------------------------------------------------------------
(* After a renumbering every row names an account of the new table.        *)
LEMMA NamesAfterRenumber ==
  ASSUME NEW acc, NEW acc2, NEW t, t \in [DOMAIN t -> RowShape],
         NEW old \in Int, NEW new \in Int,
         old # NoAccount, new # NoAccount, old # new,
         new \notin DOMAIN acc,
         DOMAIN acc2 = (DOMAIN acc \union {new}) \ {old},
         RowsNameAccounts(acc, t)
  PROVE  RowsNameAccounts(acc2, RelinkRows(MoveRows(t, old, new), old, new))
<1> DEFINE To(a) == IF a = old THEN new ELSE a
           moved == MoveRows(t, old, new)
           t2 == RelinkRows(moved, old, new)
<1>1. moved \in [DOMAIN t -> RowShape] /\ DOMAIN moved = DOMAIN t
  BY MoveShape
<1>2. ASSUME NEW i \in DOMAIN t
      PROVE  /\ t2[i].account_no = To(t[i].account_no)
             /\ t2[i].related_account = To(t[i].related_account)
  <2>1. t[i] \in RowShape /\ moved[i] \in RowShape /\ i \in DOMAIN moved
    BY <1>1
  <2>2. /\ moved[i].account_no = To(t[i].account_no)
        /\ moved[i].related_account = t[i].related_account
    BY <2>1, MoveColumns
  <2> HIDE DEF moved
  <2>3. /\ t2[i].account_no = moved[i].account_no
        /\ t2[i].related_account = To(moved[i].related_account)
    BY <2>1, RelinkColumns
  <2> QED
    BY <2>2, <2>3
<1>3. DOMAIN t2 = DOMAIN t
  BY <1>1, RelinkShape
<1> HIDE DEF t2, moved
<1> QED
  BY <1>2, <1>3 DEF RowsNameAccounts, t2, moved

LEMMA NamesAfterDelete ==
  ASSUME NEW acc, NEW t, t \in [DOMAIN t -> RowShape], NEW no,
         NoAccount \notin DOMAIN acc,
         RowsNameAccounts(acc, t)
  PROVE  RowsNameAccounts(DeleteAccountRow(acc, no),
                          DeleteRowsOf(RelinkRows(t, no, NoAccount), no))
<1> DEFINE cut == RelinkRows(t, no, NoAccount)
           t2 == DeleteRowsOf(cut, no)
<1>1. DOMAIN cut = DOMAIN t
  BY RelinkShape DEF NoAccount
<1>2. ASSUME NEW i \in DOMAIN t
      PROVE  /\ cut[i].account_no = t[i].account_no
             /\ cut[i].related_account = IF t[i].related_account = no THEN NoAccount
                                         ELSE t[i].related_account
  BY RelinkColumns
<1> HIDE DEF cut
<1>3. /\ DOMAIN t2 = {i \in DOMAIN t : t[i].account_no # no}
      /\ \A i \in DOMAIN t2 : t2[i] = cut[i]
  BY <1>1, <1>2 DEF DeleteRowsOf, RowsOf
<1>4. DOMAIN DeleteAccountRow(acc, no) = DOMAIN acc \ {no}
  BY DEF DeleteAccountRow
<1> HIDE DEF t2
<1> QED
  BY <1>2, <1>3, <1>4 DEF RowsNameAccounts, t2, cut
-------------------------------------------------------------------------------
(* The three together, statement group by statement group: what holds of   *)
(* the two tables between transactions.                                    *)
Consistent(acc, t) ==
  /\ Ledger(acc, t)
  /\ LinkedRowsPaired(t)
  /\ RowsNameAccounts(acc, t)

LEMMA ConsistentAfterQuiet ==
  ASSUME NEW acc, NEW acc2, NEW t,
         DOMAIN acc2 = DOMAIN acc,
         \A a \in DOMAIN acc : acc2[a].balance = acc[a].balance,
         Consistent(acc, t)
  PROVE  Consistent(acc2, t)
<1>1. Ledger(acc2, t)
  BY LedgerSameColumns DEF Consistent
<1> QED
  BY <1>1 DEF Consistent, RowsNameAccounts

LEMMA ConsistentAfterCreate ==
  ASSUME NEW acc, NEW t, NEW no, no # NoAccount, NEW row, row.balance = 0,
         no \notin DOMAIN acc,
         Consistent(acc, t)
  PROVE  Consistent(InsertAccountRow(acc, no, row), t)
<1>1. RowsOf(t, no) = {}
  BY DEF Consistent, RowsNameAccounts, RowsOf
<1>2. Ledger(InsertAccountRow(acc, no, row), t)
  BY <1>1, LedgerAfterCreate DEF Consistent
<1>3. DOMAIN acc \subseteq DOMAIN InsertAccountRow(acc, no, row)
  BY DEF InsertAccountRow
<1> QED
  BY <1>2, <1>3 DEF Consistent, RowsNameAccounts

LEMMA ConsistentAfterEntry ==
  ASSUME NEW acc, NEW acc2, NEW t, NEW id \in Int, NEW row,
         DOMAIN t \subseteq Int, \A i \in DOMAIN t : i < id,
         row.account_no \in DOMAIN acc,
         row.related_account = NoAccount,
         NoAccount \notin DOMAIN acc,
         row.balance_after = acc[row.account_no].balance + Signed(row),
         acc[row.account_no].balance \in Int,
         Signed(row) \in Int,
         DOMAIN acc2 = DOMAIN acc,
         acc2[row.account_no].balance = row.balance_after,
         \A a \in DOMAIN acc \ {row.account_no} : acc2[a].balance = acc[a].balance,
         Consistent(acc, t)
  PROVE  Consistent(acc2, InsertTransaction(t, id, row))
<1>1. Ledger(acc2, InsertTransaction(t, id, row))
  BY LedgerAfterEntry DEF Consistent
<1>2. LinkedRowsPaired(InsertTransaction(t, id, row))
  <2>1. id \notin DOMAIN t
    OBVIOUS
  <2> QED
    BY <2>1, PairsAfterEntry DEF Consistent
<1>3. RowsNameAccounts(acc2, InsertTransaction(t, id, row))
  <2>1. /\ DOMAIN InsertTransaction(t, id, row) = DOMAIN t \union {id}
        /\ InsertTransaction(t, id, row)[id] = row
        /\ \A i \in DOMAIN t \ {id} : InsertTransaction(t, id, row)[i] = t[i]
    BY DEF InsertTransaction
  <2> QED
    BY <2>1 DEF Consistent, RowsNameAccounts
<1> QED
  BY <1>1, <1>2, <1>3 DEF Consistent

(* mid is the accounts table between the two UPDATEs of a transfer, and    *)
(* acc2 the one after it; sent and received are the rows it writes.        *)
TransferWrites(acc, mid, acc2, from, to, amount, sent, received) ==
  /\ from \in DOMAIN acc /\ to \in DOMAIN acc /\ from # to
  /\ acc[from].balance \in Int /\ acc[to].balance \in Int /\ amount \in Int
  /\ sent = TransactionRow(from, to, "TRANSFER_SENT", amount, acc[from].balance - amount)
  /\ received = TransactionRow(to, from, "TRANSFER_RECEIVED", amount,
                               acc[to].balance + amount)
  /\ DOMAIN mid = DOMAIN acc
  /\ mid[from].balance = sent.balance_after
  /\ \A a \in DOMAIN acc \ {from} : mid[a].balance = acc[a].balance
  /\ DOMAIN acc2 = DOMAIN acc
  /\ acc2[to].balance = received.balance_after
  /\ \A a \in DOMAIN acc \ {to} : acc2[a].balance = mid[a].balance

LEMMA ConsistentAfterTransfer ==
  ASSUME NEW acc, NEW mid, NEW acc2, NEW from, NEW to, NEW amount, NEW sent, NEW received,
         TransferWrites(acc, mid, acc2, from, to, amount, sent, received),
         NoAccount \notin DOMAIN acc,
         NEW t, NEW id \in Int, DOMAIN t \subseteq Int, \A i \in DOMAIN t : i < id,
         Consistent(acc, t)
  PROVE  Consistent(acc2, InsertTransaction(InsertTransaction(t, id, sent), id + 1, received))
<1> USE DEF TransferWrites
<1> DEFINE half == InsertTransaction(t, id, sent)
           whole == InsertTransaction(half, id + 1, received)
<1>1. /\ sent.account_no = from
      /\ sent.related_account = to
      /\ sent.type = "TRANSFER_SENT"
      /\ sent.amount = amount
      /\ sent.balance_after = acc[from].balance - amount
      /\ received.account_no = to
      /\ received.related_account = from
      /\ received.type = "TRANSFER_RECEIVED"
      /\ received.amount = amount
      /\ received.balance_after = acc[to].balance + amount
  BY DEF TransactionRow
<1>2. Signed(sent) = -amount /\ Signed(received) = amount
  BY <1>1 DEF Signed, CreditTypes
<1>3. Ledger(mid, half)
  <2>1. /\ sent.account_no \in DOMAIN acc
        /\ sent.balance_after = acc[sent.account_no].balance + Signed(sent)
        /\ acc[sent.account_no].balance \in Int
        /\ Signed(sent) \in Int
        /\ mid[sent.account_no].balance = sent.balance_after
        /\ \A a \in DOMAIN acc \ {sent.account_no} : mid[a].balance = acc[a].balance
    BY <1>1, <1>2
  <2>2. Ledger(acc, t)
    BY DEF Consistent
  <2> QED
    BY <2>1, <2>2, LedgerAfterEntry
<1>4. /\ DOMAIN half = DOMAIN t \union {id}
      /\ half[id] = sent
      /\ \A i \in DOMAIN t : half[i] = t[i]
  BY DEF InsertTransaction
<1> HIDE DEF half
<1>5. Ledger(acc2, whole)
  <2>1. /\ received.account_no \in DOMAIN mid
        /\ mid[to].balance = acc[to].balance
        /\ received.balance_after = mid[received.account_no].balance + Signed(received)
        /\ mid[received.account_no].balance \in Int
        /\ Signed(received) \in Int
        /\ acc2[received.account_no].balance = received.balance_after
        /\ \A a \in DOMAIN mid \ {received.account_no} : acc2[a].balance = mid[a].balance
    BY <1>1, <1>2
  <2>2. id + 1 \in Int /\ DOMAIN half \subseteq Int /\ \A i \in DOMAIN half : i < id + 1
    BY <1>4
  <2> QED
    BY <1>3, <2>1, <2>2, LedgerAfterEntry
<1>6. LinkedRowsPaired(whole)
  <2>1. id \notin DOMAIN t /\ id + 1 \notin DOMAIN t
    OBVIOUS
  <2> QED
    BY <1>1, <2>1, PairsAfterTransfer DEF Consistent, half
<1>7. RowsNameAccounts(acc2, whole)
  <2>1. /\ DOMAIN whole = DOMAIN t \union {id, id + 1}
        /\ whole[id] = sent
        /\ whole[id + 1] = received
        /\ \A i \in DOMAIN t : whole[i] = t[i]
    BY <1>4 DEF InsertTransaction
  <2> HIDE DEF whole
  <2> QED
    BY <1>1, <2>1 DEF Consistent, RowsNameAccounts
<1> QED
  BY <1>5, <1>6, <1>7 DEF Consistent, half

LEMMA ConsistentAfterRenumber ==
  ASSUME NEW acc, NEW acc2, NEW t, t \in [DOMAIN t -> RowShape],
         NEW old \in Int, NEW new \in Int,
         old # NoAccount, new # NoAccount, old # new,
         old \in DOMAIN acc,
         new \notin DOMAIN acc,
         DOMAIN acc2 = (DOMAIN acc \union {new}) \ {old},
         acc2[new].balance = acc[old].balance,
         \A a \in DOMAIN acc \ {old, new} : acc2[a].balance = acc[a].balance,
         Consistent(acc, t)
  PROVE  Consistent(acc2, RelinkRows(MoveRows(t, old, new), old, new))
<1> DEFINE moved == MoveRows(t, old, new)
<1>1. \A i \in DOMAIN t : new \notin {t[i].account_no, t[i].related_account}
  BY DEF Consistent, RowsNameAccounts
<1>2. Ledger(acc2, moved)
  <2>1. RowsOf(t, new) = {}
    BY <1>1 DEF RowsOf
  <2>2. Ledger(acc, t)
    BY DEF Consistent
  <2> QED
    BY <2>1, <2>2, LedgerAfterMove
<1>3. moved \in [DOMAIN t -> RowShape] /\ DOMAIN moved = DOMAIN t
  BY MoveShape
<1> HIDE DEF moved
<1>4. /\ DOMAIN RelinkRows(moved, old, new) = DOMAIN moved
      /\ \A i \in DOMAIN moved :
           /\ RelinkRows(moved, old, new)[i].account_no = moved[i].account_no
           /\ RelinkRows(moved, old, new)[i].type = moved[i].type
           /\ RelinkRows(moved, old, new)[i].amount = moved[i].amount
           /\ RelinkRows(moved, old, new)[i].balance_after = moved[i].balance_after
  <2>1. DOMAIN RelinkRows(moved, old, new) = DOMAIN moved
    BY DEF RelinkRows
  <2> QED
    BY <1>3, <2>1, RelinkColumns
<1>5. Ledger(acc2, RelinkRows(moved, old, new))
  BY <1>2, <1>4, LedgerSameColumns
<1>6. LinkedRowsPaired(RelinkRows(moved, old, new))
  BY <1>1, PairsAfterRenumber DEF Consistent, moved
<1>7. RowsNameAccounts(acc2, RelinkRows(moved, old, new))
  BY NamesAfterRenumber DEF Consistent, moved
<1> QED
  BY <1>5, <1>6, <1>7 DEF Consistent, moved

LEMMA ConsistentAfterDelete ==
  ASSUME NEW acc, NEW t, t \in [DOMAIN t -> RowShape], NEW no,
         NoAccount \notin DOMAIN acc,
         Consistent(acc, t)
  PROVE  Consistent(DeleteAccountRow(acc, no),
                    DeleteRowsOf(RelinkRows(t, no, NoAccount), no))
<1> DEFINE cut == RelinkRows(t, no, NoAccount)
<1>1. /\ DOMAIN cut = DOMAIN t
      /\ \A i \in DOMAIN t :
           /\ cut[i].account_no = t[i].account_no
           /\ cut[i].type = t[i].type
           /\ cut[i].amount = t[i].amount
           /\ cut[i].balance_after = t[i].balance_after
  <2>1. DOMAIN cut = DOMAIN t
    BY DEF RelinkRows
  <2> QED
    BY <2>1, RelinkColumns
<1> HIDE DEF cut
<1>2. Ledger(acc, cut)
  BY <1>1, LedgerSameColumns DEF Consistent
<1>3. Ledger(DeleteAccountRow(acc, no), DeleteRowsOf(cut, no))
  BY <1>2, LedgerAfterDelete
<1>4. LinkedRowsPaired(DeleteRowsOf(cut, no))
  BY PairsAfterDelete DEF Consistent, cut
<1>5. RowsNameAccounts(DeleteAccountRow(acc, no), DeleteRowsOf(cut, no))
  BY NamesAfterDelete DEF Consistent, cut
<1> QED
  BY <1>3, <1>4, <1>5 DEF Consistent, cut
===============================================================================
