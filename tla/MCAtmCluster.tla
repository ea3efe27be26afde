------------------------------ MODULE MCAtmCluster ------------------------------
(* Constant values and bounds for model-checking AtmCluster.               *)
EXTENDS AtmCluster, TLC

MCLong(password) == password \in {"longpass", "otherpass"}
MCTrim(password) == password

(* The processes run the same program: safety runs may exchange them.      *)
AnyServer == Permutations(Servers)

-------------------------------------------------------------------------------
(* Bounds.  A step is checked before the state it leads to is dropped.     *)

(* The third number is there to renumber an account to while both sides of *)
(* a transfer exist.                                                       *)
Spare == 3

Names(r) ==
  CASE r.op \in {"NONE", "CHANGE_ADMIN_PASSWORD"} -> {}
    [] r.op \in {"TRANSFER", "EDIT_ACCOUNT"} -> {r.no, r.to}
    [] OTHER -> {r.no}

SpareOnlyIn(ops) ==
  \A s \in Servers : Spare \in Names(request[s]) => request[s].op \in ops

(* One process: the password changes before there are accounts, PINs are   *)
(* mistaken and accounts locked before there are two rows, and the spare   *)
(* number is used after the last row.                                      *)
OneThingAtATime ==
  /\ DOMAIN db.accounts # {} =>
       \A u \in DOMAIN admins :
         \E salt \in Salts : admins[u] = AdminRow(u, "longpass", salt)
  /\ db.nextId > 2 => \A a \in DOMAIN db.accounts : db.accounts[a].failed_attempts = 0
  /\ SpareOnlyIn({"EDIT_ACCOUNT", "DELETE_ACCOUNT"})
  /\ (\E s \in Servers : Spare \in Names(request[s])) => db.nextId > MaxTransactions

(* Two processes: nobody locks an account, and a history ends when one has *)
(* been renumbered to the spare number.                                    *)
MoneyOnly ==
  /\ \A s \in Servers : request[s].op \notin {"LOCK_ACCOUNT", "UNLOCK_ACCOUNT"}
  /\ SpareOnlyIn({"EDIT_ACCOUNT"})
  /\ Spare \notin DOMAIN db.accounts
===============================================================================
