-------------------------------- MODULE AtmBank --------------------------------
(***************************************************************************)
(* What the server promises, without tables, hashes, salts or an audit     *)
(* trail: accounts hold money, open with a PIN, take at most MaxStrikes    *)
(* wrong PINs in a row, and one person at a time stands at the counter.    *)
(***************************************************************************)
EXTENDS Integers

CONSTANTS
  Numbers,      \* account numbers a person may name
  Pins,         \* PINs a person may type
  Amounts,      \* amounts a person may type
  AdminNames,   \* admin user names a person may type
  Passwords,    \* passwords a person may type
  NoName        \* the admin name of nobody

VARIABLES
  funds,        \* the money in each open account
  pins,         \* the PINs that open each account
  strikes,      \* wrong PINs in a row on each account
  keys,         \* the passwords that admit each admin
  who           \* who stands at the counter

bankVars == <<funds, pins, strikes, keys, who>>

Nobody == [customer |-> 0, admin |-> NoName]
MaxStrikes == 3

AtCounter(a) == who.customer = a /\ a \in DOMAIN funds
AdminPresent == who.admin \in DOMAIN keys
MayHandle(a) == AtCounter(a) \/ (AdminPresent /\ a \in DOMAIN funds)

With(f, a, value) ==
  [x \in DOMAIN f \union {a} |-> IF x = a THEN value ELSE f[x]]
Without(f, a) == [x \in DOMAIN f \ {a} |-> f[x]]
Renamed(f, a, b, value) == With(Without(f, a), b, value)

Init ==
  /\ funds = [a \in {} |-> 0]
  /\ pins = [a \in {} |-> {}]
  /\ strikes = [a \in {} |-> 0]
  /\ \E n \in AdminNames, w \in Passwords : keys = [m \in {n} |-> {w}]
  /\ who = Nobody

(* Anyone may open an account.                                             *)
Open(a, p) ==
  /\ a \notin DOMAIN funds
  /\ funds' = With(funds, a, 0)
  /\ pins' = With(pins, a, {p})
  /\ strikes' = With(strikes, a, 0)
  /\ UNCHANGED <<keys, who>>

(* Only an admin closes an account, and only an empty one.                 *)
Close(a) ==
  /\ AdminPresent
  /\ a \in DOMAIN funds
  /\ funds[a] = 0
  /\ funds' = Without(funds, a)
  /\ pins' = Without(pins, a)
  /\ strikes' = Without(strikes, a)
  /\ UNCHANGED <<keys, who>>

(* An admin gives an account a new PIN and a free number, or its own: the  *)
(* money and the strikes stay with the account.                            *)
Reissue(a, b, p) ==
  /\ AdminPresent
  /\ a \in DOMAIN funds
  /\ b = a \/ b \notin DOMAIN funds
  /\ funds' = Renamed(funds, a, b, funds[a])
  /\ pins' = Renamed(pins, a, b, {p})
  /\ strikes' = Renamed(strikes, a, b, strikes[a])
  /\ UNCHANGED <<keys, who>>

PayIn(a, n) ==
  /\ MayHandle(a)
  /\ n > 0
  /\ funds' = With(funds, a, funds[a] + n)
  /\ UNCHANGED <<pins, strikes, keys, who>>

PayOut(a, n) ==
  /\ MayHandle(a)
  /\ n > 0
  /\ n <= funds[a]
  /\ funds' = With(funds, a, funds[a] - n)
  /\ UNCHANGED <<pins, strikes, keys, who>>

(* Money moves between two accounts only at the word of the payer.         *)
Move(a, b, n) ==
  /\ AtCounter(a)
  /\ b \in DOMAIN funds \ {a}
  /\ n > 0
  /\ n <= funds[a]
  /\ funds' = With(With(funds, a, funds[a] - n), b, funds[b] + n)
  /\ UNCHANGED <<pins, strikes, keys, who>>

SignIn(a, p) ==
  /\ a \in DOMAIN funds
  /\ strikes[a] < MaxStrikes
  /\ p \in pins[a]
  /\ strikes' = With(strikes, a, 0)
  /\ who' = [Nobody EXCEPT !.customer = a]
  /\ UNCHANGED <<funds, pins, keys>>

WrongPin(a, p) ==
  /\ a \in DOMAIN funds
  /\ strikes[a] < MaxStrikes
  /\ p \notin pins[a]
  /\ strikes' = With(strikes, a, strikes[a] + 1)
  /\ UNCHANGED <<funds, pins, keys, who>>

(* An admin bars an account or clears its strikes.                         *)
SetStrikes(a, s) ==
  /\ AdminPresent
  /\ a \in DOMAIN funds
  /\ s \in {0, MaxStrikes}
  /\ strikes' = With(strikes, a, s)
  /\ UNCHANGED <<funds, pins, keys, who>>

AdminSignIn(n, w) ==
  /\ n \in DOMAIN keys
  /\ w \in keys[n]
  /\ who' = [Nobody EXCEPT !.admin = n]
  /\ UNCHANGED <<funds, pins, strikes, keys>>

(* The admin at the counter replaces their own password, nobody else's.    *)
ChangeKey(w) ==
  /\ AdminPresent
  /\ keys' = With(keys, who.admin, {w})
  /\ UNCHANGED <<funds, pins, strikes, who>>

Leave == who' = Nobody /\ UNCHANGED <<funds, pins, strikes, keys>>

Next ==
  \/ \E a \in Numbers : Close(a)
  \/ \E a \in Numbers, p \in Pins : Open(a, p) \/ SignIn(a, p) \/ WrongPin(a, p)
  \/ \E a, b \in Numbers, p \in Pins : Reissue(a, b, p)
  \/ \E a \in Numbers, n \in Amounts : PayIn(a, n) \/ PayOut(a, n)
  \/ \E a, b \in Numbers, n \in Amounts : Move(a, b, n)
  \/ \E a \in Numbers, s \in {0, MaxStrikes} : SetStrikes(a, s)
  \/ \E n \in AdminNames, w \in Passwords : AdminSignIn(n, w)
  \/ \E w \in Passwords : ChangeKey(w)
  \/ Leave

Spec == Init /\ [][Next]_bankVars
===============================================================================
