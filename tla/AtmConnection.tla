----------------------------- MODULE AtmConnection -----------------------------
(***************************************************************************)
(* Clients, their connections and the accept loop.  main (src/src/main.c)  *)
(* accepts one connection, lets handle_client serve it to its end, closes  *)
(* it and accepts the next; the kernel keeps the others in the listen      *)
(* queue, where a client counts as connected and may already have sent its *)
(* first request.  A client sends one request, waits for one reply, and    *)
(* leaves for good when it cannot get one.  A reply goes out in two sends, *)
(* the length and the text; the second one to a peer that has gone may end *)
(* the server process with SIGPIPE, which nothing ignores.                 *)
(*                                                                         *)
(* Of what handle_request does only the session and the fact that money    *)
(* moved are kept: AtmServer has the rest.  A request may be refused at    *)
(* any time.  A definition named Slip... is the one after it with a        *)
(* mistake in it.                                                          *)
(***************************************************************************)
EXTENDS AtmTables, Sequences, FiniteSets

CONSTANTS
  Clients,          \* client processes that may run at the same time
  NoClient,         \* nobody is being served
  Numbers,          \* account numbers a user may log in to
  Admins,           \* admin user names
  Offered,          \* the requests users choose in their menus
  Backlog,          \* connections the listen queue holds
  MaxMoves,         \* bound: requests that move money ever sent
  MaxAbandoned      \* bound: clients ever ended while they wait for a reply

ASSUME NumbersPositive == Numbers \subseteq Nat \ {NoAccount}
ASSUME ClientsFinite == IsFiniteSet(Clients)
ASSUME NobodyAssumption == NoClient \notin Clients
ASSUME AdminsAssumption == NoName \notin Admins
ASSUME BacklogAssumption == Backlog \in Nat \ {0}

VARIABLES
  alive,            \* the server process runs
  backlog,          \* the listen queue
  serving,          \* the client handle_client serves
  at,               \* where handle_client stands
  session,          \* its Session
  doing,            \* the request it has received
  result,           \* the status of the reply it has made
  menu,             \* where each client process stands, "off" if it has ended
  account,          \* the account_no its customer_menu shows
  awaiting,         \* the request it has sent and not seen answered
  sent,             \* the request that lies in its connection, unread
  answer,           \* the reply that lies in its connection, unread
  moves, applied, confirmed, unsure, abandoned, deaths   \* what happened so far

server == <<alive, backlog, serving, at, session, doing, result>>
clients == <<menu, account, awaiting>>
wires == <<sent, answer>>
history == <<moves, applied, confirmed, unsure, abandoned, deaths>>
vars == <<server, clients, wires, history>>

None == [op |-> "NONE", who |-> NoAccount]
Silence == "NONE"

MainOps == {"CREATE_ACCOUNT", "LOGIN", "ADMIN_LOGIN"}
CustomerOps == {"BALANCE", "DEPOSIT", "WITHDRAW", "TRANSFER", "MONTHLY_SUMMARY",
                "MINI_STATEMENT", "LOGOUT"}
AdminOps == {"ADMIN_DASHBOARD", "LIST_ACCOUNTS", "VIEW_ACCOUNT_DETAILS",
             "VIEW_ACCOUNT_STATEMENT", "VIEW_ACCOUNT_SUMMARY", "LOCK_ACCOUNT",
             "UNLOCK_ACCOUNT", "ADMIN_CREDIT", "ADMIN_DEBIT", "EDIT_ACCOUNT",
             "DELETE_ACCOUNT", "RECENT_TRANSACTIONS", "CHANGE_ADMIN_PASSWORD", "LOGOUT"}
MoneyOps == {"DEPOSIT", "WITHDRAW", "TRANSFER", "ADMIN_CREDIT", "ADMIN_DEBIT"}
SessionOps == {"LOGIN", "ADMIN_LOGIN", "LOGOUT"}

Requests ==
  [op : (MainOps \union CustomerOps \union AdminOps) \ {"LOGIN"}, who : {NoAccount}]
    \union [op : {"LOGIN"}, who : Numbers]

Running(c) == menu[c] # "off"
Waiting(c) == awaiting[c] # None
Queued(c) == \E k \in DOMAIN backlog : backlog[k] = c
(* The server, or the kernel for it, holds the other end.                  *)
Connected(c) == serving = c \/ Queued(c)

Init ==
  /\ alive = TRUE
  /\ backlog = << >>
  /\ serving = NoClient
  /\ at = "accept"
  /\ session = ResetSession
  /\ doing = None
  /\ result = Silence
  /\ menu = [c \in Clients |-> "off"]
  /\ account = [c \in Clients |-> NoAccount]
  /\ awaiting = [c \in Clients |-> None]
  /\ sent = [c \in Clients |-> None]
  /\ answer = [c \in Clients |-> Silence]
  /\ moves = 0 /\ applied = 0 /\ confirmed = 0
  /\ unsure = 0 /\ abandoned = 0 /\ deaths = 0

-------------------------------------------------------------------------------
(* The client.                                                             *)

(* connect succeeds once the listen queue has room, whoever is served.     *)
Connect(c) ==
  /\ ~Running(c) /\ ~Connected(c)
  /\ alive
  /\ Len(backlog) < Backlog
  /\ backlog' = Append(backlog, c)
  /\ menu' = [menu EXCEPT ![c] = "main"]
  /\ answer' = [answer EXCEPT ![c] = Silence]
  /\ UNCHANGED <<alive, serving, at, session, doing, result, account, awaiting, sent,
                 history>>

MenuOps(place) ==
  CASE place = "main" -> MainOps
    [] place = "customer" -> CustomerOps
    [] place = "admin" -> AdminOps
    [] OTHER -> {}

(* A choice that is refused by the client itself sends nothing.            *)
Send(c) ==
  /\ Running(c) /\ ~Waiting(c)
  /\ Connected(c)
  /\ \E r \in Requests :
       /\ r.op \in MenuOps(menu[c]) \intersect Offered
       /\ r.op \in MoneyOps => moves < MaxMoves
       /\ moves' = IF r.op \in MoneyOps THEN moves + 1 ELSE moves
       /\ awaiting' = [awaiting EXCEPT ![c] = r]
       /\ sent' = [sent EXCEPT ![c] = r]
  /\ UNCHANGED <<server, menu, account, answer, applied, confirmed, unsure, abandoned,
                 deaths>>

(* request_server returns and the menu goes on: a login that is granted    *)
(* opens its menu, LOGOUT leaves it whatever the reply.                    *)
NextMenu(c, reply) ==
  CASE awaiting[c].op = "LOGIN" /\ reply = "OK" -> "customer"
    [] awaiting[c].op = "ADMIN_LOGIN" /\ reply = "OK" -> "admin"
    [] awaiting[c].op = "LOGOUT" -> "main"
    [] OTHER -> menu[c]

NextAccount(c, reply) ==
  IF awaiting[c].op = "LOGIN" /\ reply = "OK" THEN awaiting[c].who
  ELSE IF NextMenu(c, reply) = "customer" THEN account[c] ELSE NoAccount

SeeReply(c) ==
  /\ Waiting(c)
  /\ answer[c] # Silence
  /\ menu' = [menu EXCEPT ![c] = NextMenu(c, answer[c])]
  /\ account' = [account EXCEPT ![c] = NextAccount(c, answer[c])]
  /\ confirmed' = IF awaiting[c].op \in MoneyOps /\ answer[c] = "OK"
                    THEN confirmed + 1 ELSE confirmed
  /\ awaiting' = [awaiting EXCEPT ![c] = None]
  /\ answer' = [answer EXCEPT ![c] = Silence]
  /\ UNCHANGED <<server, sent, moves, applied, unsure, abandoned, deaths>>

(* The process is over, and with it what it knew of its request.           *)
Gone(c) ==
  /\ menu' = [menu EXCEPT ![c] = "off"]
  /\ account' = [account EXCEPT ![c] = NoAccount]
  /\ awaiting' = [awaiting EXCEPT ![c] = None]
  /\ answer' = [answer EXCEPT ![c] = Silence]
  /\ unsure' = IF awaiting[c].op \in MoneyOps THEN unsure + 1 ELSE unsure

(* A client that sends the request again by itself.                        *)
SlipLoseConnection(c) ==
  /\ Running(c)
  /\ ~Connected(c)
  /\ answer[c] = Silence
  /\ alive /\ Waiting(c) /\ Len(backlog) < Backlog
  /\ backlog' = Append(backlog, c)
  /\ sent' = [sent EXCEPT ![c] = awaiting[c]]
  /\ UNCHANGED <<alive, serving, at, session, doing, result, clients, answer, history>>

(* "Lost connection to server.": request_server returns -1, every menu     *)
(* returns 0, main closes the socket.                                      *)
LoseConnection(c) ==
  /\ Running(c)
  /\ ~Connected(c)
  /\ answer[c] = Silence
  /\ Gone(c)
  /\ UNCHANGED <<server, sent, moves, applied, confirmed, abandoned, deaths>>

(* LOGOUT without waiting for what the server says.                        *)
SlipQuit(c) ==
  /\ Running(c) /\ (Waiting(c) => awaiting[c].op = "LOGOUT")
  /\ Gone(c)
  /\ UNCHANGED <<server, sent, moves, applied, confirmed, abandoned, deaths>>

(* Exit in the main menu, or the end of the input in any menu.             *)
Quit(c) ==
  /\ Running(c) /\ ~Waiting(c)
  /\ Gone(c)
  /\ UNCHANGED <<server, sent, moves, applied, confirmed, abandoned, deaths>>

(* The client process is ended while it waits for a reply, or before all   *)
(* of its request is sent: what lies in the connection is then no request. *)
Abandon(c) ==
  /\ Waiting(c)
  /\ abandoned < MaxAbandoned
  /\ abandoned' = abandoned + 1
  /\ sent' \in {sent, [sent EXCEPT ![c] = None]}
  /\ Gone(c)
  /\ UNCHANGED <<server, moves, applied, confirmed, deaths>>

-------------------------------------------------------------------------------
(* The server.                                                             *)

SlipSessionKept(c) == session
(* The Session handle_client starts with.                                  *)
FirstSession(c) == ResetSession

Accept ==
  /\ alive /\ at = "accept"
  /\ backlog # << >>
  /\ serving' = Head(backlog)
  /\ backlog' = Tail(backlog)
  /\ session' = FirstSession(serving')
  /\ at' = "receive"
  /\ UNCHANGED <<alive, doing, result, clients, wires, history>>

(* receive_message returns a request.                                      *)
Receive ==
  /\ at = "receive"
  /\ sent[serving] # None
  /\ doing' = sent[serving]
  /\ sent' = [sent EXCEPT ![serving] = None]
  /\ at' = "handle"
  /\ UNCHANGED <<alive, backlog, serving, session, result, clients, answer, history>>

(* handle_client returns, main closes the connection.                      *)
EndConnection ==
  /\ serving' = NoClient
  /\ at' = "accept"
  /\ doing' = None
  /\ result' = Silence
  /\ sent' = [sent EXCEPT ![serving] = None]
  /\ UNCHANGED <<alive, backlog, session>>

(* A receive that fails is tried again.                                    *)
SlipEndOfPeer ==
  /\ at = "receive"
  /\ sent[serving] = None
  /\ ~Running(serving)
  /\ UNCHANGED vars

(* receive_message returns 0: the peer has closed and all it sent is read. *)
EndOfPeer ==
  /\ at = "receive"
  /\ sent[serving] = None
  /\ ~Running(serving)
  /\ EndConnection
  /\ UNCHANGED <<clients, answer, history>>

(* What a request that is granted leaves of the session.                   *)
SessionAfter(r) ==
  CASE r.op = "LOGIN" -> {[ResetSession EXCEPT !.customer_account_no = r.who]}
    [] r.op = "ADMIN_LOGIN" ->
         {[ResetSession EXCEPT !.is_admin = 1, !.admin_username = u] : u \in Admins}
    [] r.op = "LOGOUT" -> {ResetSession}
    [] OTHER -> {session}

Permitted(op) ==
  /\ op \in CustomerOps \ {"LOGOUT"} => IsCustomerSession(session)
  /\ op \in AdminOps \ {"LOGOUT"} => IsAdminSession(session)

(* handle_request: granted or, unless it is LOGOUT, refused.               *)
Handle ==
  /\ at = "handle"
  /\ \/ /\ Permitted(doing.op)
        /\ session' \in SessionAfter(doing)
        /\ result' = "OK"
        /\ applied' = IF doing.op \in MoneyOps THEN applied + 1 ELSE applied
     \/ /\ doing.op # "LOGOUT"
        /\ result' = "ERR"
        /\ UNCHANGED <<session, applied>>
  /\ at' = "length"
  /\ UNCHANGED <<alive, backlog, serving, doing, clients, wires, moves, confirmed, unsure,
                 abandoned, deaths>>

(* The first send of send_message.  A peer that has gone may or may not    *)
(* have been noticed.                                                      *)
SendLength ==
  /\ at = "length"
  /\ \/ /\ at' = "text"
        /\ UNCHANGED <<alive, backlog, serving, session, doing, result, wires>>
     \/ /\ ~Running(serving)
        /\ EndConnection
        /\ UNCHANGED answer
  /\ UNCHANGED <<clients, history>>

(* A handler that replies itself, before handle_client does.               *)
SlipSendText ==
  /\ at = "text"
  /\ Running(serving)
  /\ answer' = [answer EXCEPT ![serving] = result]
  /\ at' = "length"
  /\ UNCHANGED <<alive, backlog, serving, session, doing, result, clients, sent, history>>

(* The second send reaches a running client.                               *)
SendText ==
  /\ at = "text"
  /\ Running(serving)
  /\ answer' = [answer EXCEPT ![serving] = result]
  /\ doing' = None
  /\ result' = Silence
  /\ at' = "receive"
  /\ UNCHANGED <<alive, backlog, serving, session, clients, sent, history>>

(* Nobody reads it: it is accepted all the same, or the send fails.        *)
SendTextLost ==
  /\ at = "text"
  /\ ~Running(serving)
  /\ \/ /\ doing' = None
        /\ result' = Silence
        /\ at' = "receive"
        /\ UNCHANGED <<alive, backlog, serving, session, sent>>
     \/ EndConnection
  /\ UNCHANGED <<clients, answer, history>>

(* The process is over: served and queued connections end.                 *)
ServerEnds ==
  /\ alive' = FALSE
  /\ backlog' = << >>
  /\ serving' = NoClient
  /\ at' = "accept"
  /\ session' = ResetSession
  /\ doing' = None
  /\ result' = Silence
  /\ sent' = [c \in Clients |-> None]
  /\ UNCHANGED <<clients, answer>>

(* Nobody reads it, and the kernel knows: SIGPIPE.                         *)
BrokenPipe ==
  /\ at = "text"
  /\ ~Running(serving)
  /\ ServerEnds
  /\ deaths' = deaths + 1
  /\ UNCHANGED <<moves, applied, confirmed, unsure, abandoned>>

(* The process ends for another reason, between any two steps.             *)
Crash == alive /\ ServerEnds /\ UNCHANGED history

Restart ==
  /\ ~alive
  /\ alive' = TRUE
  /\ UNCHANGED <<backlog, serving, at, session, doing, result, clients, wires, history>>

-------------------------------------------------------------------------------
ServerStep ==
  Accept \/ Receive \/ EndOfPeer \/ Handle \/ SendLength \/ SendText \/ SendTextLost
    \/ BrokenPipe

User(c) == Connect(c) \/ Send(c) \/ Quit(c) \/ Abandon(c)

Next ==
  \/ \E c \in Clients : User(c) \/ SeeReply(c) \/ LoseConnection(c)
  \/ ServerStep
  \/ Crash
  \/ Restart

Spec == Init /\ [][Next]_vars

(* Every call of the server returns but accept and recv, which return once *)
(* there is something to return; a reply or the end of a connection        *)
(* reaches a client that waits for it.  Users and crashes owe nothing.     *)
FairSpec ==
  /\ Spec
  /\ WF_vars(ServerStep)
  /\ \A c \in Clients : WF_vars(SeeReply(c)) /\ WF_vars(Waiting(c) /\ LoseConnection(c))

-------------------------------------------------------------------------------
Sessions ==
  [customer_account_no : Numbers \union {NoAccount}, is_admin : {0, 1},
   admin_username : Admins \union {NoName}]

(* Types, with who may hold what: a queued connection is queued once and   *)
(* is not served, only a connection holds a request, only a client that    *)
(* waits is owed an answer.                                                *)
TypeOK ==
  /\ alive \in BOOLEAN
  /\ backlog \in Seq(Clients) /\ Len(backlog) <= Backlog
  /\ \A j, k \in DOMAIN backlog : backlog[j] = backlog[k] => j = k
  /\ serving \in Clients \union {NoClient} /\ ~Queued(serving)
  /\ at \in {"accept", "receive", "handle", "length", "text"}
  /\ at = "accept" <=> serving = NoClient
  /\ session \in Sessions
  /\ doing \in Requests \union {None}
  /\ result \in {Silence, "OK", "ERR"}
  /\ menu \in [Clients -> {"off", "main", "customer", "admin"}]
  /\ account \in [Clients -> Numbers \union {NoAccount}]
  /\ awaiting \in [Clients -> Requests \union {None}]
  /\ sent \in [Clients -> Requests \union {None}]
  /\ answer \in [Clients -> {Silence, "OK", "ERR"}]
  /\ \A c \in Clients :
       /\ sent[c] # None => Connected(c)
       /\ Running(c) /\ sent[c] # None => awaiting[c] = sent[c]
       /\ answer[c] # Silence => Waiting(c)
       /\ Waiting(c) => Running(c)
  /\ {moves, applied, confirmed, unsure, abandoned, deaths} \subseteq Nat

(* The menu a user sees is the session the server has: a customer menu     *)
(* shows the account the server will debit, a main menu is nobody's, an    *)
(* admin menu an admin's.  It holds between requests and for as long as a  *)
(* request that leaves the session alone is under way.                     *)
MenuOf(c) ==
  CASE IsAdminSession(session) -> "admin"
    [] IsCustomerSession(session) -> "customer"
    [] OTHER -> "main"

MenuMatchesSession ==
  \A c \in Clients :
    /\ serving = c /\ Running(c) /\ awaiting[c].op \notin SessionOps =>
         menu[c] = MenuOf(c) /\ account[c] = session.customer_account_no
    /\ Queued(c) /\ Running(c) => menu[c] = "main"

(* Money a client was told of has moved, and money moves at most once for  *)
(* each request a user sent: what moved beyond what users were told is     *)
(* bounded by the replies they lost or still wait for.                     *)
MovedOncePerRequest ==
  /\ confirmed <= applied
  /\ applied <= confirmed + unsure
                + Cardinality({c \in Clients : awaiting[c].op \in MoneyOps})

(* SIGPIPE ends the server only for a reply that a client no longer waits  *)
(* for, and once at most for each such client: users who leave by their    *)
(* menus never take the server away from the others.                       *)
DeathsFromAbandonedReplies == deaths <= abandoned

(* README.md: "The server handles one client at a time."  Every request    *)
(* ends, with a reply or a lost connection, unless one other client stays  *)
(* for good.                                                               *)
EveryRequestEnds ==
  \A c \in Clients :
    Waiting(c) ~> (~Waiting(c)
                   \/ <>[](\E d \in Clients \ {c} : serving = d /\ Running(d)))
===============================================================================
