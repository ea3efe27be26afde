-------------------------- MODULE AtmConnectionProofs --------------------------
(***************************************************************************)
(* AtmConnection for any set of clients: its types, that the menu a user   *)
(* sees is the session the server has, what may take the server down, and  *)
(* that money moves once per request.                                      *)
(***************************************************************************)
EXTENDS AtmConnection, SequenceTheorems, FiniteSetTheorems, TLAPS

(* A session is nobody's, one customer's or one administrator's.           *)
CustomerSession(n) == [ResetSession EXCEPT !.customer_account_no = n]
AdminSession(u) == [ResetSession EXCEPT !.is_admin = 1, !.admin_username = u]
LoginSessions ==
  {ResetSession} \union {CustomerSession(n) : n \in Numbers} \union {AdminSession(u) : u \in Admins}
SessionOfOne == session \in LoginSessions

(* A menu and an account that are those of the session.                    *)
OfSession(place, no) ==
  /\ place = IF session.is_admin = 1 THEN "admin"
             ELSE IF session.customer_account_no > 0 THEN "customer" ELSE "main"
  /\ no = session.customer_account_no

(* The four places of a request between a client and the server that       *)
(* serves it.                                                              *)
Unhandled(c) ==
  /\ at = "receive"
  /\ sent[c] = awaiting[c]
  /\ answer[c] = Silence
  /\ OfSession(menu[c], account[c])
Received(c) ==
  /\ at = "handle"
  /\ doing = awaiting[c] /\ Waiting(c)
  /\ sent[c] = None /\ answer[c] = Silence
  /\ OfSession(menu[c], account[c])
Handled(c) ==
  /\ at \in {"length", "text"}
  /\ doing = awaiting[c] /\ Waiting(c)
  /\ sent[c] = None /\ answer[c] = Silence
  /\ result # Silence
  /\ OfSession(NextMenu(c, result), NextAccount(c, result))
Answered(c) ==
  /\ at = "receive"
  /\ Waiting(c)
  /\ sent[c] = None /\ answer[c] # Silence
  /\ OfSession(NextMenu(c, answer[c]), NextAccount(c, answer[c]))

ServedInStep ==
  \A c \in Clients :
    serving = c /\ Running(c) => Unhandled(c) \/ Received(c) \/ Handled(c) \/ Answered(c)

QueuedInMainMenu ==
  \A c \in Clients :
    Queued(c) /\ Running(c) =>
      /\ menu[c] = "main" /\ account[c] = NoAccount
      /\ sent[c] = awaiting[c] /\ answer[c] = Silence

(* A client that has ended waits for nothing; only the customer menu shows *)
(* an account.                                                             *)
EndedClean ==
  \A c \in Clients :
    /\ ~Running(c) => awaiting[c] = None
    /\ menu[c] # "customer" => account[c] = NoAccount

RequestAtHand == at = "handle" => doing \in Requests

IInv ==
  /\ TypeOK
  /\ SessionOfOne
  /\ ServedInStep
  /\ QueuedInMainMenu
  /\ EndedClean
  /\ RequestAtHand

(* The parts of TypeOK.                                                    *)
QueueType ==
  /\ backlog \in Seq(Clients) /\ Len(backlog) <= Backlog
  /\ \A j, k \in DOMAIN backlog : backlog[j] = backlog[k] => j = k
PlaceType ==
  /\ serving \in Clients \union {NoClient} /\ ~Queued(serving)
  /\ at \in {"accept", "receive", "handle", "length", "text"}
  /\ at = "accept" <=> serving = NoClient
RequestType ==
  /\ alive \in BOOLEAN
  /\ doing \in Requests \union {None}
  /\ result \in {Silence, "OK", "ERR"}
ColumnsType ==
  /\ menu \in [Clients -> {"off", "main", "customer", "admin"}]
  /\ account \in [Clients -> Numbers \union {NoAccount}]
  /\ awaiting \in [Clients -> Requests \union {None}]
  /\ sent \in [Clients -> Requests \union {None}]
  /\ answer \in [Clients -> {Silence, "OK", "ERR"}]
OwedType ==
  \A c \in Clients :
    /\ sent[c] # None => Connected(c)
    /\ Running(c) /\ sent[c] # None => awaiting[c] = sent[c]
    /\ answer[c] # Silence => Waiting(c)
    /\ Waiting(c) => Running(c)
HistoryType ==
  moves \in Nat /\ applied \in Nat /\ confirmed \in Nat /\ unsure \in Nat
    /\ abandoned \in Nat /\ deaths \in Nat

LEMMA TypeParts ==
  TypeOK <=> /\ QueueType /\ PlaceType /\ RequestType /\ ColumnsType /\ OwedType
             /\ HistoryType /\ session \in Sessions
  BY DEF TypeOK, QueueType, PlaceType, RequestType, ColumnsType, OwedType, HistoryType

LEMMA TypePartsNext ==
  TypeOK' <=> /\ QueueType' /\ PlaceType' /\ RequestType' /\ ColumnsType' /\ OwedType'
              /\ HistoryType' /\ (session \in Sessions)'
  BY DEF TypeOK, QueueType, PlaceType, RequestType, ColumnsType, OwedType, HistoryType

(* The listen queue after connect and after accept.                        *)
LEMMA QueueGrows ==
  ASSUME QueueType, NEW c \in Clients, ~Queued(c), Len(backlog) < Backlog,
         backlog' = Append(backlog, c)
  PROVE  QueueType' /\ \A d : Queued(d)' <=> Queued(d) \/ d = c
  BY BacklogAssumption DEF QueueType, Queued

LEMMA QueueShrinks ==
  ASSUME QueueType, backlog # << >>, backlog' = Tail(backlog)
  PROVE  /\ QueueType'
         /\ Head(backlog) \in Clients /\ Queued(Head(backlog))
         /\ \A d : Queued(d)' <=> Queued(d) /\ d # Head(backlog)
<1>1. backlog \in Seq(Clients) /\ Len(backlog) \in Nat /\ Len(backlog) > 0
  BY DEF QueueType
<1>2. /\ Head(backlog) = backlog[1] /\ 1 \in DOMAIN backlog
      /\ Tail(backlog) \in Seq(Clients)
      /\ DOMAIN backlog = 1 .. Len(backlog)
      /\ DOMAIN Tail(backlog) = 1 .. Len(backlog) - 1
      /\ Len(Tail(backlog)) = Len(backlog) - 1
      /\ \A i \in 1 .. Len(backlog) - 1 : Tail(backlog)[i] = backlog[i + 1]
  BY <1>1, HeadTailProperties
<1>3. QueueType'
  BY <1>1, <1>2, BacklogAssumption DEF QueueType
<1>4. Head(backlog) \in Clients /\ Queued(Head(backlog))
  BY <1>1, <1>2 DEF QueueType, Queued
<1>5. ASSUME NEW d, Queued(d)'
      PROVE  Queued(d) /\ d # Head(backlog)
  BY <1>1, <1>2, <1>5 DEF QueueType, Queued
<1>6. ASSUME NEW d, Queued(d), d # Head(backlog)
      PROVE  Queued(d)'
  <2>1. PICK k \in 1 .. Len(backlog) : backlog[k] = d
    BY <1>2, <1>6 DEF Queued
  <2>2. k - 1 \in 1 .. Len(backlog) - 1 /\ (k - 1) + 1 = k
    BY <1>1, <1>2, <1>6, <2>1
  <2> QED
    BY <1>2, <2>1, <2>2 DEF Queued
<1> QED
  BY <1>3, <1>4, <1>5, <1>6

LEMMA QueueEmpty ==
  ASSUME backlog' = << >>
  PROVE  QueueType' /\ \A d : ~Queued(d)'
  BY BacklogAssumption DEF QueueType, Queued

LEMMA QueueStays ==
  ASSUME backlog' = backlog
  PROVE  (QueueType => QueueType') /\ \A d : Queued(d)' <=> Queued(d)
  BY DEF QueueType, Queued

LEMMA InitIInv == Init => IInv
<1> SUFFICES ASSUME Init PROVE IInv
  OBVIOUS
<1>1. QueueType /\ \A d : ~Queued(d)
  BY BacklogAssumption DEF QueueType, Queued, Init
<1>2. session \in Sessions /\ SessionOfOne
  BY DEF Init, Sessions, ResetSession, SessionOfOne, LoginSessions
<1>3. PlaceType /\ RequestType /\ HistoryType /\ ColumnsType
  BY <1>1 DEF Init, PlaceType, RequestType, HistoryType, ColumnsType, None, Silence
<1>4. OwedType
  BY <1>1 DEF Init, OwedType, Waiting, Running
<1>5. ServedInStep /\ QueuedInMainMenu /\ EndedClean /\ RequestAtHand
  BY <1>1, NobodyAssumption DEF Init, ServedInStep, QueuedInMainMenu, EndedClean, RequestAtHand, Running
<1> QED
  BY <1>1, <1>2, <1>3, <1>4, <1>5, TypeParts DEF IInv

-------------------------------------------------------------------------------
(* The client.                                                             *)

LEMMA ConnectKeepsIInv ==
  ASSUME IInv, NEW c \in Clients, Connect(c)
  PROVE  IInv'
<1>1. QueueType' /\ \A d : Queued(d)' <=> Queued(d) \/ d = c
  BY QueueGrows, TypeParts DEF IInv, Connect, Connected
<1>2. PlaceType' /\ RequestType' /\ HistoryType' /\ (session \in Sessions)' /\ ColumnsType'
  BY <1>1, TypeParts DEF IInv, Connect, Connected, history, PlaceType, RequestType,
       HistoryType, ColumnsType, Sessions
<1>3. OwedType'
  BY <1>1, TypeParts DEF IInv, Connect, Connected, OwedType, ColumnsType, EndedClean, Waiting, Running
<1>4. SessionOfOne' /\ EndedClean' /\ RequestAtHand'
  BY TypeParts DEF IInv, Connect, SessionOfOne, EndedClean, RequestAtHand, Running, ColumnsType
<1>5. QueuedInMainMenu'
  BY <1>1, TypeParts DEF IInv, Connect, Connected, QueuedInMainMenu, EndedClean, Running,
       ColumnsType, OwedType
<1>6. ServedInStep'
  <2> SUFFICES ASSUME NEW d \in Clients, serving = d, Running(d)'
               PROVE  (Unhandled(d) \/ Received(d) \/ Handled(d) \/ Answered(d))'
    BY DEF ServedInStep, Connect
  <2>1. d # c
    BY DEF Connect, Connected
  <2> QED
    BY <2>1, TypeParts DEF IInv, Connect, ServedInStep, Unhandled, Received, Handled, Answered,
         OfSession, NextMenu, NextAccount, Waiting, Running, ColumnsType
<1> QED
  BY <1>1, <1>2, <1>3, <1>4, <1>5, <1>6, TypePartsNext DEF IInv

(* Steps that leave the queue and the server alone keep what these say.    *)
LEMMA ServerStays ==
  ASSUME IInv, UNCHANGED server
  PROVE  /\ QueueType' /\ PlaceType' /\ RequestType' /\ (session \in Sessions)'
         /\ SessionOfOne' /\ RequestAtHand'
         /\ \A d : Queued(d)' <=> Queued(d)
<1>1. QueueType' /\ \A d : Queued(d)' <=> Queued(d)
  BY QueueStays, TypeParts DEF IInv, server
<1> QED
  BY <1>1, TypeParts DEF IInv, server, PlaceType, RequestType, Sessions, SessionOfOne, RequestAtHand

LEMMA SendKeepsIInv ==
  ASSUME IInv, NEW c \in Clients, Send(c)
  PROVE  IInv'
<1>1. /\ QueueType' /\ PlaceType' /\ RequestType' /\ (session \in Sessions)'
      /\ SessionOfOne' /\ RequestAtHand'
      /\ \A d : Queued(d)' <=> Queued(d)
  BY ServerStays DEF Send
<1>2. PICK r \in Requests :
        /\ r.op \in MenuOps(menu[c])
        /\ moves' = IF r.op \in MoneyOps THEN moves + 1 ELSE moves
        /\ awaiting' = [awaiting EXCEPT ![c] = r]
        /\ sent' = [sent EXCEPT ![c] = r]
  BY DEF Send
<1>3. HistoryType' /\ ColumnsType'
  BY <1>2, TypeParts DEF IInv, Send, server, HistoryType, ColumnsType
<1>4. r # None
  BY DEF Requests, None, MainOps, CustomerOps, AdminOps
<1>5. OwedType'
  BY <1>1, <1>2, <1>4, TypeParts DEF IInv, Send, server, OwedType, ColumnsType, Waiting, Running, Connected
<1>6. EndedClean' /\ QueuedInMainMenu'
  BY <1>1, <1>2, <1>4, TypeParts DEF IInv, Send, server, QueuedInMainMenu, EndedClean, Running,
       Waiting, ColumnsType, OwedType
<1>7. ServedInStep'
  <2> SUFFICES ASSUME NEW d \in Clients, serving = d, Running(d)
               PROVE  (Unhandled(d) \/ Received(d) \/ Handled(d) \/ Answered(d))'
    BY DEF ServedInStep, Send, server, Running
  <2>1. CASE d # c
    BY <1>2, <2>1, TypeParts DEF IInv, Send, server, ServedInStep, Unhandled, Received, Handled,
         Answered, OfSession, NextMenu, NextAccount, Waiting, Running, ColumnsType
  <2>2. CASE d = c
    <3>1. Unhandled(c)
      BY <2>2 DEF IInv, ServedInStep, Received, Handled, Answered, Send
    <3>2. Unhandled(c)'
      BY <1>2, <3>1, TypeParts DEF IInv, Send, server, Unhandled, OfSession, ColumnsType
    <3> QED
      BY <2>2, <3>2
  <2> QED
    BY <2>1, <2>2
<1> QED
  BY <1>1, <1>3, <1>5, <1>6, <1>7, TypePartsNext DEF IInv

(* What happens to another client leaves the one that is served as it is.  *)
LEMMA OthersStay ==
  ASSUME IInv, UNCHANGED server, NEW c \in Clients,
         \A d \in Clients \ {c} :
           menu'[d] = menu[d] /\ account'[d] = account[d] /\ awaiting'[d] = awaiting[d]
             /\ sent'[d] = sent[d] /\ answer'[d] = answer[d],
         serving = c /\ Running(c)' =>
           (Unhandled(c) \/ Received(c) \/ Handled(c) \/ Answered(c))'
  PROVE  ServedInStep'
  BY DEF IInv, server, ServedInStep, Unhandled, Received, Handled, Answered, OfSession,
       NextMenu, NextAccount, Waiting, Running

(* A client process that is over: its connection may stay.                 *)
LEMMA GoneKeepsIInv ==
  ASSUME IInv, NEW c \in Clients, UNCHANGED server, Gone(c),
         sent' \in {sent, [sent EXCEPT ![c] = None]}, HistoryType'
  PROVE  IInv'
<1>1. /\ QueueType' /\ PlaceType' /\ RequestType' /\ (session \in Sessions)'
      /\ SessionOfOne' /\ RequestAtHand'
      /\ \A d : Queued(d)' <=> Queued(d)
  BY ServerStays
<1>2. ColumnsType'
  BY TypeParts DEF IInv, Gone, ColumnsType
<1>3. OwedType'
  BY <1>1, TypeParts DEF IInv, Gone, server, OwedType, ColumnsType, Waiting, Running, Connected
<1>4. EndedClean' /\ QueuedInMainMenu'
  BY <1>1, TypeParts DEF IInv, Gone, QueuedInMainMenu, EndedClean, Running, ColumnsType
<1>5. ~Running(c)'
  BY TypeParts DEF IInv, Gone, Running, ColumnsType
<1>6. ServedInStep'
  BY <1>5, OthersStay, TypeParts DEF IInv, Gone, ColumnsType
<1> QED
  BY <1>1, <1>2, <1>3, <1>4, <1>6, TypePartsNext DEF IInv

LEMMA LeaveKeepsIInv ==
  ASSUME IInv, NEW c \in Clients, LoseConnection(c) \/ Quit(c) \/ Abandon(c)
  PROVE  IInv'
<1>1. HistoryType'
  BY TypeParts DEF IInv, LoseConnection, Quit, Abandon, Gone, HistoryType
<1> QED
  BY <1>1, GoneKeepsIInv DEF LoseConnection, Quit, Abandon

LEMMA RequestWho ==
  \A r \in Requests : r.who \in Numbers \union {NoAccount} /\ (r.op = "LOGIN" => r.who \in Numbers)
  BY DEF Requests, MainOps, CustomerOps, AdminOps

LEMMA SeeReplyKeepsIInv ==
  ASSUME IInv, NEW c \in Clients, SeeReply(c)
  PROVE  IInv'
<1>1. /\ QueueType' /\ PlaceType' /\ RequestType' /\ (session \in Sessions)'
      /\ SessionOfOne' /\ RequestAtHand'
      /\ \A d : Queued(d)' <=> Queued(d)
  BY ServerStays DEF SeeReply
<1>2. HistoryType'
  BY TypeParts DEF IInv, SeeReply, HistoryType
<1>3. awaiting[c] \in Requests /\ Running(c) /\ answer[c] \in {"OK", "ERR"}
  BY TypeParts DEF IInv, SeeReply, OwedType, ColumnsType, Waiting
<1>4. ColumnsType'
  <2>1. NextMenu(c, answer[c]) \in {"off", "main", "customer", "admin"}
    BY TypeParts DEF IInv, NextMenu, ColumnsType
  <2>2. NextAccount(c, answer[c]) \in Numbers \union {NoAccount}
    BY <1>3, RequestWho, TypeParts DEF IInv, NextAccount, ColumnsType
  <2> QED
    BY <2>1, <2>2, TypeParts DEF IInv, SeeReply, ColumnsType
<1>5. ~Queued(c)
  BY <1>3 DEF IInv, QueuedInMainMenu, SeeReply
<1>6. NextMenu(c, answer[c]) # "off"
  BY <1>3 DEF NextMenu, Running
<1>7. sent[c] = None
  <2>1. CASE serving = c
    BY <1>3, <2>1, TypeParts DEF IInv, SeeReply, ServedInStep, Unhandled, Received, Handled, Answered
  <2>2. CASE serving # c
    BY <1>5, <2>2, TypeParts DEF IInv, OwedType, Connected
  <2> QED
    BY <2>1, <2>2
<1>8. OwedType'
  BY <1>1, <1>6, <1>7, TypeParts DEF IInv, SeeReply, server, OwedType, ColumnsType, Waiting, Running, Connected
<1>9. EndedClean' /\ QueuedInMainMenu'
  <2>1. NextMenu(c, answer[c]) # "customer" => NextAccount(c, answer[c]) = NoAccount
    BY DEF NextMenu, NextAccount
  <2>2. /\ menu'[c] = NextMenu(c, answer[c]) /\ account'[c] = NextAccount(c, answer[c])
        /\ \A d \in Clients \ {c} :
             menu'[d] = menu[d] /\ account'[d] = account[d] /\ awaiting'[d] = awaiting[d]
               /\ sent'[d] = sent[d] /\ answer'[d] = answer[d]
    BY TypeParts DEF IInv, SeeReply, ColumnsType
  <2>3. EndedClean'
    BY <1>6, <2>1, <2>2 DEF IInv, EndedClean, Running
  <2>4. QueuedInMainMenu'
    BY <1>1, <1>5, <2>2 DEF IInv, QueuedInMainMenu, Running
  <2> QED
    BY <2>3, <2>4
<1>10. ServedInStep'
  <2>1. ASSUME serving = c
        PROVE  Unhandled(c)'
    <3>1. Answered(c)
      BY <1>3, <2>1 DEF IInv, SeeReply, ServedInStep, Unhandled, Received, Handled
    <3> QED
      BY <3>1, TypeParts DEF IInv, SeeReply, server, Answered, Unhandled, OfSession, ColumnsType
  <2> QED
    BY <2>1, OthersStay, TypeParts DEF IInv, SeeReply, ColumnsType
<1> QED
  BY <1>1, <1>2, <1>4, <1>8, <1>9, <1>10, TypePartsNext DEF IInv

-------------------------------------------------------------------------------
(* The server.                                                             *)

LEMMA AcceptKeepsIInv ==
  ASSUME IInv, Accept
  PROVE  IInv'
<1>1. PICK c \in Clients :
        /\ c = Head(backlog)
        /\ QueueType' /\ Queued(c)
        /\ \A d : Queued(d)' <=> Queued(d) /\ d # c
  BY QueueShrinks, TypeParts DEF IInv, Accept
<1>2. serving' = c /\ at' = "receive" /\ session' = ResetSession
  BY <1>1 DEF Accept, FirstSession
<1>3. (session \in Sessions)' /\ SessionOfOne'
  BY <1>2 DEF SessionOfOne, LoginSessions, Sessions, ResetSession
<1>4. PlaceType' /\ RequestType' /\ HistoryType' /\ ColumnsType'
  BY <1>1, <1>2, NobodyAssumption, TypeParts
  DEF IInv, Accept, clients, wires, history, PlaceType, RequestType, HistoryType, ColumnsType
<1>5. serving = NoClient
  BY TypeParts DEF IInv, Accept, PlaceType
<1>6. OwedType'
  BY <1>1, <1>2, <1>5, NobodyAssumption, TypeParts
  DEF IInv, Accept, clients, wires, OwedType, Connected, Waiting, Running
<1>7. EndedClean' /\ QueuedInMainMenu' /\ RequestAtHand'
  BY <1>1, <1>2 DEF IInv, Accept, clients, wires, EndedClean, QueuedInMainMenu, RequestAtHand, Running
<1>8. ServedInStep'
  <2> SUFFICES ASSUME Running(c)
               PROVE  Unhandled(c)'
    BY <1>2 DEF ServedInStep, Accept, clients, Running
  <2>1. menu[c] = "main" /\ account[c] = NoAccount /\ sent[c] = awaiting[c] /\ answer[c] = Silence
    BY <1>1 DEF IInv, QueuedInMainMenu
  <2>2. session'.is_admin = 0 /\ session'.customer_account_no = 0
    BY <1>2 DEF ResetSession, NoAccount
  <2> QED
    BY <1>2, <2>1, <2>2 DEF Accept, clients, wires, Unhandled, OfSession, NoAccount
<1> QED
  BY <1>1, <1>3, <1>4, <1>6, <1>7, <1>8, TypePartsNext DEF IInv

LEMMA ReceiveKeepsIInv ==
  ASSUME IInv, Receive
  PROVE  IInv'
<1>1. QueueType' /\ \A d : Queued(d)' <=> Queued(d)
  BY QueueStays, TypeParts DEF IInv, Receive
<1>2. serving \in Clients /\ sent[serving] \in Requests
  BY TypeParts DEF IInv, Receive, PlaceType, ColumnsType
<1>3. PlaceType' /\ RequestType' /\ HistoryType' /\ ColumnsType' /\ (session \in Sessions)'
  BY <1>1, <1>2, TypeParts
  DEF IInv, Receive, clients, history, PlaceType, RequestType, HistoryType, ColumnsType, Sessions
<1>4. OwedType'
  BY <1>1, <1>2, TypeParts DEF IInv, Receive, clients, OwedType, ColumnsType, Connected, Waiting, Running
<1>5. SessionOfOne' /\ EndedClean' /\ RequestAtHand'
  BY <1>2 DEF IInv, Receive, clients, SessionOfOne, EndedClean, RequestAtHand, Running
<1>6. QueuedInMainMenu'
  BY <1>1, TypeParts DEF IInv, Receive, clients, QueuedInMainMenu, PlaceType, ColumnsType, Running
<1>7. ServedInStep'
  <2> SUFFICES ASSUME Running(serving)
               PROVE  Received(serving)'
    BY <1>2 DEF ServedInStep, Receive, clients, Running
  <2>1. Unhandled(serving)
    BY <1>2 DEF IInv, Receive, ServedInStep, Received, Handled, Answered
  <2> QED
    BY <1>2, <2>1, TypeParts DEF IInv, Receive, clients, Unhandled, Received, OfSession, ColumnsType, Waiting
<1> QED
  BY <1>1, <1>3, <1>4, <1>5, <1>6, <1>7, TypePartsNext DEF IInv

(* handle_client is done with the connection.                              *)
LEMMA EndOfConnectionKeepsIInv ==
  ASSUME IInv, serving # NoClient, ~Running(serving), EndConnection,
         UNCHANGED <<clients, answer, history>>
  PROVE  IInv'
<1>1. QueueType' /\ \A d : Queued(d)' <=> Queued(d)
  BY QueueStays, TypeParts DEF IInv, EndConnection
<1>2. serving \in Clients /\ ~Queued(NoClient)
  BY NobodyAssumption, TypeParts DEF IInv, PlaceType, QueueType, Queued
<1>3. PlaceType' /\ RequestType' /\ HistoryType' /\ ColumnsType' /\ (session \in Sessions)'
  BY <1>1, <1>2, TypeParts
  DEF IInv, EndConnection, clients, history, PlaceType, RequestType, HistoryType, ColumnsType, Sessions
<1>4. OwedType'
  BY <1>1, <1>2, TypeParts
  DEF IInv, EndConnection, clients, OwedType, ColumnsType, Connected, Waiting, Running
<1>5. SessionOfOne' /\ EndedClean' /\ RequestAtHand'
  BY DEF IInv, EndConnection, clients, SessionOfOne, EndedClean, RequestAtHand, Running
<1>6. QueuedInMainMenu'
  BY <1>1, TypeParts DEF IInv, EndConnection, clients, QueuedInMainMenu, PlaceType, ColumnsType, Running
<1>7. ServedInStep'
  BY NobodyAssumption DEF EndConnection, ServedInStep
<1> QED
  BY <1>1, <1>3, <1>4, <1>5, <1>6, <1>7, TypePartsNext DEF IInv

LEMMA NumbersAboveZero == \A n \in Numbers : n > 0
  BY NumbersPositive DEF NoAccount

LEMMA SessionFields ==
  /\ ResetSession = [customer_account_no |-> 0, is_admin |-> 0, admin_username |-> NoName]
  /\ \A n : CustomerSession(n) =
              [customer_account_no |-> n, is_admin |-> 0, admin_username |-> NoName]
  /\ \A u : AdminSession(u) =
              [customer_account_no |-> 0, is_admin |-> 1, admin_username |-> u]
<1>1. ResetSession = [customer_account_no |-> 0, is_admin |-> 0, admin_username |-> NoName]
  BY DEF ResetSession, NoAccount
<1>2. ASSUME NEW n
      PROVE  CustomerSession(n) =
               [customer_account_no |-> n, is_admin |-> 0, admin_username |-> NoName]
  BY <1>1 DEF CustomerSession
<1>3. ASSUME NEW u
      PROVE  AdminSession(u) = [customer_account_no |-> 0, is_admin |-> 1, admin_username |-> u]
  <2>1. [ResetSession EXCEPT !.is_admin = 1] =
          [customer_account_no |-> 0, is_admin |-> 1, admin_username |-> NoName]
    BY <1>1
  <2>2. AdminSession(u) = [[ResetSession EXCEPT !.is_admin = 1] EXCEPT !.admin_username = u]
    BY DEF AdminSession
  <2>3. ASSUME NEW s, s = [customer_account_no |-> 0, is_admin |-> 1, admin_username |-> NoName]
        PROVE  [s EXCEPT !.admin_username = u] =
                 [customer_account_no |-> 0, is_admin |-> 1, admin_username |-> u]
    BY <2>3
  <2> QED
    BY <2>1, <2>2, <2>3
<1> QED
  BY <1>1, <1>2, <1>3

LEMMA LoginSessionFields ==
  ASSUME NEW s \in LoginSessions
  PROVE  /\ s \in Sessions
         /\ s.is_admin \in {0, 1}
         /\ s.is_admin = 1 => s.customer_account_no = 0
         /\ ~(s.customer_account_no > 0) => s.customer_account_no = 0
<1>1. CASE s = ResetSession
  BY <1>1, SessionFields DEF Sessions, NoAccount
<1>2. CASE \E n \in Numbers : s = CustomerSession(n)
  <2>1. PICK n \in Numbers :
          s = [customer_account_no |-> n, is_admin |-> 0, admin_username |-> NoName]
    BY <1>2, SessionFields
  <2>2. n > 0
    BY NumbersAboveZero
  <2> QED
    BY <2>1, <2>2 DEF Sessions
<1>3. CASE \E u \in Admins : s = AdminSession(u)
  BY <1>3, SessionFields DEF Sessions, NoAccount
<1> QED
  BY <1>1, <1>2, <1>3 DEF LoginSessions

LEMMA HandleKeepsIInv ==
  ASSUME IInv, Handle
  PROVE  IInv'
<1>1. QueueType' /\ \A d : Queued(d)' <=> Queued(d)
  BY QueueStays, TypeParts DEF IInv, Handle
<1>2. serving \in Clients /\ doing \in Requests
  BY TypeParts DEF IInv, Handle, PlaceType, RequestAtHand
<1>3. PlaceType' /\ RequestType' /\ HistoryType' /\ ColumnsType'
  BY <1>1, <1>2, TypeParts
  DEF IInv, Handle, clients, wires, history, PlaceType, RequestType, HistoryType, ColumnsType
<1>4. OwedType'
  BY <1>1, <1>2, TypeParts DEF IInv, Handle, clients, wires, OwedType, Connected, Waiting, Running
<1>5. EndedClean' /\ RequestAtHand' /\ QueuedInMainMenu'
  BY <1>1 DEF IInv, Handle, clients, wires, EndedClean, RequestAtHand, QueuedInMainMenu, Running
<1>6. SessionOfOne'
  <2>1. doing.op = "LOGIN" => doing.who \in Numbers
    BY <1>2, RequestWho
  <2> QED
    BY <2>1 DEF IInv, Handle, SessionAfter, SessionOfOne, LoginSessions, CustomerSession, AdminSession
<1>7. (session \in Sessions)'
  BY <1>6, LoginSessionFields DEF SessionOfOne
<1>8. ServedInStep'
  <2> SUFFICES ASSUME Running(serving)
               PROVE  Handled(serving)'
    BY <1>2 DEF ServedInStep, Handle, clients, Running
  <2>1. Received(serving)
    BY <1>2 DEF IInv, Handle, ServedInStep, Unhandled, Handled, Answered
  <2>2. OfSession(NextMenu(serving, result), NextAccount(serving, result))'
    <3>1. CASE doing.op = "LOGIN" /\ result' = "OK"
      <4>1. session' = CustomerSession(doing.who)
        BY <3>1 DEF Handle, SessionAfter, CustomerSession
      <4>2. /\ session'.is_admin = 0 /\ session'.customer_account_no = doing.who
            /\ doing.who \in Numbers /\ doing.who > 0
        <5>1. session' =
                [customer_account_no |-> doing.who, is_admin |-> 0, admin_username |-> NoName]
          BY <4>1, SessionFields
        <5>2. doing.who \in Numbers
          BY <1>2, <3>1, RequestWho
        <5>3. doing.who > 0
          BY <5>2, NumbersAboveZero
        <5> QED
          BY <5>1, <5>2, <5>3
      <4>3. awaiting'[serving'] = doing
        BY <2>1 DEF Handle, Received, clients
      <4> QED
        <5>1. NextMenu(serving, result)' = "customer"
          BY <3>1, <4>3 DEF NextMenu
        <5>2. NextAccount(serving, result)' = doing.who
          BY <3>1, <4>3 DEF NextAccount
        <5> QED
          BY <4>2, <5>1, <5>2 DEF OfSession
    <3>2. CASE doing.op = "ADMIN_LOGIN" /\ result' = "OK"
      <4>1. session'.is_admin = 1 /\ session'.customer_account_no = 0
        <5>1. PICK u \in Admins : session' = AdminSession(u)
          BY <3>2 DEF Handle, SessionAfter, AdminSession
        <5> QED
          BY <5>1, SessionFields
      <4>2. awaiting'[serving'] = doing
        BY <2>1 DEF Handle, Received, clients
      <4> QED
        BY <3>2, <4>1, <4>2 DEF OfSession, NextMenu, NextAccount, NoAccount
    <3>3. CASE doing.op = "LOGOUT"
      <4>1. session'.is_admin = 0 /\ session'.customer_account_no = 0
        BY <3>3, SessionFields DEF Handle, SessionAfter
      <4>2. awaiting'[serving'] = doing
        BY <2>1 DEF Handle, Received, clients
      <4> QED
        BY <3>3, <4>1, <4>2 DEF OfSession, NextMenu, NextAccount, NoAccount
    <3>4. CASE session' = session /\ doing.op # "LOGOUT"
               /\ ~(doing.op \in {"LOGIN", "ADMIN_LOGIN"} /\ result' = "OK")
      <4>1. awaiting'[serving'] = doing /\ menu'[serving'] = menu[serving]
            /\ account'[serving'] = account[serving]
        BY <2>1 DEF Handle, Received, clients
      <4>2. NextMenu(serving, result)' = menu[serving]
        BY <3>4, <4>1 DEF NextMenu
      <4>3. OfSession(menu[serving], account[serving])
        BY <2>1 DEF Received
      <4>4. NextAccount(serving, result)' = account[serving]
        BY <3>4, <4>1, <4>2, <4>3, LoginSessionFields DEF IInv, SessionOfOne, NextAccount, OfSession, NoAccount
      <4> QED
        BY <3>4, <4>2, <4>3, <4>4 DEF OfSession
    <3> QED
      BY <3>1, <3>2, <3>3, <3>4 DEF Handle, SessionAfter
  <2> QED
    BY <2>1, <2>2 DEF Handle, Received, Handled, clients, wires, Waiting, Silence
<1> QED
  BY <1>1, <1>3, <1>4, <1>5, <1>6, <1>7, <1>8, TypePartsNext DEF IInv

(* The reply on its way: nothing but at has changed.                       *)
LEMMA SendLengthKeepsIInv ==
  ASSUME IInv, SendLength
  PROVE  IInv'
<1>0. serving # NoClient
  BY TypeParts DEF IInv, SendLength, PlaceType
<1>1. CASE ~Running(serving) /\ EndConnection /\ UNCHANGED answer
  BY <1>0, <1>1, EndOfConnectionKeepsIInv DEF SendLength
<1>2. CASE at' = "text" /\ UNCHANGED <<alive, backlog, serving, session, doing, result, wires>>
  <2>1. QueueType' /\ \A d : Queued(d)' <=> Queued(d)
    BY <1>2, QueueStays, TypeParts DEF IInv
  <2>2. PlaceType' /\ RequestType' /\ HistoryType' /\ ColumnsType' /\ (session \in Sessions)'
    BY <1>0, <1>2, <2>1, TypeParts
    DEF IInv, SendLength, clients, wires, history, PlaceType, RequestType, HistoryType,
        ColumnsType, Sessions
  <2>3. OwedType'
    BY <1>2, <2>1, TypeParts
    DEF IInv, SendLength, clients, wires, OwedType, Connected, Waiting, Running
  <2>4. SessionOfOne' /\ EndedClean' /\ RequestAtHand' /\ QueuedInMainMenu'
    BY <1>2, <2>1
    DEF IInv, SendLength, clients, wires, SessionOfOne, EndedClean, RequestAtHand,
        QueuedInMainMenu, Running
  <2>5. ServedInStep'
    BY <1>2 DEF IInv, SendLength, clients, wires, ServedInStep, Unhandled, Received, Handled,
        Answered, OfSession, NextMenu, NextAccount, Waiting, Running
  <2> QED
    BY <2>1, <2>2, <2>3, <2>4, <2>5, TypePartsNext DEF IInv
<1> QED
  BY <1>1, <1>2 DEF SendLength

LEMMA SendTextKeepsIInv ==
  ASSUME IInv, SendText
  PROVE  IInv'
<1>1. QueueType' /\ \A d : Queued(d)' <=> Queued(d)
  BY QueueStays, TypeParts DEF IInv, SendText
<1>2. serving \in Clients
  BY TypeParts DEF IInv, SendText, PlaceType
<1>3. Handled(serving)
  BY <1>2 DEF IInv, SendText, ServedInStep, Unhandled, Received, Answered
<1>4. PlaceType' /\ RequestType' /\ HistoryType' /\ ColumnsType' /\ (session \in Sessions)'
  BY <1>1, <1>2, TypeParts
  DEF IInv, SendText, clients, history, PlaceType, RequestType, HistoryType, ColumnsType, Sessions
<1>5. OwedType'
  BY <1>1, <1>2, <1>3, TypeParts
  DEF IInv, SendText, clients, Handled, OwedType, ColumnsType, Connected, Waiting, Running
<1>6. SessionOfOne' /\ EndedClean' /\ RequestAtHand'
  BY DEF IInv, SendText, clients, SessionOfOne, EndedClean, RequestAtHand, Running
<1>7. QueuedInMainMenu'
  BY <1>1, TypeParts DEF IInv, SendText, clients, QueuedInMainMenu, PlaceType, ColumnsType, Running
<1>8. ServedInStep'
  <2>1. Answered(serving)'
    BY <1>2, <1>3, TypeParts
    DEF IInv, SendText, clients, Handled, Answered, OfSession, NextMenu, NextAccount, Waiting, ColumnsType
  <2> QED
    BY <2>1 DEF ServedInStep, SendText
<1> QED
  BY <1>1, <1>4, <1>5, <1>6, <1>7, <1>8, TypePartsNext DEF IInv

LEMMA SendTextLostKeepsIInv ==
  ASSUME IInv, SendTextLost
  PROVE  IInv'
<1>0. serving # NoClient
  BY TypeParts DEF IInv, SendTextLost, PlaceType
<1>1. CASE EndConnection
  BY <1>0, <1>1, EndOfConnectionKeepsIInv DEF SendTextLost
<1>2. CASE /\ doing' = None /\ result' = Silence /\ at' = "receive"
           /\ UNCHANGED <<alive, backlog, serving, session, sent>>
  <2>1. QueueType' /\ \A d : Queued(d)' <=> Queued(d)
    BY <1>2, QueueStays, TypeParts DEF IInv
  <2>2. PlaceType' /\ RequestType' /\ HistoryType' /\ ColumnsType' /\ (session \in Sessions)'
    BY <1>0, <1>2, <2>1, TypeParts
    DEF IInv, SendTextLost, clients, history, PlaceType, RequestType, HistoryType, ColumnsType, Sessions
  <2>3. OwedType'
    BY <1>2, <2>1, TypeParts DEF IInv, SendTextLost, clients, OwedType, Connected, Waiting, Running
  <2>4. SessionOfOne' /\ EndedClean' /\ RequestAtHand' /\ QueuedInMainMenu'
    BY <1>2, <2>1
    DEF IInv, SendTextLost, clients, SessionOfOne, EndedClean, RequestAtHand, QueuedInMainMenu, Running
  <2>5. ServedInStep'
    BY <1>2 DEF SendTextLost, clients, ServedInStep, Running
  <2> QED
    BY <2>1, <2>2, <2>3, <2>4, <2>5, TypePartsNext DEF IInv
<1> QED
  BY <1>1, <1>2 DEF SendTextLost

LEMMA ServerEndsKeepsIInv ==
  ASSUME IInv, ServerEnds, HistoryType'
  PROVE  IInv'
<1>1. QueueType' /\ \A d : ~Queued(d)'
  BY QueueEmpty DEF ServerEnds
<1>2. SessionOfOne' /\ (session \in Sessions)'
  BY DEF ServerEnds, SessionOfOne, LoginSessions, Sessions, ResetSession
<1>3. PlaceType' /\ RequestType' /\ ColumnsType'
  BY <1>1, TypeParts DEF IInv, ServerEnds, clients, PlaceType, RequestType, ColumnsType
<1>4. OwedType'
  BY TypeParts DEF IInv, ServerEnds, clients, OwedType, Waiting, Running
<1>5. EndedClean' /\ RequestAtHand' /\ QueuedInMainMenu' /\ ServedInStep'
  BY <1>1, NobodyAssumption
  DEF IInv, ServerEnds, clients, EndedClean, RequestAtHand, QueuedInMainMenu, ServedInStep, Running
<1> QED
  BY <1>1, <1>2, <1>3, <1>4, <1>5, TypePartsNext DEF IInv

(* The processes of the clients and all connections as they are.           *)
LEMMA RestKeepsIInv ==
  ASSUME IInv, UNCHANGED <<backlog, serving, at, session, doing, result, clients, wires, history>>,
         alive' \in BOOLEAN
  PROVE  IInv'
<1>1. QueueType' /\ \A d : Queued(d)' <=> Queued(d)
  BY QueueStays, TypeParts DEF IInv
<1>2. PlaceType' /\ RequestType' /\ HistoryType' /\ ColumnsType' /\ (session \in Sessions)'
  BY <1>1, TypeParts
  DEF IInv, clients, wires, history, PlaceType, RequestType, HistoryType, ColumnsType, Sessions
<1>3. OwedType'
  BY <1>1, TypeParts DEF IInv, clients, wires, OwedType, Connected, Waiting, Running
<1>4. SessionOfOne' /\ EndedClean' /\ RequestAtHand' /\ QueuedInMainMenu'
  BY <1>1 DEF IInv, clients, wires, SessionOfOne, EndedClean, RequestAtHand, QueuedInMainMenu, Running
<1>5. ServedInStep'
  BY DEF IInv, clients, wires, ServedInStep, Unhandled, Received, Handled, Answered, OfSession,
     NextMenu, NextAccount, Waiting, Running
<1> QED
  BY <1>1, <1>2, <1>3, <1>4, <1>5, TypePartsNext DEF IInv

-------------------------------------------------------------------------------
LEMMA NextIInv == IInv /\ [Next]_vars => IInv'
<1> SUFFICES ASSUME IInv, [Next]_vars PROVE IInv'
  OBVIOUS
<1>1. ASSUME NEW c \in Clients, User(c) \/ SeeReply(c) \/ LoseConnection(c)
      PROVE  IInv'
  BY <1>1, ConnectKeepsIInv, SendKeepsIInv, LeaveKeepsIInv, SeeReplyKeepsIInv DEF User
<1>2. ASSUME EndOfPeer
      PROVE  IInv'
  <2>1. serving # NoClient
    BY <1>2, TypeParts DEF IInv, EndOfPeer, PlaceType
  <2> QED
    BY <1>2, <2>1, EndOfConnectionKeepsIInv DEF EndOfPeer
<1>3. ASSUME BrokenPipe \/ Crash
      PROVE  IInv'
  <2>1. HistoryType'
    BY <1>3, TypeParts DEF IInv, BrokenPipe, Crash, history, HistoryType
  <2> QED
    BY <1>3, <2>1, ServerEndsKeepsIInv DEF BrokenPipe, Crash
<1>4. ASSUME ServerStep
      PROVE  IInv'
  BY <1>2, <1>3, <1>4, AcceptKeepsIInv, ReceiveKeepsIInv, HandleKeepsIInv, SendLengthKeepsIInv,
     SendTextKeepsIInv, SendTextLostKeepsIInv DEF ServerStep
<1>5. CASE Restart \/ UNCHANGED vars
  <2>1. alive' \in BOOLEAN
    BY <1>5, TypeParts DEF IInv, RequestType, Restart, vars, server
  <2> QED
    BY <1>5, <2>1, RestKeepsIInv DEF Restart, vars, server
<1> QED
  BY <1>1, <1>3, <1>4, <1>5 DEF Next

(* The types of AtmConnection, whatever the number of clients and the      *)
(* length of the listen queue of open_server_socket: a connection is in    *)
(* one place, and only one that stands holds a request.                    *)
THEOREM TypeCorrect == Spec => []TypeOK
<1>1. IInv => TypeOK
  BY DEF IInv
<1> QED
  BY <1>1, InitIInv, NextIInv, PTL DEF Spec

(* customer_menu and admin_menu never show another login than the Session  *)
(* of handle_client holds, however requests, replies, lost connections,    *)
(* crashes and restarts follow one another.                                *)
THEOREM MenuCorrect == Spec => []MenuMatchesSession
<1>1. ASSUME IInv
      PROVE  MenuMatchesSession
  <2>1. ASSUME NEW c \in Clients, serving = c, Running(c), awaiting[c].op \notin SessionOps
        PROVE  OfSession(menu[c], account[c])
    <3>1. CASE Unhandled(c) \/ Received(c)
      BY <3>1 DEF Unhandled, Received
    <3>2. CASE Handled(c) \/ Answered(c)
      <4>1. PICK reply : OfSession(NextMenu(c, reply), NextAccount(c, reply))
        BY <3>2 DEF Handled, Answered
      <4>2. NextMenu(c, reply) = menu[c]
        BY <2>1 DEF NextMenu, SessionOps
      <4>3. menu[c] # "customer" => account[c] = NoAccount
        BY <1>1 DEF IInv, EndedClean
      <4> QED
        BY <2>1, <4>1, <4>2, <4>3 DEF NextAccount, SessionOps
    <3> QED
      BY <2>1, <3>1, <3>2, <1>1 DEF IInv, ServedInStep
  <2> QED
    BY <1>1, <2>1, LoginSessionFields
    DEF IInv, SessionOfOne, QueuedInMainMenu, MenuMatchesSession, MenuOf, OfSession, IsAdminSession, IsCustomerSession
<1> QED
  BY <1>1, InitIInv, NextIInv, PTL DEF Spec

-------------------------------------------------------------------------------
(* Deaths of the server.                                                   *)

(* Clients that have ended and whose request the server still works on or  *)
(* will still find: each of them may yet end it.                           *)
Unheard ==
  {c \in Clients :
     /\ ~Running(c)
     /\ sent[c] # None \/ (serving = c /\ at \in {"handle", "length", "text"})}

DeathsAllowed == deaths + Cardinality(Unheard) <= abandoned

LEMMA UnheardFinite ==
  /\ IsFiniteSet(Unheard) /\ Cardinality(Unheard) \in Nat
  /\ IsFiniteSet(Unheard)' /\ Cardinality(Unheard)' \in Nat
<1>1. Unheard \subseteq Clients /\ Unheard' \subseteq Clients
  BY DEF Unheard
<1> QED
  BY <1>1, ClientsFinite, FS_Subset, FS_CardinalityType

LEMMA FewerUnheard ==
  ASSUME IInv, DeathsAllowed, Unheard' \subseteq Unheard, UNCHANGED <<deaths, abandoned>>
  PROVE  DeathsAllowed'
<1>1. Cardinality(Unheard') <= Cardinality(Unheard)
  BY UnheardFinite, FS_Subset
<1> QED
  BY <1>1, UnheardFinite, TypeParts DEF IInv, DeathsAllowed, HistoryType

(* A user who leaves by a menu has no request under way.                   *)
LEMMA IdleIsHeard ==
  ASSUME IInv, NEW c \in Clients, Running(c), ~Waiting(c)
  PROVE  sent[c] = None /\ ~(serving = c /\ at \in {"handle", "length", "text"})
<1>1. sent[c] = None
  BY TypeParts DEF IInv, OwedType, Waiting
<1>2. ASSUME serving = c
      PROVE  at = "receive"
  BY <1>2 DEF IInv, ServedInStep, Unhandled, Received, Handled, Answered
<1> QED
  BY <1>1, <1>2

LEMMA QuitIsHeard ==
  ASSUME IInv, NEW c \in Clients, Quit(c) \/ LoseConnection(c)
  PROVE  Unheard' \subseteq Unheard
<1>1. sent[c] = None /\ ~(serving = c /\ at \in {"handle", "length", "text"})
  BY IdleIsHeard, TypeParts DEF IInv, Quit, LoseConnection, OwedType, Connected
<1>2. UNCHANGED <<serving, at, sent>>
  BY DEF Quit, LoseConnection, server
<1>3. \A d \in Clients \ {c} : menu'[d] = menu[d]
  BY TypeParts DEF IInv, Quit, LoseConnection, Gone, ColumnsType
<1> QED
  BY <1>1, <1>2, <1>3 DEF Unheard, Running

LEMMA AbandonIsCounted ==
  ASSUME IInv, DeathsAllowed, NEW c \in Clients, Abandon(c)
  PROVE  DeathsAllowed'
<1>1. Unheard' \subseteq Unheard \union {c}
  BY TypeParts DEF IInv, Abandon, Gone, server, ColumnsType, Unheard, Running
<1>2. IsFiniteSet(Unheard \union {c}) /\ Cardinality(Unheard \union {c}) <= Cardinality(Unheard) + 1
  <2>1. IsFiniteSet(Unheard) /\ Cardinality(Unheard) \in Nat
    BY UnheardFinite
  <2>2. /\ IsFiniteSet(Unheard \union {c})
        /\ Cardinality(Unheard \union {c}) =
             IF c \in Unheard THEN Cardinality(Unheard) ELSE Cardinality(Unheard) + 1
    BY <2>1, FS_AddElement
  <2> QED
    BY <2>1, <2>2
<1>3. Cardinality(Unheard') <= Cardinality(Unheard \union {c})
  BY <1>1, <1>2, FS_Subset
<1>4. Cardinality(Unheard \union {c}) \in Nat
  BY <1>2, FS_CardinalityType
<1> QED
  BY <1>2, <1>3, <1>4, UnheardFinite, TypeParts DEF IInv, Abandon, DeathsAllowed, HistoryType

LEMMA BrokenPipeIsCounted ==
  ASSUME IInv, DeathsAllowed, BrokenPipe
  PROVE  DeathsAllowed'
<1>1. serving \in Clients
  BY TypeParts DEF IInv, BrokenPipe, PlaceType
<1>2. serving \in Unheard
  BY <1>1 DEF BrokenPipe, Unheard
<1>3. Cardinality(Unheard) > 0
  BY <1>2, UnheardFinite, FS_EmptySet
<1>4. Unheard' = {}
  BY NobodyAssumption DEF BrokenPipe, ServerEnds, Unheard
<1>5. Cardinality(Unheard') = 0
  BY <1>4, FS_EmptySet
<1> QED
  BY <1>3, <1>5, UnheardFinite, TypeParts DEF IInv, BrokenPipe, DeathsAllowed, HistoryType

LEMMA NextDeathsAllowed == IInv /\ DeathsAllowed /\ [Next]_vars => DeathsAllowed'
<1> SUFFICES ASSUME IInv, DeathsAllowed, [Next]_vars PROVE DeathsAllowed'
  OBVIOUS
<1>1. ASSUME NEW c \in Clients, Connect(c) \/ Send(c) \/ SeeReply(c)
      PROVE  Unheard' \subseteq Unheard /\ UNCHANGED <<deaths, abandoned>>
  <2>1. UNCHANGED <<serving, at, deaths, abandoned>>
    BY <1>1 DEF Connect, Send, SeeReply, server, history
  <2>2. \A d \in Clients \ {c} : menu'[d] = menu[d] /\ sent'[d] = sent[d]
    BY <1>1, TypeParts DEF IInv, Connect, Send, SeeReply, ColumnsType
  <2>3. Running(c)'
    <3>1. CASE Connect(c)
      BY <3>1, TypeParts DEF IInv, Connect, Running, ColumnsType
    <3>2. CASE Send(c)
      BY <3>2 DEF Send, Running
    <3>3. CASE SeeReply(c)
      BY <3>3, TypeParts DEF IInv, SeeReply, NextMenu, OwedType, Running, ColumnsType
    <3> QED
      BY <1>1, <3>1, <3>2, <3>3
  <2> QED
    BY <2>1, <2>2, <2>3 DEF Unheard, Running
<1>2. ASSUME NEW c \in Clients, Quit(c) \/ LoseConnection(c)
      PROVE  DeathsAllowed'
  BY <1>2, QuitIsHeard, FewerUnheard DEF Quit, LoseConnection
<1>3. ASSUME Accept \/ Receive \/ Handle \/ SendText
      PROVE  Unheard' \subseteq Unheard /\ UNCHANGED <<deaths, abandoned>>
  <2>1. CASE Accept \/ Handle
    BY <2>1 DEF Accept, Handle, clients, wires, history, Unheard, Running
  <2>2. CASE Receive
    BY <2>2, TypeParts DEF IInv, Receive, clients, history, Unheard, Running, ColumnsType
  <2>3. CASE SendText
    BY <2>3 DEF SendText, clients, history, Unheard, Running
  <2> QED
    BY <1>3, <2>1, <2>2, <2>3
<1>4. ASSUME EndConnection, UNCHANGED <<clients, history>>
      PROVE  Unheard' \subseteq Unheard /\ UNCHANGED <<deaths, abandoned>>
  BY <1>4, NobodyAssumption, TypeParts
  DEF IInv, EndConnection, clients, history, Unheard, Running, ColumnsType
<1>5. ASSUME SendLength \/ SendTextLost, UNCHANGED <<serving, sent>>
      PROVE  Unheard' \subseteq Unheard /\ UNCHANGED <<deaths, abandoned>>
  BY <1>5 DEF SendLength, SendTextLost, EndConnection, clients, wires, history, Unheard, Running
<1>6. ASSUME EndOfPeer \/ SendLength \/ SendTextLost
      PROVE  Unheard' \subseteq Unheard /\ UNCHANGED <<deaths, abandoned>>
  BY <1>4, <1>5, <1>6 DEF EndOfPeer, SendLength, SendTextLost, wires
<1>7. ASSUME Crash
      PROVE  Unheard' \subseteq Unheard /\ UNCHANGED <<deaths, abandoned>>
  BY <1>7, NobodyAssumption DEF Crash, ServerEnds, clients, history, Unheard, Running
<1>8. ASSUME Restart \/ UNCHANGED vars
      PROVE  Unheard' \subseteq Unheard /\ UNCHANGED <<deaths, abandoned>>
  BY <1>8 DEF Restart, vars, server, clients, wires, history, Unheard, Running
<1>9. ASSUME NEW c \in Clients, User(c) \/ SeeReply(c) \/ LoseConnection(c)
      PROVE  DeathsAllowed'
  BY <1>1, <1>2, <1>9, AbandonIsCounted, FewerUnheard DEF User
<1> QED
  BY <1>3, <1>6, <1>7, <1>8, <1>9, BrokenPipeIsCounted, FewerUnheard DEF Next, ServerStep

(* However many clients come and go, the second send of send_message ends  *)
(* the server at most once for each user who gave up waiting for a reply.  *)
THEOREM DeathsBounded == Spec => []DeathsFromAbandonedReplies
<1>1. ASSUME Init
      PROVE  DeathsAllowed
  <2>1. Unheard = {}
    BY <1>1, NobodyAssumption DEF Init, Unheard
  <2> QED
    BY <1>1, <2>1, FS_EmptySet DEF Init, DeathsAllowed
<1>2. ASSUME IInv, DeathsAllowed
      PROVE  DeathsFromAbandonedReplies
  BY <1>2, UnheardFinite, TypeParts DEF IInv, DeathsAllowed, HistoryType, DeathsFromAbandonedReplies
<1> QED
  BY <1>1, <1>2, InitIInv, NextIInv, NextDeathsAllowed, PTL DEF Spec

-------------------------------------------------------------------------------
(* What the server moves and what users are told of it.                    *)

MoneyAwaited == {c \in Clients : awaiting[c].op \in MoneyOps}

(* Requests to move money that have moved none: unread, unhandled, or      *)
(* refused without the user knowing yet.                                   *)
Unmoved ==
  {c \in Clients :
     \/ sent[c].op \in MoneyOps
     \/ serving = c /\ at = "handle" /\ doing.op \in MoneyOps
     \/ /\ awaiting[c].op \in MoneyOps
        /\ answer[c] = "ERR" \/ (serving = c /\ at \in {"length", "text"} /\ result = "ERR")}

(* Requests that have moved money without the user knowing yet.            *)
Untold ==
  {c \in Clients :
     /\ awaiting[c].op \in MoneyOps
     /\ answer[c] = "OK" \/ (serving = c /\ at \in {"length", "text"} /\ result = "OK")}

Accounted ==
  /\ applied + Cardinality(Unmoved) <= confirmed + unsure + Cardinality(MoneyAwaited)
  /\ confirmed + Cardinality(Untold) <= applied

(* A connection holds no request while one of its client is worked on,     *)
(* even if that client has ended.                                          *)
OneAtATime == at \in {"handle", "length", "text"} => sent[serving] = None

LEMMA NextOneAtATime == IInv /\ OneAtATime /\ [Next]_vars => OneAtATime'
<1> SUFFICES ASSUME IInv, OneAtATime, [Next]_vars PROVE OneAtATime'
  OBVIOUS
<1>1. ASSUME NEW c \in Clients, Connect(c) \/ SeeReply(c) \/ LoseConnection(c) \/ Quit(c)
      PROVE  OneAtATime'
  BY <1>1 DEF Connect, SeeReply, LoseConnection, Quit, server, OneAtATime
<1>2. ASSUME NEW c \in Clients, Send(c)
      PROVE  OneAtATime'
  <2>1. ~(serving = c /\ at \in {"handle", "length", "text"})
    BY <1>2, IdleIsHeard DEF Send
  <2> QED
    BY <1>2, <2>1, TypeParts DEF IInv, Send, server, ColumnsType, OneAtATime
<1>3. ASSUME NEW c \in Clients, Abandon(c)
      PROVE  OneAtATime'
  BY <1>3, TypeParts DEF IInv, Abandon, server, PlaceType, ColumnsType, OneAtATime
<1>4. ASSUME Receive
      PROVE  OneAtATime'
  BY <1>4, TypeParts DEF IInv, Receive, PlaceType, ColumnsType, OneAtATime
<1>5. ASSUME Accept \/ EndOfPeer \/ Handle \/ SendText \/ BrokenPipe \/ Crash
      PROVE  OneAtATime'
  BY <1>5 DEF Accept, EndOfPeer, EndConnection, Handle, SendText, BrokenPipe, Crash, ServerEnds,
     wires, OneAtATime
<1>6. ASSUME SendLength \/ SendTextLost
      PROVE  OneAtATime'
  BY <1>6 DEF SendLength, SendTextLost, EndConnection, wires, OneAtATime
<1>7. CASE Restart \/ UNCHANGED vars
  BY <1>7 DEF Restart, vars, server, wires, OneAtATime
<1> QED
  BY <1>1, <1>2, <1>3, <1>4, <1>5, <1>6, <1>7 DEF Next, User, ServerStep

LEMMA NoMoneyInNone == None.op \notin MoneyOps
  BY DEF None, MoneyOps

(* Cardinalities of sets of clients that differ by one client at most.     *)
LEMMA CountFinite ==
  ASSUME NEW S \in SUBSET Clients
  PROVE  IsFiniteSet(S) /\ Cardinality(S) \in Nat
  BY ClientsFinite, FS_Subset, FS_CardinalityType

LEMMA CountSubset ==
  ASSUME NEW S \in SUBSET Clients, NEW T \in SUBSET S
  PROVE  Cardinality(T) <= Cardinality(S)
  BY CountFinite, FS_Subset

LEMMA CountWithout ==
  ASSUME NEW S \in SUBSET Clients, NEW c \in S, NEW T \in SUBSET (S \ {c})
  PROVE  Cardinality(T) + 1 <= Cardinality(S)
<1>1. IsFiniteSet(S) /\ Cardinality(S) \in Nat
  BY CountFinite
<1>2. IsFiniteSet(S \ {c}) /\ Cardinality(S \ {c}) = Cardinality(S) - 1
  BY <1>1, FS_RemoveElement
<1>3. Cardinality(T) <= Cardinality(S \ {c})
  BY <1>2, FS_Subset
<1>4. Cardinality(T) \in Nat
  BY CountFinite
<1> QED
  BY <1>1, <1>2, <1>3, <1>4

LEMMA CountWith ==
  ASSUME NEW S \in SUBSET Clients, NEW c \in Clients, NEW T \in SUBSET (S \union {c})
  PROVE  Cardinality(T) <= Cardinality(S) + 1
<1>1. IsFiniteSet(S) /\ Cardinality(S) \in Nat
  BY CountFinite
<1>2. /\ IsFiniteSet(S \union {c}) /\ Cardinality(S \union {c}) \in Nat
      /\ Cardinality(S \union {c}) = IF c \in S THEN Cardinality(S) ELSE Cardinality(S) + 1
  BY <1>1, FS_AddElement, FS_CardinalityType
<1>3. Cardinality(T) <= Cardinality(S \union {c})
  BY <1>2, FS_Subset
<1>4. Cardinality(T) \in Nat
  BY CountFinite
<1> QED
  BY <1>1, <1>2, <1>3, <1>4

LEMMA SetsOfClients ==
  /\ Unmoved \subseteq Clients /\ MoneyAwaited \subseteq Clients /\ Untold \subseteq Clients
  /\ Unmoved' \subseteq Clients /\ MoneyAwaited' \subseteq Clients /\ Untold' \subseteq Clients
  BY DEF Unmoved, MoneyAwaited, Untold

LEMMA CountsAreNumbers ==
  /\ Cardinality(Unmoved) \in Nat /\ Cardinality(MoneyAwaited) \in Nat
  /\ Cardinality(Untold) \in Nat
  /\ Cardinality(Unmoved') \in Nat /\ Cardinality(MoneyAwaited') \in Nat
  /\ Cardinality(Untold') \in Nat
  BY SetsOfClients, CountFinite

(* A step that moves nothing, tells nobody and forgets nothing.            *)
Quiet ==
  /\ Unmoved' \subseteq Unmoved /\ Untold' \subseteq Untold
  /\ MoneyAwaited' = MoneyAwaited
  /\ UNCHANGED <<applied, confirmed, unsure>>

LEMMA QuietKeeps ==
  ASSUME IInv, Accounted, Quiet
  PROVE  Accounted'
<1>1. Cardinality(Unmoved') <= Cardinality(Unmoved) /\ Cardinality(Untold') <= Cardinality(Untold)
  BY SetsOfClients, CountSubset DEF Quiet
<1> QED
  BY <1>1, CountsAreNumbers, TypeParts DEF IInv, Accounted, HistoryType, Quiet

-------------------------------------------------------------------------------
(* A request to move money is sent: one more awaited, one more unmoved.    *)
LEMMA SendCounts ==
  ASSUME IInv, Accounted, NEW c \in Clients, Send(c)
  PROVE  Accounted'
<1>1. PICK r \in Requests :
        awaiting' = [awaiting EXCEPT ![c] = r] /\ sent' = [sent EXCEPT ![c] = r]
  BY DEF Send
<1>2. UNCHANGED <<serving, at, doing, result, answer, applied, confirmed, unsure>>
  BY DEF Send, server
<1>3. sent[c] = None /\ awaiting[c] = None /\ answer[c] = Silence
      /\ ~(serving = c /\ at \in {"handle", "length", "text"})
  BY IdleIsHeard, TypeParts DEF IInv, Send, OwedType, Waiting
<1>4. /\ awaiting'[c] = r /\ sent'[c] = r
      /\ \A d \in Clients \ {c} : awaiting'[d] = awaiting[d] /\ sent'[d] = sent[d]
  BY <1>1, TypeParts DEF IInv, ColumnsType
<1>5. Untold' \subseteq Untold
  BY <1>2, <1>3, <1>4 DEF Untold, Silence
<1>6. Unmoved' \subseteq Unmoved \union {c}
  BY <1>2, <1>4 DEF Unmoved
<1>7. CASE r.op \in MoneyOps
  <2>1. c \in MoneyAwaited' /\ MoneyAwaited \subseteq MoneyAwaited' \ {c}
    BY <1>3, <1>4, <1>7, NoMoneyInNone DEF MoneyAwaited
  <2>2. Cardinality(MoneyAwaited) + 1 <= Cardinality(MoneyAwaited')
    BY <2>1, SetsOfClients, CountWithout
  <2>3. Cardinality(Unmoved') <= Cardinality(Unmoved) + 1
    BY <1>6, SetsOfClients, CountWith
  <2>4. Cardinality(Untold') <= Cardinality(Untold)
    BY <1>5, SetsOfClients, CountSubset
  <2> QED
    BY <1>2, <2>2, <2>3, <2>4, CountsAreNumbers, TypeParts DEF IInv, Accounted, HistoryType
<1>8. CASE r.op \notin MoneyOps
  <2>1. Unmoved' \subseteq Unmoved
    BY <1>2, <1>3, <1>4, <1>8 DEF Unmoved, Silence
  <2>2. MoneyAwaited' = MoneyAwaited
    BY <1>3, <1>4, <1>8, NoMoneyInNone DEF MoneyAwaited
  <2> QED
    BY <1>2, <1>5, <2>1, <2>2, QuietKeeps DEF Quiet
<1> QED
  BY <1>7, <1>8

(* A reply is read: what it tells is told, a refusal is over.              *)
LEMMA SeeReplyCounts ==
  ASSUME IInv, Accounted, NEW c \in Clients, SeeReply(c)
  PROVE  Accounted'
<1>1. UNCHANGED <<serving, at, doing, result, sent, applied, unsure>>
  BY DEF SeeReply, server
<1>2. /\ awaiting'[c] = None /\ answer'[c] = Silence
      /\ \A d \in Clients \ {c} : awaiting'[d] = awaiting[d] /\ answer'[d] = answer[d]
  BY TypeParts DEF IInv, SeeReply, ColumnsType
<1>3. answer[c] \in {"OK", "ERR"}
  BY TypeParts DEF IInv, SeeReply, ColumnsType
<1>4. /\ Unmoved' \subseteq Unmoved /\ Untold' \subseteq Untold \ {c}
      /\ MoneyAwaited' = MoneyAwaited \ {c}
  BY <1>1, <1>2, NoMoneyInNone DEF Unmoved, Untold, MoneyAwaited
<1>5. CASE awaiting[c].op \notin MoneyOps
  <2>1. MoneyAwaited' = MoneyAwaited /\ confirmed' = confirmed
    BY <1>4, <1>5 DEF SeeReply, MoneyAwaited
  <2> QED
    BY <1>1, <1>4, <2>1, QuietKeeps DEF Quiet
<1>6. CASE awaiting[c].op \in MoneyOps /\ answer[c] = "OK"
  <2>1. c \in Untold /\ confirmed' = confirmed + 1
    BY <1>6 DEF Untold, SeeReply
  <2>2. Cardinality(Untold') + 1 <= Cardinality(Untold)
    BY <1>4, <2>1, SetsOfClients, CountWithout
  <2>3. Cardinality(MoneyAwaited) <= Cardinality(MoneyAwaited') + 1
    BY <1>4, SetsOfClients, CountWith
  <2>4. Cardinality(Unmoved') <= Cardinality(Unmoved)
    BY <1>4, SetsOfClients, CountSubset
  <2> QED
    BY <1>1, <2>1, <2>2, <2>3, <2>4, CountsAreNumbers, TypeParts DEF IInv, Accounted, HistoryType
<1>7. CASE awaiting[c].op \in MoneyOps /\ answer[c] = "ERR"
  <2>1. c \in Unmoved /\ confirmed' = confirmed
    BY <1>7 DEF Unmoved, SeeReply
  <2>2. sent[c] = None /\ ~(serving = c /\ at = "handle")
    <3>1. Running(c)
      BY TypeParts DEF IInv, SeeReply, OwedType
    <3>2. CASE serving = c
      BY <1>7, <3>1, <3>2 DEF IInv, ServedInStep, Unhandled, Received, Handled, Answered, Silence
    <3>3. CASE serving # c
      BY <1>7, <3>1, <3>3, TypeParts DEF IInv, OwedType, Connected, QueuedInMainMenu, Silence
    <3> QED
      BY <3>2, <3>3
  <2>3. Unmoved' \subseteq Unmoved \ {c}
    BY <1>1, <1>2, <1>4, <2>2, NoMoneyInNone DEF Unmoved
  <2>4. Cardinality(Unmoved') + 1 <= Cardinality(Unmoved)
    BY <2>1, <2>3, SetsOfClients, CountWithout
  <2>5. Cardinality(MoneyAwaited) <= Cardinality(MoneyAwaited') + 1
    BY <1>4, SetsOfClients, CountWith
  <2>6. Cardinality(Untold') <= Cardinality(Untold)
    BY <1>4, SetsOfClients, CountSubset
  <2> QED
    BY <1>1, <2>1, <2>4, <2>5, <2>6, CountsAreNumbers, TypeParts DEF IInv, Accounted, HistoryType
<1> QED
  BY <1>3, <1>5, <1>6, <1>7

(* A client that ends without the reply to such a request is unsure.       *)
LEMMA GoneCounts ==
  ASSUME IInv, Accounted, NEW c \in Clients, Gone(c),
         UNCHANGED <<server, applied, confirmed>>,
         sent' \in {sent, [sent EXCEPT ![c] = None]}
  PROVE  Accounted'
<1>1. /\ awaiting'[c] = None /\ answer'[c] = Silence
      /\ sent'[c] \in {sent[c], None}
      /\ \A d \in Clients \ {c} :
           awaiting'[d] = awaiting[d] /\ answer'[d] = answer[d] /\ sent'[d] = sent[d]
  BY TypeParts DEF IInv, Gone, ColumnsType
<1>2. /\ Unmoved' \subseteq Unmoved /\ Untold' \subseteq Untold
      /\ MoneyAwaited' = MoneyAwaited \ {c}
  BY <1>1, NoMoneyInNone DEF server, Unmoved, Untold, MoneyAwaited
<1>3. CASE awaiting[c].op \notin MoneyOps
  <2>1. MoneyAwaited' = MoneyAwaited /\ unsure' = unsure
    BY <1>2, <1>3 DEF Gone, MoneyAwaited
  <2> QED
    BY <1>2, <2>1, QuietKeeps DEF Quiet
<1>4. CASE awaiting[c].op \in MoneyOps
  <2>1. unsure' = unsure + 1
    BY <1>4 DEF Gone
  <2>2. Cardinality(MoneyAwaited) <= Cardinality(MoneyAwaited') + 1
    BY <1>2, SetsOfClients, CountWith
  <2>3. Cardinality(Unmoved') <= Cardinality(Unmoved) /\ Cardinality(Untold') <= Cardinality(Untold)
    BY <1>2, SetsOfClients, CountSubset
  <2> QED
    BY <2>1, <2>2, <2>3, CountsAreNumbers, TypeParts DEF IInv, Accounted, HistoryType
<1> QED
  BY <1>3, <1>4

(* A request is handled: the one it was no longer counts as unmoved.       *)
LEMMA HandleCounts ==
  ASSUME IInv, OneAtATime, Accounted, Handle
  PROVE  Accounted'
<1>1. UNCHANGED <<serving, doing, sent, answer, awaiting, confirmed, unsure>>
      /\ at = "handle" /\ at' = "length" /\ serving \in Clients
  BY TypeParts DEF IInv, Handle, clients, wires, PlaceType
<1>2. MoneyAwaited' = MoneyAwaited
  BY <1>1 DEF MoneyAwaited
<1>3. awaiting[serving].op \in MoneyOps =>
        doing = awaiting[serving] /\ sent[serving] = None /\ answer[serving] = Silence
  <2>1. awaiting[serving].op \in MoneyOps => Running(serving)
    BY <1>1, NoMoneyInNone DEF IInv, EndedClean
  <2> QED
    BY <1>1, <2>1 DEF IInv, ServedInStep, Unhandled, Received, Handled, Answered
<1>4. CASE result' = "OK" /\ doing.op \in MoneyOps
  <2>1. applied' = applied + 1
    BY <1>4 DEF Handle
  <2>2. serving \in Unmoved
    BY <1>1, <1>4 DEF Unmoved
  <2>3. sent[serving] = None
    BY <1>1 DEF OneAtATime
  <2>4. Unmoved' \subseteq Unmoved \ {serving}
    BY <1>1, <1>3, <1>4, <2>3, NoMoneyInNone DEF Unmoved, Silence
  <2>5. Untold' \subseteq Untold \union {serving}
    BY <1>1 DEF Untold
  <2>6. Cardinality(Unmoved') + 1 <= Cardinality(Unmoved)
    BY <2>2, <2>4, SetsOfClients, CountWithout
  <2>7. Cardinality(Untold') <= Cardinality(Untold) + 1
    BY <1>1, <2>5, SetsOfClients, CountWith
  <2> QED
    BY <1>1, <1>2, <2>1, <2>6, <2>7, CountsAreNumbers, TypeParts DEF IInv, Accounted, HistoryType
<1>5. CASE result' = "ERR" \/ doing.op \notin MoneyOps
  <2>1. Unmoved' \subseteq Unmoved /\ Untold' \subseteq Untold
    BY <1>1, <1>3, <1>5 DEF Unmoved, Untold
  <2>2. applied' = applied
    BY <1>5 DEF Handle
  <2> QED
    BY <1>1, <1>2, <2>1, <2>2, QuietKeeps DEF Quiet
<1> QED
  BY <1>4, <1>5 DEF Handle

-------------------------------------------------------------------------------
LEMMA ConnectQuiet ==
  ASSUME IInv, NEW c \in Clients, Connect(c)
  PROVE  Quiet
<1>1. UNCHANGED <<serving, at, doing, result, sent, awaiting, applied, confirmed, unsure>>
  BY DEF Connect, history
<1>2. \A d \in Clients : answer'[d] \in {answer[d], Silence}
  BY TypeParts DEF IInv, Connect, ColumnsType
<1> QED
  BY <1>1, <1>2 DEF Quiet, Unmoved, Untold, MoneyAwaited, Silence

LEMMA EndConnectionQuiet ==
  ASSUME IInv, EndConnection, UNCHANGED <<clients, answer, history>>
  PROVE  Quiet
<1>1. \A d \in Clients : sent'[d] \in {sent[d], None}
  BY TypeParts DEF IInv, EndConnection, ColumnsType
<1> QED
  BY <1>1, NobodyAssumption, NoMoneyInNone
  DEF EndConnection, clients, history, Quiet, Unmoved, Untold, MoneyAwaited

LEMMA ServerEndsQuiet ==
  ASSUME ServerEnds, UNCHANGED <<applied, confirmed, unsure>>
  PROVE  Quiet
  BY NobodyAssumption, NoMoneyInNone
  DEF ServerEnds, clients, Quiet, Unmoved, Untold, MoneyAwaited

LEMMA QuietServerSteps ==
  ASSUME IInv, ServerStep, ~Handle
  PROVE  Quiet
<1>1. CASE Accept
  <2>1. at = "accept" /\ serving = NoClient
    BY <1>1, TypeParts DEF IInv, Accept, PlaceType
  <2> QED
    BY <1>1, <2>1 DEF Accept, clients, wires, history, Quiet, Unmoved, Untold, MoneyAwaited
<1>2. CASE Receive
  <2>1. /\ serving \in Clients /\ sent'[serving] = None
        /\ \A d \in Clients \ {serving} : sent'[d] = sent[d]
    BY <1>2, TypeParts DEF IInv, Receive, PlaceType, ColumnsType
  <2> QED
    BY <1>2, <2>1, NoMoneyInNone
    DEF Receive, clients, history, Quiet, Unmoved, Untold, MoneyAwaited
<1>3. CASE SendText
  <2>1. /\ serving \in Clients /\ answer'[serving] = result
        /\ \A d \in Clients \ {serving} : answer'[d] = answer[d]
    BY <1>3, TypeParts DEF IInv, SendText, PlaceType, ColumnsType
  <2> QED
    BY <1>3, <2>1 DEF SendText, clients, history, Quiet, Unmoved, Untold, MoneyAwaited
<1>4. CASE EndConnection /\ UNCHANGED <<clients, answer, history>>
  BY <1>4, EndConnectionQuiet
<1>5. CASE (SendLength \/ SendTextLost) /\ UNCHANGED <<serving, sent, answer>>
  BY <1>5 DEF SendLength, SendTextLost, EndConnection, clients, wires, history, Quiet, Unmoved,
     Untold, MoneyAwaited, Silence
<1>6. CASE BrokenPipe
  BY <1>6, ServerEndsQuiet DEF BrokenPipe
<1> QED
  BY <1>1, <1>2, <1>3, <1>4, <1>5, <1>6
  DEF ServerStep, EndOfPeer, SendLength, SendTextLost, wires

LEMMA NextAccounted == IInv /\ OneAtATime /\ Accounted /\ [Next]_vars => Accounted'
<1> SUFFICES ASSUME IInv, OneAtATime, Accounted, [Next]_vars PROVE Accounted'
  OBVIOUS
<1>1. ASSUME NEW c \in Clients, LoseConnection(c) \/ Quit(c) \/ Abandon(c)
      PROVE  Accounted'
  BY <1>1, GoneCounts DEF LoseConnection, Quit, Abandon
<1>2. ASSUME NEW c \in Clients, User(c) \/ SeeReply(c) \/ LoseConnection(c)
      PROVE  Accounted'
  BY <1>1, <1>2, ConnectQuiet, QuietKeeps, SendCounts, SeeReplyCounts DEF User
<1>3. CASE ServerStep
  BY <1>3, HandleCounts, QuietServerSteps, QuietKeeps
<1>4. CASE Crash
  BY <1>4, ServerEndsQuiet, QuietKeeps DEF Crash, history
<1>5. CASE Restart \/ UNCHANGED vars
  BY <1>5, QuietKeeps
  DEF Restart, vars, server, clients, wires, history, Quiet, Unmoved, Untold, MoneyAwaited
<1> QED
  BY <1>2, <1>3, <1>4, <1>5 DEF Next

(* request_server never repeats a request: whatever replies and clients    *)
(* are lost and however often the server ends, money moves at most once    *)
(* for each request to move it, and a user who is told of it can rely on   *)
(* it.                                                                     *)
THEOREM MoneyMovesOnce == Spec => []MovedOncePerRequest
<1>1. ASSUME Init
      PROVE  OneAtATime /\ Accounted
  <2>1. Unmoved = {} /\ Untold = {} /\ MoneyAwaited = {}
    BY <1>1, NobodyAssumption, NoMoneyInNone DEF Init, Unmoved, Untold, MoneyAwaited
  <2> QED
    BY <1>1, <2>1, FS_EmptySet DEF Init, Accounted, OneAtATime
<1>2. ASSUME IInv, Accounted
      PROVE  MovedOncePerRequest
  BY <1>2, CountsAreNumbers, TypeParts
  DEF IInv, Accounted, HistoryType, MovedOncePerRequest, MoneyAwaited
<1> QED
  BY <1>1, <1>2, InitIInv, NextIInv, NextOneAtATime, NextAccounted, PTL DEF Spec
===============================================================================
