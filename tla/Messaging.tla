----------------------------- MODULE Messaging -----------------------------
(***************************************************************************)
(* Friend requests and text messages between users of a cluster of chat    *)
(* servers: AddFriendApply, AuthFriendApply and DealChatTextMsg of         *)
(* LogicSystem, the MySQL statements they run, the peer RPCs that carry a  *)
(* notice to another server, and the chat windows of the clients.          *)
(*                                                                         *)
(* A request is one such message, handled by a LogicSystem worker of the   *)
(* sender's server.  Each SQL statement, Redis command and RPC half, and   *)
(* taking and giving back an RPC stub, is a step of its own.  How a user   *)
(* comes and goes is ChatLogin's subject; here it is reduced to the steps  *)
(* whose order decides what the user gets to know.                         *)
(***************************************************************************)
EXTENDS Contacts, Sequences

CONSTANTS
  Server,      \* chat servers
  Request,     \* requests, each sent once
  Kind,        \* Kind[r]: "apply", "auth" or "text"
  ApplyLimit,  \* rows of friend_apply in a login answer (10)
  PoolSize,    \* RPC stubs of a server for each peer (5)
  MaxLogins,   \* MaxLogins[u]: bound on the logins of u
  FaultKinds,  \* the faults the environment may inject
  MaxFaults,   \* bound on their number
  OldApplies,  \* the rows of friend_apply to begin with
  Nil          \* no server, no user

Row == [from : User, to : User, status : {0, 1}]

ASSUME MessagingAssumption ==
  /\ Nil \notin Server \cup User
  /\ Kind \in [Request -> {"apply", "auth", "text"}]
  /\ ApplyLimit \in Nat \ {0} /\ PoolSize \in Nat \ {0}
  /\ MaxLogins \in [User -> Nat] /\ MaxFaults \in Nat
  /\ FaultKinds \subseteq {"sql", "redis", "rpc"}
  /\ OldApplies \in Seq(Row)

VARIABLES
  friend_apply,  \* MySQL table, its rows in the order of their ids
  friend,        \* MySQL table, pairs <<self_id, friend_id>>
  uip,           \* Redis keys uip_<uid>
  userMgr,       \* userMgr[u]: the server whose UserMgr knows u's session
  phase,         \* what comes next for u's session
  srv,           \* srv[u]: the server of u's session
  epoch,         \* epoch[u]: the number of u's logins so far
  lists,         \* lists[u]: what u's login has read from MySQL
  inbox,         \* inbox[u]: messages on the way to u's client
  contacts,      \* contacts[u]: the chat window of u's client
  pc,            \* next step of every request
  from, to,      \* the users of a request
  home, conn,    \* the sender's server and login when it was sent
  route,         \* route[r]: the receiver's server, as read from uip
  txn,           \* txn[r]: rows of friend inserted and not yet committed
  seen,          \* seen[r]: the login with an open window r found at Route
  stubs,         \* stubs[s][t]: idle stubs in the pool of s for t
  faults         \* faults so far

dbVars   == <<friend_apply, friend>>
userVars == <<uip, userMgr, phase, srv, epoch, lists>>
sentVars == <<from, to, home, conn>>
vars == <<friend_apply, friend, uip, userMgr, phase, srv, epoch, lists, inbox,
          contacts, pc, from, to, home, conn, route, txn, seen, stubs, faults>>

(* Between login and cleanup: the steps of LoginHandler, the session at    *)
(* work, and those of DealExceptionSession after the connection is lost.   *)
Phase == {"out", "friends", "setip", "setuser", "reply", "in", "lost", "clean"}

(* "second" and "commit" are inside the transaction of AddFriend.          *)
ReqPC == {"idle", "insert", "update", "first", "second", "commit", "route",
          "local", "take", "call", "return", "reply", "done"}

NoLists == [applies |-> {}, friends |-> {}]
Lists == [applies : SUBSET Row, friends : SUBSET User]

Message ==
  [kind : {"login"}, lists : Lists]
    \cup [kind : {"apply", "auth", "text", "rsp"}, from : User]

(***************************************************************************)
(* Type invariant.                                                         *)
(***************************************************************************)
TypeOK ==
  /\ friend_apply \in Seq(Row)
  /\ friend \in SUBSET (User \X User)
  /\ uip \in [User -> Server \cup {Nil}]
  /\ userMgr \in [User -> Server \cup {Nil}]
  /\ phase \in [User -> Phase]
  /\ srv \in [User -> Server \cup {Nil}]
  /\ epoch \in [User -> Nat]
  /\ lists \in [User -> Lists]
  /\ inbox \in [User -> Seq(Message)]
  /\ contacts \in [User -> ContactsType]
  /\ pc \in [Request -> ReqPC]
  /\ from \in [Request -> User \cup {Nil}]
  /\ to \in [Request -> User \cup {Nil}]
  /\ home \in [Request -> Server \cup {Nil}]
  /\ conn \in [Request -> Nat]
  /\ route \in [Request -> Server \cup {Nil}]
  /\ txn \in [Request -> SUBSET (User \X User)]
  /\ seen \in [Request -> Nat]
  /\ stubs \in [Server -> [Server -> 0..PoolSize]]
  /\ faults \in Nat

(* The applications to begin with that have been accepted.                 *)
OldAccepted == {row \in {OldApplies[i] : i \in DOMAIN OldApplies} : row.status = 1}

Init ==
  /\ friend_apply = OldApplies
  /\ friend = UNION {{<<row.from, row.to>>, <<row.to, row.from>>} : row \in OldAccepted}
  /\ uip = [u \in User |-> Nil]
  /\ userMgr = [u \in User |-> Nil]
  /\ phase = [u \in User |-> "out"]
  /\ srv = [u \in User |-> Nil]
  /\ epoch = [u \in User |-> 0]
  /\ lists = [u \in User |-> NoLists]
  /\ inbox = [u \in User |-> <<>>]
  /\ contacts = [u \in User |-> NoContacts]
  /\ pc = [r \in Request |-> "idle"]
  /\ from = [r \in Request |-> Nil]
  /\ to = [r \in Request |-> Nil]
  /\ home = [r \in Request |-> Nil]
  /\ conn = [r \in Request |-> 0]
  /\ route = [r \in Request |-> Nil]
  /\ txn = [r \in Request |-> {}]
  /\ seen = [r \in Request |-> 0]
  /\ stubs = [s \in Server |-> [t \in Server |-> PoolSize]]
  /\ faults = 0

(***************************************************************************)
(* Shared helpers.                                                         *)
(***************************************************************************)
Goto(r, before, after) ==
  /\ pc[r] = before
  /\ pc' = [pc EXCEPT ![r] = after]

SetPhase(u, before, after) ==
  /\ phase[u] = before
  /\ phase' = [phase EXCEPT ![u] = after]

Fault(kind) ==
  /\ kind \in FaultKinds
  /\ faults < MaxFaults
  /\ faults' = faults + 1

(* Send on the session of u, which drops m once its connection is gone.    *)
Send(u, m) ==
  IF phase[u] \in {"reply", "in"}
    THEN inbox' = [inbox EXCEPT ![u] = Append(@, m)]
    ELSE UNCHANGED inbox

(* GetSession of the receiver on server s; if it is known there, Send.     *)
Notify(s, r) ==
  IF userMgr[to[r]] = s
    THEN Send(to[r], [kind |-> Kind[r], from |-> from[r]])
    ELSE UNCHANGED inbox

(***************************************************************************)
(* A user comes and goes: the parts of LoginHandler and                    *)
(* DealExceptionSession that a request of somebody else can meet.          *)
(***************************************************************************)
(* GetApplyList: the first rows by id, whatever their status.              *)
ReadApplies(u, s) ==
  LET mine  == {i \in DOMAIN friend_apply : friend_apply[i].to = u}
      first == {i \in mine : Cardinality({j \in mine : j <= i}) <= ApplyLimit}
  IN  /\ epoch[u] < MaxLogins[u]
      /\ SetPhase(u, "out", "friends")
      /\ epoch' = [epoch EXCEPT ![u] = @ + 1]
      /\ srv' = [srv EXCEPT ![u] = s]
      /\ lists' = [lists EXCEPT ![u] = [applies |-> {friend_apply[i] : i \in first},
                                         friends |-> {}]]
      /\ UNCHANGED <<dbVars, uip, userMgr, inbox, contacts, pc, sentVars, route, txn,
                     seen, stubs, faults>>

(* GetFriendList, by a second query.                                       *)
ReadFriends(u) ==
  /\ SetPhase(u, "friends", "setip")
  /\ lists' = [lists EXCEPT ![u].friends = {v \in User : <<u, v>> \in friend}]
  /\ UNCHANGED <<dbVars, uip, userMgr, srv, epoch, inbox, contacts, pc, sentVars, route,
                 txn, seen, stubs, faults>>

SetIp(u) ==
  /\ SetPhase(u, "setip", "setuser")
  /\ uip' = [uip EXCEPT ![u] = srv[u]]
  /\ UNCHANGED <<dbVars, userMgr, srv, epoch, lists, inbox, contacts, pc, sentVars, route,
                 txn, seen, stubs, faults>>

SetUserSession(u) ==
  /\ SetPhase(u, "setuser", "reply")
  /\ userMgr' = [userMgr EXCEPT ![u] = srv[u]]
  /\ UNCHANGED <<dbVars, uip, srv, epoch, lists, inbox, contacts, pc, sentVars, route,
                 txn, seen, stubs, faults>>

(* The outer Defer of LoginHandler, after everything else; what was read   *)
(* lives no longer than the handler.                                       *)
LoginReply(u) ==
  /\ SetPhase(u, "reply", "in")
  /\ Send(u, [kind |-> "login", lists |-> lists[u]])
  /\ lists' = [lists EXCEPT ![u] = NoLists]
  /\ UNCHANGED <<dbVars, uip, userMgr, srv, epoch, contacts, pc, sentVars, route,
                 txn, seen, stubs, faults>>

(* The connection ends.  The client forgets everything (offlineLogin), and *)
(* what was on the way is lost.                                            *)
Disconnect(u) ==
  /\ SetPhase(u, "in", "lost")
  /\ inbox' = [inbox EXCEPT ![u] = <<>>]
  /\ contacts' = [contacts EXCEPT ![u] = NoContacts]
  /\ UNCHANGED <<dbVars, uip, userMgr, srv, epoch, lists, pc, sentVars, route,
                 txn, seen, stubs, faults>>

DelIp(u) ==
  /\ SetPhase(u, "lost", "clean")
  /\ uip' = [uip EXCEPT ![u] = Nil]
  /\ UNCHANGED <<dbVars, userMgr, srv, epoch, lists, inbox, contacts, pc, sentVars, route,
                 txn, seen, stubs, faults>>

CleanSession(u) ==
  /\ SetPhase(u, "clean", "out")
  /\ userMgr' = [userMgr EXCEPT ![u] = Nil]
  /\ srv' = [srv EXCEPT ![u] = Nil]
  /\ UNCHANGED <<dbVars, uip, epoch, lists, inbox, contacts, pc, sentVars, route,
                 txn, seen, stubs, faults>>

(***************************************************************************)
(* The client.                                                             *)
(***************************************************************************)
(* The client handles the next message m, and its window becomes c.        *)
Handle(u, c) ==
  /\ inbox' = [inbox EXCEPT ![u] = Tail(@)]
  /\ contacts' = [contacts EXCEPT ![u] = c]
  /\ UNCHANGED <<dbVars, userVars, pc, sentVars, route, txn, seen, stubs, faults>>

(* ID_CHAT_LOGIN_RSP: the lists are stored and the chat window opens.      *)
OpenWindow(u) ==
  /\ inbox[u] # <<>>
  /\ Head(inbox[u]).kind = "login"
  /\ LET c == Opened(Head(inbox[u]).lists.applies, Head(inbox[u]).lists.friends)
     IN  \E P \in NextPages(c) : Handle(u, LoadPage(c, P))

(* The signals of a message that comes before the window have no receiver. *)
Unheard(u) ==
  /\ inbox[u] # <<>>
  /\ Head(inbox[u]).kind # "login"
  /\ ~contacts[u].open
  /\ Handle(u, contacts[u])

HearApply(u) ==
  /\ contacts[u].open
  /\ inbox[u] # <<>>
  /\ Head(inbox[u]).kind = "apply"
  /\ Handle(u, WithApply(contacts[u], Head(inbox[u]).from))

(* ID_NOTIFY_AUTH_FRIEND_REQ and ID_AUTH_FRIEND_RSP.                       *)
HearFriend(u) ==
  /\ contacts[u].open
  /\ inbox[u] # <<>>
  /\ Head(inbox[u]).kind \in {"auth", "rsp"}
  /\ Handle(u, WithFriend(contacts[u], Head(inbox[u]).from))

HearText(u) ==
  /\ contacts[u].open
  /\ inbox[u] # <<>>
  /\ Head(inbox[u]).kind = "text"
  /\ ~TextCrashes(contacts[u], Head(inbox[u]).from)
  /\ Handle(u, WithText(contacts[u], Head(inbox[u]).from))

(* The client dereferences a null pointer: the process and its connection  *)
(* end.                                                                    *)
CrashOnText(u) ==
  /\ contacts[u].open
  /\ inbox[u] # <<>>
  /\ Head(inbox[u]).kind = "text"
  /\ TextCrashes(contacts[u], Head(inbox[u]).from)
  /\ Disconnect(u)

(* The user clicks an item that has no page.                               *)
CrashOnClick(u) ==
  /\ contacts[u].items \ contacts[u].pages # {}
  /\ Disconnect(u)

(* The user scrolls to the end of the chat list.                           *)
LoadMore(u) ==
  /\ contacts[u].loaded # contacts[u].list
  /\ \E P \in NextPages(contacts[u]) :
       contacts' = [contacts EXCEPT ![u] = LoadPage(@, P)]
  /\ UNCHANGED <<dbVars, userVars, inbox, pc, sentVars, route, txn, seen, stubs, faults>>

OpenChat(u, v) ==
  /\ v \in contacts[u].friends \ contacts[u].items
  /\ contacts' = [contacts EXCEPT ![u] = WithChat(@, v)]
  /\ UNCHANGED <<dbVars, userVars, inbox, pc, sentVars, route, txn, seen, stubs, faults>>

(* Variant: a text may be sent to anybody.                                 *)
MaySendAnyText(r, u, v) == TRUE

(* What the windows let u send to v: an application to a user who was not  *)
(* a friend when the search found him; an answer to an application that    *)
(* had an add button; a text from a chat page.                             *)
MaySend(r, u, v) ==
  CASE Kind[r] = "apply" -> v \notin contacts[u].list
    [] Kind[r] = "auth"  -> v \in contacts[u].asked
    [] Kind[r] = "text"  -> v \in contacts[u].pages

(* The client of u sends request r, and a worker starts to handle it.      *)
SendRequest(r, u, v) ==
  /\ contacts[u].open
  /\ u # v
  /\ MaySend(r, u, v)
  /\ Goto(r, "idle", CASE Kind[r] = "apply" -> "insert"
                       [] Kind[r] = "auth"  -> "update"
                       [] Kind[r] = "text"  -> "route")
  /\ from' = [from EXCEPT ![r] = u]
  /\ to' = [to EXCEPT ![r] = v]
  /\ home' = [home EXCEPT ![r] = srv[u]]
  /\ conn' = [conn EXCEPT ![r] = epoch[u]]
  /\ UNCHANGED <<dbVars, userVars, inbox, contacts, route, txn, seen, stubs, faults>>

(***************************************************************************)
(* MySQL.                                                                  *)
(***************************************************************************)
IsRow(i, a, b) == friend_apply[i].from = a /\ friend_apply[i].to = b

(* Variant: an application that is made again starts anew.                 *)
InsertApplyAnew(r) ==
  /\ Goto(r, "insert", "route")
  /\ IF \E i \in DOMAIN friend_apply : IsRow(i, from[r], to[r])
       THEN friend_apply' = [i \in DOMAIN friend_apply |->
              IF IsRow(i, from[r], to[r]) THEN [friend_apply[i] EXCEPT !.status = 0]
              ELSE friend_apply[i]]
       ELSE friend_apply' =
              Append(friend_apply, [from |-> from[r], to |-> to[r], status |-> 0])
  /\ UNCHANGED <<friend, userVars, inbox, contacts, sentVars, route, txn, seen, stubs,
                 faults>>

(* AddFriendApply: INSERT ... ON DUPLICATE KEY UPDATE keeps an old row.    *)
InsertApply(r) ==
  /\ Goto(r, "insert", "route")
  /\ IF \E i \in DOMAIN friend_apply : IsRow(i, from[r], to[r])
       THEN UNCHANGED friend_apply
       ELSE friend_apply' =
              Append(friend_apply, [from |-> from[r], to |-> to[r], status |-> 0])
  /\ UNCHANGED <<friend, userVars, inbox, contacts, sentVars, route, txn, seen, stubs,
                 faults>>

(* Variant: AddFriend is forgotten.                                        *)
UpdateApplyOnly(r) ==
  /\ Goto(r, "update", "route")
  /\ friend_apply' = [i \in DOMAIN friend_apply |->
       IF IsRow(i, to[r], from[r])
         THEN [friend_apply[i] EXCEPT !.status = 1]
         ELSE friend_apply[i]]
  /\ UNCHANGED <<friend, userVars, inbox, contacts, sentVars, route, txn, seen, stubs,
                 faults>>

(* AuthFriendApply: UPDATE the application in the other direction.         *)
UpdateApply(r) ==
  /\ Goto(r, "update", "first")
  /\ friend_apply' = [i \in DOMAIN friend_apply |->
       IF IsRow(i, to[r], from[r])
         THEN [friend_apply[i] EXCEPT !.status = 1]
         ELSE friend_apply[i]]
  /\ UNCHANGED <<friend, userVars, inbox, contacts, sentVars, route, txn, seen, stubs,
                 faults>>

(* A row inserted by a transaction is locked until its end.                *)
Blocked(r, row) == \E q \in Request \ {r} : row \in txn[q]

(* AddFriend, its two INSERT IGNORE: a row that is there is left alone.    *)
InsertFriend(r, before, after, row) ==
  /\ Goto(r, before, after)
  /\ ~Blocked(r, row)
  /\ txn' = [txn EXCEPT ![r] = IF row \in friend THEN @ ELSE @ \cup {row}]
  /\ UNCHANGED <<dbVars, userVars, inbox, contacts, sentVars, route, seen, stubs, faults>>

InsertFirst(r)  == InsertFriend(r, "first", "second", <<from[r], to[r]>>)
InsertSecond(r) == InsertFriend(r, "second", "commit", <<to[r], from[r]>>)

Commit(r) ==
  /\ Goto(r, "commit", "route")
  /\ friend' = friend \cup txn[r]
  /\ txn' = [txn EXCEPT ![r] = {}]
  /\ UNCHANGED <<friend_apply, userVars, inbox, contacts, sentVars, route, seen, stubs,
                 faults>>

(* Variant: without BEGIN every statement commits.                         *)
KeepInserted(r) ==
  /\ friend' = friend \cup txn[r]
  /\ txn' = [txn EXCEPT ![r] = {}]
  /\ UNCHANGED <<friend_apply, userVars, inbox, contacts, sentVars, route, seen, stubs>>

(* The transaction ends without effect; AuthFriendApply does not look at   *)
(* the result and goes on to tell the receiver.                            *)
Rollback(r) ==
  /\ txn' = [txn EXCEPT ![r] = {}]
  /\ UNCHANGED <<dbVars, userVars, inbox, contacts, sentVars, route, seen, stubs>>

(* Two users accept each other at the same time: their transactions insert *)
(* the same rows in opposite orders, and InnoDB ends one of them.          *)
DeadlockVictim(r) ==
  /\ Goto(r, "second", "route")
  /\ \E q \in Request \ {r} :
       /\ pc[q] = "second"
       /\ <<to[r], from[r]>> \in txn[q]
       /\ <<to[q], from[q]>> \in txn[r]
  /\ Rollback(r)
  /\ UNCHANGED faults

(* A statement of the transaction fails, or there is no connection for it. *)
SqlFails(r) ==
  /\ \E step \in {"first", "second", "commit"} : Goto(r, step, "route")
  /\ Fault("sql")
  /\ Rollback(r)

(* The single statement of AddFriendApply or AuthFriendApply fails.        *)
ApplySqlFails(r) ==
  /\ Goto(r, "insert", "route") \/ Goto(r, "update", "first")
  /\ Fault("sql")
  /\ UNCHANGED <<dbVars, userVars, inbox, contacts, sentVars, route, txn, seen, stubs>>

(***************************************************************************)
(* Routing and delivery.                                                   *)
(***************************************************************************)
(* Variant: everybody is looked for on the sender's server.                *)
RouteHome(r) ==
  /\ Goto(r, "route", IF uip[to[r]] = Nil THEN "reply" ELSE "local")
  /\ route' = [route EXCEPT ![r] = uip[to[r]]]
  /\ seen' = [seen EXCEPT ![r] = IF contacts[to[r]].open THEN epoch[to[r]] ELSE 0]
  /\ UNCHANGED <<dbVars, userVars, inbox, contacts, sentVars, txn, stubs, faults>>

(* Read uip of the receiver: not there, on this server, or on another one. *)
Route(r) ==
  /\ Goto(r, "route", IF uip[to[r]] = Nil THEN "reply"
                      ELSE IF uip[to[r]] = home[r] THEN "local" ELSE "take")
  /\ route' = [route EXCEPT ![r] = uip[to[r]]]
  /\ seen' = [seen EXCEPT ![r] = IF contacts[to[r]].open THEN epoch[to[r]] ELSE 0]
  /\ UNCHANGED <<dbVars, userVars, inbox, contacts, sentVars, txn, stubs, faults>>

(* RedisMgr::Get fails: the receiver counts as not logged in.              *)
RouteFails(r) ==
  /\ Goto(r, "route", "reply")
  /\ Fault("redis")
  /\ UNCHANGED <<dbVars, userVars, inbox, contacts, sentVars, route, txn, seen, stubs>>

DeliverHere(r) ==
  /\ Goto(r, "local", "reply")
  /\ Notify(home[r], r)
  /\ UNCHANGED <<dbVars, userVars, contacts, sentVars, route, txn, seen, stubs, faults>>

(* getConnection waits until a stub is idle.                               *)
TakeStub(r) ==
  /\ Goto(r, "take", "call")
  /\ stubs[home[r]][route[r]] > 0
  /\ stubs' = [stubs EXCEPT ![home[r]][route[r]] = @ - 1]
  /\ UNCHANGED <<dbVars, userVars, inbox, contacts, sentVars, route, txn, seen, faults>>

(* NotifyAddFriend, NotifyAuthFriend or NotifyTextChatMsg on the peer.     *)
Call(r) ==
  /\ Goto(r, "call", "return")
  /\ Notify(route[r], r)
  /\ UNCHANGED <<dbVars, userVars, contacts, sentVars, route, txn, seen, stubs, faults>>

(* Variant: a failed call returns early and keeps its stub.                *)
CallFailsKeeping(r) ==
  /\ Goto(r, "call", "reply")
  /\ Fault("rpc")
  /\ UNCHANGED <<dbVars, userVars, inbox, contacts, sentVars, route, txn, seen, stubs>>

(* The RPC fails; its result is not looked at, and the stub goes back.     *)
CallFails(r) ==
  /\ Goto(r, "call", "return")
  /\ Fault("rpc")
  /\ UNCHANGED <<dbVars, userVars, inbox, contacts, sentVars, route, txn, seen, stubs>>

ReturnStub(r) ==
  /\ Goto(r, "return", "reply")
  /\ stubs' = [stubs EXCEPT ![home[r]][route[r]] = @ + 1]
  /\ UNCHANGED <<dbVars, userVars, inbox, contacts, sentVars, route, txn, seen, faults>>

(* The Defer of the handler answers on the session the request came from.  *)
(* Clients only log the answers to an application and to a text.  The      *)
(* variables of the handler go.                                            *)
Reply(r) ==
  /\ Goto(r, "reply", "done")
  /\ IF Kind[r] = "auth" /\ epoch[from[r]] = conn[r]
       THEN Send(from[r], [kind |-> "rsp", from |-> to[r]])
       ELSE UNCHANGED inbox
  /\ home' = [home EXCEPT ![r] = Nil]
  /\ conn' = [conn EXCEPT ![r] = 0]
  /\ route' = [route EXCEPT ![r] = Nil]
  /\ UNCHANGED <<dbVars, userVars, contacts, from, to, txn, seen, stubs, faults>>

(***************************************************************************)
(* The specification.                                                      *)
(***************************************************************************)
SessionStep(u) ==
  \/ ReadFriends(u) \/ SetIp(u) \/ SetUserSession(u) \/ LoginReply(u)
  \/ DelIp(u) \/ CleanSession(u)

ClientStep(u) ==
  \/ OpenWindow(u) \/ Unheard(u) \/ HearApply(u) \/ HearFriend(u) \/ HearText(u)
  \/ CrashOnText(u)

SqlStep(r) ==
  \/ InsertApply(r) \/ UpdateApply(r) \/ InsertFirst(r) \/ InsertSecond(r)
  \/ Commit(r) \/ DeadlockVictim(r)

DeliveryStep(r) ==
  \/ Route(r) \/ DeliverHere(r) \/ TakeStub(r) \/ Call(r) \/ ReturnStub(r) \/ Reply(r)

FaultStep(r) == SqlFails(r) \/ ApplySqlFails(r) \/ RouteFails(r) \/ CallFails(r)

Next ==
  \/ \E u \in User, s \in Server : ReadApplies(u, s)
  \/ \E u \in User : SessionStep(u) \/ ClientStep(u) \/ Disconnect(u)
                   \/ CrashOnClick(u) \/ LoadMore(u)
  \/ \E u, v \in User : OpenChat(u, v) \/ \E r \in Request : SendRequest(r, u, v)
  \/ \E r \in Request : SqlStep(r) \/ DeliveryStep(r) \/ FaultStep(r)

Spec == Init /\ [][Next]_vars

(* Workers go on with what they handle, statements and calls return.       *)
Fairness == \A r \in Request : WF_vars(SqlStep(r)) /\ WF_vars(DeliveryStep(r))

FairSpec == Spec /\ Fairness

-----------------------------------------------------------------------------
(***************************************************************************)
(* Properties.                                                             *)
(***************************************************************************)
InTransaction(a, b) ==
  \E r \in Request : /\ Kind[r] = "auth"
                     /\ {from[r], to[r]} = {a, b}
                     /\ pc[r] \in {"first", "second", "commit"}

(* Nobody is shown, or told of, a friend the table does not have, although *)
(* the handler ignores the result of AddFriend: the row is there, or a     *)
(* transaction that beat the handler's own is about to commit it.          *)
Known(u, v) ==
  \/ v \in contacts[u].friends
  \/ \E i \in DOMAIN inbox[u] : inbox[u][i].kind \in {"auth", "rsp"} /\ inbox[u][i].from = v

ShownIsStored ==
  faults = 0 =>
    \A u, v \in User : Known(u, v) => <<u, v>> \in friend \/ InTransaction(u, v)

(* friend_apply and friend are written by separate commands, whose results *)
(* are ignored: an accepted application means friends, now or as soon as a *)
(* transaction commits, and friends have an accepted application.          *)
Accepted(a, b) ==
  \E i \in DOMAIN friend_apply : IsRow(i, a, b) /\ friend_apply[i].status = 1

StatusMatchesFriendship ==
  faults = 0 =>
    \A a, b \in User :
      /\ Accepted(a, b) => <<a, b>> \in friend \/ InTransaction(a, b)
      /\ <<a, b>> \in friend => Accepted(a, b) \/ Accepted(b, a)

(* A user whose chat window was open when a request looked him up, and is  *)
(* still, knows of it once it is handled: the routing misses nobody who is *)
(* there.  (Before the window opens a notice can be lost.)                 *)
NoticeReaches ==
  faults = 0 =>
    \A r \in Request :
      LET u == to[r]
          v == from[r]
      IN  pc[r] \in {"reply", "done"} /\ seen[r] # 0 /\ seen[r] = epoch[u]
            /\ contacts[u].open
          => CASE Kind[r] = "auth"  -> Known(u, v)
               [] Kind[r] = "apply" -> \/ v \in contacts[u].applied
                                       \/ [kind |-> "apply", from |-> v] \in
                                            {inbox[u][i] : i \in DOMAIN inbox[u]}
               [] OTHER             -> TRUE

(* A text reaches only users who are, or are about to be, friends of its   *)
(* sender: the server does not test it, it follows from what clients are   *)
(* shown.                                                                  *)
TextFromFriend ==
  faults = 0 =>
    \A u, v \in User :
      (\E i \in DOMAIN inbox[u] : inbox[u][i] = [kind |-> "text", from |-> v])
        => <<u, v>> \in friend \/ InTransaction(u, v)

(* The tables implement Friendship, whatever fails.                        *)
Pairs == {<<friend_apply[i].from, friend_apply[i].to>> : i \in DOMAIN friend_apply}

Abstract == INSTANCE Friendship WITH applied <- Pairs

ImplementsFriendship == Abstract!Spec

(* Every request is answered: neither a stub nor a row lock holds it up    *)
(* for ever.                                                               *)
RequestAnswered == \A r \in Request : pc[r] # "idle" ~> pc[r] = "done"

=============================================================================
