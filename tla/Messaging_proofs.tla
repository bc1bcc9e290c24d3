-------------------------- MODULE Messaging_proofs --------------------------
(***************************************************************************)
(* Proofs about Messaging, for any users, servers and requests: the two    *)
(* tables implement Friendship, whatever fails, and, until a statement     *)
(* fails, nobody is shown a friend who is not stored, texts come from      *)
(* stored friends, and applications and friends agree.  A notice that was  *)
(* sent to the server of an open window reaches it, unless a call failed.  *)
(***************************************************************************)
EXTENDS Messaging, TLAPS

(* What the tables depend on, and its types.                               *)
core == <<friend_apply, friend, pc, from, to, txn>>

CoreType ==
  /\ friend_apply \in Seq(Row)
  /\ pc \in [Request -> ReqPC]
  /\ from \in [Request -> User \cup {Nil}]
  /\ to \in [Request -> User \cup {Nil}]
  /\ txn \in [Request -> SUBSET (User \X User)]

Forth(r) == <<from[r], to[r]>>
Back(r)  == <<to[r], from[r]>>

(* The transaction of a request: at "second" the first of its two rows is  *)
(* in the table or inserted, at "commit" both are.                         *)
TxnOf(r) ==
  /\ pc[r] # "idle" => from[r] \in User /\ to[r] \in User
  /\ pc[r] \notin {"second", "commit"} => txn[r] = {}
  /\ pc[r] = "second" => txn[r] \subseteq {Forth(r)} /\ Forth(r) \in friend \cup txn[r]
  /\ pc[r] = "commit" => /\ txn[r] \subseteq {Forth(r), Back(r)}
                         /\ {Forth(r), Back(r)} \subseteq friend \cup txn[r]

TxnInv == CoreType /\ \A r \in Request : TxnOf(r)

-----------------------------------------------------------------------------
LEMMA InitTxn == Init => TxnInv
BY MessagingAssumption DEF Init, TxnInv, CoreType, TxnOf, ReqPC

(* Steps of sessions, clients and users leave the core alone.              *)
LEMMA Elsewhere ==
  ASSUME NEW u \in User,
         \/ \E s \in Server : ReadApplies(u, s)
         \/ SessionStep(u) \/ ClientStep(u) \/ Disconnect(u) \/ CrashOnClick(u)
         \/ LoadMore(u) \/ \E v \in User : OpenChat(u, v)
  PROVE  UNCHANGED core
<1>1. CASE \E s \in Server : ReadApplies(u, s)
  BY <1>1 DEF ReadApplies, core, dbVars, sentVars
<1>2. CASE SessionStep(u)
  BY <1>2 DEF SessionStep, ReadFriends, SetIp, SetUserSession, LoginReply, DelIp,
              CleanSession, core, dbVars, sentVars
<1>3. CASE Disconnect(u) \/ CrashOnClick(u)
  BY <1>3 DEF CrashOnClick, Disconnect, core, dbVars, sentVars
<1>4. CASE ClientStep(u)
  BY <1>4 DEF ClientStep, OpenWindow, Unheard, HearApply, HearFriend, HearText,
              CrashOnText, Disconnect, Handle, core, dbVars, sentVars
<1>5. CASE LoadMore(u) \/ \E v \in User : OpenChat(u, v)
  BY <1>5 DEF LoadMore, OpenChat, core, dbVars, sentVars
<1> QED BY <1>1, <1>2, <1>3, <1>4, <1>5

(* A delivery step moves a request from one step outside its transaction   *)
(* to another.                                                             *)
Move(r) ==
  /\ \E x \in ReqPC \ {"idle", "first", "second", "commit"}, y \in ReqPC \ {"second", "commit"} :
       Goto(r, x, y)
  /\ UNCHANGED <<friend_apply, friend, from, to, txn>>

LEMMA Moving ==
  ASSUME NEW r \in Request, DeliveryStep(r) \/ RouteFails(r) \/ CallFails(r) \/ ApplySqlFails(r)
  PROVE  Move(r)
<1>1. CASE Route(r)
  BY <1>1 DEF Route, Move, Goto, ReqPC, dbVars, sentVars
<1>2. CASE DeliverHere(r)
  BY <1>2 DEF DeliverHere, Move, Goto, ReqPC, dbVars, sentVars
<1>3. CASE TakeStub(r) \/ ReturnStub(r)
  BY <1>3 DEF TakeStub, ReturnStub, Move, Goto, ReqPC, dbVars, sentVars
<1>4. CASE Call(r) \/ CallFails(r)
  BY <1>4 DEF Call, CallFails, Move, Goto, ReqPC, dbVars, sentVars
<1>5. CASE Reply(r)
  BY <1>5 DEF Reply, Move, Goto, ReqPC, dbVars, sentVars
<1>6. CASE RouteFails(r) \/ ApplySqlFails(r)
  BY <1>6 DEF RouteFails, ApplySqlFails, Move, Goto, ReqPC, dbVars, sentVars
<1> QED BY <1>1, <1>2, <1>3, <1>4, <1>5, <1>6 DEF DeliveryStep

(* A step that changes the core only where r is concerned, and takes no    *)
(* row from friend, leaves the transactions of the others as they are.     *)
LEMMA Others ==
  ASSUME TxnInv, NEW r \in Request, CoreType',
         \A q \in Request \ {r} : /\ pc'[q] = pc[q] /\ txn'[q] = txn[q]
                                  /\ from'[q] = from[q] /\ to'[q] = to[q],
         friend \subseteq friend',
         TxnOf(r)'
  PROVE  TxnInv'
<1>1. ASSUME NEW q \in Request \ {r} PROVE TxnOf(q)'
  BY <1>1 DEF TxnInv, TxnOf, Forth, Back
<1> QED BY <1>1 DEF TxnInv

LEMMA InsertKeepsTxn ==
  ASSUME TxnInv, NEW r \in Request, InsertFirst(r) \/ InsertSecond(r)
  PROVE  TxnInv' /\ UNCHANGED <<friend_apply, friend>>
<1> USE DEF dbVars, sentVars, Goto
<1>0. from[r] \in User /\ to[r] \in User
  BY DEF TxnInv, TxnOf, InsertFirst, InsertSecond, InsertFriend
<1>1. CASE InsertFirst(r)
  <2>1. CoreType'
    BY <1>0, <1>1 DEF TxnInv, CoreType, ReqPC, InsertFirst, InsertFriend
  <2>2. TxnOf(r)'
    BY <1>0, <1>1 DEF TxnInv, CoreType, TxnOf, Forth, Back, InsertFirst, InsertFriend
  <2> QED BY <1>1, <2>1, <2>2, Others DEF InsertFirst, InsertFriend, TxnInv, CoreType
<1>2. CASE InsertSecond(r)
  <2>1. CoreType'
    BY <1>0, <1>2 DEF TxnInv, CoreType, ReqPC, InsertSecond, InsertFriend
  <2>2. TxnOf(r)'
    BY <1>0, <1>2, SMTT(30) DEF TxnInv, CoreType, TxnOf, Forth, Back, InsertSecond, InsertFriend
  <2> QED BY <1>2, <2>1, <2>2, Others DEF InsertSecond, InsertFriend, TxnInv, CoreType
<1> QED BY <1>1, <1>2

LEMMA RollbackKeepsTxn ==
  ASSUME TxnInv, NEW r \in Request, DeadlockVictim(r) \/ SqlFails(r)
  PROVE  TxnInv' /\ UNCHANGED <<friend_apply, friend>>
<1>1. /\ pc' = [pc EXCEPT ![r] = "route"] /\ txn' = [txn EXCEPT ![r] = {}]
      /\ UNCHANGED <<friend_apply, friend, from, to>> /\ pc[r] # "idle"
  BY DEF DeadlockVictim, SqlFails, Rollback, Goto, dbVars, sentVars
<1>2. CoreType'
  BY <1>1 DEF TxnInv, CoreType, ReqPC
<1>3. TxnOf(r)'
  BY <1>1 DEF TxnInv, CoreType, TxnOf
<1> QED BY <1>1, <1>2, <1>3, Others DEF TxnInv, CoreType

LEMMA CommitBefriends ==
  ASSUME TxnInv, NEW r \in Request, Commit(r)
  PROVE  /\ TxnInv'
         /\ from[r] \in User /\ to[r] \in User
         /\ friend' = friend \cup {Forth(r), Back(r)}
         /\ UNCHANGED friend_apply
<1>1. /\ pc[r] = "commit" /\ pc' = [pc EXCEPT ![r] = "route"]
      /\ txn' = [txn EXCEPT ![r] = {}] /\ friend' = friend \cup txn[r]
      /\ UNCHANGED <<friend_apply, from, to>>
  BY DEF Commit, Goto, sentVars
<1>2. CoreType'
  BY <1>1 DEF TxnInv, CoreType, ReqPC
<1>3. TxnOf(r)'
  BY <1>1 DEF TxnInv, CoreType, TxnOf
<1>4. from[r] \in User /\ to[r] \in User /\ friend' = friend \cup {Forth(r), Back(r)}
  BY <1>1 DEF TxnInv, TxnOf
<1> QED BY <1>1, <1>2, <1>3, <1>4, Others DEF TxnInv, CoreType

(* UPDATE changes no pair, INSERT adds one at most.                        *)
LEMMA ApplyStep ==
  ASSUME TxnInv, NEW r \in Request, InsertApply(r) \/ UpdateApply(r)
  PROVE  /\ TxnInv'
         /\ UNCHANGED friend
         /\ from[r] \in User /\ to[r] \in User
         /\ Pairs' = Pairs \/ Pairs' = Pairs \cup {Forth(r)}
<1> USE DEF Goto, sentVars
<1>0. from[r] \in User /\ to[r] \in User
  BY DEF TxnInv, TxnOf, InsertApply, UpdateApply
<1>1. CASE InsertApply(r)
  <2>1. CASE UNCHANGED friend_apply
    <3>1. CoreType'
      BY <1>1, <2>1 DEF InsertApply, TxnInv, CoreType, ReqPC
    <3>2. TxnOf(r)'
      BY <1>1 DEF InsertApply, TxnInv, CoreType, TxnOf
    <3>3. Pairs' = Pairs
      BY <2>1 DEF Pairs
    <3> QED BY <1>0, <1>1, <3>1, <3>2, <3>3, Others DEF InsertApply, TxnInv, CoreType
  <2>2. CASE friend_apply' =
               Append(friend_apply, [from |-> from[r], to |-> to[r], status |-> 0])
    <3> DEFINE row == [from |-> from[r], to |-> to[r], status |-> 0]
    <3>0. row \in Row
      BY <1>0 DEF Row
    <3>1. CoreType'
      BY <1>1, <2>2, <3>0 DEF InsertApply, TxnInv, CoreType, ReqPC
    <3>2. TxnOf(r)'
      BY <1>1 DEF InsertApply, TxnInv, CoreType, TxnOf
    <3>3. Pairs' = Pairs \cup {Forth(r)}
      <4>1. friend_apply \in Seq(Row)
        BY DEF TxnInv, CoreType
      <4>2. DOMAIN friend_apply' = 1 .. (Len(friend_apply) + 1)
        BY <2>2, <3>0, <4>1
      <4>3. \A i \in 1 .. Len(friend_apply) : friend_apply'[i] = friend_apply[i]
        BY <2>2, <3>0, <4>1
      <4>4. friend_apply'[Len(friend_apply) + 1] = row
        BY <2>2, <3>0, <4>1
      <4>5. DOMAIN friend_apply = 1 .. Len(friend_apply) /\ Len(friend_apply) \in Nat
        BY <4>1
      <4>6. Pairs' \subseteq Pairs \cup {Forth(r)}
        BY <4>2, <4>3, <4>4, <4>5 DEF Pairs, Forth
      <4>7. Pairs \subseteq Pairs'
        BY <4>2, <4>3, <4>5 DEF Pairs
      <4>8. Forth(r) \in Pairs'
        <5>1. Len(friend_apply) + 1 \in DOMAIN friend_apply'
          BY <4>2, <4>5
        <5> QED BY <5>1, <4>4 DEF Pairs, Forth
      <4> QED BY <4>6, <4>7, <4>8
    <3> QED BY <1>0, <1>1, <3>1, <3>2, <3>3, Others DEF InsertApply, TxnInv, CoreType
  <2> QED BY <1>1, <2>1, <2>2 DEF InsertApply
<1>2. CASE UpdateApply(r)
  <2>1. friend_apply \in Seq(Row)
    BY DEF TxnInv, CoreType
  <2>2. /\ DOMAIN friend_apply' = DOMAIN friend_apply
        /\ \A i \in DOMAIN friend_apply :
             /\ friend_apply'[i] \in Row
             /\ friend_apply'[i].from = friend_apply[i].from
             /\ friend_apply'[i].to = friend_apply[i].to
    <3> SUFFICES ASSUME NEW i \in DOMAIN friend_apply
                 PROVE  /\ DOMAIN friend_apply' = DOMAIN friend_apply
                        /\ friend_apply'[i] \in Row
                        /\ friend_apply'[i].from = friend_apply[i].from
                        /\ friend_apply'[i].to = friend_apply[i].to
      BY <1>2 DEF UpdateApply
    <3>1. friend_apply[i] \in Row
      BY <2>1
    <3>2. DOMAIN friend_apply' = DOMAIN friend_apply
      BY <1>2 DEF UpdateApply
    <3>3. CASE friend_apply'[i] = friend_apply[i]
      BY <3>1, <3>2, <3>3
    <3>4. CASE friend_apply'[i] = [friend_apply[i] EXCEPT !.status = 1]
      BY <3>1, <3>2, <3>4 DEF Row
    <3> QED BY <1>2, <3>3, <3>4 DEF UpdateApply
  <2>3. friend_apply' \in Seq(Row)
    <3>1. friend_apply' = [i \in 1 .. Len(friend_apply) |-> friend_apply'[i]]
      BY <1>2, <2>1 DEF UpdateApply
    <3> QED BY <2>1, <2>2, <3>1
  <2>4. CoreType'
    BY <1>2, <2>3 DEF UpdateApply, TxnInv, CoreType, ReqPC
  <2>5. TxnOf(r)'
    BY <1>2 DEF UpdateApply, TxnInv, CoreType, TxnOf
  <2>6. Pairs' = Pairs
    BY <2>2 DEF Pairs
  <2> QED BY <1>0, <1>2, <2>4, <2>5, <2>6, Others DEF UpdateApply, TxnInv, CoreType
<1> QED BY <1>1, <1>2

LEMMA SendStep ==
  ASSUME TxnInv, NEW u \in User, NEW v \in User, NEW r \in Request, SendRequest(r, u, v)
  PROVE  TxnInv' /\ UNCHANGED <<friend_apply, friend>>
<1>1. /\ UNCHANGED <<friend_apply, friend, txn>>
      /\ pc[r] = "idle"
      /\ \E y \in {"insert", "update", "route"} : pc' = [pc EXCEPT ![r] = y]
      /\ from' = [from EXCEPT ![r] = u] /\ to' = [to EXCEPT ![r] = v]
  BY MessagingAssumption DEF SendRequest, Goto, dbVars
<1>2. CoreType'
  BY <1>1 DEF TxnInv, CoreType, ReqPC
<1>3. TxnOf(r)'
  BY <1>1 DEF TxnInv, CoreType, TxnOf
<1> QED BY <1>1, <1>2, <1>3, Others DEF TxnInv, CoreType

LEMMA MoveKeepsTxn ==
  ASSUME TxnInv, NEW r \in Request, Move(r)
  PROVE  TxnInv' /\ UNCHANGED <<friend_apply, friend>>
<1>1. PICK x \in ReqPC \ {"idle", "first", "second", "commit"},
            y \in ReqPC \ {"second", "commit"} :
        Goto(r, x, y)
  BY DEF Move
<1>2. CoreType'
  BY <1>1 DEF Move, Goto, TxnInv, CoreType
<1>3. TxnOf(r)'
  BY <1>1 DEF Move, Goto, TxnInv, CoreType, TxnOf
<1> QED BY <1>1, <1>2, <1>3, Others DEF Move, Goto, TxnInv, CoreType

(* Every step maps to a step of Friendship or to a stutter.                *)
LEMMA StepRefines ==
  ASSUME TxnInv, [Next]_vars
  PROVE  TxnInv' /\ [Abstract!Next]_(Abstract!vars)
<1> USE DEF Abstract!vars
<1>1. CASE UNCHANGED core
  BY <1>1 DEF core, TxnInv, CoreType, TxnOf, Forth, Back, Pairs
<1>2. ASSUME NEW u \in User, NEW v \in User, NEW r \in Request, SendRequest(r, u, v)
      PROVE  TxnInv' /\ UNCHANGED <<friend_apply, friend>>
  BY <1>2, SendStep
<1>3. ASSUME NEW r \in Request, Commit(r)
      PROVE  TxnInv' /\ Abstract!Next
  <2>1. Abstract!Befriend(from[r], to[r])
    BY <1>3, CommitBefriends DEF Abstract!Befriend, Pairs, Forth, Back
  <2> QED BY <1>3, <2>1, CommitBefriends DEF Abstract!Next
<1>4. ASSUME NEW r \in Request, InsertApply(r) \/ UpdateApply(r)
      PROVE  TxnInv' /\ [Abstract!Next]_(Abstract!vars)
  <2>1. CASE Pairs' = Pairs
    BY <1>4, <2>1, ApplyStep
  <2>2. CASE Pairs' = Pairs \cup {Forth(r)}
    <3>1. Abstract!Apply(from[r], to[r])
      BY <1>4, <2>2, ApplyStep DEF Abstract!Apply, Forth
    <3> QED BY <1>4, <3>1, ApplyStep DEF Abstract!Next
  <2> QED BY <1>4, <2>1, <2>2, ApplyStep
<1>5. ASSUME NEW r \in Request, DeliveryStep(r) \/ FaultStep(r) \/ InsertFirst(r)
                                  \/ InsertSecond(r) \/ DeadlockVictim(r)
      PROVE  TxnInv' /\ UNCHANGED <<friend_apply, friend>>
  BY <1>5, Moving, MoveKeepsTxn, InsertKeepsTxn, RollbackKeepsTxn DEF FaultStep
<1>6. UNCHANGED <<friend_apply, friend>> => UNCHANGED (Abstract!vars)
  BY DEF Pairs
<1>7. CASE UNCHANGED vars
  BY <1>1, <1>7 DEF vars, core
<1>8. CASE Next
  <2>1. ASSUME NEW u \in User,
               \/ \E s \in Server : ReadApplies(u, s)
               \/ SessionStep(u) \/ ClientStep(u) \/ Disconnect(u) \/ CrashOnClick(u)
               \/ LoadMore(u) \/ \E v \in User : OpenChat(u, v)
        PROVE  TxnInv' /\ [Abstract!Next]_(Abstract!vars)
    BY <1>1, <2>1, Elsewhere
  <2>2. ASSUME NEW r \in Request, SqlStep(r) \/ DeliveryStep(r) \/ FaultStep(r)
        PROVE  TxnInv' /\ [Abstract!Next]_(Abstract!vars)
    BY <1>3, <1>4, <1>5, <1>6, <2>2 DEF SqlStep
  <2> QED BY <1>2, <1>6, <1>8, <2>1, <2>2 DEF Next
<1> QED BY <1>7, <1>8

LEMMA InitRefines == Init => Abstract!Init
<1> SUFFICES ASSUME Init PROVE Abstract!Init
  OBVIOUS
<1>1. OldApplies \in Seq(Row)
  BY MessagingAssumption
<1>2. \A i \in DOMAIN OldApplies : OldApplies[i] \in Row
  BY <1>1
<1>3. Pairs \in SUBSET (User \X User)
  BY <1>2 DEF Init, Pairs, Row
<1>4. \A row \in OldAccepted : row \in Row
  BY <1>2 DEF OldAccepted
<1>5. friend \in SUBSET (User \X User)
  BY <1>4 DEF Init, Row
<1>6. \A a, b \in User : <<a, b>> \in friend => <<b, a>> \in friend
  <2> SUFFICES ASSUME NEW a \in User, NEW b \in User, <<a, b>> \in friend
               PROVE  <<b, a>> \in friend
    OBVIOUS
  <2>1. PICK row \in OldAccepted : <<a, b>> \in {<<row.from, row.to>>, <<row.to, row.from>>}
    BY DEF Init
  <2>2. <<b, a>> \in {<<row.from, row.to>>, <<row.to, row.from>>}
    BY <2>1
  <2> QED BY <2>2 DEF Init
<1> QED BY <1>3, <1>5, <1>6 DEF Abstract!Init

(* The tables implement Friendship: an application is recorded for good,   *)
(* and AddFriend makes two users friends of each other in one step or not  *)
(* at all, whatever statements fail and transactions collide.              *)
THEOREM Implements == Spec => ImplementsFriendship
<1>1. Init => TxnInv /\ Abstract!Init
  BY InitTxn, InitRefines
<1>2. TxnInv /\ [Next]_vars => TxnInv' /\ [Abstract!Next]_(Abstract!vars)
  BY StepRefines
<1> QED BY <1>1, <1>2, PTL DEF Spec, ImplementsFriendship, Abstract!Spec

(***************************************************************************)
(* Who is shown as a friend is stored as one.                              *)
(***************************************************************************)
Stored(u, v) == <<u, v>> \in friend \/ InTransaction(u, v)

(* What a message tells of friends.                                        *)
Told(m) ==
  IF m.kind = "login" THEN m.lists.friends
  ELSE IF m.kind \in {"auth", "rsp"} THEN {m.from}
  ELSE {}

ClientType ==
  /\ lists \in [User -> Lists]
  /\ inbox \in [User -> Seq(Message)]
  /\ contacts \in [User -> ContactsType]

Symmetric == \A u, v \in User : <<u, v>> \in friend => <<v, u>> \in friend

(* Only an acceptance runs the transaction, and once it is past it, until  *)
(* a fault, its users are stored.                                          *)
AuthOf(r) ==
  /\ pc[r] = "insert" => Kind[r] = "apply"
  /\ pc[r] \in {"update", "first", "second", "commit"} => Kind[r] = "auth"
  /\ /\ faults = 0
     /\ Kind[r] = "auth"
     /\ pc[r] \notin {"idle", "update", "first", "second", "commit", "done"}
     => Stored(from[r], to[r]) /\ Stored(to[r], from[r])

AllToldStored ==
  faults = 0 =>
    \A u \in User :
      /\ \A v \in lists[u].friends : Stored(u, v)
      /\ \A v \in contacts[u].friends : Stored(u, v)
      /\ \A i \in DOMAIN inbox[u] : \A v \in Told(inbox[u][i]) : Stored(u, v)

ShownInv ==
  /\ TxnInv
  /\ ClientType
  /\ faults \in Nat
  /\ Symmetric
  /\ \A r \in Request : AuthOf(r)
  /\ AllToldStored

LEMMA InitShown == Init => ShownInv
<1> SUFFICES ASSUME Init PROVE ShownInv
  OBVIOUS
<1>1. TxnInv
  BY InitTxn
<1>2. Symmetric
  BY InitRefines DEF Abstract!Init, Symmetric
<1>3. ClientType
  BY DEF Init, ClientType, NoLists, NoContacts, Lists, ContactsType
<1>4. faults \in Nat /\ \A r \in Request : AuthOf(r)
  BY DEF Init, AuthOf
<1>5. AllToldStored
  BY DEF Init, AllToldStored, NoLists, NoContacts
<1> QED BY <1>1, <1>2, <1>3, <1>4, <1>5 DEF ShownInv

(***************************************************************************)
(* The operators on a window.                                              *)
(***************************************************************************)
LEMMA LoadPageFriends ==
  ASSUME NEW c \in ContactsType, NEW P \in SUBSET User
  PROVE  LoadPage(c, P) \in ContactsType /\ LoadPage(c, P).friends = c.friends
BY DEF LoadPage, ContactsType

LEMMA NextPagesType ==
  ASSUME NEW c \in ContactsType, NEW P \in NextPages(c)
  PROVE  P \in SUBSET User
BY DEF NextPages, ContactsType

LEMMA OpenedFriends ==
  ASSUME NEW A \in SUBSET Row, NEW L \in SUBSET User
  PROVE  Opened(A, L) \in ContactsType /\ Opened(A, L).friends = L
<1>1. {a.from : a \in A} \in SUBSET User /\ {a.from : a \in {b \in A : b.status = 0}} \in SUBSET User
  BY DEF Row
<1>2. NoContacts \in ContactsType
  BY DEF NoContacts, ContactsType
<1>3. ASSUME NEW c \in ContactsType, NEW P \in SUBSET User, NEW Q \in SUBSET User
      PROVE  LET o == [c EXCEPT !.open = TRUE, !.list = L, !.friends = L, !.applied = P, !.asked = Q]
             IN  o \in ContactsType /\ o.friends = L
  BY DEF ContactsType
<1> QED BY <1>1, <1>2, <1>3 DEF Opened

LEMMA WithApplyFriends ==
  ASSUME NEW c \in ContactsType, NEW v \in User
  PROVE  WithApply(c, v) \in ContactsType /\ WithApply(c, v).friends = c.friends
BY DEF WithApply, ContactsType

LEMMA WithFriendFriends ==
  ASSUME NEW c \in ContactsType, NEW v \in User
  PROVE  WithFriend(c, v) \in ContactsType /\ WithFriend(c, v).friends = c.friends \cup {v}
BY DEF WithFriend, ContactsType

LEMMA WithTextFriends ==
  ASSUME NEW c \in ContactsType, NEW v \in User
  PROVE  WithText(c, v) \in ContactsType /\ WithText(c, v).friends = c.friends
BY DEF WithText, ContactsType

LEMMA WithChatFriends ==
  ASSUME NEW c \in ContactsType, NEW v \in User
  PROVE  WithChat(c, v) \in ContactsType /\ WithChat(c, v).friends = c.friends
BY DEF WithChat, ContactsType

(***************************************************************************)
(* Faults and the inbox.                                                   *)
(***************************************************************************)
LEMMA FaultsCount ==
  ASSUME [Next]_vars, faults \in Nat
  PROVE  faults' = faults \/ faults' = faults + 1
<1>1. ASSUME NEW u \in User, NEW s \in Server, ReadApplies(u, s) PROVE faults' = faults
  BY <1>1 DEF ReadApplies
<1>2. ASSUME NEW u \in User, SessionStep(u) PROVE faults' = faults
  BY <1>2 DEF SessionStep, ReadFriends, SetIp, SetUserSession, LoginReply, DelIp, CleanSession
<1>3. ASSUME NEW u \in User, Disconnect(u) \/ CrashOnClick(u) \/ LoadMore(u)
      PROVE faults' = faults
  BY <1>3 DEF Disconnect, CrashOnClick, LoadMore
<1>4. ASSUME NEW u \in User, ClientStep(u) PROVE faults' = faults
  BY <1>4 DEF ClientStep, OpenWindow, Unheard, HearApply, HearFriend, HearText,
              CrashOnText, Disconnect, Handle
<1>5. ASSUME NEW u \in User, NEW v \in User,
             OpenChat(u, v) \/ \E r \in Request : SendRequest(r, u, v)
      PROVE faults' = faults
  BY <1>5 DEF OpenChat, SendRequest
<1>6. ASSUME NEW r \in Request, SqlStep(r) PROVE faults' = faults
  BY <1>6 DEF SqlStep, InsertApply, UpdateApply, InsertFirst, InsertSecond, InsertFriend,
              Commit, DeadlockVictim
<1>7. ASSUME NEW r \in Request, DeliveryStep(r) PROVE faults' = faults
  BY <1>7 DEF DeliveryStep, Route, DeliverHere, TakeStub, Call, ReturnStub, Reply
<1>8. ASSUME NEW r \in Request, FaultStep(r) PROVE faults' = faults + 1
  BY <1>8 DEF FaultStep, SqlFails, ApplySqlFails, RouteFails, CallFails, Fault
<1> QED BY <1>1, <1>2, <1>3, <1>4, <1>5, <1>6, <1>7, <1>8 DEF Next, vars

Heard(u, m) == \E i \in DOMAIN inbox[u] : inbox[u][i] = m

LEMMA SendAdds ==
  ASSUME inbox \in [User -> Seq(Message)],
         NEW u \in User, NEW m \in Message, Send(u, m)
  PROVE  /\ inbox' \in [User -> Seq(Message)]
         /\ \A w \in User : \A i \in DOMAIN inbox'[w] :
              Heard(w, inbox'[w][i]) \/ (w = u /\ inbox'[w][i] = m)
<1>1. CASE UNCHANGED inbox
  BY <1>1 DEF Heard
<1>2. CASE inbox' = [inbox EXCEPT ![u] = Append(@, m)]
  <2>1. inbox'[u] = Append(inbox[u], m) /\ inbox[u] \in Seq(Message)
    BY <1>2
  <2>2. inbox' \in [User -> Seq(Message)]
    BY <1>2, <2>1
  <2>3. ASSUME NEW i \in DOMAIN inbox'[u]
        PROVE  Heard(u, inbox'[u][i]) \/ inbox'[u][i] = m
    <3>1. Len(inbox[u]) \in Nat /\ i \in 1 .. (Len(inbox[u]) + 1)
      BY <2>1, <2>3
    <3>2. CASE i = Len(inbox[u]) + 1
      BY <2>1, <3>2
    <3>3. CASE i \in 1 .. Len(inbox[u])
      <4>1. i \in DOMAIN inbox[u] /\ inbox'[u][i] = inbox[u][i]
        BY <2>1, <3>3
      <4> QED BY <4>1 DEF Heard
    <3> QED BY <3>1, <3>2, <3>3
  <2>4. ASSUME NEW w \in User \ {u}, NEW i \in DOMAIN inbox'[w]
        PROVE  Heard(w, inbox'[w][i])
    <3>1. inbox'[w] = inbox[w]
      BY <1>2, <2>4
    <3> QED BY <2>4, <3>1 DEF Heard
  <2> QED BY <2>2, <2>3, <2>4
<1> QED BY <1>1, <1>2 DEF Send

LEMMA TailKeeps ==
  ASSUME inbox \in [User -> Seq(Message)], NEW u \in User, inbox[u] # <<>>,
         inbox' = [inbox EXCEPT ![u] = Tail(@)]
  PROVE  /\ inbox' \in [User -> Seq(Message)]
         /\ Heard(u, Head(inbox[u])) /\ Head(inbox[u]) \in Message
         /\ \A w \in User : \A i \in DOMAIN inbox'[w] : Heard(w, inbox'[w][i])
<1>1. inbox'[u] = Tail(inbox[u]) /\ inbox[u] \in Seq(Message)
  OBVIOUS
<1>2. inbox' \in [User -> Seq(Message)]
  BY <1>1
<1>3. Len(inbox[u]) \in Nat \ {0} /\ DOMAIN inbox[u] = 1 .. Len(inbox[u])
      /\ Head(inbox[u]) = inbox[u][1] /\ Head(inbox[u]) \in Message
  BY <1>1
<1>4. Heard(u, Head(inbox[u])) /\ Head(inbox[u]) \in Message
  <2>1. 1 \in DOMAIN inbox[u]
    BY <1>3
  <2> QED BY <1>3, <2>1 DEF Heard
<1>5. ASSUME NEW i \in DOMAIN inbox'[u] PROVE Heard(u, inbox'[u][i])
  <2>1. i + 1 \in DOMAIN inbox[u] /\ inbox'[u][i] = inbox[u][i + 1]
    BY <1>1, <1>3, <1>5
  <2> QED BY <2>1 DEF Heard
<1>6. ASSUME NEW w \in User \ {u}, NEW i \in DOMAIN inbox'[w]
      PROVE  Heard(w, inbox'[w][i])
  <2>1. inbox'[w] = inbox[w]
    BY <1>6
  <2> QED BY <1>6, <2>1 DEF Heard
<1> QED BY <1>2, <1>4, <1>5, <1>6

(***************************************************************************)
(* Nobody ceases to be stored but by a failing statement.                  *)
(***************************************************************************)
InTxn(r) == pc[r] \in {"first", "second", "commit"}

(* The users of a request in a transaction are stored.                     *)
LEMMA TxnStored ==
  ASSUME ShownInv, NEW r \in Request, InTxn(r)
  PROVE  Stored(from[r], to[r]) /\ Stored(to[r], from[r])
BY DEF ShownInv, AuthOf, InTxn, Stored, InTransaction

(* A pair that loses its transaction, loses it to a commit or to the       *)
(* transaction that survives a deadlock.                                   *)
LEMMA StoredLasts ==
  ASSUME ShownInv, [Next]_vars, faults' = 0,
         NEW u \in User, NEW v \in User, Stored(u, v)
  PROVE  Stored(u, v)'
<1> USE DEF InTxn
<1>0. TxnInv /\ faults \in Nat
  BY DEF ShownInv
<1>1. CASE UNCHANGED core
  BY <1>1 DEF core, Stored, InTransaction
<1>2. ASSUME NEW x \in User, NEW y \in User, NEW r \in Request, SendRequest(r, x, y)
      PROVE  Stored(u, v)'
  <2>1. /\ UNCHANGED friend /\ pc[r] = "idle"
        /\ \A q \in Request \ {r} : pc'[q] = pc[q] /\ from'[q] = from[q] /\ to'[q] = to[q]
    BY <1>0, <1>2 DEF SendRequest, Goto, dbVars, TxnInv, CoreType
  <2> QED BY <2>1 DEF Stored, InTransaction
<1>3. ASSUME NEW r \in Request,
             /\ pc' = [pc EXCEPT ![r] = pc'[r]]
             /\ UNCHANGED <<from, to>> /\ friend \subseteq friend',
             InTxn(r) => InTxn(r)'
      PROVE  Stored(u, v)'
  BY <1>0, <1>3 DEF Stored, InTransaction, TxnInv, CoreType
<1>4. ASSUME NEW r \in Request, DeliveryStep(r) \/ FaultStep(r)
      PROVE  Stored(u, v)'
  <2>1. CASE Move(r)
    BY <1>0, <1>3, <2>1 DEF Move, Goto, TxnInv, CoreType
  <2>2. ~SqlFails(r)
    BY <1>0 DEF SqlFails, Fault
  <2> QED BY <1>4, <2>1, <2>2, Moving DEF FaultStep
<1>5. ASSUME NEW r \in Request, InsertFirst(r) \/ InsertSecond(r) \/ InsertApply(r)
                                  \/ UpdateApply(r)
      PROVE  Stored(u, v)'
  BY <1>0, <1>3, <1>5 DEF InsertFirst, InsertSecond, InsertFriend, InsertApply, UpdateApply,
                          Goto, TxnInv, CoreType, dbVars, sentVars
<1>6. ASSUME NEW r \in Request, DeadlockVictim(r) PROVE Stored(u, v)'
  <2>1. /\ pc[r] = "second" /\ pc' = [pc EXCEPT ![r] = "route"]
        /\ UNCHANGED <<friend, from, to>>
    BY <1>6 DEF DeadlockVictim, Rollback, Goto, dbVars, sentVars
  <2>2. PICK q \in Request \ {r} : pc[q] = "second" /\ <<to[r], from[r]>> \in txn[q]
    BY <1>6 DEF DeadlockVictim
  <2>3. from[q] = to[r] /\ to[q] = from[r] /\ Kind[q] = "auth"
    BY <1>0, <2>2 DEF ShownInv, TxnInv, TxnOf, Forth, AuthOf
  <2>4. CASE {from[r], to[r]} = {u, v}
    <3>1. pc'[q] = "second" /\ from'[q] = from[q] /\ to'[q] = to[q]
      BY <1>0, <2>1, <2>2 DEF TxnInv, CoreType
    <3>2. {from'[q], to'[q]} = {u, v}
      BY <2>3, <2>4, <3>1
    <3> QED BY <2>3, <3>1, <3>2 DEF Stored, InTransaction
  <2>5. CASE {from[r], to[r]} # {u, v}
    BY <1>0, <2>1, <2>5 DEF Stored, InTransaction, TxnInv, CoreType
  <2> QED BY <2>4, <2>5
<1>7. ASSUME NEW r \in Request, Commit(r) PROVE Stored(u, v)'
  <2>1. pc' = [pc EXCEPT ![r] = "route"] /\ UNCHANGED <<from, to>>
    BY <1>7 DEF Commit, Goto, sentVars
  <2>2. friend' = friend \cup {Forth(r), Back(r)}
    BY <1>0, <1>7, CommitBefriends
  <2>3. CASE {from[r], to[r]} = {u, v}
    BY <2>2, <2>3 DEF Stored, Forth, Back
  <2>4. CASE {from[r], to[r]} # {u, v}
    BY <1>0, <2>1, <2>2, <2>4 DEF Stored, InTransaction, TxnInv, CoreType
  <2> QED BY <2>3, <2>4
<1>8. CASE UNCHANGED vars
  BY <1>1, <1>8 DEF vars, core
<1>9. CASE Next
  <2>1. ASSUME NEW w \in User,
               \/ \E s \in Server : ReadApplies(w, s)
               \/ SessionStep(w) \/ ClientStep(w) \/ Disconnect(w) \/ CrashOnClick(w)
               \/ LoadMore(w) \/ \E x \in User : OpenChat(w, x)
        PROVE  Stored(u, v)'
    BY <1>1, <2>1, Elsewhere
  <2>2. ASSUME NEW r \in Request, SqlStep(r) \/ DeliveryStep(r) \/ FaultStep(r)
        PROVE  Stored(u, v)'
    BY <1>4, <1>5, <1>6, <1>7, <2>2 DEF SqlStep
  <2> QED BY <1>2, <1>9, <2>1, <2>2 DEF Next
<1> QED BY <1>8, <1>9

(***************************************************************************)
(* Requests.                                                               *)
(***************************************************************************)
After == {"route", "local", "take", "call", "return", "reply"}

(* Stored(u, v)', but of the users as they were before the step.           *)
StoredNext(u, v) ==
  \/ <<u, v>> \in friend'
  \/ \E q \in Request : /\ Kind[q] = "auth"
                        /\ {from'[q], to'[q]} = {u, v}
                        /\ pc'[q] \in {"first", "second", "commit"}

LEMMA StoredStays ==
  ASSUME ShownInv, [Next]_vars, faults' = 0,
         NEW u \in User, NEW v \in User, Stored(u, v)
  PROVE  StoredNext(u, v)
BY StoredLasts DEF Stored, InTransaction, StoredNext

(* What is stored of a request's users stays so.                           *)
LEMMA UsersStay ==
  ASSUME ShownInv, [Next]_vars, faults' = 0, NEW q \in Request, pc[q] # "idle",
         from'[q] = from[q], to'[q] = to[q],
         Stored(from[q], to[q]), Stored(to[q], from[q])
  PROVE  Stored(from[q], to[q])' /\ Stored(to[q], from[q])'
<1>1. from[q] \in User /\ to[q] \in User
  BY DEF ShownInv, TxnInv, TxnOf
<1>2. StoredNext(from[q], to[q]) /\ StoredNext(to[q], from[q])
  BY <1>1, StoredStays
<1>3. StoredNext(from'[q], to'[q]) /\ StoredNext(to'[q], from'[q])
  BY <1>2
<1> QED BY <1>3 DEF StoredNext, Stored, InTransaction

LEMMA AuthOthers ==
  ASSUME ShownInv, [Next]_vars, NEW r \in Request,
         \A q \in Request \ {r} : pc'[q] = pc[q] /\ from'[q] = from[q] /\ to'[q] = to[q],
         AuthOf(r)'
  PROVE  \A q \in Request : AuthOf(q)'
<1>1. ASSUME NEW q \in Request \ {r} PROVE AuthOf(q)'
  <2>1. AuthOf(q) /\ faults \in Nat
    BY DEF ShownInv
  <2>2. faults' = 0 => faults = 0
    BY <2>1, FaultsCount
  <2>3. faults' = 0 /\ pc[q] # "idle" /\ Stored(from[q], to[q]) /\ Stored(to[q], from[q])
          => Stored(from[q], to[q])' /\ Stored(to[q], from[q])'
    BY <1>1, UsersStay
  <2> QED BY <1>1, <2>1, <2>2, <2>3 DEF AuthOf
<1> QED BY <1>1

(* A request that goes on with its users: r is stored before it, at a step *)
(* where it has to be after it.                                            *)
LEMMA AuthStep ==
  ASSUME ShownInv, [Next]_vars, NEW r \in Request,
         pc' = [pc EXCEPT ![r] = pc'[r]], UNCHANGED <<from, to>>,
         pc[r] # "idle",
         pc'[r] # "insert",
         pc'[r] \in {"update", "first", "second", "commit"} => Kind[r] = "auth",
         faults' = 0 /\ Kind[r] = "auth" /\ pc'[r] \in After
           => Stored(from[r], to[r]) /\ Stored(to[r], from[r])
  PROVE  \A q \in Request : AuthOf(q)'
<1>1. pc' \in [Request -> ReqPC]
  BY StepRefines DEF ShownInv, TxnInv, CoreType
<1>2. \A q \in Request \ {r} : pc'[q] = pc[q] /\ from'[q] = from[q] /\ to'[q] = to[q]
  BY DEF ShownInv, TxnInv, CoreType
<1>3. AuthOf(r)'
  BY <1>1, UsersStay DEF AuthOf, After, ReqPC
<1> QED BY <1>2, <1>3, AuthOthers

LEMMA AuthKept ==
  ASSUME ShownInv, [Next]_vars
  PROVE  \A q \in Request : AuthOf(q)'
<1>0. /\ TxnInv /\ CoreType /\ faults \in Nat
      /\ \A r \in Request : AuthOf(r)
      /\ faults' = 0 => faults = 0
  BY FaultsCount DEF ShownInv, TxnInv
<1>1. CASE UNCHANGED core
  <2>1. ASSUME NEW q \in Request PROVE AuthOf(q)'
    <3>1. pc'[q] = pc[q] /\ from'[q] = from[q] /\ to'[q] = to[q]
      BY <1>1 DEF core
    <3>2. faults' = 0 /\ pc[q] # "idle" /\ Stored(from[q], to[q]) /\ Stored(to[q], from[q])
            => Stored(from[q], to[q])' /\ Stored(to[q], from[q])'
      BY <3>1, UsersStay
    <3> QED BY <1>0, <3>1, <3>2 DEF AuthOf
  <2> QED BY <2>1
<1>2. ASSUME NEW x \in User, NEW y \in User, NEW r \in Request, SendRequest(r, x, y)
      PROVE  \A q \in Request : AuthOf(q)'
  <2>1. \A q \in Request \ {r} : pc'[q] = pc[q] /\ from'[q] = from[q] /\ to'[q] = to[q]
    BY <1>0, <1>2 DEF SendRequest, Goto, CoreType
  <2>2. /\ Kind[r] = "apply" => pc'[r] = "insert"
        /\ Kind[r] = "auth" => pc'[r] = "update"
        /\ Kind[r] = "text" => pc'[r] = "route"
        /\ Kind[r] \in {"apply", "auth", "text"}
    BY <1>0, <1>2, MessagingAssumption DEF SendRequest, Goto, CoreType
  <2>3. AuthOf(r)'
    BY <2>2 DEF AuthOf
  <2> QED BY <2>1, <2>3, AuthOthers
<1>3. ASSUME NEW r \in Request, DeliveryStep(r)
      PROVE  \A q \in Request : AuthOf(q)'
  <2>1. /\ pc[r] \in After /\ pc'[r] \in After \cup {"done"}
        /\ pc' = [pc EXCEPT ![r] = pc'[r]] /\ UNCHANGED <<from, to>>
    BY <1>0, <1>3 DEF DeliveryStep, Route, DeliverHere, TakeStub, Call, ReturnStub, Reply,
                      Goto, After, sentVars, CoreType
  <2>2. faults' = 0 /\ Kind[r] = "auth" => Stored(from[r], to[r]) /\ Stored(to[r], from[r])
    BY <1>0, <2>1 DEF AuthOf, After
  <2> QED BY <2>1, <2>2, AuthStep DEF After
<1>4. ASSUME NEW r \in Request, FaultStep(r)
      PROVE  \A q \in Request : AuthOf(q)'
  <2>1. faults' # 0
    BY <1>0, <1>4 DEF FaultStep, SqlFails, ApplySqlFails, RouteFails, CallFails, Fault
  <2>2. /\ pc' = [pc EXCEPT ![r] = pc'[r]] /\ UNCHANGED <<from, to>>
        /\ pc[r] # "idle" /\ pc'[r] \in {"route", "first", "reply", "return"}
        /\ pc'[r] = "first" => pc[r] = "update"
    BY <1>0, <1>4 DEF FaultStep, SqlFails, ApplySqlFails, RouteFails, CallFails, Rollback,
                      Goto, sentVars, CoreType
  <2> QED BY <1>0, <2>1, <2>2, AuthStep DEF AuthOf
<1>5. ASSUME NEW r \in Request, SqlStep(r)
      PROVE  \A q \in Request : AuthOf(q)'
  <2>1. /\ pc' = [pc EXCEPT ![r] = pc'[r]] /\ UNCHANGED <<from, to>>
        /\ pc[r] \in {"insert", "update", "first", "second", "commit"}
        /\ pc'[r] \in {"first", "second", "commit", "route"}
        /\ pc[r] = "insert" => pc'[r] = "route"
        /\ pc[r] = "update" => pc'[r] = "first"
    BY <1>0, <1>5 DEF SqlStep, InsertApply, UpdateApply, InsertFirst, InsertSecond,
                      InsertFriend, Commit, DeadlockVictim, Rollback, Goto, sentVars, CoreType
  <2>2. Kind[r] = (IF pc[r] = "insert" THEN "apply" ELSE "auth")
    BY <1>0, <2>1 DEF AuthOf
  <2>3. pc'[r] \in After /\ Kind[r] = "auth" => InTxn(r)
    BY <2>1, <2>2 DEF After, InTxn
  <2> QED BY <2>1, <2>2, <2>3, AuthStep, TxnStored
<1>6. CASE UNCHANGED vars
  BY <1>1, <1>6 DEF vars, core
<1>7. CASE Next
  <2>1. ASSUME NEW w \in User,
               \/ \E s \in Server : ReadApplies(w, s)
               \/ SessionStep(w) \/ ClientStep(w) \/ Disconnect(w) \/ CrashOnClick(w)
               \/ LoadMore(w) \/ \E x \in User : OpenChat(w, x)
        PROVE  \A q \in Request : AuthOf(q)'
    BY <1>1, <2>1, Elsewhere
  <2> QED BY <1>2, <1>3, <1>4, <1>5, <1>7, <2>1 DEF Next
<1> QED BY <1>6, <1>7

(***************************************************************************)
(* Clients.                                                                *)
(***************************************************************************)
(* After a step, everything told or shown was stored before it.            *)
Sound ==
  /\ ClientType'
  /\ faults' = 0 =>
       \A w \in User :
         /\ \A v \in lists'[w].friends : Stored(w, v)
         /\ \A v \in contacts'[w].friends : Stored(w, v)
         /\ \A i \in DOMAIN inbox'[w] : \A v \in Told(inbox'[w][i]) : Stored(w, v)

LEMMA HeardStored ==
  ASSUME ShownInv, faults = 0, NEW w \in User, NEW m, Heard(w, m), NEW v \in Told(m)
  PROVE  Stored(w, v)
BY DEF ShownInv, AllToldStored, Heard

LEMMA MessageTold ==
  ASSUME NEW m \in Message
  PROVE  /\ Told(m) \subseteq User
         /\ m.kind = "login" => /\ m.lists.applies \subseteq Row
                                /\ m.lists.friends \subseteq User
                                /\ Told(m) = m.lists.friends
         /\ m.kind # "login" => m.from \in User
         /\ m.kind \in {"auth", "rsp"} => Told(m) = {m.from}
BY DEF Message, Told, Lists

(* Only the inbox of u changes, and gets a message that is sound.          *)
LEMMA SendSound ==
  ASSUME ShownInv, faults' = 0 => faults = 0,
         NEW u \in User, NEW m \in Message, Send(u, m),
         faults = 0 => \A v \in Told(m) : Stored(u, v),
         UNCHANGED <<lists, contacts>>
  PROVE  Sound
<1>1. /\ inbox' \in [User -> Seq(Message)]
      /\ \A w \in User : \A i \in DOMAIN inbox'[w] :
           Heard(w, inbox'[w][i]) \/ (w = u /\ inbox'[w][i] = m)
  BY SendAdds DEF ShownInv, ClientType
<1>2. ClientType'
  BY <1>1 DEF ShownInv, ClientType
<1>3. ASSUME faults = 0, NEW w \in User, NEW i \in DOMAIN inbox'[w],
             NEW v \in Told(inbox'[w][i])
      PROVE  Stored(w, v)
  BY <1>1, <1>3, HeardStored
<1>4. ASSUME faults = 0, NEW w \in User
      PROVE  /\ \A v \in lists'[w].friends : Stored(w, v)
             /\ \A v \in contacts'[w].friends : Stored(w, v)
  BY <1>4 DEF ShownInv, AllToldStored
<1> QED BY <1>2, <1>3, <1>4 DEF Sound

LEMMA IdleSound ==
  ASSUME ShownInv, faults' = 0 => faults = 0, UNCHANGED <<lists, contacts, inbox>>
  PROVE  Sound
BY DEF ShownInv, Sound, ClientType, AllToldStored

LEMMA NotifySound ==
  ASSUME ShownInv, faults' = 0 => faults = 0, NEW r \in Request,
         pc[r] \in {"local", "call"}, NEW s, Notify(s, r), UNCHANGED <<lists, contacts>>
  PROVE  Sound
<1> DEFINE m == [kind |-> Kind[r], from |-> from[r]]
<1>1. from[r] \in User /\ to[r] \in User /\ Kind[r] \in {"apply", "auth", "text"}
  BY MessagingAssumption DEF ShownInv, TxnInv, TxnOf
<1>2. m \in Message
  BY <1>1 DEF Message
<1>3. faults = 0 => \A v \in Told(m) : Stored(to[r], v)
  BY <1>1 DEF ShownInv, AuthOf, Told
<1>4. CASE UNCHANGED inbox
  BY <1>4, IdleSound
<1>5. CASE Send(to[r], m)
  <2> HIDE DEF m
  <2> QED BY <1>1, <1>2, <1>3, <1>5, SendSound
<1> QED BY <1>4, <1>5 DEF Notify

LEMMA RequestSound ==
  ASSUME ShownInv, faults' = 0 => faults = 0, NEW r \in Request,
         SqlStep(r) \/ DeliveryStep(r) \/ FaultStep(r)
  PROVE  Sound
<1>1. CASE SqlStep(r)
  BY <1>1, IdleSound DEF SqlStep, InsertApply, UpdateApply, InsertFirst, InsertSecond,
     InsertFriend, Commit, DeadlockVictim, Rollback, userVars
<1>2. CASE FaultStep(r)
  BY <1>2, IdleSound DEF FaultStep, SqlFails, ApplySqlFails, RouteFails, CallFails, Rollback,
     userVars
<1>3. CASE Route(r) \/ TakeStub(r) \/ ReturnStub(r)
  BY <1>3, IdleSound DEF Route, TakeStub, ReturnStub, userVars
<1>4. CASE DeliverHere(r)
  BY <1>4, NotifySound DEF DeliverHere, Goto, userVars
<1>5. CASE Call(r)
  BY <1>5, NotifySound DEF Call, Goto, userVars
<1>6. CASE Reply(r)
  <2>1. CASE UNCHANGED inbox
    BY <1>6, <2>1, IdleSound DEF Reply, userVars
  <2>2. CASE Kind[r] = "auth" /\ Send(from[r], [kind |-> "rsp", from |-> to[r]])
    <3> DEFINE m == [kind |-> "rsp", from |-> to[r]]
    <3>1. from[r] \in User /\ to[r] \in User /\ pc[r] = "reply"
      BY <1>6 DEF Reply, Goto, ShownInv, TxnInv, TxnOf
    <3>2. m \in Message
      BY <3>1 DEF Message
    <3>3. faults = 0 => \A v \in Told(m) : Stored(from[r], v)
      BY <2>2, <3>1 DEF ShownInv, AuthOf, Told
    <3>4. UNCHANGED <<lists, contacts>>
      BY <1>6 DEF Reply, userVars
    <3> HIDE DEF m
    <3> QED BY <2>2, <3>1, <3>2, <3>3, <3>4, SendSound DEF m
  <2> QED BY <1>6, <2>1, <2>2 DEF Reply
<1> QED BY <1>1, <1>2, <1>3, <1>4, <1>5, <1>6 DEF DeliveryStep

(* The client handles a message, after which its window shows nobody but   *)
(* who was shown before or is told of by the message.                      *)
LEMMA HandleSound ==
  ASSUME ShownInv, faults' = 0 => faults = 0,
         NEW u \in User, inbox[u] # <<>>, NEW c \in ContactsType, Handle(u, c),
         c.friends \subseteq contacts[u].friends \cup Told(Head(inbox[u]))
  PROVE  Sound
<1>1. /\ inbox' = [inbox EXCEPT ![u] = Tail(@)]
      /\ contacts' = [contacts EXCEPT ![u] = c]
      /\ UNCHANGED lists
  BY DEF Handle, userVars
<1>2. /\ inbox' \in [User -> Seq(Message)]
      /\ Heard(u, Head(inbox[u]))
      /\ \A w \in User : \A i \in DOMAIN inbox'[w] : Heard(w, inbox'[w][i])
  BY <1>1, TailKeeps DEF ShownInv, ClientType
<1>3. ClientType'
  BY <1>1, <1>2 DEF ShownInv, ClientType
<1>4. ASSUME faults = 0, NEW w \in User
      PROVE  /\ \A v \in lists'[w].friends : Stored(w, v)
             /\ \A i \in DOMAIN inbox'[w] : \A v \in Told(inbox'[w][i]) : Stored(w, v)
  BY <1>1, <1>2, <1>4, HeardStored DEF ShownInv, AllToldStored
<1>5. ASSUME faults = 0, NEW v \in c.friends PROVE Stored(u, v)
  BY <1>2, <1>5, HeardStored DEF ShownInv, AllToldStored
<1>6. ASSUME faults = 0, NEW w \in User, NEW v \in contacts'[w].friends
      PROVE  Stored(w, v)
  <2>1. CASE w = u
    BY <1>1, <1>5, <1>6, <2>1 DEF ShownInv, ClientType
  <2>2. CASE w # u
    BY <1>1, <1>6, <2>2 DEF ShownInv, ClientType, AllToldStored
  <2> QED BY <2>1, <2>2
<1> QED BY <1>3, <1>4, <1>6 DEF Sound

LEMMA ClientSound ==
  ASSUME ShownInv, faults' = 0 => faults = 0, NEW u \in User,
         OpenWindow(u) \/ Unheard(u) \/ HearApply(u) \/ HearFriend(u) \/ HearText(u)
  PROVE  Sound
<1>1. contacts[u] \in ContactsType /\ inbox \in [User -> Seq(Message)]
  BY DEF ShownInv, ClientType
<1>2. inbox[u] # <<>>
  BY DEF OpenWindow, Unheard, HearApply, HearFriend, HearText
<1> DEFINE m == Head(inbox[u])
<1>3. m \in Message
  <2>1. inbox[u] \in Seq(Message)
    BY <1>1
  <2> QED BY <1>2, <2>1
<1>4. CASE OpenWindow(u)
  <2> DEFINE w == Opened(m.lists.applies, m.lists.friends)
  <2>1. m.kind = "login" /\ \E P \in NextPages(w) : Handle(u, LoadPage(w, P))
    BY <1>4 DEF OpenWindow
  <2>2. w \in ContactsType /\ w.friends = Told(m)
    BY <1>3, <2>1, MessageTold, OpenedFriends
  <2> HIDE DEF w
  <2>3. PICK P \in NextPages(w) : Handle(u, LoadPage(w, P))
    BY <2>1
  <2>4. LoadPage(w, P) \in ContactsType /\ LoadPage(w, P).friends = Told(m)
    BY <2>2, <2>3, NextPagesType, LoadPageFriends
  <2> QED BY <1>2, <2>3, <2>4, HandleSound
<1>5. CASE Unheard(u)
  BY <1>1, <1>2, <1>5, HandleSound DEF Unheard
<1>6. CASE HearApply(u)
  <2>1. m.from \in User
    BY <1>3, <1>6, MessageTold DEF HearApply
  <2> QED BY <1>1, <1>2, <1>6, <2>1, WithApplyFriends, HandleSound DEF HearApply
<1>7. CASE HearFriend(u)
  <2>1. m.from \in User /\ Told(m) = {m.from}
    BY <1>3, <1>7, MessageTold DEF HearFriend
  <2> QED BY <1>1, <1>2, <1>7, <2>1, WithFriendFriends, HandleSound DEF HearFriend
<1>8. CASE HearText(u)
  <2>1. m.from \in User
    BY <1>3, <1>8, MessageTold DEF HearText
  <2> QED BY <1>1, <1>2, <1>8, <2>1, WithTextFriends, HandleSound DEF HearText
<1> QED BY <1>4, <1>5, <1>6, <1>7, <1>8

(* The user's own steps show nobody new.                                   *)
LEMMA WindowSound ==
  ASSUME ShownInv, faults' = 0 => faults = 0, NEW u \in User,
         LoadMore(u) \/ \E v \in User : OpenChat(u, v)
  PROVE  Sound
<1>1. contacts[u] \in ContactsType
  BY DEF ShownInv, ClientType
<1>2. PICK c \in ContactsType : /\ contacts' = [contacts EXCEPT ![u] = c]
                                /\ c.friends = contacts[u].friends
  <2>1. CASE LoadMore(u)
    <3>1. PICK P \in NextPages(contacts[u]) :
            contacts' = [contacts EXCEPT ![u] = LoadPage(@, P)]
      BY <2>1 DEF LoadMore
    <3> QED BY <1>1, <3>1, NextPagesType, LoadPageFriends
  <2>2. ASSUME NEW v \in User, OpenChat(u, v)
        PROVE  contacts' = [contacts EXCEPT ![u] = WithChat(@, v)]
    BY <2>2 DEF OpenChat
  <2> QED BY <1>1, <2>1, <2>2, WithChatFriends
<1>3. UNCHANGED <<lists, inbox>>
  BY DEF LoadMore, OpenChat, userVars
<1>4. ClientType'
  BY <1>2, <1>3 DEF ShownInv, ClientType
<1>5. \A w \in User : contacts'[w].friends = contacts[w].friends
  BY <1>2 DEF ShownInv, ClientType
<1> QED BY <1>3, <1>4, <1>5 DEF ShownInv, AllToldStored, Sound

(* The client forgets everything.                                          *)
LEMMA DisconnectSound ==
  ASSUME ShownInv, faults' = 0 => faults = 0, NEW u \in User, Disconnect(u)
  PROVE  Sound
<1>1. /\ inbox' = [inbox EXCEPT ![u] = <<>>]
      /\ contacts' = [contacts EXCEPT ![u] = NoContacts]
      /\ UNCHANGED lists
  BY DEF Disconnect
<1>2. NoContacts \in ContactsType /\ NoContacts.friends = {}
  BY DEF NoContacts, ContactsType
<1>3. ClientType'
  BY <1>1, <1>2 DEF ShownInv, ClientType
<1>4. ASSUME NEW w \in User
      PROVE  /\ contacts'[w].friends \subseteq contacts[w].friends
             /\ inbox'[w] = inbox[w] \/ inbox'[w] = <<>>
  BY <1>1, <1>2 DEF ShownInv, ClientType
<1> QED BY <1>1, <1>3, <1>4 DEF ShownInv, AllToldStored, Sound

(* A login is told what the table says.                                    *)
LEMMA SessionSound ==
  ASSUME ShownInv, faults' = 0 => faults = 0, NEW u \in User,
         SessionStep(u) \/ \E s \in Server : ReadApplies(u, s)
  PROVE  Sound
<1>0. lists \in [User -> Lists] /\ friend_apply \in Seq(Row)
  BY DEF ShownInv, ClientType, TxnInv, CoreType
<1>1. ASSUME NEW s \in Server, ReadApplies(u, s) PROVE Sound
  <2> DEFINE mine == {i \in DOMAIN friend_apply : friend_apply[i].to = u}
             page == {i \in mine : Cardinality({j \in mine : j <= i}) <= ApplyLimit}
             L == [applies |-> {friend_apply[i] : i \in page}, friends |-> {}]
  <2>1. lists' = [lists EXCEPT ![u] = L] /\ UNCHANGED <<contacts, inbox>>
    BY <1>1 DEF ReadApplies
  <2>2. \A i \in DOMAIN friend_apply : friend_apply[i] \in Row
    BY <1>0
  <2>3. L \in Lists /\ L.friends = {}
    BY <2>2 DEF Lists
  <2> HIDE DEF L
  <2>4. ClientType'
    BY <1>0, <2>1, <2>3 DEF ShownInv, ClientType
  <2>5. \A w \in User : lists'[w].friends \subseteq lists[w].friends
    BY <1>0, <2>1, <2>3
  <2> QED BY <2>1, <2>4, <2>5 DEF ShownInv, AllToldStored, Sound
<1>2. CASE ReadFriends(u)
  <2> DEFINE F == {v \in User : <<u, v>> \in friend}
  <2>1. lists' = [lists EXCEPT ![u].friends = F] /\ UNCHANGED <<contacts, inbox>>
    BY <1>2 DEF ReadFriends
  <2> DEFINE L == [lists[u] EXCEPT !.friends = F]
  <2>2. lists'[u].friends = F /\ lists'[u] \in Lists
    <3>1. lists[u] \in Lists /\ F \subseteq User
      BY <1>0
    <3>2. L \in Lists
      BY <3>1 DEF Lists
    <3>3. L.friends = F
      BY <3>1 DEF Lists
    <3>4. lists'[u] = L
      BY <1>0, <2>1
    <3> QED BY <3>2, <3>3, <3>4
  <2>3. lists' \in [User -> Lists] /\ \A w \in User \ {u} : lists'[w] = lists[w]
    BY <1>0, <2>1, <2>2
  <2>4. \A v \in F : Stored(u, v)
    BY DEF Stored
  <2> QED BY <2>1, <2>2, <2>3, <2>4 DEF ShownInv, ClientType, AllToldStored, Sound
<1>3. CASE LoginReply(u)
  <2> DEFINE m == [kind |-> "login", lists |-> lists[u]]
  <2>1. /\ Send(u, m) /\ lists' = [lists EXCEPT ![u] = NoLists] /\ UNCHANGED contacts
    BY <1>3 DEF LoginReply
  <2>2. m \in Message /\ Told(m) = lists[u].friends
    BY <1>0 DEF Message, Told
  <2> HIDE DEF m
  <2>3. /\ inbox' \in [User -> Seq(Message)]
        /\ \A w \in User : \A i \in DOMAIN inbox'[w] :
             Heard(w, inbox'[w][i]) \/ (w = u /\ inbox'[w][i] = m)
    BY <2>1, <2>2, SendAdds DEF ShownInv, ClientType
  <2>4. NoLists \in Lists /\ NoLists.friends = {}
    BY DEF NoLists, Lists
  <2>5. ClientType'
    BY <1>0, <2>1, <2>3, <2>4 DEF ShownInv, ClientType
  <2>6. \A w \in User : lists'[w].friends \subseteq lists[w].friends
    BY <1>0, <2>1, <2>4
  <2>7. ASSUME faults = 0, NEW w \in User, NEW i \in DOMAIN inbox'[w],
               NEW v \in Told(inbox'[w][i])
        PROVE  Stored(w, v)
    <3>1. CASE Heard(w, inbox'[w][i])
      BY <2>7, <3>1, HeardStored
    <3>2. CASE w = u /\ inbox'[w][i] = m
      BY <2>2, <2>7, <3>2 DEF ShownInv, AllToldStored
    <3> QED BY <2>3, <3>1, <3>2
  <2> QED BY <2>1, <2>5, <2>6, <2>7 DEF ShownInv, AllToldStored, Sound
<1>4. CASE SetIp(u) \/ SetUserSession(u) \/ DelIp(u) \/ CleanSession(u)
  BY <1>4, IdleSound DEF SetIp, SetUserSession, DelIp, CleanSession
<1> QED BY <1>1, <1>2, <1>3, <1>4 DEF SessionStep

LEMMA NextSound ==
  ASSUME ShownInv, [Next]_vars
  PROVE  Sound
<1>0. faults' = 0 => faults = 0
  BY FaultsCount DEF ShownInv
<1>1. CASE UNCHANGED vars
  BY <1>0, <1>1, IdleSound DEF vars
<1>2. ASSUME NEW u \in User, ClientStep(u) \/ Disconnect(u) \/ CrashOnClick(u)
      PROVE  Sound
  BY <1>0, <1>2, ClientSound, DisconnectSound DEF ClientStep, CrashOnText, CrashOnClick
<1>3. ASSUME NEW u \in User, NEW v \in User, NEW r \in Request, SendRequest(r, u, v)
      PROVE  Sound
  BY <1>0, <1>3, IdleSound DEF SendRequest, userVars
<1> QED BY <1>0, <1>1, <1>2, <1>3, SessionSound, WindowSound, RequestSound DEF Next

-----------------------------------------------------------------------------
LEMMA SymmetricKept ==
  ASSUME ShownInv, [Next]_vars
  PROVE  Symmetric'
<1>1. [Abstract!Next]_(Abstract!vars) /\ TxnInv
  BY StepRefines DEF ShownInv
<1>2. CASE UNCHANGED friend
  BY <1>2 DEF ShownInv, Symmetric
<1>3. ASSUME NEW a \in User, NEW b \in User, friend' = friend \cup {<<a, b>>, <<b, a>>}
      PROVE  Symmetric'
  BY <1>3 DEF ShownInv, Symmetric
<1> QED BY <1>1, <1>2, <1>3 DEF Abstract!Next, Abstract!vars, Abstract!Apply, Abstract!Befriend

LEMMA NextShown == ShownInv /\ [Next]_vars => ShownInv'
<1> SUFFICES ASSUME ShownInv, [Next]_vars PROVE ShownInv'
  OBVIOUS
<1>1. TxnInv'
  BY StepRefines DEF ShownInv
<1>2. Sound
  BY NextSound
<1>3. faults' \in Nat
  BY FaultsCount DEF ShownInv
<1>4. AllToldStored'
  <2> SUFFICES ASSUME faults' = 0, NEW w \in User
               PROVE  /\ \A v \in lists'[w].friends : Stored(w, v)'
                      /\ \A v \in contacts'[w].friends : Stored(w, v)'
                      /\ \A i \in DOMAIN inbox'[w] :
                           \A v \in Told(inbox'[w][i]) : Stored(w, v)'
    BY DEF AllToldStored, Told
  <2>1. \A v \in User : Stored(w, v) => Stored(w, v)'
    BY StoredLasts
  <2>2. lists'[w].friends \subseteq User /\ contacts'[w].friends \subseteq User
    BY <1>2 DEF Sound, ClientType, Lists, ContactsType
  <2>3. ASSUME NEW i \in DOMAIN inbox'[w] PROVE Told(inbox'[w][i]) \subseteq User
    <3>1. inbox'[w] \in Seq(Message)
      BY <1>2 DEF Sound, ClientType
    <3>2. inbox'[w][i] \in Message
      BY <2>3, <3>1
    <3> QED BY <3>2, MessageTold
  <2> QED BY <1>2, <2>1, <2>2, <2>3 DEF Sound
<1> QED BY <1>1, <1>2, <1>3, <1>4, AuthKept, SymmetricKept DEF ShownInv, Sound

(* Nobody is shown, or told of, a friend the table does not have and no    *)
(* running transaction is about to store, until a statement fails.         *)
THEOREM ShownIsStoredHolds == Spec => []ShownIsStored
<1>1. Init => ShownInv
  BY InitShown
<1>2. ShownInv /\ [Next]_vars => ShownInv'
  BY NextShown
<1>3. ShownInv => ShownIsStored
  <2> SUFFICES ASSUME ShownInv, faults = 0, NEW u \in User, NEW v \in User, Known(u, v)
               PROVE  <<u, v>> \in friend \/ InTransaction(u, v)
    BY DEF ShownIsStored
  <2>1. CASE v \in contacts[u].friends
    BY <2>1 DEF ShownInv, AllToldStored, Stored
  <2>2. ASSUME NEW i \in DOMAIN inbox[u],
               inbox[u][i].kind \in {"auth", "rsp"}, inbox[u][i].from = v
        PROVE  Stored(u, v)
    <3>1. v \in Told(inbox[u][i])
      BY <2>2 DEF Told
    <3> QED BY <3>1 DEF ShownInv, AllToldStored
  <2> QED BY <2>1, <2>2 DEF Known, Stored
<1> QED BY <1>1, <1>2, <1>3, PTL DEF Spec

(***************************************************************************)
(* What a step does, as the invariants below need it.                      *)
(***************************************************************************)
UserStep(u) ==
  \/ \E s \in Server : ReadApplies(u, s)
  \/ SessionStep(u) \/ ClientStep(u) \/ Disconnect(u) \/ CrashOnClick(u)
  \/ LoadMore(u) \/ \E v \in User : OpenChat(u, v)

RequestStep(r) == SqlStep(r) \/ DeliveryStep(r) \/ FaultStep(r)

LEMMA WhoSteps ==
  ASSUME [Next]_vars
  PROVE  \/ UNCHANGED vars
         \/ \E u \in User : UserStep(u)
         \/ \E r \in Request : RequestStep(r)
         \/ \E r \in Request, u, v \in User : SendRequest(r, u, v)
BY DEF Next, UserStep, RequestStep

LEMMA UserLeavesCore ==
  ASSUME NEW u \in User, UserStep(u)
  PROVE  UNCHANGED core
BY Elsewhere DEF UserStep

(* A request on its way moves on, alone and with its users.                *)
LEMMA RequestMoves ==
  ASSUME ShownInv, NEW r \in Request, RequestStep(r)
  PROVE  /\ pc' = [pc EXCEPT ![r] = pc'[r]]
         /\ UNCHANGED <<from, to, lists, contacts>>
         /\ pc[r] \notin {"idle", "done"}
         /\ pc'[r] \notin {"idle", "insert", "update"}
         /\ pc'[r] \in {"first", "second", "commit"} =>
              pc[r] \in {"update", "first", "second"}
<1>0. CoreType
  BY DEF ShownInv, TxnInv
<1>1. CASE SqlStep(r)
  BY <1>0, <1>1 DEF SqlStep, InsertApply, UpdateApply, InsertFirst, InsertSecond,
     InsertFriend, Commit, DeadlockVictim, Rollback, Goto, sentVars, userVars, CoreType
<1>2. CASE DeliveryStep(r)
  BY <1>0, <1>2 DEF DeliveryStep, Route, DeliverHere, TakeStub, Call, ReturnStub, Reply,
     Goto, sentVars, userVars, CoreType
<1>3. CASE FaultStep(r)
  BY <1>0, <1>3 DEF FaultStep, SqlFails, ApplySqlFails, RouteFails, CallFails, Rollback,
     Goto, sentVars, userVars, CoreType
<1> QED BY <1>1, <1>2, <1>3 DEF RequestStep

LEMMA Sending ==
  ASSUME ShownInv, NEW r \in Request, NEW u \in User, NEW v \in User, SendRequest(r, u, v)
  PROVE  /\ pc[r] = "idle" /\ pc' = [pc EXCEPT ![r] = pc'[r]]
         /\ pc'[r] = CASE Kind[r] = "apply" -> "insert"
                       [] Kind[r] = "auth"  -> "update"
                       [] Kind[r] = "text"  -> "route"
         /\ Kind[r] \in {"apply", "auth", "text"}
         /\ from' = [from EXCEPT ![r] = u] /\ to' = [to EXCEPT ![r] = v]
         /\ from'[r] = u /\ to'[r] = v
         /\ MaySend(r, u, v)
         /\ UNCHANGED <<friend_apply, friend, lists, contacts, inbox>>
BY MessagingAssumption
   DEF SendRequest, Goto, ShownInv, TxnInv, CoreType, dbVars, userVars

(* The others stay where they are.                                         *)
LEMMA OneMoves ==
  ASSUME ShownInv, [Next]_vars, NEW r \in Request
  PROVE  \/ pc'[r] = pc[r] /\ from'[r] = from[r] /\ to'[r] = to[r]
         \/ RequestStep(r)
         \/ \E u, v \in User : SendRequest(r, u, v)
<1>0. CoreType
  BY DEF ShownInv, TxnInv
<1>1. CASE UNCHANGED vars
  BY <1>1 DEF vars
<1>2. ASSUME NEW u \in User, UserStep(u)
      PROVE  pc'[r] = pc[r] /\ from'[r] = from[r] /\ to'[r] = to[r]
  BY <1>2, UserLeavesCore DEF core
<1>3. ASSUME NEW q \in Request \ {r}, RequestStep(q)
      PROVE  pc'[r] = pc[r] /\ from'[r] = from[r] /\ to'[r] = to[r]
  <2>1. pc' = [pc EXCEPT ![q] = pc'[q]] /\ UNCHANGED <<from, to>>
    BY <1>3, RequestMoves
  <2> QED BY <1>0, <2>1 DEF CoreType
<1>4. ASSUME NEW q \in Request \ {r}, NEW u \in User, NEW v \in User, SendRequest(q, u, v)
      PROVE  pc'[r] = pc[r] /\ from'[r] = from[r] /\ to'[r] = to[r]
  <2>1. /\ pc' = [pc EXCEPT ![q] = pc'[q]]
        /\ from' = [from EXCEPT ![q] = u] /\ to' = [to EXCEPT ![q] = v]
    BY <1>4, Sending
  <2> QED BY <1>0, <2>1 DEF CoreType
<1> QED BY <1>1, <1>2, <1>3, <1>4, WhoSteps

(* What comes into the inbox of w.                                         *)
Arrives(w, m) ==
  \/ m = [kind |-> "login", lists |-> lists[w]]
  \/ \E r \in Request : /\ w = to[r] /\ pc[r] \in {"local", "call"}
                        /\ m = [kind |-> Kind[r], from |-> from[r]]
  \/ \E r \in Request : m = [kind |-> "rsp", from |-> to[r]]

LEMMA SentArrives ==
  ASSUME ShownInv, NEW u \in User, NEW m \in Message, Send(u, m), Arrives(u, m),
         NEW w \in User, NEW i \in DOMAIN inbox'[w]
  PROVE  Heard(w, inbox'[w][i]) \/ Arrives(w, inbox'[w][i])
<1>1. Heard(w, inbox'[w][i]) \/ (w = u /\ inbox'[w][i] = m)
  BY SendAdds DEF ShownInv, ClientType
<1> QED BY <1>1

LEMMA NotifyArrives ==
  ASSUME ShownInv, NEW r \in Request, pc[r] \in {"local", "call"}, NEW s, Notify(s, r),
         NEW w \in User, NEW i \in DOMAIN inbox'[w]
  PROVE  Heard(w, inbox'[w][i]) \/ Arrives(w, inbox'[w][i])
<1>1. from[r] \in User /\ to[r] \in User /\ Kind[r] \in {"apply", "auth", "text"}
  BY MessagingAssumption DEF ShownInv, TxnInv, TxnOf
<1>2. CASE UNCHANGED inbox
  BY <1>2 DEF Heard
<1>3. CASE Send(to[r], [kind |-> Kind[r], from |-> from[r]])
  <2> DEFINE m == [kind |-> Kind[r], from |-> from[r]]
  <2>1. m \in Message
    BY <1>1 DEF Message
  <2>2. Arrives(to[r], m)
    BY DEF Arrives
  <2> HIDE DEF m
  <2> QED BY <1>1, <1>3, <2>1, <2>2, SentArrives DEF m
<1> QED BY <1>2, <1>3 DEF Notify

LEMMA Arrivals ==
  ASSUME ShownInv, [Next]_vars, NEW w \in User, NEW i \in DOMAIN inbox'[w]
  PROVE  Heard(w, inbox'[w][i]) \/ Arrives(w, inbox'[w][i])
<1> DEFINE G == Heard(w, inbox'[w][i]) \/ Arrives(w, inbox'[w][i])
<1>0. inbox \in [User -> Seq(Message)] /\ lists \in [User -> Lists]
  BY DEF ShownInv, ClientType
<1>1. CASE UNCHANGED inbox
  BY <1>1 DEF Heard
<1>2. ASSUME NEW u \in User, inbox' = [inbox EXCEPT ![u] = Tail(@)], inbox[u] # <<>> PROVE G
  BY <1>0, <1>2, TailKeeps
<1>3. ASSUME NEW u \in User, Disconnect(u) PROVE G
  <2>1. inbox' = [inbox EXCEPT ![u] = <<>>]
    BY <1>3 DEF Disconnect
  <2> QED BY <1>0, <2>1 DEF Heard
<1>4. ASSUME NEW u \in User, LoginReply(u) PROVE G
  <2> DEFINE m == [kind |-> "login", lists |-> lists[u]]
  <2>1. m \in Message /\ Send(u, m) /\ Arrives(u, m)
    BY <1>0, <1>4 DEF LoginReply, Message, Arrives
  <2> HIDE DEF m
  <2> QED BY <2>1, SentArrives
<1>5. ASSUME NEW u \in User, UserStep(u) PROVE G
  <2>1. CASE ClientStep(u)
    BY <1>2, <1>3, <2>1 DEF ClientStep, OpenWindow, Unheard, HearApply, HearFriend, HearText,
       CrashOnText, Handle
  <2>2. CASE SessionStep(u) \/ \E s \in Server : ReadApplies(u, s)
    BY <1>1, <1>4, <2>2 DEF SessionStep, ReadApplies, ReadFriends, SetIp, SetUserSession,
       DelIp, CleanSession
  <2>3. CASE Disconnect(u) \/ CrashOnClick(u)
    BY <1>3, <2>3 DEF CrashOnClick
  <2>4. CASE LoadMore(u) \/ \E v \in User : OpenChat(u, v)
    BY <1>1, <2>4 DEF LoadMore, OpenChat
  <2> QED BY <1>5, <2>1, <2>2, <2>3, <2>4 DEF UserStep
<1>6. ASSUME NEW r \in Request, RequestStep(r) PROVE G
  <2>1. CASE SqlStep(r)
    BY <1>1, <2>1 DEF SqlStep, InsertApply, UpdateApply, InsertFirst, InsertSecond,
       InsertFriend, Commit, DeadlockVictim, Rollback
  <2>2. CASE FaultStep(r)
    BY <1>1, <2>2 DEF FaultStep, SqlFails, ApplySqlFails, RouteFails, CallFails, Rollback
  <2>3. CASE Route(r) \/ TakeStub(r) \/ ReturnStub(r)
    BY <1>1, <2>3 DEF Route, TakeStub, ReturnStub
  <2>4. CASE DeliverHere(r)
    BY <2>4, NotifyArrives DEF DeliverHere, Goto
  <2>5. CASE Call(r)
    BY <2>5, NotifyArrives DEF Call, Goto
  <2>6. CASE Reply(r)
    <3>1. from[r] \in User /\ to[r] \in User
      BY <2>6 DEF Reply, Goto, ShownInv, TxnInv, TxnOf
    <3> DEFINE m == [kind |-> "rsp", from |-> to[r]]
    <3>2. m \in Message /\ Arrives(from[r], m)
      BY <3>1 DEF Message, Arrives
    <3>3. UNCHANGED inbox \/ Send(from[r], m)
      BY <2>6 DEF Reply
    <3> HIDE DEF m
    <3> QED BY <1>1, <3>1, <3>2, <3>3, SentArrives
  <2> QED BY <1>6, <2>1, <2>2, <2>3, <2>4, <2>5, <2>6 DEF RequestStep, DeliveryStep
<1>7. CASE UNCHANGED vars
  BY <1>1, <1>7 DEF vars
<1>8. ASSUME NEW r \in Request, NEW u \in User, NEW v \in User, SendRequest(r, u, v) PROVE G
  BY <1>1, <1>8, Sending
<1>9. G
  BY <1>5, <1>6, <1>7, <1>8, WhoSteps
<1> QED BY <1>9

(* What the window of u becomes.                                           *)
NewWindow(u, c) ==
  \/ c \in {contacts[u], NoContacts}
  \/ /\ inbox[u] # <<>>
     /\ LET m == Head(inbox[u])
            w == Opened(m.lists.applies, m.lists.friends)
        IN  \/ m.kind = "login" /\ \E P \in NextPages(w) : c = LoadPage(w, P)
            \/ m.kind = "apply" /\ c = WithApply(contacts[u], m.from)
            \/ m.kind \in {"auth", "rsp"} /\ c = WithFriend(contacts[u], m.from)
            \/ m.kind = "text" /\ c = WithText(contacts[u], m.from)
  \/ \E P \in NextPages(contacts[u]) : c = LoadPage(contacts[u], P)
  \/ \E v \in contacts[u].friends : c = WithChat(contacts[u], v)

LEMMA Windows ==
  ASSUME ShownInv, [Next]_vars, NEW u \in User
  PROVE  NewWindow(u, contacts'[u])
<1>0. contacts \in [User -> ContactsType]
  BY DEF ShownInv, ClientType
<1>1. CASE UNCHANGED contacts
  BY <1>1 DEF NewWindow
<1>2. ASSUME NEW w \in User, NEW c, contacts' = [contacts EXCEPT ![w] = c], NewWindow(w, c)
      PROVE  NewWindow(u, contacts'[u])
  BY <1>0, <1>2 DEF NewWindow
<1>3. ASSUME NEW w \in User, Disconnect(w) PROVE NewWindow(u, contacts'[u])
  BY <1>2, <1>3 DEF Disconnect, NewWindow
<1>4. ASSUME NEW w \in User, ClientStep(w) PROVE NewWindow(u, contacts'[u])
  <2> DEFINE m == Head(inbox[w])
             o == Opened(m.lists.applies, m.lists.friends)
  <2>1. ASSUME OpenWindow(w) PROVE NewWindow(u, contacts'[u])
    <3>1. inbox[w] # <<>> /\ m.kind = "login" /\ \E P \in NextPages(o) : Handle(w, LoadPage(o, P))
      BY <2>1 DEF OpenWindow
    <3> HIDE DEF o
    <3>2. PICK P \in NextPages(o) : contacts' = [contacts EXCEPT ![w] = LoadPage(o, P)]
      BY <3>1 DEF Handle
    <3>3. NewWindow(w, LoadPage(o, P))
      BY <3>1, <3>2 DEF NewWindow, o
    <3> QED BY <1>2, <3>2, <3>3
  <2>2. ASSUME Unheard(w) PROVE NewWindow(u, contacts'[u])
    BY <1>2, <2>2 DEF Unheard, Handle, NewWindow
  <2>3. ASSUME HearApply(w) PROVE NewWindow(u, contacts'[u])
    BY <1>2, <2>3 DEF HearApply, Handle, NewWindow
  <2>4. ASSUME HearFriend(w) PROVE NewWindow(u, contacts'[u])
    BY <1>2, <2>4 DEF HearFriend, Handle, NewWindow
  <2>5. ASSUME HearText(w) PROVE NewWindow(u, contacts'[u])
    BY <1>2, <2>5 DEF HearText, Handle, NewWindow
  <2> QED BY <1>3, <1>4, <2>1, <2>2, <2>3, <2>4, <2>5 DEF ClientStep, CrashOnText
<1>5. ASSUME NEW w \in User, LoadMore(w) PROVE NewWindow(u, contacts'[u])
  <2>1. PICK P \in NextPages(contacts[w]) :
          contacts' = [contacts EXCEPT ![w] = LoadPage(contacts[w], P)]
    BY <1>5 DEF LoadMore
  <2> QED BY <1>2, <2>1 DEF NewWindow
<1>6. ASSUME NEW w \in User, NEW v \in User, OpenChat(w, v) PROVE NewWindow(u, contacts'[u])
  BY <1>2, <1>6 DEF OpenChat, NewWindow
<1>7. ASSUME NEW w \in User, SessionStep(w) \/ \E s \in Server : ReadApplies(w, s)
      PROVE  UNCHANGED contacts
  BY <1>7 DEF SessionStep, ReadApplies, ReadFriends, SetIp, SetUserSession, LoginReply,
     DelIp, CleanSession
<1>8. ASSUME NEW w \in User, UserStep(w) PROVE NewWindow(u, contacts'[u])
  BY <1>1, <1>3, <1>4, <1>5, <1>6, <1>7, <1>8 DEF UserStep, CrashOnClick
<1>9. CASE UNCHANGED vars
  BY <1>1, <1>9 DEF vars
<1> QED BY <1>1, <1>8, <1>9, WhoSteps, RequestMoves, Sending

LEMMA FirstHeard ==
  ASSUME ShownInv, NEW u \in User, inbox[u] # <<>>
  PROVE  Head(inbox[u]) \in Message /\ Heard(u, Head(inbox[u]))
<1>1. inbox[u] \in Seq(Message)
  BY DEF ShownInv, ClientType
<1>2. 1 \in DOMAIN inbox[u] /\ Head(inbox[u]) = inbox[u][1] /\ Head(inbox[u]) \in Message
  BY <1>1
<1> QED BY <1>2 DEF Heard


(***************************************************************************)
(* Texts.  A page belongs to a user shown as a friend, and a text that has *)
(* been sent has a receiver whose friend the sender is.                    *)
(***************************************************************************)
PagesOfFriends ==
  \A u \in User : /\ contacts[u].list \subseteq contacts[u].friends
                  /\ contacts[u].pages \subseteq contacts[u].friends

TextOf(r) ==
  faults = 0 /\ Kind[r] = "text" /\ pc[r] \notin {"idle", "done"} => Stored(to[r], from[r])

TextsStored ==
  faults = 0 =>
    \A u \in User : \A i \in DOMAIN inbox[u] :
      inbox[u][i].kind = "text" => Stored(u, inbox[u][i].from)

TextInv ==
  /\ ShownInv
  /\ PagesOfFriends
  /\ \A r \in Request : TextOf(r)
  /\ TextsStored


(* Being stored is mutual.                                                 *)
LEMMA StoredBoth ==
  ASSUME ShownInv, NEW u \in User, NEW v \in User, Stored(u, v)
  PROVE  Stored(v, u)
<1>1. {u, v} = {v, u}
  OBVIOUS
<1> QED BY <1>1 DEF ShownInv, Symmetric, Stored, InTransaction

LEMMA PagesKept ==
  ASSUME ShownInv, PagesOfFriends, [Next]_vars
  PROVE  PagesOfFriends'
<1> SUFFICES ASSUME NEW u \in User
             PROVE  /\ contacts'[u].list \subseteq contacts'[u].friends
                    /\ contacts'[u].pages \subseteq contacts'[u].friends
  BY DEF PagesOfFriends
<1>0. contacts[u] \in ContactsType
  BY DEF ShownInv, ClientType
<1> DEFINE c == contacts[u]
           Good(d) == d.list \subseteq d.friends /\ d.pages \subseteq d.friends
<1>1. Good(c)
  BY DEF PagesOfFriends
<1>2. Good(NoContacts)
  BY DEF NoContacts
<1>3. ASSUME NEW d \in ContactsType, Good(d), NEW P \in NextPages(d)
      PROVE  Good(LoadPage(d, P))
  BY <1>3 DEF LoadPage, NextPages, ContactsType
<1>4. ASSUME NEW A \in SUBSET Row, NEW L \in SUBSET User
      PROVE  Good(Opened(A, L)) /\ Opened(A, L) \in ContactsType
  BY OpenedFriends DEF Opened, NoContacts
<1>5. ASSUME NEW v \in User
      PROVE  /\ Good(WithApply(c, v)) /\ Good(WithFriend(c, v)) /\ Good(WithText(c, v))
             /\ v \in c.friends => Good(WithChat(c, v))
  BY <1>0, <1>1 DEF WithApply, WithFriend, WithText, WithChat, ContactsType
<1>6. CASE contacts'[u] \in {contacts[u], NoContacts}
  BY <1>1, <1>2, <1>6
<1>7. ASSUME NEW P \in NextPages(contacts[u]), contacts'[u] = LoadPage(contacts[u], P)
      PROVE  Good(contacts'[u])
  BY <1>0, <1>1, <1>3, <1>7
<1>8. ASSUME NEW v \in contacts[u].friends, contacts'[u] = WithChat(contacts[u], v)
      PROVE  Good(contacts'[u])
  <2>1. v \in User
    BY <1>0 DEF ContactsType
  <2> QED BY <1>5, <1>8, <2>1
<1>9. ASSUME inbox[u] # <<>>,
             LET m == Head(inbox[u])
                 w == Opened(m.lists.applies, m.lists.friends)
             IN  \/ m.kind = "login" /\ \E P \in NextPages(w) : contacts'[u] = LoadPage(w, P)
                 \/ m.kind = "apply" /\ contacts'[u] = WithApply(contacts[u], m.from)
                 \/ m.kind \in {"auth", "rsp"} /\ contacts'[u] = WithFriend(contacts[u], m.from)
                 \/ m.kind = "text" /\ contacts'[u] = WithText(contacts[u], m.from)
      PROVE  Good(contacts'[u])
  <2> DEFINE m == Head(inbox[u])
             w == Opened(m.lists.applies, m.lists.friends)
  <2>1. m \in Message
    BY <1>9, FirstHeard
  <2>2. CASE m.kind # "login"
    <3>1. m.from \in User
      BY <2>1, <2>2, MessageTold
    <3> QED BY <1>5, <1>9, <2>2, <3>1
  <2>3. CASE m.kind = "login"
    <3>1. m.lists.applies \in SUBSET Row /\ m.lists.friends \in SUBSET User
      BY <2>1, <2>3, MessageTold
    <3>2. Good(w) /\ w \in ContactsType
      BY <1>4, <3>1
    <3>3. PICK P \in NextPages(w) : contacts'[u] = LoadPage(w, P)
      BY <1>9, <2>3
    <3> HIDE DEF w
    <3> QED BY <1>3, <3>2, <3>3
  <2> QED BY <2>2, <2>3
<1>10. NewWindow(u, contacts'[u])
  BY Windows
<1> QED BY <1>6, <1>7, <1>8, <1>9, <1>10 DEF NewWindow

LEMMA TextOfKept ==
  ASSUME TextInv, [Next]_vars, NEW r \in Request
  PROVE  TextOf(r)'
<1>0. ShownInv /\ faults \in Nat /\ (faults' = 0 => faults = 0)
  BY FaultsCount DEF TextInv, ShownInv
<1> SUFFICES ASSUME faults' = 0, Kind[r] = "text", pc'[r] \notin {"idle", "done"}
             PROVE  Stored(to[r], from[r])'
  BY DEF TextOf
<1>1. ASSUME from'[r] = from[r], to'[r] = to[r], pc[r] \notin {"idle", "done"}
      PROVE  Stored(to[r], from[r])'
  <2>1. from[r] \in User /\ to[r] \in User
    BY <1>0, <1>1 DEF ShownInv, TxnInv, TxnOf
  <2>2. Stored(to[r], from[r]) /\ Stored(from[r], to[r])
    BY <1>0, <1>1, <2>1, StoredBoth DEF TextInv, TextOf
  <2> QED BY <1>0, <1>1, <2>2, UsersStay
<1>2. CASE RequestStep(r)
  BY <1>0, <1>1, <1>2, RequestMoves
<1>3. ASSUME NEW u \in User, NEW v \in User, SendRequest(r, u, v)
      PROVE  Stored(to[r], from[r])'
  <2>1. v \in contacts[u].pages /\ UNCHANGED friend /\ from'[r] = u /\ to'[r] = v
    <3>1. MaySend(r, u, v) /\ UNCHANGED friend /\ from'[r] = u /\ to'[r] = v
      BY <1>0, <1>3, Sending
    <3> QED BY <1>0, <3>1 DEF MaySend
  <2>2. Stored(u, v)
    BY <1>0, <2>1 DEF TextInv, PagesOfFriends, ShownInv, AllToldStored
  <2>3. Stored(v, u)
    BY <1>0, <2>2, StoredBoth
  <2>4. StoredNext(v, u)
    BY <1>0, <2>3, StoredStays
  <2>5. StoredNext(to'[r], from'[r])
    BY <2>1, <2>4
  <2> QED BY <2>5 DEF StoredNext, Stored, InTransaction
<1>4. CASE pc'[r] = pc[r] /\ from'[r] = from[r] /\ to'[r] = to[r]
  BY <1>1, <1>4
<1> QED BY <1>0, <1>2, <1>3, <1>4, OneMoves

LEMMA TextsKept ==
  ASSUME TextInv, [Next]_vars
  PROVE  TextsStored'
<1>0. ShownInv /\ faults \in Nat /\ (faults' = 0 => faults = 0)
  BY FaultsCount DEF TextInv, ShownInv
<1> SUFFICES ASSUME faults' = 0, NEW u \in User, NEW i \in DOMAIN inbox'[u],
                    inbox'[u][i].kind = "text"
             PROVE  StoredNext(u, inbox'[u][i].from)
  BY DEF TextsStored, Stored, InTransaction, StoredNext
<1> DEFINE m == inbox'[u][i]
<1>1. Stored(u, m.from)
  <2>1. CASE Heard(u, m)
    BY <1>0, <2>1 DEF Heard, TextInv, TextsStored
  <2>2. ASSUME NEW r \in Request, u = to[r], pc[r] \in {"local", "call"},
               m = [kind |-> Kind[r], from |-> from[r]]
        PROVE  Stored(u, m.from)
    BY <1>0, <2>2 DEF TextInv, TextOf
  <2>3. Heard(u, m) \/ Arrives(u, m)
    BY <1>0, Arrivals
  <2>4. m.kind = "text"
    OBVIOUS
  <2> HIDE DEF m
  <2> QED BY <2>1, <2>2, <2>3, <2>4 DEF Arrives
<1>2. m.from \in User
  <2>1. inbox' \in [User -> Seq(Message)]
    BY <1>0, NextShown DEF ShownInv, ClientType
  <2>2. m \in Message
    BY <2>1
  <2> QED BY <2>2, MessageTold
<1> QED BY <1>0, <1>1, <1>2, StoredStays

(* A text reaches only users who are, or are about to be, friends of its   *)
(* sender, although no server tests it.                                    *)
THEOREM TextFromFriendHolds == Spec => []TextFromFriend
<1>1. Init => TextInv
  <2> SUFFICES ASSUME Init PROVE TextInv
    OBVIOUS
  <2>1. PagesOfFriends /\ TextsStored /\ \A r \in Request : TextOf(r)
    BY DEF Init, NoContacts, PagesOfFriends, TextsStored, TextOf
  <2> QED BY <2>1, InitShown DEF TextInv
<1>2. TextInv /\ [Next]_vars => TextInv'
  BY NextShown, PagesKept, TextOfKept, TextsKept DEF TextInv
<1>3. TextInv => TextFromFriend
  <2> SUFFICES ASSUME TextInv, faults = 0, NEW u \in User, NEW v \in User,
                      NEW i \in DOMAIN inbox[u], inbox[u][i] = [kind |-> "text", from |-> v]
               PROVE  <<u, v>> \in friend \/ InTransaction(u, v)
    BY DEF TextFromFriend
  <2>1. inbox[u][i].kind = "text" /\ inbox[u][i].from = v
    OBVIOUS
  <2> QED BY <2>1 DEF TextInv, TextsStored, Stored
<1> QED BY <1>1, <1>2, <1>3, PTL DEF Spec

(***************************************************************************)
(* Applications.                                                           *)
(***************************************************************************)
(* Whom a message makes an applicant.                                      *)
Applicants(m) ==
  IF m.kind = "login" THEN {row.from : row \in m.lists.applies}
  ELSE IF m.kind = "apply" THEN {m.from}
  ELSE {}

AskedApplied ==
  faults = 0 =>
    \A u \in User :
      /\ \A row \in lists[u].applies : <<row.from, u>> \in Pairs
      /\ \A v \in contacts[u].asked : <<v, u>> \in Pairs
      /\ \A i \in DOMAIN inbox[u] : \A v \in Applicants(inbox[u][i]) : <<v, u>> \in Pairs

ApplyOf(r) ==
  faults = 0 =>
    /\ Kind[r] = "apply" /\ pc[r] \in After => Forth(r) \in Pairs
    /\ pc[r] = "update" => Back(r) \in Pairs
    /\ pc[r] \in {"first", "second", "commit"} => Accepted(to[r], from[r])

AcceptedStored ==
  faults = 0 => \A a, b \in User : Accepted(a, b) => Stored(a, b)

FriendsAccepted ==
  faults = 0 =>
    \A a, b \in User : <<a, b>> \in friend => Accepted(a, b) \/ Accepted(b, a)

StatusInv ==
  /\ ShownInv
  /\ AskedApplied
  /\ \A r \in Request : ApplyOf(r)
  /\ AcceptedStored
  /\ FriendsAccepted


(* Accepted(a, b)', but of the users as they were before the step.         *)
AcceptedNext(a, b) ==
  \E i \in DOMAIN friend_apply' :
    friend_apply'[i].from = a /\ friend_apply'[i].to = b /\ friend_apply'[i].status = 1

LEMMA PairsLast ==
  ASSUME ShownInv, [Next]_vars
  PROVE  Pairs \subseteq Pairs'
<1>1. [Abstract!Next]_(Abstract!vars)
  BY StepRefines DEF ShownInv
<1> QED BY <1>1 DEF Abstract!Next, Abstract!vars, Abstract!Apply, Abstract!Befriend

(* INSERT leaves the rows alone; a new one is pending.                     *)
LEMMA InsertRow ==
  ASSUME ShownInv, NEW r \in Request, InsertApply(r)
  PROVE  /\ DOMAIN friend_apply \subseteq DOMAIN friend_apply'
         /\ \A i \in DOMAIN friend_apply : friend_apply'[i] = friend_apply[i]
         /\ \A i \in DOMAIN friend_apply' \ DOMAIN friend_apply : friend_apply'[i].status = 0
         /\ Forth(r) \in Pairs'
<1>0. friend_apply \in Seq(Row) /\ from[r] \in User /\ to[r] \in User
  BY DEF ShownInv, TxnInv, CoreType, TxnOf, InsertApply, Goto
<1>1. CASE UNCHANGED friend_apply /\ \E i \in DOMAIN friend_apply : IsRow(i, from[r], to[r])
  BY <1>1 DEF IsRow, Pairs, Forth
<1>2. CASE friend_apply' =
             Append(friend_apply, [from |-> from[r], to |-> to[r], status |-> 0])
  <2> DEFINE row == [from |-> from[r], to |-> to[r], status |-> 0]
             n == Len(friend_apply)
  <2>1. row \in Row /\ row.from = from[r] /\ row.to = to[r] /\ row.status = 0
    BY <1>0 DEF Row
  <2> HIDE DEF row
  <2>2. /\ n \in Nat /\ DOMAIN friend_apply = 1 .. n /\ DOMAIN friend_apply' = 1 .. (n + 1)
        /\ \A i \in 1 .. n : friend_apply'[i] = friend_apply[i]
        /\ friend_apply'[n + 1] = row
    BY <1>0, <1>2, <2>1 DEF row
  <2>3. n + 1 \in DOMAIN friend_apply' /\ \A i \in 1 .. (n + 1) : i \notin 1 .. n => i = n + 1
    BY <2>2
  <2> HIDE DEF n
  <2>4. Forth(r) \in Pairs'
    BY <2>1, <2>2, <2>3 DEF Forth, Pairs
  <2>5. \A i \in 1 .. n : i \in 1 .. (n + 1)
    BY <2>2
  <2> QED BY <2>1, <2>2, <2>3, <2>4, <2>5
<1> QED BY <1>1, <1>2 DEF InsertApply

(* UPDATE accepts the applications of to[r] to from[r], and no other.      *)
LEMMA UpdateRow ==
  ASSUME ShownInv, NEW r \in Request, UpdateApply(r)
  PROVE  /\ DOMAIN friend_apply' = DOMAIN friend_apply
         /\ \A i \in DOMAIN friend_apply :
              /\ friend_apply'[i].from = friend_apply[i].from
              /\ friend_apply'[i].to = friend_apply[i].to
              /\ friend_apply'[i].status =
                   IF IsRow(i, to[r], from[r]) THEN 1 ELSE friend_apply[i].status
<1>0. friend_apply \in Seq(Row)
  BY DEF ShownInv, TxnInv, CoreType
<1>1. DOMAIN friend_apply' = DOMAIN friend_apply
  BY DEF UpdateApply
<1>2. ASSUME NEW i \in DOMAIN friend_apply
      PROVE  /\ friend_apply'[i].from = friend_apply[i].from
             /\ friend_apply'[i].to = friend_apply[i].to
             /\ friend_apply'[i].status =
                  IF IsRow(i, to[r], from[r]) THEN 1 ELSE friend_apply[i].status
  <2>1. friend_apply[i] \in Row
    BY <1>0
  <2>2. friend_apply'[i] = IF IsRow(i, to[r], from[r])
                             THEN [friend_apply[i] EXCEPT !.status = 1] ELSE friend_apply[i]
    BY DEF UpdateApply
  <2> QED BY <2>1, <2>2 DEF Row
<1> QED BY <1>1, <1>2

(* Nothing else writes friend_apply.                                       *)
LEMMA ApplyWriters ==
  ASSUME ShownInv, [Next]_vars
  PROVE  \/ UNCHANGED friend_apply
         \/ \E r \in Request : InsertApply(r) \/ UpdateApply(r)
<1>1. ASSUME NEW u \in User, UserStep(u) PROVE UNCHANGED friend_apply
  BY <1>1, UserLeavesCore DEF core
<1>2. ASSUME NEW r \in Request, RequestStep(r), ~InsertApply(r), ~UpdateApply(r)
      PROVE  UNCHANGED friend_apply
  BY <1>2, Moving DEF RequestStep, SqlStep, FaultStep, Move, InsertFirst, InsertSecond,
     InsertFriend, Commit, DeadlockVictim, SqlFails, Rollback, dbVars
<1>3. CASE UNCHANGED vars
  BY <1>3 DEF vars
<1> QED BY <1>1, <1>2, <1>3, WhoSteps, Sending

(* An application is accepted once and for all, and by UpdateApply only.   *)
LEMMA AcceptedLasts ==
  ASSUME ShownInv, [Next]_vars, NEW a, NEW b
  PROVE  /\ Accepted(a, b) => AcceptedNext(a, b)
         /\ AcceptedNext(a, b) =>
              Accepted(a, b) \/ \E r \in Request : UpdateApply(r) /\ a = to[r] /\ b = from[r]
<1>1. CASE UNCHANGED friend_apply
  BY <1>1 DEF Accepted, AcceptedNext, IsRow
<1>2. ASSUME NEW r \in Request, InsertApply(r)
      PROVE  Accepted(a, b) <=> AcceptedNext(a, b)
  BY <1>2, InsertRow DEF Accepted, AcceptedNext, IsRow
<1>3. ASSUME NEW r \in Request, UpdateApply(r)
      PROVE  /\ Accepted(a, b) => AcceptedNext(a, b)
             /\ AcceptedNext(a, b) => Accepted(a, b) \/ (a = to[r] /\ b = from[r])
  BY <1>3, UpdateRow DEF Accepted, AcceptedNext, IsRow
<1> QED BY <1>1, <1>2, <1>3, ApplyWriters

(* What a login has read of applications is in the table.                  *)
LEMMA ListsRead ==
  ASSUME ShownInv, [Next]_vars, NEW u \in User, NEW row \in lists'[u].applies
  PROVE  row \in lists[u].applies \/ <<row.from, u>> \in Pairs
<1>0. lists \in [User -> Lists]
  BY DEF ShownInv, ClientType
<1>1. CASE UNCHANGED lists
  BY <1>1
<1>2. ASSUME NEW w \in User, NEW s \in Server, ReadApplies(w, s)
      PROVE  row \in lists[u].applies \/ <<row.from, u>> \in Pairs
  <2> DEFINE mine == {i \in DOMAIN friend_apply : friend_apply[i].to = w}
             page == {i \in mine : Cardinality({j \in mine : j <= i}) <= ApplyLimit}
             L == [applies |-> {friend_apply[i] : i \in page}, friends |-> {}]
  <2>1. lists' = [lists EXCEPT ![w] = L]
    BY <1>2 DEF ReadApplies
  <2>2. CASE u = w
    <3>1. row \in L.applies
      BY <1>0, <2>1, <2>2
    <3>2. PICK i \in mine : row = friend_apply[i]
      BY <3>1
    <3> QED BY <2>2, <3>2 DEF Pairs
  <2>3. CASE u # w
    BY <1>0, <2>1, <2>3
  <2> QED BY <2>2, <2>3
<1>3. ASSUME NEW w \in User, ReadFriends(w) \/ LoginReply(w)
      PROVE  row \in lists[u].applies
  <2>1. lists[u] \in Lists /\ lists[w] \in Lists
    BY <1>0
  <2>2. CASE ReadFriends(w)
    BY <1>0, <2>1, <2>2 DEF ReadFriends, Lists
  <2>3. CASE LoginReply(w)
    BY <1>0, <2>3 DEF LoginReply, NoLists
  <2> QED BY <1>3, <2>2, <2>3
<1>4. ASSUME NEW w \in User, UserStep(w), ~ReadFriends(w), ~LoginReply(w),
             ~ \E s \in Server : ReadApplies(w, s)
      PROVE  UNCHANGED lists
  BY <1>4 DEF UserStep, SessionStep, SetIp, SetUserSession, DelIp, CleanSession, ClientStep,
     OpenWindow, Unheard, HearApply, HearFriend, HearText, CrashOnText, CrashOnClick,
     Disconnect, Handle, LoadMore, OpenChat, userVars
<1>5. CASE UNCHANGED vars
  BY <1>5 DEF vars
<1> QED BY <1>1, <1>2, <1>3, <1>4, <1>5, WhoSteps, RequestMoves, Sending

LEMMA InitStatus == Init => StatusInv
<1> SUFFICES ASSUME Init PROVE StatusInv
  OBVIOUS
<1>1. AskedApplied /\ \A r \in Request : ApplyOf(r)
  BY DEF Init, AskedApplied, ApplyOf, NoLists, NoContacts, After
<1>2. ASSUME NEW a \in User, NEW b \in User, Accepted(a, b) PROVE Stored(a, b)
  <2>1. PICK i \in DOMAIN OldApplies :
          OldApplies[i].from = a /\ OldApplies[i].to = b /\ OldApplies[i].status = 1
    BY <1>2 DEF Accepted, IsRow, Init
  <2>2. OldApplies[i] \in OldAccepted
    BY <2>1 DEF OldAccepted
  <2> QED BY <2>1, <2>2 DEF Init, Stored
<1>3. ASSUME NEW a \in User, NEW b \in User, <<a, b>> \in friend
      PROVE  Accepted(a, b) \/ Accepted(b, a)
  <2>1. PICK row \in OldAccepted : <<a, b>> \in {<<row.from, row.to>>, <<row.to, row.from>>}
    BY <1>3 DEF Init
  <2>2. PICK i \in DOMAIN OldApplies : row = OldApplies[i] /\ row.status = 1
    BY <2>1 DEF OldAccepted
  <2> QED BY <2>1, <2>2 DEF Init, Accepted, IsRow
<1> QED BY <1>1, <1>2, <1>3, InitShown DEF StatusInv, AcceptedStored, FriendsAccepted

LEMMA AskedKept ==
  ASSUME StatusInv, [Next]_vars
  PROVE  AskedApplied'
<1>0. ShownInv /\ faults \in Nat /\ (faults' = 0 => faults = 0) /\ Pairs \subseteq Pairs'
  BY FaultsCount, PairsLast DEF StatusInv, ShownInv
<1> SUFFICES ASSUME faults' = 0, NEW u \in User
             PROVE  /\ \A row \in lists'[u].applies : <<row.from, u>> \in Pairs'
                    /\ \A v \in contacts'[u].asked : <<v, u>> \in Pairs'
                    /\ \A i \in DOMAIN inbox'[u] :
                         \A v \in Applicants(inbox'[u][i]) : <<v, u>> \in Pairs'
  BY DEF AskedApplied, Applicants
<1>1. /\ \A row \in lists[u].applies : <<row.from, u>> \in Pairs
      /\ \A v \in contacts[u].asked : <<v, u>> \in Pairs
      /\ \A m : Heard(u, m) => \A v \in Applicants(m) : <<v, u>> \in Pairs
  BY <1>0 DEF StatusInv, AskedApplied, Heard
<1>2. \A row \in lists'[u].applies : <<row.from, u>> \in Pairs
  BY <1>0, <1>1, ListsRead
<1>3. ASSUME NEW i \in DOMAIN inbox'[u], NEW v \in Applicants(inbox'[u][i])
      PROVE  <<v, u>> \in Pairs
  <2> DEFINE m == inbox'[u][i]
  <2>1. Heard(u, m) \/ Arrives(u, m)
    BY <1>0, Arrivals
  <2>2. v \in Applicants(m)
    BY <1>3
  <2> HIDE DEF m
  <2>3. CASE m = [kind |-> "login", lists |-> lists[u]]
    <3>1. m.kind = "login" /\ m.lists = lists[u]
      BY <2>3
    <3> QED BY <1>1, <2>2, <3>1 DEF Applicants
  <2>4. ASSUME NEW r \in Request, u = to[r], pc[r] \in {"local", "call"},
               m = [kind |-> Kind[r], from |-> from[r]]
        PROVE  <<v, u>> \in Pairs
    <3>1. m.kind = Kind[r] /\ m.from = from[r] /\ Kind[r] \in {"apply", "auth", "text"}
      BY <2>4, MessagingAssumption
    <3>2. Kind[r] = "apply" /\ v = from[r]
      BY <2>2, <3>1 DEF Applicants
    <3>3. Forth(r) \in Pairs
      BY <1>0, <2>4, <3>2 DEF StatusInv, ApplyOf, After
    <3> QED BY <2>4, <3>2, <3>3 DEF Forth
  <2>5. ASSUME NEW r \in Request, m = [kind |-> "rsp", from |-> to[r]]
        PROVE  FALSE
    BY <2>2, <2>5 DEF Applicants
  <2> QED BY <1>1, <2>1, <2>2, <2>3, <2>4, <2>5 DEF Arrives
<1>4. ASSUME NEW v \in contacts'[u].asked PROVE <<v, u>> \in Pairs
  <2> DEFINE c == contacts[u]
             d == contacts'[u]
             m == Head(inbox[u])
             w == Opened(m.lists.applies, m.lists.friends)
  <2>0. c \in ContactsType /\ NewWindow(u, d)
    BY <1>0, Windows DEF ShownInv, ClientType
  <2>1. \A P : LoadPage(c, P).asked = c.asked
    BY <2>0 DEF LoadPage, ContactsType
  <2>2. \A x : /\ WithFriend(c, x).asked = c.asked
               /\ WithText(c, x).asked = c.asked
               /\ WithChat(c, x).asked = c.asked
               /\ WithApply(c, x).asked \subseteq c.asked \cup {x}
    BY <2>0 DEF WithFriend, WithText, WithChat, WithApply, ContactsType
  <2>3. CASE v \in c.asked
    BY <1>1, <2>3
  <2>4. ASSUME inbox[u] # <<>>, m.kind = "apply", v = m.from
        PROVE  <<v, u>> \in Pairs
    <3>1. Heard(u, m)
      BY <1>0, <2>4, FirstHeard
    <3>2. v \in Applicants(m)
      BY <2>4 DEF Applicants
    <3> QED BY <1>1, <3>1, <3>2
  <2>5. ASSUME inbox[u] # <<>>, m.kind = "login", NEW P \in NextPages(w), d = LoadPage(w, P)
        PROVE  <<v, u>> \in Pairs
    <3>1. Heard(u, m) /\ m \in Message
      BY <1>0, <2>5, FirstHeard
    <3>2. m.lists.applies \subseteq Row /\ m.lists.friends \subseteq User
      BY <2>5, <3>1, MessageTold
    <3>3. w \in ContactsType /\ w.asked \subseteq {row.from : row \in m.lists.applies}
      <4>1. w \in ContactsType
        BY <3>2, OpenedFriends
      <4>2. w.asked = {row.from : row \in {b \in m.lists.applies : b.status = 0}}
        BY DEF Opened, NoContacts
      <4> QED BY <4>1, <4>2
    <3> HIDE DEF w, m
    <3>4. LoadPage(w, P).asked = w.asked
      BY <3>3 DEF LoadPage, ContactsType
    <3>5. v \in Applicants(m)
      BY <1>4, <2>5, <3>3, <3>4 DEF Applicants
    <3> QED BY <1>1, <3>1, <3>5
  <2>6. v \in d.asked /\ NoContacts.asked = {}
    BY <1>4 DEF NoContacts
  <2> HIDE DEF c, d, m, w
  <2> QED BY <2>0, <2>1, <2>2, <2>3, <2>4, <2>5, <2>6 DEF NewWindow, c, m, w
<1> QED BY <1>0, <1>2, <1>3, <1>4

LEMMA ApplyOfKept ==
  ASSUME StatusInv, [Next]_vars, NEW r \in Request
  PROVE  ApplyOf(r)'
<1>0. ShownInv /\ faults \in Nat /\ (faults' = 0 => faults = 0) /\ Pairs \subseteq Pairs'
  BY FaultsCount, PairsLast DEF StatusInv, ShownInv
<1> SUFFICES ASSUME faults' = 0
             PROVE  /\ Kind[r] = "apply" /\ pc'[r] \in After => <<from'[r], to'[r]>> \in Pairs'
                    /\ pc'[r] = "update" => <<to'[r], from'[r]>> \in Pairs'
                    /\ pc'[r] \in {"first", "second", "commit"} => AcceptedNext(to'[r], from'[r])
  BY DEF ApplyOf, After, Forth, Back, Accepted, AcceptedNext, IsRow
<1>1. /\ Kind[r] = "apply" /\ pc[r] \in After => <<from[r], to[r]>> \in Pairs
      /\ pc[r] = "update" => <<to[r], from[r]>> \in Pairs
      /\ pc[r] \in {"first", "second", "commit"} => AcceptedNext(to[r], from[r])
  BY <1>0, AcceptedLasts DEF StatusInv, ApplyOf, Forth, Back
<1>2. CASE pc'[r] = pc[r] /\ from'[r] = from[r] /\ to'[r] = to[r]
  BY <1>0, <1>1, <1>2
<1>3. ASSUME NEW u \in User, NEW v \in User, SendRequest(r, u, v)
      PROVE  /\ pc'[r] \in After => Kind[r] # "apply"
             /\ pc'[r] = "update" => <<to'[r], from'[r]>> \in Pairs'
             /\ pc'[r] \notin {"first", "second", "commit"}
  <2>1. /\ Kind[r] = "auth" => v \in contacts[u].asked
        /\ from'[r] = u /\ to'[r] = v
        /\ pc'[r] = CASE Kind[r] = "apply" -> "insert"
                      [] Kind[r] = "auth"  -> "update"
                      [] Kind[r] = "text"  -> "route"
        /\ Kind[r] \in {"apply", "auth", "text"}
    BY <1>0, <1>3, Sending DEF MaySend
  <2>2. Kind[r] = "auth" => <<v, u>> \in Pairs
    BY <1>0, <2>1 DEF StatusInv, AskedApplied
  <2> QED BY <1>0, <2>1, <2>2 DEF After
<1>4. CASE RequestStep(r)
  <2>1. /\ UNCHANGED <<from, to>> /\ pc[r] \notin {"idle", "done"}
        /\ pc'[r] # "update"
        /\ pc'[r] \in {"first", "second", "commit"} => pc[r] \in {"update", "first", "second"}
    BY <1>0, <1>4, RequestMoves
  <2>2. ~FaultStep(r)
    BY <1>0 DEF FaultStep, SqlFails, ApplySqlFails, RouteFails, CallFails, Fault
  <2>3. pc[r] = "insert" => InsertApply(r)
    BY <1>4, <2>2 DEF RequestStep, SqlStep, DeliveryStep, UpdateApply, InsertFirst,
       InsertSecond, InsertFriend, Commit, DeadlockVictim, Route, DeliverHere, TakeStub, Call,
       ReturnStub, Reply, Goto
  <2>4. pc[r] = "update" => UpdateApply(r)
    BY <1>4, <2>2 DEF RequestStep, SqlStep, DeliveryStep, InsertApply, InsertFirst,
       InsertSecond, InsertFriend, Commit, DeadlockVictim, Route, DeliverHere, TakeStub, Call,
       ReturnStub, Reply, Goto
  <2>5. ASSUME Kind[r] = "apply", pc'[r] \in After PROVE <<from[r], to[r]>> \in Pairs'
    <3>1. pc[r] \in ReqPC /\ AuthOf(r)
      BY <1>0 DEF ShownInv, TxnInv, CoreType
    <3>2. pc[r] \in After \cup {"insert"}
      BY <2>1, <2>5, <3>1 DEF AuthOf, ReqPC, After
    <3>3. CASE pc[r] = "insert"
      BY <1>0, <2>3, <3>3, InsertRow DEF Forth
    <3> QED BY <1>0, <1>1, <2>5, <3>2, <3>3
  <2>6. ASSUME pc[r] = "update" PROVE AcceptedNext(to[r], from[r])
    <3>1. PICK i \in DOMAIN friend_apply : IsRow(i, to[r], from[r])
      <4>1. <<to[r], from[r]>> \in Pairs
        BY <1>1, <2>6
      <4> QED BY <4>1 DEF Pairs, IsRow
    <3> QED BY <1>0, <2>4, <2>6, <3>1, UpdateRow DEF AcceptedNext, IsRow
  <2> QED BY <1>1, <2>1, <2>5, <2>6
<1> QED BY <1>0, <1>2, <1>3, <1>4, OneMoves

LEMMA AcceptedKept ==
  ASSUME StatusInv, [Next]_vars
  PROVE  AcceptedStored'
<1>0. ShownInv /\ faults \in Nat /\ (faults' = 0 => faults = 0)
  BY FaultsCount DEF StatusInv, ShownInv
<1> SUFFICES ASSUME faults' = 0, NEW a \in User, NEW b \in User, AcceptedNext(a, b)
             PROVE  StoredNext(a, b)
  BY DEF AcceptedStored, Accepted, AcceptedNext, IsRow, Stored, InTransaction, StoredNext
<1>1. CASE Accepted(a, b)
  BY <1>0, <1>1, StoredStays DEF StatusInv, AcceptedStored
<1>2. ASSUME NEW r \in Request, UpdateApply(r), a = to[r], b = from[r]
      PROVE  StoredNext(a, b)
  <2>1. pc[r] = "update" /\ pc'[r] = "first" /\ from'[r] = b /\ to'[r] = a
    <3>1. pc[r] = "update" /\ pc' = [pc EXCEPT ![r] = "first"] /\ UNCHANGED <<from, to>>
      BY <1>2 DEF UpdateApply, Goto, sentVars
    <3> QED BY <1>0, <1>2, <3>1 DEF ShownInv, TxnInv, CoreType
  <2>2. Kind[r] = "auth"
    BY <1>0, <2>1 DEF ShownInv, AuthOf
  <2> QED BY <2>1, <2>2 DEF StoredNext
<1> QED BY <1>0, <1>1, <1>2, AcceptedLasts

LEMMA FriendsKept ==
  ASSUME StatusInv, [Next]_vars
  PROVE  FriendsAccepted'
<1>0. ShownInv /\ faults \in Nat /\ (faults' = 0 => faults = 0)
  BY FaultsCount DEF StatusInv, ShownInv
<1> SUFFICES ASSUME faults' = 0, NEW a \in User, NEW b \in User, <<a, b>> \in friend'
             PROVE  AcceptedNext(a, b) \/ AcceptedNext(b, a)
  BY DEF FriendsAccepted, Accepted, AcceptedNext, IsRow
<1>1. CASE <<a, b>> \in friend
  BY <1>0, <1>1, AcceptedLasts DEF StatusInv, FriendsAccepted
<1>2. ASSUME NEW r \in Request, Commit(r)
      PROVE  AcceptedNext(a, b) \/ AcceptedNext(b, a) \/ <<a, b>> \in friend
  <2>1. friend' = friend \cup {Forth(r), Back(r)} /\ pc[r] = "commit"
    BY <1>0, <1>2, CommitBefriends DEF ShownInv, Commit, Goto
  <2>2. AcceptedNext(to[r], from[r])
    BY <1>0, <2>1, AcceptedLasts DEF StatusInv, ApplyOf
  <2> QED BY <2>1, <2>2 DEF Forth, Back
<1>3. ASSUME NEW u \in User, UserStep(u) PROVE friend' = friend
  BY <1>3, UserLeavesCore DEF core
<1>4. ASSUME NEW r \in Request, RequestStep(r), ~Commit(r)
      PROVE  friend' = friend
  BY <1>4, Moving DEF RequestStep, SqlStep, FaultStep, Move, InsertFirst, InsertSecond,
     InsertFriend, InsertApply, UpdateApply, DeadlockVictim, SqlFails, Rollback, dbVars
<1>5. UNCHANGED vars => friend' = friend
  BY DEF vars
<1>6. friend' = friend \/ \E r \in Request : Commit(r)
  <2>1. ASSUME NEW r \in Request, NEW u \in User, NEW v \in User, SendRequest(r, u, v)
        PROVE  friend' = friend
    BY <1>0, <2>1, Sending
  <2> QED BY <1>3, <1>4, <1>5, <2>1, WhoSteps
<1> QED BY <1>1, <1>2, <1>6

(* friend_apply and friend, written by separate commands whose results     *)
(* nobody looks at, agree until a statement fails: an accepted application *)
(* means friends, and friends have an accepted application.                *)
THEOREM StatusMatchesFriendshipHolds == Spec => []StatusMatchesFriendship
<1>1. Init => StatusInv
  BY InitStatus
<1>2. StatusInv /\ [Next]_vars => StatusInv'
  BY NextShown, AskedKept, ApplyOfKept, AcceptedKept, FriendsKept DEF StatusInv
<1>3. StatusInv => StatusMatchesFriendship
  BY DEF StatusInv, AcceptedStored, FriendsAccepted, StatusMatchesFriendship, Stored
<1> QED BY <1>1, <1>2, <1>3, PTL DEF Spec

(***************************************************************************)
(* Notices.                                                                *)
(***************************************************************************)
SessionType ==
  /\ uip \in [User -> Server \cup {Nil}]
  /\ userMgr \in [User -> Server \cup {Nil}]
  /\ phase \in [User -> Phase]
  /\ srv \in [User -> Server \cup {Nil}]
  /\ epoch \in [User -> Nat]
  /\ home \in [Request -> Server \cup {Nil}]
  /\ route \in [Request -> Server \cup {Nil}]
  /\ seen \in [Request -> Nat]

IsLogin(u, i) == i \in DOMAIN inbox[u] /\ inbox[u][i].kind = "login"

(* Where a user is found, and when the answer to his login is under way.   *)
SessionOf(u) ==
  /\ phase[u] \in {"friends", "setip", "setuser", "reply", "in"} => srv[u] \in Server
  /\ phase[u] \in {"setuser", "reply", "in"} => uip[u] = srv[u]
  /\ phase[u] \in {"reply", "in"} => userMgr[u] = srv[u]
  /\ contacts[u].open => phase[u] = "in"
  /\ \A i \in DOMAIN inbox[u] : IsLogin(u, i) => phase[u] = "in" /\ ~contacts[u].open
  /\ \A i, j \in DOMAIN inbox[u] : IsLogin(u, i) /\ IsLogin(u, j) => i = j

(* The window that was open when r was routed.                             *)
Watching(r) == seen[r] # 0 /\ seen[r] = epoch[to[r]] /\ contacts[to[r]].open

HasApply(u, v) ==
  \/ v \in contacts[u].applied
  \/ \E i \in DOMAIN inbox[u] : inbox[u][i] = [kind |-> "apply", from |-> v]

Reached(r) ==
  /\ Kind[r] = "auth" => Known(to[r], from[r])
  /\ Kind[r] = "apply" => HasApply(to[r], from[r])

Gone == {"lost", "clean", "out"}

(* A request that has not looked for its receiver.                         *)
Early == {"idle", "insert", "update", "first", "second", "commit", "route"}

LookupOf(r) ==
  /\ pc[r] \in Early => seen[r] = 0
  /\ seen[r] # 0 =>
       /\ seen[r] <= epoch[to[r]]
       /\ seen[r] = epoch[to[r]] /\ phase[to[r]] \notin Gone => contacts[to[r]].open
  /\ Watching(r) =>
       /\ pc[r] \in {"local", "take", "call"} => route[r] = srv[to[r]]
       /\ pc[r] = "local" => home[r] = srv[to[r]]
       /\ faults = 0 /\ pc[r] \in {"return", "reply", "done"} => Reached(r)

NoticeInv ==
  /\ ShownInv
  /\ SessionType
  /\ \A u \in User : SessionOf(u)
  /\ \A r \in Request : LookupOf(r)

LEMMA InitNotice == Init => NoticeInv
<1> SUFFICES ASSUME Init PROVE NoticeInv
  OBVIOUS
<1>1. SessionType
  BY DEF Init, SessionType, Phase
<1>2. \A u \in User : SessionOf(u)
  BY DEF Init, SessionOf, IsLogin, NoContacts
<1>3. \A r \in Request : LookupOf(r)
  BY DEF Init, LookupOf, Watching
<1> QED BY <1>1, <1>2, <1>3, InitShown DEF NoticeInv

(* A request leaves the sessions and the windows alone.                    *)
LEMMA RequestsApart ==
  ASSUME NEW r \in Request,
         RequestStep(r) \/ \E u, v \in User : SendRequest(r, u, v)
  PROVE  UNCHANGED <<uip, userMgr, phase, srv, epoch, contacts>>
<1>1. CASE SqlStep(r)
  BY <1>1 DEF SqlStep, InsertApply, UpdateApply, InsertFirst, InsertSecond, InsertFriend,
     Commit, DeadlockVictim, Rollback, userVars
<1>2. CASE DeliveryStep(r)
  BY <1>2 DEF DeliveryStep, Route, DeliverHere, TakeStub, Call, ReturnStub, Reply, userVars
<1>3. CASE FaultStep(r)
  BY <1>3 DEF FaultStep, SqlFails, ApplySqlFails, RouteFails, CallFails, Rollback, userVars
<1>4. CASE \E u, v \in User : SendRequest(r, u, v)
  BY <1>4 DEF SendRequest, userVars
<1> QED BY <1>1, <1>2, <1>3, <1>4 DEF RequestStep

(* The inbox of u after a step of a request: a message that is not the     *)
(* answer to a login may have come.                                        *)
Grows(u, m) ==
  /\ phase[u] \in {"reply", "in"} /\ m \in Message /\ m.kind # "login"
  /\ inbox'[u] = Append(inbox[u], m)

LEMMA InboxGrows ==
  ASSUME ShownInv, NEW r \in Request,
         RequestStep(r) \/ \E u, v \in User : SendRequest(r, u, v),
         NEW u \in User
  PROVE  inbox'[u] = inbox[u] \/ \E m \in Message : Grows(u, m)
<1>0. inbox \in [User -> Seq(Message)]
  BY DEF ShownInv, ClientType
<1>1. ASSUME NEW w \in User, NEW m \in Message, m.kind # "login", Send(w, m)
      PROVE  inbox'[u] = inbox[u] \/ \E n \in Message : Grows(u, n)
  BY <1>0, <1>1 DEF Send, Grows
<1>2. CASE DeliverHere(r) \/ Call(r)
  <2> DEFINE m == [kind |-> Kind[r], from |-> from[r]]
  <2>1. from[r] \in User /\ to[r] \in User /\ Kind[r] \in {"apply", "auth", "text"}
    BY <1>2, MessagingAssumption DEF DeliverHere, Call, Goto, ShownInv, TxnInv, TxnOf
  <2>2. m \in Message /\ m.kind # "login"
    BY <2>1 DEF Message
  <2>3. UNCHANGED inbox \/ Send(to[r], m)
    BY <1>2 DEF DeliverHere, Call, Notify
  <2> HIDE DEF m
  <2> QED BY <1>1, <2>1, <2>2, <2>3
<1>3. CASE Reply(r)
  <2> DEFINE m == [kind |-> "rsp", from |-> to[r]]
  <2>1. from[r] \in User /\ to[r] \in User
    BY <1>3 DEF Reply, Goto, ShownInv, TxnInv, TxnOf
  <2>2. m \in Message /\ m.kind # "login"
    BY <2>1 DEF Message
  <2>3. UNCHANGED inbox \/ Send(from[r], m)
    BY <1>3 DEF Reply
  <2> HIDE DEF m
  <2> QED BY <1>1, <2>1, <2>2, <2>3
<1>4. CASE SqlStep(r)
  BY <1>4 DEF SqlStep, InsertApply, UpdateApply, InsertFirst, InsertSecond, InsertFriend,
     Commit, DeadlockVictim, Rollback
<1>5. CASE Route(r) \/ TakeStub(r) \/ ReturnStub(r)
  BY <1>5 DEF Route, TakeStub, ReturnStub
<1>6. CASE FaultStep(r)
  BY <1>6 DEF FaultStep, SqlFails, ApplySqlFails, RouteFails, CallFails, Rollback
<1>7. CASE \E x, y \in User : SendRequest(r, x, y)
  BY <1>7 DEF SendRequest
<1> QED BY <1>2, <1>3, <1>4, <1>5, <1>6, <1>7 DEF RequestStep, DeliveryStep

(* Where the messages of u are after one has come or gone.                 *)
LEMMA AppendIndex ==
  ASSUME ShownInv, NEW u \in User, NEW m \in Message, inbox'[u] = Append(inbox[u], m)
  PROVE  /\ Len(inbox[u]) \in Nat /\ DOMAIN inbox[u] = 1 .. Len(inbox[u])
         /\ DOMAIN inbox'[u] = 1 .. (Len(inbox[u]) + 1)
         /\ \A i \in DOMAIN inbox[u] : i \in DOMAIN inbox'[u] /\ inbox'[u][i] = inbox[u][i]
         /\ inbox'[u][Len(inbox[u]) + 1] = m
         /\ \A i \in DOMAIN inbox'[u] : i \in DOMAIN inbox[u] \/ i = Len(inbox[u]) + 1
<1>1. inbox[u] \in Seq(Message)
  BY DEF ShownInv, ClientType
<1> QED BY <1>1

LEMMA TailIndex ==
  ASSUME ShownInv, NEW u \in User, inbox[u] # <<>>, inbox'[u] = Tail(inbox[u])
  PROVE  /\ 1 \in DOMAIN inbox[u] /\ Head(inbox[u]) = inbox[u][1]
         /\ DOMAIN inbox[u] \subseteq Nat /\ DOMAIN inbox'[u] \subseteq Nat
         /\ \A i \in DOMAIN inbox'[u] : /\ i + 1 \in DOMAIN inbox[u] \ {1}
                                        /\ inbox'[u][i] = inbox[u][i + 1]
         /\ \A i \in DOMAIN inbox[u] \ {1} : /\ i - 1 \in DOMAIN inbox'[u]
                                             /\ inbox'[u][i - 1] = inbox[u][i]
<1>1. inbox[u] \in Seq(Message)
  BY DEF ShownInv, ClientType
<1>2. Len(inbox[u]) \in Nat \ {0} /\ DOMAIN inbox[u] = 1 .. Len(inbox[u])
  BY <1>1
<1>3. /\ DOMAIN inbox'[u] = 1 .. (Len(inbox[u]) - 1)
      /\ \A i \in 1 .. (Len(inbox[u]) - 1) : inbox'[u][i] = inbox[u][i + 1]
  BY <1>1, <1>2
<1> QED BY <1>1, <1>2, <1>3

(* What belongs to the session of u stays.                                 *)
AtRest(u) ==
  /\ uip'[u] = uip[u] /\ userMgr'[u] = userMgr[u] /\ phase'[u] = phase[u]
  /\ srv'[u] = srv[u] /\ epoch'[u] = epoch[u]
  /\ contacts'[u] = contacts[u] /\ inbox'[u] = inbox[u]

LEMMA OthersAtRest ==
  ASSUME NoticeInv, NEW w \in User, UserStep(w), NEW u \in User \ {w}
  PROVE  AtRest(u)
<1>0. SessionType /\ ClientType
  BY DEF NoticeInv, ShownInv
<1> USE DEF AtRest, SessionType, ClientType, SetPhase
<1>1. CASE \E s \in Server : ReadApplies(w, s)
  BY <1>0, <1>1 DEF ReadApplies
<1>2. CASE ReadFriends(w) \/ SetIp(w) \/ SetUserSession(w) \/ DelIp(w) \/ CleanSession(w)
  BY <1>0, <1>2 DEF ReadFriends, SetIp, SetUserSession, DelIp, CleanSession
<1>3. CASE LoginReply(w)
  BY <1>0, <1>3 DEF LoginReply, Send
<1>4. CASE Disconnect(w) \/ CrashOnClick(w) \/ CrashOnText(w)
  BY <1>0, <1>4 DEF Disconnect, CrashOnClick, CrashOnText
<1>5. ASSUME NEW c, Handle(w, c) PROVE AtRest(u)
  BY <1>0, <1>5 DEF Handle, userVars
<1>6. CASE OpenWindow(w) \/ Unheard(w) \/ HearApply(w) \/ HearFriend(w) \/ HearText(w)
  BY <1>5, <1>6 DEF OpenWindow, Unheard, HearApply, HearFriend, HearText
<1>7. CASE LoadMore(w) \/ \E v \in User : OpenChat(w, v)
  BY <1>0, <1>7 DEF LoadMore, OpenChat, userVars
<1> QED BY <1>1, <1>2, <1>3, <1>4, <1>6, <1>7 DEF UserStep, SessionStep, ClientStep

(***************************************************************************)
(* The steps of a user, as the sessions see them.                          *)
(***************************************************************************)
(* A window loses neither friends nor applicants.                          *)
Keeps(u) ==
  /\ contacts'[u].open = contacts[u].open
  /\ contacts[u].friends \subseteq contacts'[u].friends
  /\ contacts[u].applied \subseteq contacts'[u].applied

SameSession(u) ==
  /\ uip'[u] = uip[u] /\ userMgr'[u] = userMgr[u] /\ phase'[u] = phase[u]
  /\ srv'[u] = srv[u] /\ epoch'[u] = epoch[u]

Handled(u) ==
  /\ SameSession(u)
  /\ inbox[u] # <<>> /\ inbox'[u] = Tail(inbox[u])
  /\ LET m == Head(inbox[u])
     IN  \/ m.kind = "login" /\ contacts'[u].open
         \/ /\ m.kind # "login" /\ Keeps(u)
            /\ contacts[u].open =>
                 /\ m.kind \in {"auth", "rsp"} => m.from \in contacts'[u].friends
                 /\ m.kind = "apply" => m.from \in contacts'[u].applied

Looked(u) == SameSession(u) /\ Keeps(u) /\ inbox'[u] = inbox[u]

Left(u) ==
  /\ phase[u] = "in" /\ phase'[u] = "lost" /\ epoch'[u] = epoch[u]
  /\ inbox'[u] = <<>> /\ ~contacts'[u].open

LEMMA OwnStep ==
  ASSUME NoticeInv, NEW u \in User, UserStep(u)
  PROVE  \/ Handled(u) \/ Looked(u) \/ Left(u)
         \/ SessionStep(u) \/ \E s \in Server : ReadApplies(u, s)
<1>0. /\ SessionType /\ ClientType /\ ShownInv /\ contacts[u] \in ContactsType
      /\ inbox \in [User -> Seq(Message)]
  BY DEF NoticeInv, ShownInv, ClientType
<1> DEFINE c == contacts[u]
           m == Head(inbox[u])
<1>1. ASSUME Disconnect(u) PROVE Left(u)
  BY <1>0, <1>1 DEF Disconnect, SetPhase, Left, SessionType, ClientType, NoContacts
<1>2. ASSUME NEW d, Handle(u, d)
      PROVE  SameSession(u) /\ inbox'[u] = Tail(inbox[u]) /\ contacts'[u] = d
  BY <1>0, <1>2 DEF Handle, userVars, SameSession, ClientType
<1>3. inbox[u] # <<>> => m \in Message
  BY <1>0, FirstHeard
<1>4. ASSUME OpenWindow(u) PROVE Handled(u)
  <2> DEFINE w == Opened(m.lists.applies, m.lists.friends)
  <2>1. inbox[u] # <<>> /\ m.kind = "login" /\ \E P \in NextPages(w) : Handle(u, LoadPage(w, P))
    BY <1>4 DEF OpenWindow
  <2>2. w \in ContactsType /\ w.open
    <3>1. m.lists.applies \in SUBSET Row /\ m.lists.friends \in SUBSET User
      BY <1>3, <2>1, MessageTold
    <3>2. w \in ContactsType
      BY <3>1, OpenedFriends
    <3>3. w.open
      BY DEF Opened, NoContacts
    <3> QED BY <3>2, <3>3
  <2> HIDE DEF w
  <2>3. PICK P \in NextPages(w) : Handle(u, LoadPage(w, P))
    BY <2>1
  <2>4. LoadPage(w, P).open
    BY <2>2 DEF LoadPage, ContactsType
  <2> QED BY <1>2, <2>1, <2>3, <2>4 DEF Handled
<1>5. ASSUME Unheard(u) PROVE Handled(u)
  BY <1>2, <1>5 DEF Unheard, Handled, Keeps
<1>6. ASSUME HearApply(u) PROVE Handled(u)
  <2>1. /\ WithApply(c, m.from).open = c.open
        /\ WithApply(c, m.from).friends = c.friends
        /\ WithApply(c, m.from).applied = c.applied \cup {m.from}
    BY <1>0 DEF WithApply, ContactsType
  <2>2. inbox[u] # <<>> /\ m.kind = "apply" /\ Handle(u, WithApply(c, m.from))
    BY <1>6 DEF HearApply
  <2> QED BY <1>2, <2>1, <2>2 DEF Handled, Keeps
<1>7. ASSUME HearFriend(u) PROVE Handled(u)
  <2>1. /\ WithFriend(c, m.from).open = c.open
        /\ WithFriend(c, m.from).friends = c.friends \cup {m.from}
        /\ WithFriend(c, m.from).applied = c.applied
    BY <1>0 DEF WithFriend, ContactsType
  <2>2. inbox[u] # <<>> /\ m.kind \in {"auth", "rsp"} /\ Handle(u, WithFriend(c, m.from))
    BY <1>7 DEF HearFriend
  <2> QED BY <1>2, <2>1, <2>2 DEF Handled, Keeps
<1>8. ASSUME HearText(u) PROVE Handled(u)
  <2>1. /\ WithText(c, m.from).open = c.open
        /\ WithText(c, m.from).friends = c.friends
        /\ WithText(c, m.from).applied = c.applied
    BY <1>0 DEF WithText, ContactsType
  <2>2. inbox[u] # <<>> /\ m.kind = "text" /\ Handle(u, WithText(c, m.from))
    BY <1>8 DEF HearText
  <2> QED BY <1>2, <2>1, <2>2 DEF Handled, Keeps
<1>9. ASSUME LoadMore(u) PROVE Looked(u)
  <2>1. PICK P \in NextPages(c) : contacts' = [contacts EXCEPT ![u] = LoadPage(c, P)]
    BY <1>9 DEF LoadMore
  <2>2. /\ LoadPage(c, P).open = c.open /\ LoadPage(c, P).friends = c.friends
        /\ LoadPage(c, P).applied = c.applied
    BY <1>0 DEF LoadPage, ContactsType
  <2>3. UNCHANGED <<uip, userMgr, phase, srv, epoch, inbox>>
    BY <1>9 DEF LoadMore, userVars
  <2> QED BY <1>0, <2>1, <2>2, <2>3 DEF Looked, SameSession, Keeps, ClientType
<1>10. ASSUME NEW v \in User, OpenChat(u, v) PROVE Looked(u)
  <2>1. contacts' = [contacts EXCEPT ![u] = WithChat(c, v)]
    BY <1>10 DEF OpenChat
  <2>2. /\ WithChat(c, v).open = c.open /\ WithChat(c, v).friends = c.friends
        /\ WithChat(c, v).applied = c.applied
    BY <1>0 DEF WithChat, ContactsType
  <2>3. UNCHANGED <<uip, userMgr, phase, srv, epoch, inbox>>
    BY <1>10 DEF OpenChat, userVars
  <2> QED BY <1>0, <2>1, <2>2, <2>3 DEF Looked, SameSession, Keeps, ClientType
<1> QED BY <1>1, <1>4, <1>5, <1>6, <1>7, <1>8, <1>9, <1>10
       DEF UserStep, ClientStep, CrashOnText, CrashOnClick

(***************************************************************************)
(* Sessions.                                                               *)
(***************************************************************************)
LEMMA SessionTypeKept ==
  ASSUME NoticeInv, [Next]_vars
  PROVE  SessionType'
<1>0. SessionType /\ ClientType /\ ShownInv
  BY DEF NoticeInv, ShownInv
<1> USE DEF SessionType
<1>1. ASSUME NEW u \in User, SessionStep(u) PROVE SessionType'
  BY <1>0, <1>1 DEF SessionStep, ReadFriends, SetIp, SetUserSession, LoginReply, DelIp,
     CleanSession, SetPhase, Phase, sentVars
<1>2. ASSUME NEW u \in User, NEW s \in Server, ReadApplies(u, s) PROVE SessionType'
  BY <1>0, <1>2 DEF ReadApplies, SetPhase, Phase, sentVars
<1>3. ASSUME NEW u \in User, Disconnect(u) PROVE SessionType'
  BY <1>0, <1>3 DEF Disconnect, SetPhase, Phase, sentVars
<1>4. ASSUME NEW u \in User, NEW c, Handle(u, c) PROVE SessionType'
  BY <1>0, <1>4 DEF Handle, userVars, sentVars
<1>5. ASSUME NEW u \in User, ClientStep(u) \/ CrashOnClick(u) PROVE SessionType'
  BY <1>3, <1>4, <1>5 DEF ClientStep, OpenWindow, Unheard, HearApply, HearFriend, HearText,
     CrashOnText, CrashOnClick
<1>6. ASSUME NEW u \in User, LoadMore(u) \/ \E v \in User : OpenChat(u, v) PROVE SessionType'
  BY <1>0, <1>6 DEF LoadMore, OpenChat, userVars, sentVars
<1>7. ASSUME NEW u \in User, UserStep(u) PROVE SessionType'
  BY <1>1, <1>2, <1>3, <1>5, <1>6, <1>7 DEF UserStep
<1>8. ASSUME NEW r \in Request, RequestStep(r) PROVE SessionType'
  <2>0. UNCHANGED <<uip, userMgr, phase, srv, epoch, contacts>>
    BY <1>8, RequestsApart
  <2>1. CASE SqlStep(r) \/ FaultStep(r)
    BY <1>0, <2>0, <2>1 DEF SqlStep, InsertApply, UpdateApply, InsertFirst, InsertSecond,
       InsertFriend, Commit, DeadlockVictim, Rollback, FaultStep, SqlFails, ApplySqlFails,
       RouteFails, CallFails, sentVars
  <2>2. CASE Route(r)
    <3>1. to[r] \in User
      BY <1>0, <2>2 DEF Route, Goto, ShownInv, TxnInv, TxnOf
    <3> QED BY <1>0, <2>0, <2>2, <3>1 DEF Route, sentVars
  <2>3. CASE DeliverHere(r) \/ TakeStub(r) \/ Call(r) \/ ReturnStub(r)
    BY <1>0, <2>0, <2>3 DEF DeliverHere, TakeStub, Call, ReturnStub, sentVars
  <2>4. CASE Reply(r)
    BY <1>0, <2>0, <2>4 DEF Reply
  <2> QED BY <1>8, <2>1, <2>2, <2>3, <2>4 DEF RequestStep, DeliveryStep
<1>9. ASSUME NEW r \in Request, NEW u \in User, NEW v \in User, SendRequest(r, u, v)
      PROVE  SessionType'
  BY <1>0, <1>9 DEF SendRequest, userVars
<1>10. CASE UNCHANGED vars
  BY <1>0, <1>10 DEF vars
<1> QED BY <1>7, <1>8, <1>9, <1>10, WhoSteps

(* The user's own step keeps his session in order.                         *)
LEMMA SessionSteps ==
  ASSUME NoticeInv, NEW u \in User, SessionStep(u) \/ \E s \in Server : ReadApplies(u, s)
  PROVE  SessionOf(u)'
<1>0. SessionType /\ ClientType /\ ShownInv /\ SessionOf(u)
  BY DEF NoticeInv, ShownInv
<1> USE DEF SessionType, SetPhase
<1>1. CASE inbox'[u] = inbox[u] /\ contacts'[u] = contacts[u] /\ phase[u] # "in"
  <2>1. \A i \in DOMAIN inbox[u] : ~IsLogin(u, i)
    BY <1>0, <1>1 DEF SessionOf
  <2>2. ~contacts'[u].open
    BY <1>0, <1>1 DEF SessionOf
  <2>3. \A i \in DOMAIN inbox'[u] : ~(IsLogin(u, i)')
    BY <1>1, <2>1 DEF IsLogin
  <2>4. /\ phase'[u] \in {"friends", "setip", "setuser", "reply", "in"} => srv'[u] \in Server
        /\ phase'[u] \in {"setuser", "reply", "in"} => uip'[u] = srv'[u]
        /\ phase'[u] \in {"reply", "in"} => userMgr'[u] = srv'[u]
    <3>1. CASE \E s \in Server : ReadApplies(u, s)
      BY <1>0, <3>1 DEF ReadApplies
    <3>2. CASE ReadFriends(u) \/ SetIp(u) \/ SetUserSession(u)
      BY <1>0, <3>2 DEF ReadFriends, SetIp, SetUserSession, SessionOf
    <3>3. CASE LoginReply(u)
      BY <1>0, <3>3 DEF LoginReply, SessionOf
    <3>4. CASE DelIp(u) \/ CleanSession(u)
      BY <1>0, <3>4 DEF DelIp, CleanSession
    <3> QED BY <3>1, <3>2, <3>3, <3>4 DEF SessionStep
  <2> QED BY <2>2, <2>3, <2>4 DEF SessionOf, IsLogin
<1>2. CASE LoginReply(u)
  <2> DEFINE m == [kind |-> "login", lists |-> lists[u]]
             n == Len(inbox[u])
  <2>1. m \in Message /\ m.kind = "login"
    BY <1>0 DEF Message, ClientType
  <2>2. phase[u] = "reply" /\ phase'[u] = "in" /\ contacts'[u] = contacts[u]
        /\ uip'[u] = uip[u] /\ userMgr'[u] = userMgr[u] /\ srv'[u] = srv[u]
    BY <1>0, <1>2 DEF LoginReply
  <2>3. inbox'[u] = Append(inbox[u], m)
    BY <1>0, <1>2, <2>2 DEF LoginReply, Send, ClientType
  <2> HIDE DEF m
  <2>4. \A i \in DOMAIN inbox[u] : ~IsLogin(u, i)
    BY <1>0, <2>2 DEF SessionOf
  <2>5. \A i \in DOMAIN inbox'[u] : inbox'[u][i].kind = "login" => i = n + 1
    BY <1>0, <2>1, <2>3, <2>4, AppendIndex DEF IsLogin
  <2>6. ~contacts'[u].open
    BY <1>0, <2>2 DEF SessionOf
  <2>7. \A i, j \in DOMAIN inbox'[u] : IsLogin(u, i)' /\ IsLogin(u, j)' => i = j
    BY <2>5 DEF IsLogin
  <2>8. srv'[u] \in Server /\ uip'[u] = srv'[u] /\ userMgr'[u] = srv'[u]
    BY <1>0, <2>2 DEF SessionOf
  <2> HIDE DEF n
  <2> QED BY <2>2, <2>6, <2>7, <2>8 DEF SessionOf
<1>3. CASE ~LoginReply(u)
  <2>1. inbox'[u] = inbox[u] /\ contacts'[u] = contacts[u] /\ phase[u] # "in"
    BY <1>0, <1>3 DEF SessionStep, ReadApplies, ReadFriends, SetIp, SetUserSession, DelIp,
       CleanSession
  <2> QED BY <1>1, <2>1
<1> QED BY <1>2, <1>3

LEMMA SessionKept ==
  ASSUME NoticeInv, [Next]_vars, NEW u \in User
  PROVE  SessionOf(u)'
<1>0. SessionType /\ ClientType /\ ShownInv /\ SessionOf(u)
  BY DEF NoticeInv, ShownInv
<1>1. CASE AtRest(u)
  BY <1>0, <1>1 DEF AtRest, SessionOf, IsLogin
<1>2. ASSUME NEW m \in Message, SameSession(u), contacts'[u] = contacts[u], Grows(u, m)
      PROVE  SessionOf(u)'
  <2>1. \A i \in DOMAIN inbox'[u] :
          inbox'[u][i].kind = "login" => i \in DOMAIN inbox[u] /\ IsLogin(u, i)
    BY <1>0, <1>2, AppendIndex DEF Grows, IsLogin
  <2>2. \A i \in DOMAIN inbox'[u] :
          IsLogin(u, i)' => i \in DOMAIN inbox[u] /\ IsLogin(u, i)
    BY <2>1 DEF IsLogin
  <2> QED BY <1>0, <1>2, <2>2 DEF SessionOf, SameSession
<1>3. CASE Handled(u)
  <2>1. /\ \A i \in DOMAIN inbox'[u] :
             IsLogin(u, i)' => i + 1 \in DOMAIN inbox[u] \ {1} /\ IsLogin(u, i + 1)
        /\ 1 \in DOMAIN inbox[u] /\ Head(inbox[u]) = inbox[u][1]
        /\ DOMAIN inbox'[u] \subseteq Nat
    BY <1>0, <1>3, TailIndex DEF Handled, IsLogin
  <2>2. CASE Head(inbox[u]).kind = "login"
    <3>1. IsLogin(u, 1) /\ phase[u] = "in"
      BY <1>0, <2>1, <2>2 DEF SessionOf, IsLogin
    <3>2. \A i \in DOMAIN inbox'[u] : ~(IsLogin(u, i)')
      BY <1>0, <2>1, <3>1 DEF SessionOf
    <3> QED BY <1>0, <1>3, <3>1, <3>2 DEF SessionOf, Handled, SameSession
  <2>3. CASE Head(inbox[u]).kind # "login"
    <3>1. contacts'[u].open = contacts[u].open /\ SameSession(u)
      BY <1>3, <2>3 DEF Handled, Keeps
    <3>2. \A i \in DOMAIN inbox'[u] : IsLogin(u, i)' => phase[u] = "in" /\ ~contacts[u].open
      BY <1>0, <2>1 DEF SessionOf
    <3>3. \A i, j \in DOMAIN inbox'[u] : IsLogin(u, i)' /\ IsLogin(u, j)' => i + 1 = j + 1
      BY <1>0, <2>1 DEF SessionOf
    <3>4. \A i, j \in DOMAIN inbox'[u] : IsLogin(u, i)' /\ IsLogin(u, j)' => i = j
      <4> SUFFICES ASSUME NEW i \in DOMAIN inbox'[u], NEW j \in DOMAIN inbox'[u],
                          IsLogin(u, i)', IsLogin(u, j)'
                   PROVE  i = j
        OBVIOUS
      <4>1. i \in Nat /\ j \in Nat /\ i + 1 = j + 1
        BY <2>1, <3>3
      <4> QED BY <4>1
    <3> QED BY <1>0, <3>1, <3>2, <3>4 DEF SessionOf, SameSession
  <2> QED BY <2>2, <2>3
<1>4. CASE Looked(u)
  <2>1. /\ SameSession(u) /\ inbox'[u] = inbox[u] /\ contacts'[u].open = contacts[u].open
    BY <1>4 DEF Looked, Keeps
  <2> QED BY <1>0, <2>1 DEF SessionOf, SameSession, IsLogin
<1>5. CASE Left(u)
  BY <1>5 DEF Left, SessionOf, IsLogin
<1>6. ASSUME NEW w \in User, UserStep(w) PROVE SessionOf(u)'
  <2>1. CASE w # u
    BY <1>1, <1>6, <2>1, OthersAtRest
  <2>2. CASE w = u
    BY <1>3, <1>4, <1>5, <1>6, <2>2, OwnStep, SessionSteps
  <2> QED BY <2>1, <2>2
<1>7. ASSUME NEW r \in Request, RequestStep(r) \/ \E x, y \in User : SendRequest(r, x, y)
      PROVE  SessionOf(u)'
  <2>1. UNCHANGED <<uip, userMgr, phase, srv, epoch, contacts>>
    BY <1>7, RequestsApart
  <2>2. SameSession(u) /\ contacts'[u] = contacts[u]
    BY <2>1 DEF SameSession
  <2>3. CASE inbox'[u] = inbox[u]
    BY <1>1, <2>2, <2>3 DEF AtRest, SameSession
  <2> QED BY <1>0, <1>2, <1>7, <2>2, <2>3, InboxGrows
<1>8. CASE UNCHANGED vars
  BY <1>1, <1>8 DEF vars, AtRest
<1> QED BY <1>6, <1>7, <1>8, WhoSteps

(***************************************************************************)
(* An open window does not forget.                                         *)
(***************************************************************************)
KnownNext(u, v) ==
  \/ v \in contacts'[u].friends
  \/ \E i \in DOMAIN inbox'[u] : inbox'[u][i].kind \in {"auth", "rsp"} /\ inbox'[u][i].from = v

HasApplyNext(u, v) ==
  \/ v \in contacts'[u].applied
  \/ \E i \in DOMAIN inbox'[u] : inbox'[u][i] = [kind |-> "apply", from |-> v]

LEMMA OpenRemembers ==
  ASSUME NoticeInv, [Next]_vars, NEW u \in User, contacts[u].open, contacts'[u].open, NEW v
  PROVE  /\ Known(u, v) => KnownNext(u, v)
         /\ HasApply(u, v) => HasApplyNext(u, v)
<1>0. SessionType /\ ClientType /\ ShownInv /\ SessionOf(u)
  BY DEF NoticeInv, ShownInv
<1> USE DEF Known, KnownNext, HasApply, HasApplyNext
<1> DEFINE G == /\ Known(u, v) => KnownNext(u, v)
                /\ HasApply(u, v) => HasApplyNext(u, v)
<1>1. CASE contacts'[u] = contacts[u] /\ inbox'[u] = inbox[u]
  BY <1>1
<1>2. ASSUME NEW m \in Message, contacts'[u] = contacts[u], Grows(u, m) PROVE G
  <2>1. \A i \in DOMAIN inbox[u] : i \in DOMAIN inbox'[u] /\ inbox'[u][i] = inbox[u][i]
    BY <1>0, <1>2, AppendIndex DEF Grows
  <2> QED BY <1>2, <2>1
<1>3. ASSUME Handled(u) PROVE G
  <2> DEFINE m == Head(inbox[u])
  <2>1. /\ 1 \in DOMAIN inbox[u] /\ m = inbox[u][1]
        /\ \A i \in DOMAIN inbox[u] \ {1} : /\ i - 1 \in DOMAIN inbox'[u]
                                            /\ inbox'[u][i - 1] = inbox[u][i]
    BY <1>0, <1>3, TailIndex DEF Handled
  <2>2. m.kind # "login"
    BY <1>0, <2>1 DEF SessionOf, IsLogin
  <2>3. /\ contacts[u].friends \subseteq contacts'[u].friends
        /\ contacts[u].applied \subseteq contacts'[u].applied
        /\ m.kind \in {"auth", "rsp"} => m.from \in contacts'[u].friends
        /\ m.kind = "apply" => m.from \in contacts'[u].applied
    BY <1>3, <2>2 DEF Handled, Keeps
  <2>4. ASSUME NEW i \in DOMAIN inbox[u], inbox[u][i].kind \in {"auth", "rsp"},
               inbox[u][i].from = v
        PROVE  KnownNext(u, v)
    <3>1. CASE i = 1
      BY <2>1, <2>3, <2>4, <3>1
    <3>2. CASE i # 1
      BY <2>1, <2>4, <3>2
    <3> QED BY <3>1, <3>2
  <2>5. ASSUME NEW i \in DOMAIN inbox[u], inbox[u][i] = [kind |-> "apply", from |-> v]
        PROVE  HasApplyNext(u, v)
    <3>1. CASE i = 1
      <4>1. m.kind = "apply" /\ m.from = v
        BY <2>1, <2>5, <3>1
      <4> QED BY <2>3, <4>1
    <3>2. CASE i # 1
      <4>1. i - 1 \in DOMAIN inbox'[u] /\ inbox'[u][i - 1] = [kind |-> "apply", from |-> v]
        BY <2>1, <2>5, <3>2
      <4> QED BY <4>1
    <3> QED BY <3>1, <3>2
  <2> QED BY <2>3, <2>4, <2>5
<1>4. ASSUME Looked(u) PROVE G
  <2>1. /\ inbox'[u] = inbox[u]
        /\ contacts[u].friends \subseteq contacts'[u].friends
        /\ contacts[u].applied \subseteq contacts'[u].applied
    BY <1>4 DEF Looked, Keeps
  <2> QED BY <2>1
<1>5. ~Left(u)
  BY DEF Left
<1>6. ~(SessionStep(u) /\ inbox'[u] # inbox[u]) /\ ~ \E s \in Server : ReadApplies(u, s)
  BY <1>0 DEF SessionOf, SessionStep, ReadApplies, ReadFriends, SetIp, SetUserSession,
     LoginReply, DelIp, CleanSession, SetPhase
<1>7. SessionStep(u) => contacts'[u] = contacts[u]
  BY DEF SessionStep, ReadFriends, SetIp, SetUserSession, LoginReply, DelIp, CleanSession
<1>8. ASSUME NEW w \in User, UserStep(w) PROVE G
  <2>1. CASE w # u
    <3>1. AtRest(u)
      BY <1>8, <2>1, OthersAtRest
    <3> QED BY <1>1, <3>1 DEF AtRest
  <2>2. CASE w = u
    <3>1. Handled(u) \/ Looked(u) \/ SessionStep(u)
      BY <1>5, <1>6, <1>8, <2>2, OwnStep
    <3> QED BY <1>1, <1>3, <1>4, <1>6, <1>7, <3>1
  <2> QED BY <2>1, <2>2
<1>9. ASSUME NEW r \in Request, RequestStep(r) \/ \E x, y \in User : SendRequest(r, x, y)
      PROVE  G
  <2>1. contacts'[u] = contacts[u]
    BY <1>9, RequestsApart
  <2>2. inbox'[u] = inbox[u] \/ \E m \in Message : Grows(u, m)
    BY <1>0, <1>9, InboxGrows
  <2> QED BY <1>1, <1>2, <2>1, <2>2
<1>10. CASE UNCHANGED vars
  BY <1>1, <1>10 DEF vars
<1> QED BY <1>8, <1>9, <1>10, WhoSteps

(***************************************************************************)
(* Lookups.                                                                *)
(***************************************************************************)
(* Within a login, who is gone stays gone, and an open window stays open,  *)
(* on the same server, until he is.                                        *)
LEMMA UserMoves ==
  ASSUME NoticeInv, [Next]_vars, NEW u \in User
  PROVE  \/ epoch'[u] = epoch[u] + 1 /\ ~contacts'[u].open /\ phase'[u] \notin Gone
         \/ /\ epoch'[u] = epoch[u]
            /\ phase[u] \in Gone => phase'[u] \in Gone
            /\ contacts[u].open /\ phase'[u] \notin Gone => contacts'[u].open
            /\ contacts[u].open /\ contacts'[u].open => srv'[u] = srv[u]
<1>0. SessionType /\ ClientType /\ ShownInv /\ SessionOf(u)
  BY DEF NoticeInv, ShownInv
<1>1. CASE SameSession(u) /\ (contacts[u].open => contacts'[u].open)
  BY <1>1 DEF SameSession
<1>2. CASE AtRest(u)
  BY <1>1, <1>2 DEF AtRest, SameSession
<1>3. CASE Handled(u)
  BY <1>1, <1>3 DEF Handled, Keeps
<1>4. CASE Looked(u)
  BY <1>1, <1>4 DEF Looked, Keeps
<1>5. CASE Left(u)
  BY <1>5 DEF Left, Gone
<1>6. ASSUME NEW s \in Server, ReadApplies(u, s)
      PROVE  epoch'[u] = epoch[u] + 1 /\ ~contacts'[u].open /\ phase'[u] \notin Gone
  <2>1. phase[u] = "out" /\ phase'[u] = "friends" /\ epoch'[u] = epoch[u] + 1
        /\ contacts'[u] = contacts[u]
    BY <1>0, <1>6 DEF ReadApplies, SetPhase, SessionType
  <2> QED BY <1>0, <2>1 DEF SessionOf, Gone
<1>7. ASSUME SessionStep(u)
      PROVE  /\ epoch'[u] = epoch[u] /\ contacts'[u] = contacts[u]
             /\ phase[u] \in Gone => phase'[u] \in Gone
             /\ ~contacts[u].open
  <2>1. /\ epoch'[u] = epoch[u] /\ contacts'[u] = contacts[u] /\ phase[u] # "in"
        /\ phase[u] \in Gone => phase'[u] \in Gone
    BY <1>0, <1>7 DEF SessionStep, ReadFriends, SetIp, SetUserSession, LoginReply, DelIp,
       CleanSession, SetPhase, SessionType, Gone
  <2> QED BY <1>0, <2>1 DEF SessionOf
<1>8. ASSUME NEW w \in User, UserStep(w), w # u PROVE AtRest(u)
  BY <1>8, OthersAtRest
<1>9. ASSUME NEW r \in Request, RequestStep(r) \/ \E x, y \in User : SendRequest(r, x, y)
      PROVE  SameSession(u) /\ contacts'[u] = contacts[u]
  <2>1. UNCHANGED <<uip, userMgr, phase, srv, epoch, contacts>>
    BY <1>9, RequestsApart
  <2> QED BY <2>1 DEF SameSession
<1>10. CASE UNCHANGED vars
  BY <1>1, <1>10 DEF vars, SameSession
<1>11. CASE UserStep(u)
  BY <1>3, <1>4, <1>5, <1>6, <1>7, <1>11, OwnStep
<1> QED BY <1>1, <1>2, <1>8, <1>9, <1>10, <1>11, WhoSteps

(* What r's lookup has found is so after any step that leaves what r knows *)
(* as it is.                                                               *)
LEMMA LookupStays ==
  ASSUME NoticeInv, [Next]_vars, NEW r \in Request,
         pc'[r] = pc[r], from'[r] = from[r], to'[r] = to[r],
         home'[r] = home[r], route'[r] = route[r], seen'[r] = seen[r]
  PROVE  LookupOf(r)'
<1>0. /\ SessionType /\ ShownInv /\ LookupOf(r) /\ faults \in Nat
      /\ (faults' = 0 => faults = 0)
  BY FaultsCount DEF NoticeInv, ShownInv
<1>1. CASE seen[r] = 0
  BY <1>1 DEF LookupOf, Watching
<1>2. CASE seen[r] # 0
  <2> DEFINE u == to[r]
  <2>1. u \in User /\ from[r] \in User
    BY <1>0, <1>2 DEF LookupOf, Early, ShownInv, TxnInv, TxnOf
  <2>2. seen[r] \in Nat /\ epoch[u] \in Nat /\ seen[r] <= epoch[u]
    BY <1>0, <1>2, <2>1 DEF SessionType, LookupOf
  <2>3. CASE epoch'[u] = epoch[u] + 1
    <3>1. seen'[r] <= epoch'[to'[r]] /\ seen'[r] # epoch'[to'[r]]
      BY <2>2, <2>3
    <3> QED BY <1>0, <1>2, <3>1 DEF LookupOf, Watching
  <2>4. CASE /\ epoch'[u] = epoch[u]
             /\ phase[u] \in Gone => phase'[u] \in Gone
             /\ contacts[u].open /\ phase'[u] \notin Gone => contacts'[u].open
             /\ contacts[u].open /\ contacts'[u].open => srv'[u] = srv[u]
    <3>1. SessionOf(u)'
      BY <2>1, SessionKept
    <3>2. ASSUME seen[r] = epoch[u], contacts'[u].open
          PROVE  contacts[u].open /\ Watching(r)
      <4>1. phase'[u] \notin Gone
        BY <3>1, <3>2 DEF SessionOf, Gone
      <4>2. contacts[u].open
        BY <1>0, <1>2, <2>4, <3>2, <4>1 DEF LookupOf, Gone
      <4> QED BY <1>2, <3>2, <4>2 DEF Watching
    <3>3. ASSUME seen[r] = epoch[u], contacts'[u].open
          PROVE  /\ pc[r] \in {"local", "take", "call"} => route[r] = srv'[u]
                 /\ pc[r] = "local" => home[r] = srv'[u]
                 /\ faults' = 0 /\ pc[r] \in {"return", "reply", "done"} =>
                      /\ Kind[r] = "auth" => KnownNext(u, from[r])
                      /\ Kind[r] = "apply" => HasApplyNext(u, from[r])
      <4>1. Watching(r) /\ contacts[u].open
        BY <3>2, <3>3
      <4>2. srv'[u] = srv[u]
        BY <2>4, <3>3, <4>1
      <4>3. /\ Known(u, from[r]) => KnownNext(u, from[r])
            /\ HasApply(u, from[r]) => HasApplyNext(u, from[r])
        BY <2>1, <3>3, <4>1, OpenRemembers
      <4> QED BY <1>0, <4>1, <4>2, <4>3 DEF LookupOf, Reached
    <3>4. seen[r] = epoch[u] /\ phase'[u] \notin Gone => contacts'[u].open
      BY <1>0, <1>2, <2>4 DEF LookupOf, Gone
    <3>5. /\ to'[r] = u /\ epoch'[to'[r]] = epoch[u]
          /\ Watching(r)' => seen[r] = epoch[u] /\ contacts'[u].open
      BY <2>4 DEF Watching
    <3>6. /\ pc'[r] \in Early => seen'[r] = 0
          /\ seen'[r] <= epoch'[to'[r]]
      BY <1>0, <2>2, <3>5 DEF LookupOf, Early
    <3>7. Watching(r)' /\ faults' = 0 /\ pc'[r] \in {"return", "reply", "done"} => Reached(r)'
      BY <3>3, <3>5 DEF Reached, Known, HasApply, KnownNext, HasApplyNext
    <3> QED BY <3>3, <3>4, <3>5, <3>6, <3>7 DEF LookupOf, Early, Gone
  <2> QED BY <2>1, <2>3, <2>4, UserMoves
<1> QED BY <1>1, <1>2

(* A request that goes on to the answer after its receiver has been told.  *)
LEMMA LookupMoves ==
  ASSUME NoticeInv, [Next]_vars, NEW r \in Request, RequestStep(r)
  PROVE  LookupOf(r)'
<1>0. /\ SessionType /\ ClientType /\ ShownInv /\ LookupOf(r) /\ faults \in Nat
      /\ (faults' = 0 => faults = 0)
      /\ pc \in [Request -> ReqPC]
      /\ UNCHANGED <<from, to, uip, userMgr, phase, srv, epoch, contacts>>
  BY FaultsCount, RequestMoves, RequestsApart
     DEF NoticeInv, ShownInv, TxnInv, CoreType
<1> DEFINE u == to[r]
<1>1. u \in User /\ from[r] \in User /\ SessionOf(u)
  <2>1. pc[r] # "idle"
    BY <1>0, RequestMoves
  <2> QED BY <1>0, <2>1 DEF NoticeInv, ShownInv, TxnInv, TxnOf
<1>2. ASSUME seen'[r] = 0 PROVE LookupOf(r)'
  BY <1>2 DEF LookupOf, Watching
<1>3. CASE SqlStep(r) \/ SqlFails(r) \/ ApplySqlFails(r) \/ RouteFails(r)
  <2>1. pc[r] \in Early /\ seen' = seen
    BY <1>3 DEF SqlStep, InsertApply, UpdateApply, InsertFirst, InsertSecond, InsertFriend,
       Commit, DeadlockVictim, SqlFails, ApplySqlFails, RouteFails, Rollback, Goto, Early
  <2> QED BY <1>0, <1>2, <2>1 DEF LookupOf, Early
<1>4. CASE Route(r)
  <2>1. /\ pc'[r] = IF uip[u] = Nil THEN "reply"
                    ELSE IF uip[u] = home[r] THEN "local" ELSE "take"
        /\ route'[r] = uip[u] /\ home'[r] = home[r]
        /\ seen'[r] = IF contacts[u].open THEN epoch[u] ELSE 0
    BY <1>0, <1>4 DEF Route, Goto, SessionType, sentVars
  <2>2. CASE ~contacts[u].open
    BY <1>2, <2>1, <2>2
  <2>3. CASE contacts[u].open
    <3>1. phase[u] = "in" /\ srv[u] \in Server /\ uip[u] = srv[u]
      BY <1>1, <2>3 DEF SessionOf
    <3>2. uip[u] # Nil
      BY <3>1, MessagingAssumption
    <3>3. /\ pc'[r] \in {"local", "take"} /\ route'[r] = srv[u]
          /\ pc'[r] = "local" => home'[r] = srv[u]
          /\ seen'[r] = epoch[u] /\ epoch[u] \in Nat
      BY <1>0, <1>1, <2>1, <2>3, <3>1, <3>2 DEF SessionType
    <3> QED BY <1>0, <2>3, <3>3 DEF LookupOf, Early, Watching
  <2> QED BY <2>2, <2>3
<1>5. ASSUME pc[r] \notin Early, seen' = seen, pc'[r] \notin Early,
             /\ pc'[r] \in {"local", "take", "call"} => route'[r] = route[r]
                                                       /\ pc[r] \in {"local", "take", "call"}
             /\ pc'[r] = "local" => home'[r] = home[r] /\ pc[r] = "local"
             /\ Watching(r) /\ faults' = 0 /\ pc'[r] \in {"return", "reply", "done"} =>
                  /\ Kind[r] = "auth" => KnownNext(u, from[r])
                  /\ Kind[r] = "apply" => HasApplyNext(u, from[r])
      PROVE  LookupOf(r)'
  <2>1. Watching(r)' <=> Watching(r)
    BY <1>0, <1>5 DEF Watching
  <2>2. Watching(r)' /\ faults' = 0 /\ pc'[r] \in {"return", "reply", "done"} => Reached(r)'
    BY <1>0, <1>5, <2>1 DEF Reached, Known, HasApply, KnownNext, HasApplyNext
  <2> QED BY <1>0, <1>5, <2>1, <2>2 DEF LookupOf, Early
<1>6. ASSUME Watching(r), NEW s, Notify(s, r), s = srv[u]
      PROVE  /\ Kind[r] = "auth" => KnownNext(u, from[r])
             /\ Kind[r] = "apply" => HasApplyNext(u, from[r])
  <2> DEFINE m == [kind |-> Kind[r], from |-> from[r]]
  <2>1. phase[u] = "in" /\ userMgr[u] = srv[u]
    BY <1>1, <1>6 DEF Watching, SessionOf
  <2>2. inbox'[u] = Append(inbox[u], m)
    BY <1>0, <1>1, <1>6, <2>1 DEF Notify, Send, ClientType
  <2>3. m \in Message /\ m.kind = Kind[r] /\ m.from = from[r]
    BY <1>1, MessagingAssumption DEF Message
  <2>4. Kind[r] = "apply" => m = [kind |-> "apply", from |-> from[r]]
    OBVIOUS
  <2> HIDE DEF m
  <2>5. Len(inbox[u]) + 1 \in DOMAIN inbox'[u] /\ inbox'[u][Len(inbox[u]) + 1] = m
    BY <1>0, <1>1, <2>2, <2>3, AppendIndex
  <2> QED BY <2>3, <2>4, <2>5 DEF KnownNext, HasApplyNext
<1>7. CASE DeliverHere(r)
  <2>1. pc[r] = "local" /\ pc'[r] = "reply" /\ seen' = seen /\ Notify(home[r], r)
    BY <1>0, <1>7 DEF DeliverHere, Goto
  <2>2. Watching(r) => home[r] = srv[u]
    BY <1>0, <2>1 DEF LookupOf
  <2> QED BY <1>5, <1>6, <2>1, <2>2 DEF Early
<1>8. CASE Call(r)
  <2>1. pc[r] = "call" /\ pc'[r] = "return" /\ seen' = seen /\ Notify(route[r], r)
    BY <1>0, <1>8 DEF Call, Goto
  <2>2. Watching(r) => route[r] = srv[u]
    BY <1>0, <2>1 DEF LookupOf
  <2> QED BY <1>5, <1>6, <2>1, <2>2 DEF Early
<1>9. CASE TakeStub(r)
  <2>1. pc[r] = "take" /\ pc'[r] = "call" /\ seen' = seen /\ route' = route
    BY <1>0, <1>9 DEF TakeStub, Goto
  <2> QED BY <1>5, <2>1 DEF Early
<1>10. CASE CallFails(r)
  <2>1. pc[r] = "call" /\ pc'[r] = "return" /\ seen' = seen /\ faults' # 0
    BY <1>0, <1>10 DEF CallFails, Goto, Fault
  <2> QED BY <1>5, <2>1 DEF Early
<1>11. CASE ReturnStub(r) \/ Reply(r)
  <2>1. pc[r] \in {"return", "reply"} /\ pc'[r] \in {"reply", "done"} /\ seen' = seen
    BY <1>0, <1>11 DEF ReturnStub, Reply, Goto
  <2>2. ASSUME Watching(r), faults' = 0
        PROVE  /\ Kind[r] = "auth" => KnownNext(u, from[r])
               /\ Kind[r] = "apply" => HasApplyNext(u, from[r])
    <3>1. contacts[u].open /\ contacts'[u].open
      BY <1>0, <2>2 DEF Watching
    <3>2. Reached(r)
      BY <1>0, <2>1, <2>2 DEF LookupOf
    <3>3. /\ Known(u, from[r]) => KnownNext(u, from[r])
          /\ HasApply(u, from[r]) => HasApplyNext(u, from[r])
      BY <1>1, <3>1, OpenRemembers
    <3> QED BY <3>2, <3>3 DEF Reached
  <2> QED BY <1>5, <2>1, <2>2 DEF Early
<1> QED BY <1>3, <1>4, <1>7, <1>8, <1>9, <1>10, <1>11
       DEF RequestStep, DeliveryStep, FaultStep

(* The other steps leave what r knows as it is.                            *)
LEMMA LookupKept ==
  ASSUME NoticeInv, [Next]_vars, NEW r \in Request
  PROVE  LookupOf(r)'
<1>0. ShownInv /\ SessionType /\ CoreType
  BY DEF NoticeInv, ShownInv, TxnInv
<1> USE DEF SessionType
<1>1. CASE UNCHANGED vars
  BY <1>1, LookupStays DEF vars
<1>2. ASSUME NEW w \in User, UserStep(w) PROVE LookupOf(r)'
  <2>1. UNCHANGED core
    BY <1>2, UserLeavesCore
  <2>2. UNCHANGED <<home, route, seen>>
    BY <1>2 DEF UserStep, ReadApplies, SessionStep, ReadFriends, SetIp, SetUserSession,
       LoginReply, DelIp, CleanSession, ClientStep, OpenWindow, Unheard, HearApply,
       HearFriend, HearText, CrashOnText, CrashOnClick, Disconnect, Handle, LoadMore,
       OpenChat, sentVars
  <2> QED BY <2>1, <2>2, LookupStays DEF core
<1>3. ASSUME NEW q \in Request \ {r}, RequestStep(q) PROVE LookupOf(r)'
  <2>1. pc'[r] = pc[r] /\ from'[r] = from[r] /\ to'[r] = to[r]
    <3>1. pc' = [pc EXCEPT ![q] = pc'[q]] /\ UNCHANGED <<from, to>>
      BY <1>0, <1>3, RequestMoves
    <3> QED BY <1>0, <3>1 DEF CoreType
  <2>2. home'[r] = home[r] /\ route'[r] = route[r] /\ seen'[r] = seen[r]
    <3>1. CASE SqlStep(q) \/ FaultStep(q)
      BY <3>1 DEF SqlStep, InsertApply, UpdateApply, InsertFirst, InsertSecond, InsertFriend,
         Commit, DeadlockVictim, FaultStep, SqlFails, ApplySqlFails, RouteFails, CallFails,
         Rollback, sentVars
    <3>2. CASE DeliveryStep(q)
      BY <1>0, <3>2 DEF DeliveryStep, Route, DeliverHere, TakeStub, Call, ReturnStub, Reply,
         sentVars
    <3> QED BY <1>3, <3>1, <3>2 DEF RequestStep
  <2> QED BY <2>1, <2>2, LookupStays
<1>4. ASSUME NEW q \in Request, NEW x \in User, NEW y \in User, SendRequest(q, x, y)
      PROVE  LookupOf(r)'
  <2>1. /\ pc[q] = "idle" /\ pc'[q] \in Early
        /\ pc' = [pc EXCEPT ![q] = pc'[q]]
        /\ from' = [from EXCEPT ![q] = x] /\ to' = [to EXCEPT ![q] = y]
    BY <1>0, <1>4, Sending DEF Early
  <2>2. seen' = seen /\ route' = route /\ \E s : home' = [home EXCEPT ![q] = s]
    BY <1>4 DEF SendRequest
  <2>3. CASE q = r
    <3>1. seen[r] = 0
      BY <2>1, <2>3 DEF NoticeInv, LookupOf, Early
    <3> QED BY <2>2, <3>1 DEF LookupOf, Watching
  <2>4. CASE q # r
    BY <1>0, <2>1, <2>2, <2>4, LookupStays DEF CoreType
  <2> QED BY <2>3, <2>4
<1> QED BY <1>1, <1>2, <1>3, <1>4, LookupMoves, WhoSteps

(* Who had his window open when a request looked him up, and has not       *)
(* closed it since, knows of the request once it is handled: the routing   *)
(* by uip and UserMgr misses nobody who is there.                          *)
THEOREM NoticeReachesHolds == Spec => []NoticeReaches
<1>1. Init => NoticeInv
  BY InitNotice
<1>2. NoticeInv /\ [Next]_vars => NoticeInv'
  BY NextShown, SessionTypeKept, SessionKept, LookupKept DEF NoticeInv
<1>3. NoticeInv => NoticeReaches
  <2> SUFFICES ASSUME NoticeInv, faults = 0, NEW r \in Request,
                      pc[r] \in {"reply", "done"}, seen[r] # 0, seen[r] = epoch[to[r]],
                      contacts[to[r]].open
               PROVE  CASE Kind[r] = "auth"  -> Known(to[r], from[r])
                        [] Kind[r] = "apply" ->
                             \/ from[r] \in contacts[to[r]].applied
                             \/ [kind |-> "apply", from |-> from[r]] \in
                                  {inbox[to[r]][i] : i \in DOMAIN inbox[to[r]]}
                        [] OTHER             -> TRUE
    BY DEF NoticeReaches
  <2>1. Reached(r)
    BY DEF NoticeInv, LookupOf, Watching
  <2>2. HasApply(to[r], from[r]) =>
          \/ from[r] \in contacts[to[r]].applied
          \/ [kind |-> "apply", from |-> from[r]] \in
               {inbox[to[r]][i] : i \in DOMAIN inbox[to[r]]}
    BY DEF HasApply
  <2> QED BY <2>1, <2>2 DEF Reached
<1> QED BY <1>1, <1>2, <1>3, PTL DEF Spec

=============================================================================
