--------------------------- MODULE Accounts_proofs --------------------------
(***************************************************************************)
(* What MysqlDao and the accounts built on it guarantee, for any number of *)
(* threads, connections, requests, addresses and names.                    *)
(*                                                                         *)
(* The first part is about the pool of MySQL connections: a transaction    *)
(* stores all of its statements or none, and a connection is handed on     *)
(* with no transaction open.  This is what lets Accounts write a           *)
(* registration's rows in the one step of its COMMIT.                      *)
(*                                                                         *)
(* The second part is about the accounts: what their answers say is so,    *)
(* and nothing is changed, nobody admitted, without code or password.      *)
(***************************************************************************)
EXTENDS Accounts, MysqlPool, SequenceTheorems, WellFoundedInduction, TLAPS

-----------------------------------------------------------------------------
(* The connections of one server.                                          *)

Clean(c) == ~conn[c].tx /\ conn[c].work = {}
Pooled(c) == \E i \in DOMAIN pool : pool[i] = c

(* A connection is in the pool once or with one thread, and not closed     *)
(* there; a thread has one while it is busy.                               *)
PlaceInv ==
  /\ \A i, j \in DOMAIN pool : pool[i] = pool[j] => i = j
  /\ \A t \in Thread : held[t] = Nil <=> pc[t] = "idle"
  /\ \A t, v \in Thread : held[t] # Nil /\ held[v] = held[t] => v = t
  /\ \A t \in Thread : ~Pooled(held[t])
  /\ \A c \in Conn :
       Pooled(c) \/ (\E t \in Thread : held[t] = c) => conn[c].state # "closed"

(* The connection of t, if it has not broken, has a transaction open that  *)
(* has done these statements.                                              *)
Done(t, statements) ==
  MyConn(t).state = "open" => MyConn(t).tx /\ MyConn(t).work = statements

(* How far the transaction of a thread has come.                           *)
StepInv(t) ==
  /\ pc[t] \in {"query", "create", "free"} => Clean(held[t])
  /\ pc[t] \in {"begin", "first"} => Done(t, {})
  /\ pc[t] = "second" => Done(t, {1})
  /\ pc[t] = "commit" => Done(t, Statements)
  /\ pc[t] \in {"query", "create", "begin", "first", "second", "commit"} => stored[t] = {}
  /\ stored[t] \in {{}, Statements}
  /\ result[t] = "ok" => stored[t] = Statements /\ pc[t] \in {"idle", "free"}

(* What the server had open on a broken connection is undone.              *)
ConnInv ==
  \A c \in Conn : conn[c].state # "open" \/ Pooled(c) => Clean(c)

PoolsInv == MysqlTypeOK /\ PlaceInv /\ ConnInv /\ \A t \in Thread : StepInv(t)

State == {"closed", "open", "dead"}
ConnType == [state : State, err : BOOLEAN, recent : BOOLEAN, tx : BOOLEAN,
             work : SUBSET Statements]
PC == {"idle", "query", "create", "begin", "first", "second", "commit", "rollback", "free"}

-----------------------------------------------------------------------------
LEMMA InitPoolsInv == MysqlInit => PoolsInv
<1> SUFFICES ASSUME MysqlInit
             PROVE  PoolsInv
  OBVIOUS
<1> USE MysqlPoolAssumption DEF MysqlInit
<1>1. MysqlTypeOK
  BY DEF MysqlTypeOK, Closed, Statements
<1>2. DOMAIN pool = {} /\ \A t \in Thread : held[t] = Nil /\ pc[t] = "idle"
  OBVIOUS
<1>3. PlaceInv
  BY <1>2 DEF PlaceInv, Pooled
<1>4. ConnInv
  BY DEF ConnInv, Clean, Closed
<1>5. \A t \in Thread : StepInv(t)
  BY DEF StepInv
<1>6. QED
  BY <1>1, <1>3, <1>4, <1>5 DEF PoolsInv

(* The connections of two threads that are busy differ, and none is pooled.*)
LEMMA OwnConn ==
  ASSUME PoolsInv, NEW t \in Thread, pc[t] # "idle"
  PROVE  /\ held[t] \in Conn
         /\ MyConn(t) \in ConnType
         /\ ~Pooled(held[t])
         /\ MyConn(t).state # "closed"
         /\ \A v \in Thread : v # t => held[v] # held[t]
BY MysqlPoolAssumption DEF PoolsInv, MysqlTypeOK, PlaceInv, ConnType, State, MyConn

(* A step of thread t that changes its connection only, to d.              *)
LEMMA OwnStep ==
  ASSUME PoolsInv, NEW t \in Thread, pc[t] # "idle",
         NEW d \in ConnType, d.state # "closed",
         d.state # "open" => ~d.tx /\ d.work = {},
         NEW label \in PC \ {"idle"},
         conn' = [conn EXCEPT ![held[t]] = d],
         pc' = [pc EXCEPT ![t] = label],
         UNCHANGED <<pool, held>>,
         result' \in [Thread -> {"none", "ok", "failed"}],
         stored' \in [Thread -> SUBSET Statements],
         \A v \in Thread : v # t => stored'[v] = stored[v] /\ result'[v] = result[v],
         StepInv(t)'
  PROVE  PoolsInv'
<1>1. /\ held[t] \in Conn /\ ~Pooled(held[t])
      /\ \A v \in Thread : v # t => held[v] # held[t]
  BY OwnConn
<1>2. /\ conn'[held[t]] = d
      /\ \A c \in Conn : c # held[t] => conn'[c] = conn[c]
      /\ \A c \in Conn : Pooled(c)' <=> Pooled(c)
      /\ pc'[t] = label /\ \A v \in Thread : v # t => pc'[v] = pc[v]
  BY <1>1 DEF PoolsInv, MysqlTypeOK, Pooled
<1>3. MysqlTypeOK'
  BY <1>1 DEF PoolsInv, MysqlTypeOK, ConnType, State, PC
<1>4. PlaceInv'
  <2>1. \A v \in Thread : held'[v] = Nil <=> pc'[v] = "idle"
    BY <1>1, <1>2 DEF PoolsInv, PlaceInv
  <2>2. \A v \in Thread : ~Pooled(held[v])'
    BY DEF PoolsInv, PlaceInv, Pooled
  <2>3. QED
    BY <1>1, <1>2, <2>1, <2>2 DEF PoolsInv, PlaceInv
<1>5. ConnInv'
  BY <1>1, <1>2 DEF PoolsInv, ConnInv, Clean
<1>6. ASSUME NEW v \in Thread, v # t
      PROVE  StepInv(v)'
  <2>1. StepInv(v)
    BY DEF PoolsInv
  <2>2. held'[v] = held[v] /\ pc'[v] = pc[v] /\ stored'[v] = stored[v] /\ result'[v] = result[v]
    BY <1>2, <1>6
  <2>3. CASE pc[v] = "idle"
    BY <2>1, <2>2, <2>3 DEF StepInv
  <2>4. CASE pc[v] # "idle"
    <3>1. held[v] \in Conn /\ held[v] # held[t]
      BY <2>4, <1>1, <1>6, OwnConn
    <3>2. conn'[held[v]] = conn[held[v]]
      BY <1>2, <3>1
    <3>3. (Clean(held[v])' <=> Clean(held[v])) /\ (MyConn(v)' = MyConn(v))
      BY <3>2, <2>2 DEF Clean, MyConn
    <3>4. \A w : Done(v, w)' <=> Done(v, w)
      BY <3>3 DEF Done
    <3>5. QED
      BY <2>1, <2>2, <3>3, <3>4 DEF StepInv, Clean
  <2>5. QED
    BY <2>3, <2>4
<1>7. QED
  BY <1>3, <1>4, <1>5, <1>6 DEF PoolsInv

(* Taking the front connection off the pool.                               *)
LEMMA TakeFront ==
  ASSUME MysqlTypeOK, PlaceInv, pool # <<>>, pool' = Tail(pool), NEW c, c = Head(pool)
  PROVE  /\ c \in Conn /\ Pooled(c)
         /\ pool' \in Seq(Conn)
         /\ \A i, j \in DOMAIN pool' : pool'[i] = pool'[j] => i = j
         /\ ~Pooled(c)'
         /\ \A x : Pooled(x)' => Pooled(x)
<1>1. /\ pool \in Seq(Conn) /\ Len(pool) \in Nat /\ DOMAIN pool = 1 .. Len(pool)
      /\ 1 \in DOMAIN pool /\ c = pool[1]
  BY DEF MysqlTypeOK
<1>2. /\ pool' \in Seq(Conn) /\ DOMAIN pool' = 1 .. (Len(pool) - 1)
      /\ \A i \in DOMAIN pool' : i + 1 \in DOMAIN pool /\ pool'[i] = pool[i + 1]
  BY <1>1
<1>3. \A i, j \in DOMAIN pool : pool[i] = pool[j] => i = j
  BY DEF PlaceInv
<1>4. \A i, j \in DOMAIN pool' : pool'[i] = pool'[j] => i = j
  BY <1>1, <1>2, <1>3
<1>5. ASSUME NEW i \in DOMAIN pool'
      PROVE  pool'[i] # c
  BY <1>1, <1>2, <1>3
<1>6. c \in Conn /\ Pooled(c)
  BY <1>1 DEF Pooled
<1>7. ~Pooled(c)'
  BY <1>5 DEF Pooled
<1>8. \A x : Pooled(x)' => Pooled(x)
  BY <1>2 DEF Pooled
<1>9. QED
  BY <1>2, <1>4, <1>6, <1>7, <1>8

(* get() hands connection c to thread t.                                   *)
LEMMA HandedOut ==
  ASSUME PoolsInv, NEW t \in Thread, NEW c \in Conn, Begin(t),
         pool' \in Seq(Conn),
         \A i, j \in DOMAIN pool' : pool'[i] = pool'[j] => i = j,
         \A v \in Thread : held[v] # c,
         ~Pooled(c)', \A x : Pooled(x)' => Pooled(x),
         NEW d \in ConnType, HandOut(t, c, d),
         d.state # "closed", ~d.tx, d.work = {}
  PROVE  PoolsInv'
<1> USE MysqlPoolAssumption
<1>1. PICK label \in {"query", "create"} : pc' = [pc EXCEPT ![t] = label]
  BY DEF Begin, ThreadGoto
<1>2. /\ pc[t] = "idle"
      /\ held' = [held EXCEPT ![t] = c] /\ conn' = [conn EXCEPT ![c] = d]
      /\ result' = [result EXCEPT ![t] = "none"] /\ stored' = [stored EXCEPT ![t] = {}]
  BY DEF Begin, HandOut
<1>3. MysqlTypeOK'
  BY <1>1, <1>2 DEF PoolsInv, MysqlTypeOK, ConnType, State
<1>4. /\ held'[t] = c /\ pc'[t] = label /\ conn'[c] = d
      /\ result'[t] = "none" /\ stored'[t] = {}
      /\ \A v \in Thread : v # t =>
           /\ held'[v] = held[v] /\ pc'[v] = pc[v]
           /\ result'[v] = result[v] /\ stored'[v] = stored[v]
      /\ \A x \in Conn : x # c => conn'[x] = conn[x]
  BY <1>1, <1>2 DEF PoolsInv, MysqlTypeOK
<1>5. PlaceInv'
  <2>1. \A v \in Thread : held'[v] = Nil <=> pc'[v] = "idle"
    BY <1>1, <1>4 DEF PoolsInv, PlaceInv
  <2>2. \A v \in Thread : ~Pooled(held[v])'
    <3> TAKE v \in Thread
    <3>1. held'[v] = c \/ held'[v] = held[v]
      BY <1>4
    <3>2. ~Pooled(held[v])
      BY DEF PoolsInv, PlaceInv
    <3>3. QED
      BY <3>1, <3>2 DEF Pooled
  <2>3. \A x \in Conn : Pooled(x)' \/ (\E v \in Thread : held'[v] = x) => conn'[x].state # "closed"
    BY <1>4 DEF PoolsInv, PlaceInv
  <2>4. QED
    BY <1>4, <2>1, <2>2, <2>3 DEF PoolsInv, PlaceInv
<1>6. ConnInv'
  BY <1>4 DEF PoolsInv, ConnInv, Clean
<1>7. ASSUME NEW v \in Thread
      PROVE  StepInv(v)'
  <2>1. CASE v = t
    BY <1>1, <1>4, <2>1 DEF StepInv, Clean
  <2>2. CASE v # t
    <3>1. StepInv(v)
      BY DEF PoolsInv
    <3>2. pc[v] # "idle" => held[v] \in Conn /\ conn'[held[v]] = conn[held[v]]
      BY <1>4, OwnConn, <2>2
    <3>3. pc[v] # "idle" => (Clean(held[v])' <=> Clean(held[v])) /\ (MyConn(v)' = MyConn(v))
      BY <3>2, <1>4, <2>2 DEF Clean, MyConn
    <3>4. pc[v] # "idle" => \A w : Done(v, w)' <=> Done(v, w)
      BY <3>3 DEF Done
    <3>5. QED
      BY <3>1, <3>3, <3>4, <1>4, <2>2 DEF StepInv, Clean
  <2>3. QED
    BY <2>1, <2>2
<1>8. QED
  BY <1>3, <1>5, <1>6, <1>7 DEF PoolsInv

(* The front connection of the pool is not used and has nothing open.      *)
LEMMA FrontIsFree ==
  ASSUME PoolsInv, pool # <<>>
  PROVE  /\ Head(pool) \in Conn /\ conn[Head(pool)] \in ConnType
         /\ Clean(Head(pool)) /\ conn[Head(pool)].state # "closed"
         /\ \A v \in Thread : held[v] # Head(pool)
<1>1. /\ pool \in Seq(Conn) /\ 1 \in DOMAIN pool /\ Head(pool) = pool[1]
  BY DEF PoolsInv, MysqlTypeOK
<1>2. Head(pool) \in Conn /\ Pooled(Head(pool))
  BY <1>1 DEF Pooled
<1>3. QED
  BY <1>2 DEF PoolsInv, MysqlTypeOK, ConnType, State, ConnInv, PlaceInv

(* get() hands out the front connection.                                   *)
LEMMA FrontHandedOut ==
  ASSUME PoolsInv, NEW t \in Thread, Begin(t), pool # <<>>, pool' = Tail(pool),
         NEW d \in ConnType, HandOut(t, Head(pool), d),
         d.state # "closed", ~d.tx, d.work = {}
  PROVE  PoolsInv'
<1>1. PICK c : c = Head(pool)
  OBVIOUS
<1>2. MysqlTypeOK /\ PlaceInv
  BY DEF PoolsInv
<1>3. /\ c \in Conn
      /\ pool' \in Seq(Conn)
      /\ \A i, j \in DOMAIN pool' : pool'[i] = pool'[j] => i = j
      /\ ~Pooled(c)' /\ \A x : Pooled(x)' => Pooled(x)
  BY <1>1, <1>2, TakeFront
<1>4. \A v \in Thread : held[v] # c
  BY <1>1, FrontIsFree
<1>5. HandOut(t, c, d)
  BY <1>1
<1>6. QED
  BY <1>3, <1>4, <1>5, HandedOut

LEMMA StepBegin ==
  ASSUME PoolsInv, NEW t \in Thread, Begin(t)
  PROVE  PoolsInv'
<1> USE MysqlPoolAssumption
<1>1. CASE GetUntested(t)
  <2>1. /\ pool # <<>> /\ pool' = Tail(pool)
        /\ HandOut(t, Head(pool), conn[Head(pool)])
    BY <1>1 DEF GetUntested
  <2>2. /\ conn[Head(pool)] \in ConnType /\ conn[Head(pool)].state # "closed"
        /\ ~conn[Head(pool)].tx /\ conn[Head(pool)].work = {}
    BY <2>1, FrontIsFree DEF Clean
  <2>3. QED
    BY <2>1, <2>2, FrontHandedOut
<1>2. CASE GetPinged(t)
  <2> DEFINE d == [conn[Head(pool)] EXCEPT !.err = FALSE, !.recent = TRUE]
  <2>1. pool # <<>> /\ pool' = Tail(pool) /\ HandOut(t, Head(pool), d)
    BY <1>2 DEF GetPinged
  <2>2. d \in ConnType /\ d.state # "closed" /\ ~d.tx /\ d.work = {}
    BY <2>1, FrontIsFree DEF ConnType, Clean
  <2> HIDE DEF d
  <2>3. QED
    BY <2>1, <2>2, FrontHandedOut
<1>3. Opened \in ConnType /\ Opened.state # "closed" /\ ~Opened.tx /\ Opened.work = {}
  BY DEF Opened, Closed, ConnType, State, Statements
<1>4. CASE GetConnected(t)
  <2>1. pool # <<>> /\ pool' = Tail(pool) /\ HandOut(t, Head(pool), Opened)
    BY <1>4 DEF GetConnected, Connect
  <2>2. QED
    BY <1>3, <2>1, FrontHandedOut
<1>5. CASE GetNew(t)
  <2>1. PICK c \in Conn : conn[c].state = "closed" /\ HandOut(t, c, Opened)
    BY <1>5 DEF GetNew
  <2>2. pool' = <<>> /\ DOMAIN pool' = {}
    BY <1>5 DEF GetNew
  <2>3. \A v \in Thread : held[v] # c
    BY <2>1 DEF PoolsInv, PlaceInv
  <2>4. /\ pool' \in Seq(Conn) /\ \A x : ~Pooled(x)'
        /\ \A i, j \in DOMAIN pool' : pool'[i] = pool'[j] => i = j
    BY <2>2 DEF Pooled
  <2>5. QED
    BY <1>3, <2>1, <2>3, <2>4, HandedOut
<1>6. QED
  BY <1>1, <1>2, <1>4, <1>5 DEF Begin, Get

(* A connection that could not be opened again is gone.                    *)
LEMMA StepGetFails ==
  ASSUME PoolsInv, NEW t \in Thread, GetFails(t)
  PROVE  PoolsInv'
<1> USE MysqlPoolAssumption
<1>1. /\ pc[t] = "idle" /\ UNCHANGED <<held, pc>>
      /\ result' = [result EXCEPT ![t] = "failed"] /\ stored' = [stored EXCEPT ![t] = {}]
  BY DEF GetFails
<1>2. /\ pool' \in Seq(Conn)
      /\ \A i, j \in DOMAIN pool' : pool'[i] = pool'[j] => i = j
      /\ \A x : Pooled(x)' => Pooled(x)
      /\ \A x \in Conn : conn'[x] = conn[x] \/ (~Pooled(x)' /\ Pooled(x) /\ conn'[x] = Closed)
      /\ conn' \in [Conn -> ConnType]
  <2>1. CASE UNCHANGED <<pool, conn>>
    BY <2>1 DEF PoolsInv, MysqlTypeOK, PlaceInv, Pooled, ConnType, State
  <2>2. CASE /\ pool # <<>> /\ pool' = Tail(pool)
             /\ conn' = [conn EXCEPT ![Head(pool)] = Closed]
    <3>1. Closed \in ConnType
      BY DEF Closed, ConnType, State, Statements
    <3>2. conn \in [Conn -> ConnType]
      BY DEF PoolsInv, MysqlTypeOK, ConnType, State
    <3>3. PICK c : c = Head(pool)
      OBVIOUS
    <3>4. /\ c \in Conn /\ Pooled(c) /\ ~Pooled(c)'
          /\ pool' \in Seq(Conn)
          /\ \A i, j \in DOMAIN pool' : pool'[i] = pool'[j] => i = j
          /\ \A x : Pooled(x)' => Pooled(x)
      BY <2>2, <3>3, TakeFront DEF PoolsInv
    <3>5. /\ conn'[c] = Closed
          /\ \A x \in Conn : x # c => conn'[x] = conn[x]
          /\ conn' \in [Conn -> ConnType]
      BY <2>2, <3>1, <3>2, <3>3, <3>4
    <3>6. \A x \in Conn : conn'[x] = conn[x] \/ (~Pooled(x)' /\ Pooled(x) /\ conn'[x] = Closed)
      BY <3>4, <3>5
    <3>7. QED
      BY <3>4, <3>5, <3>6
  <2>3. QED
    BY <2>1, <2>2 DEF GetFails
<1>3. MysqlTypeOK'
  BY <1>1, <1>2 DEF PoolsInv, MysqlTypeOK, ConnType, State
<1>4. ASSUME NEW v \in Thread, held[v] # Nil
      PROVE  held[v] \in Conn /\ conn'[held[v]] = conn[held[v]]
  BY <1>2, <1>4 DEF PoolsInv, MysqlTypeOK, PlaceInv
<1>5. PlaceInv'
  <2>1. \A x \in Conn : Pooled(x)' \/ (\E v \in Thread : held'[v] = x) => conn'[x].state # "closed"
    BY <1>1, <1>2, <1>4 DEF PoolsInv, PlaceInv
  <2>2. \A v \in Thread : ~Pooled(held[v])'
    BY <1>1, <1>2 DEF PoolsInv, PlaceInv, Pooled
  <2>3. QED
    BY <1>1, <1>2, <2>1, <2>2 DEF PoolsInv, PlaceInv
<1>6. ConnInv'
  BY <1>2 DEF PoolsInv, ConnInv, Clean, Closed
<1>7. ASSUME NEW v \in Thread
      PROVE  StepInv(v)'
  <2>1. StepInv(v) /\ (pc[v] = "idle" <=> held[v] = Nil)
    BY DEF PoolsInv, PlaceInv
  <2>2. /\ pc'[v] = pc[v] /\ held'[v] = held[v]
        /\ v # t => stored'[v] = stored[v] /\ result'[v] = result[v]
        /\ v = t => stored'[v] = {} /\ result'[v] = "failed"
    BY <1>1 DEF PoolsInv, MysqlTypeOK
  <2>3. pc[v] # "idle" =>
          (Clean(held[v])' <=> Clean(held[v])) /\ (MyConn(v)' = MyConn(v))
    BY <2>1, <2>2, <1>4 DEF Clean, MyConn
  <2>4. pc[v] # "idle" => \A w : Done(v, w)' <=> Done(v, w)
    BY <2>3 DEF Done
  <2>5. QED
    BY <1>1, <2>1, <2>2, <2>3, <2>4 DEF StepInv, Clean
<1>8. QED
  BY <1>3, <1>5, <1>6, <1>7 DEF PoolsInv

(* The connection goes back to the pool, or is deleted.                    *)
LEMMA StepFree ==
  ASSUME PoolsInv, NEW t \in Thread, FreeMySQL(t)
  PROVE  PoolsInv'
<1> USE MysqlPoolAssumption
<1>1. PICK c : c = held[t]
  OBVIOUS
<1>2. /\ c \in Conn /\ conn[c] \in ConnType /\ ~Pooled(c) /\ conn[c].state # "closed"
      /\ Clean(c) /\ \A v \in Thread : v # t => held[v] # c
      /\ pc[t] = "free"
  <2>1. pc[t] = "free" /\ StepInv(t)
    BY DEF FreeMySQL, PoolsInv
  <2>2. QED
    BY <2>1, <1>1, OwnConn DEF StepInv, MyConn, Clean
<1>3. /\ held' = [held EXCEPT ![t] = Nil] /\ pc' = [pc EXCEPT ![t] = "idle"]
      /\ UNCHANGED <<result, stored>>
  BY DEF FreeMySQL, ThreadGoto
<1>4. /\ held'[t] = Nil /\ pc'[t] = "idle"
      /\ \A v \in Thread : v # t => held'[v] = held[v] /\ pc'[v] = pc[v]
  BY <1>3 DEF PoolsInv, MysqlTypeOK
<1>5. /\ pool' \in Seq(Conn) /\ conn' \in [Conn -> ConnType]
      /\ \A i, j \in DOMAIN pool' : pool'[i] = pool'[j] => i = j
      /\ \A x \in Conn : x # c => conn'[x] = conn[x] /\ (Pooled(x)' <=> Pooled(x))
      /\ ~Pooled(Nil)'
      /\ Clean(c)' /\ (Pooled(c)' => conn'[c].state # "closed")
      /\ conn'[c].state = "closed" \/ conn'[c] = conn[c]
  <2>0. /\ pool \in Seq(Conn) /\ Len(pool) \in Nat /\ DOMAIN pool = 1 .. Len(pool)
        /\ conn \in [Conn -> ConnType]
    BY DEF PoolsInv, MysqlTypeOK, ConnType, State
  <2>1. CASE pool' = Append(pool, c) /\ UNCHANGED conn
    <3>1. /\ pool' \in Seq(Conn) /\ DOMAIN pool' = 1 .. (Len(pool) + 1)
          /\ pool'[Len(pool) + 1] = c
          /\ \A i \in DOMAIN pool : pool'[i] = pool[i]
      BY <2>0, <2>1, <1>2
    <3>2. \A i \in DOMAIN pool' : i \in DOMAIN pool \/ i = Len(pool) + 1
      BY <2>0, <3>1
    <3>3. \A i \in DOMAIN pool : pool[i] # c /\ pool[i] # Nil
      BY <2>0, <1>2 DEF Pooled
    <3>4. \A i, j \in DOMAIN pool' : pool'[i] = pool'[j] => i = j
      BY <3>1, <3>2, <3>3 DEF PoolsInv, PlaceInv
    <3>5. \A x : x # c => (Pooled(x)' <=> Pooled(x))
      BY <2>0, <3>1, <3>2 DEF Pooled
    <3>6. ~Pooled(Nil)'
      BY <3>1, <3>2, <3>3, <1>2 DEF Pooled
    <3>7. QED
      BY <2>0, <2>1, <3>1, <3>4, <3>5, <3>6, <1>2 DEF Clean
  <2>2. CASE UNCHANGED pool /\ conn' = [conn EXCEPT ![c] = Closed]
    <3>1. Closed \in ConnType /\ Closed.state = "closed" /\ ~Closed.tx /\ Closed.work = {}
      BY DEF Closed, ConnType, State, Statements
    <3>2. conn'[c] = Closed /\ \A x \in Conn : x # c => conn'[x] = conn[x]
      BY <2>0, <2>2, <1>2
    <3>3. \A x : Pooled(x)' <=> Pooled(x)
      BY <2>2 DEF Pooled
    <3>4. ~Pooled(Nil)
      BY <2>0 DEF Pooled
    <3>5. \A i, j \in DOMAIN pool' : pool'[i] = pool'[j] => i = j
      BY <2>2 DEF PoolsInv, PlaceInv
    <3>6. conn' \in [Conn -> ConnType]
      BY <2>0, <2>2, <3>1
    <3>7. QED
      BY <2>0, <2>2, <3>1, <3>2, <3>3, <3>4, <3>5, <3>6, <1>2 DEF Clean
  <2>3. QED
    BY <2>1, <2>2, <1>1 DEF FreeMySQL, Set
<1>6. MysqlTypeOK'
  BY <1>3, <1>5 DEF PoolsInv, MysqlTypeOK, ConnType, State
<1>7. PlaceInv'
  <2>1. \A v \in Thread : held'[v] = Nil <=> pc'[v] = "idle"
    BY <1>4 DEF PoolsInv, PlaceInv
  <2>2. \A v, w \in Thread : held'[v] # Nil /\ held'[w] = held'[v] => w = v
    BY <1>4 DEF PoolsInv, PlaceInv
  <2>3. ASSUME NEW v \in Thread
        PROVE  ~Pooled(held[v])'
    <3>1. PICK x : x = held'[v]
      OBVIOUS
    <3>2. x = Nil \/ (x \in Conn /\ x # c /\ ~Pooled(x))
      BY <3>1, <1>2, <1>4 DEF PoolsInv, MysqlTypeOK, PlaceInv
    <3>3. ~Pooled(x)'
      BY <3>2, <1>5
    <3>4. QED
      BY <3>1, <3>3 DEF Pooled
  <2>4. ASSUME NEW x \in Conn, Pooled(x)' \/ (\E v \in Thread : held'[v] = x)
        PROVE  conn'[x].state # "closed"
    <3>1. CASE x = c
      BY <3>1, <2>4, <1>2, <1>4, <1>5
    <3>2. CASE x # c
      <4>1. Pooled(x) \/ (\E v \in Thread : held[v] = x)
        BY <2>4, <3>2, <1>4, <1>5
      <4>2. QED
        BY <4>1, <3>2, <1>5 DEF PoolsInv, PlaceInv
    <3>3. QED
      BY <3>1, <3>2
  <2>5. QED
    BY <1>5, <2>1, <2>2, <2>3, <2>4 DEF PlaceInv
<1>8. ConnInv'
  BY <1>2, <1>5 DEF PoolsInv, ConnInv, Clean
<1>9. ASSUME NEW v \in Thread
      PROVE  StepInv(v)'
  <2>1. StepInv(v) /\ (pc[v] = "idle" <=> held[v] = Nil)
    BY DEF PoolsInv, PlaceInv
  <2>2. CASE v = t
    BY <2>1, <2>2, <1>2, <1>3, <1>4 DEF StepInv
  <2>3. CASE v # t
    <3>1. /\ pc'[v] = pc[v] /\ held'[v] = held[v]
          /\ stored'[v] = stored[v] /\ result'[v] = result[v]
      BY <1>3, <1>4, <2>3
    <3>2. pc[v] # "idle" => conn'[held[v]] = conn[held[v]]
      BY <2>3, <1>2, <1>5, OwnConn
    <3>3. pc[v] # "idle" =>
            (Clean(held[v])' <=> Clean(held[v])) /\ (MyConn(v)' = MyConn(v))
      BY <3>1, <3>2 DEF Clean, MyConn
    <3>4. pc[v] # "idle" => \A w : Done(v, w)' <=> Done(v, w)
      BY <3>3 DEF Done
    <3>5. QED
      BY <2>1, <3>1, <3>3, <3>4 DEF StepInv, Clean
  <2>4. QED
    BY <2>2, <2>3
<1>10. QED
  BY <1>6, <1>7, <1>8, <1>9 DEF PoolsInv

(* A step that changes one connection and nothing else: it stays in use,   *)
(* and if it is still open it has done what it had done.                   *)
LEMMA ConnStep ==
  ASSUME PoolsInv, NEW c \in Conn, NEW d \in ConnType,
         conn' = [conn EXCEPT ![c] = d],
         UNCHANGED <<pool, held, pc, result, stored>>,
         d.state = "closed" <=> conn[c].state = "closed",
         \/ ~d.tx /\ d.work = {} /\ d.state # "open"
         \/ d.state = conn[c].state /\ d.tx = conn[c].tx /\ d.work = conn[c].work
  PROVE  PoolsInv'
<1> USE MysqlPoolAssumption
<1>1. /\ conn'[c] = d /\ \A x \in Conn : x # c => conn'[x] = conn[x]
      /\ \A x : Pooled(x)' <=> Pooled(x)
  BY DEF PoolsInv, MysqlTypeOK, Pooled
<1>2. MysqlTypeOK'
  BY DEF PoolsInv, MysqlTypeOK, ConnType, State
<1>3. PlaceInv'
  <2>1. \A v \in Thread : ~Pooled(held[v])'
    BY DEF PoolsInv, PlaceInv, Pooled
  <2>2. QED
    BY <1>1, <2>1 DEF PoolsInv, PlaceInv
<1>4. ConnInv'
  BY <1>1 DEF PoolsInv, ConnInv, Clean
<1>5. ASSUME NEW v \in Thread
      PROVE  StepInv(v)'
  <2>1. StepInv(v) /\ (pc[v] # "idle" => held[v] \in Conn)
    BY OwnConn DEF PoolsInv
  <2>2. pc[v] # "idle" => (Clean(held[v]) => Clean(held[v])')
    BY <1>1, <2>1 DEF Clean
  <2>3. pc[v] # "idle" => \A w : Done(v, w) => Done(v, w)'
    BY <1>1, <2>1 DEF Done, MyConn
  <2>4. QED
    BY <2>1, <2>2, <2>3 DEF StepInv, Clean
<1>6. QED
  BY <1>2, <1>3, <1>4, <1>5 DEF PoolsInv

LEMMA StepBreak ==
  ASSUME PoolsInv, NEW c \in Conn, Break(c)
  PROVE  PoolsInv'
<1>1. conn \in [Conn -> ConnType]
  BY DEF PoolsInv, MysqlTypeOK, ConnType, State
<1> DEFINE d == [conn[c] EXCEPT !.state = "dead", !.tx = FALSE, !.work = {}]
<1>2. /\ d \in ConnType /\ d.state = "dead" /\ ~d.tx /\ d.work = {}
      /\ conn[c].state = "open"
  BY <1>1 DEF Break, ConnType, State, Statements
<1>3. conn' = [conn EXCEPT ![c] = d] /\ UNCHANGED <<pool, held, pc, result, stored>>
  BY <1>1 DEF Break, ConnType
<1> HIDE DEF d
<1>4. QED
  BY <1>2, <1>3, ConnStep

LEMMA StepAge ==
  ASSUME PoolsInv, NEW c \in Conn, Age(c)
  PROVE  PoolsInv'
<1>1. conn \in [Conn -> ConnType]
  BY DEF PoolsInv, MysqlTypeOK, ConnType, State
<1> DEFINE d == [conn[c] EXCEPT !.recent = FALSE]
<1>2. /\ d \in ConnType /\ d.state = conn[c].state
      /\ d.tx = conn[c].tx /\ d.work = conn[c].work
  <2>1. conn[c] \in ConnType
    BY <1>1
  <2>2. d.state = conn[c].state /\ d.tx = conn[c].tx /\ d.work = conn[c].work
    BY <2>1 DEF ConnType
  <2>3. d \in ConnType
    BY <2>1 DEF ConnType
  <2> QED BY <2>2, <2>3
<1>3. conn' = [conn EXCEPT ![c] = d] /\ UNCHANGED <<pool, held, pc, result, stored>>
  BY <1>1 DEF Age, ConnType
<1> HIDE DEF d
<1>4. QED
  BY <1>2, <1>3, ConnStep

(* The process is gone: everything is as it was at the start.              *)
LEMMA StepCreateFails ==
  ASSUME PoolsInv, NEW t \in Thread, CreateFails(t)
  PROVE  PoolsInv'
<1>1. MysqlInit'
  BY DEF CreateFails, MysqlInit
<1>2. MysqlInit' => PoolsInv'
  BY InitPoolsInv, PTL
<1>3. QED
  BY <1>1, <1>2

LEMMA StepQuery ==
  ASSUME PoolsInv, NEW t \in Thread, Query(t)
  PROVE  PoolsInv'
<1>1. /\ pc[t] = "query" /\ pc' = [pc EXCEPT ![t] = "free"]
      /\ UNCHANGED <<pool, held, conn, result, stored>>
  BY DEF Query, ThreadGoto
<1>2. /\ held[t] \in Conn /\ MyConn(t) \in ConnType /\ MyConn(t).state # "closed"
      /\ StepInv(t) /\ Clean(held[t])
  BY <1>1, OwnConn DEF PoolsInv, StepInv
<1>3. conn' = [conn EXCEPT ![held[t]] = MyConn(t)]
  BY <1>1, <1>2 DEF PoolsInv, MysqlTypeOK, MyConn
<1>4. pc'[t] = "free"
  BY <1>1 DEF PoolsInv, MysqlTypeOK
<1>5. StepInv(t)'
  BY <1>1, <1>2, <1>4 DEF StepInv, Clean
<1>6. /\ result' \in [Thread -> {"none", "ok", "failed"}]
      /\ stored' \in [Thread -> SUBSET Statements]
  BY <1>1 DEF PoolsInv, MysqlTypeOK
<1>7. QED
  BY <1>1, <1>2, <1>3, <1>5, <1>6, OwnStep DEF Clean, MyConn, PC

(* BEGIN on a connection that has done nothing.                            *)
LEMMA Begun ==
  ASSUME PoolsInv, NEW t \in Thread, NEW label \in {"begin", "first"},
         pc[t] \in {"create", "begin"}, BeginTx(t),
         pc' = [pc EXCEPT ![t] = label], UNCHANGED <<pool, held, result>>
  PROVE  PoolsInv'
<1> DEFINE d == [MyConn(t) EXCEPT !.tx = TRUE, !.work = {}, !.err = FALSE]
<1>1. /\ held[t] \in Conn /\ MyConn(t) \in ConnType /\ MyConn(t).state = "open"
      /\ StepInv(t)
  BY OwnConn DEF PoolsInv, BeginTx, Alive
<1>2. MyConn(t).work = {} /\ stored[t] = {} /\ result[t] # "ok"
  BY <1>1 DEF StepInv, Clean, Done, MyConn, Statements
<1>3. d \in ConnType /\ d.state = "open" /\ d.tx /\ d.work = {}
  BY <1>1 DEF ConnType, Statements
<1>4. conn' = [conn EXCEPT ![held[t]] = d]
  BY DEF BeginTx, Set
<1> HIDE DEF d
<1>5. conn'[held[t]] = d /\ pc'[t] = label
  BY <1>1, <1>4 DEF PoolsInv, MysqlTypeOK
<1>6. stored' = stored
  <2>1. stored' = [stored EXCEPT ![t] = stored[t] \cup MyConn(t).work]
    BY DEF BeginTx
  <2>2. QED
    BY <1>2, <2>1 DEF PoolsInv, MysqlTypeOK
<1>7. StepInv(t)'
  BY <1>2, <1>3, <1>5, <1>6 DEF StepInv, Done, MyConn
<1>8. /\ result' \in [Thread -> {"none", "ok", "failed"}]
      /\ stored' \in [Thread -> SUBSET Statements]
  BY <1>6 DEF PoolsInv, MysqlTypeOK
<1>9. QED
  BY <1>3, <1>4, <1>6, <1>7, <1>8, OwnStep DEF PC

LEMMA StepCreate ==
  ASSUME PoolsInv, NEW t \in Thread, Create(t) \/ BeginAgain(t)
  PROVE  PoolsInv'
<1>1. CASE Create(t)
  BY <1>1, Begun DEF Create, ThreadGoto
<1>2. CASE BeginAgain(t)
  BY <1>2, Begun DEF BeginAgain, ThreadGoto
<1>3. QED
  BY <1>1, <1>2

(* A statement of a transaction finds it open.                             *)
LEMMA StatementRun ==
  ASSUME PoolsInv, NEW t \in Thread, NEW s \in Statements, NEW label \in {"second", "commit"},
         \/ pc[t] = "first" /\ s = 1 /\ label = "second"
         \/ pc[t] = "second" /\ s = 2 /\ label = "commit",
         Run(t, s), pc' = [pc EXCEPT ![t] = label], UNCHANGED <<pool, held, result>>
  PROVE  PoolsInv'
<1> DEFINE d == [MyConn(t) EXCEPT !.work = MyConn(t).work \cup {s}]
<1>1. /\ held[t] \in Conn /\ MyConn(t) \in ConnType /\ MyConn(t).state = "open"
      /\ StepInv(t)
  BY OwnConn DEF PoolsInv, Run, Alive
<1>2. /\ MyConn(t).tx /\ stored[t] = {} /\ result[t] # "ok"
      /\ label = "second" => MyConn(t).work \cup {s} = {1}
      /\ label = "commit" => MyConn(t).work \cup {s} = Statements
  BY <1>1 DEF StepInv, Done, MyConn, Statements
<1>3. /\ d \in ConnType /\ d.state = "open" /\ d.tx
      /\ d.work = MyConn(t).work \cup {s}
  BY <1>1, <1>2 DEF ConnType, Statements
<1>4. conn' = [conn EXCEPT ![held[t]] = d] /\ UNCHANGED stored
  BY <1>2 DEF Run, Set
<1> HIDE DEF d
<1>5. conn'[held[t]] = d /\ pc'[t] = label
  BY <1>1, <1>4 DEF PoolsInv, MysqlTypeOK
<1>6. StepInv(t)'
  BY <1>2, <1>3, <1>4, <1>5 DEF StepInv, Done, MyConn
<1>7. /\ result' \in [Thread -> {"none", "ok", "failed"}]
      /\ stored' \in [Thread -> SUBSET Statements]
  BY <1>4 DEF PoolsInv, MysqlTypeOK
<1>8. QED
  BY <1>3, <1>4, <1>6, <1>7, OwnStep DEF PC

LEMMA StepStatement ==
  ASSUME PoolsInv, NEW t \in Thread, First(t) \/ Second(t)
  PROVE  PoolsInv'
<1>1. CASE First(t)
  BY <1>1, StatementRun DEF First, ThreadGoto, Statements
<1>2. CASE Second(t)
  BY <1>2, StatementRun DEF Second, ThreadGoto, Statements
<1>3. QED
  BY <1>1, <1>2

LEMMA StepStatementFails ==
  ASSUME PoolsInv, NEW t \in Thread, StatementFails(t)
  PROVE  PoolsInv'
<1>1. /\ pc[t] \in {"begin", "first", "second"} /\ pc' = [pc EXCEPT ![t] = "rollback"]
      /\ UNCHANGED <<pool, held, result, stored>>
  BY DEF StatementFails, ThreadGoto
<1>2. /\ held[t] \in Conn /\ MyConn(t) \in ConnType /\ MyConn(t).state # "closed"
      /\ StepInv(t)
      /\ MyConn(t).state # "open" => ~MyConn(t).tx /\ MyConn(t).work = {}
  BY <1>1, OwnConn DEF PoolsInv, ConnInv, Clean, MyConn
<1>3. PICK d \in ConnType :
        /\ Set(t, d) /\ d.state = MyConn(t).state
        /\ d.state # "open" => ~d.tx /\ d.work = {}
  <2>1. ASSUME NEW e \in BOOLEAN, Set(t, [MyConn(t) EXCEPT !.err = e])
        PROVE  \E d \in ConnType :
                 /\ Set(t, d) /\ d.state = MyConn(t).state
                 /\ d.state # "open" => ~d.tx /\ d.work = {}
    <3> DEFINE d == [MyConn(t) EXCEPT !.err = e]
    <3>1. /\ d \in ConnType /\ d.state = MyConn(t).state /\ d.tx = MyConn(t).tx
          /\ d.work = MyConn(t).work
      BY <1>2 DEF ConnType
    <3>2. Set(t, d)
      BY <2>1
    <3> HIDE DEF d
    <3>3. QED
      BY <1>2, <3>1, <3>2
  <2>2. CASE Set(t, [MyConn(t) EXCEPT !.tx = FALSE, !.work = {}])
    <3> DEFINE d == [MyConn(t) EXCEPT !.tx = FALSE, !.work = {}]
    <3>1. d \in ConnType /\ d.state = MyConn(t).state /\ ~d.tx /\ d.work = {}
      BY <1>2 DEF ConnType, Statements
    <3>2. Set(t, d)
      BY <2>2
    <3> HIDE DEF d
    <3>3. QED
      BY <3>1, <3>2
  <2>3. /\ (MyConn(t).err \/ pc[t] # "second") \in BOOLEAN
        /\ (MyConn(t).err \/ pc[t] = "first") \in BOOLEAN
    OBVIOUS
  <2>4. QED
    BY <2>1, <2>2, <2>3 DEF StatementFails
<1>4. conn' = [conn EXCEPT ![held[t]] = d]
  BY <1>3 DEF Set
<1>5. pc'[t] = "rollback"
  BY <1>1 DEF PoolsInv, MysqlTypeOK
<1>6. StepInv(t)'
  BY <1>1, <1>2, <1>5 DEF StepInv
<1>7. /\ result' \in [Thread -> {"none", "ok", "failed"}]
      /\ stored' \in [Thread -> SUBSET Statements]
  BY <1>1 DEF PoolsInv, MysqlTypeOK
<1>8. QED
  BY <1>1, <1>2, <1>3, <1>4, <1>6, <1>7, OwnStep DEF PC

LEMMA StepCommit ==
  ASSUME PoolsInv, NEW t \in Thread, CommitTx(t)
  PROVE  PoolsInv'
<1> DEFINE d == [MyConn(t) EXCEPT !.tx = FALSE, !.work = {}, !.err = FALSE]
<1>1. /\ pc[t] = "commit" /\ pc' = [pc EXCEPT ![t] = "free"]
      /\ result' = [result EXCEPT ![t] = "ok"]
      /\ conn' = [conn EXCEPT ![held[t]] = d]
      /\ stored' = [stored EXCEPT ![t] = stored[t] \cup MyConn(t).work]
      /\ UNCHANGED <<pool, held>>
  BY DEF CommitTx, ThreadGoto, Set
<1>2. /\ held[t] \in Conn /\ MyConn(t) \in ConnType /\ MyConn(t).state = "open"
      /\ StepInv(t)
  BY <1>1, OwnConn DEF PoolsInv, CommitTx, Alive
<1>3. MyConn(t).work = Statements /\ stored[t] = {}
  BY <1>1, <1>2 DEF StepInv, Done
<1>4. d \in ConnType /\ d.state = "open" /\ ~d.tx /\ d.work = {}
  BY <1>2 DEF ConnType, Statements
<1> HIDE DEF d
<1>5. /\ conn'[held[t]] = d /\ pc'[t] = "free" /\ result'[t] = "ok"
      /\ stored'[t] = Statements /\ held' = held
  BY <1>1, <1>2, <1>3 DEF PoolsInv, MysqlTypeOK
<1>6. StepInv(t)'
  BY <1>4, <1>5 DEF StepInv, Clean
<1>7. /\ result' \in [Thread -> {"none", "ok", "failed"}]
      /\ stored' \in [Thread -> SUBSET Statements]
      /\ \A v \in Thread : v # t => stored'[v] = stored[v] /\ result'[v] = result[v]
  BY <1>1, <1>3 DEF PoolsInv, MysqlTypeOK
<1>8. QED
  BY <1>1, <1>4, <1>6, <1>7, OwnStep DEF PC

LEMMA StepCommitFails ==
  ASSUME PoolsInv, NEW t \in Thread, CommitFails(t)
  PROVE  PoolsInv'
<1> DEFINE d == [MyConn(t) EXCEPT !.state = "dead", !.tx = FALSE, !.work = {}, !.err = TRUE]
<1>1. /\ pc[t] = "commit" /\ pc' = [pc EXCEPT ![t] = "rollback"]
      /\ conn' = [conn EXCEPT ![held[t]] = d]
      /\ stored' = [stored EXCEPT ![t] = stored[t] \cup MyConn(t).work]
      /\ UNCHANGED <<pool, held, result>>
  BY DEF CommitFails, ThreadGoto, Set
<1>2. held[t] \in Conn /\ MyConn(t) \in ConnType /\ StepInv(t)
  BY <1>1, OwnConn DEF PoolsInv
<1>3. MyConn(t).work \in {{}, Statements} /\ stored[t] = {} /\ result[t] # "ok"
  <2>1. MyConn(t).state # "open" => MyConn(t).work = {}
    BY <1>2 DEF PoolsInv, ConnInv, Clean, MyConn
  <2>2. QED
    BY <1>1, <1>2, <2>1 DEF StepInv, Done
<1>4. d \in ConnType /\ d.state = "dead" /\ ~d.tx /\ d.work = {}
  BY <1>2 DEF ConnType, State, Statements
<1> HIDE DEF d
<1>5. /\ pc'[t] = "rollback" /\ stored'[t] \in {{}, Statements} /\ result'[t] # "ok"
  BY <1>1, <1>3 DEF PoolsInv, MysqlTypeOK
<1>6. StepInv(t)'
  BY <1>5 DEF StepInv
<1>7. /\ result' \in [Thread -> {"none", "ok", "failed"}]
      /\ stored' \in [Thread -> SUBSET Statements]
      /\ \A v \in Thread : v # t => stored'[v] = stored[v] /\ result'[v] = result[v]
  BY <1>1, <1>3 DEF PoolsInv, MysqlTypeOK
<1>8. QED
  BY <1>1, <1>4, <1>6, <1>7, OwnStep DEF PC

LEMMA StepRollback ==
  ASSUME PoolsInv, NEW t \in Thread, RollbackTx(t)
  PROVE  PoolsInv'
<1>1. /\ pc[t] = "rollback" /\ pc' = [pc EXCEPT ![t] = "free"]
      /\ result' = [result EXCEPT ![t] = "failed"]
      /\ SendRollback(t) /\ UNCHANGED <<pool, held, stored>>
  BY DEF RollbackTx, ThreadGoto
<1>2. /\ held[t] \in Conn /\ MyConn(t) \in ConnType /\ MyConn(t).state # "closed"
      /\ StepInv(t)
      /\ MyConn(t).state # "open" => ~MyConn(t).tx /\ MyConn(t).work = {}
  BY <1>1, OwnConn DEF PoolsInv, ConnInv, Clean, MyConn
<1>3. PICK d \in ConnType : /\ conn' = [conn EXCEPT ![held[t]] = d]
                            /\ d.state # "closed" /\ ~d.tx /\ d.work = {}
  <2>1. CASE Alive(t)
    <3> DEFINE d == [MyConn(t) EXCEPT !.tx = FALSE, !.work = {}, !.err = FALSE]
    <3>1. d \in ConnType /\ d.state # "closed" /\ ~d.tx /\ d.work = {}
      BY <1>2 DEF ConnType, Statements
    <3>2. conn' = [conn EXCEPT ![held[t]] = d]
      BY <1>1, <2>1 DEF SendRollback, Set
    <3> HIDE DEF d
    <3>3. QED
      BY <3>1, <3>2
  <2>2. CASE ~Alive(t)
    <3> DEFINE d == [MyConn(t) EXCEPT !.err = TRUE]
    <3>1. MyConn(t).state # "open"
      BY <2>2, <1>2, MysqlPoolAssumption DEF Alive
    <3>2. d \in ConnType /\ d.state # "closed" /\ ~d.tx /\ d.work = {}
      BY <1>2, <3>1 DEF ConnType
    <3>3. conn' = [conn EXCEPT ![held[t]] = d]
      BY <1>1, <2>2 DEF SendRollback, Set
    <3> HIDE DEF d
    <3>4. QED
      BY <3>2, <3>3
  <2>3. QED
    BY <2>1, <2>2
<1>4. /\ conn'[held[t]] = d /\ pc'[t] = "free" /\ result'[t] = "failed"
      /\ held' = held /\ stored' = stored
  BY <1>1, <1>2, <1>3 DEF PoolsInv, MysqlTypeOK
<1>5. StepInv(t)'
  BY <1>2, <1>3, <1>4 DEF StepInv, Clean
<1>6. /\ result' \in [Thread -> {"none", "ok", "failed"}]
      /\ stored' \in [Thread -> SUBSET Statements]
      /\ \A v \in Thread : v # t => stored'[v] = stored[v] /\ result'[v] = result[v]
  BY <1>1 DEF PoolsInv, MysqlTypeOK
<1>7. QED
  BY <1>1, <1>3, <1>5, <1>6, OwnStep DEF PC

LEMMA StepPoolsInv == PoolsInv /\ [MysqlNext]_mysqlVars => PoolsInv'
<1> SUFFICES ASSUME PoolsInv, [MysqlNext]_mysqlVars
             PROVE  PoolsInv'
  OBVIOUS
<1>1. CASE UNCHANGED mysqlVars
  <2>1. /\ MysqlTypeOK' /\ PlaceInv' /\ ConnInv'
    BY <1>1 DEF mysqlVars, PoolsInv, MysqlTypeOK, PlaceInv, ConnInv, Pooled, Clean
  <2>2. \A t \in Thread : StepInv(t)'
    BY <1>1 DEF mysqlVars, PoolsInv, StepInv, Clean, Done, MyConn
  <2>3. QED
    BY <2>1, <2>2 DEF PoolsInv
<1>2. ASSUME NEW t \in Thread, Call(t)
      PROVE  PoolsInv'
  <2>1. CASE Begin(t) \/ GetFails(t)
    BY <2>1, StepBegin, StepGetFails
  <2>2. CASE Query(t) \/ FreeMySQL(t)
    BY <2>2, StepQuery, StepFree
  <2>3. CASE Create(t) \/ BeginAgain(t) \/ CreateFails(t)
    BY <2>3, StepCreate, StepCreateFails
  <2>4. CASE First(t) \/ Second(t) \/ StatementFails(t)
    BY <2>4, StepStatement, StepStatementFails
  <2>5. CASE CommitTx(t) \/ CommitFails(t) \/ RollbackTx(t)
    BY <2>5, StepCommit, StepCommitFails, StepRollback
  <2>6. QED
    BY <1>2, <2>1, <2>2, <2>3, <2>4, <2>5 DEF Call
<1>3. ASSUME NEW c \in Conn, Break(c) \/ Age(c)
      PROVE  PoolsInv'
  BY <1>3, StepBreak, StepAge
<1>4. QED
  BY <1>1, <1>2, <1>3 DEF MysqlNext

LEMMA PoolsInvHolds == MysqlSpec => []PoolsInv
BY InitPoolsInv, StepPoolsInv, PTL DEF MysqlSpec

-----------------------------------------------------------------------------
(* Every connection stays a connection, every thread where MysqlDao has it.*)
THEOREM MysqlTypeCorrect == MysqlSpec => []MysqlTypeOK
<1>1. PoolsInv => MysqlTypeOK
  BY DEF PoolsInv
<1>2. QED
  BY <1>1, PoolsInvHolds, PTL

(* Of a transaction everything is stored or nothing, and all of it when it *)
(* is called a success, however many threads share however many            *)
(* connections, and wherever they break.                                   *)
THEOREM AllOrNothingHolds == MysqlSpec => []AllOrNothing
<1>1. PoolsInv => AllOrNothing
  BY DEF PoolsInv, StepInv, AllOrNothing
<1>2. QED
  BY <1>1, PoolsInvHolds, PTL

(* No connection is in the pool with a transaction open on it.             *)
THEOREM PooledIsCleanHolds == MysqlSpec => []PooledIsClean
<1>1. PoolsInv => PooledIsClean
  BY DEF PoolsInv, ConnInv, Pooled, Clean, PooledIsClean, MysqlTypeOK
<1>2. QED
  BY <1>1, PoolsInvHolds, PTL

(* Two threads never have the same connection, nor a thread one of the     *)
(* pool's: what a transaction reads and writes on it is its own.           *)
THEOREM ConnectionsAreNotShared == MysqlSpec => []PlaceInv
<1>1. PoolsInv => PlaceInv
  BY DEF PoolsInv
<1>2. QED
  BY <1>1, PoolsInvHolds, PTL

-----------------------------------------------------------------------------
(* The accounts.                                                           *)

(* What dispatching a request has put into it.                             *)
Posted(q) == q.mail \in Mail /\ q.name \in Name /\ q.pwd \in Pwd

(* Where a registration, a reset, and a request that reads a user are.     *)
RegPC == {"regcheck", "number", "insert", "commit"}
ResetPC == {"checkmail", "update"}
InfoPC == {"getinfo", "selectinfo", "setinfo"}

(* A request for a code: the code it is about to mail is one for its       *)
(* address.                                                                *)
VarifyInv(q) ==
  /\ q.pc \in {"asked", "fresh", "tomail"} => q.kind = "code" /\ q.mail \in Mail
  /\ q.pc = "tomail" => q.code \in {q.mail} \X Code

(* A registration or a reset under way has given a code that was mailed to *)
(* its address; at the UPDATE some row has its name and its address.       *)
CodeInv(q) ==
  /\ q.pc = "checkcode" =>
       q.kind \in {"register", "reset"} /\ Posted(q) /\ q.code # None /\ q.code \in Entered
  /\ q.pc \in RegPC => q.kind = "register"
  /\ q.pc \in ResetPC => q.kind = "reset"
  /\ q.pc \in RegPC \cup ResetPC => Posted(q) /\ q.code \in mailed[q.mail]
  /\ q.pc = "update" => \E i \in DOMAIN user : user[i].name = q.name /\ user[i].mail = q.mail

(* A registration is answered once, truly.                                 *)
RegisterInv(q) ==
  q.kind = "register" =>
    /\ q.pc # "writing" => q.ans = None
    /\ RegisterTrue(q)

(* The password given was the row's, and the row is that of the address.   *)
Admitted(q) == q.held /\ q.uid \in DOMAIN user /\ user[q.uid].mail = q.mail

(* A login that has passed the SELECT is admitted, and before it notices   *)
(* that the tables hold its password.                                      *)
LoginInv(q) ==
  /\ q.pc \in {"checkpwd", "status", "told", "in"} => q.kind = "login"
  /\ q.pc \in {"checkpwd", "status"} => q.ans = None
  /\ q.pc = "told" => q.ans = "ok"
  /\ q.pc = "checkpwd" /\ HasRow(user, q.mail, q.pwd) => q.held
  /\ q.kind = "login" /\ (q.ans = "ok" \/ q.pc \in {"status", "told", "in"} \cup InfoPC)
       => Admitted(q)

(* The uid found is a row, of the name searched if there is one.           *)
FoundRow(q) == q.uid \in DOMAIN user /\ q.name \in {None, user[q.uid].name}

(* A search looks for a row that was there when it came until it finds     *)
(* one; without a fault it says there is none only if none was.            *)
FindInv(q) ==
  /\ q.pc \in InfoPC => q.kind \in {"login", "find"}
  /\ q.pc = "found" => q.kind = "find"
  /\ q.kind = "find" =>
       /\ q.pc \in InfoPC \cup {"found"}
       /\ q.pc \in InfoPC => q.ans = None
       /\ q.pc \in {"getinfo", "selectinfo"} /\ q.held =>
            IF q.name = None THEN q.uid \in DOMAIN user
                             ELSE \E i \in DOMAIN user : user[i].name = q.name
       /\ q.pc = "setinfo" \/ q.ans = "ok" => FoundRow(q)
       /\ q.ans = "UidInvalid" /\ faults = 0 => ~q.held

(* The rows are numbered one after the other, user_id counts them, and no  *)
(* address has two.                                                        *)
TableInv ==
  /\ user_id = Len(user) /\ Len(token) = Len(user)
  /\ \A i \in DOMAIN user : user[i].uid = i
  /\ \A i, j \in DOMAIN user : user[i].mail = user[j].mail => i = j

(* The codes of an address are its own, and what is cached is a row of its *)
(* name.                                                                   *)
RedisInv ==
  /\ \A m \in Mail : mailed[m] \subseteq {m} \X Code /\ code[m] \in ({m} \X Code) \cup {None}
  /\ cached \subseteq DOMAIN user
  /\ \A n \in Name : nameinfo[n] # 0 => nameinfo[n] \in DOMAIN user /\ user[nameinfo[n]].name = n

(* The row lock is held by the one registration between UPDATE user_id and *)
(* the end of its transaction; the number it has read is still the next,   *)
(* and at COMMIT no row has its address.                                   *)
LockInv ==
  \A r \in Request :
    /\ locker = r <=> req[r].pc \in {"insert", "commit"}
    /\ locker = r => req[r].uid = user_id + 1
    /\ req[r].pc = "commit" => \A i \in DOMAIN user : user[i].mail # req[r].mail

ReqInv(q) == VarifyInv(q) /\ CodeInv(q) /\ RegisterInv(q) /\ LoginInv(q) /\ FindInv(q)

(* The tables, Redis but for the tokens, and each request on its own.      *)
IInv == TypeOK /\ TableInv /\ RedisInv /\ LockInv /\ \A r \in Request : ReqInv(req[r])

(* A token that a client has been told, or is about to be told, is that of *)
(* no other user than the one whose password was given for it.             *)
Bearer(q) == q.kind = "login" /\ q.ans = "ok" /\ q.pc \in {"writing", "told"}
OnlyToken(r) == \A u \in DOMAIN token : token[u] = r => u = req[r].uid
TokenInv == \A r \in Request : Bearer(req[r]) => OnlyToken(r)

(* The inductive invariant.                                                *)
AllInv == IInv /\ TokenInv

-----------------------------------------------------------------------------
(* What no step takes back.                                                *)
Grown ==
  /\ faults \in Nat /\ faults' \in Nat /\ (faults' = 0 => faults = 0)
  /\ \A i \in DOMAIN user :
       /\ i \in DOMAIN user'
       /\ user'[i].uid = user[i].uid /\ user'[i].name = user[i].name
       /\ user'[i].mail = user[i].mail
  /\ \A m \in Mail : mailed[m] \subseteq mailed'[m]

(* A request that takes no step sees the tables change.                    *)
Noted(q) == q.held \/ (q.kind = "login" /\ HasRow(user', q.mail, q.pwd))
Waits(s) ==
  \/ UNCHANGED <<user, req[s]>>
  \/ req'[s] = [req[s] EXCEPT !.held = Noted(req[s])]

(* A request that waits keeps its fields; a login may come to note its     *)
(* password.                                                               *)
LEMMA WaitingFields ==
  ASSUME NEW s \in Request, req[s] \in ReqType, Waits(s)
  PROVE  /\ req'[s].pc = req[s].pc /\ req'[s].kind = req[s].kind /\ req'[s].mail = req[s].mail
         /\ req'[s].name = req[s].name /\ req'[s].pwd = req[s].pwd /\ req'[s].code = req[s].code
         /\ req'[s].uid = req[s].uid /\ req'[s].ans = req[s].ans
         /\ req'[s] \in ReqType
         /\ req[s].held => req'[s].held
         /\ req[s].kind # "login" => req'[s].held = req[s].held
BY DEF Waits, ReqType, Noted

(* What holds of a request that waits keeps holding while rows are added,  *)
(* passwords change and codes are mailed.                                  *)
LEMMA WaitingKept ==
  ASSUME TypeOK, Grown, NEW s \in Request, ReqInv(req[s]), Waits(s)
  PROVE  ReqInv(req[s])'
<1>0. req[s] \in ReqType
  BY DEF TypeOK
<1>1. VarifyInv(req[s])'
  BY <1>0, WaitingFields DEF VarifyInv, ReqInv
<1>2. CodeInv(req[s])'
  <2>1. Entered \subseteq Entered'
    BY DEF Entered, Grown
  <2>2. req[s].mail \in Mail => mailed[req[s].mail] \subseteq mailed'[req[s].mail]
    BY DEF Grown
  <2>3. (\E i \in DOMAIN user : user[i].name = req[s].name /\ user[i].mail = req[s].mail)
        => \E i \in DOMAIN user' : user'[i].name = req[s].name /\ user'[i].mail = req[s].mail
    BY DEF Grown
  <2> QED BY <1>0, <2>1, <2>2, <2>3, WaitingFields DEF CodeInv, ReqInv, Posted
<1>3. RegisterInv(req[s])'
  <2>1. RegisterTrue(req[s]) => RegisterTrue(req[s])'
    BY <1>0, WaitingFields DEF RegisterTrue, Grown
  <2> QED BY <1>0, <2>1, WaitingFields DEF RegisterInv, ReqInv
<1>4. LoginInv(req[s])'
  <2>1. Admitted(req[s]) => Admitted(req[s])'
    BY <1>0, WaitingFields DEF Admitted, Grown
  <2>2. LoginInv(req[s])
    BY DEF ReqInv
  <2>3. req[s].pc = "checkpwd" /\ HasRow(user', req[s].mail, req[s].pwd) => req'[s].held
    BY <1>0, <2>2 DEF Waits, Noted, LoginInv, ReqType
  <2> QED BY <1>0, <2>1, <2>2, <2>3, WaitingFields DEF LoginInv, HasRow
<1>5. FindInv(req[s])'
  <2>1. FoundRow(req[s]) => FoundRow(req[s])'
    BY <1>0, WaitingFields DEF FoundRow, Grown
  <2>2. FindInv(req[s])
    BY DEF ReqInv
  <2>3. (\E i \in DOMAIN user : user[i].name = req[s].name)
        => \E i \in DOMAIN user' : user'[i].name = req[s].name
    BY DEF Grown
  <2>4. req[s].uid \in DOMAIN user => req[s].uid \in DOMAIN user'
    BY DEF Grown
  <2> QED BY <1>0, <2>1, <2>2, <2>3, <2>4, WaitingFields, AccountsAssumption DEF FindInv, Grown
<1> QED BY <1>1, <1>2, <1>3, <1>4, <1>5 DEF ReqInv

(* The step of one request that leaves the tables alone.                   *)
Tables == <<user, user_id, locker, token>>
Alone(r) ==
  /\ UNCHANGED <<Tables, code, mailed, caches>>
  /\ faults' \in Nat /\ (faults' = 0 => faults = 0)
  /\ req' = [req EXCEPT ![r] = req'[r]]

Locking == {"insert", "commit"}

(* The part of the invariant that is about each request, for a step of r.  *)
LEMMA StepKeeps ==
  ASSUME IInv, NEW r \in Request, Grown, \A s \in Request \ {r} : Waits(s),
         req' = [s \in Request |-> req'[s]], req'[r] \in ReqType, ReqInv(req[r])',
         TablesOK'
  PROVE  TypeOK' /\ \A s \in Request : ReqInv(req[s])'
<1>0. TypeOK /\ \A s \in Request : req[s] \in ReqType /\ ReqInv(req[s])
  BY DEF IInv, TypeOK
<1>1. \A s \in Request : req'[s] \in ReqType
  BY <1>0, WaitingFields
<1>2. \A s \in Request : ReqInv(req[s])'
  BY <1>0, WaitingKept
<1>3. req' \in [Request -> ReqType]
  BY <1>1
<1> QED BY <1>2, <1>3 DEF TypeOK

(* A step of r that leaves the tables, Redis and the lock alone.           *)
LEMMA AloneKeeps ==
  ASSUME IInv, NEW r \in Request, Alone(r), req'[r] \in ReqType, ReqInv(req[r])',
         req[r].pc \notin Locking, req'[r].pc \notin Locking
  PROVE  IInv'
<1>1. Grown
  BY DEF Alone, Tables, Grown, IInv, TypeOK, TablesOK
<1>2. \A s \in Request \ {r} : Waits(s)
  BY DEF Alone, Tables, Waits, IInv, TypeOK
<1>3. req' = [s \in Request |-> req'[s]]
  BY DEF Alone, IInv, TypeOK
<1>4. TablesOK'
  BY DEF IInv, TypeOK, TablesOK, Alone, Tables, caches
<1>5. TypeOK' /\ \A s \in Request : ReqInv(req[s])'
  BY <1>1, <1>2, <1>3, <1>4, StepKeeps
<1>6. TableInv' /\ RedisInv'
  BY DEF IInv, TableInv, RedisInv, Alone, Tables, caches
<1>7. LockInv'
  BY DEF IInv, LockInv, Alone, Tables, Locking, TypeOK
<1> QED BY <1>5, <1>6, <1>7 DEF IInv

(* The type of a request that was answered, or that moved on to StatusServer,  *)
(* from the types of the fields that changed.                               *)
LEMMA FieldTypes ==
  ASSUME NEW q \in ReqType
  PROVE  /\ \A a \in Answers : [q EXCEPT !.pc = "writing", !.ans = a, !.pwd = None, !.code = None] \in ReqType
         /\ \A i \in Nat : [q EXCEPT !.pc = "status", !.uid = i] \in ReqType
         /\ \A a \in Answers : [Free EXCEPT !.pc = "writing", !.kind = q.kind, !.ans = a] \in ReqType
<1> DEFINE P == Working \cup {"idle", "reading", "writing", "told", "in", "found"}
           K == Kinds \cup {None}
           M == Mail \cup {None}
           N == Name \cup {None}
           W == Pwd \cup {None}
           C == (Mail \X Code) \cup {None}
           A == Answers \cup {None}
<1>1. ReqType = [pc : P, kind : K, mail : M, name : N, pwd : W, code : C, uid : Nat, ans : A, held : BOOLEAN]
  BY DEF ReqType
<1>2. /\ "writing" \in P /\ "status" \in P /\ "idle" \in P /\ \A a \in Answers : a \in A
      /\ None \in K /\ None \in M /\ None \in N /\ None \in W /\ None \in C /\ None \in A
  BY DEF Working
<1> HIDE DEF P, K, M, N, W, C, A
<1>3. ASSUME NEW a \in Answers
      PROVE  [q EXCEPT !.pc = "writing", !.ans = a, !.pwd = None, !.code = None] \in ReqType
  BY <1>1, <1>2
<1>4. ASSUME NEW i \in Nat
      PROVE  [q EXCEPT !.pc = "status", !.uid = i] \in ReqType
  BY <1>1, <1>2
<1>5. q.kind \in K /\ FALSE \in BOOLEAN /\ 0 \in Nat
  BY <1>1
<1>6. Free \in ReqType
  BY <1>1, <1>2, <1>5 DEF Free
<1>7. ASSUME NEW a \in Answers
      PROVE  [Free EXCEPT !.pc = "writing", !.kind = q.kind, !.ans = a] \in ReqType
  BY <1>1, <1>2, <1>5, <1>6
<1> QED BY <1>3, <1>4, <1>7

(* A request that has ended.                                               *)
LEMMA FreeKeeps ==
  ASSUME NEW r \in Request, req'[r] = Free
  PROVE  req'[r] \in ReqType /\ ReqInv(req[r])' /\ req'[r].pc = "idle"
<1>1. req'[r] \in ReqType /\ req'[r].pc = "idle" /\ req'[r].kind = None /\ req'[r].ans = None
  BY DEF Free, ReqType
<1> QED BY <1>1, AccountsAssumption
        DEF ReqInv, VarifyInv, CodeInv, RegisterInv, LoginInv, FindInv, RegPC, ResetPC, InfoPC

(* A request that is answered, if the answer is true.                      *)
LEMMA AnsweredKeeps ==
  ASSUME TypeOK, NEW r \in Request, NEW a \in Answers, req'[r] = Answered(req[r], a),
         req[r].kind # "find",
         req[r].kind = "register" =>
           /\ a = "ok" => \E i \in DOMAIN user' :
                user'[i].uid = req[r].uid /\ user'[i].name = req[r].name /\ user'[i].mail = req[r].mail
           /\ a = "UserExist" /\ faults' = 0 =>
                \E i \in DOMAIN user' : user'[i].name = req[r].name \/ user'[i].mail = req[r].mail,
         req[r].kind = "login" /\ a = "ok" =>
           req[r].held /\ req[r].uid \in DOMAIN user' /\ user'[req[r].uid].mail = req[r].mail
  PROVE  req'[r] \in ReqType /\ ReqInv(req[r])' /\ req'[r].pc = "writing"
<1>0. req[r] \in ReqType
  BY DEF TypeOK
<1>1. /\ req'[r] \in ReqType /\ req'[r].pc = "writing" /\ req'[r].kind = req[r].kind
      /\ req'[r].ans = a
      /\ req[r].kind \in {"register", "login"} =>
           /\ req'[r].uid = req[r].uid /\ req'[r].mail = req[r].mail
           /\ req'[r].name = req[r].name /\ req'[r].held = req[r].held
  <2>1. CASE req[r].kind \in {"register", "login"}
    <3>1. req'[r] = [req[r] EXCEPT !.pc = "writing", !.ans = a, !.pwd = None, !.code = None]
      BY <2>1 DEF Answered
    <3>2. req'[r] \in ReqType
      BY <1>0, <3>1 DEF ReqType
    <3>3. /\ req'[r].pc = "writing" /\ req'[r].kind = req[r].kind /\ req'[r].ans = a
          /\ req'[r].uid = req[r].uid /\ req'[r].mail = req[r].mail
          /\ req'[r].name = req[r].name /\ req'[r].held = req[r].held
      BY <1>0, <3>1 DEF ReqType
    <3> QED BY <3>2, <3>3
  <2>2. CASE req[r].kind \notin {"register", "login"}
    <3>1. req'[r] = [Free EXCEPT !.pc = "writing", !.kind = req[r].kind, !.ans = a]
      BY <2>2 DEF Answered
    <3>2. Free \in ReqType
      BY DEF Free, ReqType
    <3>3. req'[r] \in ReqType
      BY <1>0, <3>1, <3>2 DEF ReqType
    <3>4. req'[r].pc = "writing" /\ req'[r].kind = req[r].kind /\ req'[r].ans = a
      BY <3>1 DEF Free
    <3> QED BY <2>2, <3>3, <3>4
  <2> QED BY <2>1, <2>2
<1>2. VarifyInv(req[r])' /\ CodeInv(req[r])'
  BY <1>1 DEF VarifyInv, CodeInv, RegPC, ResetPC
<1>3. RegisterInv(req[r])'
  BY <1>1 DEF RegisterInv, RegisterTrue
<1>4. LoginInv(req[r])'
  BY <1>1 DEF LoginInv, Admitted, InfoPC
<1>5. FindInv(req[r])'
  BY <1>1 DEF FindInv, InfoPC
<1> QED BY <1>1, <1>2, <1>3, <1>4, <1>5 DEF ReqInv

(* At the start.                                                           *)
LEMMA InitIInv == Init => IInv
<1> SUFFICES ASSUME Init PROVE IInv
  OBVIOUS
<1>1. TypeOK
  <2>1. Free \in ReqType
    BY DEF Free, ReqType
  <2> QED BY <2>1 DEF Init, TypeOK, TablesOK
<1>2. TableInv /\ RedisInv
  BY DEF Init, TableInv, RedisInv
<1>3. \A r \in Request : req[r].pc = "idle" /\ req[r].kind = None /\ req[r].ans = None
  BY DEF Init, Free
<1>4. LockInv
  BY <1>3, AccountsAssumption DEF Init, LockInv
<1>5. \A r \in Request : ReqInv(req[r])
  BY <1>3, AccountsAssumption
     DEF ReqInv, VarifyInv, CodeInv, RegisterInv, LoginInv, FindInv, RegPC, ResetPC, InfoPC
<1> QED BY <1>1, <1>2, <1>4, <1>5 DEF IInv

-----------------------------------------------------------------------------
(* One lemma for each kind of step.                                        *)

(* A request that ends, or is answered, and changes nothing else.          *)
LEMMA EndKeeps ==
  ASSUME IInv, NEW r \in Request, req' = [req EXCEPT ![r] = Free],
         UNCHANGED <<Tables, code, mailed, caches, faults>>,
         req[r].pc \notin Locking
  PROVE  IInv'
<1>1. req'[r] = Free
  BY DEF IInv, TypeOK
<1>2. Alone(r)
  BY <1>1 DEF Alone, IInv, TypeOK, TablesOK
<1>3. req'[r].pc \notin Locking
  BY <1>1, FreeKeeps DEF Locking
<1> QED BY <1>1, <1>2, <1>3, FreeKeeps, AloneKeeps

(* A request that is answered and changes nothing else.                    *)
LEMMA AnswerKeeps ==
  ASSUME IInv, NEW r \in Request, NEW a \in Answers, Answer(r, a),
         UNCHANGED <<Tables, code, mailed, caches>>,
         faults' \in Nat, faults' = 0 => faults = 0,
         req[r].pc \notin Locking, req[r].kind # "find",
         req[r].kind = "register" => a # "ok",
         req[r].kind = "register" /\ a = "UserExist" /\ faults' = 0 =>
           \E i \in DOMAIN user : user[i].name = req[r].name \/ user[i].mail = req[r].mail,
         req[r].kind = "login" /\ a = "ok" => Admitted(req[r])
  PROVE  IInv'
<1>1. req'[r] = Answered(req[r], a)
  BY DEF Answer, IInv, TypeOK
<1>2. Alone(r)
  BY <1>1 DEF Alone, Answer
<1>3. req'[r] \in ReqType /\ ReqInv(req[r])' /\ req'[r].pc = "writing"
  <2>1. TypeOK /\ user' = user
    BY DEF IInv, Tables
  <2> QED BY <1>1, <2>1, AnsweredKeeps DEF Admitted
<1> QED BY <1>2, <1>3, AloneKeeps DEF Locking

Same == UNCHANGED <<Tables, code, mailed, caches>> /\ faults' \in Nat /\ (faults' = 0 => faults = 0)

(* Goto changes the program counter only.                                  *)
LEMMA MoveFields ==
  ASSUME TypeOK, NEW r \in Request, NEW l, Goto(r, l)
  PROVE  /\ req'[r] = [req[r] EXCEPT !.pc = l] /\ req' = [req EXCEPT ![r] = req'[r]]
         /\ req'[r].pc = l /\ req'[r].kind = req[r].kind /\ req'[r].mail = req[r].mail
         /\ req'[r].name = req[r].name /\ req'[r].pwd = req[r].pwd /\ req'[r].code = req[r].code
         /\ req'[r].uid = req[r].uid /\ req'[r].ans = req[r].ans /\ req'[r].held = req[r].held
         /\ l \in Working \cup {"idle", "reading", "writing", "told", "in", "found"} => req'[r] \in ReqType
BY DEF TypeOK, Goto, ReqType

(* The request of r changes its program counter only.                      *)
SameBut(r, l) ==
  /\ req'[r].pc = l /\ req'[r].kind = req[r].kind /\ req'[r].mail = req[r].mail
  /\ req'[r].name = req[r].name /\ req'[r].pwd = req[r].pwd /\ req'[r].code = req[r].code
  /\ req'[r].uid = req[r].uid /\ req'[r].ans = req[r].ans /\ req'[r].held = req[r].held

(* A request that goes on and changes nothing else.                        *)
LEMMA MoveKeeps ==
  ASSUME IInv, NEW r \in Request, Same, NEW l \in Working \cup {"reading", "told"},
         Goto(r, l), {l, req[r].pc} \cap Locking = {}, ReqInv(req[r])'
  PROVE  IInv'
<1>1. TypeOK
  BY DEF IInv
<1>2. req' = [req EXCEPT ![r] = req'[r]] /\ req'[r].pc = l /\ req'[r] \in ReqType
  BY <1>1, MoveFields
<1> QED BY <1>2, AloneKeeps DEF Alone, Same

(* Accepting, reading, dispatching and answering a request.                *)
LEMMA HttpKeeps ==
  ASSUME IInv, NEW r \in Request, Http(r)
  PROVE  IInv'
<1>0. TypeOK /\ ReqInv(req[r]) /\ faults \in Nat
  BY DEF IInv, TypeOK, TablesOK
<1>1. CASE Accept(r)
  <2>1. Goto(r, "reading") /\ req[r].pc = "idle" /\ Same
    BY <1>0, <1>1 DEF Accept, Same, Tables, caches
  <2>2. SameBut(r, "reading")
    BY <1>0, <2>1, MoveFields DEF SameBut
  <2>3. ReqInv(req[r])'
    <3>1. VarifyInv(req[r])'
      BY <1>0, <2>1, <2>2 DEF ReqInv, SameBut, VarifyInv, Same, Tables
    <3>2. CodeInv(req[r])'
      BY <1>0, <2>1, <2>2 DEF ReqInv, SameBut, CodeInv, RegPC, ResetPC, Posted, Same, Tables
    <3>3. RegisterInv(req[r])'
      BY <1>0, <2>1, <2>2 DEF ReqInv, SameBut, RegisterInv, RegisterTrue, Same, Tables
    <3>4. LoginInv(req[r])'
      BY <1>0, <2>1, <2>2 DEF ReqInv, SameBut, LoginInv, Admitted, InfoPC, Same, Tables
    <3>5. FindInv(req[r])'
      BY <1>0, <2>1, <2>2 DEF ReqInv, SameBut, FindInv, FoundRow, InfoPC, Same, Tables
    <3> QED BY <3>1, <3>2, <3>3, <3>4, <3>5 DEF ReqInv
  <2> QED BY <2>1, <2>3, MoveKeeps DEF Locking
<1>2. CASE ReadFailed(r) \/ WriteFailed(r) \/ Deadline(r)
  BY <1>2, EndKeeps DEF ReadFailed, WriteFailed, Deadline, Tables, caches, Locking
<1>3. CASE Dispatch(r)
  <2>1. PICK p \in Posts[r], c \in Entered \cup {None} :
          /\ p.kind # "find" /\ (c = None <=> p.kind \in {"code", "login"})
          /\ req' = [req EXCEPT ![r] =
               [Free EXCEPT !.pc = Handler(p.kind), !.kind = p.kind, !.mail = p.mail,
                            !.name = p.name, !.pwd = p.pwd, !.code = c,
                            !.held = p.kind = "login" /\ HasRow(user, p.mail, p.pwd)]]
    BY <1>3 DEF Dispatch
  <2>2. Same /\ req[r].pc = "reading"
    BY <1>0, <1>3 DEF Dispatch, Same, Tables, caches
  <2>3. p \in [kind : Kinds, mail : Mail, name : Name, pwd : Pwd]
    BY AccountsAssumption DEF Kinds
  <2>4. c \in (Mail \X Code) \cup {None}
    BY <1>0 DEF TypeOK, TablesOK, Entered
  <2>5. /\ req'[r].pc = Handler(p.kind) /\ req'[r].kind = p.kind /\ req'[r].mail = p.mail
        /\ req'[r].name = p.name /\ req'[r].pwd = p.pwd /\ req'[r].code = c
        /\ req'[r].ans = None /\ req'[r].uid = 0
        /\ req'[r].held = (p.kind = "login" /\ HasRow(user, p.mail, p.pwd))
    BY <1>0, <2>1 DEF TypeOK, Free
  <2>6. Handler(p.kind) \in {"asked", "checkcode", "checkpwd"}
    BY <2>1, <2>3 DEF Handler, Kinds
  <2>7. req'[r] \in ReqType
    <3>1. Free \in ReqType
      BY DEF Free, ReqType
    <3>2. req'[r] = [Free EXCEPT !.pc = Handler(p.kind), !.kind = p.kind, !.mail = p.mail,
                                 !.name = p.name, !.pwd = p.pwd, !.code = c,
                                 !.held = p.kind = "login" /\ HasRow(user, p.mail, p.pwd)]
      BY <1>0, <2>1 DEF TypeOK
    <3>3. Handler(p.kind) \in Working /\ p.kind \in Kinds
      BY <2>3, <2>6 DEF Working
    <3> HIDE DEF Free
    <3> QED BY <2>3, <2>4, <3>1, <3>2, <3>3 DEF ReqType
  <2>8. VarifyInv(req[r])' /\ RegisterInv(req[r])' /\ FindInv(req[r])'
    BY <2>1, <2>3, <2>5, <2>6, AccountsAssumption
       DEF VarifyInv, RegisterInv, RegisterTrue, FindInv, Handler, Kinds, InfoPC
  <2>9. CodeInv(req[r])'
    BY <2>1, <2>2, <2>3, <2>5, <2>6
       DEF CodeInv, Posted, Entered, Same, Handler, Kinds, RegPC, ResetPC
  <2>10. LoginInv(req[r])'
    BY <2>1, <2>2, <2>3, <2>5, <2>6, AccountsAssumption
       DEF LoginInv, Same, Tables, Handler, Kinds, InfoPC
  <2>11. Alone(r)
    BY <1>0, <2>1, <2>2 DEF Alone, Same, TypeOK
  <2>12. req[r].pc \notin Locking /\ req'[r].pc \notin Locking
    BY <2>2, <2>5, <2>6 DEF Locking
  <2> QED BY <2>7, <2>8, <2>9, <2>10, <2>11, <2>12, AloneKeeps DEF ReqInv
<1>4. CASE Reject(r)
  BY <1>0, <1>4, AnswerKeeps
     DEF Reject, Tables, caches, Answers, Locking, ReqInv, FindInv, InfoPC
<1>5. CASE Written(r)
  <2>1. CASE req[r].kind = "login" /\ req[r].ans = "ok"
    <3>1. Goto(r, "told") /\ req[r].pc = "writing" /\ Same
      BY <1>0, <1>5, <2>1 DEF Written, Same, Tables, caches
    <3>2. SameBut(r, "told")
      BY <1>0, <3>1, MoveFields DEF SameBut
    <3>3. ReqInv(req[r])'
      <4>1. VarifyInv(req[r])'
        BY <1>0, <2>1, <3>1, <3>2 DEF ReqInv, SameBut, VarifyInv, Same, Tables
      <4>2. CodeInv(req[r])'
        BY <1>0, <2>1, <3>1, <3>2
           DEF ReqInv, SameBut, CodeInv, RegPC, ResetPC, Posted, Same, Tables
      <4>3. RegisterInv(req[r])'
        BY <1>0, <2>1, <3>1, <3>2
           DEF ReqInv, SameBut, RegisterInv, RegisterTrue, Same, Tables
      <4>4. LoginInv(req[r])'
        BY <1>0, <2>1, <3>1, <3>2
           DEF ReqInv, SameBut, LoginInv, Admitted, InfoPC, Same, Tables
      <4>5. FindInv(req[r])'
        BY <1>0, <2>1, <3>1, <3>2
           DEF ReqInv, SameBut, FindInv, FoundRow, InfoPC, Same, Tables
      <4> QED BY <4>1, <4>2, <4>3, <4>4, <4>5 DEF ReqInv
    <3> QED BY <3>1, <3>3, MoveKeeps DEF Locking
  <2>2. CASE ~(req[r].kind = "login" /\ req[r].ans = "ok")
    BY <1>5, <2>2, EndKeeps DEF Written, Tables, caches, Locking
  <2> QED BY <2>1, <2>2
<1> QED BY <1>1, <1>2, <1>3, <1>4, <1>5 DEF Http

(* get_varifycode: a code is read or made, stored and mailed.              *)
LEMMA VarifyKeeps ==
  ASSUME IInv, NEW r \in Request, Varify(r)
  PROVE  IInv'
<1>0. TypeOK /\ ReqInv(req[r]) /\ faults \in Nat /\ RedisInv
  BY DEF IInv, TypeOK, TablesOK
<1>1. CASE GetCode(r)
  <2>0. Same /\ req[r].pc = "asked" /\ req[r].kind = "code" /\ req[r].mail \in Mail
    BY <1>0, <1>1 DEF GetCode, Same, Tables, caches, ReqInv, VarifyInv
  <2>1. /\ req'[r].pc = (IF code[req[r].mail] = None THEN "fresh" ELSE "tomail")
        /\ req'[r].code = code[req[r].mail] /\ req'[r].kind = "code" /\ req'[r].mail = req[r].mail
        /\ req'[r] \in ReqType
    <3>1. code[req[r].mail] \in (Mail \X Code) \cup {None}
      BY <1>0, <2>0 DEF TypeOK, TablesOK
    <3>2. req'[r] = [req[r] EXCEPT !.pc = IF code[req[r].mail] = None THEN "fresh" ELSE "tomail",
                                   !.code = code[req[r].mail]]
      BY <1>0, <1>1 DEF GetCode, TypeOK
    <3>3. req[r] \in ReqType /\ "fresh" \in Working /\ "tomail" \in Working
      BY <1>0 DEF TypeOK, Working
    <3>4. PICK l \in {"fresh", "tomail"} : l = IF code[req[r].mail] = None THEN "fresh" ELSE "tomail"
      OBVIOUS
    <3>5. req'[r] = [req[r] EXCEPT !.pc = l, !.code = code[req[r].mail]]
      BY <3>2, <3>4
    <3>6. req'[r] \in ReqType
      BY <3>1, <3>3, <3>4, <3>5 DEF ReqType
    <3>7. /\ req'[r].pc = l /\ req'[r].code = code[req[r].mail]
          /\ req'[r].kind = req[r].kind /\ req'[r].mail = req[r].mail
      BY <3>3, <3>5 DEF ReqType
    <3> QED BY <2>0, <3>4, <3>6, <3>7
  <2>2. req' = [req EXCEPT ![r] = req'[r]]
    BY <1>0, <1>1 DEF GetCode, TypeOK
  <2>3. /\ req'[r].pc \in {"fresh", "tomail"} /\ req'[r].kind = "code" /\ req'[r].mail \in Mail
        /\ req'[r].pc = "tomail" => req'[r].code \in {req'[r].mail} \X Code
    BY <1>0, <2>0, <2>1 DEF RedisInv
  <2>4. ReqInv(req[r])'
    <3>1. VarifyInv(req[r])'
      BY <2>3 DEF VarifyInv
    <3>2. CodeInv(req[r])'
      BY <2>3 DEF CodeInv, RegPC, ResetPC, Posted
    <3>3. RegisterInv(req[r])'
      BY <2>3 DEF RegisterInv, RegisterTrue
    <3>4. LoginInv(req[r])'
      BY <2>3 DEF LoginInv, Admitted, InfoPC
    <3>5. FindInv(req[r])'
      BY <2>3 DEF FindInv, FoundRow, InfoPC
    <3> QED BY <3>1, <3>2, <3>3, <3>4, <3>5 DEF ReqInv
  <2> QED BY <2>0, <2>1, <2>4, <2>2, AloneKeeps DEF Alone, Same, Locking
<1>2. CASE SetCode(r)
  <2>1. PICK c \in Code :
          /\ code' = [code EXCEPT ![req[r].mail] = <<req[r].mail, c>>]
          /\ req' = [req EXCEPT ![r].pc = "tomail", ![r].code = <<req[r].mail, c>>]
    BY <1>2 DEF SetCode
  <2>2. /\ req[r].pc = "fresh" /\ req[r].kind = "code" /\ req[r].mail \in Mail
        /\ UNCHANGED <<Tables, mailed, caches, faults>>
    BY <1>0, <1>2 DEF SetCode, Tables, caches, ReqInv, VarifyInv
  <2>3. /\ req'[r].pc = "tomail" /\ req'[r].code = <<req[r].mail, c>>
        /\ req'[r].kind = "code" /\ req'[r].mail = req[r].mail
        /\ req'[r] \in ReqType
    <3>1. req'[r] = [req[r] EXCEPT !.pc = "tomail", !.code = <<req[r].mail, c>>]
      BY <1>0, <2>1 DEF TypeOK
    <3>2. req[r] \in ReqType /\ "tomail" \in Working /\ <<req[r].mail, c>> \in Mail \X Code
      BY <1>0, <2>2 DEF TypeOK, Working
    <3>3. req'[r] \in ReqType
      BY <3>1, <3>2 DEF ReqType
    <3> QED BY <2>2, <3>1, <3>2, <3>3 DEF ReqType
  <2>4. req' = [req EXCEPT ![r] = req'[r]]
    BY <1>0, <2>1 DEF TypeOK
  <2>5. /\ req'[r].pc = "tomail" /\ req'[r].kind = "code" /\ req'[r].mail \in Mail
         /\ req'[r].code \in {req'[r].mail} \X Code
    BY <2>2, <2>3
  <2>6. ReqInv(req[r])'
    <3>1. VarifyInv(req[r])'
      BY <2>5 DEF VarifyInv
    <3>2. CodeInv(req[r])'
      BY <2>5 DEF CodeInv, RegPC, ResetPC, Posted
    <3>3. RegisterInv(req[r])'
      BY <2>5 DEF RegisterInv, RegisterTrue
    <3>4. LoginInv(req[r])'
      BY <2>5 DEF LoginInv, Admitted, InfoPC
    <3>5. FindInv(req[r])'
      BY <2>5 DEF FindInv, FoundRow, InfoPC
    <3> QED BY <3>1, <3>2, <3>3, <3>4, <3>5 DEF ReqInv
  <2>7. TablesOK' /\ Grown
    BY <1>0, <2>1, <2>2 DEF TypeOK, TablesOK, Grown, Tables, caches
  <2>8. \A s \in Request \ {r} : Waits(s)
    BY <1>0, <2>2, <2>4 DEF Waits, Tables, TypeOK
  <2>9. TypeOK' /\ \A s \in Request : ReqInv(req[s])'
    <3>1. req' = [s \in Request |-> req'[s]]
      BY <1>0, <2>4 DEF TypeOK
    <3> QED BY <2>3, <2>6, <2>7, <2>8, <3>1, StepKeeps
  <2>10. TableInv' /\ RedisInv'
    BY <1>0, <2>1, <2>2 DEF IInv, TableInv, RedisInv, Tables, caches, TypeOK, TablesOK
  <2>11. LockInv'
    BY <1>0, <2>2, <2>3, <2>4 DEF IInv, LockInv, Tables, TypeOK
  <2> QED BY <2>9, <2>10, <2>11 DEF IInv
<1>3. CASE SendMail(r)
  <2>1. /\ req[r].pc = "tomail" /\ req[r].kind = "code" /\ req[r].mail \in Mail
        /\ req[r].code \in {req[r].mail} \X Code
        /\ mailed' = [mailed EXCEPT ![req[r].mail] = @ \cup {req[r].code}]
        /\ UNCHANGED <<Tables, code, caches, faults>>
        /\ req'[r] = Answered(req[r], "ok") /\ req' = [req EXCEPT ![r] = req'[r]]
    BY <1>0, <1>3 DEF SendMail, Answer, Tables, caches, ReqInv, VarifyInv, TypeOK
  <2>2. req'[r] \in ReqType /\ ReqInv(req[r])' /\ req'[r].pc = "writing"
    BY <1>0, <2>1, AnsweredKeeps DEF Answers
  <2>3. TablesOK' /\ Grown
    <3>1. mailed' \in [Mail -> SUBSET (Mail \X Code)]
      BY <1>0, <2>1 DEF TypeOK, TablesOK
    <3> QED BY <1>0, <2>1, <3>1 DEF TypeOK, TablesOK, Grown, Tables, caches
  <2>4. \A s \in Request \ {r} : Waits(s)
    BY <1>0, <2>1 DEF Waits, Tables, TypeOK
  <2>5. TypeOK' /\ \A s \in Request : ReqInv(req[s])'
    <3>1. req' = [s \in Request |-> req'[s]]
      BY <1>0, <2>1 DEF TypeOK
    <3> QED BY <2>2, <2>3, <2>4, <3>1, StepKeeps
  <2>6. TableInv' /\ RedisInv'
    BY <1>0, <2>1 DEF IInv, TableInv, RedisInv, Tables, caches, TypeOK, TablesOK
  <2>7. LockInv'
    BY <1>0, <2>1, <2>2 DEF IInv, LockInv, Tables, TypeOK
  <2> QED BY <2>5, <2>6, <2>7 DEF IInv
<1>4. CASE VarifyFails(r)
  <2>1. /\ req[r].kind = "code" /\ req[r].pc \notin Locking
        /\ Answer(r, "RPCFailed") /\ UNCHANGED <<Tables, code, mailed, caches>>
        /\ faults' \in Nat /\ (faults' = 0 => faults = 0)
    BY <1>0, <1>4 DEF VarifyFails, Fault, Tables, caches, ReqInv, VarifyInv, Locking
  <2> QED BY <2>1, AnswerKeeps DEF Answers
<1> QED BY <1>1, <1>2, <1>3, <1>4 DEF Varify

(* A request that may take or leave the row lock, and changes no table.    *)
LEMMA LockKeeps ==
  ASSUME IInv, NEW r \in Request, UNCHANGED <<user, user_id, token, code, mailed, caches>>,
         faults' \in Nat, faults' = 0 => faults = 0, locker' \in Request \cup {None},
         req' = [req EXCEPT ![r] = req'[r]], req'[r] \in ReqType, ReqInv(req[r])',
         LockInv'
  PROVE  IInv'
<1>0. TypeOK
  BY DEF IInv
<1>1. Grown /\ TablesOK'
  BY <1>0 DEF Grown, TypeOK, TablesOK, caches
<1>2. \A s \in Request \ {r} : Waits(s)
  BY <1>0 DEF Waits, TypeOK
<1>3. req' = [s \in Request |-> req'[s]]
  BY <1>0 DEF TypeOK
<1>4. TypeOK' /\ \A s \in Request : ReqInv(req[s])'
  BY <1>1, <1>2, <1>3, StepKeeps
<1>5. TableInv' /\ RedisInv'
  BY DEF IInv, TableInv, RedisInv, caches
<1> QED BY <1>4, <1>5 DEF IInv

(* A code that Redis holds for the address has been mailed to it.          *)
LEMMA CheckCodeKeeps ==
  ASSUME IInv, NEW r \in Request, CheckCode(r)
  PROVE  IInv'
<1>0. TypeOK /\ ReqInv(req[r]) /\ faults \in Nat /\ RedisInv
  BY DEF IInv, TypeOK, TablesOK
<1>1. /\ Same /\ req[r].pc = "checkcode" /\ req[r].kind \in {"register", "reset"}
      /\ Posted(req[r]) /\ req[r].code # None /\ req[r].code \in Entered
      /\ req[r].kind = "register" => req[r].ans = None
  BY <1>0 DEF CheckCode, Same, Tables, caches, ReqInv, CodeInv, RegisterInv
<1>2. CASE CodeIs(req[r].mail, req[r].code)
  <2> DEFINE l == IF req[r].kind = "register" THEN "regcheck" ELSE "checkmail"
  <2>1. Goto(r, l)
    BY <1>2 DEF CheckCode
  <2>2. SameBut(r, l)
    BY <1>0, <2>1, MoveFields DEF SameBut
  <2>3. req[r].code \in mailed[req[r].mail]
    <3>1. PICK m \in Mail : req[r].code \in mailed[m]
      BY <1>1 DEF Entered
    <3>2. req[r].code \in {m} \X Code /\ req[r].code \in {req[r].mail} \X Code
      BY <1>0, <1>1, <1>2, <3>1 DEF RedisInv, CodeIs, Posted
    <3> QED BY <3>1, <3>2
  <2>4. /\ req'[r].pc \in {"regcheck", "checkmail"}
        /\ req'[r].pc = "regcheck" <=> req'[r].kind = "register"
        /\ req'[r].kind \in {"register", "reset"} /\ Posted(req[r])' /\ mailed' = mailed
        /\ req'[r].code \in mailed[req'[r].mail]
        /\ req'[r].kind = "register" => req'[r].ans = None
    BY <1>1, <2>2, <2>3 DEF SameBut, Posted, Same
  <2>5. ReqInv(req[r])'
    <3>1. VarifyInv(req[r])'
      BY <2>4, AccountsAssumption DEF VarifyInv
    <3>2. CodeInv(req[r])'
      BY <2>4, AccountsAssumption DEF CodeInv, RegPC, ResetPC
    <3>3. RegisterInv(req[r])'
      BY <2>4, AccountsAssumption DEF RegisterInv, RegisterTrue
    <3>4. LoginInv(req[r])'
      BY <2>4, AccountsAssumption DEF LoginInv, Admitted, InfoPC
    <3>5. FindInv(req[r])'
      BY <2>4, AccountsAssumption DEF FindInv, FoundRow, InfoPC
    <3> QED BY <3>1, <3>2, <3>3, <3>4, <3>5 DEF ReqInv
  <2> QED BY <1>1, <2>1, <2>5, MoveKeeps DEF Locking, Working
<1>3. CASE ~CodeIs(req[r].mail, req[r].code)
  <2>1. PICK a \in {"VarifyExpired", "VarifyCodeErr"} : Answer(r, a)
    BY <1>3 DEF CheckCode
  <2> QED BY <1>1, <2>1, AnswerKeeps DEF Same, Answers, Locking
<1> QED BY <1>2, <1>3

-----------------------------------------------------------------------------
(* RegUser.                                                                *)
Registering(r) ==
  /\ req[r].kind = "register" /\ Posted(req[r]) /\ req[r].ans = None
  /\ req[r].code \in mailed[req[r].mail]

(* What a registration under way has given.                                *)
LEMMA RegisteringIs ==
  ASSUME IInv, NEW r \in Request, req[r].pc \in RegPC
  PROVE  Registering(r)
BY DEF Registering, IInv, ReqInv, CodeInv, RegisterInv, RegPC

(* A registration that goes on.                                            *)
LEMMA RegisteringKeeps ==
  ASSUME NEW r \in Request, Registering(r)', req'[r].pc \in RegPC
  PROVE  ReqInv(req[r])'
<1>1. VarifyInv(req[r])'
  BY AccountsAssumption DEF VarifyInv, Registering, RegPC
<1>2. CodeInv(req[r])'
  BY AccountsAssumption DEF CodeInv, RegPC, ResetPC, Posted, Registering
<1>3. RegisterInv(req[r])'
  BY AccountsAssumption DEF RegisterInv, RegisterTrue, Registering, RegPC
<1>4. LoginInv(req[r])'
  BY AccountsAssumption DEF LoginInv, Admitted, InfoPC, Registering, RegPC
<1>5. FindInv(req[r])'
  BY AccountsAssumption DEF FindInv, FoundRow, InfoPC, Registering, RegPC
<1> QED BY <1>1, <1>2, <1>3, <1>4, <1>5 DEF ReqInv

(* The SELECTs that look for the name and the address.                     *)
LEMMA CheckExistsKeeps ==
  ASSUME IInv, NEW r \in Request, CheckExists(r)
  PROVE  IInv'
<1>0. TypeOK /\ faults \in Nat
  BY DEF IInv, TypeOK, TablesOK
<1>1. Same /\ Registering(r) /\ req[r].pc = "regcheck"
  BY <1>0, RegisteringIs DEF CheckExists, Same, Tables, caches, RegPC
<1>2. CASE \E i \in DOMAIN user : user[i].mail = req[r].mail \/ user[i].name = req[r].name
  <2>1. Answer(r, "UserExist")
    BY <1>2 DEF CheckExists
  <2> QED BY <1>1, <1>2, <2>1, AnswerKeeps DEF Same, Answers, Locking, Registering
<1>3. CASE ~ \E i \in DOMAIN user : user[i].mail = req[r].mail \/ user[i].name = req[r].name
  <2>1. Goto(r, "number")
    BY <1>3 DEF CheckExists
  <2>2. SameBut(r, "number")
    BY <1>0, <2>1, MoveFields DEF SameBut
  <2>3. Registering(r)' /\ req'[r].pc \in RegPC
    BY <1>1, <2>2 DEF Registering, SameBut, Same, Posted, RegPC
  <2> QED BY <1>1, <2>1, <2>3, RegisteringKeeps, MoveKeeps DEF Locking, Working
<1> QED BY <1>2, <1>3

(* The number read under the row lock is the next one.                     *)
LEMMA UpdateIdKeeps ==
  ASSUME IInv, NEW r \in Request, UpdateId(r)
  PROVE  IInv'
<1>0. TypeOK /\ faults \in Nat /\ user_id \in Nat
  BY DEF IInv, TypeOK, TablesOK
<1>1. /\ UNCHANGED <<user, user_id, token, code, mailed, caches, faults>>
      /\ locker = None /\ locker' = r /\ Registering(r) /\ req[r].pc = "number"
  BY RegisteringIs DEF UpdateId, Number, caches, RegPC
<1>2. req' = [req EXCEPT ![r] = [req[r] EXCEPT !.pc = "insert", !.uid = user_id + 1]]
  BY <1>0 DEF UpdateId, Number, TypeOK
<1>3. /\ req'[r] = [req[r] EXCEPT !.pc = "insert", !.uid = user_id + 1]
      /\ \A s \in Request \ {r} : req'[s] = req[s]
      /\ req' = [req EXCEPT ![r] = req'[r]]
  BY <1>0, <1>2 DEF TypeOK
<1>4. /\ req'[r] \in ReqType /\ req'[r].pc = "insert" /\ req'[r].uid = user_id + 1
      /\ req'[r].kind = req[r].kind /\ req'[r].mail = req[r].mail /\ req'[r].name = req[r].name
      /\ req'[r].pwd = req[r].pwd /\ req'[r].code = req[r].code /\ req'[r].ans = req[r].ans
  <2>1. req[r] \in ReqType /\ "insert" \in Working /\ user_id + 1 \in Nat
    BY <1>0 DEF TypeOK, Working
  <2> QED BY <1>3, <2>1 DEF ReqType
<1>5. ReqInv(req[r])'
  <2>1. Registering(r)' /\ req'[r].pc \in RegPC
    BY <1>1, <1>4 DEF Registering, Posted, RegPC
  <2> QED BY <2>1, RegisteringKeeps
<1>6. LockInv'
  <2>1. LockInv /\ r # None
    BY AccountsAssumption DEF IInv
  <2>2. \A s \in Request : req[s].pc \notin {"insert", "commit"}
    BY <1>1, <2>1, AccountsAssumption DEF LockInv
  <2> QED BY <1>1, <1>3, <1>4, <2>2 DEF LockInv
<1> QED BY <1>0, <1>1, <1>3, <1>4, <1>5, <1>6, LockKeeps

(* INSERT passes only if no row has the address, and the lock keeps it so  *)
(* until COMMIT.                                                           *)
LEMMA InsertKeeps ==
  ASSUME IInv, NEW r \in Request, Insert(r)
  PROVE  IInv'
<1>0. TypeOK /\ faults \in Nat /\ LockInv /\ TableInv /\ user_id \in Nat
  BY DEF IInv, TypeOK, TablesOK
<1>1. /\ UNCHANGED <<user, user_id, token, code, mailed, caches, faults>>
      /\ Registering(r) /\ req[r].pc = "insert" /\ locker = r /\ req[r].uid = user_id + 1
  BY <1>0, RegisteringIs DEF Insert, caches, RegPC, LockInv
<1>2. CASE \E i \in DOMAIN user : user[i].mail = req[r].mail \/ user[i].uid = req[r].uid
  <2>1. PICK i \in DOMAIN user : user[i].mail = req[r].mail
    <3>1. DOMAIN user = 1 .. Len(user)
      BY <1>0 DEF TypeOK, TablesOK
    <3> QED BY <1>0, <1>1, <1>2, <3>1 DEF TableInv
  <2>2. locker' = None /\ Answer(r, "UserExist")
    BY <1>2 DEF Insert, Rollback
  <2>3. /\ req'[r] = Answered(req[r], "UserExist") /\ req' = [req EXCEPT ![r] = req'[r]]
        /\ \A s \in Request \ {r} : req'[s] = req[s]
    BY <1>0, <2>2 DEF Answer, TypeOK
  <2>4. req'[r] \in ReqType /\ ReqInv(req[r])' /\ req'[r].pc = "writing"
    BY <1>0, <1>1, <2>1, <2>3, AnsweredKeeps DEF Registering, Answers
  <2>5. LockInv'
    BY <1>0, <1>1, <2>2, <2>3, <2>4, AccountsAssumption DEF LockInv
  <2> QED BY <1>0, <1>1, <2>2, <2>3, <2>4, <2>5, LockKeeps
<1>3. CASE ~ \E i \in DOMAIN user : user[i].mail = req[r].mail \/ user[i].uid = req[r].uid
  <2>1. Goto(r, "commit") /\ locker' = locker
    BY <1>3 DEF Insert
  <2>2. SameBut(r, "commit") /\ req'[r] \in ReqType /\ req' = [req EXCEPT ![r] = req'[r]]
    BY <1>0, <2>1, MoveFields DEF SameBut, Working
  <2>3. \A s \in Request \ {r} : req'[s] = req[s]
    BY <1>0, <2>1 DEF Goto, TypeOK
  <2>4. Registering(r)' /\ req'[r].pc \in RegPC
    BY <1>1, <2>2 DEF Registering, SameBut, Posted, RegPC
  <2>5. LockInv'
    BY <1>0, <1>1, <1>3, <2>1, <2>2, <2>3 DEF LockInv, SameBut
  <2>6. locker' \in Request \cup {None}
    BY <1>1, <2>1
  <2> QED BY <1>0, <1>1, <2>2, <2>4, <2>5, <2>6, RegisteringKeeps, LockKeeps
<1> QED BY <1>2, <1>3

(* A failed registration leaves the tables as they were and gives up the   *)
(* lock.                                                                   *)
LEMMA RegUserFailsKeeps ==
  ASSUME IInv, NEW r \in Request, RegUserFails(r)
  PROVE  IInv'
<1>0. TypeOK /\ faults \in Nat /\ LockInv
  BY DEF IInv, TypeOK, TablesOK
<1>1. /\ UNCHANGED <<user, user_id, token, code, mailed, caches>>
      /\ faults' = faults + 1 /\ locker' = (IF locker = r THEN None ELSE locker)
      /\ Answer(r, "UserExist") /\ Registering(r)
  BY RegisteringIs DEF RegUserFails, Fault, caches, RegPC
<1>2. /\ req'[r] = Answered(req[r], "UserExist") /\ req' = [req EXCEPT ![r] = req'[r]]
      /\ \A s \in Request \ {r} : req'[s] = req[s]
  BY <1>0, <1>1 DEF Answer, TypeOK
<1>3. req'[r] \in ReqType /\ ReqInv(req[r])' /\ req'[r].pc = "writing"
  <2>1. faults' # 0 /\ req[r].kind = "register" /\ "UserExist" \in Answers
    BY <1>0, <1>1 DEF Registering, Answers
  <2> QED BY <1>0, <1>2, <2>1, AnsweredKeeps
<1>4. LockInv'
  BY <1>0, <1>1, <1>2, <1>3, AccountsAssumption DEF LockInv
<1>5. locker' \in Request \cup {None}
  BY <1>0, <1>1 DEF TypeOK, TablesOK
<1> QED BY <1>0, <1>1, <1>2, <1>3, <1>4, <1>5, LockKeeps

(* The request that changes the rows, and the others, which see it.        *)
LEMMA NotingGives ==
  ASSUME TypeOK, NEW r \in Request, NEW a \in Answers, req[r].kind \in {"register", "reset"},
         req' = Noting(user', [req EXCEPT ![r] = Answered(req[r], a)])
  PROVE  /\ req' = [s \in Request |-> req'[s]]
         /\ req'[r] = Answered(req[r], a)
         /\ \A s \in Request \ {r} : Waits(s)
<1>1. req' = [s \in Request |-> req'[s]]
  BY DEF Noting
<1>2. ASSUME NEW s \in Request \ {r}
      PROVE  Waits(s)
  BY <1>2 DEF Noting, Waits, Noted, TypeOK
<1>3. req'[r] = Answered(req[r], a)
  <2> DEFINE q == Answered(req[r], a)
  <2>1. req'[r] = [q EXCEPT !.held = q.held \/ (q.kind = "login" /\ HasRow(user', q.mail, q.pwd))]
    BY DEF Noting, TypeOK
  <2>2. q \in ReqType /\ q.kind = req[r].kind
    <3>1. req[r] \in ReqType /\ Free \in ReqType
      BY DEF TypeOK, Free, ReqType
    <3>2. CASE req[r].kind = "register"
      <4>1. q = [req[r] EXCEPT !.pc = "writing", !.ans = a, !.pwd = None, !.code = None]
        BY <3>2 DEF Answered
      <4>2. q \in ReqType
        <5>1. \A b \in Answers : [req[r] EXCEPT !.pc = "writing", !.ans = b, !.pwd = None, !.code = None] \in ReqType
          BY <3>1, FieldTypes
        <5>2. [req[r] EXCEPT !.pc = "writing", !.ans = a, !.pwd = None, !.code = None] \in ReqType
          BY <5>1
        <5> QED BY <4>1, <5>2
      <4>3. q.kind = req[r].kind
        BY <3>1, <4>1 DEF ReqType
      <4> QED BY <4>2, <4>3
    <3>3. CASE req[r].kind = "reset"
      <4>1. q = [Free EXCEPT !.pc = "writing", !.kind = req[r].kind, !.ans = a]
        BY <3>3 DEF Answered
      <4>2. q \in ReqType
        <5>1. \A b \in Answers : [Free EXCEPT !.pc = "writing", !.kind = req[r].kind, !.ans = b] \in ReqType
          BY <3>1, FieldTypes
        <5>2. [Free EXCEPT !.pc = "writing", !.kind = req[r].kind, !.ans = a] \in ReqType
          BY <5>1
        <5> QED BY <4>1, <5>2
      <4>3. q.kind = req[r].kind
        BY <4>1 DEF Free
      <4> QED BY <4>2, <4>3
    <3> QED BY <3>2, <3>3
  <2> HIDE DEF q
  <2>3. req'[r] = [q EXCEPT !.held = q.held]
    BY <2>1, <2>2 DEF ReqType
  <2>4. req'[r] = q
    BY <2>2, <2>3 DEF ReqType
  <2> QED BY <2>4 DEF q
<1> QED BY <1>1, <1>2, <1>3

(* COMMIT adds the row; the requests beside it see it.                     *)
LEMMA StoreKeeps ==
  ASSUME IInv, NEW r \in Request, req[r].pc = "commit", Store(r), NEW a \in {"ok", "UserExist"},
         req' = Noting(user', [req EXCEPT ![r] = Answered(req[r], a)]),
         a = "UserExist" => faults' # 0, UNCHANGED <<code, mailed, caches>>,
         faults' \in Nat, faults' = 0 => faults = 0
  PROVE  IInv'
<1> DEFINE n == Len(user)
<1>0. TypeOK /\ TablesOK /\ TableInv /\ RedisInv /\ LockInv
  BY DEF IInv, TypeOK
<1>1. /\ Registering(r) /\ locker = r /\ req[r].uid = n + 1 /\ req[r] \in ReqType
      /\ \A i \in DOMAIN user : user[i].mail # req[r].mail
  BY <1>0, RegisteringIs DEF RegPC, LockInv, TableInv, TypeOK
<1>2. /\ n \in Nat /\ DOMAIN user = 1 .. n /\ user' = Append(user, Row(r))
      /\ user_id' = n + 1 /\ token' = Append(token, None) /\ locker' = None
  BY <1>0, <1>1 DEF Store, TablesOK
<1>3. /\ DOMAIN user' = 1 .. n + 1 /\ Len(user') = n + 1
      /\ \A i \in 1 .. n : user'[i] = user[i]
      /\ user'[n + 1].uid = n + 1 /\ user'[n + 1].name = req[r].name
      /\ user'[n + 1].mail = req[r].mail
  BY <1>0, <1>1, <1>2 DEF TablesOK, Row
<1>4. TablesOK'
  <2>1. Row(r) \in [uid : Nat, name : Name, mail : Mail, pwd : Pwd]
    BY <1>1, <1>2 DEF Row, Registering, Posted
  <2>2. user' \in Seq([uid : Nat, name : Name, mail : Mail, pwd : Pwd])
    BY <1>0, <1>2, <2>1 DEF TablesOK
  <2>3. token' \in Seq(Request \cup {None})
    BY <1>0, <1>2 DEF TablesOK
  <2> QED BY <1>0, <1>2, <2>2, <2>3 DEF TablesOK, caches
<1>5. Grown
  BY <1>0, <1>2, <1>3 DEF Grown, TablesOK
<1>6. /\ req' = [s \in Request |-> req'[s]] /\ req'[r] = Answered(req[r], a)
      /\ \A s \in Request \ {r} : Waits(s)
  BY <1>0, <1>1, NotingGives DEF Registering, Answers
<1>7. req'[r] \in ReqType /\ ReqInv(req[r])' /\ req'[r].pc = "writing"
  <2>1. \E i \in DOMAIN user' :
          user'[i].uid = req[r].uid /\ user'[i].name = req[r].name /\ user'[i].mail = req[r].mail
    BY <1>1, <1>2, <1>3
  <2>2. a \in Answers /\ req[r].kind = "register"
    BY <1>1 DEF Answers, Registering
  <2> QED BY <1>0, <1>6, <2>1, <2>2, AnsweredKeeps
<1>8. TypeOK' /\ \A s \in Request : ReqInv(req[s])'
  BY <1>4, <1>5, <1>6, <1>7, StepKeeps
<1>9. TableInv'
  <2>1. Len(token') = n + 1
    BY <1>0, <1>2 DEF TablesOK, TableInv
  <2>2. \A i \in DOMAIN user' : user'[i].uid = i
    BY <1>0, <1>2, <1>3 DEF TableInv
  <2>3. \A i, j \in DOMAIN user' : user'[i].mail = user'[j].mail => i = j
    BY <1>0, <1>1, <1>2, <1>3 DEF TableInv
  <2> QED BY <1>2, <1>3, <2>1, <2>2, <2>3 DEF TableInv
<1>10. RedisInv'
  <2>1. nameinfo' = nameinfo /\ code' = code /\ mailed' = mailed /\ cached' = cached
    BY DEF caches
  <2>2. \A i \in DOMAIN user : i \in DOMAIN user' /\ user'[i] = user[i]
    BY <1>2, <1>3
  <2> QED BY <1>0, <2>1, <2>2 DEF RedisInv
<1>11. LockInv'
  <2>1. \A s \in Request : req'[s].pc \notin {"insert", "commit"}
    BY <1>0, <1>1, <1>6, <1>7, WaitingFields DEF LockInv, TypeOK
  <2> QED BY <1>2, <2>1, AccountsAssumption DEF LockInv
<1> QED BY <1>8, <1>9, <1>10, <1>11 DEF IInv

(* COMMIT, whether or not its reply arrives.                               *)
LEMMA CommitKeeps ==
  ASSUME IInv, NEW r \in Request, Commit(r) \/ CommitReplyLost(r)
  PROVE  IInv'
<1>1. faults \in Nat /\ req \in [Request -> ReqType]
  BY DEF IInv, TypeOK, TablesOK
<1>2. CASE Commit(r)
  <2>1. req' = Noting(user', [req EXCEPT ![r] = Answered(req[r], "ok")])
    BY <1>1, <1>2 DEF Commit
  <2> QED BY <1>1, <1>2, <2>1, StoreKeeps DEF Commit, caches
<1>3. CASE CommitReplyLost(r)
  <2>1. req' = Noting(user', [req EXCEPT ![r] = Answered(req[r], "UserExist")])
    BY <1>1, <1>3 DEF CommitReplyLost
  <2>2. faults' = faults + 1 /\ faults' \in Nat /\ faults' # 0
    BY <1>1, <1>3 DEF CommitReplyLost, Fault
  <2> QED BY <1>1, <1>3, <2>1, <2>2, StoreKeeps DEF CommitReplyLost, caches
<1> QED BY <1>2, <1>3

(* RegUser.                                                                *)
LEMMA RegUserKeeps ==
  ASSUME IInv, NEW r \in Request, RegUser(r)
  PROVE  IInv'
BY CheckExistsKeeps, UpdateIdKeeps, InsertKeeps, CommitKeeps, RegUserFailsKeeps DEF RegUser

-----------------------------------------------------------------------------
(* reset_pwd.                                                              *)
LEMMA SetPwdKeeps ==
  ASSUME IInv, NEW r \in Request, req[r].pc = "update", SetPwd(r), NEW a \in {"ok", "failed"},
         req' = Noting(user', [req EXCEPT ![r] = Answered(req[r], a)]),
         UNCHANGED <<user_id, locker, token, code, mailed, caches>>,
         faults' \in Nat, faults' = 0 => faults = 0
  PROVE  IInv'
<1>0. TypeOK /\ TablesOK /\ TableInv /\ RedisInv /\ LockInv
  BY DEF IInv, TypeOK
<1>1. req[r].kind = "reset" /\ Posted(req[r]) /\ req[r] \in ReqType
  BY DEF IInv, ReqInv, CodeInv, ResetPC, TypeOK
<1>2. /\ Len(user) \in Nat /\ DOMAIN user = 1 .. Len(user)
      /\ \A i \in DOMAIN user : user[i] \in [uid : Nat, name : Name, mail : Mail, pwd : Pwd]
  <2> DEFINE T == [uid : Nat, name : Name, mail : Mail, pwd : Pwd]
  <2>1. user \in Seq(T)
    BY <1>0 DEF TablesOK
  <2> HIDE DEF T
  <2>2. Len(user) \in Nat /\ DOMAIN user = 1 .. Len(user) /\ \A i \in DOMAIN user : user[i] \in T
    BY <2>1
  <2> QED BY <2>2 DEF T
<1>3. /\ DOMAIN user' = DOMAIN user /\ Len(user') = Len(user)
      /\ user' \in Seq([uid : Nat, name : Name, mail : Mail, pwd : Pwd])
      /\ \A i \in DOMAIN user : /\ user'[i].uid = user[i].uid /\ user'[i].name = user[i].name
                                /\ user'[i].mail = user[i].mail
  <2>1. \A i \in 1 .. Len(user) :
          user'[i] = IF user[i].name = req[r].name THEN [user[i] EXCEPT !.pwd = req[r].pwd] ELSE user[i]
    BY <1>2 DEF SetPwd
  <2>2. \A i \in 1 .. Len(user) :
          /\ user'[i] \in [uid : Nat, name : Name, mail : Mail, pwd : Pwd]
          /\ user'[i].uid = user[i].uid /\ user'[i].name = user[i].name
          /\ user'[i].mail = user[i].mail
    BY <1>1, <1>2, <2>1 DEF Posted
  <2>3. user' = [i \in 1 .. Len(user) |-> user'[i]]
    BY <1>2 DEF SetPwd
  <2>4. user' \in Seq([uid : Nat, name : Name, mail : Mail, pwd : Pwd])
    <3> DEFINE T == [uid : Nat, name : Name, mail : Mail, pwd : Pwd]
    <3>1. user' \in [1 .. Len(user) -> T]
      BY <2>2, <2>3
    <3>2. Len(user) \in Nat
      BY <1>2
    <3> HIDE DEF T
    <3>3. user' \in Seq(T)
      BY <3>1, <3>2, SeqDef
    <3> QED BY <3>3 DEF T
  <2> QED BY <1>2, <2>2, <2>3, <2>4
<1>4. TablesOK'
  BY <1>0, <1>3 DEF TablesOK, caches
<1>5. Grown
  BY <1>0, <1>3 DEF Grown, TablesOK
<1>6. /\ req' = [s \in Request |-> req'[s]] /\ req'[r] = Answered(req[r], a)
      /\ \A s \in Request \ {r} : Waits(s)
  BY <1>0, <1>1, NotingGives DEF Answers
<1>7. req'[r] \in ReqType /\ ReqInv(req[r])' /\ req'[r].pc = "writing"
  <2>1. a \in Answers
    BY DEF Answers
  <2> QED BY <1>0, <1>1, <1>6, <2>1, AnsweredKeeps
<1>8. TypeOK' /\ \A s \in Request : ReqInv(req[s])'
  BY <1>4, <1>5, <1>6, <1>7, StepKeeps
<1>9. TableInv'
  BY <1>0, <1>3 DEF TableInv
<1>10. RedisInv'
  <2>1. nameinfo' = nameinfo /\ code' = code /\ mailed' = mailed /\ cached' = cached
    BY DEF caches
  <2> QED BY <1>0, <1>3, <2>1 DEF RedisInv
<1>11. LockInv'
  <2>1. ASSUME NEW s \in Request \ {r}
        PROVE  req'[s].pc = req[s].pc /\ req'[s].uid = req[s].uid /\ req'[s].mail = req[s].mail
    BY <1>0, <1>6, WaitingFields DEF TypeOK
  <2>2. /\ locker' = locker /\ user_id' = user_id /\ locker # r
        /\ req'[r].pc \notin {"insert", "commit"}
    BY <1>0, <1>7 DEF LockInv
  <2>3. ASSUME NEW s \in Request, req'[s].pc = "commit"
        PROVE  \A i \in DOMAIN user' : user'[i].mail # req'[s].mail
    <3>1. s # r
      BY <2>2, <2>3
    <3>2. req[s].pc = "commit" /\ req'[s].mail = req[s].mail
      BY <2>1, <2>3, <3>1
    <3>3. \A i \in DOMAIN user : user[i].mail # req[s].mail
      BY <1>0, <3>2 DEF LockInv
    <3> QED BY <1>3, <3>2, <3>3
  <2>4. ASSUME NEW s \in Request
        PROVE  /\ locker' = s <=> req'[s].pc \in {"insert", "commit"}
               /\ locker' = s => req'[s].uid = user_id' + 1
    BY <1>0, <2>1, <2>2 DEF LockInv
  <2> QED BY <2>3, <2>4 DEF LockInv
<1> QED BY <1>8, <1>9, <1>10, <1>11 DEF IInv

(* CheckEmail and UpdatePwd.                                               *)
LEMMA ResetKeeps ==
  ASSUME IInv, NEW r \in Request, Reset(r)
  PROVE  IInv'
<1>0. TypeOK /\ ReqInv(req[r]) /\ faults \in Nat /\ req \in [Request -> ReqType]
  BY DEF IInv, TypeOK, TablesOK
<1>1. CASE CheckEmail(r)
  <2>1. /\ Same /\ req[r].pc = "checkmail" /\ req[r].kind = "reset" /\ Posted(req[r])
        /\ req[r].code \in mailed[req[r].mail]
    BY <1>0, <1>1 DEF CheckEmail, Same, Tables, caches, ReqInv, CodeInv, ResetPC
  <2>2. CASE FirstHasEmail(req[r].name, req[r].mail)
    <3>1. Goto(r, "update")
      BY <1>1, <2>2 DEF CheckEmail
    <3>2. SameBut(r, "update")
      BY <1>0, <3>1, MoveFields DEF SameBut
    <3>3. /\ req'[r].pc = "update" /\ req'[r].kind = "reset" /\ Posted(req[r])'
          /\ req'[r].code \in mailed'[req'[r].mail]
          /\ \E i \in DOMAIN user' : user'[i].name = req'[r].name /\ user'[i].mail = req'[r].mail
      BY <2>1, <2>2, <3>2 DEF SameBut, Posted, Same, Tables, FirstHasEmail
    <3>4. ReqInv(req[r])'
      <4>1. VarifyInv(req[r])'
        BY <3>3 DEF VarifyInv
      <4>2. CodeInv(req[r])'
        BY <3>3 DEF CodeInv, RegPC, ResetPC
      <4>3. RegisterInv(req[r])'
        BY <3>3 DEF RegisterInv, RegisterTrue
      <4>4. LoginInv(req[r])'
        BY <3>3 DEF LoginInv, Admitted, InfoPC
      <4>5. FindInv(req[r])'
        BY <3>3 DEF FindInv, FoundRow, InfoPC
      <4> QED BY <4>1, <4>2, <4>3, <4>4, <4>5 DEF ReqInv
    <3> QED BY <2>1, <3>1, <3>4, MoveKeeps DEF Locking, Working
  <2>3. CASE ~FirstHasEmail(req[r].name, req[r].mail)
    <3>1. Answer(r, "EmailNotMatch")
      BY <1>1, <2>3 DEF CheckEmail
    <3> QED BY <2>1, <3>1, AnswerKeeps DEF Same, Answers, Locking
  <2> QED BY <2>2, <2>3
<1>2. CASE UpdatePwd(r)
  <2>1. req' = Noting(user', [req EXCEPT ![r] = Answered(req[r], "ok")])
    BY <1>0, <1>2 DEF UpdatePwd
  <2> QED BY <1>0, <1>2, <2>1, SetPwdKeeps DEF UpdatePwd, caches
<1>3. CASE ResetFails(r)
  <2>1. /\ req[r].pc \in {"checkmail", "update"} /\ req[r].kind = "reset"
        /\ UNCHANGED <<user_id, locker, code, mailed, token, caches>>
        /\ faults' \in Nat /\ (faults' = 0 => faults = 0)
    BY <1>0, <1>3 DEF ResetFails, Fault, ReqInv, CodeInv, ResetPC
  <2>2. CASE UNCHANGED user /\ Answer(r, "failed")
    BY <2>1, <2>2, AnswerKeeps DEF Tables, Answers, Locking
  <2>3. CASE /\ req[r].pc = "update" /\ SetPwd(r)
             /\ req' = Noting(user', [req EXCEPT ![r] = Answered(req[r], "failed")])
    BY <2>1, <2>3, SetPwdKeeps DEF caches
  <2> QED BY <1>0, <1>3, <2>2, <2>3 DEF ResetFails
<1> QED BY <1>1, <1>2, <1>3 DEF Reset

-----------------------------------------------------------------------------
(* user_login and the chat server's part of a login.                       *)
LEMMA CheckPwdKeeps ==
  ASSUME IInv, NEW r \in Request, CheckPwd(r)
  PROVE  IInv'
<1>0. TypeOK /\ ReqInv(req[r]) /\ faults \in Nat /\ TableInv /\ req[r] \in ReqType
  BY DEF IInv, TypeOK, TablesOK
<1>1. Same /\ req[r].pc = "checkpwd" /\ req[r].kind = "login" /\ req[r].ans = None
  BY <1>0 DEF CheckPwd, Same, Tables, caches, ReqInv, LoginInv
<1>2. CASE Answer(r, "PasswdInvalid")
  BY <1>1, <1>2, AnswerKeeps DEF Same, Answers, Locking
<1>3. ASSUME NEW i \in DOMAIN user, MyRow(r, i),
             req' = [req EXCEPT ![r].pc = "status", ![r].uid = user[i].uid]
      PROVE  IInv'
  <2>1. user[i].uid = i /\ i \in Nat /\ req[r].held /\ user[i].mail = req[r].mail
    <3>1. req[r].held
      BY <1>0, <1>1, <1>3 DEF MyRow, HasRow, ReqInv, LoginInv
    <3>2. i \in Nat
      BY <1>0 DEF TypeOK, TablesOK
    <3> QED BY <1>0, <1>3, <3>1, <3>2 DEF TableInv, MyRow
  <2>2. req'[r] = [req[r] EXCEPT !.pc = "status", !.uid = i] /\ req' = [req EXCEPT ![r] = req'[r]]
    BY <1>0, <1>3, <2>1 DEF TypeOK
  <2>3. "status" \in Working
    BY DEF Working
  <2>4. /\ req'[r] \in ReqType /\ req'[r].pc = "status" /\ req'[r].uid = i
        /\ req'[r].kind = "login" /\ req'[r].ans = None
        /\ req'[r].mail = req[r].mail /\ req'[r].held = req[r].held
    <3>1. req[r] \in ReqType /\ req[r].kind = "login" /\ req[r].ans = None
      BY <1>0, <1>1
    <3>2. i \in Nat /\ req'[r] = [req[r] EXCEPT !.pc = "status", !.uid = i]
      BY <2>1, <2>2
    <3>3. req'[r] \in ReqType
      <4>1. \A j \in Nat : [req[r] EXCEPT !.pc = "status", !.uid = j] \in ReqType
        BY <3>1, FieldTypes
      <4>2. [req[r] EXCEPT !.pc = "status", !.uid = i] \in ReqType
        BY <3>2, <4>1
      <4> QED BY <3>2, <4>2
    <3> QED BY <3>1, <3>2, <3>3 DEF ReqType
  <2>5. Admitted(req[r])'
    BY <1>1, <2>1, <2>4 DEF Admitted, Same, Tables
  <2>6. ReqInv(req[r])'
    <3>1. VarifyInv(req[r])'
      BY <2>4, <2>5, AccountsAssumption DEF VarifyInv
    <3>2. CodeInv(req[r])'
      BY <2>4, <2>5, AccountsAssumption DEF CodeInv, RegPC, ResetPC, Posted
    <3>3. RegisterInv(req[r])'
      BY <2>4, <2>5, AccountsAssumption DEF RegisterInv, RegisterTrue
    <3>4. LoginInv(req[r])'
      BY <2>4, <2>5, AccountsAssumption DEF LoginInv, InfoPC
    <3>5. FindInv(req[r])'
      BY <2>4, <2>5, AccountsAssumption DEF FindInv, FoundRow, InfoPC
    <3> QED BY <3>1, <3>2, <3>3, <3>4, <3>5 DEF ReqInv
  <2> QED BY <1>1, <2>2, <2>4, <2>6, AloneKeeps DEF Alone, Same, Locking
<1> QED BY <1>2, <1>3 DEF CheckPwd

(* The token is stored and the request answered.                           *)
LEMMA TokenKeeps ==
  ASSUME IInv, NEW r \in Request, req[r].pc = "status", NEW a \in {"ok", "failed"}, Answer(r, a),
         NewToken(r) \/ UNCHANGED token,
         UNCHANGED <<user, user_id, locker, code, mailed, caches>>,
         faults' \in Nat, faults' = 0 => faults = 0
  PROVE  IInv'
<1>0. TypeOK /\ TablesOK /\ TableInv /\ LockInv /\ RedisInv
  BY DEF IInv, TypeOK
<1>1. req[r].kind = "login" /\ Admitted(req[r]) /\ req[r].uid \in DOMAIN user
  BY DEF IInv, ReqInv, LoginInv, Admitted
<1>2. token' \in Seq(Request \cup {None}) /\ Len(token') = Len(token)
  <2>1. /\ Len(token) \in Nat /\ DOMAIN token = 1 .. Len(token) /\ token \in Seq(Request \cup {None})
        /\ req[r].uid \in 1 .. Len(token)
    BY <1>0, <1>1 DEF TablesOK, TableInv
  <2>2. CASE NewToken(r)
    <3>1. token' = [u \in 1 .. Len(token) |->
                      IF u = req[r].uid THEN r ELSE IF token[u] = r THEN None ELSE token[u]]
      BY <2>1, <2>2 DEF NewToken
    <3>2. token' \in [1 .. Len(token) -> Request \cup {None}]
      BY <2>1, <3>1
    <3> QED BY <2>1, <3>2
  <2> QED BY <2>1, <2>2
<1>3. /\ req'[r] = Answered(req[r], a) /\ req' = [s \in Request |-> req'[s]]
      /\ \A s \in Request \ {r} : req'[s] = req[s]
  BY <1>0 DEF Answer, TypeOK
<1>4. req'[r] \in ReqType /\ ReqInv(req[r])' /\ req'[r].pc = "writing"
  <2>1. a \in Answers
    BY DEF Answers
  <2> QED BY <1>0, <1>1, <1>3, <2>1, AnsweredKeeps DEF Admitted
<1>5. TablesOK' /\ Grown /\ \A s \in Request \ {r} : Waits(s)
  BY <1>0, <1>2, <1>3 DEF TablesOK, Grown, Waits, caches
<1>6. TypeOK' /\ \A s \in Request : ReqInv(req[s])'
  BY <1>3, <1>4, <1>5, StepKeeps
<1>7. TableInv' /\ RedisInv'
  BY <1>0, <1>2 DEF TableInv, RedisInv, caches
<1>8. LockInv'
  BY <1>0, <1>3, <1>4 DEF LockInv
<1> QED BY <1>6, <1>7, <1>8 DEF IInv

(* user_login and LoginHandler: the token that is compared is that of the  *)
(* user who gave the password, so the uid presented is his.                *)
LEMMA LoginKeeps ==
  ASSUME IInv, TokenInv, NEW r \in Request, Login(r)
  PROVE  IInv'
<1>0. TypeOK /\ ReqInv(req[r]) /\ faults \in Nat /\ req \in [Request -> ReqType]
  BY DEF IInv, TypeOK, TablesOK
<1>1. CASE GetChatServer(r)
  BY <1>0, <1>1, TokenKeeps DEF GetChatServer, caches
<1>2. CASE LoginFails(r)
  <2>1. /\ UNCHANGED <<Tables, code, mailed, caches>> \/ req[r].pc = "status"
        /\ req[r].pc \in {"checkpwd", "status"} /\ req[r].kind = "login"
        /\ UNCHANGED <<user, user_id, locker, code, mailed, caches>>
        /\ faults' \in Nat /\ (faults' = 0 => faults = 0) /\ Answer(r, "failed")
        /\ NewToken(r) \/ UNCHANGED token
    BY <1>0, <1>2 DEF LoginFails, Fault, ReqInv, LoginInv, Tables, caches
  <2>2. CASE req[r].pc = "status"
    BY <2>1, <2>2, TokenKeeps
  <2>3. CASE req[r].pc = "checkpwd"
    BY <2>1, <2>3, AnswerKeeps DEF Answers, Locking
  <2> QED BY <2>1, <2>2, <2>3
<1>3. CASE ChatLogin(r)
  <2>1. /\ Same /\ req[r].pc = "told" /\ req[r].kind = "login" /\ Admitted(req[r])
    BY <1>0, <1>3 DEF ChatLogin, Same, Tables, caches, ReqInv, LoginInv
  <2>2. PICK uid \in DOMAIN user :
          req' = [req EXCEPT ![r] =
            IF TokenIs(uid, r) THEN [req[r] EXCEPT !.pc = "getinfo", !.uid = uid] ELSE Free]
    BY <1>3 DEF ChatLogin
  <2>3. CASE TokenIs(uid, r)
    <3>0. uid = req[r].uid
      <4>1. uid \in DOMAIN token
        BY DEF IInv, TypeOK, TablesOK, TableInv
      <4>2. Bearer(req[r])
        BY <1>0, <2>1 DEF Bearer, ReqInv, LoginInv
      <4> QED BY <2>3, <4>1, <4>2 DEF TokenInv, OnlyToken, TokenIs
    <3>1. Goto(r, "getinfo")
      <4>1. [req[r] EXCEPT !.pc = "getinfo", !.uid = uid] = [req[r] EXCEPT !.pc = "getinfo"]
        BY <1>0, <3>0 DEF ReqType
      <4> QED BY <1>0, <2>2, <2>3, <4>1 DEF Goto
    <3>2. SameBut(r, "getinfo")
      BY <1>0, <3>1, MoveFields DEF SameBut
    <3>3. /\ req'[r].pc = "getinfo" /\ req'[r].kind = "login" /\ Admitted(req[r])'
      BY <2>1, <3>2 DEF SameBut, Admitted, Same, Tables
    <3>4. ReqInv(req[r])'
      <4>1. VarifyInv(req[r])'
        BY <3>3 DEF VarifyInv
      <4>2. CodeInv(req[r])'
        BY <3>3 DEF CodeInv, RegPC, ResetPC, Posted
      <4>3. RegisterInv(req[r])'
        BY <3>3 DEF RegisterInv, RegisterTrue
      <4>4. LoginInv(req[r])'
        BY <3>3 DEF LoginInv, InfoPC
      <4>5. FindInv(req[r])'
        BY <3>3 DEF FindInv, FoundRow, InfoPC
      <4> QED BY <4>1, <4>2, <4>3, <4>4, <4>5 DEF ReqInv
    <3> QED BY <2>1, <3>1, <3>4, MoveKeeps DEF Locking, Working
  <2>4. CASE ~TokenIs(uid, r)
    <3>1. req' = [req EXCEPT ![r] = Free]
      BY <2>2, <2>4
    <3> QED BY <1>3, <2>1, <3>1, EndKeeps DEF ChatLogin, Tables, caches, Locking
  <2> QED BY <2>3, <2>4
<1>4. CASE Logout(r)
  BY <1>4, EndKeeps DEF Logout, Tables, caches, Locking
<1> QED BY <1>1, <1>2, <1>3, <1>4, CheckPwdKeeps DEF Login

-----------------------------------------------------------------------------
(* What is read of a user.                                                 *)
Less == {p \in Nat \X Nat : p[1] < p[2]}

(* The rows are numbered, so there is a first one among any.               *)
LEMMA LessIsWellFounded == IsWellFoundedOn(Less, Nat)
<1>1. Less = OpToRel(<, Nat)
  BY DEF Less, OpToRel
<1> QED BY <1>1, NatLessThanWellFounded, Zenon

(* If a name has a row it has a first one, which GetUser finds.            *)
LEMMA FirstRow ==
  ASSUME TablesOK, NEW n, \E i \in DOMAIN user : user[i].name = n
  PROVE  \E i \in DOMAIN user : user[i].name = n /\ \A j \in 1 .. i - 1 : user[j].name # n
<1> DEFINE T == {i \in DOMAIN user : user[i].name = n}
<1>1. DOMAIN user = 1 .. Len(user) /\ Len(user) \in Nat
  BY DEF TablesOK
<1>2. T \subseteq Nat /\ T # {}
  BY <1>1
<1> HIDE DEF T
<1>3. PICK i \in T : \A j \in T : <<j, i>> \notin Less
  BY <1>2, LessIsWellFounded, WFMin
<1>4. \A j \in T : ~(j < i)
  BY <1>2, <1>3 DEF Less
<1> QED BY <1>1, <1>4 DEF T

(* What a request that has found a user is.                                *)
LEMMA FoundFields ==
  ASSUME NEW q \in ReqType, NEW u \in Nat
  PROVE  /\ Found(q, u) \in ReqType /\ Found(q, u).uid = u
         /\ Found(q, u).kind = q.kind /\ Found(q, u).name = q.name /\ Found(q, u).held = q.held
         /\ Found(q, u).mail = q.mail
         /\ Found(q, u).pc = (IF q.kind = "login" THEN "in" ELSE "found")
         /\ Found(q, u).ans = (IF q.kind = "login" THEN q.ans ELSE "ok")
<1>1. q.ans \in Answers \cup {None} /\ "ok" \in Answers
  BY DEF ReqType, Answers
<1>2. CASE q.kind = "login"
  <2>1. Found(q, u) = [q EXCEPT !.pc = "in", !.uid = u]
    BY <1>2 DEF Found, ReqType
  <2>2. Found(q, u) \in ReqType
    BY <2>1 DEF ReqType
  <2>3. /\ Found(q, u).pc = "in" /\ Found(q, u).uid = u /\ Found(q, u).kind = q.kind
        /\ Found(q, u).name = q.name /\ Found(q, u).held = q.held
        /\ Found(q, u).mail = q.mail /\ Found(q, u).ans = q.ans
    BY <2>1 DEF ReqType
  <2> QED BY <1>2, <2>2, <2>3
<1>3. CASE q.kind # "login"
  <2>1. Found(q, u) = [q EXCEPT !.pc = "found", !.ans = "ok", !.uid = u]
    BY <1>3 DEF Found
  <2>2. Found(q, u) \in ReqType
    BY <1>1, <2>1 DEF ReqType
  <2>3. /\ Found(q, u).pc = "found" /\ Found(q, u).uid = u /\ Found(q, u).kind = q.kind
        /\ Found(q, u).name = q.name /\ Found(q, u).held = q.held
        /\ Found(q, u).mail = q.mail /\ Found(q, u).ans = "ok"
    BY <2>1 DEF ReqType
  <2> QED BY <1>3, <2>2, <2>3
<1> QED BY <1>2, <1>3

(* A request that leaves the rows alone and may fill a cache.              *)
LEMMA EntersKeeps ==
  ASSUME IInv, NEW r \in Request, req[r].pc \notin Locking, req'[r].pc \notin Locking,
         req' = [s \in Request |-> req'[s]], \A s \in Request \ {r} : req'[s] = req[s],
         req'[r] \in ReqType, ReqInv(req[r])',
         UNCHANGED <<Tables, code, mailed>>, faults' \in Nat, faults' = 0 => faults = 0,
         TablesOK', RedisInv'
  PROVE  IInv'
<1>1. Grown /\ \A s \in Request \ {r} : Waits(s)
  BY DEF Grown, Waits, Tables, IInv, TypeOK, TablesOK
<1>2. TypeOK' /\ \A s \in Request : ReqInv(req[s])'
  BY <1>1, StepKeeps
<1>3. TableInv'
  BY DEF IInv, TableInv, Tables
<1>4. LockInv'
  BY DEF IInv, LockInv, Tables, Locking
<1> QED BY <1>2, <1>3, <1>4 DEF IInv

(* The request has found the user u.                                       *)
LEMMA FoundKeeps ==
  ASSUME IInv, NEW r \in Request, NEW u \in DOMAIN user, req[r].pc \in InfoPC,
         req' = [req EXCEPT ![r] = Found(req[r], u)],
         req[r].kind = "login" => u = req[r].uid,
         req[r].kind = "find" => req[r].name \in {None, user[u].name},
         UNCHANGED <<Tables, code, mailed>>, faults' \in Nat, faults' = 0 => faults = 0,
         TablesOK', RedisInv'
  PROVE  IInv'
<1>0. TypeOK /\ TableInv /\ LockInv /\ ReqInv(req[r]) /\ req[r] \in ReqType /\ u \in Nat
  <2>1. TypeOK /\ TableInv /\ LockInv /\ ReqInv(req[r]) /\ req[r] \in ReqType
    BY DEF IInv, TypeOK
  <2>2. DOMAIN user = 1 .. Len(user)
    BY <2>1 DEF TypeOK, TablesOK
  <2> QED BY <2>1, <2>2
<1>1. /\ req'[r] = Found(req[r], u) /\ req' = [s \in Request |-> req'[s]]
      /\ \A s \in Request \ {r} : req'[s] = req[s]
  BY <1>0 DEF TypeOK
<1>2. req[r].kind \in {"login", "find"}
  BY <1>0 DEF ReqInv, FindInv
<1>3. /\ req'[r] \in ReqType /\ req'[r].uid = u /\ req'[r].kind = req[r].kind
      /\ req'[r].name = req[r].name /\ req'[r].held = req[r].held
      /\ req'[r].mail = req[r].mail
      /\ req'[r].pc = (IF req[r].kind = "login" THEN "in" ELSE "found")
      /\ req'[r].ans = (IF req[r].kind = "login" THEN req[r].ans ELSE "ok")
  BY <1>0, <1>1, FoundFields
<1>4. CASE req[r].kind = "login"
  <2>1. req'[r].pc = "in" /\ req'[r].kind = "login" /\ Admitted(req[r])'
    BY <1>0, <1>3, <1>4 DEF Admitted, ReqInv, LoginInv, Tables
  <2> QED
    <3>1. VarifyInv(req[r])'
      BY <2>1 DEF VarifyInv
    <3>2. CodeInv(req[r])'
      BY <2>1 DEF CodeInv, RegPC, ResetPC, Posted
    <3>3. RegisterInv(req[r])'
      BY <2>1 DEF RegisterInv, RegisterTrue
    <3>4. LoginInv(req[r])'
      BY <2>1 DEF LoginInv, InfoPC
    <3>5. FindInv(req[r])'
      BY <2>1 DEF FindInv, FoundRow, InfoPC
    <3>6. ReqInv(req[r])'
      BY <3>1, <3>2, <3>3, <3>4, <3>5 DEF ReqInv
    <3> QED BY <1>0, <1>1, <1>3, <2>1, <3>6, EntersKeeps DEF Locking, InfoPC
<1>5. CASE req[r].kind = "find"
  <2>1. req'[r].pc = "found" /\ req'[r].kind = "find" /\ req'[r].ans = "ok" /\ FoundRow(req[r])'
    BY <1>3, <1>5 DEF FoundRow, Tables
  <2> QED
    <3>1. VarifyInv(req[r])'
      BY <2>1 DEF VarifyInv
    <3>2. CodeInv(req[r])'
      BY <2>1 DEF CodeInv, RegPC, ResetPC, Posted
    <3>3. RegisterInv(req[r])'
      BY <2>1 DEF RegisterInv, RegisterTrue
    <3>4. LoginInv(req[r])'
      BY <2>1 DEF LoginInv, Admitted, InfoPC
    <3>5. FindInv(req[r])'
      BY <2>1 DEF FindInv, InfoPC
    <3>6. ReqInv(req[r])'
      BY <3>1, <3>2, <3>3, <3>4, <3>5 DEF ReqInv
    <3> QED BY <1>0, <1>1, <1>3, <2>1, <3>6, EntersKeeps DEF Locking, InfoPC
<1> QED BY <1>2, <1>4, <1>5

(* What a search writes into its request.                                  *)
SearchBegun(q, n, u, b) ==
  /\ q \in ReqType /\ q.pc = "getinfo" /\ q.kind = "find"
  /\ q.name = n /\ q.uid = u /\ q.held = b /\ q.ans = None

(* The fields of an idle request.                                          *)
LEMMA FreeIs ==
  /\ Free \in ReqType /\ Free.ans = None /\ Free.name = None /\ Free.uid = 0
  /\ "getinfo" \in Working /\ "find" \in Kinds
BY DEF Free, ReqType, Working, Kinds

(* A search begins: it notes whether the row is there.                     *)
LEMMA SearchKeeps ==
  ASSUME IInv, NEW r \in Request, Search(r)
  PROVE  IInv'
<1>0. TypeOK /\ TableInv /\ faults \in Nat /\ Len(user) \in Nat /\ DOMAIN user = 1 .. Len(user)
  BY DEF IInv, TypeOK, TablesOK
<1>1. Same /\ req[r].pc = "idle"
  BY <1>0 DEF Search, Same, Tables, caches
<1>2. PICK n \in Name \cup {None}, u \in Nat, b \in BOOLEAN :
        /\ SearchBegun(req'[r], n, u, b)
        /\ req' = [req EXCEPT ![r] = req'[r]]
        /\ b => IF n = None THEN u \in DOMAIN user ELSE \E i \in DOMAIN user : user[i].name = n
  <2> DEFINE Known(p) == \E i \in DOMAIN user : user[i].name = p
  <2>1. PICK p \in Posts[r] :
          req' = [req EXCEPT ![r] =
            IF Digits(p.name)
            THEN [Free EXCEPT !.pc = "getinfo", !.kind = "find", !.uid = Spelt[p.name],
                              !.held = Spelt[p.name] \in DOMAIN user]
            ELSE [Free EXCEPT !.pc = "getinfo", !.kind = "find", !.name = p.name,
                              !.held = Known(p.name)]]
    BY DEF Search
  <2>2. p.name \in Name /\ p.name # None /\ Known(p.name) \in BOOLEAN /\ 0 \in Nat
    BY AccountsAssumption
  <2>3. \A x : req' = [req EXCEPT ![r] = x] => req'[r] = x
    BY <1>0 DEF TypeOK
  <2>4. CASE ~Digits(p.name)
    <3>1. PICK b \in BOOLEAN : b = Known(p.name)
      <4> HIDE DEF Known
      <4> QED BY <2>2
    <3>2. /\ req'[r] = [Free EXCEPT !.pc = "getinfo", !.kind = "find", !.name = p.name, !.held = b]
          /\ req' = [req EXCEPT ![r] = req'[r]]
      <4> HIDE DEF Known
      <4> QED BY <2>1, <2>3, <2>4, <3>1
    <3>3. SearchBegun(req'[r], p.name, 0, b)
      <4>1. /\ req'[r].pc = "getinfo" /\ req'[r].kind = "find" /\ req'[r].name = p.name /\ req'[r].uid = 0
            /\ req'[r].held = b /\ req'[r].ans = None
        BY <3>2 DEF Free
      <4>2. req'[r] \in ReqType
        BY <2>2, <3>2, FreeIs DEF ReqType
      <4> QED BY <4>1, <4>2 DEF SearchBegun
    <3> QED BY <2>2, <3>1, <3>2, <3>3
  <2>5. CASE Digits(p.name)
    <3> DEFINE u == Spelt[p.name]
    <3> DEFINE Registered == u \in DOMAIN user
    <3>0. Registered \in BOOLEAN
      OBVIOUS
    <3>1. PICK b \in BOOLEAN : b = Registered
      <4> HIDE DEF Registered
      <4> QED BY <3>0
    <3>2. /\ req'[r] = [Free EXCEPT !.pc = "getinfo", !.kind = "find", !.uid = u, !.held = b]
          /\ req' = [req EXCEPT ![r] = req'[r]]
      BY <2>1, <2>3, <2>5, <3>1
    <3>3. SearchBegun(req'[r], None, u, b) /\ u \in Nat
      <4>0. u \in Nat
        BY <2>2, <2>5, AccountsAssumption DEF Digits
      <4>1. /\ req'[r].pc = "getinfo" /\ req'[r].kind = "find" /\ req'[r].name = None /\ req'[r].uid = u
            /\ req'[r].held = b /\ req'[r].ans = None
        BY <3>2 DEF Free
      <4>2. req'[r] \in ReqType
        BY <4>0, <3>2, FreeIs DEF ReqType
      <4> QED BY <4>0, <4>1, <4>2 DEF SearchBegun
    <3>4. b => u \in DOMAIN user
      BY <3>1
    <3> QED BY <3>2, <3>3, <3>4
  <2> QED BY <2>4, <2>5
<1>3. /\ req'[r] \in ReqType /\ req'[r].pc = "getinfo" /\ req'[r].kind = "find"
      /\ req'[r].name = n /\ req'[r].uid = u /\ req'[r].held = b /\ req'[r].ans = None
  BY <1>2 DEF SearchBegun
<1>4. /\ req'[r].pc = "getinfo" /\ req'[r].kind = "find" /\ req'[r].ans = None
      /\ req'[r].held => IF req'[r].name = None
                         THEN req'[r].uid \in DOMAIN user'
                         ELSE \E i \in DOMAIN user' : user'[i].name = req'[r].name
  BY <1>1, <1>2, <1>3 DEF Same, Tables
<1>5. ReqInv(req[r])'
  <2>1. VarifyInv(req[r])'
    BY <1>4, AccountsAssumption DEF VarifyInv
  <2>2. CodeInv(req[r])'
    BY <1>4, AccountsAssumption DEF CodeInv, RegPC, ResetPC, Posted
  <2>3. RegisterInv(req[r])'
    BY <1>4, AccountsAssumption DEF RegisterInv, RegisterTrue
  <2>4. LoginInv(req[r])'
    BY <1>4, AccountsAssumption DEF LoginInv, Admitted, InfoPC
  <2>5. FindInv(req[r])'
    BY <1>4, AccountsAssumption DEF FindInv, FoundRow, InfoPC
  <2> QED BY <2>1, <2>2, <2>3, <2>4, <2>5 DEF ReqInv
<1> QED BY <1>1, <1>2, <1>3, <1>5, AloneKeeps DEF Alone, Same, Locking

(* The user is not in Redis, or Redis fails.                               *)
LEMMA SelectKeeps ==
  ASSUME IInv, NEW r \in Request, req[r].pc = "getinfo", Goto(r, "selectinfo"), Same
  PROVE  IInv'
<1>0. TypeOK /\ ReqInv(req[r])
  BY DEF IInv
<1>1. SameBut(r, "selectinfo")
  BY <1>0, MoveFields DEF SameBut
<1>2. CASE req[r].kind = "login"
  <2>1. req'[r].pc = "selectinfo" /\ req'[r].kind = "login" /\ Admitted(req[r])'
    BY <1>0, <1>1, <1>2 DEF SameBut, Admitted, Same, Tables, ReqInv, LoginInv, InfoPC
  <2>2. ReqInv(req[r])'
    <3>1. VarifyInv(req[r])'
      BY <2>1 DEF VarifyInv
    <3>2. CodeInv(req[r])'
      BY <2>1 DEF CodeInv, RegPC, ResetPC, Posted
    <3>3. RegisterInv(req[r])'
      BY <2>1 DEF RegisterInv, RegisterTrue
    <3>4. LoginInv(req[r])'
      BY <2>1 DEF LoginInv, InfoPC
    <3>5. FindInv(req[r])'
      BY <2>1 DEF FindInv, FoundRow, InfoPC
    <3> QED BY <3>1, <3>2, <3>3, <3>4, <3>5 DEF ReqInv
  <2> QED BY <2>2, MoveKeeps DEF Locking, Working
<1>3. CASE req[r].kind = "find"
  <2>1. /\ req'[r].pc = "selectinfo" /\ req'[r].kind = "find" /\ req'[r].ans = None
        /\ req'[r].held => IF req'[r].name = None
                           THEN req'[r].uid \in DOMAIN user'
                           ELSE \E i \in DOMAIN user' : user'[i].name = req'[r].name
    BY <1>0, <1>1, <1>3 DEF SameBut, Same, Tables, ReqInv, FindInv, InfoPC
  <2>2. ReqInv(req[r])'
    <3>1. VarifyInv(req[r])'
      BY <2>1, AccountsAssumption DEF VarifyInv
    <3>2. CodeInv(req[r])'
      BY <2>1, AccountsAssumption DEF CodeInv, RegPC, ResetPC, Posted
    <3>3. RegisterInv(req[r])'
      BY <2>1, AccountsAssumption DEF RegisterInv, RegisterTrue
    <3>4. LoginInv(req[r])'
      BY <2>1, AccountsAssumption DEF LoginInv, Admitted, InfoPC
    <3>5. FindInv(req[r])'
      BY <2>1, AccountsAssumption DEF FindInv, FoundRow, InfoPC
    <3> QED BY <3>1, <3>2, <3>3, <3>4, <3>5 DEF ReqInv
  <2> QED BY <2>2, MoveKeeps DEF Locking, Working
<1> QED BY <1>0, <1>2, <1>3 DEF ReqInv, FindInv, InfoPC

(* What a search that has found nobody is.                                 *)
LEMMA InvalidFields ==
  ASSUME NEW q \in ReqType
  PROVE  LET x == [q EXCEPT !.pc = "found", !.ans = "UidInvalid"] IN
         x \in ReqType /\ x.pc = "found" /\ x.kind = q.kind /\ x.ans = "UidInvalid" /\ x.held = q.held
BY DEF ReqType, Answers

(* Nobody is found.                                                        *)
LEMMA UidInvalidKeeps ==
  ASSUME IInv, NEW r \in Request, req[r].pc = "selectinfo", Same,
         req' = [req EXCEPT ![r] = UidInvalid(req[r])],
         req[r].kind = "find" /\ faults' = 0 => ~req[r].held
  PROVE  IInv'
<1>0. TypeOK /\ req[r] \in ReqType /\ ReqInv(req[r])
  BY DEF IInv, TypeOK
<1>1. req'[r] = UidInvalid(req[r]) /\ req' = [req EXCEPT ![r] = req'[r]]
  BY <1>0 DEF TypeOK
<1>2. CASE req[r].kind = "login"
  <2>1. req'[r] = Free
    BY <1>1, <1>2 DEF UidInvalid
  <2> QED BY <1>1, <2>1, FreeKeeps, AloneKeeps DEF Alone, Same, Locking
<1>3. CASE req[r].kind = "find"
  <2>1. req'[r] = [req[r] EXCEPT !.pc = "found", !.ans = "UidInvalid"]
    BY <1>1, <1>3 DEF UidInvalid
  <2>2. /\ req'[r] \in ReqType /\ req'[r].pc = "found" /\ req'[r].kind = "find"
        /\ req'[r].ans = "UidInvalid" /\ req'[r].held = req[r].held
    BY <1>0, <1>3, <2>1, InvalidFields
  <2>3. faults' = 0 => ~req'[r].held
    BY <1>3, <2>2
  <2>4. ReqInv(req[r])'
    <3>1. VarifyInv(req[r])'
      BY <2>2, <2>3 DEF VarifyInv
    <3>2. CodeInv(req[r])'
      BY <2>2, <2>3 DEF CodeInv, RegPC, ResetPC, Posted
    <3>3. RegisterInv(req[r])'
      BY <2>2, <2>3 DEF RegisterInv, RegisterTrue
    <3>4. LoginInv(req[r])'
      BY <2>2, <2>3 DEF LoginInv, Admitted, InfoPC
    <3>5. FindInv(req[r])'
      BY <2>2, <2>3 DEF FindInv, FoundRow, InfoPC
    <3> QED BY <3>1, <3>2, <3>3, <3>4, <3>5 DEF ReqInv
  <2> QED BY <1>1, <2>2, <2>4, AloneKeeps DEF Alone, Same, Locking
<1> QED BY <1>0, <1>2, <1>3 DEF ReqInv, FindInv, InfoPC

(* MysqlDao::GetUser: a row that was there when the search came is found.  *)
LEMMA GetUserKeeps ==
  ASSUME IInv, NEW r \in Request, GetUser(r)
  PROVE  IInv'
<1>0. TypeOK /\ TablesOK /\ TableInv /\ ReqInv(req[r]) /\ req[r] \in ReqType
  BY DEF IInv, TypeOK
<1>1. Same /\ req[r].pc = "selectinfo" /\ req[r].kind \in {"login", "find"}
  BY <1>0 DEF GetUser, Same, Tables, caches, ReqInv, FindInv, InfoPC, TablesOK
<1>2. CASE /\ ~ \E i \in DOMAIN user : UserRow(r, i)
           /\ req' = [req EXCEPT ![r] = UidInvalid(req[r])]
  <2>1. ASSUME req[r].kind = "find", req[r].held
        PROVE  FALSE
    <3>1. CASE req[r].name = None
      <4>1. req[r].uid \in DOMAIN user /\ user[req[r].uid].uid = req[r].uid
        BY <1>0, <1>1, <2>1, <3>1 DEF ReqInv, FindInv, TableInv
      <4> QED BY <1>2, <3>1, <4>1 DEF UserRow, ByName
    <3>2. CASE req[r].name # None
      <4>1. \E i \in DOMAIN user : user[i].name = req[r].name
        BY <1>0, <1>1, <2>1, <3>2 DEF ReqInv, FindInv
      <4>2. PICK i \in DOMAIN user :
              user[i].name = req[r].name /\ \A j \in 1 .. i - 1 : user[j].name # req[r].name
        BY <1>0, <4>1, FirstRow
      <4>3. UserRow(r, i)
        BY <2>1, <3>2, <4>2 DEF UserRow, ByName
      <4> QED BY <1>2, <4>3
    <3> QED BY <3>1, <3>2
  <2> QED BY <1>1, <1>2, <2>1, UidInvalidKeeps
<1>3. ASSUME NEW i \in DOMAIN user, UserRow(r, i),
             req' = [req EXCEPT ![r].pc = "setinfo", ![r].uid = user[i].uid]
      PROVE  IInv'
  <2>1. user[i].uid = i /\ i \in Nat
    BY <1>0 DEF TableInv, TablesOK
  <2>2. req'[r] = [req[r] EXCEPT !.pc = "setinfo", !.uid = i] /\ req' = [req EXCEPT ![r] = req'[r]]
    BY <1>0, <1>3, <2>1 DEF TypeOK
  <2>3. "setinfo" \in Working
    BY DEF Working
  <2>4. /\ req'[r] \in ReqType /\ req'[r].pc = "setinfo" /\ req'[r].uid = i
        /\ req'[r].kind = req[r].kind /\ req'[r].name = req[r].name /\ req'[r].ans = req[r].ans
        /\ req'[r].mail = req[r].mail /\ req'[r].held = req[r].held
    BY <1>0, <2>1, <2>2, <2>3 DEF ReqType
  <2>5. req[r].kind = "login" => i = req[r].uid
    BY <1>3, <2>1 DEF UserRow, ByName
  <2>6. CASE req[r].kind = "login"
    <3>1. req'[r].pc = "setinfo" /\ req'[r].kind = "login" /\ Admitted(req[r])'
      BY <1>0, <1>1, <2>4, <2>5, <2>6 DEF Admitted, Same, Tables, ReqInv, LoginInv, InfoPC
    <3>2. ReqInv(req[r])'
      <4>1. VarifyInv(req[r])'
        BY <3>1 DEF VarifyInv
      <4>2. CodeInv(req[r])'
        BY <3>1 DEF CodeInv, RegPC, ResetPC, Posted
      <4>3. RegisterInv(req[r])'
        BY <3>1 DEF RegisterInv, RegisterTrue
      <4>4. LoginInv(req[r])'
        BY <3>1 DEF LoginInv, InfoPC
      <4>5. FindInv(req[r])'
        BY <3>1 DEF FindInv, FoundRow, InfoPC
      <4> QED BY <4>1, <4>2, <4>3, <4>4, <4>5 DEF ReqInv
    <3> QED BY <1>1, <2>2, <2>4, <3>2, AloneKeeps DEF Alone, Same, Locking
  <2>7. CASE req[r].kind = "find"
    <3>1. req[r].name \in {None, user[i].name}
      BY <1>3, <2>7 DEF UserRow, ByName
    <3>2. /\ req'[r].pc = "setinfo" /\ req'[r].kind = "find" /\ req'[r].ans = None
          /\ FoundRow(req[r])'
      BY <1>0, <1>1, <2>4, <2>7, <3>1 DEF FoundRow, Same, Tables, ReqInv, FindInv, InfoPC
    <3>3. ReqInv(req[r])'
      <4>1. VarifyInv(req[r])'
        BY <3>2, AccountsAssumption DEF VarifyInv
      <4>2. CodeInv(req[r])'
        BY <3>2, AccountsAssumption DEF CodeInv, RegPC, ResetPC, Posted
      <4>3. RegisterInv(req[r])'
        BY <3>2, AccountsAssumption DEF RegisterInv, RegisterTrue
      <4>4. LoginInv(req[r])'
        BY <3>2, AccountsAssumption DEF LoginInv, Admitted, InfoPC
      <4>5. FindInv(req[r])'
        BY <3>2, AccountsAssumption DEF FindInv, InfoPC
      <4> QED BY <4>1, <4>2, <4>3, <4>4, <4>5 DEF ReqInv
    <3> QED BY <1>1, <2>2, <2>4, <3>3, AloneKeeps DEF Alone, Same, Locking
  <2> QED BY <1>1, <2>6, <2>7
<1> QED BY <1>2, <1>3 DEF GetUser

(* Reading a user from Redis or MySQL.                                     *)
LEMMA InfoKeeps ==
  ASSUME IInv, NEW r \in Request, Info(r)
  PROVE  IInv'
<1>0. /\ TypeOK /\ TablesOK /\ RedisInv /\ ReqInv(req[r]) /\ req[r] \in ReqType /\ faults \in Nat
      /\ \A i \in DOMAIN user : i \in Nat
  BY DEF IInv, TypeOK, TablesOK
<1>1. CASE GetNameInfo(r)
  <2>1. Same /\ req[r].pc = "getinfo" /\ ByName(r) /\ req[r].name \in Name
    BY <1>0, <1>1 DEF GetNameInfo, Same, Tables, caches, ByName, ReqType
  <2>2. CASE nameinfo[req[r].name] # 0
    <3> DEFINE u == nameinfo[req[r].name]
    <3>1. u \in DOMAIN user /\ user[u].name = req[r].name
      BY <1>0, <2>1, <2>2 DEF RedisInv
    <3>2. req' = [req EXCEPT ![r] = Found(req[r], u)]
      BY <1>0, <1>1, <2>2 DEF GetNameInfo, TypeOK
    <3>3. TablesOK' /\ RedisInv'
      BY <1>0, <2>1 DEF Same, Tables, caches, TablesOK, RedisInv
    <3>4. req[r].kind = "find"
      BY <2>1 DEF ByName
    <3> HIDE DEF u
    <3> QED BY <2>1, <3>1, <3>2, <3>3, <3>4, FoundKeeps DEF Same, InfoPC
  <2>3. CASE nameinfo[req[r].name] = 0
    BY <1>1, <2>1, <2>3, SelectKeeps DEF GetNameInfo
  <2> QED BY <2>2, <2>3
<1>2. CASE GetBaseInfo(r)
  <2>1. Same /\ req[r].pc = "getinfo" /\ ~ByName(r)
    BY <1>0, <1>2 DEF GetBaseInfo, Same, Tables, caches
  <2>2. CASE req[r].uid \in cached
    <3>1. req[r].uid \in DOMAIN user
      BY <1>0, <2>2 DEF RedisInv
    <3>2. req' = [req EXCEPT ![r] = Found(req[r], req[r].uid)]
      BY <1>0, <1>2, <2>2 DEF GetBaseInfo, TypeOK
    <3>3. TablesOK' /\ RedisInv'
      BY <1>0, <2>1 DEF Same, Tables, caches, TablesOK, RedisInv
    <3>4. req[r].kind = "find" => req[r].name = None
      BY <2>1 DEF ByName
    <3> QED BY <2>1, <3>1, <3>2, <3>3, <3>4, FoundKeeps DEF Same, InfoPC
  <2>3. CASE req[r].uid \notin cached
    BY <1>2, <2>1, <2>3, SelectKeeps DEF GetBaseInfo
  <2> QED BY <2>2, <2>3
<1>3. ASSUME req[r].pc = "setinfo"
      PROVE  /\ req[r].uid \in DOMAIN user
             /\ req[r].kind = "find" => req[r].name \in {None, user[req[r].uid].name}
  BY <1>0, <1>3 DEF ReqInv, LoginInv, FindInv, Admitted, FoundRow, InfoPC
<1>4. CASE SetNameInfo(r)
  <2>1. /\ req[r].pc = "setinfo" /\ ByName(r) /\ req[r].name \in Name /\ req[r].kind = "find"
        /\ UNCHANGED <<Tables, code, mailed, faults, cached>>
        /\ nameinfo' = [nameinfo EXCEPT ![req[r].name] = req[r].uid]
    BY <1>0, <1>4 DEF SetNameInfo, Tables, ByName, ReqType
  <2>2. /\ req[r].uid \in DOMAIN user /\ req[r].uid \in Nat
        /\ req[r].name \in {None, user[req[r].uid].name} /\ user[req[r].uid].name = req[r].name
    BY <1>0, <1>3, <2>1 DEF ByName
  <2>3. req' = [req EXCEPT ![r] = Found(req[r], req[r].uid)]
    BY <1>0, <1>4 DEF SetNameInfo, TypeOK
  <2>4. nameinfo' \in [Name -> Nat]
    BY <1>0, <2>1, <2>2 DEF TablesOK
  <2>5. TablesOK'
    BY <1>0, <2>1, <2>4 DEF TablesOK, Tables
  <2>6. RedisInv'
    BY <1>0, <2>1, <2>2 DEF RedisInv, Tables, TablesOK
  <2> QED BY <1>0, <2>1, <2>2, <2>3, <2>5, <2>6, FoundKeeps DEF InfoPC
<1>5. CASE SetBaseInfo(r)
  <2>1. /\ req[r].pc = "setinfo" /\ ~ByName(r)
        /\ UNCHANGED <<Tables, code, mailed, faults, nameinfo>>
        /\ cached' = cached \cup {req[r].uid}
    BY <1>5 DEF SetBaseInfo, Tables
  <2>2. req[r].uid \in DOMAIN user /\ req[r].uid \in Nat
    BY <1>0, <1>3, <2>1
  <2>3. req' = [req EXCEPT ![r] = Found(req[r], req[r].uid)]
    BY <1>0, <1>5 DEF SetBaseInfo, TypeOK
  <2>4. TablesOK' /\ RedisInv'
    BY <1>0, <2>1, <2>2 DEF TablesOK, RedisInv, Tables
  <2>5. req[r].kind = "find" => req[r].name = None
    BY <2>1 DEF ByName
  <2> QED BY <1>0, <2>1, <2>2, <2>3, <2>4, <2>5, FoundKeeps DEF InfoPC
<1>6. CASE InfoFails(r)
  <2>1. Same /\ faults' # 0 /\ faults' \in Nat
    BY <1>0, <1>6 DEF InfoFails, Fault, Same, Tables, caches
  <2>2. CASE req[r].pc = "getinfo" /\ Goto(r, "selectinfo")
    BY <2>1, <2>2, SelectKeeps
  <2>3. CASE req[r].pc = "selectinfo" /\ req' = [req EXCEPT ![r] = UidInvalid(@)]
    <3>1. req' = [req EXCEPT ![r] = UidInvalid(req[r])]
      BY <1>0, <2>3 DEF TypeOK
    <3> QED BY <2>1, <2>3, <3>1, UidInvalidKeeps
  <2>4. CASE req[r].pc = "setinfo" /\ req' = [req EXCEPT ![r] = Found(@, @.uid)]
    <3>1. req' = [req EXCEPT ![r] = Found(req[r], req[r].uid)]
      BY <1>0, <2>4 DEF TypeOK
    <3>2. TablesOK' /\ RedisInv'
      BY <1>0, <2>1 DEF Same, Tables, caches, TablesOK, RedisInv
    <3>3. /\ req[r].uid \in DOMAIN user
          /\ req[r].kind = "find" => req[r].name \in {None, user[req[r].uid].name}
      BY <1>3, <2>4
    <3> QED BY <1>0, <2>1, <2>4, <3>1, <3>2, <3>3, FoundKeeps DEF Same, InfoPC
  <2> QED BY <1>6, <2>2, <2>3, <2>4 DEF InfoFails
<1>7. CASE SearchSent(r)
  BY <1>7, EndKeeps DEF SearchSent, Tables, caches, Locking
<1>8. CASE GetUser(r)
  BY <1>8, GetUserKeeps
<1>9. CASE Search(r)
  BY <1>9, SearchKeeps
<1> QED BY <1>1, <1>2, <1>4, <1>5, <1>6, <1>7, <1>8, <1>9 DEF Info

(* A code expires.                                                         *)
LEMMA ExpireKeeps ==
  ASSUME IInv, NEW m \in Mail, Expire(m)
  PROVE  IInv'
<1>1. /\ UNCHANGED <<Tables, mailed, req, faults, caches>>
      /\ code' = [code EXCEPT ![m] = None]
  BY DEF Expire, Tables
<1>2. TypeOK' /\ RedisInv'
  BY <1>1 DEF IInv, TypeOK, TablesOK, RedisInv, Tables, caches
<1>3. TableInv' /\ LockInv'
  BY <1>1 DEF IInv, TableInv, LockInv, Tables
<1>4. ASSUME NEW s \in Request
      PROVE  ReqInv(req[s])'
  <2>1. Grown /\ Waits(s)
    BY <1>1 DEF Grown, Waits, Tables, IInv, TypeOK, TablesOK
  <2> QED BY <2>1, WaitingKept DEF IInv
<1> QED BY <1>2, <1>3, <1>4 DEF IInv

(* Nothing happens.                                                        *)
LEMMA StutterKeeps ==
  ASSUME IInv, UNCHANGED vars
  PROVE  IInv'
<1>1. TypeOK' /\ RedisInv' /\ TableInv' /\ LockInv'
  BY DEF IInv, TypeOK, TablesOK, RedisInv, TableInv, LockInv, vars
<1>2. ASSUME NEW s \in Request
      PROVE  ReqInv(req[s])'
  <2>1. Grown /\ Waits(s)
    BY DEF Grown, Waits, IInv, TypeOK, TablesOK, vars
  <2> QED BY <2>1, WaitingKept DEF IInv
<1> QED BY <1>1, <1>2 DEF IInv

-----------------------------------------------------------------------------
(* The tokens.                                                             *)

(* A step of r after which r bears a token only if it bore it before, and  *)
(* that makes no token, keeps TokenInv.                                    *)
LEMMA BearersKeep ==
  ASSUME IInv, TokenInv, NEW r \in Request, \A s \in Request \ {r} : Waits(s),
         Bearer(req'[r]) => Bearer(req[r]) /\ req'[r].uid = req[r].uid,
         \A u \in DOMAIN token' :
           token'[u] # None => u \in DOMAIN token /\ token'[u] = token[u]
  PROVE  TokenInv'
<1> SUFFICES ASSUME NEW s \in Request, Bearer(req'[s]),
                    NEW u \in DOMAIN token', token'[u] = s
             PROVE  u = req'[s].uid
  BY DEF TokenInv, OnlyToken
<1>1. u \in DOMAIN token /\ token[u] = s
  BY AccountsAssumption
<1>2. Bearer(req[s]) /\ req'[s].uid = req[s].uid
  <2>1. CASE s # r
    <3>1. req[s] \in ReqType /\ Waits(s)
      BY <2>1 DEF IInv, TypeOK
    <3> QED BY <3>1, WaitingFields DEF Bearer
  <2> QED BY <2>1
<1> QED BY <1>1, <1>2 DEF TokenInv, OnlyToken

(* Most steps change one request and no token.                             *)
LEMMA OthersKeep ==
  ASSUME IInv, TokenInv, NEW r \in Request, NEW q, req' = [req EXCEPT ![r] = q],
         UNCHANGED <<user, token>>, Bearer(q) => Bearer(req[r]) /\ q.uid = req[r].uid
  PROVE  TokenInv'
<1>1. req'[r] = q /\ \A s \in Request \ {r} : Waits(s)
  BY DEF IInv, TypeOK, Waits
<1> QED BY <1>1, BearersKeep

(* An answer that is not "ok", or not one to a login, makes no bearer.     *)
LEMMA AnsweredBearsNot ==
  ASSUME IInv, NEW r \in Request, NEW a, a # "ok" \/ req[r].kind # "login"
  PROVE  ~Bearer(Answered(req[r], a))
<1>1. req[r] \in ReqType
  BY DEF IInv, TypeOK
<1>2. CASE req[r].kind \in {"register", "login"}
  <2>1. Answered(req[r], a) = [req[r] EXCEPT !.pc = "writing", !.ans = a, !.pwd = None, !.code = None]
    BY <1>2 DEF Answered
  <2>2. Answered(req[r], a).ans = a /\ Answered(req[r], a).kind = req[r].kind
    BY <1>1, <2>1 DEF ReqType
  <2> QED BY <2>2 DEF Bearer
<1>3. CASE req[r].kind \notin {"register", "login"}
  <2>1. Answered(req[r], a) = [Free EXCEPT !.pc = "writing", !.kind = req[r].kind, !.ans = a]
    BY <1>3 DEF Answered
  <2>2. Answered(req[r], a).ans = a /\ Answered(req[r], a).kind = req[r].kind
    BY <2>1 DEF Free
  <2> QED BY <2>2 DEF Bearer
<1> QED BY <1>2, <1>3

LEMMA AnswerTokens ==
  ASSUME IInv, TokenInv, NEW r \in Request, NEW a, Answer(r, a),
         a # "ok" \/ req[r].kind # "login", UNCHANGED <<user, token>>
  PROVE  TokenInv'
BY AnsweredBearsNot, OthersKeep DEF Answer

LEMMA GotoTokens ==
  ASSUME IInv, TokenInv, NEW r \in Request, NEW l, Goto(r, l),
         l \notin {"writing", "told"}, UNCHANGED <<user, token>>
  PROVE  TokenInv'
<1>1. /\ req' = [req EXCEPT ![r] = [req[r] EXCEPT !.pc = l]]
      /\ [req[r] EXCEPT !.pc = l].pc = l
  BY DEF IInv, TypeOK, ReqType, Goto
<1> QED BY <1>1, OthersKeep DEF Bearer

LEMMA FreeTokens ==
  ASSUME IInv, TokenInv, NEW r \in Request, req' = [req EXCEPT ![r] = Free],
         UNCHANGED <<user, token>>
  PROVE  TokenInv'
BY OthersKeep DEF Free, Bearer

(* The new token is nowhere else, and takes the place of nobody's but the  *)
(* last one of that user.                                                  *)
LEMMA NewTokens ==
  ASSUME IInv, TokenInv, NEW r \in Request, req[r].pc = "status", NEW a \in {"ok", "failed"},
         Answer(r, a), NewToken(r), UNCHANGED user
  PROVE  TokenInv'
<1>1. req[r] \in ReqType /\ req[r].kind = "login"
  BY DEF IInv, TypeOK, ReqInv, LoginInv
<1>2. req' = [req EXCEPT ![r] = Answered(req[r], a)] /\ req'[r] = Answered(req[r], a)
  BY DEF IInv, TypeOK, Answer
<1>3. req'[r].uid = req[r].uid
  <2>1. Answered(req[r], a) = [req[r] EXCEPT !.pc = "writing", !.ans = a, !.pwd = None, !.code = None]
    BY <1>1 DEF Answered
  <2> QED BY <1>1, <1>2, <2>1 DEF ReqType
<1> SUFFICES ASSUME NEW s \in Request, Bearer(req'[s]),
                    NEW u \in DOMAIN token', token'[u] = s
             PROVE  u = req'[s].uid
  BY DEF TokenInv, OnlyToken
<1>4. /\ u \in DOMAIN token
      /\ s = IF u = req[r].uid THEN r ELSE IF token[u] = r THEN None ELSE token[u]
  BY DEF NewToken
<1>5. s # None
  BY AccountsAssumption
<1>6. CASE s = r
  BY <1>3, <1>4, <1>5, <1>6
<1>7. CASE s # r
  <2>1. token[u] = s /\ req'[s] = req[s]
    BY <1>2, <1>4, <1>5, <1>7 DEF IInv, TypeOK
  <2> QED BY <1>4, <2>1 DEF TokenInv, OnlyToken
<1> QED BY <1>6, <1>7

(* The connection.                                                         *)
LEMMA HttpTokens ==
  ASSUME IInv, TokenInv, NEW r \in Request, Http(r)
  PROVE  TokenInv'
<1>0. UNCHANGED <<user, token>> /\ req[r] \in ReqType /\ req \in [Request -> ReqType]
  BY DEF Http, Accept, ReadFailed, Dispatch, Reject, Written, WriteFailed, Deadline, IInv, TypeOK
<1>1. CASE Accept(r)
  BY <1>0, <1>1, GotoTokens DEF Accept
<1>2. CASE ReadFailed(r) \/ WriteFailed(r) \/ Deadline(r)
  BY <1>0, <1>2, FreeTokens DEF ReadFailed, WriteFailed, Deadline
<1>3. CASE Dispatch(r)
  <2>1. PICK p \in Posts[r], c \in Entered \cup {None}, b \in BOOLEAN :
          req' = [req EXCEPT ![r] =
            [Free EXCEPT !.pc = Handler(p.kind), !.kind = p.kind, !.mail = p.mail,
                         !.name = p.name, !.pwd = p.pwd, !.code = c, !.held = b]]
    BY <1>3 DEF Dispatch
  <2> DEFINE q == [Free EXCEPT !.pc = Handler(p.kind), !.kind = p.kind, !.mail = p.mail,
                         !.name = p.name, !.pwd = p.pwd, !.code = c, !.held = b]
  <2>2. q.ans = None
    BY DEF Free
  <2> HIDE DEF q
  <2>3. ~Bearer(q)
    BY <2>2, AccountsAssumption DEF Bearer
  <2>4. req' = [req EXCEPT ![r] = q]
    BY <2>1 DEF q
  <2> QED BY <1>0, <2>3, <2>4, OthersKeep
<1>4. CASE Reject(r)
  BY <1>0, <1>4, AnswerTokens DEF Reject
<1>5. CASE Written(r)
  <2>1. CASE req[r].kind = "login" /\ req[r].ans = "ok"
    <3> DEFINE q == [req[r] EXCEPT !.pc = "told"]
    <3>1. req' = [req EXCEPT ![r] = q] /\ q.uid = req[r].uid
      BY <1>0, <1>5, <2>1 DEF Written, Goto, ReqType
    <3>2. Bearer(req[r])
      BY <1>5, <2>1 DEF Written, Bearer
    <3> HIDE DEF q
    <3> QED BY <1>0, <3>1, <3>2, OthersKeep
  <2>2. CASE ~(req[r].kind = "login" /\ req[r].ans = "ok")
    BY <1>0, <1>5, <2>2, FreeTokens DEF Written
  <2> QED BY <2>1, <2>2
<1> QED BY <1>1, <1>2, <1>3, <1>4, <1>5 DEF Http

(* get_varifycode, and the code of a registration or a reset.              *)
LEMMA CodeTokens ==
  ASSUME IInv, TokenInv, NEW r \in Request, Varify(r) \/ CheckCode(r)
  PROVE  TokenInv'
<1>0. /\ UNCHANGED <<user, token>> /\ req[r] \in ReqType /\ req \in [Request -> ReqType]
      /\ ReqInv(req[r])
  BY DEF Varify, GetCode, SetCode, SendMail, VarifyFails, CheckCode, IInv, TypeOK
<1>1. ASSUME NEW l \in {"fresh", "tomail"}, NEW c,
             req' = [req EXCEPT ![r].pc = l, ![r].code = c]
      PROVE  TokenInv'
  <2> DEFINE q == [req[r] EXCEPT !.pc = l, !.code = c]
  <2>1. req' = [req EXCEPT ![r] = q] /\ q.pc = l
    BY <1>0, <1>1 DEF ReqType
  <2> HIDE DEF q
  <2> QED BY <1>0, <2>1, OthersKeep DEF Bearer
<1>2. CASE GetCode(r)
  BY <1>1, <1>2 DEF GetCode
<1>3. CASE SetCode(r)
  BY <1>1, <1>3 DEF SetCode
<1>4. CASE SendMail(r)
  <2>1. req[r].kind = "code"
    BY <1>0, <1>4 DEF SendMail, ReqInv, VarifyInv
  <2> QED BY <1>0, <1>4, <2>1, AnswerTokens DEF SendMail
<1>5. CASE VarifyFails(r)
  BY <1>0, <1>5, AnswerTokens DEF VarifyFails
<1>6. CASE CheckCode(r)
  <2>1. \/ Goto(r, "regcheck") \/ Goto(r, "checkmail")
        \/ Answer(r, "VarifyExpired") \/ Answer(r, "VarifyCodeErr")
    BY <1>6 DEF CheckCode
  <2> QED BY <1>0, <2>1, GotoTokens, AnswerTokens
<1> QED BY <1>2, <1>3, <1>4, <1>5, <1>6 DEF Varify

(* Whoever registers or resets bears no token; a new row has none.         *)
LEMMA NotedTokens ==
  ASSUME IInv, TokenInv, NEW r \in Request, NEW a \in Answers, req[r].kind \in {"register", "reset"},
         req' = Noting(user', [req EXCEPT ![r] = Answered(req[r], a)]),
         token' = Append(token, None) \/ UNCHANGED token
  PROVE  TokenInv'
<1>1. req'[r] = Answered(req[r], a) /\ \A s \in Request \ {r} : Waits(s)
  BY NotingGives DEF IInv
<1>2. ~Bearer(req'[r])
  BY <1>1, AnsweredBearsNot
<1>3. ASSUME NEW u \in DOMAIN token', token'[u] # None
      PROVE  u \in DOMAIN token /\ token'[u] = token[u]
  <2>1. token \in Seq(Request \cup {None})
    BY DEF IInv, TypeOK, TablesOK
  <2> QED BY <1>3, <2>1
<1> QED BY <1>1, <1>2, <1>3, BearersKeep

LEMMA TableTokens ==
  ASSUME IInv, TokenInv, NEW r \in Request, RegUser(r) \/ Reset(r)
  PROVE  TokenInv'
<1>0. req \in [Request -> ReqType] /\ ReqInv(req[r])
  BY DEF IInv, TypeOK
<1>1. CASE CheckExists(r) \/ CheckEmail(r)
  <2>1. /\ UNCHANGED <<user, token>>
        /\ \/ Goto(r, "number") \/ Goto(r, "update")
           \/ Answer(r, "UserExist") \/ Answer(r, "EmailNotMatch")
    BY <1>1 DEF CheckExists, CheckEmail
  <2> QED BY <2>1, GotoTokens, AnswerTokens
<1>2. CASE UpdateId(r)
  <2> DEFINE q == [req[r] EXCEPT !.pc = "insert", !.uid = user_id + 1]
  <2>1. req' = [req EXCEPT ![r] = q] /\ q.pc = "insert" /\ UNCHANGED <<user, token>>
    BY <1>0, <1>2 DEF UpdateId, Number, ReqType
  <2> HIDE DEF q
  <2> QED BY <2>1, OthersKeep DEF Bearer
<1>3. CASE Insert(r) \/ RegUserFails(r)
  <2>1. UNCHANGED <<user, token>> /\ (Goto(r, "commit") \/ Answer(r, "UserExist"))
    BY <1>3 DEF Insert, Rollback, RegUserFails
  <2> QED BY <2>1, GotoTokens, AnswerTokens
<1>4. CASE Commit(r) \/ CommitReplyLost(r)
  <2>1. req[r].pc = "commit" /\ token' = Append(token, None)
    BY <1>4 DEF Commit, CommitReplyLost, Store
  <2>2. req[r].kind = "register"
    BY <1>0, <2>1 DEF ReqInv, CodeInv, RegPC
  <2>3. \/ req' = Noting(user', [req EXCEPT ![r] = Answered(req[r], "ok")])
        \/ req' = Noting(user', [req EXCEPT ![r] = Answered(req[r], "UserExist")])
    BY <1>0, <1>4 DEF Commit, CommitReplyLost
  <2> QED BY <2>1, <2>2, <2>3, NotedTokens DEF Answers
<1>5. CASE UpdatePwd(r) \/ ResetFails(r)
  <2>1. req[r].pc \in {"checkmail", "update"} /\ UNCHANGED token
    BY <1>5 DEF UpdatePwd, ResetFails
  <2>2. req[r].kind = "reset"
    BY <1>0, <2>1 DEF ReqInv, CodeInv, ResetPC
  <2>3. \/ req' = Noting(user', [req EXCEPT ![r] = Answered(req[r], "ok")])
        \/ req' = Noting(user', [req EXCEPT ![r] = Answered(req[r], "failed")])
        \/ UNCHANGED user /\ Answer(r, "failed")
    BY <1>0, <1>5 DEF UpdatePwd, ResetFails
  <2> QED BY <2>1, <2>2, <2>3, NotedTokens, AnswerTokens DEF Answers
<1> QED BY <1>1, <1>2, <1>3, <1>4, <1>5 DEF RegUser, Reset

(* user_login and LoginHandler.                                            *)
LEMMA LoginTokens ==
  ASSUME IInv, TokenInv, NEW r \in Request, Login(r)
  PROVE  TokenInv'
<1>0. req \in [Request -> ReqType] /\ req[r] \in ReqType
  BY DEF IInv, TypeOK
<1>1. CASE CheckPwd(r)
  <2>1. UNCHANGED <<user, token>>
    BY <1>1 DEF CheckPwd
  <2>2. ASSUME NEW i \in DOMAIN user,
               req' = [req EXCEPT ![r].pc = "status", ![r].uid = user[i].uid]
        PROVE  TokenInv'
    <3> DEFINE q == [req[r] EXCEPT !.pc = "status", !.uid = user[i].uid]
    <3>1. req' = [req EXCEPT ![r] = q] /\ q.pc = "status"
      BY <1>0, <2>2 DEF ReqType
    <3> HIDE DEF q
    <3> QED BY <2>1, <3>1, OthersKeep DEF Bearer
  <2>3. CASE Answer(r, "PasswdInvalid")
    BY <2>1, <2>3, AnswerTokens
  <2> QED BY <1>1, <2>2, <2>3 DEF CheckPwd
<1>2. CASE GetChatServer(r)
  BY <1>2, NewTokens DEF GetChatServer
<1>3. CASE LoginFails(r)
  <2>1. CASE UNCHANGED token
    BY <1>3, <2>1, AnswerTokens DEF LoginFails
  <2>2. CASE req[r].pc = "status" /\ NewToken(r)
    BY <1>3, <2>2, NewTokens DEF LoginFails
  <2> QED BY <1>3, <2>1, <2>2 DEF LoginFails
<1>4. CASE ChatLogin(r)
  <2>1. UNCHANGED <<user, token>>
    BY <1>4 DEF ChatLogin
  <2>2. PICK uid \in DOMAIN user :
          \/ req' = [req EXCEPT ![r] = [req[r] EXCEPT !.pc = "getinfo", !.uid = uid]]
          \/ req' = [req EXCEPT ![r] = Free]
    BY <1>4 DEF ChatLogin
  <2> DEFINE q == [req[r] EXCEPT !.pc = "getinfo", !.uid = uid]
  <2>3. q.pc = "getinfo"
    BY <1>0 DEF ReqType
  <2>4. CASE req' = [req EXCEPT ![r] = q]
    <3> HIDE DEF q
    <3> QED BY <2>1, <2>3, <2>4, OthersKeep DEF Bearer
  <2> QED BY <2>1, <2>2, <2>4, FreeTokens
<1>5. CASE Logout(r)
  BY <1>5, FreeTokens DEF Logout
<1> QED BY <1>1, <1>2, <1>3, <1>4, <1>5 DEF Login

(* Nobody who reads a user bears a token: it has been used, or there was   *)
(* none.                                                                   *)
LEMMA InfoTokens ==
  ASSUME IInv, TokenInv, NEW r \in Request, Info(r)
  PROVE  TokenInv'
<1>0. /\ req \in [Request -> ReqType] /\ req[r] \in ReqType /\ UNCHANGED <<user, token>>
      /\ nameinfo \in [Name -> Nat]
  BY DEF IInv, TypeOK, TablesOK, Info, Search, GetNameInfo, GetBaseInfo, GetUser, SetNameInfo,
         SetBaseInfo, InfoFails, SearchSent
<1>1. CASE Search(r)
  <2>1. PICK p \in Posts[r] :
          \/ req' = [req EXCEPT ![r] =
               [Free EXCEPT !.pc = "getinfo", !.kind = "find", !.uid = Spelt[p.name],
                            !.held = Spelt[p.name] \in DOMAIN user]]
          \/ req' = [req EXCEPT ![r] =
               [Free EXCEPT !.pc = "getinfo", !.kind = "find", !.name = p.name,
                            !.held = \E i \in DOMAIN user : user[i].name = p.name]]
    BY <1>1 DEF Search
  <2> DEFINE byUid == [Free EXCEPT !.pc = "getinfo", !.kind = "find", !.uid = Spelt[p.name],
                                   !.held = Spelt[p.name] \in DOMAIN user]
             byName == [Free EXCEPT !.pc = "getinfo", !.kind = "find", !.name = p.name,
                                    !.held = \E i \in DOMAIN user : user[i].name = p.name]
  <2>2. byUid.kind = "find" /\ byName.kind = "find"
    BY DEF Free
  <2>3. req' = [req EXCEPT ![r] = byUid] \/ req' = [req EXCEPT ![r] = byName]
    BY <2>1
  <2> HIDE DEF byUid, byName
  <2> QED BY <1>0, <2>2, <2>3, OthersKeep DEF Bearer
<1>2. ASSUME NEW u \in Nat, req' = [req EXCEPT ![r] = Found(req[r], u)]
      PROVE  TokenInv'
  <2>1. ~Bearer(Found(req[r], u))
    BY <1>0, FoundFields DEF Bearer
  <2> QED BY <1>0, <1>2, <2>1, OthersKeep
<1>3. CASE Goto(r, "selectinfo")
  BY <1>0, <1>3, GotoTokens
<1>4. CASE GetNameInfo(r)
  <2>1. req[r].name \in Name
    BY <1>0, <1>4 DEF GetNameInfo, ByName, ReqType
  <2> QED BY <1>0, <1>2, <1>3, <1>4, <2>1 DEF GetNameInfo
<1>5. CASE GetBaseInfo(r) \/ SetNameInfo(r) \/ SetBaseInfo(r)
  <2>1. req[r].uid \in Nat
    BY <1>0 DEF ReqType
  <2> QED BY <1>0, <1>2, <1>3, <1>5, <2>1 DEF GetBaseInfo, SetNameInfo, SetBaseInfo
<1>6. CASE req[r].pc = "selectinfo" /\ req' = [req EXCEPT ![r] = UidInvalid(req[r])]
  <2>1. UidInvalid(req[r]).pc \in {"idle", "found"}
    BY <1>0 DEF UidInvalid, Free, ReqType
  <2> QED BY <1>0, <1>6, <2>1, OthersKeep DEF Bearer
<1>7. CASE GetUser(r)
  <2>1. ASSUME NEW i \in DOMAIN user,
               req' = [req EXCEPT ![r].pc = "setinfo", ![r].uid = user[i].uid]
        PROVE  TokenInv'
    <3> DEFINE q == [req[r] EXCEPT !.pc = "setinfo", !.uid = user[i].uid]
    <3>1. req' = [req EXCEPT ![r] = q] /\ q.pc = "setinfo"
      BY <1>0, <2>1 DEF ReqType
    <3> HIDE DEF q
    <3> QED BY <1>0, <3>1, OthersKeep DEF Bearer
  <2> QED BY <1>0, <1>6, <1>7, <2>1 DEF GetUser
<1>8. CASE InfoFails(r)
  <2>1. req[r].uid \in Nat
    BY <1>0 DEF ReqType
  <2> QED BY <1>0, <1>2, <1>3, <1>6, <1>8, <2>1 DEF InfoFails
<1>9. CASE SearchSent(r)
  BY <1>0, <1>9, FreeTokens DEF SearchSent
<1> QED BY <1>1, <1>4, <1>5, <1>7, <1>8, <1>9 DEF Info

-----------------------------------------------------------------------------
(* The invariant is inductive.                                             *)
LEMMA NextKeeps == AllInv /\ [Next]_vars => AllInv'
<1> SUFFICES ASSUME IInv, TokenInv, [Next]_vars PROVE IInv' /\ TokenInv'
  BY DEF AllInv
<1>1. ASSUME NEW r \in Request,
             Http(r) \/ Varify(r) \/ CheckCode(r) \/ RegUser(r) \/ Reset(r) \/ Login(r) \/ Info(r)
      PROVE  IInv'
  BY <1>1, HttpKeeps, VarifyKeeps, CheckCodeKeeps, RegUserKeeps, ResetKeeps, LoginKeeps, InfoKeeps
<1>2. ASSUME NEW r \in Request,
             Http(r) \/ Varify(r) \/ CheckCode(r) \/ RegUser(r) \/ Reset(r) \/ Login(r) \/ Info(r)
      PROVE  TokenInv'
  BY <1>2, HttpTokens, CodeTokens, TableTokens, LoginTokens, InfoTokens
<1>3. ASSUME NEW m \in Mail, Expire(m)
      PROVE  IInv' /\ TokenInv'
  <2>1. UNCHANGED <<req, token>>
    BY <1>3 DEF Expire
  <2> QED BY <1>3, <2>1, ExpireKeeps DEF TokenInv, OnlyToken
<1>4. CASE UNCHANGED vars
  BY <1>4, StutterKeeps DEF TokenInv, OnlyToken, vars
<1> QED BY <1>1, <1>2, <1>3, <1>4 DEF Next

(* The invariant holds.                                                    *)
LEMMA AllInvHolds == Spec => []AllInv
<1>1. Init => AllInv
  BY InitIInv DEF AllInv, TokenInv, OnlyToken, Init
<1> QED BY <1>1, NextKeeps, PTL DEF Spec

LEMMA IInvHolds == Spec => []IInv
<1>1. AllInv => IInv
  BY DEF AllInv
<1> QED BY <1>1, AllInvHolds, PTL

(* The tables, Redis and the requests keep their types (the rows of user,  *)
(* the numbers of user_id, the codes in Redis).                            *)
THEOREM TypeCorrect == Spec => []TypeOK
<1>1. IInv => TypeOK
  BY DEF IInv
<1> QED BY <1>1, IInvHolds, PTL

(* The uids of table user are 1, 2, 3 and so on without a gap, user_id is  *)
(* the last of them, and no address is registered twice, whatever          *)
(* registrations run beside one another and wherever one of them fails.    *)
THEOREM RowsAreUnique == Spec => []TableInv
<1>1. IInv => TableInv
  BY DEF IInv
<1> QED BY <1>1, IInvHolds, PTL

(* What user_register and SearchInfo answer is so: an accepted user has    *)
(* the row the answer names, a refused name or address is taken, the user  *)
(* found is the one searched for and nobody is missed, unless something    *)
(* failed.                                                                 *)
THEOREM AnswerTrueHolds == Spec => []AnswerTrue
<1>1. IInv => AnswerTrue
  <2> SUFFICES ASSUME IInv, NEW r \in Request
               PROVE  /\ req[r].kind = "register" => RegisterTrue(req[r])
                      /\ req[r].kind = "find" => SearchTrue(req[r])
    BY DEF AnswerTrue
  <2>1. ReqInv(req[r]) /\ TableInv
    BY DEF IInv
  <2>2. req[r].kind = "register" => RegisterTrue(req[r])
    BY <2>1 DEF ReqInv, RegisterInv
  <2>3. ASSUME req[r].kind = "find", req[r].ans = "ok"
        PROVE  \E i \in DOMAIN user :
                 user[i].uid = req[r].uid /\ req[r].name \in {None, user[i].name}
    BY <2>1, <2>3 DEF ReqInv, FindInv, FoundRow, TableInv
  <2>4. req[r].kind = "find" => SearchTrue(req[r])
    BY <2>1, <2>3 DEF ReqInv, FindInv, SearchTrue
  <2> QED BY <2>2, <2>4
<1> QED BY <1>1, IInvHolds, PTL

(* Whoever is admitted by a chat server as a user, or told a token, gave   *)
(* the address of that user's row and the password the row had at some     *)
(* moment since the request came, whatever uid he presents with his token  *)
(* and whatever tokens have been overwritten or left behind.               *)
THEOREM LoginByPasswordHolds == Spec => []LoginByPassword
<1>1. IInv => LoginByPassword
  BY DEF IInv, LoginByPassword, ReqInv, LoginInv, Admitted
<1> QED BY <1>1, IInvHolds, PTL

(* The two ways in which the rows change.                                  *)
CodeGiven(i) ==
  \E r \in Request :
    /\ req[r].pc \in {"commit", "update"} /\ req'[r].pc = "writing"
    /\ req[r].mail = user'[i].mail
    /\ req[r].code \in mailed[user'[i].mail]

(* A registration or reset that is answered writes.                        *)
LEMMA AnsweredIsWriting ==
  ASSUME TypeOK, NEW r \in Request, NEW a \in Answers, req[r].kind \in {"register", "reset"},
         req' = Noting(user', [req EXCEPT ![r] = Answered(req[r], a)])
  PROVE  req'[r].pc = "writing"
<1>1. req'[r] = Answered(req[r], a)
  BY NotingGives
<1>2. req[r] \in ReqType
  BY DEF TypeOK
<1>3. CASE req[r].kind = "register"
  <2>1. req'[r] = [req[r] EXCEPT !.pc = "writing", !.ans = a, !.pwd = None, !.code = None]
    BY <1>1, <1>3 DEF Answered
  <2> QED BY <1>2, <2>1 DEF ReqType
<1>4. CASE req[r].kind = "reset"
  <2>1. req'[r] = [Free EXCEPT !.pc = "writing", !.kind = req[r].kind, !.ans = a]
    BY <1>1, <1>4 DEF Answered
  <2> QED BY <2>1 DEF Free
<1> QED BY <1>3, <1>4

(* The row a COMMIT adds is that of a code mailed to its address.          *)
LEMMA StoreNeedsCode ==
  ASSUME IInv, NEW r \in Request, req[r].pc = "commit", Store(r), NEW a \in {"ok", "UserExist"},
         req' = Noting(user', [req EXCEPT ![r] = Answered(req[r], a)]),
         NEW i \in DOMAIN user', i \notin DOMAIN user \/ user'[i].pwd # user[i].pwd
  PROVE  CodeGiven(i)
<1>1. Registering(r)
  BY RegisteringIs DEF RegPC
<1>2. req'[r].pc = "writing"
  BY <1>1, AnsweredIsWriting DEF Registering, Answers, IInv
<1>3. user'[i].mail = req[r].mail
  <2>1. user' = Append(user, Row(r)) /\ user \in Seq([uid : Nat, name : Name, mail : Mail, pwd : Pwd])
    BY DEF Store, IInv, TypeOK, TablesOK
  <2>2. i = Len(user) + 1 /\ user'[i] = Row(r)
    BY <2>1
  <2> QED BY <2>2 DEF Row
<1> QED BY <1>1, <1>2, <1>3 DEF CodeGiven, Registering

(* The password an UPDATE changes, of a name held once, is that of the     *)
(* address whose code was given.                                           *)
LEMMA SetPwdNeedsCode ==
  ASSUME IInv, NEW r \in Request, req[r].pc = "update", SetPwd(r), NEW a \in {"ok", "failed"},
         req' = Noting(user', [req EXCEPT ![r] = Answered(req[r], a)]),
         NEW i \in DOMAIN user', i \notin DOMAIN user \/ user'[i].pwd # user[i].pwd,
         NameOfOne(user', i)
  PROVE  CodeGiven(i)
<1>1. /\ req[r].kind = "reset" /\ req[r].code \in mailed[req[r].mail] /\ TypeOK
      /\ \E k \in DOMAIN user : user[k].name = req[r].name /\ user[k].mail = req[r].mail
  BY DEF IInv, ReqInv, CodeInv, ResetPC
<1>2. req'[r].pc = "writing"
  BY <1>1, AnsweredIsWriting DEF Answers
<1>3. /\ DOMAIN user' = DOMAIN user
      /\ \A k \in DOMAIN user : user'[k] =
           IF user[k].name = req[r].name THEN [user[k] EXCEPT !.pwd = req[r].pwd] ELSE user[k]
  BY DEF SetPwd
<1>4. \A k \in DOMAIN user : user[k] \in [uid : Nat, name : Name, mail : Mail, pwd : Pwd]
  <2> DEFINE T == [uid : Nat, name : Name, mail : Mail, pwd : Pwd]
  <2>1. user \in Seq(T)
    BY <1>1 DEF TypeOK, TablesOK
  <2> HIDE DEF T
  <2>2. \A k \in DOMAIN user : user[k] \in T
    BY <2>1
  <2> QED BY <2>2 DEF T
<1>5. \A k \in DOMAIN user : user'[k].name = user[k].name /\ user'[k].mail = user[k].mail
  BY <1>3, <1>4
<1>6. i \in DOMAIN user /\ user[i].name = req[r].name
  BY <1>3
<1>7. PICK k \in DOMAIN user : user[k].name = req[r].name /\ user[k].mail = req[r].mail
  BY <1>1
<1>8. k = i
  BY <1>3, <1>5, <1>6, <1>7 DEF NameOfOne
<1>9. user'[i].mail = req[r].mail
  BY <1>5, <1>6, <1>7, <1>8
<1> QED BY <1>1, <1>2, <1>9 DEF CodeGiven

(* A row appears, or its password changes, only by a request whose code    *)
(* was mailed to the address of that row (for a name that one row has).    *)
THEOREM OnlyWithMailedCodeHolds == Spec => OnlyWithMailedCode
<1> DEFINE A == \A i \in DOMAIN user' :
                  (i \notin DOMAIN user \/ user'[i].pwd # user[i].pwd) /\ NameOfOne(user', i) =>
                    CodeGiven(i)
<1>1. IInv /\ [Next]_vars => [A]_vars
  <2> SUFFICES ASSUME IInv, Next, user' # user PROVE A
    BY DEF vars
  <2> SUFFICES ASSUME NEW i \in DOMAIN user', i \notin DOMAIN user \/ user'[i].pwd # user[i].pwd,
                      NameOfOne(user', i)
               PROVE  CodeGiven(i)
    OBVIOUS
  <2>0. req \in [Request -> ReqType]
    BY DEF IInv, TypeOK
  <2>1. ASSUME NEW m \in Mail PROVE ~Expire(m)
    BY DEF Expire
  <2>2. ASSUME NEW r \in Request
        PROVE  ~(Http(r) \/ Varify(r) \/ CheckCode(r) \/ Login(r))
    BY DEF Http, Accept, ReadFailed, Dispatch, Reject, Written, WriteFailed, Deadline,
           Varify, GetCode, SetCode, SendMail, VarifyFails, CheckCode,
           Login, CheckPwd, GetChatServer, LoginFails, ChatLogin, Logout
  <2>3. ASSUME NEW r \in Request
        PROVE  ~Info(r)
    BY DEF Info, Search, GetNameInfo, GetBaseInfo, GetUser, SetNameInfo, SetBaseInfo, InfoFails, SearchSent
  <2>4. PICK r \in Request : RegUser(r) \/ Reset(r)
    BY <2>1, <2>2, <2>3 DEF Next
  <2>5. CASE RegUser(r)
    <3>1. Commit(r) \/ CommitReplyLost(r)
      BY <2>5 DEF RegUser, CheckExists, UpdateId, Insert, RegUserFails
    <3>2. CASE Commit(r)
      <4>1. req' = Noting(user', [req EXCEPT ![r] = Answered(req[r], "ok")])
        BY <2>0, <3>2 DEF Commit
      <4> QED BY <3>2, <4>1, StoreNeedsCode DEF Commit
    <3>3. CASE CommitReplyLost(r)
      <4>1. req' = Noting(user', [req EXCEPT ![r] = Answered(req[r], "UserExist")])
        BY <2>0, <3>3 DEF CommitReplyLost
      <4> QED BY <3>3, <4>1, StoreNeedsCode DEF CommitReplyLost
    <3> QED BY <3>1, <3>2, <3>3
  <2>6. CASE Reset(r)
    <3>1. UpdatePwd(r) \/ ResetFails(r)
      BY <2>6 DEF Reset, CheckEmail
    <3>2. CASE UpdatePwd(r)
      <4>1. req' = Noting(user', [req EXCEPT ![r] = Answered(req[r], "ok")])
        BY <2>0, <3>2 DEF UpdatePwd
      <4> QED BY <3>2, <4>1, SetPwdNeedsCode DEF UpdatePwd
    <3>3. CASE ResetFails(r)
      <4>1. /\ req[r].pc = "update" /\ SetPwd(r)
            /\ req' = Noting(user', [req EXCEPT ![r] = Answered(req[r], "failed")])
        BY <2>0, <3>3 DEF ResetFails
      <4> QED BY <4>1, SetPwdNeedsCode
    <3> QED BY <3>1, <3>2, <3>3
  <2> QED BY <2>4, <2>5, <2>6
<1>2. Spec => [][A]_vars
  BY <1>1, IInvHolds, PTL DEF Spec
<1> QED BY <1>2 DEF OnlyWithMailedCode, CodeGiven
=============================================================================
