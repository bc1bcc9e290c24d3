------------------------------ MODULE MysqlPool -----------------------------
(***************************************************************************)
(* The MySQL connections of one server (Common/mysql.cc) and the two ways  *)
(* in which MysqlDao uses them: a single prepared statement, or a          *)
(* transaction of two statements.                                          *)
(*                                                                         *)
(* get() hands out a pooled connection untested when it was handed out     *)
(* less than 5 seconds ago and its last BEGIN, COMMIT, ROLLBACK or other   *)
(* direct statement worked; otherwise it is pinged and, if that fails,     *)
(* connected anew.  Prepared statements leave m_hasError alone.  A         *)
(* connection that breaks loses its transaction at the server.             *)
(***************************************************************************)
EXTENDS Naturals, Sequences

CONSTANTS
  Thread,    \* threads that call MysqlDao
  Conn,      \* connections
  MaxConn,   \* m_maxConn
  Nil

ASSUME MysqlPoolAssumption ==
  /\ Nil \notin Conn
  /\ MaxConn \in Nat \ {0}

VARIABLES
  pool,      \* m_conns
  held,      \* the connection a thread has from get()
  conn,      \* the connections: state, err (m_hasError), recent, tx, work
  pc,        \* what a thread is doing
  result,    \* what its last transaction returned
  stored     \* the statements of its last transaction that are committed

mysqlVars == <<pool, held, conn, pc, result, stored>>

Statements == {1, 2}

(* A connection is closed, open or dead; tx says whether the server has a  *)
(* transaction open on it, and work which statements that has done.        *)
Closed == [state |-> "closed", err |-> FALSE, recent |-> FALSE, tx |-> FALSE, work |-> {}]
Opened == [Closed EXCEPT !.state = "open", !.recent = TRUE]

MysqlTypeOK ==
  /\ pool \in Seq(Conn)
  /\ held \in [Thread -> Conn \cup {Nil}]
  /\ conn \in [Conn -> [state : {"closed", "open", "dead"}, err : BOOLEAN, recent : BOOLEAN,
                        tx : BOOLEAN, work : SUBSET Statements]]
  /\ pc \in [Thread -> {"idle", "query", "create", "begin", "first", "second", "commit",
                        "rollback", "free"}]
  /\ result \in [Thread -> {"none", "ok", "failed"}]
  /\ stored \in [Thread -> SUBSET Statements]

MysqlInit ==
  /\ pool = <<>>
  /\ held = [t \in Thread |-> Nil]
  /\ conn = [c \in Conn |-> Closed]
  /\ pc = [t \in Thread |-> "idle"]
  /\ result = [t \in Thread |-> "none"]
  /\ stored = [t \in Thread |-> {}]

ThreadGoto(t, label) == pc' = [pc EXCEPT ![t] = label]
MyConn(t) == conn[held[t]]
Alive(t) == held[t] # Nil /\ MyConn(t).state = "open"
Set(t, c) == conn' = [conn EXCEPT ![held[t]] = c]

-----------------------------------------------------------------------------
(* MySQLPool::get.                                                         *)
HandOut(t, c, as) ==
  /\ held' = [held EXCEPT ![t] = c]
  /\ conn' = [conn EXCEPT ![c] = as]

(* isNeedCheck is false.                                                   *)
Untested(c) == conn[c].recent /\ ~conn[c].err

GetUntested(t) ==
  /\ pool # <<>> /\ Untested(Head(pool))
  /\ HandOut(t, Head(pool), conn[Head(pool)])
  /\ pool' = Tail(pool)

GetPinged(t) ==
  LET c == Head(pool) IN
  /\ pool # <<>> /\ ~Untested(c)
  /\ conn[c].state = "open"
  /\ HandOut(t, c, [conn[c] EXCEPT !.err = FALSE, !.recent = TRUE])
  /\ pool' = Tail(pool)

Connect(c) == Opened

GetConnected(t) ==
  LET c == Head(pool) IN
  /\ pool # <<>> /\ ~Untested(c)
  /\ conn[c].state = "dead"
  /\ HandOut(t, c, Connect(c))
  /\ pool' = Tail(pool)

GetNew(t) ==
  /\ pool = <<>>
  /\ \E c \in Conn : conn[c].state = "closed" /\ HandOut(t, c, Opened)
  /\ UNCHANGED pool

Get(t) == GetUntested(t) \/ GetPinged(t) \/ GetConnected(t) \/ GetNew(t)

Begin(t) ==
  /\ pc[t] = "idle"
  /\ Get(t)
  /\ ThreadGoto(t, "query") \/ ThreadGoto(t, "create")
  /\ result' = [result EXCEPT ![t] = "none"]
  /\ stored' = [stored EXCEPT ![t] = {}]

(* No connection can be made: get returns nothing, and an old connection   *)
(* is neither pooled nor deleted.                                          *)
GetFails(t) ==
  /\ pc[t] = "idle"
  /\ \/ pool = <<>> /\ UNCHANGED <<pool, conn>>
     \/ /\ pool # <<>> /\ ~Untested(Head(pool)) /\ conn[Head(pool)].state = "dead"
        /\ conn' = [conn EXCEPT ![Head(pool)] = Closed]
        /\ pool' = Tail(pool)
  /\ result' = [result EXCEPT ![t] = "failed"]
  /\ stored' = [stored EXCEPT ![t] = {}]
  /\ UNCHANGED <<held, pc>>

(* freeMySQL, when the last reference to the connection goes.              *)
FreeMySQL(t) ==
  /\ pc[t] = "free"
  /\ IF Len(pool) < MaxConn
     THEN pool' = Append(pool, held[t]) /\ UNCHANGED conn
     ELSE UNCHANGED pool /\ Set(t, Closed)
  /\ held' = [held EXCEPT ![t] = Nil]
  /\ ThreadGoto(t, "idle")
  /\ UNCHANGED <<result, stored>>

-----------------------------------------------------------------------------
(* queryStmt or execStmt outside a transaction: one statement, committed   *)
(* at once.  Whether it fails is not noted in the connection, so a dead    *)
(* one goes back to the pool as it came.                                   *)
Query(t) ==
  /\ pc[t] = "query"
  /\ ThreadGoto(t, "free")
  /\ UNCHANGED <<pool, held, conn, result, stored>>

(* BEGIN ends a transaction that is open, and opens one.                   *)
BeginTx(t) ==
  /\ Alive(t)
  /\ stored' = [stored EXCEPT ![t] = @ \cup MyConn(t).work]
  /\ Set(t, [MyConn(t) EXCEPT !.tx = TRUE, !.work = {}, !.err = FALSE])

(* openTransaction begins, and RegUser and AddFriend begin again.          *)
Create(t) ==
  /\ pc[t] = "create"
  /\ BeginTx(t)
  /\ ThreadGoto(t, "begin")
  /\ UNCHANGED <<pool, held, result>>

BeginAgain(t) ==
  /\ pc[t] = "begin"
  /\ BeginTx(t)
  /\ ThreadGoto(t, "first")
  /\ UNCHANGED <<pool, held, result>>

(* openTransaction fails and returns nothing, and the caller uses what it  *)
(* returned: the process dies, its connections close, and it starts anew.  *)
CreateFails(t) ==
  /\ pc[t] = "create"
  /\ ~Alive(t)
  /\ pool' = <<>>
  /\ held' = [u \in Thread |-> Nil]
  /\ conn' = [c \in Conn |-> Closed]
  /\ pc' = [u \in Thread |-> "idle"]
  /\ result' = [u \in Thread |-> "none"]
  /\ stored' = [u \in Thread |-> {}]

(* Variant: a dead connection is connected anew for the statement.         *)
RunReconnecting(t, s) ==
  IF Alive(t) /\ MyConn(t).tx
  THEN Set(t, [MyConn(t) EXCEPT !.work = @ \cup {s}]) /\ UNCHANGED stored
  ELSE Set(t, Opened) /\ stored' = [stored EXCEPT ![t] = @ \cup {s}]

(* A statement joins the open transaction; without one it is committed at  *)
(* once.                                                                   *)
Run(t, s) ==
  /\ Alive(t)
  /\ IF MyConn(t).tx
     THEN Set(t, [MyConn(t) EXCEPT !.work = @ \cup {s}]) /\ UNCHANGED stored
     ELSE stored' = [stored EXCEPT ![t] = @ \cup {s}] /\ UNCHANGED conn

First(t) ==
  /\ pc[t] = "first"
  /\ Run(t, 1)
  /\ ThreadGoto(t, "second")
  /\ UNCHANGED <<pool, held, result>>

Second(t) ==
  /\ pc[t] = "second"
  /\ Run(t, 2)
  /\ ThreadGoto(t, "commit")
  /\ UNCHANGED <<pool, held, result>>

(* A statement fails: the connection is dead, the server refuses the       *)
(* statement, or ends the whole transaction as a deadlock's victim.        *)
StatementFails(t) ==
  /\ pc[t] \in {"begin", "first", "second"}
  /\ \/ ~Alive(t) /\ Set(t, [MyConn(t) EXCEPT !.err = @ \/ pc[t] # "second"])
     \/ Alive(t) /\ pc[t] # "begin" /\ Set(t, [MyConn(t) EXCEPT !.err = @ \/ pc[t] = "first"])
     \/ Alive(t) /\ pc[t] # "begin" /\ Set(t, [MyConn(t) EXCEPT !.tx = FALSE, !.work = {}])
  /\ ThreadGoto(t, "rollback")
  /\ UNCHANGED <<pool, held, result, stored>>

CommitTx(t) ==
  /\ pc[t] = "commit"
  /\ Alive(t)
  /\ stored' = [stored EXCEPT ![t] = @ \cup MyConn(t).work]
  /\ Set(t, [MyConn(t) EXCEPT !.tx = FALSE, !.work = {}, !.err = FALSE])
  /\ result' = [result EXCEPT ![t] = "ok"]
  /\ ThreadGoto(t, "free")
  /\ UNCHANGED <<pool, held>>

(* The connection was dead, or died with COMMIT done and its reply lost.   *)
CommitFails(t) ==
  /\ pc[t] = "commit"
  /\ stored' = [stored EXCEPT ![t] = @ \cup MyConn(t).work]
  /\ Set(t, [MyConn(t) EXCEPT !.state = "dead", !.tx = FALSE, !.work = {}, !.err = TRUE])
  /\ ThreadGoto(t, "rollback")
  /\ UNCHANGED <<pool, held, result>>

(* Variant: the destructor does nothing.                                   *)
LeaveOpen(t) == UNCHANGED conn

(* The destructor of a transaction that is not finished rolls it back.     *)
SendRollback(t) ==
  IF Alive(t)
  THEN Set(t, [MyConn(t) EXCEPT !.tx = FALSE, !.work = {}, !.err = FALSE])
  ELSE Set(t, [MyConn(t) EXCEPT !.err = TRUE])

RollbackTx(t) ==
  /\ pc[t] = "rollback"
  /\ SendRollback(t)
  /\ result' = [result EXCEPT ![t] = "failed"]
  /\ ThreadGoto(t, "free")
  /\ UNCHANGED <<pool, held, stored>>

-----------------------------------------------------------------------------
(* The connection breaks, and what the server had open on it is undone; or *)
(* five seconds pass since it was handed out.                              *)
Break(c) ==
  /\ conn[c].state = "open"
  /\ conn' = [conn EXCEPT ![c].state = "dead", ![c].tx = FALSE, ![c].work = {}]
  /\ UNCHANGED <<pool, held, pc, result, stored>>

Age(c) ==
  /\ conn[c].recent
  /\ conn' = [conn EXCEPT ![c].recent = FALSE]
  /\ UNCHANGED <<pool, held, pc, result, stored>>

Call(t) ==
  \/ Begin(t) \/ GetFails(t) \/ Query(t) \/ FreeMySQL(t)
  \/ Create(t) \/ CreateFails(t) \/ BeginAgain(t) \/ First(t) \/ Second(t)
  \/ StatementFails(t) \/ CommitTx(t) \/ CommitFails(t) \/ RollbackTx(t)

MysqlNext ==
  \/ \E t \in Thread : Call(t)
  \/ \E c \in Conn : Break(c) \/ Age(c)

MysqlSpec == MysqlInit /\ [][MysqlNext]_mysqlVars

-----------------------------------------------------------------------------
(* Of a transaction everything is stored or nothing, although the          *)
(* connection may break anywhere in it and its statements would be         *)
(* committed one by one on any other; and a transaction that MysqlDao      *)
(* calls a success is stored.                                              *)
AllOrNothing ==
  \A t \in Thread :
    /\ pc[t] \in {"idle", "free"} => stored[t] \in {{}, Statements}
    /\ result[t] = "ok" => stored[t] = Statements

(* A connection is handed on with no transaction open: the next statement  *)
(* of whoever gets it must not join one.                                   *)
PooledIsClean ==
  \A i \in DOMAIN pool : ~conn[pool[i]].tx /\ conn[pool[i]].work = {}
=============================================================================
