------------------------------ MODULE RedisLock -----------------------------
(***************************************************************************)
(* The lock together with the pool of Redis connections of one process     *)
(* (RedisPool in Common/redis.cc): acquireLock keeps a connection for the  *)
(* whole of its loop, releaseLock takes another, and every other command   *)
(* of RedisMgr takes one for as long as it runs.                           *)
(*                                                                         *)
(* A connection that has failed once (a command that timed out, a server   *)
(* that went away) fails every command until it is opened again: hiredis   *)
(* keeps the error in the context.                                         *)
(*                                                                         *)
(* The callers of other processes act as in module DistLock.               *)
(***************************************************************************)
EXTENDS DistLock, Sequences

CONSTANTS
  Local,    \* the callers of the lock that share the pool
  User,     \* threads that run other commands
  Conn,     \* connections
  MaxConn   \* m_maxConn

ASSUME PoolAssumption ==
  /\ Local \subseteq Proc
  /\ User \cap Proc = {}
  /\ Nil \notin Conn
  /\ MaxConn \in Nat \ {0}

VARIABLES
  pool,    \* m_conns
  held,    \* the connection a thread has from get()
  state,   \* a connection is not open, works, or has failed
  rested   \* getLastActiveTime is more than 30 seconds ago

poolVars == <<pool, held, state, rested>>
allVars == <<vars, poolVars>>

Thread == Local \cup User

PoolTypeOK ==
  /\ pool \in Seq(Conn)
  /\ held \in [Thread -> Conn \cup {Nil}]
  /\ state \in [Conn -> {"closed", "open", "failed"}]
  /\ rested \in [Conn -> BOOLEAN]

PoolInit ==
  /\ Init
  /\ pool = <<>>
  /\ held = [t \in Thread |-> Nil]
  /\ state = [c \in Conn |-> "closed"]
  /\ rested = [c \in Conn |-> FALSE]

-----------------------------------------------------------------------------
(* RedisPool::get and freeRedis.                                           *)

(* The first connection of the pool, pinged and opened again if it has     *)
(* rested.  A ping is all that finds a failure.                            *)
Reuse(t) ==
  LET c == Head(pool) IN
  /\ pool # <<>>
  /\ rested[c] => state[c] = "open"
  /\ pool' = Tail(pool)
  /\ held' = [held EXCEPT ![t] = c]
  /\ rested' = [rested EXCEPT ![c] = FALSE]
  /\ UNCHANGED state

Open(t) ==
  /\ pool = <<>>
  /\ \E c \in Conn :
       /\ state[c] = "closed"
       /\ state' = [state EXCEPT ![c] = "open"]
       /\ held' = [held EXCEPT ![t] = c]
  /\ UNCHANGED <<pool, rested>>

(* The ping or the reopening of a rested connection fails: it is deleted   *)
(* and get returns nothing.                                                *)
Discard ==
  LET c == Head(pool) IN
  /\ pool # <<>>
  /\ rested[c]
  /\ pool' = Tail(pool)
  /\ state' = [state EXCEPT ![c] = "closed"]
  /\ rested' = [rested EXCEPT ![c] = FALSE]
  /\ UNCHANGED held

(* A new connection cannot be made.                                        *)
CannotOpen ==
  /\ pool = <<>>
  /\ UNCHANGED poolVars

Get(t)  == held[t] = Nil /\ (Reuse(t) \/ Open(t))
GetNull(t) == held[t] = Nil /\ (Discard \/ CannotOpen)

(* Variant: the connection goes back to the front.                         *)
FreeFront(t, after) ==
  /\ IF Len(pool) < MaxConn
     THEN pool' = <<held[t]>> \o pool /\ state' = [state EXCEPT ![held[t]] = after]
     ELSE UNCHANGED pool /\ state' = [state EXCEPT ![held[t]] = "closed"]
  /\ held' = [held EXCEPT ![t] = Nil]
  /\ UNCHANGED rested

(* freeRedis: a connection goes back whether it has failed or not, and is  *)
(* deleted when the pool is full.                                          *)
Free(t, after) ==
  /\ IF Len(pool) < MaxConn
     THEN pool' = Append(pool, held[t]) /\ state' = [state EXCEPT ![held[t]] = after]
     ELSE UNCHANGED pool /\ state' = [state EXCEPT ![held[t]] = "closed"]
  /\ held' = [held EXCEPT ![t] = Nil]
  /\ UNCHANGED rested

Works(t) == state[held[t]] = "open"

-----------------------------------------------------------------------------
(* RedisMgr::acquireLock and releaseLock of a local caller.                *)
AcquireBegin(p) == Start(p) /\ Get(p)
AcquireNull(p)  == NoConnection(p) /\ GetNull(p)

SetSucceeds(p) ==
  /\ held[p] # Nil /\ Works(p)
  /\ Acquired(p)
  /\ Free(p, "open")

(* SET is executed, but its reply does not come within 100 ms.             *)
SetTimesOut(p) ==
  /\ held[p] # Nil /\ Works(p)
  /\ SetReplyLost(p)
  /\ state' = [state EXCEPT ![held[p]] = "failed"]
  /\ UNCHANGED <<pool, held, rested>>

AcquireGivesUp(p) ==
  /\ held[p] # Nil
  /\ GiveUp(p)
  /\ Free(p, state[held[p]])

ReleaseBegin(p) ==
  /\ pc[p] = "holding"
  /\ Get(p)
  /\ UNCHANGED vars

ReleaseNull(p) == ReleaseLost(p) /\ GetNull(p)

(* EVAL of the script, whose reply may be late; on a failed connection     *)
(* nothing is sent.                                                        *)
Eval(p) ==
  /\ held[p] # Nil
  /\ \/ Works(p) /\ Release(p) /\ Free(p, "open")
     \/ Works(p) /\ Release(p) /\ Free(p, "failed")
     \/ ~Works(p) /\ ReleaseLost(p) /\ Free(p, "failed")

(* The other commands of RedisMgr: get, one command, and back.             *)
CommandBegin(u) == Get(u) /\ UNCHANGED vars
CommandNull(u)  == GetNull(u) /\ UNCHANGED vars

CommandEnd(u) ==
  /\ held[u] # Nil
  /\ \/ Works(u) /\ Free(u, "open")
     \/ Free(u, "failed")
  /\ UNCHANGED vars

(* Redis closes a connection, or it is left unused for 30 seconds.         *)
Fail(c) ==
  /\ state[c] = "open"
  /\ state' = [state EXCEPT ![c] = "failed"]
  /\ UNCHANGED <<vars, pool, held, rested>>

Rest(c) ==
  /\ \E i \in DOMAIN pool : pool[i] = c
  /\ ~rested[c]
  /\ rested' = [rested EXCEPT ![c] = TRUE]
  /\ UNCHANGED <<vars, pool, held, state>>

Remote(p) ==
  \/ Start(p) \/ NoConnection(p) \/ Acquired(p) \/ SetReplyLost(p) \/ GiveUp(p)
  \/ Release(p) \/ ReleaseLost(p)

PoolNext ==
  \/ \E p \in Local :
       \/ AcquireBegin(p) \/ AcquireNull(p) \/ SetSucceeds(p) \/ SetTimesOut(p)
       \/ AcquireGivesUp(p) \/ ReleaseBegin(p) \/ ReleaseNull(p) \/ Eval(p)
  \/ \E u \in User : CommandBegin(u) \/ CommandNull(u) \/ CommandEnd(u)
  \/ \E c \in Conn : Fail(c) \/ Rest(c)
  \/ \E p \in Proc \ Local : Remote(p) /\ UNCHANGED poolVars
  \/ Tick /\ UNCHANGED poolVars

PoolSpec == PoolInit /\ [][PoolNext]_allVars

(* Time passes, a caller's loop reads the clock, and a thread that has a   *)
(* connection uses it and comes back for another command: on_timer sends   *)
(* its HSET every 60 seconds.                                              *)
PoolFairSpec ==
  /\ PoolSpec
  /\ WF_allVars(Tick /\ UNCHANGED poolVars)
  /\ \A p \in Local : WF_allVars(AcquireGivesUp(p)) /\ WF_allVars(Eval(p))
  /\ \A p \in Proc \ Local : WF_allVars(GiveUp(p) /\ UNCHANGED poolVars)
  /\ \A u \in User : WF_allVars(CommandBegin(u) \/ CommandNull(u) \/ CommandEnd(u))

-----------------------------------------------------------------------------
(* A connection is in one place: in the pool once, or with one thread, and *)
(* open or failed there; a closed one is nowhere.  Two threads on one      *)
(* connection would read each other's replies.                             *)
OnePlace ==
  /\ \A i, j \in DOMAIN pool : pool[i] = pool[j] => i = j
  /\ \A t \in Thread : held[t] # Nil =>
       /\ \A i \in DOMAIN pool : pool[i] # held[t]
       /\ \A v \in Thread : held[v] = held[t] => v = t
  /\ \A c \in Conn : state[c] # "closed" <=>
       (\E i \in DOMAIN pool : pool[i] = c) \/ (\E t \in Thread : held[t] = c)

(* Whatever connections fail and replies are lost, the lock is a lease: a  *)
(* caller that is let in through its connection has the section alone for  *)
(* LockTime or until it releases, a caller that comes back late, when      *)
(* another has it, changes nothing, and a door shut by a lost reply or a   *)
(* lost release opens again in LockTime.                                   *)
ImplementsLease == Promise!Spec

(* A connection fails every command once one has failed, and only a ping   *)
(* after a rest finds that out: one that has failed and rested is closed   *)
(* and replaced, because the pool hands out the one that has waited        *)
(* longest.  (One that is handed out again before it has rested may stay.) *)
RestedIsReplaced ==
  \A c \in Conn : state[c] = "failed" /\ rested[c] ~> state[c] # "failed"
=============================================================================
