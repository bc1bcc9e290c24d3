----------------------------- MODULE ChatLogin -----------------------------
(***************************************************************************)
(* Logging in to, and falling off, a cluster of chat servers.              *)
(*                                                                         *)
(* A client opens a TCP connection (a session) to one server and sends one *)
(* login message on it.  A worker of LogicSystem handles the message:      *)
(* under a per-user lock kept in Redis it displaces the previous login of  *)
(* the user, on this server or through a kick RPC on another one, and      *)
(* records the new login in four places: the session's own user_uid_, the  *)
(* server's UserMgr, and the Redis keys uip_<uid> and usession_<uid>.      *)
(* Independently, the session's io thread (read or write error) and the    *)
(* server's timer thread (no heartbeat) run DealExceptionSession, which    *)
(* takes the same lock to erase those records again.                       *)
(*                                                                         *)
(* Every Redis command, every RPC and every call under a mutex is a step   *)
(* of its own (CleanSession is one: what it takes from UserMgr inside      *)
(* mutex_ shows in sessions_ only to others that have mutex_).  A lock's   *)
(* time to live, the time limit of acquireLock, a failed Redis command, a  *)
(* failed RPC and a crash are faults: they are drawn from FaultKinds, and  *)
(* the counter faults says how many have happened.                         *)
(***************************************************************************)
EXTENDS Integers, FiniteSets

CONSTANTS
  Server,      \* chat servers
  User,        \* user ids
  Session,     \* TCP connections, each used once
  FaultKinds,  \* the faults the environment may inject
  MaxFaults,   \* bound on the number of faults
  MaxErrors,   \* MaxErrors[x]: bound on the socket errors reported to x
  Nil,         \* no session, no server, uid 0, a free lock
  Orphan       \* holder of a lock that nobody is going to release

Login(x) == <<"login", x>>   \* the LogicSystem worker in LoginHandler for x
Io(x)    == <<"io", x>>      \* the io thread in a completion handler of x
Timer(s) == <<"timer", s>>   \* the thread of server s that runs on_timer

LoginProc == {"login"} \X Session
CleanProc == ({"io"} \X Session) \cup ({"timer"} \X Server)
Proc      == LoginProc \cup CleanProc

ASSUME NilAssumption ==
  /\ Nil \notin Server \cup User \cup Session \cup Proc
  /\ Orphan \notin Proc \cup {Nil}

ASSUME BoundAssumption ==
  /\ FaultKinds \subseteq {"ttl", "timeout", "redis", "rpc", "crash"}
  /\ MaxFaults \in Nat
  /\ MaxErrors \in [Session -> Nat]
  /\ IsFiniteSet(Session)

VARIABLES
  home,        \* home[x]: the server that accepted connection x, or Nil
  accepting,   \* connections that HandleAccept started but has not inserted
  sessions,    \* the sessions_ maps of all servers (x is in that of home[x])
  uid,         \* uid[x]: user_uid_ of session x, Nil for 0
  closed,      \* closed_ of every session
  errors,      \* errors[x]: socket errors reported to x so far
  kicked,      \* sessions that were sent ID_NOTIFY_OFF_LINE_REQ
  userMgr,     \* userMgr[s][u]: UserMgr of server s
  expired,     \* expired[s]: sessions on_timer has yet to deal with
  logincount,  \* Redis hash logincount
  uip,         \* Redis keys uip_<uid>
  usession,    \* Redis keys usession_<uid>
  lock,        \* Redis keys lock:lock_<uid>: holding process, Nil or Orphan
  pc,          \* next step of every process
  sess,        \* sess[p]: the session p works for
  user,        \* user[p]: the uid p works for, read when p started
  peer,        \* peer[p]: the server a login found in uip
  old,         \* old[p]: the session that login found to displace
  faults       \* faults injected so far

netVars   == <<home, accepting, errors>>
sessVars  == <<uid, closed>>
redisVars == <<uip, usession, logincount>>
procVars  == <<sess, user, peer, old>>
vars == <<home, accepting, errors, sessions, uid, closed, kicked, userMgr,
          expired, uip, usession, logincount, lock, pc, sess, user, peer, old,
          faults>>

LoginPC  == {"getip", "lookup", "evict", "setuid", "setip", "setuser",
             "setsess"}
CleanPC  == {"getsess", "delsess", "delip", "clean"}
(* Between a return from acquireLock and the matching releaseLock.         *)
CriticalPC == LoginPC \cup CleanPC \cup {"release"}
PC == CriticalPC \cup {"idle", "acquire", "reply", "done"}

(***************************************************************************)
(* Type invariant.                                                         *)
(***************************************************************************)
TypeOK ==
  /\ home \in [Session -> Server \cup {Nil}]
  /\ accepting \subseteq Session
  /\ sessions \subseteq Session
  /\ uid \in [Session -> User \cup {Nil}]
  /\ closed \in [Session -> BOOLEAN]
  /\ errors \in [Session -> Nat]
  /\ kicked \subseteq Session
  /\ userMgr \in [Server -> [User -> Session \cup {Nil}]]
  /\ expired \in [Server -> SUBSET Session]
  /\ uip \in [User -> Server \cup {Nil}]
  /\ usession \in [User -> Session \cup {Nil}]
  /\ logincount \in [Server -> Nat]
  /\ lock \in [User \cup {Nil} -> Proc \cup {Nil, Orphan}]
  /\ pc \in [Proc -> PC]
  /\ sess \in [Proc -> Session \cup {Nil}]
  /\ user \in [Proc -> User \cup {Nil}]
  /\ peer \in [Proc -> Server \cup {Nil}]
  /\ old \in [Proc -> Session \cup {Nil}]
  /\ faults \in Nat

Init ==
  /\ home = [x \in Session |-> Nil]
  /\ accepting = {}
  /\ sessions = {}
  /\ uid = [x \in Session |-> Nil]
  /\ closed = [x \in Session |-> FALSE]
  /\ errors = [x \in Session |-> 0]
  /\ kicked = {}
  /\ userMgr = [s \in Server |-> [u \in User |-> Nil]]
  /\ expired = [s \in Server |-> {}]
  /\ uip = [u \in User |-> Nil]
  /\ usession = [u \in User |-> Nil]
  /\ logincount = [s \in Server |-> 0]
  /\ lock = [u \in User \cup {Nil} |-> Nil]
  /\ pc = [p \in Proc |-> "idle"]
  /\ sess = [p \in Proc |-> Nil]
  /\ user = [p \in Proc |-> Nil]
  /\ peer = [p \in Proc |-> Nil]
  /\ old = [p \in Proc |-> Nil]
  /\ faults = 0

(***************************************************************************)
(* Shared helpers.                                                         *)
(***************************************************************************)
Goto(p, from, to) ==
  /\ pc[p] = from
  /\ pc' = [pc EXCEPT ![p] = to]

(* The local variables of the processes in P go out of scope.              *)
Return(P) ==
  /\ sess' = [p \in Proc |-> IF p \in P THEN Nil ELSE sess[p]]
  /\ user' = [p \in Proc |-> IF p \in P THEN Nil ELSE user[p]]
  /\ peer' = [p \in Proc |-> IF p \in P THEN Nil ELSE peer[p]]
  /\ old'  = [p \in Proc |-> IF p \in P THEN Nil ELSE old[p]]

Fault(kind) ==
  /\ kind \in FaultKinds
  /\ faults < MaxFaults
  /\ faults' = faults + 1

(* UserMgr keeps weak pointers: a session that has left sessions_ may or   *)
(* may not still be alive, so looking it up may find nothing.              *)
GetSession(s, u) ==
  IF userMgr[s][u] \in sessions
    THEN {userMgr[s][u]}
    ELSE {userMgr[s][u], Nil}

(* The values userMgr may have after RmvUserSession(u, x) on server s: the *)
(* entry goes if it is x or is a pointer to a destroyed session.           *)
RmvUserSession(s, u, x) ==
  IF u = Nil \/ userMgr[s][u] = Nil
    THEN {userMgr}
    ELSE LET found == IF userMgr[s][u] = x THEN {x} ELSE GetSession(s, u)
         IN  {IF y \in {x, Nil} THEN [userMgr EXCEPT ![s][u] = Nil] ELSE userMgr :
                y \in found}

(* Variant: the association is forgotten.                                  *)
CleanSessionOnly(x) == sessions' = sessions \ {x} /\ UNCHANGED userMgr

(* ChatServer::CleanSession, one critical section of the server's mutex_.  *)
CleanSession(x) ==
  /\ sessions' = sessions \ {x}
  /\ IF x \in sessions
       THEN userMgr' \in RmvUserSession(home[x], uid[x], x)
       ELSE UNCHANGED userMgr

(***************************************************************************)
(* Connections.                                                            *)
(***************************************************************************)
(* HandleAccept: Start() arms the first read ...                           *)
Accept(s, x) ==
  /\ home[x] = Nil
  /\ home' = [home EXCEPT ![x] = s]
  /\ accepting' = accepting \cup {x}
  /\ UNCHANGED <<errors, sessions, sessVars, kicked, userMgr, expired,
                 redisVars, lock, pc, procVars, faults>>

(* ... and only then is the session inserted into sessions_.               *)
Insert(x) ==
  /\ x \in accepting
  /\ accepting' = accepting \ {x}
  /\ sessions' = sessions \cup {x}
  /\ UNCHANGED <<home, errors, sessVars, kicked, userMgr, expired, redisVars,
                 lock, pc, procVars, faults>>

(* AsyncReadHead rejects a length above MAX_LENGTH: the session leaves     *)
(* sessions_ without the lock, without Close and with Redis left alone.    *)
BadHead(x) ==
  /\ x \in sessions
  /\ ~closed[x]
  /\ pc[Io(x)] = "idle"
  /\ CleanSession(x)
  /\ UNCHANGED <<netVars, sessVars, kicked, expired, redisVars, lock, pc,
                 procVars, faults>>

(***************************************************************************)
(* The per-user lock in Redis (DistLock).                                  *)
(***************************************************************************)
(* Variant: SET without NX.                                                *)
AcquireNoNx(p) ==
  /\ Goto(p, "acquire", IF p \in LoginProc THEN "getip" ELSE "getsess")
  /\ lock' = [lock EXCEPT ![user[p]] = p]
  /\ UNCHANGED <<netVars, sessions, sessVars, kicked, userMgr, expired,
                 redisVars, procVars, faults>>

(* acquireLock succeeds: SET NX found the key absent.                      *)
Acquire(p) ==
  /\ Goto(p, "acquire", IF p \in LoginProc THEN "getip" ELSE "getsess")
  /\ lock[user[p]] = Nil
  /\ lock' = [lock EXCEPT ![user[p]] = p]
  /\ UNCHANGED <<netVars, sessions, sessVars, kicked, userMgr, expired,
                 redisVars, procVars, faults>>

(* acquireLock returns no identifier: it gives up after ACQUIRE_TIME_OUT,  *)
(* or at once when there is no connection to Redis.  DealExceptionSession  *)
(* then only cleans up locally; LoginHandler does not look at the          *)
(* identifier and goes on without the lock.                                *)
AcquireTimeout(p) ==
  /\ Goto(p, "acquire", IF p \in LoginProc THEN "getip" ELSE "clean")
  /\ (lock[user[p]] # Nil /\ Fault("timeout")) \/ Fault("redis")
  /\ UNCHANGED <<netVars, sessions, sessVars, kicked, userMgr, expired,
                 redisVars, lock, procVars>>

(* Variant: the lock is given back on the login path only.                 *)
UnlockedByLogin(p) ==
  IF p \in LoginProc THEN [lock EXCEPT ![user[p]] = Nil] ELSE lock

(* releaseLock, one script: delete the key only if it holds our identifier.*)
Unlocked(p) ==
  IF lock[user[p]] = p THEN [lock EXCEPT ![user[p]] = Nil] ELSE lock

Release(p) ==
  /\ Goto(p, "release", IF p \in LoginProc THEN "reply" ELSE "idle")
  /\ lock' = Unlocked(p)
  /\ IF p \in LoginProc THEN UNCHANGED procVars ELSE Return({p})
  /\ UNCHANGED <<netVars, sessions, sessVars, kicked, userMgr, expired,
                 redisVars, faults>>

(* The script does not reach Redis: the key stays until it runs out.       *)
ReleaseFails(p) ==
  /\ Goto(p, "release", IF p \in LoginProc THEN "reply" ELSE "idle")
  /\ Fault("redis")
  /\ lock' = IF lock[user[p]] = p THEN [lock EXCEPT ![user[p]] = Orphan] ELSE lock
  /\ IF p \in LoginProc THEN UNCHANGED procVars ELSE Return({p})
  /\ UNCHANGED <<netVars, sessions, sessVars, kicked, userMgr, expired,
                 redisVars>>

(* The key's time to live (LOCK_TIME_OUT) ends.  For a live holder this is *)
(* a fault; a key that nobody is going to delete always ends this way.     *)
ExpireHeld(u) ==
  /\ lock[u] \in Proc
  /\ Fault("ttl")
  /\ lock' = [lock EXCEPT ![u] = Nil]
  /\ UNCHANGED <<netVars, sessions, sessVars, kicked, userMgr, expired,
                 redisVars, pc, procVars>>

ExpireOrphan(u) ==
  /\ lock[u] = Orphan
  /\ lock' = [lock EXCEPT ![u] = Nil]
  /\ UNCHANGED <<netVars, sessions, sessVars, kicked, userMgr, expired,
                 redisVars, pc, procVars, faults>>

(***************************************************************************)
(* LoginHandler.                                                           *)
(***************************************************************************)
(* AsyncReadBody found the session valid and posted the message; a worker  *)
(* takes it.  With a wrong token the handler answers at once.              *)
StartLogin(x, u) ==
  LET p == Login(x)
  IN  /\ x \in sessions
      /\ ~closed[x]
      /\ pc[p] = "idle"
      /\ sess' = [sess EXCEPT ![p] = x]
      /\ user' = [user EXCEPT ![p] = u]
      /\ \E to \in {"acquire", "reply"} : pc' = [pc EXCEPT ![p] = to]
      /\ UNCHANGED <<netVars, sessions, sessVars, kicked, userMgr, expired,
                     redisVars, lock, peer, old, faults>>

GetIp(p) ==
  /\ Goto(p, "getip", IF uip[user[p]] = Nil THEN "setuid" ELSE "lookup")
  /\ peer' = [peer EXCEPT ![p] = uip[user[p]]]
  /\ UNCHANGED <<netVars, sessions, sessVars, kicked, userMgr, expired,
                 redisVars, lock, sess, user, old, faults>>

(* GetSession on this server, or as the first half of the NotifyKickUser   *)
(* handler on the peer.                                                    *)
Lookup(p) ==
  /\ pc[p] = "lookup"
  /\ \E y \in GetSession(peer[p], user[p]) :
       /\ old' = [old EXCEPT ![p] = y]
       /\ Goto(p, "lookup", IF y = Nil THEN "setuid" ELSE "evict")
  /\ UNCHANGED <<netVars, sessions, sessVars, kicked, userMgr, expired,
                 redisVars, lock, sess, user, peer, faults>>

(* The RPC fails before the peer's handler runs; its result is ignored.    *)
KickLost(p) ==
  /\ Goto(p, "lookup", "setuid")
  /\ peer[p] # home[sess[p]]
  /\ Fault("rpc")
  /\ UNCHANGED <<netVars, sessions, sessVars, kicked, userMgr, expired,
                 redisVars, lock, procVars>>

(* Variant: the displaced client is told but keeps its session.            *)
EvictNoticeOnly(p) ==
  /\ Goto(p, "evict", "setuid")
  /\ kicked' = kicked \cup {old[p]}
  /\ UNCHANGED <<netVars, sessions, sessVars, userMgr, expired, redisVars,
                 lock, procVars, faults>>

(* NotifyOffline, then CleanSession of the session found.                  *)
Evict(p) ==
  /\ Goto(p, "evict", "setuid")
  /\ kicked' = kicked \cup {old[p]}
  /\ CleanSession(old[p])
  /\ UNCHANGED <<netVars, sessVars, expired, redisVars, lock, procVars, faults>>

SetUserId(p) ==
  /\ Goto(p, "setuid", "setip")
  /\ uid' = [uid EXCEPT ![sess[p]] = user[p]]
  /\ UNCHANGED <<netVars, sessions, closed, kicked, userMgr, expired,
                 redisVars, lock, procVars, faults>>

SetIp(p) ==
  /\ Goto(p, "setip", "setuser")
  /\ uip' = [uip EXCEPT ![user[p]] = home[sess[p]]]
  /\ UNCHANGED <<netVars, sessions, sessVars, kicked, userMgr, expired,
                 usession, logincount, lock, procVars, faults>>

SetUserSession(p) ==
  /\ Goto(p, "setuser", "setsess")
  /\ userMgr' = [userMgr EXCEPT ![home[sess[p]]][user[p]] = sess[p]]
  /\ UNCHANGED <<netVars, sessions, sessVars, kicked, expired, redisVars,
                 lock, procVars, faults>>

SetSess(p) ==
  /\ Goto(p, "setsess", "release")
  /\ usession' = [usession EXCEPT ![user[p]] = sess[p]]
  /\ UNCHANGED <<netVars, sessions, sessVars, kicked, userMgr, expired,
                 uip, logincount, lock, procVars, faults>>

(* The outer Defer sends MSG_CHAT_LOGIN_RSP after the lock is released.    *)
Reply(p) ==
  /\ Goto(p, "reply", "done")
  /\ Return({p})
  /\ UNCHANGED <<netVars, sessions, sessVars, kicked, userMgr, expired,
                 redisVars, lock, faults>>

(***************************************************************************)
(* DealExceptionSession and its two callers.                               *)
(***************************************************************************)
(* Read user_uid_ and go for the lock of that user.                        *)
StartClean(p, x) ==
  /\ pc[p] = "idle"
  /\ pc' = [pc EXCEPT ![p] = "acquire"]
  /\ sess' = [sess EXCEPT ![p] = x]
  /\ user' = [user EXCEPT ![p] = uid[x]]

(* A read or write on x fails; the handler closes x and deals with it.     *)
(* After Close further queued writes fail as well.                         *)
SocketError(x) ==
  /\ home[x] # Nil
  /\ errors[x] < MaxErrors[x]
  /\ errors' = [errors EXCEPT ![x] = @ + 1]
  /\ closed' = [closed EXCEPT ![x] = TRUE]
  /\ StartClean(Io(x), x)
  /\ UNCHANGED <<home, accepting, sessions, uid, kicked, userMgr, expired,
                 redisVars, lock, peer, old, faults>>

(* The scan of on_timer: close the sessions E without a heartbeat, publish *)
(* the number of the others, and leave E to be dealt with one by one.      *)
OnTimer(s, E) ==
  LET mine == {x \in sessions : home[x] = s}
  IN  /\ pc[Timer(s)] = "idle"
      /\ expired[s] = {}
      /\ E \subseteq mine
      /\ closed' = [x \in Session |-> closed[x] \/ x \in E]
      /\ expired' = [expired EXCEPT ![s] = E]
      /\ logincount' = [logincount EXCEPT ![s] = Cardinality(mine \ E)]
      /\ UNCHANGED <<netVars, sessions, uid, kicked, userMgr, uip, usession,
                     lock, pc, procVars, faults>>

DealExpired(s, x) ==
  /\ x \in expired[s]
  /\ expired' = [expired EXCEPT ![s] = @ \ {x}]
  /\ StartClean(Timer(s), x)
  /\ UNCHANGED <<netVars, sessions, sessVars, kicked, userMgr, redisVars,
                 lock, peer, old, faults>>

(* Variant: the keys are deleted without comparing the session id.         *)
GetSessAny(p) ==
  LET present == user[p] # Nil /\ usession[user[p]] # Nil
  IN  /\ Goto(p, "getsess", IF present THEN "delsess" ELSE "clean")
      /\ UNCHANGED <<netVars, sessions, sessVars, kicked, userMgr, expired,
                     redisVars, lock, procVars, faults>>

(* usession names this very session, or the keys are left alone.           *)
GetSess(p) ==
  LET own == user[p] # Nil /\ usession[user[p]] = sess[p]
  IN  /\ Goto(p, "getsess", IF own THEN "delsess" ELSE "clean")
      /\ UNCHANGED <<netVars, sessions, sessVars, kicked, userMgr, expired,
                     redisVars, lock, procVars, faults>>

DelSess(p) ==
  /\ Goto(p, "delsess", "delip")
  /\ usession' = [usession EXCEPT ![user[p]] = Nil]
  /\ UNCHANGED <<netVars, sessions, sessVars, kicked, userMgr, expired, uip,
                 logincount, lock, procVars, faults>>

(* Variant: only usession is deleted.                                      *)
SkipDelIp(p) ==
  /\ Goto(p, "delip", "clean")
  /\ UNCHANGED <<netVars, sessions, sessVars, kicked, userMgr, expired,
                 redisVars, lock, procVars, faults>>

DelIp(p) ==
  /\ Goto(p, "delip", "clean")
  /\ uip' = [uip EXCEPT ![user[p]] = Nil]
  /\ UNCHANGED <<netVars, sessions, sessVars, kicked, userMgr, expired,
                 usession, logincount, lock, procVars, faults>>

(* Variant: a session without a user is not cleaned up.                    *)
CleanUsersOnly(p) ==
  /\ Goto(p, "clean", "release")
  /\ IF user[p] = Nil THEN UNCHANGED <<sessions, userMgr>> ELSE CleanSession(sess[p])
  /\ UNCHANGED <<netVars, sessVars, kicked, expired, redisVars, lock,
                 procVars, faults>>

Clean(p) ==
  /\ Goto(p, "clean", "release")
  /\ CleanSession(sess[p])
  /\ UNCHANGED <<netVars, sessVars, kicked, expired, redisVars, lock,
                 procVars, faults>>

(***************************************************************************)
(* A GET, SET or DEL is not executed.  A failed GET is taken for an absent *)
(* key, so that a login kicks nobody and a cleanup erases nothing; the     *)
(* results of the others are ignored.                                      *)
(***************************************************************************)
CommandFails(p) ==
  /\ \/ Goto(p, "getip", "setuid") \/ Goto(p, "setip", "setuser") \/ Goto(p, "setsess", "release")
     \/ Goto(p, "getsess", "clean") \/ Goto(p, "delsess", "delip") \/ Goto(p, "delip", "clean")
  /\ Fault("redis")
  /\ UNCHANGED <<netVars, sessions, sessVars, kicked, userMgr, expired,
                 redisVars, lock, procVars>>

(***************************************************************************)
(* A server dies and is started again with empty memory; Redis keeps what  *)
(* it has, and main resets the server's login count.                       *)
(***************************************************************************)
OnServer(s) ==
  {p \in Proc : \/ p = Timer(s)
                \/ p \in {"login", "io"} \X {x \in Session : home[x] = s}}

Crash(s) ==
  LET lost == {x \in Session : home[x] = s}
      dead == OnServer(s)
  IN  /\ Fault("crash")
      /\ accepting' = accepting \ lost
      /\ sessions' = sessions \ lost
      /\ closed' = [x \in Session |-> closed[x] \/ x \in lost]
      /\ errors' = [x \in Session |-> IF x \in lost THEN MaxErrors[x] ELSE errors[x]]
      /\ userMgr' = [userMgr EXCEPT ![s] = [u \in User |-> Nil]]
      /\ expired' = [expired EXCEPT ![s] = {}]
      /\ logincount' = [logincount EXCEPT ![s] = 0]
      /\ lock' = [u \in User \cup {Nil} |-> IF lock[u] \in dead THEN Orphan ELSE lock[u]]
      /\ pc' = [p \in Proc |-> IF p \notin dead THEN pc[p]
                               ELSE IF p \in LoginProc THEN "done" ELSE "idle"]
      /\ Return(dead)
      /\ UNCHANGED <<home, uid, kicked, uip, usession>>

(***************************************************************************)
(* The specification.                                                      *)
(***************************************************************************)
LoginStep(p) ==
  \/ GetIp(p) \/ Lookup(p) \/ KickLost(p) \/ Evict(p) \/ SetUserId(p)
  \/ SetIp(p) \/ SetUserSession(p) \/ SetSess(p) \/ Reply(p)

CleanStep(p) == GetSess(p) \/ DelSess(p) \/ DelIp(p) \/ Clean(p)

LockStep(p) == Acquire(p) \/ AcquireTimeout(p) \/ Release(p) \/ ReleaseFails(p)

Next ==
  \/ \E s \in Server, x \in Session : Accept(s, x) \/ DealExpired(s, x)
  \/ \E x \in Session : Insert(x) \/ BadHead(x) \/ SocketError(x)
  \/ \E x \in Session, u \in User : StartLogin(x, u)
  \/ \E s \in Server, E \in SUBSET Session : OnTimer(s, E)
  \/ \E p \in Proc : LockStep(p) \/ CommandFails(p)
  \/ \E p \in LoginProc : LoginStep(p)
  \/ \E p \in CleanProc : CleanStep(p)
  \/ \E u \in User \cup {Nil} : ExpireHeld(u) \/ ExpireOrphan(u)
  \/ \E s \in Server : Crash(s)

Spec == Init /\ [][Next]_vars

(* Fairness.  Threads that have work go on with it; HandleAccept finishes; *)
(* Redis expires keys; the timer is re-armed by every on_timer, and a      *)
(* closed session receives no heartbeat, so some scan finds it expired.    *)
ExpireClosed(x) ==
  \E s \in Server, E \in SUBSET Session :
    x \in E /\ closed[x] /\ OnTimer(s, E)

Fairness ==
  /\ \A p \in Proc : WF_vars(Acquire(p) \/ Release(p))
  /\ \A p \in LoginProc : WF_vars(LoginStep(p))
  /\ \A p \in CleanProc : WF_vars(CleanStep(p))
  /\ \A u \in User \cup {Nil} : WF_vars(ExpireOrphan(u))
  /\ \A x \in Session : WF_vars(Insert(x)) /\ WF_vars(ExpireClosed(x))
  /\ \A s \in Server : WF_vars(\E x \in Session : DealExpired(s, x))

FairSpec == Spec /\ Fairness

-----------------------------------------------------------------------------
(***************************************************************************)
(* Safety.  Properties guarded by faults = 0 are what the lock is for; the *)
(* others hold whatever the environment does.                              *)
(***************************************************************************)
InCritical(p, u) == user[p] = u /\ pc[p] \in CriticalPC

Busy(u) == \E p \in Proc : InCritical(p, u)

(* While no lock expired or timed out, at most one login or cleanup of a   *)
(* user is between acquireLock and releaseLock.                            *)
MutualExclusion ==
  faults = 0 =>
    \A p, q \in Proc : \A u \in User :
      InCritical(p, u) /\ InCritical(q, u) => p = q

(* Whatever goes wrong, an association is between a session and the user   *)
(* and server it belongs to: in UserMgr and in Redis.                      *)
BoundToItsUser ==
  /\ \A s \in Server, u \in User :
       userMgr[s][u] # Nil => home[userMgr[s][u]] = s /\ uid[userMgr[s][u]] = u
  /\ \A u \in User : usession[u] # Nil => uid[usession[u]] = u

(* uip and usession, two keys written by separate commands, name a server  *)
(* and a session of that server, or are both absent, whenever no login or  *)
(* cleanup of the user is under way.                                       *)
RedisPairAgrees ==
  faults = 0 =>
    \A u \in User : ~Busy(u) =>
      IF usession[u] = Nil THEN uip[u] = Nil ELSE uip[u] = home[usession[u]]

(* A user is logged in on at most one live session of the whole cluster:   *)
(* the earlier one is displaced before the later one is associated.        *)
LoggedIn(x, u) == x \in sessions /\ userMgr[home[x]][u] = x

SingleLogin ==
  faults = 0 =>
    \A u \in User : \A x, y \in Session :
      LoggedIn(x, u) /\ LoggedIn(y, u) => x = y

(* A live, associated session can be found by the other servers: no late   *)
(* cleanup of an earlier session has erased the keys of the present login. *)
LiveLoginIsRoutable ==
  faults = 0 =>
    \A u \in User, x \in Session :
      LoggedIn(x, u) /\ ~Busy(u) => uip[u] = home[x] /\ usession[u] = x

(* A client told that its account was logged in elsewhere is really        *)
(* displaced: Redis does not go on naming its session.                     *)
NoticeMeansDisplaced ==
  faults = 0 =>
    \A x \in kicked, u \in User :
      uid[x] = u /\ ~Busy(u) => usession[u] # x

(* Removing a session from sessions_ leaves no UserMgr entry behind: the   *)
(* only way to an entry of a removed session is a login finishing late.    *)
RemovalUnbinds ==
  [][\A x \in sessions \ sessions' : \A s \in Server, u \in User :
       userMgr'[s][u] # x]_vars

(* Only the holder of a lock releases it, even after a lock expired and    *)
(* somebody else acquired it (comment above DistLock::releaseLock).        *)
OnlyHolderReleases ==
  [][\A u \in User, p \in Proc :
       lock[u] = p /\ lock'[u] # p /\ pc'[p] = pc[p] => faults' = faults + 1]_vars

(***************************************************************************)
(* Liveness, under FairSpec.                                               *)
(***************************************************************************)
(* Every login message accepted by a worker is answered (or its server     *)
(* crashes): neither the lock nor a kick holds it up for ever.             *)
LoginAnswered ==
  \A p \in LoginProc : pc[p] = "acquire" ~> pc[p] = "done"

(* A closed session ends up outside sessions_ for good, even when the      *)
(* error was reported before HandleAccept inserted it.                     *)
ClosedSessionLeaves ==
  \A x \in Session : closed[x] ~> [](x \notin sessions)

=============================================================================
