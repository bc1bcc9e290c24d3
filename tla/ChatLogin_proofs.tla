-------------------------- MODULE ChatLogin_proofs --------------------------
(***************************************************************************)
(* Proofs about ChatLogin, for every number of servers, users, sessions    *)
(* and faults: the types and the lock first, and then, from the dashed     *)
(* line on, who is logged in where.                                        *)
(*                                                                         *)
(* BindInv holds whatever fails and gives BoundToItsUser.  RegistryInv     *)
(* says, until a fault, what Redis and the UserMgrs of all servers know    *)
(* about a user at each program counter of the one process in the locked   *)
(* section of that user; the properties SingleLogin, RedisPairAgrees and   *)
(* LiveLoginIsRoutable are what it says outside the section.               *)
(***************************************************************************)
EXTENDS ChatLogin, FiniteSetTheorems, TLAPS

(* What the steps of a handler know about its local variables.             *)
LocalsOK ==
  /\ \A p \in LoginProc :
       pc[p] \in LoginPC \cup {"acquire", "release"} =>
         sess[p] \in Session /\ user[p] \in User
  /\ \A p \in Proc : pc[p] \in {"lookup", "evict"} => peer[p] \in Server
  /\ \A p \in Proc : pc[p] = "evict" => old[p] \in Session
  /\ \A p \in LoginProc : pc[p] \notin CleanPC
  /\ \A p \in CleanProc : pc[p] # "idle" => sess[p] \in Session
  /\ \A p \in CleanProc : pc[p] \notin LoginPC \cup {"reply", "done"}

IInv == TypeOK /\ LocalsOK

(* LoginProc and CleanProc are the two disjoint kinds of process.          *)
LEMMA ProcFacts ==
  /\ \A x \in Session : Login(x) \in LoginProc /\ Io(x) \in CleanProc
  /\ \A s \in Server : Timer(s) \in CleanProc
  /\ LoginProc \cap CleanProc = {}
  /\ LoginProc \subseteq Proc
  /\ CleanProc \subseteq Proc
BY DEF Login, Io, Timer, LoginProc, CleanProc, Proc

(* A returning process leaves well-typed locals behind.                    *)
LEMMA ReturnType ==
  ASSUME TypeOK, NEW P \in SUBSET Proc, Return(P)
  PROVE  /\ sess' \in [Proc -> Session \cup {Nil}]
         /\ user' \in [Proc -> User \cup {Nil}]
         /\ peer' \in [Proc -> Server \cup {Nil}]
         /\ old' \in [Proc -> Session \cup {Nil}]
BY DEF TypeOK, Return

(* CleanSession keeps sessions_ and UserMgr well-typed.                    *)
LEMMA CleanSessionType ==
  ASSUME TypeOK, NEW x \in Session, CleanSession(x)
  PROVE  /\ sessions' \subseteq Session
         /\ userMgr' \in [Server -> [User -> Session \cup {Nil}]]
<1>1. sessions' \subseteq Session
  BY DEF CleanSession, TypeOK
<1>2. userMgr \in [Server -> [User -> Session \cup {Nil}]]
  BY DEF TypeOK
<1>3. ASSUME NEW s, NEW u
      PROVE  [userMgr EXCEPT ![s][u] = Nil] \in [Server -> [User -> Session \cup {Nil}]]
  BY <1>2
<1>4. CASE x \in sessions
  <2>1. userMgr' \in RmvUserSession(home[x], uid[x], x)
    BY <1>4 DEF CleanSession
  <2>2. userMgr' = userMgr \/ userMgr' = [userMgr EXCEPT ![home[x]][uid[x]] = Nil]
    BY <2>1 DEF RmvUserSession
  <2>3. CASE userMgr' = userMgr
    BY <1>1, <1>2, <2>3
  <2>4. CASE userMgr' = [userMgr EXCEPT ![home[x]][uid[x]] = Nil]
    BY <1>1, <1>3, <2>4
  <2>5. QED
    BY <2>2, <2>3, <2>4
<1>5. CASE x \notin sessions
  BY <1>1, <1>2, <1>5 DEF CleanSession
<1>6. QED
  BY <1>4, <1>5

LEMMA InitIInv == Init => IInv
BY NilAssumption DEF Init, IInv, TypeOK, LocalsOK, PC, LoginPC, CleanPC,
   CriticalPC, Proc, LoginProc, CleanProc

(* Every step keeps the local variables of the handlers, and with them     *)
(* every variable, well-typed.                                             *)
LEMMA StepIInv ==
  ASSUME IInv, [Next]_vars
  PROVE  IInv'
<1> USE ProcFacts DEF IInv, TypeOK, LocalsOK, Goto, Fault, netVars, sessVars,
      redisVars, procVars, PC, LoginPC, CleanPC, CriticalPC
<1>1. ASSUME NEW s \in Server, NEW x \in Session, Accept(s, x)
      PROVE  IInv'
  BY <1>1 DEF Accept
<1>2. ASSUME NEW s \in Server, NEW x \in Session, DealExpired(s, x)
      PROVE  IInv'
  BY <1>2 DEF DealExpired, StartClean
<1>3. ASSUME NEW x \in Session, Insert(x)
      PROVE  IInv'
  BY <1>3 DEF Insert
<1>4. ASSUME NEW x \in Session, BadHead(x)
      PROVE  IInv'
  BY <1>4, CleanSessionType DEF BadHead
<1>5. ASSUME NEW x \in Session, SocketError(x)
      PROVE  IInv'
  BY <1>5 DEF SocketError, StartClean
<1>6. ASSUME NEW x \in Session, NEW u \in User, StartLogin(x, u)
      PROVE  IInv'
  BY <1>6 DEF StartLogin
<1>7. ASSUME NEW s \in Server, NEW E \in SUBSET Session, OnTimer(s, E)
      PROVE  IInv'
  <2>1. \A S \in SUBSET Session : Cardinality(S) \in Nat
    BY BoundAssumption, FS_Subset, FS_CardinalityType
  <2>2. Cardinality({x \in sessions : home[x] = s} \ E) \in Nat
    BY <2>1
  <2>3. logincount' \in [Server -> Nat]
    BY <1>7, <2>2 DEF OnTimer
  <2>4. closed' \in [Session -> BOOLEAN]
    BY <1>7 DEF OnTimer
  <2>5. expired' \in [Server -> SUBSET Session]
    BY <1>7 DEF OnTimer
  <2>6. QED
    BY <1>7, <2>3, <2>4, <2>5 DEF OnTimer
<1>8. ASSUME NEW p \in Proc, Acquire(p)
      PROVE  IInv'
  BY <1>8 DEF Acquire
<1>9. ASSUME NEW p \in Proc, AcquireTimeout(p)
      PROVE  IInv'
  BY <1>9 DEF AcquireTimeout
<1>10. ASSUME NEW p \in Proc, Release(p)
      PROVE  IInv'
  <2>1. lock' \in [User \cup {Nil} -> Proc \cup {Nil, Orphan}]
    BY <1>10 DEF Release, Unlocked
  <2>2. CASE p \in LoginProc
    BY <1>10, <2>1, <2>2 DEF Release
  <2>3. CASE p \notin LoginProc
    <3>1. Return({p})
      BY <1>10, <2>3 DEF Release
    <3>2. \A q \in Proc \ {p} : sess'[q] = sess[q] /\ user'[q] = user[q] /\ peer'[q] = peer[q] /\ old'[q] = old[q]
      BY <3>1 DEF Return
    <3>3. TypeOK'
      BY <1>10, <2>1, <3>1, ReturnType DEF Release
    <3>4. QED
      BY <1>10, <2>3, <3>2, <3>3 DEF Release
  <2>4. QED
    BY <2>2, <2>3
<1>11. ASSUME NEW p \in LoginProc, GetIp(p)
      PROVE  IInv'
  BY <1>11 DEF GetIp
<1>12. ASSUME NEW p \in LoginProc, Lookup(p)
      PROVE  IInv'
  <2>1. PICK y \in GetSession(peer[p], user[p]) :
          /\ old' = [old EXCEPT ![p] = y]
          /\ Goto(p, "lookup", IF y = Nil THEN "setuid" ELSE "evict")
    BY <1>12 DEF Lookup
  <2>2. peer[p] \in Server /\ user[p] \in User
    BY <1>12 DEF Lookup
  <2>3. y \in Session \cup {Nil}
    BY <2>1, <2>2 DEF GetSession
  <2>4. QED
    BY <1>12, <2>1, <2>3 DEF Lookup
<1>13. ASSUME NEW p \in LoginProc, KickLost(p)
      PROVE  IInv'
  BY <1>13 DEF KickLost
<1>14. ASSUME NEW p \in LoginProc, Evict(p)
      PROVE  IInv'
  <2>1. old[p] \in Session /\ CleanSession(old[p])
    BY <1>14 DEF Evict
  <2>2. sessions' \subseteq Session /\ userMgr' \in [Server -> [User -> Session \cup {Nil}]]
    BY <2>1, CleanSessionType
  <2>3. QED
    BY <1>14, <2>1, <2>2 DEF Evict
<1>15. ASSUME NEW p \in LoginProc, SetUserId(p)
      PROVE  IInv'
  BY <1>15 DEF SetUserId
<1>16. ASSUME NEW p \in LoginProc, SetIp(p)
      PROVE  IInv'
  BY <1>16 DEF SetIp
<1>17. ASSUME NEW p \in LoginProc, SetUserSession(p)
      PROVE  IInv'
  BY <1>17 DEF SetUserSession
<1>18. ASSUME NEW p \in LoginProc, SetSess(p)
      PROVE  IInv'
  BY <1>18 DEF SetSess
<1>19. ASSUME NEW p \in LoginProc, Reply(p)
      PROVE  IInv'
  <2>1. Return({p})
    BY <1>19 DEF Reply
  <2>2. \A q \in Proc \ {p} : sess'[q] = sess[q] /\ user'[q] = user[q] /\ peer'[q] = peer[q] /\ old'[q] = old[q]
    BY <2>1 DEF Return
  <2>3. TypeOK'
    BY <1>19, <2>1, ReturnType DEF Reply
  <2>4. QED
    BY <1>19, <2>2, <2>3 DEF Reply
<1>20. ASSUME NEW p \in CleanProc, GetSess(p)
      PROVE  IInv'
  BY <1>20 DEF GetSess
<1>21. ASSUME NEW p \in CleanProc, DelSess(p)
      PROVE  IInv'
  BY <1>21 DEF DelSess
<1>22. ASSUME NEW p \in CleanProc, DelIp(p)
      PROVE  IInv'
  BY <1>22 DEF DelIp
<1>23. ASSUME NEW p \in CleanProc, Clean(p)
      PROVE  IInv'
  <2>1. sess[p] \in Session /\ CleanSession(sess[p])
    BY <1>23 DEF Clean
  <2>2. sessions' \subseteq Session /\ userMgr' \in [Server -> [User -> Session \cup {Nil}]]
    BY <2>1, CleanSessionType
  <2>3. QED
    BY <1>23, <2>2 DEF Clean
<1>24. ASSUME NEW u \in User \cup {Nil}, ExpireHeld(u)
      PROVE  IInv'
  BY <1>24 DEF ExpireHeld
<1>25. ASSUME NEW u \in User \cup {Nil}, ExpireOrphan(u)
      PROVE  IInv'
  BY <1>25 DEF ExpireOrphan
<1>26. ASSUME NEW s \in Server, Crash(s)
      PROVE  IInv'
  <2> DEFINE dead == OnServer(s)
  <2>1. Return(dead) /\ dead \in SUBSET Proc
    BY <1>26 DEF Crash, OnServer
  <2>2. \A q \in Proc \ dead : sess'[q] = sess[q] /\ user'[q] = user[q] /\ peer'[q] = peer[q] /\ old'[q] = old[q]
    BY <2>1 DEF Return
  <2>3. \A q \in Proc : pc'[q] = IF q \notin dead THEN pc[q]
                                   ELSE IF q \in LoginProc THEN "done" ELSE "idle"
    BY <1>26 DEF Crash
  <2>4. pc' \in [Proc -> PC]
    BY <1>26 DEF Crash
  <2>5. /\ sess' \in [Proc -> Session \cup {Nil}]
        /\ user' \in [Proc -> User \cup {Nil}]
        /\ peer' \in [Proc -> Server \cup {Nil}]
        /\ old' \in [Proc -> Session \cup {Nil}]
    BY <2>1, ReturnType
  <2>6. lock' \in [User \cup {Nil} -> Proc \cup {Nil, Orphan}]
    BY <1>26 DEF Crash
  <2>7. /\ closed' \in [Session -> BOOLEAN]
        /\ errors' \in [Session -> Nat]
        /\ userMgr' \in [Server -> [User -> Session \cup {Nil}]]
    BY <1>26, BoundAssumption DEF Crash
  <2>8. TypeOK'
    BY <1>26, <2>4, <2>5, <2>6, <2>7 DEF Crash
  <2>9. LocalsOK'
    BY <2>2, <2>3
  <2>10. QED
    BY <2>8, <2>9
<1>27. CASE UNCHANGED vars
  BY <1>27 DEF vars
<1>28. ASSUME NEW p \in Proc, CommandFails(p)
       PROVE  IInv'
  <2>1. TypeOK'
    BY <1>28 DEF CommandFails
  <2>2. LocalsOK'
    BY <1>28 DEF CommandFails
  <2>3. QED
    BY <2>1, <2>2
<1>29. ASSUME NEW p \in Proc, ReleaseFails(p)
       PROVE  IInv'
  <2>1. lock' \in [User \cup {Nil} -> Proc \cup {Nil, Orphan}]
    BY <1>29 DEF ReleaseFails
  <2>2. CASE p \in LoginProc
    BY <1>29, <2>1, <2>2 DEF ReleaseFails
  <2>3. CASE p \notin LoginProc
    <3>1. Return({p})
      BY <1>29, <2>3 DEF ReleaseFails
    <3>2. \A q \in Proc \ {p} : sess'[q] = sess[q] /\ user'[q] = user[q] /\ peer'[q] = peer[q] /\ old'[q] = old[q]
      BY <3>1 DEF Return
    <3>3. TypeOK'
      BY <1>29, <2>1, <3>1, ReturnType DEF ReleaseFails
    <3>4. QED
      BY <1>29, <2>3, <3>2, <3>3 DEF ReleaseFails
  <2>4. QED
    BY <2>2, <2>3
<1>30. QED
  BY <1>28, <1>29, <1>1, <1>2, <1>3, <1>4, <1>5, <1>6, <1>7, <1>8, <1>9, <1>10, <1>11, <1>12, <1>13, <1>14, <1>15, <1>16, <1>17, <1>18, <1>19, <1>20, <1>21, <1>22, <1>23, <1>24, <1>25, <1>26, <1>27
  DEF Next, LockStep, LoginStep, CleanStep

(* All variables keep their types, in every behaviour with every fault.    *)
THEOREM TypeCorrect == Spec => []TypeOK
<1>1. IInv => TypeOK
  BY DEF IInv
<1>2. QED
  BY InitIInv, StepIInv, <1>1, PTL DEF Spec

-----------------------------------------------------------------------------
(* Between acquireLock and releaseLock a process is the holder of the lock *)
(* of its user: the strengthening that makes mutual exclusion inductive.   *)
LockHeld ==
  faults = 0 => \A p \in Proc : pc[p] \in CriticalPC => lock[user[p]] = p

(* The number of faults never decreases.                                   *)
LEMMA FaultsGrow ==
  ASSUME TypeOK, [Next]_vars, faults' = 0
  PROVE  faults = 0
<1> USE DEF TypeOK, Fault
<1>1. ASSUME NEW p \in Proc, LockStep(p) \/ CommandFails(p)
      PROVE  faults = 0
  BY <1>1 DEF LockStep, Acquire, AcquireTimeout, Release, ReleaseFails, CommandFails
<1>2. ASSUME NEW p \in Proc, LoginStep(p)
      PROVE  faults = 0
  BY <1>2 DEF LoginStep, GetIp, Lookup, KickLost, Evict, SetUserId, SetIp,
     SetUserSession, SetSess, Reply
<1>3. ASSUME NEW p \in Proc, CleanStep(p)
      PROVE  faults = 0
  BY <1>3 DEF CleanStep, GetSess, DelSess, DelIp, Clean
<1>4. ASSUME NEW s \in Server, NEW x \in Session, Accept(s, x) \/ DealExpired(s, x)
      PROVE  faults = 0
  BY <1>4 DEF Accept, DealExpired
<1>5. ASSUME NEW x \in Session, Insert(x) \/ BadHead(x) \/ SocketError(x)
      PROVE  faults = 0
  BY <1>5 DEF Insert, BadHead, SocketError
<1>6. ASSUME NEW x \in Session, NEW u \in User, StartLogin(x, u)
      PROVE  faults = 0
  BY <1>6 DEF StartLogin
<1>7. ASSUME NEW s \in Server, NEW E \in SUBSET Session, OnTimer(s, E)
      PROVE  faults = 0
  BY <1>7 DEF OnTimer
<1>8. ASSUME NEW u \in User \cup {Nil}, ExpireHeld(u) \/ ExpireOrphan(u)
      PROVE  faults = 0
  BY <1>8 DEF ExpireHeld, ExpireOrphan
<1>9. ASSUME NEW s \in Server, Crash(s)
      PROVE  faults = 0
  BY <1>9 DEF Crash
<1>10. CASE UNCHANGED vars
  BY <1>10 DEF vars
<1>11. QED
  BY <1>1, <1>2, <1>3, <1>4, <1>5, <1>6, <1>7, <1>8, <1>9, <1>10, ProcFacts
  DEF Next

LEMMA StepLockHeld ==
  ASSUME IInv, LockHeld, [Next]_vars
  PROVE  LockHeld'
<1> SUFFICES ASSUME faults' = 0, NEW q \in Proc, pc'[q] \in CriticalPC
             PROVE  lock'[user'[q]] = q
  BY DEF LockHeld
<1> USE NilAssumption, ProcFacts DEF IInv, TypeOK, Goto, LoginPC, CleanPC,
      CriticalPC, PC
<1>1. faults = 0
  BY FaultsGrow
<1>2. \A p \in Proc : pc[p] \in CriticalPC => lock[user[p]] = p
  BY <1>1 DEF LockHeld
(* A step that leaves the lock and the users of all processes alone, and   *)
(* lets nobody enter a critical section.                                   *)
<1>3. ASSUME UNCHANGED <<lock, user>>, pc[q] \in CriticalPC
      PROVE  lock'[user'[q]] = q
  BY <1>2, <1>3
<1>4. ASSUME NEW p \in Proc, Acquire(p)
      PROVE  lock'[user'[q]] = q
  BY <1>2, <1>4 DEF Acquire, procVars
<1>5. ASSUME NEW p \in Proc, Release(p)
      PROVE  lock'[user'[q]] = q
  <2>1. q # p /\ pc[q] \in CriticalPC /\ lock[user[q]] = q /\ lock[user[p]] = p
    BY <1>2, <1>5 DEF Release
  <2>2. user'[q] = user[q]
    BY <1>5, <2>1 DEF Release, Return, procVars
  <2>3. QED
    BY <1>5, <2>1, <2>2 DEF Release, Unlocked
<1>6. ASSUME NEW x \in Session, NEW u \in User, StartLogin(x, u)
      PROVE  lock'[user'[q]] = q
  BY <1>2, <1>6 DEF StartLogin
<1>7. ASSUME NEW p \in CleanProc, NEW x \in Session, StartClean(p, x), lock' = lock
      PROVE  lock'[user'[q]] = q
  BY <1>2, <1>7 DEF StartClean
<1>8. ASSUME NEW p \in LoginProc, Reply(p)
      PROVE  lock'[user'[q]] = q
  BY <1>2, <1>8 DEF Reply, Return
<1>9. ASSUME NEW u \in User \cup {Nil}, ExpireOrphan(u)
      PROVE  lock'[user'[q]] = q
  BY <1>2, <1>9 DEF ExpireOrphan, procVars
<1>10. ASSUME NEW p \in LoginProc, LoginStep(p)
       PROVE  lock'[user'[q]] = q
  BY <1>3, <1>8, <1>10 DEF LoginStep, GetIp, Lookup, KickLost, Evict, SetUserId,
     SetIp, SetUserSession, SetSess, procVars
<1>11. ASSUME NEW p \in CleanProc, CleanStep(p)
       PROVE  lock'[user'[q]] = q
  BY <1>3, <1>11 DEF CleanStep, GetSess, DelSess, DelIp, Clean, procVars
<1>12. ASSUME NEW s \in Server, NEW x \in Session, Accept(s, x) \/ DealExpired(s, x)
       PROVE  lock'[user'[q]] = q
  BY <1>3, <1>7, <1>12 DEF Accept, DealExpired, procVars
<1>13. ASSUME NEW x \in Session, Insert(x) \/ BadHead(x) \/ SocketError(x)
       PROVE  lock'[user'[q]] = q
  BY <1>3, <1>7, <1>13 DEF Insert, BadHead, SocketError, procVars
<1>14. ASSUME NEW s \in Server, NEW E \in SUBSET Session, OnTimer(s, E)
       PROVE  lock'[user'[q]] = q
  BY <1>3, <1>14 DEF OnTimer, procVars
<1>15. CASE UNCHANGED vars
  BY <1>3, <1>15 DEF vars
<1>16. ASSUME NEW p \in Proc, AcquireTimeout(p) \/ ReleaseFails(p) \/ CommandFails(p)
       PROVE  FALSE
  BY <1>1, <1>16 DEF AcquireTimeout, ReleaseFails, CommandFails, Fault
<1>17. ASSUME NEW u \in User \cup {Nil}, ExpireHeld(u)
       PROVE  FALSE
  BY <1>1, <1>17 DEF ExpireHeld, Fault
<1>18. ASSUME NEW s \in Server, Crash(s)
       PROVE  FALSE
  BY <1>1, <1>18 DEF Crash, Fault
<1>19. QED
  BY <1>4, <1>5, <1>6, <1>9, <1>10, <1>11, <1>12, <1>13, <1>14, <1>15,
     <1>16, <1>17, <1>18 DEF Next, LockStep

(* While no lock expires or times out, no two processes are in the locked  *)
(* section of one user: neither two logins, nor a login and a cleanup.     *)
THEOREM MutualExclusionHolds == Spec => []MutualExclusion
<1>1. Init => LockHeld
  BY DEF Init, LockHeld, CriticalPC, LoginPC, CleanPC
<1>2. IInv /\ LockHeld => MutualExclusion
  BY DEF IInv, LockHeld, MutualExclusion, InCritical
<1>3. QED
  BY InitIInv, StepIInv, StepLockHeld, <1>1, <1>2, PTL DEF Spec

(* A lock that is not run out, and whose holder has not died, is released  *)
(* by its holder only, whatever else fails.                                *)
THEOREM OnlyHolderReleasesHolds == Spec => OnlyHolderReleases
<1> DEFINE A == \A u \in User, p \in Proc :
                  lock[u] = p /\ lock'[u] # p /\ pc'[p] = pc[p] => faults' = faults + 1
<1>1. ASSUME IInv, [Next]_vars
      PROVE  A
  <2> SUFFICES ASSUME NEW u \in User, NEW p \in Proc,
                      lock[u] = p, lock'[u] # p, pc'[p] = pc[p]
               PROVE  faults' = faults + 1
    OBVIOUS
  <2> USE NilAssumption, ProcFacts DEF IInv, TypeOK, Goto, Fault
  <2>1. ASSUME NEW q \in Proc, Acquire(q) \/ Release(q)
        PROVE  faults' = faults + 1
    BY <1>1, <2>1 DEF Acquire, Release, Unlocked
  <2>2. ASSUME lock' = lock
        PROVE  faults' = faults + 1
    BY <2>2
  <2>3. ASSUME NEW v \in User \cup {Nil}, ExpireOrphan(v)
        PROVE  faults' = faults + 1
    BY <1>1, <2>3 DEF ExpireOrphan
  <2>4. ASSUME NEW v \in User \cup {Nil}, ExpireHeld(v)
        PROVE  faults' = faults + 1
    BY <2>4 DEF ExpireHeld
  <2>5. ASSUME NEW s \in Server, Crash(s)
        PROVE  faults' = faults + 1
    BY <2>5 DEF Crash
  <2>6. ASSUME NEW q \in Proc, AcquireTimeout(q)
        PROVE  faults' = faults + 1
    BY <2>6 DEF AcquireTimeout
  <2>14. ASSUME NEW q \in Proc, ReleaseFails(q) \/ CommandFails(q)
         PROVE  faults' = faults + 1
    BY <2>14 DEF ReleaseFails, CommandFails
  <2>7. ASSUME NEW q \in LoginProc, LoginStep(q)
        PROVE  faults' = faults + 1
    BY <2>2, <2>7 DEF LoginStep, GetIp, Lookup, KickLost, Evict, SetUserId,
       SetIp, SetUserSession, SetSess, Reply
  <2>8. ASSUME NEW q \in CleanProc, CleanStep(q)
        PROVE  faults' = faults + 1
    BY <2>2, <2>8 DEF CleanStep, GetSess, DelSess, DelIp, Clean
  <2>9. ASSUME NEW s \in Server, NEW x \in Session, Accept(s, x) \/ DealExpired(s, x)
        PROVE  faults' = faults + 1
    BY <2>2, <2>9 DEF Accept, DealExpired
  <2>10. ASSUME NEW x \in Session, Insert(x) \/ BadHead(x) \/ SocketError(x)
         PROVE  faults' = faults + 1
    BY <2>2, <2>10 DEF Insert, BadHead, SocketError
  <2>11. ASSUME NEW x \in Session, NEW v \in User, StartLogin(x, v)
         PROVE  faults' = faults + 1
    BY <2>2, <2>11 DEF StartLogin
  <2>12. ASSUME NEW s \in Server, NEW E \in SUBSET Session, OnTimer(s, E)
         PROVE  faults' = faults + 1
    BY <2>2, <2>12 DEF OnTimer
  <2>13. CASE UNCHANGED vars
    BY <2>2, <2>13 DEF vars
  <2>15. QED
    BY <1>1, <2>1, <2>3, <2>4, <2>5, <2>6, <2>14, <2>7, <2>8, <2>9, <2>10, <2>11, <2>12, <2>13
    DEF Next, LockStep
<1>2. IInv /\ [Next]_vars => [A]_vars
  BY <1>1
<1>3. QED
  BY InitIInv, StepIInv, <1>2, PTL DEF Spec, OnlyHolderReleases

-----------------------------------------------------------------------------

(* The handler of session x before it has bound x to the user, and from    *)
(* there until it replies.                                                 *)
UnboundPC == {"idle", "acquire", "getip", "lookup", "evict", "setuid"}
BoundPC   == {"setip", "setuser", "setsess", "release"}

BindInv ==
  /\ BoundToItsUser
  /\ \A x \in Session : pc[Login(x)] \notin {"idle", "done"} => sess[Login(x)] = x
  /\ \A x \in Session : home[x] = Nil =>
       /\ x \notin sessions \cup accepting
       /\ pc[Login(x)] = "idle" /\ uid[x] = Nil
  /\ \A x \in Session : pc[Login(x)] \in UnboundPC => uid[x] = Nil
  /\ \A x \in Session : pc[Login(x)] \in BoundPC => uid[x] = user[Login(x)]
  /\ \A x \in accepting : pc[Login(x)] = "idle" /\ x \notin sessions

(* The parts of the invariant of one user.                                 *)
At(u, S) == \E p \in Proc : user[p] = u /\ pc[p] \in S

PairAgrees(u) ==
  IF usession[u] = Nil THEN uip[u] = Nil ELSE uip[u] = home[usession[u]]

(* No live session of u but x; x may be Nil.                               *)
LiveOnly(u, x) == \A y \in Session : LoggedIn(y, u) => y = x

UserInv(u) ==
  /\ ~At(u, {"setuser", "setsess", "delip"}) => PairAgrees(u)
  /\ ~At(u, {"setsess", "delip", "clean"}) => LiveOnly(u, usession[u])

ProcInv(p) ==
  /\ pc[p] = "lookup" => uip[user[p]] = peer[p]
  /\ pc[p] = "evict" => LiveOnly(user[p], old[p])
  /\ pc[p] \in {"setuid", "setip", "setuser"} => LiveOnly(user[p], Nil)
  /\ pc[p] \in {"setuser", "setsess"} => uip[user[p]] = home[sess[p]]
  /\ pc[p] = "setsess" => LiveOnly(user[p], sess[p])
  /\ pc[p] \in {"delsess", "delip"} => user[p] \in User
  /\ pc[p] = "delsess" => usession[user[p]] = sess[p]
  /\ pc[p] = "delip" => usession[user[p]] = Nil /\ LiveOnly(user[p], sess[p])
  /\ pc[p] = "clean" /\ user[p] \in User =>
       \/ LiveOnly(user[p], usession[user[p]])
       \/ usession[user[p]] = Nil /\ LiveOnly(user[p], sess[p])

RegistryInv ==
  faults = 0 => (\A u \in User : UserInv(u)) /\ (\A p \in Proc : ProcInv(p))

(* Every login process is the handler of one session.                      *)
LEMMA LoginFacts ==
  /\ \A p \in LoginProc : \E x \in Session : p = Login(x)
  /\ \A x, y \in Session : Login(x) = Login(y) => x = y
  /\ \A x \in Session, p \in CleanProc : p # Login(x)
BY DEF Login, LoginProc, CleanProc

(* CleanSession takes a session and entries away and adds none.            *)
LEMMA CleanSessionShrinks ==
  ASSUME TypeOK, NEW x \in Session, CleanSession(x)
  PROVE  /\ sessions' = sessions \ {x}
         /\ \A s \in Server, u \in User : userMgr'[s][u] \in {userMgr[s][u], Nil}
         /\ \A s \in Server, u \in User :
              userMgr[s][u] \in sessions \ {x} => userMgr'[s][u] = userMgr[s][u]
<1>1. userMgr \in [Server -> [User -> Session \cup {Nil}]]
  BY DEF TypeOK
<1>2. sessions' = sessions \ {x}
  BY DEF CleanSession
<1>3. userMgr' = userMgr \/
        /\ userMgr' = [userMgr EXCEPT ![home[x]][uid[x]] = Nil]
        /\ userMgr[home[x]][uid[x]] \notin sessions \ {x}
  BY DEF CleanSession, RmvUserSession, GetSession
<1>4. CASE userMgr' = userMgr
  BY <1>2, <1>4
<1>5. CASE /\ userMgr' = [userMgr EXCEPT ![home[x]][uid[x]] = Nil]
           /\ userMgr[home[x]][uid[x]] \notin sessions \ {x}
  <2>1. ASSUME NEW s \in Server, NEW u \in User
        PROVE  userMgr'[s][u] = IF s = home[x] /\ u = uid[x] THEN Nil ELSE userMgr[s][u]
    BY <1>1, <1>5
  <2>2. QED
    BY <1>2, <1>5, <2>1
<1>6. QED
  BY <1>3, <1>4, <1>5

LEMMA InitBindInv == Init => BindInv
BY NilAssumption, ProcFacts DEF Init, BindInv, BoundToItsUser, UnboundPC, BoundPC

LEMMA StepBindInv ==
  ASSUME IInv, BindInv, [Next]_vars
  PROVE  BindInv'
<1> USE NilAssumption, ProcFacts, LoginFacts DEF IInv, TypeOK, LocalsOK, BindInv,
      BoundToItsUser, UnboundPC, BoundPC, Goto, Fault, netVars, sessVars,
      redisVars, procVars, PC, LoginPC, CleanPC, CriticalPC
<1>1. ASSUME NEW s \in Server, NEW x \in Session, Accept(s, x)
      PROVE  BindInv'
  BY <1>1 DEF Accept
<1>2. ASSUME NEW s \in Server, NEW x \in Session, DealExpired(s, x)
      PROVE  BindInv'
  BY <1>2 DEF DealExpired, StartClean
<1>3. ASSUME NEW x \in Session, Insert(x)
      PROVE  BindInv'
  BY <1>3 DEF Insert
<1>4. ASSUME NEW x \in Session, BadHead(x)
      PROVE  BindInv'
  BY <1>4, CleanSessionShrinks DEF BadHead
<1>5. ASSUME NEW x \in Session, SocketError(x)
      PROVE  BindInv'
  BY <1>5 DEF SocketError, StartClean
<1>6. ASSUME NEW x \in Session, NEW u \in User, StartLogin(x, u)
      PROVE  BindInv'
  BY <1>6 DEF StartLogin
<1>7. ASSUME NEW s \in Server, NEW E \in SUBSET Session, OnTimer(s, E)
      PROVE  BindInv'
  BY <1>7 DEF OnTimer
<1>8. ASSUME NEW p \in Proc, Acquire(p)
      PROVE  BindInv'
  BY <1>8 DEF Acquire
<1>9. ASSUME NEW p \in Proc, AcquireTimeout(p)
      PROVE  BindInv'
  BY <1>9 DEF AcquireTimeout
<1>10. ASSUME NEW p \in Proc, Release(p)
      PROVE  BindInv'
  <2>2. CASE p \in LoginProc
    BY <1>10, <2>2 DEF Release
  <2>3. CASE p \notin LoginProc
    <3>2. \A x \in Session : sess'[Login(x)] = sess[Login(x)] /\ user'[Login(x)] = user[Login(x)] /\ pc'[Login(x)] = pc[Login(x)]
      BY <1>10, <2>3 DEF Release, Return
    <3>4. QED
      BY <1>10, <2>3, <3>2 DEF Release
  <2>4. QED
    BY <2>2, <2>3
<1>11. ASSUME NEW p \in LoginProc, GetIp(p)
      PROVE  BindInv'
  BY <1>11 DEF GetIp
<1>12. ASSUME NEW p \in LoginProc, Lookup(p)
      PROVE  BindInv'
  BY <1>12 DEF Lookup
<1>13. ASSUME NEW p \in LoginProc, KickLost(p)
      PROVE  BindInv'
  BY <1>13 DEF KickLost
<1>14. ASSUME NEW p \in LoginProc, Evict(p)
      PROVE  BindInv'
  BY <1>14, CleanSessionShrinks DEF Evict
<1>15. ASSUME NEW p \in LoginProc, SetUserId(p)
      PROVE  BindInv'
  BY <1>15 DEF SetUserId
<1>16. ASSUME NEW p \in LoginProc, SetIp(p)
      PROVE  BindInv'
  BY <1>16 DEF SetIp
<1>17. ASSUME NEW p \in LoginProc, SetUserSession(p)
      PROVE  BindInv'
  <2>1. PICK x \in Session : p = Login(x) /\ sess[p] = x /\ home[x] \in Server
    <3>1. PICK x \in Session : p = Login(x)
      BY <1>17
    <3>2. pc[p] = "setuser"
      BY <1>17 DEF SetUserSession
    <3>3. sess[p] = x /\ home[x] \in Server
      BY <3>1, <3>2
    <3>4. QED
      BY <3>1, <3>3
  <2>2. \A t \in Server, u \in User :
          userMgr'[t][u] = IF t = home[x] /\ u = user[p] THEN x ELSE userMgr[t][u]
    BY <1>17, <2>1 DEF SetUserSession
  <2>3. BoundToItsUser'
    BY <1>17, <2>1, <2>2 DEF SetUserSession
  <2>4. QED
    BY <1>17, <2>1, <2>3 DEF SetUserSession
<1>18. ASSUME NEW p \in LoginProc, SetSess(p)
      PROVE  BindInv'
  BY <1>18 DEF SetSess
<1>19. ASSUME NEW p \in LoginProc, Reply(p)
      PROVE  BindInv'
  BY <1>19 DEF Reply, Return
<1>20. ASSUME NEW p \in CleanProc, GetSess(p)
      PROVE  BindInv'
  BY <1>20 DEF GetSess
<1>21. ASSUME NEW p \in CleanProc, DelSess(p)
      PROVE  BindInv'
  BY <1>21 DEF DelSess
<1>22. ASSUME NEW p \in CleanProc, DelIp(p)
      PROVE  BindInv'
  BY <1>22 DEF DelIp
<1>23. ASSUME NEW p \in CleanProc, Clean(p)
      PROVE  BindInv'
  BY <1>23, CleanSessionShrinks DEF Clean
<1>24. ASSUME NEW u \in User \cup {Nil}, ExpireHeld(u)
      PROVE  BindInv'
  BY <1>24 DEF ExpireHeld
<1>25. ASSUME NEW u \in User \cup {Nil}, ExpireOrphan(u)
      PROVE  BindInv'
  BY <1>25 DEF ExpireOrphan
<1>26. ASSUME NEW s \in Server, Crash(s)
      PROVE  BindInv'
  <2>1. \A x \in Session : IF home[x] = s
          THEN pc'[Login(x)] = "done" /\ x \notin sessions' \cup accepting'
          ELSE /\ pc'[Login(x)] = pc[Login(x)]
               /\ sess'[Login(x)] = sess[Login(x)]
               /\ user'[Login(x)] = user[Login(x)]
    <3>1. TAKE x \in Session
    <3>2. Login(x) \in OnServer(s) <=> home[x] = s
      BY DEF OnServer, Login, Timer
    <3>3. QED
      BY <1>26, <3>2 DEF Crash, Return
  <2>2. \A t \in Server, u \in User : userMgr'[t][u] \in {userMgr[t][u], Nil}
    BY <1>26 DEF Crash
  <2>3. /\ UNCHANGED <<home, uid, usession>>
        /\ sessions' \subseteq sessions /\ accepting' \subseteq accepting
    BY <1>26 DEF Crash
  <2>4. BoundToItsUser'
    BY <2>2, <2>3
  <2>5. /\ \A x \in Session : pc'[Login(x)] \notin {"idle", "done"} => sess'[Login(x)] = x
        /\ \A x \in Session : home'[x] = Nil =>
             x \notin sessions' \cup accepting' /\ pc'[Login(x)] = "idle" /\ uid'[x] = Nil
    BY <2>1, <2>3
  <2>6. /\ \A x \in Session : pc'[Login(x)] \in UnboundPC => uid'[x] = Nil
        /\ \A x \in Session : pc'[Login(x)] \in BoundPC => uid'[x] = user'[Login(x)]
    BY <2>1, <2>3
  <2>7. \A x \in accepting' : pc'[Login(x)] = "idle" /\ x \notin sessions'
    BY <2>1, <2>3
  <2>8. QED
    BY <2>4, <2>5, <2>6, <2>7
<1>27. CASE UNCHANGED vars
  BY <1>27 DEF vars
<1>28. ASSUME NEW p \in Proc, CommandFails(p)
       PROVE  BindInv'
  <2>1. UNCHANGED <<home, sessions, accepting, uid, userMgr, usession, sess, user>>
    BY <1>28 DEF CommandFails
  <2>2. \A x \in Session : \/ pc'[Login(x)] = pc[Login(x)]
                           \/ pc[Login(x)] = "getip" /\ pc'[Login(x)] = "setuid"
                           \/ pc[Login(x)] = "setip" /\ pc'[Login(x)] = "setuser"
                           \/ pc[Login(x)] = "setsess" /\ pc'[Login(x)] = "release"
    BY <1>28 DEF CommandFails
  <2>3. BoundToItsUser'
    BY <2>1
  <2>4. ASSUME NEW x \in Session
        PROVE  /\ pc'[Login(x)] \notin {"idle", "done"} => sess[Login(x)] = x
               /\ home[x] = Nil => pc'[Login(x)] = "idle"
               /\ pc'[Login(x)] \in UnboundPC => uid[x] = Nil
               /\ pc'[Login(x)] \in BoundPC => uid[x] = user[Login(x)]
               /\ x \in accepting => pc'[Login(x)] = "idle"
    BY <2>2
  <2>5. accepting \subseteq Session
    OBVIOUS
  <2>6. QED
    BY <2>1, <2>3, <2>4, <2>5
<1>29. ASSUME NEW p \in Proc, ReleaseFails(p)
       PROVE  BindInv'
  <2>1. CASE p \in LoginProc
    BY <1>29, <2>1 DEF ReleaseFails
  <2>2. CASE p \notin LoginProc
    <3>1. \A x \in Session : sess'[Login(x)] = sess[Login(x)] /\ user'[Login(x)] = user[Login(x)] /\ pc'[Login(x)] = pc[Login(x)]
      BY <1>29, <2>2 DEF ReleaseFails, Return
    <3>2. QED
      BY <1>29, <2>2, <3>1 DEF ReleaseFails
  <2>3. QED
    BY <2>1, <2>2
<1>30. QED
  BY <1>28, <1>29, <1>1, <1>2, <1>3, <1>4, <1>5, <1>6, <1>7, <1>8, <1>9, <1>10, <1>11, <1>12, <1>13, <1>14, <1>15, <1>16, <1>17, <1>18, <1>19, <1>20, <1>21, <1>22, <1>23, <1>24, <1>25, <1>26, <1>27
  DEF Next, LockStep, LoginStep, CleanStep

(* Whatever fails, a session is registered, in UserMgr and in Redis, only  *)
(* for the user it logged in as and only on the server it is connected to. *)
THEOREM BoundToItsUserHolds == Spec => []BoundToItsUser
<1>1. BindInv => BoundToItsUser
  BY DEF BindInv
<1>2. QED
  BY InitIInv, StepIInv, InitBindInv, StepBindInv, <1>1, PTL DEF Spec

-----------------------------------------------------------------------------
(* Steps that do not write what the registry knows of u: its keys stay,    *)
(* and its live sessions may be lost but not gained.                       *)
Calm(u) ==
  /\ uip'[u] = uip[u] /\ usession'[u] = usession[u]
  /\ \A y \in Session : LoggedIn(y, u)' => LoggedIn(y, u)

Still(q) ==
  /\ pc'[q] = pc[q]
  /\ sess'[q] = sess[q] /\ user'[q] = user[q]
  /\ peer'[q] = peer[q] /\ old'[q] = old[q]

HomesKept == \A y \in Session : home[y] # Nil => home'[y] = home[y]

(* Where a process may know more about its user than UserInv says.         *)
WritingPC == {"setuser", "setsess", "delip", "clean"}

LEMMA CalmUser ==
  ASSUME IInv, BindInv, NEW u \in User, UserInv(u), Calm(u), HomesKept,
         \A S \in SUBSET WritingPC : At(u, S) => At(u, S)'
  PROVE  UserInv(u)'
<1> DEFINE S1 == {"setuser", "setsess", "delip"}
           S2 == {"setsess", "delip", "clean"}
<1>1. S1 \in SUBSET WritingPC /\ S2 \in SUBSET WritingPC
  BY DEF WritingPC
<1>2. usession[u] # Nil => usession[u] \in Session /\ home[usession[u]] # Nil
  BY NilAssumption DEF IInv, TypeOK, BindInv, BoundToItsUser
<1>3. PairAgrees(u) => PairAgrees(u)'
  BY <1>2 DEF PairAgrees, Calm, HomesKept
<1>4. LiveOnly(u, usession[u]) => LiveOnly(u, usession[u])'
  BY DEF LiveOnly, Calm
<1>5. (At(u, S1) => At(u, S1)') /\ (At(u, S2) => At(u, S2)')
  BY <1>1
<1>6. QED
  BY <1>3, <1>4, <1>5 DEF UserInv

LEMMA CalmProc ==
  ASSUME IInv, BindInv, NEW q \in Proc, ProcInv(q), Still(q), HomesKept,
         user[q] \in User => Calm(user[q])
  PROVE  ProcInv(q)'
<1>1. pc[q] \in LoginPC => user[q] \in User /\ sess[q] \in Session /\ home[sess[q]] # Nil
  BY ProcFacts, LoginFacts DEF IInv, LocalsOK, BindInv, Proc, LoginPC
<1>2. ASSUME NEW x, user[q] \in User, LiveOnly(user[q], x)
      PROVE  LiveOnly(user[q], x)'
  BY <1>2 DEF LiveOnly, Calm, Still
<1>3. pc[q] \in {"setuser", "setsess"} => home'[sess[q]] = home[sess[q]]
  BY <1>1 DEF HomesKept, LoginPC
<1>4. user[q] \in User => uip'[user[q]] = uip[user[q]] /\ usession'[user[q]] = usession[user[q]]
  BY DEF Calm
<1>5. QED
  BY <1>1, <1>2, <1>3, <1>4 DEF ProcInv, LoginPC, Still

(* A step of p outside the writing part of the locked section.             *)
LEMMA Quiet ==
  ASSUME IInv, BindInv, NEW p \in Proc, pc[p] \notin WritingPC,
         \A q \in Proc : ProcInv(q), \A u \in User : UserInv(u),
         \A q \in Proc \ {p} : Still(q), \A u \in User : Calm(u), HomesKept
  PROVE  /\ \A u \in User : UserInv(u)'
         /\ \A q \in Proc \ {p} : ProcInv(q)'
<1>1. ASSUME NEW u \in User
      PROVE  UserInv(u)'
  <2>1. ASSUME NEW S \in SUBSET WritingPC, At(u, S)
        PROVE  At(u, S)'
    <3>1. PICK q \in Proc : user[q] = u /\ pc[q] \in S
      BY <2>1 DEF At
    <3>2. user'[q] = u /\ pc'[q] \in S
      BY <3>1 DEF Still
    <3>3. QED
      BY <3>2 DEF At
  <2>2. QED
    BY <2>1, CalmUser
<1>2. QED
  BY <1>1, CalmProc

(* A step of p in the locked section of its user, alone as it is there.    *)
LEMMA InSection ==
  ASSUME IInv, BindInv, NEW p \in Proc, pc[p] \in CriticalPC, user'[p] = user[p],
         \A q \in Proc : pc[q] \in CriticalPC => lock[user[q]] = q,
         \A q \in Proc : ProcInv(q), \A u \in User : UserInv(u),
         \A q \in Proc \ {p} : Still(q),
         \A u \in User \ {user[p]} : Calm(u), HomesKept
  PROVE  /\ \A u \in User \ {user[p]} : UserInv(u)'
         /\ \A q \in Proc \ {p} : ProcInv(q)'
<1>1. ASSUME NEW u \in User \ {user[p]}
      PROVE  UserInv(u)'
  <2>1. ASSUME NEW S \in SUBSET WritingPC, At(u, S)
        PROVE  At(u, S)'
    <3>1. PICK q \in Proc : user[q] = u /\ pc[q] \in S
      BY <2>1 DEF At
    <3>2. user'[q] = u /\ pc'[q] \in S
      BY <3>1 DEF Still
    <3>3. QED
      BY <3>2 DEF At
  <2>2. QED
    BY <2>1, CalmUser
<1>2. ASSUME NEW q \in Proc \ {p}, user[q] = user[p]
      PROVE  ProcInv(q)'
  <2>1. pc'[q] \notin CriticalPC
    BY <1>2 DEF Still
  <2>2. QED
    BY <2>1 DEF ProcInv, CriticalPC, LoginPC, CleanPC
<1>3. ASSUME NEW q \in Proc \ {p}, user[q] # user[p]
      PROVE  ProcInv(q)'
  BY <1>3, CalmProc
<1>4. QED
  BY <1>1, <1>2, <1>3

(* A session of u that is live is one u has logged in on.                  *)
LEMMA LiveIsBound ==
  ASSUME IInv, BindInv, NEW u \in User, NEW y \in Session, LoggedIn(y, u)
  PROVE  uid[y] = u /\ home[y] \in Server /\ userMgr[home[y]][u] = y /\ y \in sessions
BY NilAssumption DEF IInv, TypeOK, BindInv, BoundToItsUser, LoggedIn

(* CleanSession is calm for every user, and x is not live after it.        *)
LEMMA CleanSessionCalm ==
  ASSUME IInv, BindInv, NEW x \in Session, CleanSession(x), home' = home
  PROVE  \A u \in User, y \in Session : LoggedIn(y, u)' => LoggedIn(y, u) /\ y # x
<1>1. TAKE u \in User, y \in Session
<1>2. HAVE LoggedIn(y, u)'
<1>3. y \in sessions /\ y # x
  BY <1>2, CleanSessionShrinks DEF IInv, LoggedIn
<1>4. home[y] \in Server
  BY <1>3 DEF IInv, TypeOK, BindInv
<1>5. userMgr[home[y]][u] = y
  BY <1>2, <1>4, CleanSessionShrinks, NilAssumption DEF IInv, LoggedIn
<1>6. QED
  BY <1>3, <1>5 DEF LoggedIn

LEMMA StepRegistryInv ==
  ASSUME IInv, LockHeld, BindInv, RegistryInv, [Next]_vars
  PROVE  RegistryInv'
<1> SUFFICES ASSUME faults' = 0
             PROVE  /\ \A u \in User : UserInv(u)'
                    /\ \A q \in Proc : ProcInv(q)'
  BY DEF RegistryInv
<1> DEFINE Goal == /\ \A u \in User : UserInv(u)'
                   /\ \A q \in Proc : ProcInv(q)'
<1>1. faults = 0
  BY FaultsGrow DEF IInv
<1>2. /\ \A u \in User : UserInv(u)
      /\ \A q \in Proc : ProcInv(q)
      /\ \A q \in Proc : pc[q] \in CriticalPC => lock[user[q]] = q
  BY <1>1 DEF RegistryInv, LockHeld
(* Steps that move no process.                                             *)
<1>3. ASSUME UNCHANGED pc, UNCHANGED procVars, HomesKept, \A u \in User : Calm(u)
      PROVE  Goal
  <2>1. \A q \in Proc : Still(q)
    BY <1>3 DEF Still, procVars
  <2>2. \A q \in Proc : ProcInv(q)'
    BY <1>2, <1>3, <2>1, CalmProc
  <2>3. ASSUME NEW u \in User, NEW S \in SUBSET WritingPC, At(u, S)
        PROVE  At(u, S)'
    BY <1>3, <2>3 DEF At, procVars
  <2>4. QED
    BY <1>2, <1>3, <2>2, <2>3, CalmUser
(* Steps of one process to where it knows nothing.                         *)
<1>4. ASSUME NEW p \in Proc, pc[p] \notin WritingPC, \A q \in Proc \ {p} : Still(q),
             HomesKept, \A u \in User : Calm(u),
             pc'[p] \in {"idle", "acquire", "getip", "getsess", "reply", "done"}
      PROVE  Goal
  BY <1>2, <1>4, Quiet DEF ProcInv
(* Nothing but the locals and the program counter of p changes.            *)
<1>5. ASSUME UNCHANGED <<home, sessions, userMgr, uip, usession>>
      PROVE  HomesKept /\ \A u \in User : Calm(u)
  BY <1>5 DEF HomesKept, Calm, LoggedIn
<1>6. ASSUME NEW s \in Server, NEW x \in Session, Accept(s, x)
      PROVE  Goal
  <2>1. x \notin sessions /\ \A y \in Session \ {x} : home'[y] = home[y]
    BY <1>6 DEF Accept, IInv, TypeOK, BindInv
  <2>2. HomesKept /\ \A u \in User : Calm(u)
    BY <1>6, <2>1 DEF Accept, HomesKept, Calm, LoggedIn, redisVars
  <2>3. QED
    BY <1>3, <1>6, <2>2 DEF Accept
<1>7. ASSUME NEW x \in Session, Insert(x)
      PROVE  Goal
  <2>1. uid[x] = Nil
    BY <1>7 DEF Insert, BindInv, UnboundPC
  <2>2. ASSUME NEW u \in User, NEW y \in Session, LoggedIn(y, u)'
        PROVE  LoggedIn(y, u)
    <3>1. home[y] \in Server
      BY <1>7, <2>2 DEF Insert, LoggedIn, IInv, TypeOK, BindInv, netVars
    <3>2. userMgr[home[y]][u] = y
      BY <1>7, <2>2 DEF Insert, LoggedIn, netVars
    <3>3. y # x
      BY <2>1, <3>1, <3>2, NilAssumption DEF BindInv, BoundToItsUser
    <3>4. QED
      BY <1>7, <2>2, <3>2, <3>3 DEF Insert, LoggedIn, netVars
  <2>3. HomesKept /\ \A u \in User : Calm(u)
    BY <1>7, <2>2 DEF Insert, HomesKept, Calm, redisVars
  <2>4. QED
    BY <1>3, <1>7, <2>3 DEF Insert
<1>8. ASSUME NEW x \in Session, BadHead(x)
      PROVE  Goal
  <2>1. HomesKept /\ \A u \in User : Calm(u)
    BY <1>8, CleanSessionCalm DEF BadHead, HomesKept, Calm, redisVars, netVars
  <2>2. QED
    BY <1>3, <1>8, <2>1 DEF BadHead
<1>9. ASSUME NEW s \in Server, NEW E \in SUBSET Session, OnTimer(s, E)
      PROVE  Goal
  BY <1>3, <1>5, <1>9 DEF OnTimer, netVars
<1>10. ASSUME NEW u \in User \cup {Nil}, ExpireOrphan(u)
       PROVE  Goal
  BY <1>3, <1>5, <1>10 DEF ExpireOrphan, netVars, redisVars
<1>11. CASE UNCHANGED vars
  BY <1>3, <1>5, <1>11 DEF vars, procVars
<1>12. ASSUME NEW p \in CleanProc, NEW x \in Session, StartClean(p, x),
              UNCHANGED <<home, sessions, userMgr, uip, usession, peer, old>>
       PROVE  Goal
  <2>1. \A q \in Proc \ {p} : Still(q)
    BY <1>12 DEF StartClean, Still, IInv, TypeOK
  <2>2. pc[p] = "idle" /\ pc'[p] = "acquire"
    BY <1>12, ProcFacts DEF StartClean, IInv, TypeOK
  <2>3. QED
    BY <1>4, <1>5, <1>12, <2>1, <2>2, ProcFacts DEF WritingPC
<1>13. ASSUME NEW x \in Session, NEW u \in User, StartLogin(x, u)
       PROVE  Goal
  <2> DEFINE p == Login(x)
  <2>1. p \in Proc
    BY ProcFacts
  <2>2. \A q \in Proc \ {p} : Still(q)
    BY <1>13, <2>1 DEF StartLogin, Still, IInv, TypeOK
  <2>3. pc[p] = "idle" /\ pc'[p] \in {"acquire", "reply"}
    BY <1>13, <2>1 DEF StartLogin, IInv, TypeOK
  <2>4. HomesKept /\ \A v \in User : Calm(v)
    BY <1>5, <1>13 DEF StartLogin, netVars, redisVars
  <2>5. QED
    BY <1>4, <2>1, <2>2, <2>3, <2>4 DEF WritingPC
<1>14. ASSUME NEW p \in Proc, Acquire(p) \/ Release(p) \/ (p \in LoginProc /\ Reply(p))
       PROVE  Goal
  <2>1. /\ pc[p] \in {"acquire", "release", "reply"}
        /\ pc'[p] \in {"idle", "acquire", "getip", "getsess", "reply", "done"}
    BY <1>14 DEF Acquire, Release, Reply, Goto, IInv, TypeOK
  <2>2. \A q \in Proc \ {p} : Still(q)
    BY <1>14 DEF Acquire, Release, Reply, Goto, Return, Still, procVars, IInv, TypeOK
  <2>3. HomesKept /\ \A v \in User : Calm(v)
    BY <1>5, <1>14 DEF Acquire, Release, Reply, netVars, redisVars
  <2>4. QED
    BY <1>4, <2>1, <2>2, <2>3 DEF WritingPC
(* The locked section.  Its only process p works for user u.               *)
<1>15. ASSUME NEW p \in Proc, pc[p] \in CriticalPC, NEW u \in User, user[p] = u,
              NEW S \in SUBSET CriticalPC, At(u, S)
       PROVE  pc[p] \in S
  BY <1>2, <1>15 DEF At
<1>16. ASSUME NEW p \in LoginProc, GetIp(p)
       PROVE  Goal
  <2> PICK u \in User \cup {Nil} : user[p] = u
    BY ProcFacts DEF IInv, TypeOK
  <2>1. pc[p] = "getip" /\ u \in User /\ p \in Proc
    BY <1>16, ProcFacts DEF GetIp, Goto, IInv, LocalsOK, LoginPC
  <2>2. PairAgrees(u) /\ LiveOnly(u, usession[u])
    BY <1>2, <1>15, <2>1 DEF UserInv, CriticalPC, LoginPC, CleanPC
  <2>3. uip[u] = Nil => LiveOnly(u, Nil)
    BY <2>1, <2>2, NilAssumption DEF PairAgrees, IInv, TypeOK, BindInv, BoundToItsUser
  <2>4. \A q \in Proc \ {p} : Still(q)
    BY <1>16, <2>1 DEF GetIp, Goto, Still, IInv, TypeOK
  <2>5. /\ user'[p] = u /\ peer'[p] = uip[u]
        /\ pc'[p] = IF uip[u] = Nil THEN "setuid" ELSE "lookup"
    BY <1>16, <2>1 DEF GetIp, Goto, IInv, TypeOK
  <2>6. HomesKept /\ \A v \in User : Calm(v)
    BY <1>5, <1>16 DEF GetIp, netVars, redisVars
  <2>7. LiveOnly(u, Nil) => LiveOnly(u, Nil)'
    BY <2>1, <2>6 DEF LiveOnly, Calm
  <2>8. ProcInv(p)'
    BY <2>1, <2>3, <2>5, <2>6, <2>7 DEF ProcInv, Calm
  <2>9. QED
    BY <1>2, <2>1, <2>4, <2>6, <2>8, Quiet DEF WritingPC
<1>17. ASSUME NEW p \in LoginProc, Lookup(p)
       PROVE  Goal
  <2> PICK u \in User \cup {Nil} : user[p] = u
    BY ProcFacts DEF IInv, TypeOK
  <2>1. pc[p] = "lookup" /\ u \in User /\ p \in Proc /\ peer[p] \in Server
    BY <1>17, ProcFacts DEF Lookup, Goto, IInv, LocalsOK, LoginPC
  <2>2. PICK y \in GetSession(peer[p], u) :
          /\ old' = [old EXCEPT ![p] = y]
          /\ Goto(p, "lookup", IF y = Nil THEN "setuid" ELSE "evict")
    BY <1>17 DEF Lookup
  <2>3. PairAgrees(u) /\ LiveOnly(u, usession[u])
    BY <1>2, <1>15, <2>1 DEF UserInv, CriticalPC, LoginPC, CleanPC
  <2>4. usession[u] # Nil /\ home[usession[u]] = peer[p]
    BY <1>2, <2>1, <2>3, NilAssumption DEF PairAgrees, ProcInv
  <2>5. LiveOnly(u, y)
    <3>1. SUFFICES ASSUME NEW x \in Session, LoggedIn(x, u)
                   PROVE  x = y
      BY DEF LiveOnly
    <3>2. x = usession[u] /\ userMgr[peer[p]][u] = x /\ x \in sessions
      BY <2>3, <2>4, <3>1 DEF LiveOnly, LoggedIn
    <3>3. QED
      BY <2>2, <3>2 DEF GetSession
  <2>6. \A q \in Proc \ {p} : Still(q)
    BY <1>17, <2>1, <2>2 DEF Lookup, Goto, Still, IInv, TypeOK
  <2>7. /\ user'[p] = u /\ old'[p] = y
        /\ pc'[p] = IF y = Nil THEN "setuid" ELSE "evict"
    BY <1>17, <2>1, <2>2 DEF Lookup, Goto, IInv, TypeOK
  <2>8. HomesKept /\ \A v \in User : Calm(v)
    BY <1>5, <1>17 DEF Lookup, netVars, redisVars
  <2>9. LiveOnly(u, y)'
    BY <2>1, <2>5, <2>8 DEF LiveOnly, Calm
  <2>10. ProcInv(p)'
    BY <2>1, <2>7, <2>9 DEF ProcInv
  <2>11. QED
    BY <1>2, <2>1, <2>6, <2>8, <2>10, Quiet DEF WritingPC
<1>18. ASSUME NEW p \in LoginProc, Evict(p)
       PROVE  Goal
  <2> PICK u \in User \cup {Nil} : user[p] = u
    BY ProcFacts DEF IInv, TypeOK
  <2>1. /\ pc[p] = "evict" /\ u \in User /\ p \in Proc
        /\ old[p] \in Session /\ CleanSession(old[p])
    BY <1>18, ProcFacts DEF Evict, Goto, IInv, LocalsOK, LoginPC
  <2>2. \A v \in User, y \in Session : LoggedIn(y, v)' => LoggedIn(y, v) /\ y # old[p]
    BY <1>18, <2>1, CleanSessionCalm DEF Evict, netVars
  <2>3. HomesKept /\ \A v \in User : Calm(v)
    BY <1>18, <2>2 DEF Evict, netVars, redisVars, HomesKept, Calm
  <2>4. LiveOnly(u, Nil)'
    BY <1>2, <2>1, <2>2 DEF ProcInv, LiveOnly
  <2>5. user'[p] = u /\ pc'[p] = "setuid"
    BY <1>18, <2>1 DEF Evict, Goto, procVars, IInv, TypeOK
  <2>6. ProcInv(p)'
    BY <2>4, <2>5 DEF ProcInv
  <2>7. \A q \in Proc \ {p} : Still(q)
    BY <1>18, <2>1 DEF Evict, Goto, Still, procVars, IInv, TypeOK
  <2>8. QED
    BY <1>2, <2>1, <2>3, <2>6, <2>7, Quiet DEF WritingPC
<1>19. ASSUME NEW p \in LoginProc, SetUserId(p)
       PROVE  Goal
  <2> PICK u \in User \cup {Nil} : user[p] = u
    BY ProcFacts DEF IInv, TypeOK
  <2>1. pc[p] = "setuid" /\ u \in User /\ p \in Proc
    BY <1>19, ProcFacts DEF SetUserId, Goto, IInv, LocalsOK, LoginPC
  <2>2. \A q \in Proc \ {p} : Still(q)
    BY <1>19, <2>1 DEF SetUserId, Goto, Still, procVars, IInv, TypeOK
  <2>3. user'[p] = u /\ pc'[p] = "setip"
    BY <1>19, <2>1 DEF SetUserId, Goto, procVars, IInv, TypeOK
  <2>4. HomesKept /\ \A v \in User : Calm(v)
    BY <1>5, <1>19 DEF SetUserId, netVars, redisVars
  <2>5. LiveOnly(u, Nil)'
    BY <1>2, <2>1, <2>4 DEF ProcInv, LiveOnly, Calm
  <2>6. ProcInv(p)'
    BY <2>3, <2>5 DEF ProcInv
  <2>7. QED
    BY <1>2, <2>1, <2>2, <2>4, <2>6, Quiet DEF WritingPC
<1>20. ASSUME NEW p \in CleanProc, GetSess(p)
       PROVE  Goal
  <2> PICK u \in User \cup {Nil} : user[p] = u
    BY ProcFacts DEF IInv, TypeOK
  <2>1. pc[p] = "getsess" /\ p \in Proc
    BY <1>20, ProcFacts DEF GetSess, Goto
  <2>2. /\ user'[p] = u /\ sess'[p] = sess[p]
        /\ pc'[p] = IF u # Nil /\ usession[u] = sess[p] THEN "delsess" ELSE "clean"
    BY <1>20, <2>1 DEF GetSess, Goto, procVars, IInv, TypeOK
  <2>3. \A q \in Proc \ {p} : Still(q)
    BY <1>20, <2>1 DEF GetSess, Goto, Still, procVars, IInv, TypeOK
  <2>4. HomesKept /\ \A v \in User : Calm(v)
    BY <1>5, <1>20 DEF GetSess, netVars, redisVars
  <2>5. u \in User => LiveOnly(u, usession[u])
    BY <1>2, <1>15, <2>1 DEF UserInv, CriticalPC, LoginPC, CleanPC
  <2>6. u \in User => LiveOnly(u, usession[u])' /\ usession'[u] = usession[u]
    BY <2>4, <2>5 DEF LiveOnly, Calm
  <2>7. u \in User \cup {Nil}
    BY <2>1 DEF IInv, TypeOK
  <2>8. ProcInv(p)'
    BY <2>2, <2>6, <2>7 DEF ProcInv
  <2>9. QED
    BY <1>2, <2>1, <2>3, <2>4, <2>8, Quiet DEF WritingPC
<1>21. ASSUME NEW p \in LoginProc, SetIp(p)
       PROVE  Goal
  <2> PICK u \in User \cup {Nil} : user[p] = u
    BY ProcFacts DEF IInv, TypeOK
  <2>1. pc[p] = "setip" /\ u \in User /\ p \in Proc
    BY <1>21, ProcFacts DEF SetIp, Goto, IInv, LocalsOK, LoginPC
  <2>2. /\ user'[p] = u /\ sess'[p] = sess[p] /\ pc'[p] = "setuser"
        /\ uip'[u] = home[sess[p]] /\ home' = home /\ usession' = usession
    BY <1>21, <2>1 DEF SetIp, Goto, procVars, netVars, IInv, TypeOK
  <2>3. \A q \in Proc \ {p} : Still(q)
    BY <1>21, <2>1 DEF SetIp, Goto, Still, procVars, IInv, TypeOK
  <2>4. HomesKept /\ \A v \in User \ {u} : Calm(v)
    BY <1>21, <2>1 DEF SetIp, HomesKept, Calm, LoggedIn, netVars, IInv, TypeOK
  <2>5. \A x : LiveOnly(u, x) => LiveOnly(u, x)'
    BY <1>21 DEF SetIp, LiveOnly, LoggedIn, netVars
  <2>6. LiveOnly(u, Nil) /\ LiveOnly(u, usession[u])
    BY <1>2, <1>15, <2>1 DEF ProcInv, UserInv, CriticalPC, LoginPC, CleanPC
  <2>7. UserInv(u)'
    BY <2>1, <2>2, <2>5, <2>6 DEF UserInv, At
  <2>8. ProcInv(p)'
    BY <2>2, <2>5, <2>6 DEF ProcInv
  <2>9. QED
    BY <1>2, <2>1, <2>2, <2>3, <2>4, <2>7, <2>8, InSection DEF CriticalPC, LoginPC
<1>22. ASSUME NEW p \in LoginProc, SetUserSession(p)
       PROVE  Goal
  <2> PICK u \in User \cup {Nil} : user[p] = u
    BY ProcFacts DEF IInv, TypeOK
  <2>1. pc[p] = "setuser" /\ u \in User /\ p \in Proc /\ sess[p] \in Session
    BY <1>22, ProcFacts DEF SetUserSession, Goto, IInv, LocalsOK, LoginPC
  <2>2. /\ user'[p] = u /\ sess'[p] = sess[p] /\ pc'[p] = "setsess"
        /\ uip' = uip /\ home' = home
    BY <1>22, <2>1 DEF SetUserSession, Goto, procVars, netVars, redisVars, IInv, TypeOK
  <2>3. \A q \in Proc \ {p} : Still(q)
    BY <1>22, <2>1 DEF SetUserSession, Goto, Still, procVars, IInv, TypeOK
  <2>4. \A t \in Server, v \in User : (t # home[sess[p]] \/ v # u) => userMgr'[t][v] = userMgr[t][v]
    BY <1>22, <2>1 DEF SetUserSession, IInv, TypeOK
  <2>5. \A y \in sessions : home[y] \in Server
    BY DEF IInv, TypeOK, BindInv
  <2>6. HomesKept /\ \A v \in User \ {u} : Calm(v)
    BY <1>22, <2>2, <2>4, <2>5 DEF SetUserSession, HomesKept, Calm, LoggedIn, redisVars
  <2>7. LiveOnly(u, sess[p])'
    <3>1. SUFFICES ASSUME NEW y \in Session, LoggedIn(y, u)', y # sess[p]
                   PROVE  FALSE
      BY <2>2 DEF LiveOnly
    <3>2. y \in sessions /\ userMgr'[home[y]][u] = y /\ home[y] \in Server
      BY <1>22, <2>2, <2>5, <3>1 DEF LoggedIn, SetUserSession
    <3>3. home[y] # home[sess[p]]
      BY <1>22, <2>1, <3>1, <3>2 DEF SetUserSession, IInv, TypeOK
    <3>4. LoggedIn(y, u)
      BY <2>1, <2>4, <3>2, <3>3 DEF LoggedIn
    <3>5. QED
      BY <1>2, <2>1, <3>4, NilAssumption DEF ProcInv, LiveOnly
  <2>8. UserInv(u)'
    BY <2>1, <2>2 DEF UserInv, At
  <2>9. uip[u] = home[sess[p]]
    BY <1>2, <2>1 DEF ProcInv
  <2>10. ProcInv(p)'
    BY <2>2, <2>7, <2>9 DEF ProcInv
  <2>11. QED
    BY <1>2, <2>1, <2>2, <2>3, <2>6, <2>8, <2>10, InSection DEF CriticalPC, LoginPC
<1>23. ASSUME NEW p \in LoginProc, SetSess(p)
       PROVE  Goal
  <2> PICK u \in User \cup {Nil} : user[p] = u
    BY ProcFacts DEF IInv, TypeOK
  <2>1. pc[p] = "setsess" /\ u \in User /\ p \in Proc /\ sess[p] \in Session
    BY <1>23, ProcFacts DEF SetSess, Goto, IInv, LocalsOK, LoginPC
  <2>2. /\ user'[p] = u /\ sess'[p] = sess[p] /\ pc'[p] = "release"
        /\ usession'[u] = sess[p] /\ home' = home /\ uip' = uip
    BY <1>23, <2>1 DEF SetSess, Goto, procVars, netVars, IInv, TypeOK
  <2>3. \A q \in Proc \ {p} : Still(q)
    BY <1>23, <2>1 DEF SetSess, Goto, Still, procVars, IInv, TypeOK
  <2>4. HomesKept /\ \A v \in User \ {u} : Calm(v)
    BY <1>23, <2>1 DEF SetSess, HomesKept, Calm, LoggedIn, netVars, IInv, TypeOK
  <2>5. uip[u] = home[sess[p]] /\ LiveOnly(u, sess[p])
    BY <1>2, <2>1 DEF ProcInv
  <2>6. LiveOnly(u, sess[p])'
    BY <1>23, <2>2, <2>5 DEF SetSess, LiveOnly, LoggedIn
  <2>7. UserInv(u)'
    BY <2>1, <2>2, <2>5, <2>6, NilAssumption DEF UserInv, PairAgrees, LiveOnly
  <2>8. ProcInv(p)'
    BY <2>2 DEF ProcInv
  <2>9. QED
    BY <1>2, <2>1, <2>2, <2>3, <2>4, <2>7, <2>8, InSection DEF CriticalPC, LoginPC
<1>24. ASSUME NEW p \in CleanProc, DelSess(p)
       PROVE  Goal
  <2> PICK u \in User \cup {Nil} : user[p] = u
    BY ProcFacts DEF IInv, TypeOK
  <2>1. pc[p] = "delsess" /\ p \in Proc
    BY <1>24, ProcFacts DEF DelSess, Goto
  <2>2. u \in User /\ usession[u] = sess[p]
    BY <1>2, <2>1 DEF ProcInv
  <2>3. /\ user'[p] = u /\ sess'[p] = sess[p] /\ pc'[p] = "delip"
        /\ usession'[u] = Nil /\ home' = home
    BY <1>24, <2>1, <2>2 DEF DelSess, Goto, procVars, netVars, IInv, TypeOK
  <2>4. \A q \in Proc \ {p} : Still(q)
    BY <1>24, <2>1 DEF DelSess, Goto, Still, procVars, IInv, TypeOK
  <2>5. HomesKept /\ \A v \in User \ {u} : Calm(v)
    BY <1>24, <2>2 DEF DelSess, HomesKept, Calm, LoggedIn, netVars, IInv, TypeOK
  <2>6. LiveOnly(u, sess[p])
    BY <1>2, <1>15, <2>1, <2>2 DEF UserInv, CriticalPC, LoginPC, CleanPC
  <2>7. LiveOnly(u, sess[p])'
    BY <1>24, <2>3, <2>6 DEF DelSess, LiveOnly, LoggedIn
  <2>8. UserInv(u)'
    BY <2>1, <2>3 DEF UserInv, At
  <2>9. ProcInv(p)'
    BY <2>2, <2>3, <2>7 DEF ProcInv
  <2>10. QED
    BY <1>2, <2>1, <2>3, <2>4, <2>5, <2>8, <2>9, InSection DEF CriticalPC, CleanPC
<1>25. ASSUME NEW p \in CleanProc, DelIp(p)
       PROVE  Goal
  <2> PICK u \in User \cup {Nil} : user[p] = u
    BY ProcFacts DEF IInv, TypeOK
  <2>1. pc[p] = "delip" /\ p \in Proc
    BY <1>25, ProcFacts DEF DelIp, Goto
  <2>2. u \in User /\ usession[u] = Nil /\ LiveOnly(u, sess[p])
    BY <1>2, <2>1 DEF ProcInv
  <2>3. /\ user'[p] = u /\ sess'[p] = sess[p] /\ pc'[p] = "clean"
        /\ uip'[u] = Nil /\ home' = home /\ usession' = usession
    BY <1>25, <2>1, <2>2 DEF DelIp, Goto, procVars, netVars, IInv, TypeOK
  <2>4. \A q \in Proc \ {p} : Still(q)
    BY <1>25, <2>1 DEF DelIp, Goto, Still, procVars, IInv, TypeOK
  <2>5. HomesKept /\ \A v \in User \ {u} : Calm(v)
    BY <1>25, <2>2 DEF DelIp, HomesKept, Calm, LoggedIn, netVars, IInv, TypeOK
  <2>6. LiveOnly(u, sess[p])'
    BY <1>25, <2>2, <2>3 DEF DelIp, LiveOnly, LoggedIn
  <2>7. UserInv(u)'
    BY <2>1, <2>2, <2>3 DEF UserInv, At, PairAgrees
  <2>8. ProcInv(p)'
    BY <2>2, <2>3, <2>6 DEF ProcInv
  <2>9. QED
    BY <1>2, <2>1, <2>3, <2>4, <2>5, <2>7, <2>8, InSection DEF CriticalPC, CleanPC
<1>26. ASSUME NEW p \in CleanProc, Clean(p)
       PROVE  Goal
  <2> PICK u \in User \cup {Nil} : user[p] = u
    BY ProcFacts DEF IInv, TypeOK
  <2>1. /\ pc[p] = "clean" /\ p \in Proc
        /\ sess[p] \in Session /\ CleanSession(sess[p])
    BY <1>26, ProcFacts DEF Clean, Goto, IInv, LocalsOK
  <2>2. /\ user'[p] = u /\ sess'[p] = sess[p] /\ pc'[p] = "release"
        /\ uip' = uip /\ usession' = usession /\ home' = home
    BY <1>26, <2>1 DEF Clean, Goto, procVars, netVars, redisVars, IInv, TypeOK
  <2>3. \A q \in Proc \ {p} : Still(q)
    BY <1>26, <2>1 DEF Clean, Goto, Still, procVars, IInv, TypeOK
  <2>4. \A v \in User, y \in Session : LoggedIn(y, v)' => LoggedIn(y, v) /\ y # sess[p]
    BY <2>1, <2>2, CleanSessionCalm
  <2>5. HomesKept /\ \A v \in User \ {u} : Calm(v)
    BY <2>2, <2>4 DEF HomesKept, Calm
  <2>6. ASSUME u \in User
        PROVE  UserInv(u)'
    <3>1. PairAgrees(u)
      BY <1>2, <1>15, <2>1, <2>6 DEF UserInv, CriticalPC, LoginPC, CleanPC
    <3>2. PairAgrees(u)'
      BY <2>2, <3>1 DEF PairAgrees
    <3>3. \/ LiveOnly(u, usession[u])
          \/ usession[u] = Nil /\ LiveOnly(u, sess[p])
      BY <1>2, <2>1, <2>6 DEF ProcInv
    <3>4. LiveOnly(u, usession[u])'
      BY <2>2, <2>4, <2>6, <3>3 DEF LiveOnly
    <3>5. QED
      BY <3>2, <3>4 DEF UserInv
  <2>7. ProcInv(p)'
    BY <2>2 DEF ProcInv
  <2>8. QED
    BY <1>2, <2>1, <2>2, <2>3, <2>5, <2>6, <2>7, InSection DEF CriticalPC, CleanPC
(* The faults, which faults' = 0 excludes.                                 *)
<1>27. ASSUME NEW p \in Proc,
              AcquireTimeout(p) \/ ReleaseFails(p) \/ CommandFails(p) \/ KickLost(p)
       PROVE  FALSE
  BY <1>1, <1>27 DEF AcquireTimeout, ReleaseFails, CommandFails, KickLost, Fault
<1>28. ASSUME NEW u \in User \cup {Nil}, ExpireHeld(u)
       PROVE  FALSE
  BY <1>1, <1>28 DEF ExpireHeld, Fault
<1>29. ASSUME NEW s \in Server, Crash(s)
       PROVE  FALSE
  BY <1>1, <1>29 DEF Crash, Fault
<1>30. ASSUME NEW s \in Server, NEW x \in Session, DealExpired(s, x)
       PROVE  Goal
  BY <1>12, <1>30, ProcFacts DEF DealExpired, redisVars, netVars
<1>31. ASSUME NEW x \in Session, SocketError(x)
       PROVE  Goal
  BY <1>12, <1>31, ProcFacts DEF SocketError, redisVars
<1>32. QED
  BY <1>6, <1>7, <1>8, <1>9, <1>10, <1>11, <1>13, <1>14, <1>16, <1>17, <1>18,
     <1>19, <1>20, <1>21, <1>22, <1>23, <1>24, <1>25, <1>26, <1>27, <1>28,
     <1>29, <1>30, <1>31, ProcFacts
  DEF Next, LockStep, LoginStep, CleanStep

-----------------------------------------------------------------------------
LEMMA InitRegistryInv == Init => RegistryInv
BY DEF Init, RegistryInv, UserInv, ProcInv, PairAgrees, LiveOnly, LoggedIn

LEMMA RegistryAlways == Spec => [](IInv /\ BindInv /\ RegistryInv)
<1>1. Init => LockHeld
  BY DEF Init, LockHeld, CriticalPC, LoginPC, CleanPC
<1>2. QED
  BY InitIInv, StepIInv, StepLockHeld, InitBindInv, StepBindInv,
     InitRegistryInv, StepRegistryInv, <1>1, PTL DEF Spec

(* Until a lock expires or times out, an RPC fails or a server crashes, a  *)
(* user has at most one live login in the whole cluster.                   *)
THEOREM SingleLoginHolds == Spec => []SingleLogin
<1>1. ASSUME IInv, RegistryInv, faults = 0, NEW u \in User
      PROVE  \E x : LiveOnly(u, x)
  <2>1. UserInv(u) /\ \A p \in Proc : ProcInv(p)
    BY <1>1 DEF RegistryInv
  <2>2. CASE ~At(u, {"setsess", "delip", "clean"})
    BY <2>1, <2>2 DEF UserInv
  <2>3. CASE At(u, {"setsess", "delip", "clean"})
    BY <2>1, <2>3, <1>1 DEF At, ProcInv
  <2>4. QED
    BY <2>2, <2>3
<1>2. IInv /\ RegistryInv => SingleLogin
  BY <1>1 DEF SingleLogin, LiveOnly
<1>3. QED
  BY RegistryAlways, <1>2, PTL

(* Outside a login or cleanup of the user, the two Redis keys agree.       *)
THEOREM RedisPairAgreesHolds == Spec => []RedisPairAgrees
<1>1. RegistryInv => RedisPairAgrees
  BY DEF RegistryInv, RedisPairAgrees, UserInv, PairAgrees, At, Busy, InCritical,
     CriticalPC, LoginPC, CleanPC
<1>2. QED
  BY RegistryAlways, <1>1, PTL

(* Outside a login or cleanup of the user, the other servers can find the  *)
(* user's live login.                                                      *)
THEOREM LiveLoginIsRoutableHolds == Spec => []LiveLoginIsRoutable
<1>1. ASSUME IInv, RegistryInv, faults = 0, NEW u \in User, ~Busy(u),
             NEW x \in Session, LoggedIn(x, u)
      PROVE  uip[u] = home[x] /\ usession[u] = x
  <2>1. \A S \in SUBSET CriticalPC : ~At(u, S)
    BY <1>1 DEF Busy, InCritical, At
  <2>2. PairAgrees(u) /\ LiveOnly(u, usession[u])
    BY <1>1, <2>1 DEF RegistryInv, UserInv, CriticalPC, LoginPC, CleanPC
  <2>3. QED
    BY <1>1, <2>2, NilAssumption DEF PairAgrees, LiveOnly
<1>2. IInv /\ RegistryInv => LiveLoginIsRoutable
  BY <1>1 DEF LiveLoginIsRoutable
<1>3. QED
  BY RegistryAlways, <1>2, PTL

-----------------------------------------------------------------------------
(* CleanSession(x) leaves no entry of x behind: its entry is where uid and *)
(* home of x say, or it has none.                                          *)
LEMMA CleanSessionUnbinds ==
  ASSUME IInv, BindInv, NEW x \in sessions, CleanSession(x)
  PROVE  \A s \in Server, u \in User : userMgr'[s][u] # x
<1>1. TAKE s \in Server, u \in User
<1>2. CASE userMgr[s][u] = x
  <2>1. home[x] = s /\ uid[x] = u /\ u # Nil /\ x # Nil
    BY <1>2, NilAssumption DEF IInv, TypeOK, BindInv, BoundToItsUser
  <2>2. userMgr' = [userMgr EXCEPT ![s][u] = Nil]
    BY <1>2, <2>1 DEF CleanSession, RmvUserSession
  <2>3. QED
    BY <2>1, <2>2 DEF IInv, TypeOK
<1>3. CASE userMgr[s][u] # x
  BY <1>3, CleanSessionShrinks, NilAssumption DEF IInv, TypeOK
<1>4. QED
  BY <1>2, <1>3

(* Whatever fails, a session that leaves sessions_ leaves its UserMgr too. *)
THEOREM RemovalUnbindsHolds == Spec => RemovalUnbinds
<1> DEFINE Unbinds == \A x \in sessions \ sessions' : \A s \in Server, u \in User :
                        userMgr'[s][u] # x
<1>1. ASSUME IInv, BindInv, [Next]_vars
      PROVE  Unbinds
  <2>1. ASSUME NEW x \in Session, CleanSession(x)
        PROVE  Unbinds
    <3>1. sessions' = sessions \ {x}
      BY <2>1 DEF CleanSession
    <3>2. QED
      BY <2>1, <3>1, <1>1, CleanSessionUnbinds
  <2>2. ASSUME sessions \subseteq sessions'
        PROVE  Unbinds
    BY <2>2
  <2>3. ASSUME NEW s \in Server, Crash(s)
        PROVE  Unbinds
    <3>1. SUFFICES ASSUME NEW x \in sessions \ sessions', NEW t \in Server, NEW u \in User,
                          userMgr'[t][u] = x
                   PROVE  FALSE
      OBVIOUS
    <3>2. home[x] = s /\ x # Nil
      BY <2>3, <3>1, <1>1, NilAssumption DEF Crash, IInv, TypeOK
    <3>3. t # s /\ userMgr[t][u] = x
      BY <2>3, <3>1, <3>2, <1>1 DEF Crash, IInv, TypeOK
    <3>4. QED
      BY <3>2, <3>3, <1>1 DEF BindInv, BoundToItsUser
  <2>4. ASSUME NEW p \in LoginProc, LoginStep(p)
        PROVE  Unbinds
    <3>1. CASE Evict(p)
      BY <1>1, <2>1, <2>4, <3>1, ProcFacts DEF Evict, Goto, IInv, LocalsOK
    <3>2. CASE ~Evict(p)
      BY <2>2, <2>4, <3>2 DEF LoginStep, GetIp, Lookup, KickLost, SetUserId, SetIp,
         SetUserSession, SetSess, Reply
    <3>3. QED
      BY <3>1, <3>2
  <2>5. ASSUME NEW p \in CleanProc, CleanStep(p)
        PROVE  Unbinds
    <3>1. CASE Clean(p)
      BY <1>1, <2>1, <2>5, <3>1, ProcFacts DEF Clean, Goto, IInv, LocalsOK
    <3>2. CASE ~Clean(p)
      BY <2>2, <2>5, <3>2 DEF CleanStep, GetSess, DelSess, DelIp
    <3>3. QED
      BY <3>1, <3>2
  <2>6. ASSUME NEW x \in Session, BadHead(x)
        PROVE  Unbinds
    BY <2>1, <2>6 DEF BadHead
  <2>7. ASSUME NEW s \in Server, NEW x \in Session,
               Accept(s, x) \/ DealExpired(s, x) \/ Insert(x) \/ SocketError(x)
        PROVE  Unbinds
    BY <2>2, <2>7 DEF Accept, DealExpired, Insert, SocketError
  <2>8. ASSUME NEW x \in Session, NEW u \in User, StartLogin(x, u)
        PROVE  Unbinds
    BY <2>2, <2>8 DEF StartLogin
  <2>9. ASSUME NEW s \in Server, NEW E \in SUBSET Session, OnTimer(s, E)
        PROVE  Unbinds
    BY <2>2, <2>9 DEF OnTimer
  <2>10. ASSUME NEW p \in Proc, LockStep(p) \/ CommandFails(p)
         PROVE  Unbinds
    BY <2>2, <2>10 DEF LockStep, Acquire, AcquireTimeout, Release, ReleaseFails, CommandFails
  <2>11. ASSUME NEW u \in User \cup {Nil}, ExpireHeld(u) \/ ExpireOrphan(u)
         PROVE  Unbinds
    BY <2>2, <2>11 DEF ExpireHeld, ExpireOrphan
  <2>12. CASE UNCHANGED vars
    BY <2>2, <2>12 DEF vars
  <2>13. QED
    BY <1>1, <2>3, <2>4, <2>5, <2>6, <2>7, <2>8, <2>9, <2>10, <2>11, <2>12 DEF Next
<1>2. IInv /\ BindInv /\ [Next]_vars => [Unbinds]_vars
  BY <1>1
<1>3. QED
  BY RegistryAlways, <1>2, PTL DEF Spec, RemovalUnbinds

-----------------------------------------------------------------------------
(* Who is told to go offline, and what becomes of the key that named the   *)
(* session: its user's next login is on the way to overwrite it.           *)
RenewPC == {"setuid", "setip", "setuser", "setsess"}

NoticeInv ==
  faults = 0 =>
    /\ \A x \in kicked : pc[Login(x)] \in {"reply", "done"}
    /\ \A p \in Proc : pc[p] = "evict" => uid[old[p]] = user[p]
    /\ \A x \in kicked, u \in User :
         uid[x] = u /\ usession[u] = x => At(u, RenewPC)

LEMMA InitNoticeInv == Init => NoticeInv
BY DEF Init, NoticeInv

LEMMA StepNoticeInv ==
  ASSUME IInv, LockHeld, BindInv, NoticeInv, [Next]_vars
  PROVE  NoticeInv'
<1> DEFINE Told  == \A x \in kicked : pc[Login(x)] \in {"reply", "done"}
           Found == \A p \in Proc : pc[p] = "evict" => uid[old[p]] = user[p]
           Renew == \A x \in kicked, u \in User :
                      uid[x] = u /\ usession[u] = x => At(u, RenewPC)
<1> SUFFICES ASSUME faults' = 0
             PROVE  Told' /\ Found' /\ Renew'
  BY DEF NoticeInv
<1> HIDE DEF Told, Found, Renew
<1>1. faults = 0
  BY FaultsGrow DEF IInv
<1>2. /\ Told /\ Found /\ Renew
      /\ \A q \in Proc : pc[q] \in CriticalPC => lock[user[q]] = q
  BY <1>1 DEF NoticeInv, LockHeld, Told, Found, Renew
(* A session whose user is in a locked section of another login has been   *)
(* answered.                                                               *)
<1>3. ASSUME NEW p \in LoginProc, pc[p] = "evict"
      PROVE  pc[Login(old[p])] \in {"reply", "done"}
  <2>1. p \in Proc /\ old[p] \in Session /\ user[p] \in User
    BY <1>3, ProcFacts DEF IInv, LocalsOK, LoginPC
  <2>2. uid[old[p]] = user[p] /\ user[p] # Nil
    BY <1>2, <1>3, <2>1, NilAssumption DEF Found
  <2>3. Login(old[p]) \in Proc
    BY <2>1, ProcFacts
  <2>4. pc[Login(old[p])] \notin UnboundPC
    BY <2>1, <2>2 DEF BindInv
  <2>5. pc[Login(old[p])] \notin BoundPC
    <3>1. SUFFICES ASSUME pc[Login(old[p])] \in BoundPC
                   PROVE  FALSE
      OBVIOUS
    <3>2. user[Login(old[p])] = user[p]
      BY <2>1, <2>2, <3>1 DEF BindInv
    <3>3. Login(old[p]) = p
      BY <1>2, <1>3, <2>1, <2>3, <3>1, <3>2 DEF BoundPC, CriticalPC, LoginPC
    <3>4. QED
      BY <1>3, <2>4, <3>3 DEF UnboundPC
  <2>6. pc[Login(old[p])] \notin CleanPC
    BY <2>1, ProcFacts DEF IInv, LocalsOK
  <2>7. QED
    BY <2>3, <2>4, <2>5, <2>6 DEF IInv, TypeOK, PC, CriticalPC, LoginPC, CleanPC, UnboundPC, BoundPC
(* Steps that leave the keys, the notices and the users alone, and in      *)
(* which nobody leaves the renewing part or finds a session.               *)
<1>4. ASSUME UNCHANGED <<kicked, uid, usession>>,
             NEW p \in Proc, \A q \in Proc \ {p} : Still(q),
             pc[p] \in RenewPC => pc'[p] \in RenewPC /\ user'[p] = user[p],
             pc[p] \in {"reply", "done"} => pc'[p] \in {"reply", "done"},
             pc'[p] # "evict"
      PROVE  Told' /\ Found' /\ Renew'
  <2>1. Told'
    BY <1>2, <1>4, ProcFacts DEF Told, Still, IInv, TypeOK
  <2>2. Found'
    BY <1>2, <1>4 DEF Found, Still
  <2>3. ASSUME NEW u \in User, At(u, RenewPC)
        PROVE  At(u, RenewPC)'
    <3>1. PICK q \in Proc : user[q] = u /\ pc[q] \in RenewPC
      BY <2>3 DEF At
    <3>2. user'[q] = u /\ pc'[q] \in RenewPC
      BY <1>4, <3>1 DEF Still
    <3>3. QED
      BY <3>2 DEF At
  <2>4. Renew'
    BY <1>2, <1>4, <2>3 DEF Renew
  <2>5. QED
    BY <2>1, <2>2, <2>4
<1>5. ASSUME UNCHANGED <<kicked, uid, usession, pc, sess, user, peer, old>>
      PROVE  Told' /\ Found' /\ Renew'
  BY <1>2, <1>5 DEF Told, Found, Renew, At
<1>6. ASSUME NEW p \in LoginProc, Lookup(p)
      PROVE  Told' /\ Found' /\ Renew'
  <2>1. PICK y \in GetSession(peer[p], user[p]) :
          /\ old' = [old EXCEPT ![p] = y]
          /\ Goto(p, "lookup", IF y = Nil THEN "setuid" ELSE "evict")
    BY <1>6 DEF Lookup
  <2>2. p \in Proc /\ pc[p] = "lookup" /\ peer[p] \in Server /\ user[p] \in User
    BY <2>1, ProcFacts DEF Goto, IInv, LocalsOK, LoginPC
  <2>3. y # Nil => uid[y] = user[p]
    BY <2>1, <2>2 DEF GetSession, BindInv, BoundToItsUser
  <2>4. /\ UNCHANGED <<kicked, uid, usession, user>>
        /\ \A q \in Proc \ {p} : Still(q)
        /\ pc'[p] = IF y = Nil THEN "setuid" ELSE "evict"
        /\ old'[p] = y
    BY <1>6, <2>1, <2>2 DEF Lookup, Goto, Still, sessVars, redisVars, IInv, TypeOK
  <2>5. Told'
    BY <1>2, <2>2, <2>4, ProcFacts DEF Told, Still, IInv, TypeOK
  <2>6. Found'
    BY <1>2, <2>2, <2>3, <2>4 DEF Found, Still
  <2>7. ASSUME NEW u \in User, At(u, RenewPC)
        PROVE  At(u, RenewPC)'
    BY <2>2, <2>4, <2>7 DEF At, RenewPC, Still
  <2>8. Renew'
    BY <1>2, <2>4, <2>7 DEF Renew
  <2>9. QED
    BY <2>5, <2>6, <2>8
<1>7. ASSUME NEW p \in LoginProc, Evict(p)
      PROVE  Told' /\ Found' /\ Renew'
  <2>1. /\ p \in Proc /\ pc[p] = "evict" /\ old[p] \in Session /\ user[p] \in User
        /\ pc[Login(old[p])] \in {"reply", "done"} /\ uid[old[p]] = user[p]
    BY <1>2, <1>3, <1>7, ProcFacts DEF Evict, Goto, IInv, LocalsOK, LoginPC, Found
  <2>2. /\ UNCHANGED <<uid, usession, user, old>> /\ kicked' = kicked \cup {old[p]}
        /\ pc'[p] = "setuid" /\ \A q \in Proc \ {p} : pc'[q] = pc[q]
    BY <1>7, <2>1 DEF Evict, Goto, sessVars, redisVars, procVars, IInv, TypeOK
  <2>3. Told'
    BY <1>2, <2>1, <2>2, ProcFacts DEF Told, IInv, TypeOK
  <2>4. Found'
    BY <1>2, <2>2 DEF Found
  <2>5. At(user[p], RenewPC)'
    BY <2>1, <2>2 DEF At, RenewPC
  <2>6. ASSUME NEW u \in User, At(u, RenewPC)
        PROVE  At(u, RenewPC)'
    BY <2>1, <2>2, <2>6 DEF At, RenewPC
  <2>7. ASSUME NEW x \in kicked', NEW u \in User, uid[x] = u, usession[u] = x
        PROVE  At(u, RenewPC)'
    <3>1. CASE x \in kicked
      BY <1>2, <2>6, <2>7, <3>1 DEF Renew
    <3>2. CASE x = old[p]
      BY <2>1, <2>2, <2>7, <3>2 DEF At, RenewPC
    <3>3. QED
      BY <2>2, <2>7, <3>1, <3>2
  <2>8. Renew'
    BY <2>2, <2>7 DEF Renew
  <2>9. QED
    BY <2>3, <2>4, <2>8
<1>8. ASSUME NEW p \in LoginProc, SetUserId(p)
      PROVE  Told' /\ Found' /\ Renew'
  <2>1. p \in Proc /\ pc[p] = "setuid" /\ sess[p] \in Session
    BY <1>8, ProcFacts DEF SetUserId, Goto, IInv, LocalsOK, LoginPC
  <2>2. p = Login(sess[p])
    BY <2>1, LoginFacts DEF BindInv
  <2>3. sess[p] \notin kicked
    BY <1>2, <2>1, <2>2 DEF Told
  <2>4. ASSUME NEW q \in Proc, pc[q] = "evict"
        PROVE  old[q] # sess[p]
    <3>1. q \in LoginProc
      BY <2>4, ProcFacts DEF IInv, LocalsOK, Proc, LoginPC
    <3>2. QED
      BY <1>3, <2>1, <2>2, <2>4, <3>1
  <2>5. /\ UNCHANGED <<kicked, usession, user, old>>
        /\ \A x \in Session \ {sess[p]} : uid'[x] = uid[x]
        /\ pc'[p] = "setip" /\ \A q \in Proc \ {p} : pc'[q] = pc[q]
    BY <1>8, <2>1 DEF SetUserId, Goto, redisVars, procVars, IInv, TypeOK
  <2>6. Told'
    BY <1>2, <2>1, <2>5, ProcFacts DEF Told, IInv, TypeOK
  <2>7. Found'
    BY <1>2, <2>1, <2>4, <2>5 DEF Found, IInv, LocalsOK
  <2>8. ASSUME NEW u \in User, At(u, RenewPC)
        PROVE  At(u, RenewPC)'
    BY <2>1, <2>5, <2>8 DEF At, RenewPC
  <2>9. Renew'
    BY <1>2, <2>3, <2>5, <2>8 DEF Renew, IInv, TypeOK
  <2>10. QED
    BY <2>6, <2>7, <2>9
<1>9. ASSUME NEW p \in LoginProc, SetSess(p)
      PROVE  Told' /\ Found' /\ Renew'
  <2>1. p \in Proc /\ pc[p] = "setsess" /\ sess[p] \in Session /\ user[p] \in User
    BY <1>9, ProcFacts DEF SetSess, Goto, IInv, LocalsOK, LoginPC
  <2>2. p = Login(sess[p])
    BY <2>1, LoginFacts DEF BindInv
  <2>3. sess[p] \notin kicked
    BY <1>2, <2>1, <2>2 DEF Told
  <2>4. /\ UNCHANGED <<kicked, uid, user, old>>
        /\ usession' = [usession EXCEPT ![user[p]] = sess[p]]
        /\ pc'[p] = "release" /\ \A q \in Proc \ {p} : pc'[q] = pc[q]
    BY <1>9, <2>1 DEF SetSess, Goto, sessVars, procVars, IInv, TypeOK
  <2>5. Told'
    BY <1>2, <2>1, <2>4, ProcFacts DEF Told, IInv, TypeOK
  <2>6. Found'
    BY <1>2, <2>4 DEF Found
  <2>7. ASSUME NEW u \in User \ {user[p]}, At(u, RenewPC)
        PROVE  At(u, RenewPC)'
    BY <2>4, <2>7 DEF At
  <2>8. ASSUME NEW x \in kicked, NEW u \in User, uid[x] = u, usession'[u] = x
        PROVE  At(u, RenewPC)'
    <3>1. u # user[p]
      BY <2>3, <2>4, <2>8 DEF IInv, TypeOK
    <3>2. usession[u] = x
      BY <2>4, <2>8, <3>1 DEF IInv, TypeOK
    <3>3. QED
      BY <1>2, <2>7, <2>8, <3>1, <3>2 DEF Renew
  <2>9. Renew'
    BY <2>4, <2>8 DEF Renew
  <2>10. QED
    BY <2>5, <2>6, <2>9
<1>10. ASSUME NEW p \in CleanProc, DelSess(p)
       PROVE  Told' /\ Found' /\ Renew'
  <2>1. p \in Proc /\ pc[p] = "delsess"
    BY <1>10, ProcFacts DEF DelSess, Goto
  <2>2. /\ UNCHANGED <<kicked, uid, user, old>>
        /\ usession' = [usession EXCEPT ![user[p]] = Nil]
        /\ pc'[p] = "delip" /\ \A q \in Proc \ {p} : pc'[q] = pc[q]
    BY <1>10, <2>1 DEF DelSess, Goto, sessVars, procVars, IInv, TypeOK
  <2>3. Told'
    BY <1>2, <2>1, <2>2, ProcFacts DEF Told, IInv, TypeOK
  <2>4. Found'
    BY <1>2, <2>2 DEF Found
  <2>5. ASSUME NEW u \in User, At(u, RenewPC)
        PROVE  At(u, RenewPC)'
    BY <2>1, <2>2, <2>5 DEF At, RenewPC
  <2>6. \A x \in kicked, u \in User : usession'[u] = x => usession[u] = x
    BY <2>2, NilAssumption DEF IInv, TypeOK
  <2>7. Renew'
    BY <1>2, <2>2, <2>5, <2>6 DEF Renew
  <2>8. QED
    BY <2>3, <2>4, <2>7
(* The other steps of one process.                                         *)
<1>11. ASSUME NEW p \in LoginProc, GetIp(p) \/ SetIp(p) \/ SetUserSession(p)
       PROVE  Told' /\ Found' /\ Renew'
  <2>1. /\ p \in Proc /\ pc[p] \in {"getip", "setip", "setuser"}
        /\ pc'[p] \in {"lookup", "setuid", "setuser", "setsess"}
        /\ pc[p] # "getip" => pc'[p] \in {"setuser", "setsess"}
        /\ user' = user /\ UNCHANGED <<kicked, uid, usession>>
    BY <1>11, ProcFacts DEF GetIp, SetIp, SetUserSession, Goto, sessVars, redisVars,
       procVars, IInv, TypeOK
  <2>2. \A q \in Proc \ {p} : Still(q)
    BY <1>11, <2>1 DEF GetIp, SetIp, SetUserSession, Goto, Still, procVars, IInv, TypeOK
  <2>3. QED
    BY <1>4, <2>1, <2>2 DEF RenewPC
<1>12. ASSUME NEW p \in Proc, Acquire(p) \/ Release(p) \/ (p \in LoginProc /\ Reply(p))
       PROVE  Told' /\ Found' /\ Renew'
  <2>1. /\ pc[p] \in {"acquire", "release", "reply"}
        /\ pc'[p] \in {"idle", "getip", "getsess", "reply", "done"}
        /\ pc[p] = "reply" => pc'[p] = "done"
        /\ UNCHANGED <<kicked, uid, usession>>
    BY <1>12 DEF Acquire, Release, Reply, Goto, sessVars, redisVars, IInv, TypeOK
  <2>2. \A q \in Proc \ {p} : Still(q)
    BY <1>12 DEF Acquire, Release, Reply, Goto, Return, Still, procVars, IInv, TypeOK
  <2>3. QED
    BY <1>4, <2>1, <2>2 DEF RenewPC
<1>13. ASSUME NEW p \in CleanProc, GetSess(p) \/ DelIp(p) \/ Clean(p)
       PROVE  Told' /\ Found' /\ Renew'
  <2>1. /\ p \in Proc /\ pc[p] \in CleanPC /\ pc'[p] \in {"delsess", "clean", "release"}
        /\ UNCHANGED <<kicked, uid, usession>>
    BY <1>13, ProcFacts DEF GetSess, DelIp, Clean, Goto, sessVars, redisVars, CleanPC,
       IInv, TypeOK
  <2>2. \A q \in Proc \ {p} : Still(q)
    BY <1>13, <2>1 DEF GetSess, DelIp, Clean, Goto, Still, procVars, IInv, TypeOK
  <2>3. QED
    BY <1>4, <2>1, <2>2 DEF RenewPC, CleanPC
<1>14. ASSUME NEW p \in CleanProc, NEW x \in Session, StartClean(p, x),
              UNCHANGED <<kicked, uid, usession, peer, old>>
       PROVE  Told' /\ Found' /\ Renew'
  <2>1. /\ p \in Proc /\ pc[p] = "idle" /\ pc'[p] = "acquire"
        /\ \A q \in Proc \ {p} : Still(q)
    BY <1>14, ProcFacts DEF StartClean, Still, IInv, TypeOK
  <2>2. QED
    BY <1>4, <1>14, <2>1 DEF RenewPC
<1>15. ASSUME NEW x \in Session, NEW u \in User, StartLogin(x, u)
       PROVE  Told' /\ Found' /\ Renew'
  <2>1. /\ Login(x) \in Proc /\ pc[Login(x)] = "idle"
        /\ pc'[Login(x)] \in {"acquire", "reply"}
        /\ UNCHANGED <<kicked, uid, usession>>
    BY <1>15, ProcFacts DEF StartLogin, sessVars, redisVars, IInv, TypeOK
  <2>2. \A q \in Proc \ {Login(x)} : Still(q)
    BY <1>15, <2>1 DEF StartLogin, Still, IInv, TypeOK
  <2>3. QED
    BY <1>4, <2>1, <2>2 DEF RenewPC
(* Steps of no process, and the faults.                                    *)
<1>16. ASSUME NEW s \in Server, NEW x \in Session, Accept(s, x) \/ DealExpired(s, x)
       PROVE  Told' /\ Found' /\ Renew'
  BY <1>5, <1>14, <1>16, ProcFacts DEF Accept, DealExpired, sessVars, redisVars, procVars
<1>17. ASSUME NEW x \in Session, Insert(x) \/ BadHead(x) \/ SocketError(x)
       PROVE  Told' /\ Found' /\ Renew'
  BY <1>5, <1>14, <1>17, ProcFacts DEF Insert, BadHead, SocketError, sessVars, redisVars, procVars
<1>18. ASSUME NEW s \in Server, NEW E \in SUBSET Session, OnTimer(s, E)
       PROVE  Told' /\ Found' /\ Renew'
  BY <1>5, <1>18 DEF OnTimer, procVars
<1>19. ASSUME NEW u \in User \cup {Nil}, ExpireOrphan(u)
       PROVE  Told' /\ Found' /\ Renew'
  BY <1>5, <1>19 DEF ExpireOrphan, sessVars, redisVars, procVars
<1>20. CASE UNCHANGED vars
  BY <1>5, <1>20 DEF vars
<1>21. ASSUME NEW p \in Proc,
              AcquireTimeout(p) \/ ReleaseFails(p) \/ CommandFails(p) \/ KickLost(p)
       PROVE  FALSE
  BY <1>1, <1>21 DEF AcquireTimeout, ReleaseFails, CommandFails, KickLost, Fault
<1>22. ASSUME NEW u \in User \cup {Nil}, ExpireHeld(u)
       PROVE  FALSE
  BY <1>1, <1>22 DEF ExpireHeld, Fault
<1>23. ASSUME NEW s \in Server, Crash(s)
       PROVE  FALSE
  BY <1>1, <1>23 DEF Crash, Fault
<1>24. QED
  BY <1>6, <1>7, <1>8, <1>9, <1>10, <1>11, <1>12, <1>13, <1>15, <1>16, <1>17,
     <1>18, <1>19, <1>20, <1>21, <1>22, <1>23, ProcFacts
  DEF Next, LockStep, LoginStep, CleanStep

(* A client that was told to go offline has really been displaced: outside *)
(* a login or cleanup of its user, Redis names another session or none.    *)
THEOREM NoticeMeansDisplacedHolds == Spec => []NoticeMeansDisplaced
<1>1. Init => LockHeld
  BY DEF Init, LockHeld, CriticalPC, LoginPC, CleanPC
<1>2. NoticeInv => NoticeMeansDisplaced
  BY DEF NoticeInv, NoticeMeansDisplaced, Busy, InCritical, At, RenewPC, CriticalPC, LoginPC
<1>3. QED
  BY InitIInv, StepIInv, StepLockHeld, InitBindInv, StepBindInv,
     InitNoticeInv, StepNoticeInv, <1>1, <1>2, PTL DEF Spec
=============================================================================
