-------------------------- MODULE RedisLock_proofs --------------------------
(***************************************************************************)
(* What the lock guarantees by itself, and together with the connection    *)
(* pool, for any number of callers, of connections and of connection       *)
(* failures, and any time limits.                                          *)
(*                                                                         *)
(* The agreement of the lock with the clocks, HolderWithinTtl, is          *)
(* inductive together with the types; exclusion follows from it.  With the *)
(* end of the key and of a late caller's part in it, LeaseInv, the lock    *)
(* implements the lease of module Lease.  What holds of the lock holds     *)
(* with the pool.  That a connection is never in two places is inductive   *)
(* with the types.                                                         *)
(***************************************************************************)
EXTENDS RedisLock, TLAPS

IInv == TypeOK /\ HolderWithinTtl

LEMMA InitIInv == Init => IInv
BY LockAssumption DEF Init, IInv, TypeOK, HolderWithinTtl

(* Every step keeps the types.                                             *)
LEMMA StepTypeOK == TypeOK /\ [Next]_vars => TypeOK'
<1> SUFFICES ASSUME TypeOK, [Next]_vars
             PROVE  TypeOK'
  OBVIOUS
<1> USE LockAssumption DEF TypeOK
<1>1. ASSUME NEW p \in Proc, Start(p)
      PROVE  TypeOK'
  BY <1>1 DEF Start
<1>2. ASSUME NEW p \in Proc, Acquired(p)
      PROVE  TypeOK'
  BY <1>2 DEF Acquired, SetNx
<1>3. ASSUME NEW p \in Proc, SetReplyLost(p)
      PROVE  TypeOK'
  BY <1>3 DEF SetReplyLost, SetNx
<1>4. ASSUME NEW p \in Proc, GiveUp(p)
      PROVE  TypeOK'
  BY <1>4 DEF GiveUp
<1>5. ASSUME NEW p \in Proc, Release(p)
      PROVE  TypeOK'
  BY <1>5 DEF Release, Idle
<1>6. ASSUME NEW p \in Proc, ReleaseLost(p)
      PROVE  TypeOK'
  BY <1>6 DEF ReleaseLost, Idle
<1>7. ASSUME NEW p \in Proc, NoConnection(p)
      PROVE  TypeOK'
  BY <1>7 DEF NoConnection
<1>8. CASE Tick
  BY <1>8 DEF Tick, Less
<1>9. CASE UNCHANGED vars
  BY <1>9 DEF vars
<1>10. QED
  BY <1>1, <1>2, <1>3, <1>4, <1>5, <1>6, <1>7, <1>8, <1>9 DEF Next

(* Every step keeps the clocks of the key and of its holder together.      *)
LEMMA StepWithinTtl == IInv /\ [Next]_vars => HolderWithinTtl'
<1> SUFFICES ASSUME TypeOK, HolderWithinTtl, [Next]_vars
             PROVE  HolderWithinTtl'
  BY DEF IInv
<1> USE LockAssumption DEF TypeOK, HolderWithinTtl
<1>1. ASSUME NEW p \in Proc, Start(p)
      PROVE  HolderWithinTtl'
  BY <1>1 DEF Start
<1>2. ASSUME NEW p \in Proc, Acquired(p)
      PROVE  HolderWithinTtl'
  (* The key was free, so nobody else was within its time to live.         *)
  BY <1>2 DEF Acquired, SetNx
<1>3. ASSUME NEW p \in Proc, SetReplyLost(p)
      PROVE  HolderWithinTtl'
  BY <1>3 DEF SetReplyLost, SetNx
<1>4. ASSUME NEW p \in Proc, GiveUp(p)
      PROVE  HolderWithinTtl'
  BY <1>4 DEF GiveUp
<1>5. ASSUME NEW p \in Proc, Release(p)
      PROVE  HolderWithinTtl'
  (* The key is deleted only if it names p, and then nobody else is within *)
  (* its time to live.                                                     *)
  BY <1>5 DEF Release, Idle
<1>6. ASSUME NEW p \in Proc, ReleaseLost(p)
      PROVE  HolderWithinTtl'
  BY <1>6 DEF ReleaseLost, Idle
<1>7. ASSUME NEW p \in Proc, NoConnection(p)
      PROVE  HolderWithinTtl'
  BY <1>7 DEF NoConnection
<1>8. CASE Tick
  BY <1>8 DEF Tick, Less
<1>9. CASE UNCHANGED vars
  BY <1>9 DEF vars
<1>10. QED
  BY <1>1, <1>2, <1>3, <1>4, <1>5, <1>6, <1>7, <1>8, <1>9 DEF Next

(* The types, and the agreement of key and clocks, always hold.            *)
THEOREM WithinTtlHolds == Spec => [](TypeOK /\ HolderWithinTtl)
<1>1. IInv /\ [Next]_vars => IInv'
  BY StepTypeOK, StepWithinTtl DEF IInv
<1>2. IInv => TypeOK /\ HolderWithinTtl
  BY DEF IInv
<1>3. QED
  BY InitIInv, <1>1, <1>2, PTL DEF Spec

(* The lock excludes callers that stay within its time to live, for any    *)
(* number of callers, any time limits and any loss of replies.             *)
THEOREM ExclusionHolds == Spec => []ExclusiveWithinTtl
<1>1. TypeOK /\ HolderWithinTtl => ExclusiveWithinTtl
  BY DEF HolderWithinTtl, ExclusiveWithinTtl
<1>2. QED
  BY WithinTtlHolds, <1>1, PTL

(* The script of releaseLock never takes a key from another caller.        *)
THEOREM OnlyHolderReleasesHolds == Spec => OnlyHolderReleases
<1> DEFINE Kept == \A p \in Proc : key = p /\ key' # p /\ ttl > 1 =>
                     pc[p] = "holding" /\ pc'[p] = "idle"
<1>1. TypeOK /\ [Next]_vars => [Kept]_vars
  <2> SUFFICES ASSUME TypeOK, Next, NEW p \in Proc, key = p, key' # p, ttl > 1
               PROVE  pc[p] = "holding" /\ pc'[p] = "idle"
    BY Zenon DEF vars
  <2>1. \A q \in Proc : ~(Start(q) \/ NoConnection(q) \/ Acquired(q) \/ SetReplyLost(q) \/ GiveUp(q))
    BY LockAssumption DEF Start, NoConnection, Acquired, SetReplyLost, SetNx, GiveUp
  <2>2. \A q \in Proc : ~ReleaseLost(q)
    BY DEF ReleaseLost
  <2>3. ~Tick
    BY DEF Tick, TypeOK
  <2>4. PICK q \in Proc : Release(q)
    BY <2>1, <2>2, <2>3 DEF Next
  <2>5. q = p
    BY <2>4 DEF Release
  <2>6. QED
    BY <2>4, <2>5 DEF Release, Idle, TypeOK
<1>2. Spec => []TypeOK
  BY WithinTtlHolds, PTL
<1>3. QED
  BY <1>1, <1>2, PTL DEF Spec, OnlyHolderReleases

-----------------------------------------------------------------------------
(* The lock is a lease.  Beyond the agreement of the clocks this needs     *)
(* that a key without an end does not exist, and that the key of a caller  *)
(* that overstayed is no longer its own, so that its release is nothing    *)
(* to the others.                                                          *)
KeyEnds == key = Nil <=> ttl = 0
LateIsOut == \A p \in Proc : pc[p] = "holding" /\ age[p] = LockTime => key # p

LeaseInv == TypeOK /\ HolderWithinTtl /\ KeyEnds /\ LateIsOut

LEMMA StepLeaseInv == LeaseInv /\ [Next]_vars => LeaseInv'
<1> SUFFICES ASSUME TypeOK, HolderWithinTtl, KeyEnds, LateIsOut, [Next]_vars
             PROVE  KeyEnds' /\ LateIsOut'
  BY StepTypeOK, StepWithinTtl DEF IInv, LeaseInv
<1> USE LockAssumption DEF TypeOK, KeyEnds, LateIsOut
<1>1. ASSUME NEW p \in Proc, Start(p) \/ NoConnection(p) \/ GiveUp(p)
      PROVE  KeyEnds' /\ LateIsOut'
  BY <1>1 DEF Start, NoConnection, GiveUp
<1>2. ASSUME NEW p \in Proc, Acquired(p)
      PROVE  KeyEnds' /\ LateIsOut'
  BY <1>2 DEF Acquired, SetNx
<1>3. ASSUME NEW p \in Proc, SetReplyLost(p)
      PROVE  KeyEnds' /\ LateIsOut'
  BY <1>3 DEF SetReplyLost, SetNx
<1>4. ASSUME NEW p \in Proc, Release(p)
      PROVE  KeyEnds' /\ LateIsOut'
  BY <1>4 DEF Release, Idle
<1>5. ASSUME NEW p \in Proc, ReleaseLost(p)
      PROVE  KeyEnds' /\ LateIsOut'
  BY <1>5 DEF ReleaseLost, Idle
<1>6. CASE Tick
  <2>1. key' = (IF ttl = 1 THEN Nil ELSE key) /\ ttl' = Less(ttl) /\ pc' = pc
    BY <1>6 DEF Tick
  <2>2. KeyEnds'
    BY <2>1 DEF Less
  <2>3. ASSUME NEW p \in Proc, pc'[p] = "holding", age'[p] = LockTime
        PROVE  key' # p
    <3>1. age[p] = LockTime \/ age[p] = LockTime - 1
      BY <1>6, <2>3 DEF Tick
    (* Its last tick is the last of its key.                               *)
    <3>2. CASE age[p] = LockTime - 1
      <4>1. key = p /\ ttl = 1
        BY <2>1, <2>3, <3>2 DEF HolderWithinTtl
      <4>2. QED
        BY <2>1, <4>1
    <3>3. QED
      BY <2>1, <2>3, <3>1, <3>2
  <2>4. QED
    BY <2>2, <2>3
<1>7. CASE UNCHANGED vars
  BY <1>7 DEF vars
<1>8. QED
  BY <1>1, <1>2, <1>3, <1>4, <1>5, <1>6, <1>7 DEF Next

(* A caller has time left if and only if the key is its own.               *)
LEMMA LeftIsKey ==
  ASSUME LeaseInv, NEW p \in Proc
  PROVE  /\ TimeLeft[p] \in 0 .. LockTime
         /\ TimeLeft[p] > 0 => pc[p] = "holding" /\ key = p /\ TimeLeft[p] = ttl
         /\ TimeLeft[p] = 0 /\ pc[p] = "holding" => key # p
BY LockAssumption DEF LeaseInv, TypeOK, HolderWithinTtl, LateIsOut, TimeLeft

(* Every step of the lock is one of the lease, or nothing to it.           *)
LEMMA StepLease == LeaseInv /\ [Next]_vars => [Promise!Next]_(Promise!leaseVars)
<1> SUFFICES ASSUME LeaseInv, [Next]_vars
             PROVE  Promise!Next \/ UNCHANGED <<TimeLeft, ttl>>
  BY DEF Promise!leaseVars
<1>0. TypeOK /\ KeyEnds
  BY DEF LeaseInv
<1>1. ASSUME NEW p \in Proc, Start(p) \/ NoConnection(p) \/ GiveUp(p)
      PROVE  UNCHANGED <<TimeLeft, ttl>>
  <2>1. /\ pc[p] # "holding" /\ pc'[p] # "holding" /\ age' = age /\ ttl' = ttl
        /\ \A q \in Proc : q # p => pc'[q] = pc[q]
    BY <1>0, <1>1 DEF Start, NoConnection, GiveUp, TypeOK
  <2>2. QED
    BY <2>1 DEF TimeLeft
(* The key was free, so nobody had time left.                              *)
<1>2. ASSUME NEW p \in Proc, Acquired(p)
      PROVE  Promise!Grant(p)
  <2>1. /\ key = Nil /\ ttl = 0 /\ ttl' = LockTime
        /\ pc' = [pc EXCEPT ![p] = "holding"] /\ age' = [age EXCEPT ![p] = 0]
    BY <1>0, <1>2 DEF Acquired, SetNx, KeyEnds
  <2>2. \A q \in Proc : TimeLeft[q] = 0
    BY <2>1, LeftIsKey, LockAssumption
  <2>3. TimeLeft' = [TimeLeft EXCEPT ![p] = LockTime]
    <3>1. /\ pc'[p] = "holding" /\ age'[p] = 0
          /\ \A q \in Proc : q # p => pc'[q] = pc[q] /\ age'[q] = age[q]
      BY <1>0, <2>1 DEF TypeOK
    <3>2. LockTime - age'[p] = LockTime
      BY <3>1, LockAssumption
    <3>3. TimeLeft'[p] = LockTime /\ \A q \in Proc : q # p => TimeLeft'[q] = TimeLeft[q]
      BY <3>1, <3>2 DEF TimeLeft
    <3>4. TimeLeft' = [q \in Proc |-> IF q = p THEN LockTime ELSE TimeLeft[q]]
      BY <3>3 DEF TimeLeft
    <3>5. [TimeLeft EXCEPT ![p] = LockTime] = [q \in Proc |-> IF q = p THEN LockTime ELSE TimeLeft[q]]
      BY DEF TimeLeft
    <3>6. QED
      BY <3>4, <3>5
  <2>4. QED
    BY <2>1, <2>2, <2>3 DEF Promise!Grant
<1>3. ASSUME NEW p \in Proc, SetReplyLost(p)
      PROVE  Promise!Shut
  <2>1. ttl = 0 /\ ttl' = LockTime /\ TimeLeft' = TimeLeft
    BY <1>0, <1>3 DEF SetReplyLost, SetNx, KeyEnds, TimeLeft
  <2>2. QED
    BY <2>1 DEF Promise!Shut
<1>4. ASSUME NEW p \in Proc, Idle(p), pc[p] = "holding"
      PROVE  TimeLeft' = [TimeLeft EXCEPT ![p] = 0]
  BY <1>0, <1>4 DEF Idle, TimeLeft, TypeOK
<1>5. ASSUME NEW p \in Proc, Release(p)
      PROVE  Promise!Return(p) \/ UNCHANGED <<TimeLeft, ttl>>
  <2>1. TimeLeft' = [TimeLeft EXCEPT ![p] = 0] /\ pc[p] = "holding"
    BY <1>4, <1>5 DEF Release
  <2>2. CASE TimeLeft[p] > 0
    <3>1. key = p
      BY <2>2, LeftIsKey
    <3>2. ttl' = 0
      BY <1>5, <3>1 DEF Release
    <3>3. QED
      BY <2>1, <2>2, <3>2 DEF Promise!Return
  (* It overstayed, and the key, if there is one, is another's.            *)
  <2>3. CASE TimeLeft[p] = 0
    <3>1. key # p
      BY <2>1, <2>3, LeftIsKey
    <3>2. ttl' = ttl
      BY <1>5, <3>1 DEF Release
    <3>3. TimeLeft' = TimeLeft
      BY <2>1, <2>3 DEF TimeLeft
    <3>4. QED
      BY <3>2, <3>3
  <2>4. QED
    BY <2>2, <2>3, LeftIsKey
<1>6. ASSUME NEW p \in Proc, ReleaseLost(p)
      PROVE  Promise!Vanish(p) \/ UNCHANGED <<TimeLeft, ttl>>
  <2>1. TimeLeft' = [TimeLeft EXCEPT ![p] = 0] /\ ttl' = ttl
    BY <1>4, <1>6 DEF ReleaseLost
  <2>2. CASE TimeLeft[p] > 0
    BY <2>1, <2>2 DEF Promise!Vanish
  <2>3. CASE TimeLeft[p] = 0
    BY <2>1, <2>3 DEF TimeLeft
  <2>4. QED
    BY <2>2, <2>3, LeftIsKey
<1>7. CASE Tick
  <2>1. ttl' = Promise!Sooner(ttl)
    BY <1>7 DEF Tick, Less, Promise!Sooner
  <2>2. ASSUME NEW p \in Proc
        PROVE  TimeLeft'[p] = Promise!Sooner(TimeLeft[p])
    <3>1. /\ pc' = pc /\ age[p] \in 0 .. LockTime
          /\ age'[p] = IF pc[p] = "holding" /\ age[p] < LockTime THEN age[p] + 1 ELSE age[p]
      BY <1>0, <1>7 DEF Tick, TypeOK
    <3>2. QED
      BY <3>1, LockAssumption DEF TimeLeft, Promise!Sooner
  <2>3. TimeLeft' = [p \in Proc |-> Promise!Sooner(TimeLeft[p])]
    BY <2>2 DEF TimeLeft
  <2>4. Promise!Pass
    BY <2>1, <2>3 DEF Promise!Pass
  <2>5. QED
    BY <2>4 DEF Promise!Next
<1>8. CASE UNCHANGED vars
  BY <1>8 DEF vars, TimeLeft
<1>9. QED
  BY <1>1, <1>2, <1>3, <1>5, <1>6, <1>7, <1>8 DEF Next, Promise!Next

(* The lock with its key, identifiers and clocks is a lease: for any       *)
(* number of callers, any time limits and any loss of replies.             *)
THEOREM LeaseHolds == Spec => Promise!Spec
<1>1. Init => LeaseInv
  BY InitIInv, LockAssumption DEF Init, IInv, LeaseInv, KeyEnds, LateIsOut
<1>2. Init => Promise!Init
  BY DEF Init, Promise!Init, TimeLeft
<1>3. QED
  BY <1>1, <1>2, StepLeaseInv, StepLease, PTL DEF Spec, Promise!Spec

-----------------------------------------------------------------------------

(* Each step of acquireLock and releaseLock through the pool is one of the *)
(* lock, or leaves it alone.                                               *)
LEMMA StepIsOfLock == [PoolNext]_allVars => [Next]_vars
<1> SUFFICES ASSUME [PoolNext]_allVars
             PROVE  [Next]_vars
  OBVIOUS
<1>1. ASSUME NEW p \in Local,
             AcquireBegin(p) \/ AcquireNull(p) \/ SetSucceeds(p) \/ SetTimesOut(p)
               \/ AcquireGivesUp(p)
      PROVE  Next
  BY <1>1, PoolAssumption
     DEF AcquireBegin, AcquireNull, SetSucceeds, SetTimesOut, AcquireGivesUp, Next
<1>2. ASSUME NEW p \in Local, ReleaseBegin(p)
      PROVE  UNCHANGED vars
  BY <1>2 DEF ReleaseBegin
<1>3. ASSUME NEW p \in Local, ReleaseNull(p) \/ Eval(p)
      PROVE  Next
  BY <1>3, PoolAssumption DEF ReleaseNull, Eval, Next
<1>4. ASSUME NEW u \in User, CommandBegin(u) \/ CommandNull(u) \/ CommandEnd(u)
      PROVE  UNCHANGED vars
  BY <1>4 DEF CommandBegin, CommandNull, CommandEnd
<1>5. ASSUME NEW c \in Conn, Fail(c) \/ Rest(c)
      PROVE  UNCHANGED vars
  BY <1>5 DEF Fail, Rest, vars
<1>6. ASSUME NEW p \in Proc \ Local, Remote(p)
      PROVE  Next
  BY <1>6 DEF Remote, Next
<1>7. CASE Tick
  BY <1>7 DEF Next
<1>8. CASE UNCHANGED allVars
  BY <1>8 DEF allVars
<1>9. QED
  BY <1>1, <1>2, <1>3, <1>4, <1>5, <1>6, <1>7, <1>8 DEF PoolNext

LEMMA PoolKeepsLock == PoolSpec => Spec
<1>1. PoolInit => Init
  BY DEF PoolInit
<1>2. QED
  BY <1>1, StepIsOfLock, PTL DEF PoolSpec, Spec

(* Whatever connections fail, a caller that is let in through the pool has *)
(* the section alone until it releases or its time is over, and one that   *)
(* comes back late changes nothing.                                        *)
THEOREM PoolImplementsLease == PoolSpec => ImplementsLease
BY PoolKeepsLock, LeaseHolds DEF ImplementsLease

(* So two callers within its time to live never both hold it.              *)
THEOREM PoolExclusionHolds == PoolSpec => []ExclusiveWithinTtl
BY PoolKeepsLock, ExclusionHolds, PTL

-----------------------------------------------------------------------------
(* Connections.                                                            *)
Placed == PoolTypeOK /\ OnePlace

(* A sequence consists of its head and its tail.                           *)
LEMMA TailMembers ==
  ASSUME NEW S, NEW s \in Seq(S), s # <<>>, NEW d
  PROVE  (\E i \in DOMAIN s : s[i] = d)
           <=> d = Head(s) \/ \E i \in DOMAIN Tail(s) : Tail(s)[i] = d
<1>1. ASSUME NEW i \in DOMAIN s, s[i] = d, i # 1
      PROVE  i - 1 \in DOMAIN Tail(s) /\ Tail(s)[i - 1] = d
  BY <1>1
<1>2. ASSUME NEW i \in DOMAIN Tail(s), Tail(s)[i] = d
      PROVE  i + 1 \in DOMAIN s /\ s[i + 1] = d
  BY <1>2
<1>3. Head(s) = s[1] /\ 1 \in DOMAIN s
  OBVIOUS
<1>4. QED
  BY <1>1, <1>2, <1>3

LEMMA InitPlaced == PoolInit => Placed
<1> SUFFICES ASSUME PoolInit
             PROVE  Placed
  OBVIOUS
<1>1. PoolTypeOK
  BY DEF PoolInit, PoolTypeOK
<1>2. DOMAIN pool = {} /\ \A t \in Thread : held[t] = Nil
  BY DEF PoolInit
<1>3. \A c \in Conn : state[c] = "closed" /\ c # Nil
  BY PoolAssumption DEF PoolInit
<1>4. QED
  BY <1>1, <1>2, <1>3 DEF Placed, OnePlace

LEMMA ReusePlaced ==
  ASSUME Placed, NEW t \in Thread, held[t] = Nil, Reuse(t)
  PROVE  Placed'
<1> DEFINE c == Head(pool)
<1> USE PoolAssumption DEF Placed, PoolTypeOK
<1>1. /\ pool # <<>> /\ c \in Conn /\ c = pool[1] /\ 1 \in DOMAIN pool
      /\ pool' = Tail(pool) /\ pool' \in Seq(Conn)
      /\ held' = [held EXCEPT ![t] = c]
      /\ state' = state
  BY DEF Reuse
<1>2. /\ DOMAIN pool' = 1 .. (Len(pool) - 1)
      /\ DOMAIN pool = 1 .. Len(pool) /\ Len(pool) \in Nat
      /\ \A i \in DOMAIN pool' : i + 1 \in DOMAIN pool /\ pool'[i] = pool[i + 1]
      /\ \A i \in DOMAIN pool : i # 1 => i - 1 \in DOMAIN pool' /\ pool'[i - 1] = pool[i]
  BY <1>1
<1>3. PoolTypeOK'
  BY <1>1 DEF Reuse
<1>4. \A i, j \in DOMAIN pool' : pool'[i] = pool'[j] => i = j
  BY <1>2 DEF OnePlace
<1>5. \A i \in DOMAIN pool' : pool'[i] # c
  BY <1>1, <1>2 DEF OnePlace
<1>6. \A v \in Thread : held[v] # c
  BY <1>1, PoolAssumption DEF OnePlace
<1>7. ASSUME NEW v \in Thread, held'[v] # Nil
      PROVE  /\ \A i \in DOMAIN pool' : pool'[i] # held'[v]
             /\ \A w \in Thread : held'[w] = held'[v] => w = v
  BY <1>1, <1>2, <1>5, <1>6, <1>7 DEF OnePlace
<1>8. ASSUME NEW d \in Conn
      PROVE  state'[d] # "closed" <=>
               (\E i \in DOMAIN pool' : pool'[i] = d) \/ (\E v \in Thread : held'[v] = d)
  <2>1. (\E v \in Thread : held'[v] = d) <=> d = c \/ \E v \in Thread : held[v] = d
    BY <1>1
  <2>2. (\E i \in DOMAIN pool : pool[i] = d) <=> d = c \/ \E i \in DOMAIN pool' : pool'[i] = d
    <3>1. (\E i \in DOMAIN pool : pool[i] = d)
            <=> d = Head(pool) \/ \E i \in DOMAIN Tail(pool) : Tail(pool)[i] = d
      <4> HIDE DEF c
      <4>1. pool \in Seq(Conn) /\ pool # <<>>
        BY <1>1
      <4>2. QED
        BY <4>1, TailMembers, ZenonT(40)
    <3>2. QED
      BY <3>1, <1>1, Zenon
  <2>3. QED
    BY <1>1, <2>1, <2>2 DEF OnePlace
<1>9. QED
  BY <1>3, <1>4, <1>7, <1>8 DEF OnePlace

LEMMA OpenPlaced ==
  ASSUME Placed, NEW t \in Thread, held[t] = Nil, Open(t)
  PROVE  Placed'
<1> USE PoolAssumption DEF Placed, PoolTypeOK
<1>1. PICK c \in Conn : /\ state[c] = "closed"
                        /\ state' = [state EXCEPT ![c] = "open"]
                        /\ held' = [held EXCEPT ![t] = c]
  BY DEF Open
<1>2. pool' = pool /\ pool = <<>> /\ rested' = rested
  BY DEF Open
<1>3. \A v \in Thread : held[v] # c
  BY <1>1 DEF OnePlace
<1>4. QED
  BY <1>1, <1>2, <1>3 DEF OnePlace

LEMMA DiscardPlaced ==
  ASSUME Placed, Discard
  PROVE  Placed'
<1> DEFINE c == Head(pool)
<1> USE PoolAssumption DEF Placed, PoolTypeOK
<1>1. /\ pool # <<>> /\ c \in Conn /\ c = pool[1] /\ 1 \in DOMAIN pool
      /\ pool' = Tail(pool) /\ pool' \in Seq(Conn)
      /\ held' = held
      /\ state' = [state EXCEPT ![c] = "closed"]
  BY DEF Discard
<1>2. /\ DOMAIN pool' = 1 .. (Len(pool) - 1)
      /\ DOMAIN pool = 1 .. Len(pool) /\ Len(pool) \in Nat
      /\ \A i \in DOMAIN pool' : i + 1 \in DOMAIN pool /\ pool'[i] = pool[i + 1]
      /\ \A i \in DOMAIN pool : i # 1 => i - 1 \in DOMAIN pool' /\ pool'[i - 1] = pool[i]
  BY <1>1
<1>3. PoolTypeOK'
  BY <1>1 DEF Discard
<1>4. \A i, j \in DOMAIN pool' : pool'[i] = pool'[j] => i = j
  BY <1>2 DEF OnePlace
<1>5. \A i \in DOMAIN pool' : pool'[i] # c
  BY <1>1, <1>2 DEF OnePlace
<1>6. \A v \in Thread : held[v] # c
  BY <1>1, PoolAssumption DEF OnePlace
<1>7. ASSUME NEW v \in Thread, held'[v] # Nil
      PROVE  /\ \A i \in DOMAIN pool' : pool'[i] # held'[v]
             /\ \A w \in Thread : held'[w] = held'[v] => w = v
  BY <1>1, <1>2, <1>7 DEF OnePlace
<1>8. ASSUME NEW d \in Conn
      PROVE  state'[d] # "closed" <=>
               (\E i \in DOMAIN pool' : pool'[i] = d) \/ (\E v \in Thread : held'[v] = d)
  <2>1. (\E i \in DOMAIN pool : pool[i] = d) <=> d = c \/ \E i \in DOMAIN pool' : pool'[i] = d
    <3>1. (\E i \in DOMAIN pool : pool[i] = d)
            <=> d = Head(pool) \/ \E i \in DOMAIN Tail(pool) : Tail(pool)[i] = d
      <4> HIDE DEF c
      <4>1. pool \in Seq(Conn) /\ pool # <<>>
        BY <1>1
      <4>2. QED
        BY <4>1, TailMembers, ZenonT(40)
    <3>2. QED
      BY <3>1, <1>1, Zenon
  <2>2. d # c => state'[d] = state[d]
    BY <1>1
  <2>3. state'[c] = "closed"
    BY <1>1
  <2>4. QED
    BY <1>1, <1>5, <1>6, <2>1, <2>2, <2>3 DEF OnePlace
<1>9. QED
  BY <1>3, <1>4, <1>7, <1>8 DEF OnePlace

LEMMA FreePlaced ==
  ASSUME Placed, NEW t \in Thread, held[t] # Nil, NEW after \in {"open", "failed"}, Free(t, after)
  PROVE  Placed'
<1> DEFINE c == held[t]
<1> USE PoolAssumption DEF Placed, PoolTypeOK
<1>1. /\ c \in Conn
      /\ held' = [held EXCEPT ![t] = Nil]
      /\ rested' = rested
      /\ \A i \in DOMAIN pool : pool[i] # c
      /\ \A v \in Thread : held[v] = c => v = t
  BY DEF Free, OnePlace
<1>2. \A d \in Conn : (\E v \in Thread : held[v] = d) <=> d = c \/ \E v \in Thread : held'[v] = d
  BY <1>1
<1>3. \A v \in Thread : held'[v] # c
  BY <1>1
<1>4. CASE Len(pool) < MaxConn
  <2>1. pool' = Append(pool, c) /\ state' = [state EXCEPT ![c] = after]
    BY <1>4 DEF Free
  <2>2. /\ DOMAIN pool' = 1 .. (Len(pool) + 1)
        /\ DOMAIN pool = 1 .. Len(pool) /\ Len(pool) \in Nat
        /\ pool'[Len(pool) + 1] = c
        /\ \A i \in DOMAIN pool : pool'[i] = pool[i]
    BY <1>1, <2>1
  <2>3. PoolTypeOK'
    BY <1>1, <2>1
  <2>4. \A i \in DOMAIN pool' : i \in DOMAIN pool \/ i = Len(pool) + 1
    BY <2>2
  <2>5. \A i, j \in DOMAIN pool' : pool'[i] = pool'[j] => i = j
    BY <1>1, <2>2, <2>4 DEF OnePlace
  <2>6. ASSUME NEW v \in Thread, held'[v] # Nil
        PROVE  /\ \A i \in DOMAIN pool' : pool'[i] # held'[v]
               /\ \A w \in Thread : held'[w] = held'[v] => w = v
    BY <1>1, <1>3, <2>2, <2>4, <2>6 DEF OnePlace
  <2>7. \A d \in Conn : (\E i \in DOMAIN pool' : pool'[i] = d)
                          <=> d = c \/ \E i \in DOMAIN pool : pool[i] = d
    BY <2>2, <2>4
  <2>8. \A d \in Conn : d # c => state'[d] = state[d]
    BY <2>1
  <2>9. state'[c] # "closed"
    BY <1>1, <2>1
  <2>10. \A d \in Conn : state'[d] # "closed" <=>
           (\E i \in DOMAIN pool' : pool'[i] = d) \/ (\E v \in Thread : held'[v] = d)
    BY <1>2, <2>7, <2>8, <2>9 DEF OnePlace
  <2>11. QED
    BY <2>3, <2>5, <2>6, <2>10 DEF OnePlace
<1>5. CASE ~(Len(pool) < MaxConn)
  <2>1. pool' = pool /\ state' = [state EXCEPT ![c] = "closed"]
    BY <1>5 DEF Free
  <2>2. PoolTypeOK'
    BY <1>1, <2>1
  <2>3. ASSUME NEW v \in Thread, held'[v] # Nil
        PROVE  /\ \A i \in DOMAIN pool' : pool'[i] # held'[v]
               /\ \A w \in Thread : held'[w] = held'[v] => w = v
    BY <1>1, <2>1, <2>3 DEF OnePlace
  <2>4. \A d \in Conn : d # c => state'[d] = state[d]
    BY <2>1
  <2>5. state'[c] = "closed"
    BY <1>1, <2>1
  <2>6. \A d \in Conn : state'[d] # "closed" <=>
          (\E i \in DOMAIN pool' : pool'[i] = d) \/ (\E v \in Thread : held'[v] = d)
    BY <1>1, <1>2, <1>3, <2>1, <2>4, <2>5 DEF OnePlace
  <2>7. QED
    BY <2>1, <2>2, <2>3, <2>6 DEF OnePlace
<1>6. QED
  BY <1>4, <1>5

(* A connection that is somewhere fails or not, and stays where it is.     *)
LEMMA FailPlaced ==
  ASSUME Placed, NEW c \in Conn, state[c] = "open",
         state' = [state EXCEPT ![c] = "failed"],
         pool' = pool, held' = held, rested' = rested
  PROVE  Placed'
BY DEF Placed, PoolTypeOK, OnePlace

LEMMA SamePlaced ==
  ASSUME Placed, UNCHANGED <<pool, held, state>>, rested' \in [Conn -> BOOLEAN]
  PROVE  Placed'
BY DEF Placed, PoolTypeOK, OnePlace

(* What a thread holds is open or failed.                                  *)
LEMMA HeldState ==
  ASSUME Placed, NEW t \in Thread, held[t] # Nil
  PROVE  state[held[t]] \in {"open", "failed"}
BY DEF Placed, PoolTypeOK, OnePlace

LEMMA GetPlaced ==
  ASSUME Placed, NEW t \in Thread, Get(t) \/ GetNull(t)
  PROVE  Placed'
<1>1. CASE Get(t)
  BY <1>1, ReusePlaced, OpenPlaced DEF Get
<1>2. CASE GetNull(t)
  BY <1>2, DiscardPlaced, SamePlaced DEF GetNull, CannotOpen, poolVars, Placed, PoolTypeOK
<1>3. QED
  BY <1>1, <1>2

LEMMA StepPlaced == Placed /\ [PoolNext]_allVars => Placed'
<1> SUFFICES ASSUME Placed, [PoolNext]_allVars
             PROVE  Placed'
  OBVIOUS
<1>1. ASSUME NEW p \in Local, AcquireBegin(p) \/ AcquireNull(p) \/ ReleaseBegin(p) \/ ReleaseNull(p)
      PROVE  Placed'
  <2>1. Get(p) \/ GetNull(p)
    BY <1>1 DEF AcquireBegin, AcquireNull, ReleaseBegin, ReleaseNull
  <2>2. QED
    BY <2>1, GetPlaced DEF Thread
<1>2. ASSUME NEW p \in Local, SetSucceeds(p) \/ Eval(p)
      PROVE  Placed'
  <2>1. held[p] # Nil /\ \E a \in {"open", "failed"} : Free(p, a)
    BY <1>2 DEF SetSucceeds, Eval
  <2>2. QED
    BY <2>1, FreePlaced DEF Thread
<1>3. ASSUME NEW p \in Local, SetTimesOut(p)
      PROVE  Placed'
  <2>1. /\ held[p] # Nil /\ state[held[p]] = "open"
        /\ state' = [state EXCEPT ![held[p]] = "failed"]
        /\ UNCHANGED <<pool, held, rested>>
    BY <1>3 DEF SetTimesOut, Works
  <2>2. held[p] \in Conn
    BY <2>1 DEF Placed, PoolTypeOK, Thread
  <2>3. QED
    BY <2>1, <2>2, FailPlaced
<1>4. ASSUME NEW p \in Local, AcquireGivesUp(p)
      PROVE  Placed'
  <2>1. held[p] # Nil /\ Free(p, state[held[p]])
    BY <1>4 DEF AcquireGivesUp
  <2>2. state[held[p]] \in {"open", "failed"}
    BY <2>1, HeldState DEF Thread
  <2>3. QED
    BY <2>1, <2>2, FreePlaced DEF Thread
<1>5. ASSUME NEW u \in User, CommandBegin(u) \/ CommandNull(u)
      PROVE  Placed'
  BY <1>5, GetPlaced DEF CommandBegin, CommandNull, Thread
<1>6. ASSUME NEW u \in User, CommandEnd(u)
      PROVE  Placed'
  <2>1. held[u] # Nil /\ \E a \in {"open", "failed"} : Free(u, a)
    BY <1>6 DEF CommandEnd
  <2>2. QED
    BY <2>1, FreePlaced DEF Thread
<1>7. ASSUME NEW c \in Conn, Fail(c)
      PROVE  Placed'
  BY <1>7, FailPlaced DEF Fail
<1>8. ASSUME NEW c \in Conn, Rest(c)
      PROVE  Placed'
  BY <1>8, SamePlaced DEF Rest, Placed, PoolTypeOK
<1>9. CASE UNCHANGED poolVars
  BY <1>9, SamePlaced DEF poolVars, Placed, PoolTypeOK
<1>10. QED
  BY <1>1, <1>2, <1>3, <1>4, <1>5, <1>6, <1>7, <1>8, <1>9 DEF PoolNext, allVars

(* A connection is in the pool once or with one thread, and a closed one   *)
(* is nowhere: no two threads ever read each other's replies.              *)
THEOREM OnePlaceHolds == PoolSpec => [](PoolTypeOK /\ OnePlace)
<1>1. PoolInit => Placed
  BY InitPlaced
<1>2. Placed => PoolTypeOK /\ OnePlace
  BY DEF Placed
<1>3. QED
  BY <1>1, <1>2, StepPlaced, PTL DEF PoolSpec
=============================================================================
