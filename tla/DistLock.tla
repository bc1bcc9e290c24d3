------------------------------ MODULE DistLock ------------------------------
(***************************************************************************)
(* The lock that chat servers keep in Redis for each user                  *)
(* (Common/DistLock.cc and its callers in Common/RedisMgr.cc), with time.  *)
(*                                                                         *)
(* acquireLock repeats SET NX EX with a fresh identifier until it succeeds *)
(* or acquireTimeout has passed; releaseLock is a script that deletes the  *)
(* key only if it holds the caller's identifier.  Redis deletes the key    *)
(* when its time to live ends.  A command or its reply may be lost.        *)
(*                                                                         *)
(* Time is counted in ticks; every clock is the time left or the time      *)
(* passed since an event, so the state space is finite.                    *)
(***************************************************************************)
EXTENDS Integers

CONSTANTS
  Proc,         \* callers: threads of all chat servers
  LockTime,     \* lockTimeout (LOCK_TIME_OUT), in ticks
  AcquireTime,  \* acquireTimeout (ACQUIRE_TIME_OUT), in ticks
  Nil           \* no holder

ASSUME LockAssumption ==
  /\ Nil \notin Proc
  /\ LockTime \in Nat \ {0}
  /\ AcquireTime \in Nat \ {0}

VARIABLES
  key,   \* the Redis key: whose identifier it holds
  ttl,   \* its time to live, 0 without a key
  pc,    \* what every caller is doing
  wait,  \* wait[p]: time left until p gives up
  age    \* age[p]: time since the SET of p succeeded, up to LockTime

vars == <<key, ttl, pc, wait, age>>

TypeOK ==
  /\ key \in Proc \cup {Nil}
  /\ ttl \in 0 .. LockTime
  /\ pc \in [Proc -> {"idle", "trying", "holding", "timedout"}]
  /\ wait \in [Proc -> 0 .. AcquireTime]
  /\ age \in [Proc -> 0 .. LockTime]

Init ==
  /\ key = Nil
  /\ ttl = 0
  /\ pc = [p \in Proc |-> "idle"]
  /\ wait = [p \in Proc |-> 0]
  /\ age = [p \in Proc |-> 0]

(***************************************************************************)
(* acquireLock.                                                            *)
(***************************************************************************)
Start(p) ==
  /\ pc[p] \in {"idle", "timedout"}
  /\ pc' = [pc EXCEPT ![p] = "trying"]
  /\ wait' = [wait EXCEPT ![p] = AcquireTime]
  /\ UNCHANGED <<key, ttl, age>>

(* RedisMgr::acquireLock gets no connection and returns no identifier.     *)
NoConnection(p) ==
  /\ pc[p] \in {"idle", "timedout"}
  /\ pc' = [pc EXCEPT ![p] = "timedout"]
  /\ UNCHANGED <<key, ttl, wait, age>>

(* Variant: SET without NX.                                                *)
SetNoNx(p) ==
  /\ pc[p] = "trying"
  /\ wait[p] > 0
  /\ key' = p
  /\ ttl' = LockTime

(* SET key identifier NX EX lockTimeout finds the key absent.              *)
SetNx(p) ==
  /\ pc[p] = "trying"
  /\ wait[p] > 0
  /\ key = Nil
  /\ key' = p
  /\ ttl' = LockTime

Acquired(p) ==
  /\ SetNx(p)
  /\ pc' = [pc EXCEPT ![p] = "holding"]
  /\ wait' = [wait EXCEPT ![p] = 0]
  /\ age' = [age EXCEPT ![p] = 0]

(* The reply is lost: the key is set, and p goes on trying against its own *)
(* identifier.                                                             *)
SetReplyLost(p) ==
  /\ SetNx(p)
  /\ UNCHANGED <<pc, wait, age>>

(* Variant: the deadline is set again at every round of the loop.          *)
GiveUpNever(p) ==
  /\ pc[p] = "trying"
  /\ wait[p] = 0
  /\ wait' = [wait EXCEPT ![p] = AcquireTime]
  /\ UNCHANGED <<key, ttl, pc, age>>

(* The deadline has passed: acquireLock returns no identifier.             *)
GiveUp(p) ==
  /\ pc[p] = "trying"
  /\ wait[p] = 0
  /\ pc' = [pc EXCEPT ![p] = "timedout"]
  /\ UNCHANGED <<key, ttl, wait, age>>

(***************************************************************************)
(* releaseLock and what may happen instead.                                *)
(***************************************************************************)
Idle(p) ==
  /\ pc' = [pc EXCEPT ![p] = "idle"]
  /\ age' = [age EXCEPT ![p] = 0]
  /\ UNCHANGED wait

(* Variant: DEL without comparing the identifier.                          *)
ReleaseAny(p) ==
  /\ pc[p] = "holding"
  /\ key' = Nil /\ ttl' = 0
  /\ Idle(p)

Release(p) ==
  /\ pc[p] = "holding"
  /\ IF key = p THEN key' = Nil /\ ttl' = 0 ELSE UNCHANGED <<key, ttl>>
  /\ Idle(p)

(* The release is lost, or the caller's process dies in its section.       *)
ReleaseLost(p) ==
  /\ pc[p] = "holding"
  /\ Idle(p)
  /\ UNCHANGED <<key, ttl>>

(***************************************************************************)
(* Time.  A caller whose deadline has come gives up before time goes on.   *)
(***************************************************************************)
Less(n) == IF n > 0 THEN n - 1 ELSE 0

Tick ==
  /\ \A p \in Proc : pc[p] = "trying" => wait[p] > 0
  /\ key' = IF ttl = 1 THEN Nil ELSE key
  /\ ttl' = Less(ttl)
  /\ wait' = [p \in Proc |-> Less(wait[p])]
  /\ age' = [p \in Proc |->
               IF pc[p] = "holding" /\ age[p] < LockTime THEN age[p] + 1 ELSE age[p]]
  /\ UNCHANGED pc

Next ==
  \/ \E p \in Proc : Start(p) \/ NoConnection(p) \/ Acquired(p) \/ SetReplyLost(p) \/ GiveUp(p)
  \/ \E p \in Proc : Release(p) \/ ReleaseLost(p)
  \/ Tick

Spec == Init /\ [][Next]_vars

(* Time passes and a caller's loop reads the clock.                        *)
FairSpec ==
  /\ Spec
  /\ WF_vars(Tick)
  /\ \A p \in Proc : WF_vars(GiveUp(p))

-----------------------------------------------------------------------------
(* The lock and the clocks agree: a caller still within its time to live   *)
(* is the one the key names, and the key lives for the rest of that time.  *)
HolderWithinTtl ==
  \A p \in Proc : pc[p] = "holding" /\ age[p] < LockTime =>
    key = p /\ ttl = LockTime - age[p]

(* The lock as its callers see it: the rest of a caller's time to live,    *)
(* and the time for which Redis refuses everybody.                         *)
TimeLeft == [p \in Proc |-> IF pc[p] = "holding" THEN LockTime - age[p] ELSE 0]

Promise == INSTANCE Lease WITH LeaseTime <- LockTime, left <- TimeLeft, barred <- ttl

(* Two callers think they hold the lock only if one of them overstayed.    *)
ExclusiveWithinTtl ==
  \A p, q \in Proc :
    /\ pc[p] = "holding" /\ age[p] < LockTime
    /\ pc[q] = "holding" /\ age[q] < LockTime
    => p = q

(* A key before its end disappears only by the hand of the caller it       *)
(* names ("only the holder can release", DistLock.cc:57).                  *)
OnlyHolderReleases ==
  [][\A p \in Proc : key = p /\ key' # p /\ ttl > 1 =>
       pc[p] = "holding" /\ pc'[p] = "idle"]_vars

(* acquireLock returns.                                                    *)
AcquireReturns == \A p \in Proc : pc[p] = "trying" ~> pc[p] # "trying"
=============================================================================
