-------------------------------- MODULE Lease --------------------------------
(***************************************************************************)
(* What acquireLock and releaseLock promise their callers: whoever is let  *)
(* in has the section to itself for LeaseTime, unless it comes back        *)
(* earlier, and nobody comes in while another's time runs.                 *)
(*                                                                         *)
(* Nothing is said here of keys, identifiers or connections.  Whether a    *)
(* caller can be let in depends on `barred` alone: the door may be shut    *)
(* although nobody is inside, when a reply or a release was lost, but then *)
(* for no longer than LeaseTime.                                           *)
(***************************************************************************)
EXTENDS Integers

CONSTANTS Proc, LeaseTime

VARIABLES
  left,   \* left[p]: for how long p still has the section, or 0
  barred  \* for how long nobody is let in, or 0

leaseVars == <<left, barred>>

Init ==
  /\ left = [p \in Proc |-> 0]
  /\ barred = 0

(* p is let in, when nobody's time is running.                             *)
Grant(p) ==
  /\ barred = 0
  /\ \A q \in Proc : left[q] = 0
  /\ left' = [left EXCEPT ![p] = LeaseTime]
  /\ barred' = LeaseTime

(* The door shuts, and nobody knows of having been let in.                 *)
Shut ==
  /\ barred = 0
  /\ barred' = LeaseTime
  /\ UNCHANGED left

(* p comes back in time, and the door opens.                               *)
Return(p) ==
  /\ left[p] > 0
  /\ left' = [left EXCEPT ![p] = 0]
  /\ barred' = 0

(* p is done, but the door stays shut for the rest of its time.            *)
Vanish(p) ==
  /\ left[p] > 0
  /\ left' = [left EXCEPT ![p] = 0]
  /\ UNCHANGED barred

Sooner(n) == IF n > 0 THEN n - 1 ELSE 0

Pass ==
  /\ left' = [p \in Proc |-> Sooner(left[p])]
  /\ barred' = Sooner(barred)

Next ==
  \/ \E p \in Proc : Grant(p) \/ Return(p) \/ Vanish(p)
  \/ Shut
  \/ Pass

Spec == Init /\ [][Next]_leaseVars
=============================================================================
