---------------------------- MODULE MCMessaging ----------------------------
(***************************************************************************)
(* Small instances of Messaging.                                           *)
(***************************************************************************)
EXTENDS Messaging, TLC

CONSTANTS alice, bob, carol, r1, r2, r3

Pending(u, v) == [from |-> u, to |-> v, status |-> 0]
Accept(u, v)  == [from |-> u, to |-> v, status |-> 1]

(* Two users have applied to each other, and accept each other; one of     *)
(* them writes.  One has another friend, who stays away.                   *)
MutualPending == <<Pending(alice, bob), Pending(bob, alice), Accept(carol, alice)>>
AcceptAndWrite == r1 :> "auth" @@ r2 :> "auth" @@ r3 :> "text"

(* A user accepts an application, and applies to the other one herself.    *)
OneApplied == <<Pending(bob, alice)>>
AcceptAndApply == r1 :> "auth" @@ r2 :> "apply"

(* Alice and Bob log in once; Carol stays away.                            *)
OneLogin == [u \in User |-> IF u = carol THEN 0 ELSE 1]

ServerSymmetry == Permutations(Server)

=============================================================================
