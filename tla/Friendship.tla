----------------------------- MODULE Friendship -----------------------------
(***************************************************************************)
(* What the tables friend_apply and friend promise: an application is      *)
(* recorded for good, and two users become friends of each other in one    *)
(* step, never one of the other only.                                      *)
(***************************************************************************)
CONSTANT User

VARIABLES
  applied,  \* pairs <<a, b>>: a has applied to b
  friend    \* pairs <<a, b>>: b is a friend of a

vars == <<applied, friend>>

Init ==
  /\ applied \in SUBSET (User \X User)
  /\ friend \in SUBSET (User \X User)
  /\ \A a, b \in User : <<a, b>> \in friend => <<b, a>> \in friend

Apply(a, b) ==
  /\ applied' = applied \cup {<<a, b>>}
  /\ UNCHANGED friend

Befriend(a, b) ==
  /\ friend' = friend \cup {<<a, b>>, <<b, a>>}
  /\ UNCHANGED applied

Next == \E a, b \in User : Apply(a, b) \/ Befriend(a, b)

Spec == Init /\ [][Next]_vars

=============================================================================
