--------------------------- MODULE OrderedChannel ---------------------------
(***************************************************************************)
(* What Session::Send promises its callers: the messages it accepts reach  *)
(* the client in the order of acceptance, each at most once and none       *)
(* skipped, until the connection breaks; after that nothing reaches it.    *)
(***************************************************************************)
EXTENDS Naturals, Sequences

CONSTANTS
  Msg        \* messages

VARIABLES
  accepted,  \* messages accepted, in order
  got,       \* those handed to the client's connection, in order
  up         \* whether the connection still carries anything

chVars == <<accepted, got, up>>

ChInit == accepted = <<>> /\ got = <<>> /\ up = TRUE

(* A sender may keep sending on a broken connection without noticing.      *)
Put == /\ \E m \in Msg : accepted' = Append(accepted, m)
       /\ UNCHANGED <<got, up>>

Deliver == /\ up
           /\ Len(got) < Len(accepted)
           /\ got' = Append(got, accepted[Len(got) + 1])
           /\ UNCHANGED <<accepted, up>>

Break == up' = FALSE /\ UNCHANGED <<accepted, got>>

ChNext == Put \/ Deliver \/ Break

ChSpec == ChInit /\ [][ChNext]_chVars
=============================================================================
