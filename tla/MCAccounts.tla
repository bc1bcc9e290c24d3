---------------------------- MODULE MCAccounts ----------------------------
(***************************************************************************)
(* Small instances of Accounts.                                            *)
(***************************************************************************)
EXTENDS Accounts, TLC

CONSTANTS r1, r2, m1, m2, n1, n2, p1, p2

Post(k, m, n, p) == [kind |-> k, mail |-> m, name |-> n, pwd |-> p]

(* On one connection codes are asked for, one address registers and both   *)
(* reset the password of its name; on the other either address registers,  *)
(* and somebody searches for either name.  The first address logs in on    *)
(* both.                                                                   *)
TwoClients ==
  r1 :> {Post("code", m1, n1, p1), Post("code", m2, n1, p1),
         Post("register", m1, n1, p1), Post("reset", m1, n1, p2), Post("reset", m2, n1, p2),
         Post("login", m1, n1, p1)} @@
  r2 :> {Post("register", m2, n2, p1), Post("register", m1, n1, p1),
         Post("login", m1, n1, p1),
         Post("find", m1, n1, p1), Post("find", m1, n2, p1)}

(* The second name is the digit 1.                                         *)
SecondIsOne == n1 :> None @@ n2 :> 1
=============================================================================
