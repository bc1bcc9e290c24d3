---------------------------- MODULE MCChatLogin ----------------------------
(***************************************************************************)
(* Small clusters for ChatLogin.                                           *)
(***************************************************************************)
EXTENDS ChatLogin, TLC

(* How many socket errors a session may report: none, or one for a single *)
(* session.                                                                *)
NoError   == [x \in Session |-> 0]
OneBreaks == [NoError EXCEPT ![CHOOSE x \in Session : TRUE] = 1]

(* Servers are interchangeable (not the sessions: only one of them breaks).*)
Symmetry == Permutations(Server)

(* The state without what no later step and no property depends on: the    *)
(* published login counts, and the locals of a login past their last use.  *)
(* TypeOK makes TLC evaluate those, too, before it stores a state.         *)
LoginView ==
  <<TypeOK, home, accepting, errors, sessions, uid, closed, kicked, userMgr, expired,
    uip, usession, lock, pc, sess, user, faults,
    [p \in LoginProc |->
       IF pc[p] \in {"lookup", "evict"} THEN <<peer[p], old[p]>> ELSE <<>>]>>

=============================================================================
