----------------------------- MODULE SendQueue -----------------------------
(***************************************************************************)
(* The write side of one chat session (ChatServer/Session.cc).             *)
(*                                                                         *)
(* LogicSystem workers and gRPC threads call Send, which queues a message  *)
(* under send_mutex_ and starts an asynchronous write when the queue was   *)
(* empty.  The session's io thread runs HandleWrite when a write ends: it  *)
(* pops the message and starts the next write.  After a failed write it    *)
(* first closes the socket and runs DealExceptionSession, outside the      *)
(* mutex, and then goes on in the same way.  Messages are numbered in the  *)
(* order in which Send is called.                                          *)
(***************************************************************************)
EXTENDS Integers, Sequences

CONSTANTS
  MaxSendQue,  \* MAX_SENDQUE
  MaxSends     \* bound on the calls of Send

ASSUME SendAssumption == MaxSendQue \in Nat /\ MaxSends \in Nat

VARIABLES
  calls,     \* calls of Send so far
  sendQue,   \* send_que_
  write,     \* the asynchronous write: none, under way, done, or failed
  pc,        \* the io thread: in its event loop, or dealing with an error
  open,      \* the socket is open and its sending side not shut down
  closed,    \* closed_
  deals,     \* runs of DealExceptionSession caused by writes
  accepted,  \* every message ever queued, in order
  wire       \* messages handed whole to the peer's connection, in order

vars == <<calls, sendQue, write, pc, open, closed, deals, accepted, wire>>

Msg == 1 .. MaxSends

TypeOK ==
  /\ calls \in 0 .. MaxSends
  /\ sendQue \in Seq(Msg)
  /\ write \in {"none", "pending", "done", "failed"}
  /\ pc \in {"loop", "deal", "next"}
  /\ open \in BOOLEAN
  /\ closed \in BOOLEAN
  /\ deals \in 0 .. MaxSends
  /\ accepted \in Seq(Msg)
  /\ wire \in Seq(Msg)

Init ==
  /\ calls = 0
  /\ sendQue = <<>>
  /\ write = "none"
  /\ pc = "loop"
  /\ open = TRUE
  /\ closed = FALSE
  /\ deals = 0
  /\ accepted = <<>>
  /\ wire = <<>>

(***************************************************************************)
(* Send, on any thread, under send_mutex_.                                 *)
(***************************************************************************)
(* A message is refused only when the queue is above MAX_SENDQUE.          *)
Full == Len(sendQue) > MaxSendQue

SendRefused ==
  /\ calls < MaxSends
  /\ Full
  /\ calls' = calls + 1
  /\ UNCHANGED <<sendQue, write, pc, open, closed, deals, accepted, wire>>

Send ==
  /\ calls < MaxSends
  /\ ~Full
  /\ calls' = calls + 1
  /\ sendQue' = Append(sendQue, calls + 1)
  /\ accepted' = Append(accepted, calls + 1)
  /\ write' = IF sendQue = <<>> THEN "pending" ELSE write
  /\ UNCHANGED <<pc, open, closed, deals, wire>>

(***************************************************************************)
(* The socket.                                                             *)
(***************************************************************************)
(* Variant: the newest message is written instead of the oldest.           *)
WriteDoneBack ==
  /\ write = "pending"
  /\ open
  /\ write' = "done"
  /\ wire' = Append(wire, sendQue[Len(sendQue)])
  /\ UNCHANGED <<calls, sendQue, pc, open, closed, deals, accepted>>

(* The bytes of the message under way have all been handed to the peer.    *)
WriteDone ==
  /\ write = "pending"
  /\ open
  /\ write' = "done"
  /\ wire' = Append(wire, Head(sendQue))
  /\ UNCHANGED <<calls, sendQue, pc, open, closed, deals, accepted>>

(* A write on a socket that is closed or shut down fails.                  *)
WriteFailed ==
  /\ write = "pending"
  /\ ~open
  /\ write' = "failed"
  /\ UNCHANGED <<calls, sendQue, pc, open, closed, deals, accepted, wire>>

(* The peer goes away: nothing more gets through.                          *)
PeerGone ==
  /\ open
  /\ open' = FALSE
  /\ UNCHANGED <<calls, sendQue, write, pc, closed, deals, accepted, wire>>

(* Close, from a read error or from on_timer, on their own threads; and    *)
(* ShutDownWrite, when a message arrives on a session already removed.     *)
CloseSocket == open' = FALSE /\ closed' = TRUE

CloseByOther ==
  /\ ~closed
  /\ CloseSocket
  /\ UNCHANGED <<calls, sendQue, write, pc, deals, accepted, wire>>

ShutDownWrite ==
  /\ open
  /\ pc = "loop"
  /\ open' = FALSE
  /\ UNCHANGED <<calls, sendQue, write, pc, closed, deals, accepted, wire>>

(***************************************************************************)
(* HandleWrite, on the session's io thread.                                *)
(***************************************************************************)
(* With an error: Close and DealExceptionSession come first, and the       *)
(* handler does not return after them.                                     *)
HandleError ==
  /\ pc = "loop"
  /\ write = "failed"
  /\ CloseSocket
  /\ pc' = "deal"
  /\ UNCHANGED <<calls, sendQue, write, deals, accepted, wire>>

DealException ==
  /\ pc = "deal"
  /\ deals' = deals + 1
  /\ pc' = "next"
  /\ UNCHANGED <<calls, sendQue, write, open, closed, accepted, wire>>

(* Variant: the next write is not started.                                 *)
PopOnly ==
  /\ IF write = "done" THEN pc = "loop" ELSE pc = "next"
  /\ sendQue' = Tail(sendQue)
  /\ write' = "none"
  /\ pc' = "loop"
  /\ UNCHANGED <<calls, open, closed, deals, accepted, wire>>

(* Under send_mutex_: pop the message and write the next one.              *)
Pop ==
  /\ \/ pc = "loop" /\ write = "done"
     \/ pc = "next" /\ write = "failed"
  /\ sendQue' = Tail(sendQue)
  /\ write' = IF sendQue' = <<>> THEN "none" ELSE "pending"
  /\ pc' = "loop"
  /\ UNCHANGED <<calls, open, closed, deals, accepted, wire>>

(***************************************************************************)
(* The specification.  The io thread runs its handlers, and the system     *)
(* completes every write, with success or with an error.                   *)
(***************************************************************************)
Next ==
  \/ Send \/ SendRefused
  \/ WriteDone \/ WriteFailed \/ PeerGone \/ CloseByOther \/ ShutDownWrite
  \/ HandleError \/ DealException \/ Pop

Spec == Init /\ [][Next]_vars

FairSpec ==
  /\ Spec
  /\ WF_vars(WriteDone \/ WriteFailed)
  /\ WF_vars(HandleError \/ DealException \/ Pop)

-----------------------------------------------------------------------------
(* The one write under way belongs to the head of the queue: there is one  *)
(* exactly while the queue is not empty, whoever closes the socket when.   *)
OneWritePerQueue ==
  /\ (write = "none") <=> (sendQue = <<>>)
  /\ pc # "loop" => write = "failed"

(* The queue outgrows MAX_SENDQUE by at most one message, because its      *)
(* length is tested before the push (Session.cc:45).                       *)
QueueBounded == Len(sendQue) <= MaxSendQue + 1

(* Every message accepted is still queued, was delivered, or was lost to a *)
(* failed write: exactly one run of DealExceptionSession for each loss.    *)
OneDealPerLostMessage ==
  LET written == IF write = "done" THEN 1 ELSE 0
      dealt   == IF pc = "next" THEN 1 ELSE 0
  IN  Len(accepted) = Len(wire) - written + (deals - dealt) + Len(sendQue)

(* The session implements the ordered channel: what it writes is what was  *)
(* accepted, in that order, with nothing left out, duplicated or written   *)
(* after an error, although HandleWrite goes on popping after one.         *)
Channel == INSTANCE OrderedChannel WITH got <- wire, up <- open

ImplementsChannel == Channel!ChSpec

(* No message stays queued for ever: each is written or given up, also on  *)
(* a session that somebody else closed between two writes.  Send is called *)
(* MaxSends times at most, so that the queue comes to be empty.            *)
EveryMessageLeaves == sendQue # <<>> ~> sendQue = <<>>
=============================================================================
