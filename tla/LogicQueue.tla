----------------------------- MODULE LogicQueue -----------------------------
(***************************************************************************)
(* The message queue of a chat server and its worker threads               *)
(* (ChatServer/LogicSystem.cc).                                            *)
(*                                                                         *)
(* io threads post messages under mutex_ and notify one worker.  A worker  *)
(* waits on the condition variable consume_, takes the whole queue at once *)
(* and handles the batch in order, outside the mutex.  Shutdown sets       *)
(* stopped_ and notifies all workers without taking the mutex, then joins  *)
(* them.  Messages are numbered in the order in which they are queued.     *)
(*                                                                         *)
(* Waiting on the condition variable is three steps: the predicate is      *)
(* evaluated with the mutex held, the thread blocks and gives the mutex up *)
(* in one step, and a notified thread takes the mutex again.               *)
(***************************************************************************)
EXTENDS Integers, Sequences, FiniteSets

CONSTANTS
  Worker,    \* the threads that run DealMsg
  Poster,    \* the io threads
  MaxMsgs,   \* bound on the messages posted
  Nobody     \* holder of a free mutex

ASSUME LogicAssumption ==
  /\ Nobody \notin Worker \cup Poster
  /\ Worker \cap Poster = {}
  /\ Worker # {}
  /\ MaxMsgs \in Nat

VARIABLES
  msgQue,    \* msg_que_
  stopped,   \* stopped_
  mutex,     \* holder of mutex_
  posted,    \* number of messages queued so far
  msgs,      \* msgs[w]: the batch of worker w, what is left of it
  handled,   \* handled[w]: the messages w has handled, in order
  pc,        \* next step of every thread
  main       \* next step of the thread that calls Shutdown

vars == <<msgQue, stopped, mutex, posted, msgs, handled, pc, main>>

Thread == Worker \cup Poster
Msg == 1 .. MaxMsgs

WorkerPC == {"lock", "test", "block", "blocked", "take", "handle", "exit"}
PosterPC == {"read", "post"}

TypeOK ==
  /\ msgQue \in Seq(Msg)
  /\ stopped \in BOOLEAN
  /\ mutex \in Thread \cup {Nobody}
  /\ posted \in 0 .. MaxMsgs
  /\ msgs \in [Worker -> Seq(Msg)]
  /\ handled \in [Worker -> Seq(Msg)]
  /\ pc \in [Thread -> WorkerPC \cup PosterPC]
  /\ main \in {"run", "notify", "join", "joined"}

Init ==
  /\ msgQue = <<>>
  /\ stopped = FALSE
  /\ mutex = Nobody
  /\ posted = 0
  /\ msgs = [w \in Worker |-> <<>>]
  /\ handled = [w \in Worker |-> <<>>]
  /\ pc = [t \in Thread |-> IF t \in Worker THEN "lock" ELSE "read"]
  /\ main = "run"

Goto(t, from, to) ==
  /\ pc[t] = from
  /\ pc' = [pc EXCEPT ![t] = to]

Waiting == {w \in Worker : pc[w] = "blocked"}

(* The state of the workers after notify_one: one of those blocked, if any.*)
NotifyOne(before) ==
  IF Waiting = {}
    THEN {before}
    ELSE {[before EXCEPT ![w] = "lock"] : w \in Waiting}

(***************************************************************************)
(* PostMsgToQue.                                                           *)
(***************************************************************************)
(* Lock the mutex; a stopped system takes no more messages.                *)
PostBegin(t) ==
  /\ posted < MaxMsgs
  /\ mutex = Nobody
  /\ ~stopped
  /\ mutex' = t
  /\ Goto(t, "read", "post")
  /\ UNCHANGED <<msgQue, stopped, posted, msgs, handled, main>>

(* Variant: a post wakes a worker only if nothing has been queued before.  *)
PostQuiet(t) ==
  /\ pc[t] = "post"
  /\ msgQue' = Append(msgQue, posted + 1)
  /\ posted' = posted + 1
  /\ mutex' = Nobody
  /\ pc' \in IF posted = 0 THEN NotifyOne([pc EXCEPT ![t] = "read"])
                           ELSE {[pc EXCEPT ![t] = "read"]}
  /\ UNCHANGED <<stopped, msgs, handled, main>>

(* Queue the message, notify one worker, unlock.                           *)
Post(t) ==
  /\ pc[t] = "post"
  /\ msgQue' = Append(msgQue, posted + 1)
  /\ posted' = posted + 1
  /\ mutex' = Nobody
  /\ pc' \in NotifyOne([pc EXCEPT ![t] = "read"])
  /\ UNCHANGED <<stopped, msgs, handled, main>>

(***************************************************************************)
(* DealMsg.                                                                *)
(***************************************************************************)
Lock(w) ==
  /\ mutex = Nobody
  /\ mutex' = w
  /\ Goto(w, "lock", "test")
  /\ UNCHANGED <<msgQue, stopped, posted, msgs, handled, main>>

(* Variant: the predicate asks for messages only.                          *)
TestQueueOnly(w) ==
  /\ Goto(w, "test", IF msgQue # <<>> THEN "take" ELSE "block")
  /\ UNCHANGED <<msgQue, stopped, mutex, posted, msgs, handled, main>>

(* The predicate of consume_.wait, with the mutex held.                    *)
Test(w) ==
  /\ Goto(w, "test", IF msgQue # <<>> \/ stopped THEN "take" ELSE "block")
  /\ UNCHANGED <<msgQue, stopped, mutex, posted, msgs, handled, main>>

(* Giving the mutex up and joining the sleepers is one step.               *)
Block(w) ==
  /\ Goto(w, "block", "blocked")
  /\ mutex' = Nobody
  /\ UNCHANGED <<msgQue, stopped, posted, msgs, handled, main>>

(* A condition variable may wake a thread without a notification.          *)
WakeUp(w) ==
  /\ Goto(w, "blocked", "lock")
  /\ UNCHANGED <<msgQue, stopped, mutex, posted, msgs, handled, main>>

(* Variant: a stopped worker leaves although messages are queued.          *)
ExitAtOnce(w) ==
  /\ stopped
  /\ Goto(w, "take", "exit")
  /\ mutex' = Nobody
  /\ UNCHANGED <<msgQue, stopped, posted, msgs, handled, main>>

Exit(w) ==
  /\ stopped
  /\ msgQue = <<>>
  /\ Goto(w, "take", "exit")
  /\ mutex' = Nobody
  /\ UNCHANGED <<msgQue, stopped, posted, msgs, handled, main>>

(* Take the whole queue (it is not empty here) and unlock.                 *)
Take(w) ==
  /\ ~(stopped /\ msgQue = <<>>)
  /\ Goto(w, "take", "handle")
  /\ msgs' = [msgs EXCEPT ![w] = msgQue]
  /\ msgQue' = <<>>
  /\ mutex' = Nobody
  /\ UNCHANGED <<stopped, posted, handled, main>>

(* Variant: the batch is handled from its end.                             *)
HandleBack(w) ==
  /\ pc[w] = "handle"
  /\ msgs[w] # <<>>
  /\ LET n == Len(msgs[w])
     IN  /\ handled' = [handled EXCEPT ![w] = Append(@, msgs[w][n])]
         /\ msgs' = [msgs EXCEPT ![w] = SubSeq(@, 1, n - 1)]
  /\ UNCHANGED <<msgQue, stopped, mutex, posted, pc, main>>

(* Run the handler of the next message; an unknown id is skipped.          *)
Handle(w) ==
  /\ pc[w] = "handle"
  /\ msgs[w] # <<>>
  /\ handled' = [handled EXCEPT ![w] = Append(@, Head(msgs[w]))]
  /\ msgs' = [msgs EXCEPT ![w] = Tail(@)]
  /\ UNCHANGED <<msgQue, stopped, mutex, posted, pc, main>>

BatchDone(w) ==
  /\ msgs[w] = <<>>
  /\ Goto(w, "handle", "lock")
  /\ UNCHANGED <<msgQue, stopped, mutex, posted, msgs, handled, main>>

(***************************************************************************)
(* Shutdown.  The mutex is not taken.                                      *)
(***************************************************************************)
SetStopped ==
  /\ main = "run"
  /\ stopped' = TRUE
  /\ main' = "notify"
  /\ UNCHANGED <<msgQue, mutex, posted, msgs, handled, pc>>

NotifyAll ==
  /\ main = "notify"
  /\ pc' = [t \in Thread |-> IF t \in Waiting THEN "lock" ELSE pc[t]]
  /\ main' = "join"
  /\ UNCHANGED <<msgQue, stopped, mutex, posted, msgs, handled>>

Join ==
  /\ main = "join"
  /\ \A w \in Worker : pc[w] = "exit"
  /\ main' = "joined"
  /\ UNCHANGED <<msgQue, stopped, mutex, posted, msgs, handled, pc>>

(***************************************************************************)
(* The specification.  Threads keep running and the mutex is handed on     *)
(* fairly; nothing is assumed of spurious wake-ups, of new messages or of  *)
(* the signal that leads to Shutdown.                                      *)
(***************************************************************************)
WorkerStep(w) ==
  \/ Test(w) \/ Block(w) \/ Exit(w) \/ Take(w) \/ Handle(w) \/ BatchDone(w)

Next ==
  \/ \E t \in Poster : PostBegin(t) \/ Post(t)
  \/ \E w \in Worker : Lock(w) \/ WorkerStep(w) \/ WakeUp(w)
  \/ SetStopped \/ NotifyAll \/ Join

Spec == Init /\ [][Next]_vars

Fairness ==
  /\ \A w \in Worker : WF_vars(WorkerStep(w)) /\ SF_vars(Lock(w))
  /\ \A t \in Poster : WF_vars(Post(t))
  /\ WF_vars(NotifyAll) /\ WF_vars(Join)

FairSpec == Spec /\ Fairness

-----------------------------------------------------------------------------
(* The mutex is held by the one thread inside its critical section.        *)
InMutex(t) == pc[t] \in {"test", "block", "take", "post"}

MutexHeld == \A t \in Thread : InMutex(t) <=> mutex = t

(* No message waits in the queue while every worker sleeps: the predicate  *)
(* is tested and the thread blocked without letting a post in between.     *)
NoLostWakeup ==
  msgQue # <<>> => \E w \in Worker : pc[w] \notin {"block", "blocked", "exit"}

(* Each worker handles messages in the order in which they were queued, so *)
(* two messages can change places only between two workers.                *)
OrderPerWorker ==
  \A w \in Worker : \A i, j \in 1 .. Len(handled[w]) :
    i < j => handled[w][i] < handled[w][j]

(* When all workers have been joined, no accepted message is left over,    *)
(* even one posted while stopped_ was being set.                           *)
NothingLeftBehind ==
  main = "joined" => msgQue = <<>> /\ \A w \in Worker : msgs[w] = <<>>

(* Every message queued is handled.                                        *)
EveryMessageHandled ==
  \A m \in Msg : m <= posted ~>
    \E w \in Worker : \E i \in 1 .. Len(handled[w]) : handled[w][i] = m

(* Shutdown ends with every worker joined, whatever is queued and posted   *)
(* meanwhile, unless its flag and its notification fell between a worker's *)
(* test and its sleep: neither takes the mutex, and such a worker is never *)
(* woken again (LogicSystem.cc:26).                                        *)
ShutdownEnds ==
  main = "join" /\ (\A w \in Worker : pc[w] \notin {"block", "blocked"}) ~> main = "joined"
=============================================================================
