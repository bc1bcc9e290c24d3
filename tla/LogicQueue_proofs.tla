------------------------- MODULE LogicQueue_proofs -------------------------
(***************************************************************************)
(* Proofs about LogicQueue, for every number of workers, posters and       *)
(* messages: who holds the mutex, that no message is left to sleeping      *)
(* workers, that stopping leaves nothing behind, and the order in which a  *)
(* worker handles messages.                                                *)
(***************************************************************************)
EXTENDS LogicQueue, TLAPS

(* Workers and posters keep to their own program counters.                 *)
PcOK ==
  /\ \A w \in Worker : pc[w] \in WorkerPC
  /\ \A t \in Poster : pc[t] \in PosterPC

(* A poster that is about to queue a message is below the bound.           *)
PostRoom == \A t \in Poster : pc[t] = "post" => posted < MaxMsgs

TypeInv == TypeOK /\ PcOK /\ MutexHeld /\ PostRoom

(* notify_one after a poster has queued its message: nothing but sleeping  *)
(* workers is touched, and if one sleeps one is woken.                     *)
LEMMA NotifyOneFacts ==
  ASSUME TypeOK, PcOK, NEW t \in Poster, pc' \in NotifyOne([pc EXCEPT ![t] = "read"])
  PROVE  /\ pc' \in [Thread -> WorkerPC \cup PosterPC]
         /\ \A p \in Poster : pc'[p] = IF p = t THEN "read" ELSE pc[p]
         /\ \A w \in Worker : pc'[w] = pc[w] \/ (pc[w] = "blocked" /\ pc'[w] = "lock")
         /\ (\E w \in Worker : pc[w] = "blocked") => \E w \in Worker : pc'[w] = "lock"
<1> DEFINE before == [pc EXCEPT ![t] = "read"]
<1>1. /\ before \in [Thread -> WorkerPC \cup PosterPC]
      /\ \A p \in Poster : before[p] = IF p = t THEN "read" ELSE pc[p]
      /\ \A w \in Worker : before[w] = pc[w]
  BY LogicAssumption DEF TypeOK, Thread, PosterPC
<1> HIDE DEF before
<1>2. CASE Waiting = {}
  <2>1. pc' = before
    BY <1>2 DEF NotifyOne, before
  <2>2. \A w \in Worker : pc[w] # "blocked"
    BY <1>2 DEF Waiting
  <2>3. QED
    BY <1>1, <2>1, <2>2
<1>3. CASE Waiting # {}
  <2>1. PICK v \in Waiting : pc' = [before EXCEPT ![v] = "lock"]
    BY <1>3 DEF NotifyOne, before
  <2>2. v \in Worker /\ pc[v] = "blocked" /\ v \in Thread
    BY DEF Waiting, Thread
  <2>3. pc' \in [Thread -> WorkerPC \cup PosterPC]
    BY <1>1, <2>1 DEF WorkerPC
  <2>4. \A x \in Thread : pc'[x] = IF x = v THEN "lock" ELSE before[x]
    BY <1>1, <2>1
  <2>5. \A p \in Poster : pc'[p] = before[p]
    BY <2>2, <2>4, LogicAssumption DEF Thread
  <2>6. \A w \in Worker : pc'[w] = IF w = v THEN "lock" ELSE pc[w]
    BY <1>1, <2>4 DEF Thread
  <2>7. QED
    BY <1>1, <2>2, <2>3, <2>5, <2>6
<1>4. QED
  BY <1>2, <1>3

LEMMA InitTypeInv == Init => TypeInv
<1> SUFFICES ASSUME Init
             PROVE  TypeInv
  OBVIOUS
<1>1. TypeOK
  <2>1. <<>> \in Seq(Msg) /\ 0 \in 0 .. MaxMsgs
    BY LogicAssumption
  <2>2. QED
    BY <2>1 DEF Init, TypeOK, Thread, WorkerPC, PosterPC
<1>2. PcOK /\ MutexHeld /\ PostRoom
  BY LogicAssumption DEF Init, PcOK, MutexHeld, InMutex, PostRoom, Thread,
     WorkerPC, PosterPC
<1>3. QED
  BY <1>1, <1>2 DEF TypeInv

LEMMA StepTypeInv ==
  ASSUME TypeInv, [Next]_vars
  PROVE  TypeInv'
<1> USE LogicAssumption DEF TypeInv, TypeOK, PcOK, MutexHeld, InMutex, PostRoom,
      Thread, Goto, WorkerPC, PosterPC
<1>1. ASSUME NEW t \in Poster, PostBegin(t)
      PROVE  TypeInv'
  BY <1>1 DEF PostBegin
<1>2. ASSUME NEW t \in Poster, Post(t)
      PROVE  TypeInv'
  <2>1. posted + 1 \in Msg /\ posted + 1 \in 0 .. MaxMsgs /\ mutex = t
    BY <1>2 DEF Post, Msg
  <2>2. TypeOK'
    <3>1. msgQue' \in Seq(Msg)
      BY <1>2, <2>1 DEF Post
    <3>2. pc' \in [Thread -> WorkerPC \cup PosterPC]
      BY <1>2, NotifyOneFacts DEF Post
    <3>3. QED
      BY <1>2, <2>1, <3>1, <3>2 DEF Post
  <2>3. PcOK' /\ PostRoom'
    BY <1>2, NotifyOneFacts, ZenonT(40) DEF Post
  <2>4. MutexHeld'
    BY <1>2, <2>1, NotifyOneFacts DEF Post
  <2>5. QED
    BY <2>2, <2>3, <2>4
<1>3. ASSUME NEW w \in Worker, Lock(w)
      PROVE  TypeInv'
  BY <1>3 DEF Lock
<1>4. ASSUME NEW w \in Worker, Test(w)
      PROVE  TypeInv'
  BY <1>4 DEF Test
<1>5. ASSUME NEW w \in Worker, Block(w)
      PROVE  TypeInv'
  BY <1>5 DEF Block
<1>6. ASSUME NEW w \in Worker, WakeUp(w)
      PROVE  TypeInv'
  BY <1>6 DEF WakeUp
<1>7. ASSUME NEW w \in Worker, Exit(w)
      PROVE  TypeInv'
  BY <1>7 DEF Exit
<1>8. ASSUME NEW w \in Worker, Take(w)
      PROVE  TypeInv'
  BY <1>8 DEF Take
<1>9. ASSUME NEW w \in Worker, Handle(w)
      PROVE  TypeInv'
  <2>1. Head(msgs[w]) \in Msg /\ Tail(msgs[w]) \in Seq(Msg)
    BY <1>9 DEF Handle
  <2>2. msgs' \in [Worker -> Seq(Msg)] /\ handled' \in [Worker -> Seq(Msg)]
    BY <1>9, <2>1 DEF Handle
  <2>3. QED
    BY <1>9, <2>2 DEF Handle
<1>10. ASSUME NEW w \in Worker, BatchDone(w)
       PROVE  TypeInv'
  BY <1>10 DEF BatchDone
<1>11. CASE SetStopped
  BY <1>11 DEF SetStopped
<1>12. CASE NotifyAll
  <2>1. \A t \in Thread : pc'[t] = IF t \in Waiting THEN "lock" ELSE pc[t]
    BY <1>12 DEF NotifyAll
  <2>2. \A t \in Thread : t \in Waiting => t \in Worker /\ pc[t] = "blocked"
    BY DEF Waiting
  <2>3. QED
    BY <1>12, <2>1, <2>2 DEF NotifyAll
<1>13. CASE Join
  BY <1>13 DEF Join
<1>14. CASE UNCHANGED vars
  BY <1>14 DEF vars
<1>15. QED
  BY <1>1, <1>2, <1>3, <1>4, <1>5, <1>6, <1>7, <1>8, <1>9, <1>10, <1>11, <1>12,
     <1>13, <1>14 DEF Next, WorkerStep

(* The threads and the data keep their types.                              *)
THEOREM TypeCorrect == Spec => []TypeOK
<1>1. TypeInv => TypeOK
  BY DEF TypeInv
<1>2. QED
  BY InitTypeInv, StepTypeInv, <1>1, PTL DEF Spec

(* mutex_ is held by the one thread in its critical section: a worker      *)
(* about to sleep gives it up, one that has woken up has it again.         *)
THEOREM MutexHeldHolds == Spec => []MutexHeld
<1>1. TypeInv => MutexHeld
  BY DEF TypeInv
<1>2. QED
  BY InitTypeInv, StepTypeInv, <1>1, PTL DEF Spec

-----------------------------------------------------------------------------
(* Why no notification is lost: a worker goes to sleep only over an empty  *)
(* queue, and leaves only when nobody can queue anything any more.         *)
WakeInv ==
  /\ NoLostWakeup
  /\ \A w \in Worker : pc[w] = "block" => msgQue = <<>>
  /\ \A w \in Worker : pc[w] = "exit" =>
       stopped /\ msgQue = <<>> /\ \A t \in Poster : pc[t] # "post"
  /\ \A w \in Worker : msgs[w] # <<>> => pc[w] = "handle"
  /\ main = "joined" => \A w \in Worker : pc[w] = "exit"

LEMMA InitWakeInv == Init => WakeInv
BY LogicAssumption DEF Init, WakeInv, NoLostWakeup, Thread

LEMMA StepWakeInv ==
  ASSUME TypeInv, WakeInv, [Next]_vars
  PROVE  WakeInv'
<1> USE LogicAssumption DEF TypeInv, TypeOK, PcOK, MutexHeld, InMutex, Thread,
      Goto, WakeInv, NoLostWakeup, WorkerPC, PosterPC
<1>1. ASSUME NEW t \in Poster, PostBegin(t)
      PROVE  WakeInv'
  BY <1>1 DEF PostBegin
<1>2. ASSUME NEW t \in Poster, Post(t)
      PROVE  WakeInv'
  <2>1. \A w \in Worker : pc[w] \notin {"test", "block", "take", "exit"}
    BY <1>2 DEF Post
  <2>2. \A w \in Worker : pc'[w] = pc[w] \/ (pc[w] = "blocked" /\ pc'[w] = "lock")
    BY <1>2, NotifyOneFacts DEF Post
  <2>3. \E w \in Worker : pc'[w] \notin {"block", "blocked", "exit"}
    <3>1. CASE \E w \in Worker : pc[w] = "blocked"
      BY <1>2, <3>1, NotifyOneFacts DEF Post
    <3>2. CASE \A w \in Worker : pc[w] # "blocked"
      BY <2>1, <2>2, <3>2
    <3>3. QED
      BY <3>1, <3>2
  <2>4. \A w \in Worker : pc'[w] \notin {"block", "exit"}
    BY <2>1, <2>2
  <2>5. \A w \in Worker : msgs'[w] # <<>> => pc'[w] = "handle"
    BY <1>2, <2>2 DEF Post
  <2>6. main' # "joined"
    BY <1>2, <2>1 DEF Post
  <2>7. QED
    BY <2>3, <2>4, <2>5, <2>6
<1>3. ASSUME NEW w \in Worker, Lock(w)
      PROVE  WakeInv'
  BY <1>3 DEF Lock
<1>4. ASSUME NEW w \in Worker, Test(w)
      PROVE  WakeInv'
  BY <1>4 DEF Test
<1>5. ASSUME NEW w \in Worker, Block(w)
      PROVE  WakeInv'
  BY <1>5 DEF Block
<1>6. ASSUME NEW w \in Worker, WakeUp(w)
      PROVE  WakeInv'
  BY <1>6 DEF WakeUp
<1>7. ASSUME NEW w \in Worker, Exit(w)
      PROVE  WakeInv'
  BY <1>7 DEF Exit
<1>8. ASSUME NEW w \in Worker, Take(w)
      PROVE  WakeInv'
  BY <1>8 DEF Take
<1>9. ASSUME NEW w \in Worker, Handle(w)
      PROVE  WakeInv'
  BY <1>9 DEF Handle
<1>10. ASSUME NEW w \in Worker, BatchDone(w)
       PROVE  WakeInv'
  BY <1>10 DEF BatchDone
<1>11. CASE SetStopped
  BY <1>11 DEF SetStopped
<1>12. CASE NotifyAll
  <2>1. \A w \in Worker : pc'[w] = IF pc[w] = "blocked" THEN "lock" ELSE pc[w]
    BY <1>12 DEF NotifyAll, Waiting
  <2>2. \A t \in Poster : pc'[t] = pc[t]
    BY <1>12 DEF NotifyAll, Waiting
  <2>3. QED
    BY <1>12, <2>1, <2>2 DEF NotifyAll
<1>13. CASE Join
  BY <1>13 DEF Join
<1>14. CASE UNCHANGED vars
  BY <1>14 DEF vars
<1>15. QED
  BY <1>1, <1>2, <1>3, <1>4, <1>5, <1>6, <1>7, <1>8, <1>9, <1>10, <1>11, <1>12,
     <1>13, <1>14 DEF Next, WorkerStep

(* Messages never wait in the queue while every worker sleeps or has left. *)
THEOREM NoLostWakeupHolds == Spec => []NoLostWakeup
<1>1. WakeInv => NoLostWakeup
  BY DEF WakeInv
<1>2. QED
  BY InitTypeInv, StepTypeInv, InitWakeInv, StepWakeInv, <1>1, PTL DEF Spec

(* Shutdown returns only when every accepted message has been handled.     *)
THEOREM NothingLeftBehindHolds == Spec => []NothingLeftBehind
<1>1. WakeInv => NothingLeftBehind
  BY LogicAssumption DEF WakeInv, NothingLeftBehind
<1>2. QED
  BY InitTypeInv, StepTypeInv, InitWakeInv, StepWakeInv, <1>1, PTL DEF Spec

-----------------------------------------------------------------------------
(* What a worker has handled, what it holds and what is queued follow one  *)
(* another in the order of posting.                                        *)
Increasing(s) == \A i, j \in 1 .. Len(s) : i < j => s[i] < s[j]
Precedes(s, t) == \A i \in 1 .. Len(s), j \in 1 .. Len(t) : s[i] < t[j]

OrderInv ==
  /\ Increasing(msgQue)
  /\ \A i \in 1 .. Len(msgQue) : msgQue[i] <= posted
  /\ \A w \in Worker :
       /\ Increasing(handled[w]) /\ Increasing(msgs[w])
       /\ Precedes(handled[w], msgs[w])
       /\ Precedes(handled[w], msgQue) /\ Precedes(msgs[w], msgQue)
       /\ \A i \in 1 .. Len(handled[w]) : handled[w][i] <= posted
       /\ \A i \in 1 .. Len(msgs[w]) : msgs[w][i] <= posted

LEMMA InitOrderInv == Init => OrderInv
BY LogicAssumption DEF Init, OrderInv, Increasing, Precedes

LEMMA StepOrderInv ==
  ASSUME TypeInv, OrderInv, [Next]_vars
  PROVE  OrderInv'
<1> USE DEF TypeInv, TypeOK, Msg
<1>1. ASSUME NEW t \in Poster, Post(t)
      PROVE  OrderInv'
  <2>1. /\ posted' = posted + 1 /\ posted \in Nat /\ UNCHANGED <<msgs, handled>>
        /\ Len(msgQue') = Len(msgQue) + 1
        /\ \A i \in 1 .. Len(msgQue') :
             msgQue'[i] = IF i <= Len(msgQue) THEN msgQue[i] ELSE posted + 1
    BY <1>1, LogicAssumption DEF Post
  <2> HIDE DEF TypeInv, TypeOK, Msg
  <2>2. /\ Msg \subseteq Nat /\ msgQue \in Seq(Msg)
        /\ msgs \in [Worker -> Seq(Msg)] /\ handled \in [Worker -> Seq(Msg)]
    BY LogicAssumption DEF TypeInv, TypeOK, Msg
  <2>3. ASSUME NEW S \in Seq(Msg)
        PROVE  Len(S) \in Nat /\ \A i \in 1 .. Len(S) : S[i] \in Nat
    <3>1. Len(S) \in Nat /\ \A i \in 1 .. Len(S) : S[i] \in Msg
      OBVIOUS
    <3>2. QED
      BY <2>2, <3>1
  <2>4. Len(msgQue) \in Nat /\ \A i \in 1 .. Len(msgQue) : msgQue[i] \in Nat
    BY <2>2, <2>3
  <2>5. \A w \in Worker :
          /\ Len(handled[w]) \in Nat /\ \A i \in 1 .. Len(handled[w]) : handled[w][i] \in Nat
          /\ Len(msgs[w]) \in Nat /\ \A i \in 1 .. Len(msgs[w]) : msgs[w][i] \in Nat
    BY <2>2, <2>3
  <2>6. Increasing(msgQue)' /\ \A i \in 1 .. Len(msgQue') : msgQue'[i] <= posted'
    <3>1. /\ \A i, j \in 1 .. Len(msgQue) : i < j => msgQue[i] < msgQue[j]
          /\ \A i \in 1 .. Len(msgQue) : msgQue[i] < posted + 1 /\ msgQue[i] <= posted + 1
      BY <2>1, <2>4 DEF OrderInv, Increasing
    <3>2. \A i \in 1 .. Len(msgQue') : i \in 1 .. Len(msgQue) \/ i = Len(msgQue) + 1
      BY <2>1, <2>4
    <3>3. ASSUME NEW i \in 1 .. Len(msgQue'), NEW j \in 1 .. Len(msgQue'), i < j
          PROVE  msgQue'[i] < msgQue'[j]
      <4>1. i \in 1 .. Len(msgQue) /\ msgQue'[i] = msgQue[i]
        BY <2>1, <2>4, <3>3
      <4>2. CASE j \in 1 .. Len(msgQue)
        BY <2>1, <3>1, <3>3, <4>1, <4>2
      <4>3. CASE j = Len(msgQue) + 1
        BY <2>1, <2>4, <3>1, <4>1, <4>3
      <4>4. QED
        BY <3>2, <4>2, <4>3
    <3>4. ASSUME NEW i \in 1 .. Len(msgQue')
          PROVE  msgQue'[i] <= posted'
      BY <2>1, <2>4, <3>1, <3>2
    <3>5. QED
      BY <3>3, <3>4 DEF Increasing
  <2>7. ASSUME NEW w \in Worker
        PROVE  /\ Precedes(handled[w], msgQue)' /\ Precedes(msgs[w], msgQue)'
               /\ \A i \in 1 .. Len(handled[w]) : handled[w][i] <= posted'
               /\ \A i \in 1 .. Len(msgs[w]) : msgs[w][i] <= posted'
    <3>1. /\ \A i \in 1 .. Len(handled[w]) : handled[w][i] < posted + 1
          /\ \A i \in 1 .. Len(msgs[w]) : msgs[w][i] < posted + 1
      BY <2>1, <2>5 DEF OrderInv
    <3>2. Precedes(handled[w], msgQue) /\ Precedes(msgs[w], msgQue)
      BY DEF OrderInv
    <3>3. ASSUME NEW S, Precedes(S, msgQue), \A i \in 1 .. Len(S) : S[i] < posted + 1
          PROVE  Precedes(S, msgQue')
      BY <2>1, <2>4, <3>3 DEF Precedes
    <3>4. handled'[w] = handled[w] /\ msgs'[w] = msgs[w]
      BY <2>1
    <3>5. Precedes(handled'[w], msgQue') /\ Precedes(msgs'[w], msgQue')
      BY <3>1, <3>2, <3>3, <3>4
    <3>6. /\ \A i \in 1 .. Len(handled[w]) : handled[w][i] <= posted'
          /\ \A i \in 1 .. Len(msgs[w]) : msgs[w][i] <= posted'
      BY <2>1, <2>5, <3>1
    <3>7. QED
      BY <3>5, <3>6
  <2>8. QED
    BY <2>1, <2>6, <2>7 DEF OrderInv, Increasing, Precedes
<1>2. ASSUME NEW w \in Worker, Take(w)
      PROVE  OrderInv'
  <2>1. /\ msgQue' = <<>> /\ msgs' = [msgs EXCEPT ![w] = msgQue]
        /\ UNCHANGED <<posted, handled>>
    BY <1>2 DEF Take
  <2>2. QED
    BY <2>1 DEF OrderInv, Increasing, Precedes
<1>3. ASSUME NEW w \in Worker, Handle(w)
      PROVE  OrderInv'
  <2> DEFINE m == msgs[w]
             h == handled[w]
  <2>1. /\ m \in Seq(Msg) /\ h \in Seq(Msg) /\ m # <<>>
        /\ UNCHANGED <<msgQue, posted>>
        /\ \A v \in Worker \ {w} : msgs'[v] = msgs[v] /\ handled'[v] = handled[v]
        /\ msgs'[w] = Tail(m) /\ handled'[w] = Append(h, Head(m))
    BY <1>3 DEF Handle
  <2>2. Len(msgs'[w]) = Len(m) - 1 /\ \A i \in 1 .. Len(m) - 1 : msgs'[w][i] = m[i + 1]
    BY <2>1
  <2>3. /\ Len(handled'[w]) = Len(h) + 1
        /\ \A i \in 1 .. Len(h) + 1 : handled'[w][i] = IF i <= Len(h) THEN h[i] ELSE m[1]
    BY <2>1
  <2>4. Len(m) \in Nat /\ Len(m) > 0 /\ Len(h) \in Nat
    BY <2>1
  <2>5. Increasing(msgs'[w])
    <3>1. \A i, j \in 1 .. Len(m) : i < j => m[i] < m[j]
      BY DEF OrderInv, Increasing
    <3> QED BY <2>2, <2>4, <3>1 DEF Increasing
  <2>6. Increasing(handled'[w])
    BY <2>1, <2>3, <2>4 DEF OrderInv, Increasing, Precedes
  <2>7. Precedes(handled'[w], msgs'[w])
    BY <2>1, <2>2, <2>3, <2>4 DEF OrderInv, Increasing, Precedes
  <2>8. Precedes(handled'[w], msgQue) /\ Precedes(msgs'[w], msgQue)
    <3>1. Precedes(h, msgQue) /\ Precedes(m, msgQue)
      BY DEF OrderInv
    <3>2. ASSUME NEW i \in 1 .. Len(handled'[w]), NEW j \in 1 .. Len(msgQue)
          PROVE  handled'[w][i] < msgQue[j]
      <4>1. CASE i \in 1 .. Len(h)
        BY <2>3, <2>4, <3>1, <3>2, <4>1 DEF Precedes
      <4>2. CASE i = Len(h) + 1
        <5>1. handled'[w][Len(h) + 1] = m[1]
          BY <2>1, <2>4
        <5>2. m[1] < msgQue[j]
          BY <2>4, <3>1, <3>2 DEF Precedes
        <5>3. QED
          BY <4>2, <5>1, <5>2
      <4>3. QED
        BY <2>3, <2>4, <4>1, <4>2
    <3>3. ASSUME NEW i \in 1 .. Len(msgs'[w]), NEW j \in 1 .. Len(msgQue)
          PROVE  msgs'[w][i] < msgQue[j]
      <4>1. i \in 1 .. (Len(m) - 1) /\ i + 1 \in 1 .. Len(m)
        BY <2>2, <2>4
      <4>2. QED
        BY <2>2, <3>1, <4>1 DEF Precedes
    <3>4. QED
      BY <3>2, <3>3 DEF Precedes
  <2>9. /\ \A i \in 1 .. Len(handled'[w]) : handled'[w][i] <= posted
        /\ \A i \in 1 .. Len(msgs'[w]) : msgs'[w][i] <= posted
    BY <2>1, <2>2, <2>3, <2>4 DEF OrderInv
  <2>10. QED
    BY <2>1, <2>5, <2>6, <2>7, <2>8, <2>9 DEF OrderInv
<1>4. ASSUME UNCHANGED <<msgQue, posted, msgs, handled>>
      PROVE  OrderInv'
  BY <1>4 DEF OrderInv, Increasing, Precedes
<1>5. QED
  BY <1>1, <1>2, <1>3, <1>4
  DEF Next, WorkerStep, PostBegin, Lock, Test, Block, WakeUp, Exit, BatchDone,
      SetStopped, NotifyAll, Join, vars

(* One worker never handles two messages in another order than they were   *)
(* queued in.                                                              *)
THEOREM OrderPerWorkerHolds == Spec => []OrderPerWorker
<1>1. OrderInv => OrderPerWorker
  BY DEF OrderInv, OrderPerWorker, Increasing
<1>2. QED
  BY InitTypeInv, StepTypeInv, InitOrderInv, StepOrderInv, <1>1, PTL DEF Spec
=============================================================================
