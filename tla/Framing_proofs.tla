--------------------------- MODULE Framing_proofs ---------------------------
(***************************************************************************)
(* What a connection guarantees, for any limit of the send queue, any      *)
(* number of messages in either direction and any lengths of them that two *)
(* bytes can say.                                                          *)
(*                                                                         *)
(* The first part is about the session's writes alone (SendQueue): the     *)
(* types, one write under way, the bound of the queue, and that the        *)
(* session implements the ordered channel.  The inductive invariant counts *)
(* where the messages accepted have gone, and says that as long as the     *)
(* socket is open the queue is exactly the end of what was accepted that   *)
(* has not been written yet.                                               *)
(*                                                                         *)
(* The second part is about the bytes (Framing).  Its invariant says of    *)
(* each direction that the cells under way are the frames of the messages  *)
(* not yet received, less what has been taken off the first of them.       *)
(***************************************************************************)
EXTENDS Framing, SequenceTheorems, TLAPS

(* A message is accepted by one call of Send.                              *)
AcceptedByCalls == Len(accepted) <= calls

(* The number of messages written whose HandleWrite has been run.          *)
Popped == Len(wire) - (IF write = "done" THEN 1 ELSE 0)

(* On an open socket nothing has failed yet, and the queue is the rest of  *)
(* what was accepted.                                                      *)
OpenInOrder ==
  open =>
    /\ write # "failed"
    /\ Popped >= 0
    /\ Len(accepted) = Popped + Len(sendQue)
    /\ \A i \in 1 .. Len(sendQue) : sendQue[i] = accepted[Popped + i]

QueueInv ==
  /\ TypeOK
  /\ OneWritePerQueue
  /\ QueueBounded
  /\ OneDealPerLostMessage
  /\ AcceptedByCalls
  /\ OpenInOrder

(* The numbers the arithmetic is about.                                    *)
LEMMA Counts ==
  TypeOK => /\ Len(sendQue) \in Nat /\ Len(accepted) \in Nat /\ Len(wire) \in Nat
            /\ calls \in Nat /\ deals \in Nat /\ Popped \in Int
BY SendAssumption DEF TypeOK, Popped

LEMMA InitQueueInv == Init => QueueInv
<1> SUFFICES ASSUME Init
             PROVE  QueueInv
  OBVIOUS
<1> USE SendAssumption DEF Init
<1>1. TypeOK
  <2>1. <<>> \in Seq(Msg)
    OBVIOUS
  <2>2. 0 \in 0 .. MaxSends
    OBVIOUS
  <2>3. QED
    BY <2>1, <2>2 DEF TypeOK
<1>2. OneWritePerQueue /\ QueueBounded /\ OneDealPerLostMessage
  BY DEF OneWritePerQueue, QueueBounded, OneDealPerLostMessage
<1>3. AcceptedByCalls /\ OpenInOrder
  BY DEF AcceptedByCalls, OpenInOrder, Popped
<1>4. QED
  BY <1>1, <1>2, <1>3 DEF QueueInv

(***************************************************************************)
(* The steps, one after the other.                                         *)
(***************************************************************************)
LEMMA SendQueueInv == QueueInv /\ Send => QueueInv'
<1> SUFFICES ASSUME QueueInv, Send
             PROVE  QueueInv'
  OBVIOUS
<1> USE SendAssumption DEF QueueInv, Send, Full
<1>1. /\ calls + 1 \in Msg
      /\ sendQue' \in Seq(Msg) /\ Len(sendQue') = Len(sendQue) + 1
      /\ accepted' \in Seq(Msg) /\ Len(accepted') = Len(accepted) + 1
      /\ sendQue' # <<>>
  BY DEF TypeOK, Msg
<1>2. TypeOK'
  BY <1>1 DEF TypeOK, Msg
<1>3. OneWritePerQueue' /\ QueueBounded'
  BY <1>1 DEF OneWritePerQueue, QueueBounded, TypeOK
<1>4. OneDealPerLostMessage' /\ AcceptedByCalls'
  <2>1. (write' = "done") <=> (write = "done")
    BY DEF OneWritePerQueue
  <2>2. UNCHANGED <<pc, deals, wire>>
    OBVIOUS
  <2>3. OneDealPerLostMessage'
    <3> HIDE DEF Send
    <3>1. CASE pc = "next"
      BY <1>1, <2>1, <2>2, <3>1, Counts, SMTT(30) DEF OneDealPerLostMessage
    <3>2. CASE pc # "next"
      BY <1>1, <2>1, <2>2, <3>2, Counts DEF OneDealPerLostMessage
    <3>3. QED
      BY <3>1, <3>2
  <2>4. AcceptedByCalls'
    BY <1>1, Counts DEF AcceptedByCalls
  <2>5. QED
    BY <2>3, <2>4
<1>5. OpenInOrder'
  <2> SUFFICES ASSUME open
               PROVE  OpenInOrder'
    BY DEF OpenInOrder
  <2>1. Popped' = Popped
    BY DEF Popped, OneWritePerQueue
  <2>2. write' # "failed"
    BY DEF OpenInOrder
  <2>3. /\ Popped \in Nat
        /\ Len(accepted) = Popped + Len(sendQue)
        /\ \A i \in 1 .. Len(sendQue) : sendQue[i] = accepted[Popped + i]
    BY DEF OpenInOrder, Popped, TypeOK
  <2>4. ASSUME NEW i \in 1 .. Len(sendQue')
        PROVE  sendQue'[i] = accepted'[Popped + i]
    <3>1. CASE i = Len(sendQue) + 1
      BY <1>1, <2>3, <3>1 DEF TypeOK
    <3>2. CASE i \in 1 .. Len(sendQue)
      <4>1. Popped + i \in 1 .. Len(accepted)
        BY <2>3, <3>2, Counts
      <4>2. sendQue'[i] = sendQue[i] /\ accepted'[Popped + i] = accepted[Popped + i]
        BY <3>2, <4>1 DEF TypeOK
      <4>3. QED
        BY <2>3, <3>2, <4>2
    <3>3. i = Len(sendQue) + 1 \/ i \in 1 .. Len(sendQue)
      BY <1>1, Counts
    <3>4. QED
      BY <3>1, <3>2, <3>3
  <2>5. Len(accepted') = Popped + Len(sendQue')
    BY <1>1, <2>3, Counts
  <2>6. QED
    BY <2>1, <2>2, <2>3, <2>4, <2>5 DEF OpenInOrder
<1>6. QED
  BY <1>2, <1>3, <1>4, <1>5

LEMMA WriteDoneQueueInv == QueueInv /\ WriteDone => QueueInv'
<1> SUFFICES ASSUME QueueInv, WriteDone
             PROVE  QueueInv'
  OBVIOUS
<1> USE SendAssumption DEF QueueInv, WriteDone
<1>1. sendQue # <<>> /\ Head(sendQue) \in Msg
  BY DEF OneWritePerQueue, TypeOK
<1>2. wire' \in Seq(Msg) /\ Len(wire') = Len(wire) + 1
  BY <1>1 DEF TypeOK
<1>3. TypeOK'
  BY <1>2 DEF TypeOK
<1>4. OneWritePerQueue' /\ QueueBounded' /\ AcceptedByCalls'
  BY <1>1 DEF OneWritePerQueue, QueueBounded, AcceptedByCalls
<1>5. OneDealPerLostMessage'
  BY <1>2, Counts DEF OneDealPerLostMessage
<1>6. Popped' = Popped
  BY <1>2, Counts DEF Popped
<1>7. OpenInOrder'
  BY <1>6 DEF OpenInOrder
<1>8. QED
  BY <1>3, <1>4, <1>5, <1>7

LEMMA PopQueueInv == QueueInv /\ Pop => QueueInv'
<1> SUFFICES ASSUME QueueInv, Pop
             PROVE  QueueInv'
  OBVIOUS
<1> USE SendAssumption DEF QueueInv, Pop
<1>1. sendQue # <<>>
  BY DEF OneWritePerQueue
<1>2. sendQue' \in Seq(Msg) /\ Len(sendQue') = Len(sendQue) - 1
  BY <1>1 DEF TypeOK
<1>3. TypeOK'
  BY <1>2 DEF TypeOK
<1>4. OneWritePerQueue' /\ QueueBounded' /\ AcceptedByCalls'
  BY <1>2 DEF OneWritePerQueue, QueueBounded, AcceptedByCalls, TypeOK
<1>5. OneDealPerLostMessage'
  (* The message popped was written, or its loss has been dealt with.      *)
  <2>1. CASE write = "done" /\ pc = "loop"
    BY <1>2, <2>1, Counts DEF OneDealPerLostMessage
  <2>2. CASE write = "failed" /\ pc = "next"
    BY <1>2, <2>2, Counts DEF OneDealPerLostMessage
  <2>3. QED
    BY <2>1, <2>2
<1>6. OpenInOrder'
  <2> SUFFICES ASSUME open
               PROVE  OpenInOrder'
    BY DEF OpenInOrder
  <2>1. write = "done" /\ write' \in {"none", "pending"}
    BY DEF OpenInOrder
  <2>2. Popped \in Nat /\ Popped' = Popped + 1
    BY <2>1 DEF Popped, TypeOK, OpenInOrder
  <2>3. ASSUME NEW i \in 1 .. Len(sendQue')
        PROVE  sendQue'[i] = accepted[Popped' + i]
    <3>1. sendQue'[i] = sendQue[i + 1] /\ i + 1 \in 1 .. Len(sendQue)
      BY <1>1, <1>2 DEF TypeOK
    <3>2. QED
      BY <2>2, <3>1 DEF OpenInOrder, TypeOK
  <2>4. Len(accepted) = Popped' + Len(sendQue')
    <3>1. Len(accepted) = Popped + Len(sendQue)
      BY DEF OpenInOrder
    <3>2. QED
      BY <1>2, <2>2, <3>1, Counts
  <2>5. QED
    BY <2>1, <2>2, <2>3, <2>4 DEF OpenInOrder, TypeOK
<1>7. QED
  BY <1>3, <1>4, <1>5, <1>6

(* DealExceptionSession runs while the message that failed is still        *)
(* queued, so there are never more runs than messages accepted.            *)
LEMMA DealQueueInv == QueueInv /\ DealException => QueueInv'
<1> SUFFICES ASSUME QueueInv, DealException
             PROVE  QueueInv'
  OBVIOUS
<1> USE SendAssumption DEF QueueInv, DealException
<1>1. write = "failed" /\ sendQue # <<>>
  BY DEF OneWritePerQueue
<1>2. Len(sendQue) \in Nat \ {0}
  BY <1>1 DEF TypeOK
<1>3. deals + 1 <= Len(accepted)
  BY <1>1, <1>2 DEF OneDealPerLostMessage, TypeOK
<1>4. TypeOK'
  BY <1>3 DEF TypeOK, AcceptedByCalls
<1>5. OneWritePerQueue' /\ QueueBounded' /\ AcceptedByCalls'
  BY <1>1 DEF OneWritePerQueue, QueueBounded, AcceptedByCalls
<1>6. OneDealPerLostMessage'
  BY <1>1 DEF OneDealPerLostMessage, TypeOK
<1>7. OpenInOrder'
  BY <1>1 DEF OpenInOrder
<1>8. QED
  BY <1>4, <1>5, <1>6, <1>7

(* The steps that touch neither the queue nor what was written.            *)
LEMMA OtherQueueInv ==
  QueueInv /\ (\/ SendRefused \/ WriteFailed \/ PeerGone \/ CloseByOther
           \/ ShutDownWrite \/ HandleError \/ UNCHANGED vars) => QueueInv'
<1> SUFFICES ASSUME QueueInv,
                    \/ SendRefused \/ WriteFailed \/ PeerGone \/ CloseByOther
                    \/ ShutDownWrite \/ HandleError \/ UNCHANGED vars
             PROVE  QueueInv'
  OBVIOUS
<1> USE SendAssumption DEF QueueInv, SendRefused, WriteFailed, PeerGone,
          CloseByOther, CloseSocket, ShutDownWrite, HandleError, vars
<1>1. /\ UNCHANGED <<sendQue, deals, accepted, wire>>
      /\ open' => open
      /\ calls' \in calls .. calls + 1
      /\ write' # write => write = "pending" /\ write' = "failed" /\ ~open'
      /\ pc' # pc => pc = "loop" /\ pc' = "deal" /\ write = "failed" /\ ~open'
  BY DEF TypeOK
<1>2. TypeOK'
  <2>1. calls' \in 0 .. MaxSends
    BY DEF TypeOK
  <2>2. closed' \in BOOLEAN /\ open' \in BOOLEAN
    BY DEF TypeOK
  <2>3. QED
    BY <1>1, <2>1, <2>2 DEF TypeOK
<1>3. OneWritePerQueue' /\ QueueBounded' /\ AcceptedByCalls'
  BY <1>1 DEF OneWritePerQueue, QueueBounded, AcceptedByCalls, TypeOK
<1>4. OneDealPerLostMessage'
  BY <1>1 DEF OneDealPerLostMessage
<1>5. OpenInOrder'
  BY <1>1 DEF OpenInOrder, Popped
<1>6. QED
  BY <1>2, <1>3, <1>4, <1>5

LEMMA StepQueueInv == QueueInv /\ [Next]_vars => QueueInv'
BY SendQueueInv, WriteDoneQueueInv, PopQueueInv, DealQueueInv, OtherQueueInv DEF Next

LEMMA QueueInvHolds == Spec => []QueueInv
BY InitQueueInv, StepQueueInv, PTL DEF Spec

(***************************************************************************)
(* The theorems about the send queue.                                      *)
(***************************************************************************)
(* One write is under way exactly while messages are queued, whoever sends *)
(* and whoever closes the socket.                                          *)
THEOREM OneWrite == Spec => []OneWritePerQueue
<1>1. QueueInv => OneWritePerQueue
  BY DEF QueueInv
<1>2. QED
  BY QueueInvHolds, <1>1, PTL

(* The queue never holds more than MAX_SENDQUE + 1 messages.               *)
THEOREM Bounded == Spec => []QueueBounded
<1>1. QueueInv => QueueBounded
  BY DEF QueueInv
<1>2. QED
  BY QueueInvHolds, <1>1, PTL

(* A run of DealExceptionSession for every message lost, and no other.     *)
THEOREM OneDeal == Spec => []OneDealPerLostMessage
<1>1. QueueInv => OneDealPerLostMessage
  BY DEF QueueInv
<1>2. QED
  BY QueueInvHolds, <1>1, PTL

(* The session implements the ordered channel: nothing is skipped,         *)
(* duplicated, reordered, or written after the connection broke.           *)
THEOREM Implements == Spec => ImplementsChannel
<1>1. Init => Channel!ChInit
  BY DEF Init, Channel!ChInit
<1>2. QueueInv /\ [Next]_vars => [Channel!ChNext]_<<accepted, wire, open>>
  <2> SUFFICES ASSUME QueueInv, [Next]_vars
               PROVE  [Channel!ChNext]_<<accepted, wire, open>>
    OBVIOUS
  <2>1. CASE Send
    <3>1. calls + 1 \in Msg
      BY <2>1, SendAssumption DEF Send, QueueInv, TypeOK, Msg
    <3>2. Channel!Put
      BY <2>1, <3>1 DEF Send, Channel!Put
    <3>3. QED
      BY <3>2 DEF Channel!ChNext
  <2>2. CASE WriteDone
    <3>1. sendQue # <<>> /\ sendQue \in Seq(Msg)
      BY <2>2 DEF WriteDone, QueueInv, OneWritePerQueue, TypeOK
    <3>2. Popped = Len(wire) /\ Len(wire) \in Nat
      BY <2>2 DEF WriteDone, Popped, QueueInv, TypeOK
    <3>3. Len(sendQue) \in Nat \ {0} /\ Head(sendQue) = sendQue[1]
      BY <3>1
    <3>4. /\ Len(accepted) = Len(wire) + Len(sendQue)
          /\ sendQue[1] = accepted[Len(wire) + 1]
      BY <2>2, <3>2, <3>3 DEF WriteDone, QueueInv, OpenInOrder
    <3>5. Channel!Deliver
      BY <2>2, <3>2, <3>3, <3>4 DEF WriteDone, Channel!Deliver
    <3>6. QED
      BY <3>5 DEF Channel!ChNext
  <2>3. CASE PeerGone \/ CloseByOther \/ ShutDownWrite \/ HandleError
    <3>1. Channel!Break
      BY <2>3 DEF PeerGone, CloseByOther, ShutDownWrite, HandleError,
                  CloseSocket, Channel!Break
    <3>2. QED
      BY <3>1 DEF Channel!ChNext
  <2>4. CASE SendRefused \/ WriteFailed \/ DealException \/ Pop \/ UNCHANGED vars
    BY <2>4 DEF SendRefused, WriteFailed, DealException, Pop, vars
  <2>5. QED
    BY <2>1, <2>2, <2>3, <2>4 DEF Next
<1>3. QED
  BY <1>1, <1>2, QueueInvHolds, PTL
     DEF Spec, ImplementsChannel, Channel!ChSpec, Channel!chVars

(***************************************************************************)
(* Messages as cells.                                                      *)
(***************************************************************************)
(* Messages: those the client says and those the session sends.            *)
Said == [id : Nat, body : Seq({Text})]

(* The k-th cell of the frame of a message.                                *)
Cell(m, k) == IF k = 1 THEN m.id ELSE IF k = 2 THEN Len(m.body) ELSE Text
FrameLen(m) == HeadLen + Len(m.body)

(* The cells s are the frames of the messages from the p-th on, of which   *)
(* the first c cells have been taken off; off says where each begins.      *)
Laid(s, msgs, p, c, off) ==
  /\ off \in [1 .. Len(msgs) + 1 -> Int]
  /\ off[p] = 0 - c
  /\ off[Len(msgs) + 1] = Len(s)
  /\ \A j \in p .. Len(msgs) :
       /\ off[j + 1] = off[j] + FrameLen(msgs[j])
       /\ off[j + 1] <= Len(s)
       /\ \A k \in 1 .. FrameLen(msgs[j]) :
            off[j] + k >= 1 => s[off[j] + k] = Cell(msgs[j], k)

Carries(s, msgs, p, c) == \E off : Laid(s, msgs, p, c, off)

-----------------------------------------------------------------------------
LEMMA DropFront ==
  ASSUME NEW S, NEW s \in Seq(S), NEW n \in 0 .. Len(s)
  PROVE  /\ Drop(s, n) \in Seq(S) /\ Len(Drop(s, n)) = Len(s) - n
         /\ \A i \in 1 .. (Len(s) - n) : Drop(s, n)[i] = s[n + i]
BY DEF Drop

LEMMA TakeFront ==
  ASSUME NEW S, NEW s \in Seq(S), NEW n \in 0 .. Len(s)
  PROVE  /\ Take(s, n) \in Seq(S) /\ Len(Take(s, n)) = n
         /\ \A i \in 1 .. n : Take(s, n)[i] = s[i]
BY DEF Take, MinOf

LEMMA FrameLenNat == \A m \in Said : FrameLen(m) \in Nat /\ Len(m.body) \in Nat
BY DEF Said, FrameLen, HeadLen

(* Cells are taken off the front.                                          *)
LEMMA CarriesRest ==
  ASSUME NEW s \in Seq(Nat), NEW n \in 0 .. Len(s),
         NEW msgs \in Seq(Said),
         NEW p \in 1 .. (Len(msgs) + 1), NEW c \in Nat,
         Carries(s, msgs, p, c)
  PROVE  Carries(Drop(s, n), msgs, p, c + n)
<1>1. PICK off : Laid(s, msgs, p, c, off)
  BY DEF Carries
<1> DEFINE new == [j \in 1 .. Len(msgs) + 1 |-> off[j] - n]
           d == Drop(s, n)
<1>2. Len(msgs) \in Nat /\ Len(s) \in Nat /\ n \in Nat /\ off \in [1 .. Len(msgs) + 1 -> Int]
  BY <1>1 DEF Laid
<1>3. /\ Len(d) = Len(s) - n
      /\ \A i \in 1 .. (Len(s) - n) : d[i] = s[n + i]
  BY DropFront
<1>4. /\ new \in [1 .. Len(msgs) + 1 -> Int]
      /\ \A j \in 1 .. (Len(msgs) + 1) : new[j] = off[j] - n
  BY <1>2
<1> HIDE DEF new, d
<1>5. new[p] = 0 - (c + n) /\ new[Len(msgs) + 1] = Len(d)
  <2>1. off[p] = 0 - c /\ off[Len(msgs) + 1] = Len(s)
    BY <1>1 DEF Laid
  <2>2. new[p] = off[p] - n /\ new[Len(msgs) + 1] = off[Len(msgs) + 1] - n
    BY <1>2, <1>4
  <2>3. QED
    BY <1>2, <1>3, <2>1, <2>2
<1>6. ASSUME NEW j \in p .. Len(msgs)
      PROVE  /\ new[j + 1] = new[j] + FrameLen(msgs[j])
             /\ new[j + 1] <= Len(d)
             /\ \A k \in 1 .. FrameLen(msgs[j]) :
                  new[j] + k >= 1 => d[new[j] + k] = Cell(msgs[j], k)
  <2>1. FrameLen(msgs[j]) \in Nat
    BY <1>2, FrameLenNat
  <2>2. /\ off[j + 1] = off[j] + FrameLen(msgs[j])
        /\ off[j + 1] <= Len(s)
        /\ \A k \in 1 .. FrameLen(msgs[j]) :
             off[j] + k >= 1 => s[off[j] + k] = Cell(msgs[j], k)
    BY <1>1 DEF Laid
  <2>3. /\ off[j] \in Int /\ off[j + 1] \in Int
        /\ new[j] = off[j] - n /\ new[j + 1] = off[j + 1] - n
    <3>1. j \in 1 .. (Len(msgs) + 1) /\ j + 1 \in 1 .. (Len(msgs) + 1)
      BY <1>2
    <3>2. QED
      BY <1>2, <1>4, <3>1
  <2>4. ASSUME NEW k \in 1 .. FrameLen(msgs[j]), new[j] + k >= 1
        PROVE  d[new[j] + k] = Cell(msgs[j], k)
    <3>1. new[j] + k \in 1 .. (Len(s) - n) /\ n + (new[j] + k) = off[j] + k
      BY <1>2, <2>1, <2>2, <2>3, <2>4, SMTT(30)
    <3>2. off[j] + k >= 1
      BY <1>2, <2>3, <2>4
    <3>3. QED
      BY <1>3, <2>2, <3>1, <3>2
  <2>5. new[j + 1] = new[j] + FrameLen(msgs[j]) /\ new[j + 1] <= Len(d)
    BY <1>2, <1>3, <2>1, <2>2, <2>3
  <2>6. QED
    BY <2>4, <2>5
<1>7. Laid(d, msgs, p, c + n, new)
  BY <1>4, <1>5, <1>6 DEF Laid
<1>8. QED
  BY <1>7 DEF Carries, d

(* The frame at the front has been taken off whole.                        *)
LEMMA CarriesNext ==
  ASSUME NEW s \in Seq(Nat),
         NEW msgs \in Seq(Said),
         NEW p \in 1 .. Len(msgs), Carries(s, msgs, p, FrameLen(msgs[p]))
  PROVE  Carries(s, msgs, p + 1, 0)
<1>1. PICK off : Laid(s, msgs, p, FrameLen(msgs[p]), off)
  BY DEF Carries
<1>2. Len(msgs) \in Nat /\ FrameLen(msgs[p]) \in Nat
  BY FrameLenNat
<1>3. off[p + 1] = 0
  BY <1>1, <1>2 DEF Laid
<1>4. \A j \in (p + 1) .. Len(msgs) : j \in p .. Len(msgs)
  BY <1>2
<1>5. Laid(s, msgs, p + 1, 0, off)
  BY <1>1, <1>3, <1>4 DEF Laid
<1>6. QED
  BY <1>5 DEF Carries

(* The cells at the front belong to message p.                             *)
LEMMA CarriesFront ==
  ASSUME NEW s \in Seq(Nat),
         NEW msgs \in Seq(Said),
         NEW p \in 1 .. Len(msgs), NEW c \in Nat, Carries(s, msgs, p, c),
         NEW k \in 1 .. Len(s), c + k <= FrameLen(msgs[p])
  PROVE  s[k] = Cell(msgs[p], c + k)
<1>1. PICK off : Laid(s, msgs, p, c, off)
  BY DEF Carries
<1>2. Len(msgs) \in Nat /\ Len(s) \in Nat /\ FrameLen(msgs[p]) \in Nat
  BY FrameLenNat
<1>3. off[p] = 0 - c /\ p \in p .. Len(msgs) /\ c + k \in 1 .. FrameLen(msgs[p])
  BY <1>1, <1>2 DEF Laid
<1>4. off[p] + (c + k) = k
  BY <1>2, <1>3
<1>5. off[p] + (c + k) >= 1 => s[off[p] + (c + k)] = Cell(msgs[p], c + k)
  BY <1>1, <1>3 DEF Laid
<1>6. QED
  BY <1>2, <1>4, <1>5

(* Behind the last message nothing comes.                                  *)
LEMMA CarriesNone ==
  ASSUME NEW s \in Seq(Nat), NEW msgs \in Seq(Said), NEW c \in Nat,
         Carries(s, msgs, Len(msgs) + 1, c)
  PROVE  Len(s) = 0 /\ c = 0
<1>1. PICK off : Laid(s, msgs, Len(msgs) + 1, c, off)
  BY DEF Carries
<1>2. Len(s) = 0 - c /\ Len(s) \in Nat
  BY <1>1 DEF Laid
<1>3. QED
  BY <1>2

(* The frame of a message, cell by cell.                                   *)
LEMMA FrameCells ==
  ASSUME NEW id, NEW n \in Nat, NEW S, id \in S, n \in S, Text \in S
  PROVE  /\ Body(n) \in Seq({Text}) /\ Len(Body(n)) = n
         /\ Frame(id, n) \in Seq(S) /\ Len(Frame(id, n)) = HeadLen + n
         /\ \A k \in 1 .. (HeadLen + n) :
              Frame(id, n)[k] = Cell([id |-> id, body |-> Body(n)], k)
<1>1. /\ Body(n) \in Seq({Text}) /\ Body(n) \in Seq(S) /\ Len(Body(n)) = n
      /\ \A i \in 1 .. n : Body(n)[i] = Text
  BY DEF Body
<1>2. <<id, n>> \in Seq(S) /\ Len(<<id, n>>) = 2 /\ <<id, n>>[1] = id /\ <<id, n>>[2] = n
  OBVIOUS
<1> DEFINE head == <<id, n>>
           body == Body(n)
<1> HIDE DEF head, body
<1>3. /\ head \o body \in Seq(S) /\ Len(head \o body) = 2 + n
      /\ \A k \in 1 .. (2 + n) :
           (head \o body)[k] = IF k <= 2 THEN head[k] ELSE body[k - 2]
  <2>1. head \in Seq(S) /\ body \in Seq(S) /\ Len(head) = 2 /\ Len(body) = n
    BY <1>1, <1>2 DEF head, body
  <2>2. /\ head \o body \in Seq(S) /\ Len(head \o body) = Len(head) + Len(body)
        /\ \A i \in 1 .. (Len(head) + Len(body)) :
             (head \o body)[i] = IF i <= Len(head) THEN head[i] ELSE body[i - Len(head)]
    BY <2>1, ConcatProperties
  <2>3. QED
    BY <2>1, <2>2
<1>4. ASSUME NEW k \in 1 .. (2 + n)
      PROVE  (head \o body)[k] = Cell([id |-> id, body |-> Body(n)], k)
  <2>1. CASE k = 1
    BY <1>2, <1>3, <2>1 DEF Cell, head
  <2>2. CASE k = 2
    BY <1>1, <1>2, <1>3, <2>2 DEF Cell, head
  <2>3. CASE k > 2
    <3>1. k - 2 \in 1 .. n
      BY <2>3
    <3>2. (head \o body)[k] = Text
      BY <1>1, <1>3, <2>3, <3>1 DEF body
    <3>3. QED
      BY <2>3, <3>2 DEF Cell
  <2>4. k = 1 \/ k = 2 \/ k > 2
    OBVIOUS
  <2>5. QED
    BY <2>1, <2>2, <2>3, <2>4
<1>5. QED
  BY <1>1, <1>3, <1>4 DEF Frame, HeadLen, head, body
(* Cells are added at the end, as the frame of a new message.              *)
LEMMA CarriesAdded ==
  ASSUME NEW s \in Seq(Nat), NEW f \in Seq(Nat),
         NEW msgs \in Seq(Said),
         NEW m \in Said, NEW p \in 1 .. (Len(msgs) + 1), NEW c \in Nat,
         Carries(s, msgs, p, c),
         Len(f) = FrameLen(m), \A k \in 1 .. FrameLen(m) : f[k] = Cell(m, k)
  PROVE  Carries(s \o f, Append(msgs, m), p, c)
<1>1. PICK off : Laid(s, msgs, p, c, off)
  BY DEF Carries
<1> DEFINE n == Len(msgs)
           all == Append(msgs, m)
           new == [j \in 1 .. (n + 2) |-> IF j = n + 2 THEN Len(s) + Len(f) ELSE off[j]]
           t == s \o f
<1>2. /\ n \in Nat /\ Len(s) \in Nat /\ Len(f) \in Nat
      /\ off \in [1 .. (n + 1) -> Int] /\ off[n + 1] = Len(s) /\ off[p] = 0 - c
  BY <1>1 DEF Laid
<1>3. /\ Len(all) = n + 1 /\ all[n + 1] = m
      /\ \A j \in 1 .. n : all[j] = msgs[j]
  OBVIOUS
<1>4. /\ Len(t) = Len(s) + Len(f)
      /\ \A i \in 1 .. (Len(s) + Len(f)) :
           t[i] = IF i <= Len(s) THEN s[i] ELSE f[i - Len(s)]
  BY ConcatProperties
<1>5. /\ new \in [1 .. (n + 2) -> Int]
      /\ new[n + 2] = Len(s) + Len(f)
      /\ \A j \in 1 .. (n + 1) : new[j] = off[j]
  BY <1>2
<1> HIDE DEF n, all, new, t
<1>6. new[p] = 0 - c /\ new[Len(all) + 1] = Len(t)
  BY <1>2, <1>3, <1>4, <1>5 DEF n
<1>7. ASSUME NEW j \in p .. Len(all)
      PROVE  /\ new[j + 1] = new[j] + FrameLen(all[j])
             /\ new[j + 1] <= Len(t)
             /\ \A k \in 1 .. FrameLen(all[j]) :
                  new[j] + k >= 1 => t[new[j] + k] = Cell(all[j], k)
  <2>1. CASE j = n + 1
    <3>1. all[j] = m /\ new[j] = Len(s) /\ new[j + 1] = Len(t)
      BY <1>2, <1>3, <1>4, <1>5, <2>1
    <3>2. ASSUME NEW k \in 1 .. FrameLen(m)
          PROVE  t[Len(s) + k] = Cell(m, k)
      <4>1. Len(s) + k \in 1 .. (Len(s) + Len(f)) /\ ~(Len(s) + k <= Len(s))
            /\ (Len(s) + k) - Len(s) = k
        BY <1>2, SMTT(30)
      <4>2. QED
        BY <1>4, <4>1
    <3>3. FrameLen(all[j]) = Len(f) /\ Len(t) = Len(s) + Len(f)
      BY <1>4, <3>1
    <3>4. new[j + 1] = new[j] + FrameLen(all[j]) /\ new[j + 1] <= Len(t)
      BY <1>2, <3>1, <3>3
    <3>5. QED
      BY <3>1, <3>2, <3>4
  <2>2. CASE j \in p .. n
    <3>1. /\ all[j] = msgs[j] /\ new[j] = off[j] /\ new[j + 1] = off[j + 1]
          /\ off[j] \in Int /\ off[j + 1] \in Int
      <4>1. j \in 1 .. n /\ j \in 1 .. (n + 1) /\ j + 1 \in 1 .. (n + 1)
        BY <1>2, <2>2 DEF n
      <4>2. QED
        BY <1>2, <1>3, <1>5, <4>1
    <3>2. off[j + 1] = off[j] + FrameLen(msgs[j]) /\ off[j + 1] <= Len(s)
      BY <1>1, <2>2 DEF Laid, n
    <3>3. \A k \in 1 .. FrameLen(msgs[j]) :
            off[j] + k >= 1 => s[off[j] + k] = Cell(msgs[j], k)
      BY <1>1, <2>2 DEF Laid, n
    <3>4. FrameLen(msgs[j]) \in Nat
      BY <1>2, <2>2, FrameLenNat DEF n
    <3>5. ASSUME NEW k \in 1 .. FrameLen(msgs[j]), off[j] + k >= 1
          PROVE  t[off[j] + k] = Cell(msgs[j], k)
      <4>1. k \in Int /\ k <= FrameLen(msgs[j])
        BY <3>4
      <4>2. off[j] + k <= Len(s)
        BY <1>2, <3>1, <3>2, <3>4, <4>1, SMTT(30)
      <4>3. off[j] + k \in 1 .. (Len(s) + Len(f))
        <5>1. Len(s) \in Nat /\ Len(f) \in Nat /\ off[j] + k \in Int
          BY <1>2, <3>1, <4>1
        <5>2. QED
          BY <3>5, <4>2, <5>1
      <4>4. QED
        BY <1>4, <3>3, <3>5, <4>2, <4>3
    <3>6. new[j + 1] <= Len(t) /\ new[j + 1] = new[j] + FrameLen(all[j])
      BY <1>2, <1>4, <3>1, <3>2
    <3>7. QED
      BY <3>1, <3>5, <3>6
  <2>3. j = n + 1 \/ j \in p .. n
    BY <1>2, <1>3
  <2>4. QED
    BY <2>1, <2>2, <2>3
<1>8. Len(all) + 1 = n + 2
  BY <1>2, <1>3
<1>9. Laid(t, all, p, c, new)
  BY <1>5, <1>6, <1>7, <1>8 DEF Laid
<1>10. QED
  BY <1>9 DEF Carries, t, all

(* Nothing has been sent.                                                  *)
LEMMA CarriesNothing == Carries(<<>>, <<>>, 1, 0)
<1> DEFINE off == [j \in 1 .. 1 |-> 0]
<1>1. off \in [1 .. Len(<<>>) + 1 -> Int] /\ off[1] = 0 /\ off[Len(<<>>) + 1] = 0
  OBVIOUS
<1> HIDE DEF off
<1>2. Laid(<<>>, <<>>, 1, 0, off)
  BY <1>1 DEF Laid
<1>3. QED
  BY <1>2 DEF Carries

-----------------------------------------------------------------------------
(* Buffers: what is cut in two is the same when put together again.        *)
LEMMA TakeDrop ==
  ASSUME NEW S, NEW s \in Seq(S), NEW n \in 0 .. Len(s)
  PROVE  Take(s, n) \o Drop(s, n) = s
<1> DEFINE a == Take(s, n)
           b == Drop(s, n)
<1>1. /\ a \in Seq(S) /\ b \in Seq(S) /\ Len(a) = n /\ Len(b) = Len(s) - n
      /\ \A i \in 1 .. n : a[i] = s[i]
      /\ \A i \in 1 .. (Len(s) - n) : b[i] = s[n + i]
  BY TakeFront, DropFront
<1> HIDE DEF a, b
<1>2. /\ a \o b \in Seq(S) /\ Len(a \o b) = Len(a) + Len(b)
      /\ \A i \in 1 .. (Len(a) + Len(b)) :
           (a \o b)[i] = IF i <= Len(a) THEN a[i] ELSE b[i - Len(a)]
  BY <1>1, ConcatProperties
<1>3. Len(s) \in Nat /\ n \in Nat /\ Len(a) + Len(b) = Len(s)
  BY <1>1
<1>4. ASSUME NEW i \in 1 .. Len(s)
      PROVE  (a \o b)[i] = s[i]
  <2>1. CASE i <= n
    <3>1. (a \o b)[i] = a[i] /\ i \in 1 .. n
      BY <1>1, <1>2, <1>3, <2>1
    <3>2. QED
      BY <1>1, <3>1
  <2>2. CASE i > n
    <3>1. i - n \in 1 .. (Len(s) - n) /\ n + (i - n) = i
      BY <1>3, <2>2
    <3>2. (a \o b)[i] = b[i - n]
      BY <1>1, <1>2, <1>3, <2>2
    <3>3. b[i - n] = s[n + (i - n)]
      BY <1>1, <3>1
    <3>4. QED
      BY <3>1, <3>2, <3>3
  <2>3. QED
    BY <1>3, <2>1, <2>2
<1>5. a \o b = s
  <2>1. Len(a \o b) = Len(s)
    BY <1>2, <1>3
  <2>2. \A i \in 1 .. Len(a \o b) : (a \o b)[i] = s[i]
    BY <1>4, <2>1
  <2>3. a \o b \in Seq(S)
    BY <1>2
  <2>4. QED
    BY <2>1, <2>2, <2>3, SeqEqual
<1>6. QED
  BY <1>5 DEF a, b

LEMMA CellsAssociative ==
  \A a, b, c \in Seq(Nat) : (a \o b) \o c = a \o (b \o c)
<1> TAKE a, b, c \in Seq(Nat)
<1>1. QED
  BY ConcatAssociative

LEMMA DropConcat ==
  ASSUME NEW S, NEW a \in Seq(S), NEW b \in Seq(S), NEW n \in 0 .. Len(a)
  PROVE  Drop(a, n) \o b = Drop(a \o b, n)
<1>1. /\ Drop(a, n) \in Seq(S) /\ Len(Drop(a, n)) = Len(a) - n
      /\ \A i \in 1 .. (Len(a) - n) : Drop(a, n)[i] = a[n + i]
  BY DropFront
<1> DEFINE rest == Drop(a, n)
           ab == a \o b
           left == rest \o b
           right == Drop(ab, n)
<1>2. /\ ab \in Seq(S) /\ Len(ab) = Len(a) + Len(b)
      /\ \A i \in 1 .. (Len(a) + Len(b)) :
           ab[i] = IF i <= Len(a) THEN a[i] ELSE b[i - Len(a)]
  BY ConcatProperties
<1>3. Len(a) \in Nat /\ Len(b) \in Nat /\ Len(rest) = Len(a) - n /\ rest \in Seq(S)
  BY <1>1
<1> HIDE DEF rest, ab
<1>4. /\ left \in Seq(S) /\ Len(left) = Len(rest) + Len(b)
      /\ \A i \in 1 .. (Len(rest) + Len(b)) :
           left[i] = IF i <= Len(rest) THEN rest[i] ELSE b[i - Len(rest)]
  BY <1>3, ConcatProperties
<1>5. n \in 0 .. Len(ab)
  BY <1>2, <1>3
<1>6. /\ right \in Seq(S) /\ Len(right) = Len(ab) - n
      /\ \A i \in 1 .. (Len(ab) - n) : right[i] = ab[n + i]
  BY <1>2, <1>5, DropFront
<1> HIDE DEF left, right
<1>7. Len(left) = Len(right) /\ Len(left) = (Len(a) - n) + Len(b)
  BY <1>2, <1>3, <1>4, <1>6
<1>8. ASSUME NEW i \in 1 .. Len(left)
      PROVE  left[i] = right[i]
  <2>1. right[i] = ab[n + i] /\ n + i \in 1 .. (Len(a) + Len(b))
    BY <1>2, <1>3, <1>6, <1>7
  <2>2. CASE i <= Len(a) - n
    <3>1. i \in 1 .. (Len(a) - n) /\ n + i <= Len(a)
      BY <1>3, <1>7, <2>2
    <3>2. left[i] = rest[i] /\ rest[i] = a[n + i]
      BY <1>1, <1>3, <1>4, <1>7, <3>1 DEF rest
    <3>3. QED
      BY <1>2, <2>1, <3>1, <3>2
  <2>3. CASE i > Len(a) - n
    <3>1. ~(n + i <= Len(a)) /\ ~(i <= Len(rest))
          /\ (n + i) - Len(a) = i - Len(rest)
      BY <1>3, <1>7, <2>3
    <3>2. QED
      BY <1>2, <1>4, <1>7, <2>1, <3>1
  <2>4. QED
    BY <1>3, <1>7, <2>2, <2>3
<1>9. left = right
  BY <1>4, <1>6, <1>7, <1>8, SeqEqual
<1>10. QED
  BY <1>9 DEF left, right, rest, ab

(* A body is known by its length.                                          *)
LEMMA AllText ==
  ASSUME NEW S, NEW s \in Seq(S), \A k \in 1 .. Len(s) : s[k] = Text
  PROVE  s = Body(Len(s))
<1>1. Body(Len(s)) \in Seq({Text}) /\ Len(Body(Len(s))) = Len(s)
      /\ \A k \in 1 .. Len(s) : Body(Len(s))[k] = Text
  BY DEF Body
<1>2. QED
  BY <1>1, SeqEqual
-----------------------------------------------------------------------------
(***************************************************************************)
(* The invariant of the connection.                                        *)
(***************************************************************************)
ReadTypeOK ==
  /\ said \in Seq(Said)
  /\ up \in Seq(Nat)
  /\ reader \in [for : {"head", "body", "nothing"}, got : Seq(Nat),
                 id : Int, len : Nat]
  /\ posted \in Seq([id : Int, body : Seq(Nat)])

ClientTypeOK ==
  /\ down \in Seq(Nat)
  /\ client \in [buf : Seq(Nat), pending : BOOLEAN, id : Nat, len : Nat,
                 at : {"wait", "head", "body"}, pos : Nat, heads : Nat]
  /\ heard \in Seq([id : Nat, body : Seq(Nat)])
  /\ muddled \in BOOLEAN

(* The messages of the client are numbered, and two bytes give the length  *)
(* of each.                                                                *)
SaidInv ==
  /\ Len(said) <= MaxSaid
  /\ \A i \in 1 .. Len(said) :
       said[i].id = i /\ Len(said[i].body) \in 0 .. (2 * ShortMax + 1)

(* The session is reading the message that comes after those posted: what  *)
(* it has is the beginning of its head or of its body, and what is on its  *)
(* way is the rest of it and the messages behind it.                       *)
Now == Len(posted) + 1

ReadHeadInv ==
  reader.for = "head" =>
    /\ reader.len = HeadLen
    /\ Len(reader.got) <= HeadLen
    /\ Len(reader.got) > 0 => Now <= Len(said)
    /\ \A k \in 1 .. Len(reader.got) : reader.got[k] = Cell(said[Now], k)
    /\ Carries(up, said, Now, Len(reader.got))

ReadBodyInv ==
  reader.for = "body" =>
    /\ Now <= Len(said)
    /\ reader.id = said[Now].id
    /\ reader.len = Len(said[Now].body)
    /\ Len(reader.got) <= reader.len
    /\ \A k \in 1 .. Len(reader.got) : reader.got[k] = Text
    /\ Carries(up, said, Now, HeadLen + Len(reader.got))

(* The client, as long as no readyRead has found two heads, is at the      *)
(* message that comes after those heard: its head is still there, or has   *)
(* been taken off and remembered.                                          *)
Due == Len(heard) + 1
InBody == client.at = "body" \/ (client.at = "wait" /\ client.pending)
Stream == client.buf \o down

ParserInv ==
  /\ client.at = "head" => ~client.pending
  /\ client.heads = 0 => client.pos = 0

HeardInv ==
  ~muddled =>
    /\ Beginning(heard, Sent)
    /\ ~InBody => Carries(Stream, Sent, Due, 0)
    /\ InBody =>
         /\ Due <= Len(Sent)
         /\ client.id = Sent[Due].id
         /\ client.len = Len(Sent[Due].body)
         /\ Carries(Stream, Sent, Due, HeadLen)

ReadSide == ReadTypeOK /\ SaidInv /\ PostedIsSaid /\ ReadHeadInv /\ ReadBodyInv

ClientSide == ClientTypeOK /\ ParserInv /\ HeardInv

ConnectionInv == QueueInv /\ ReadSide /\ ClientSide

-----------------------------------------------------------------------------
(* The messages sent, as a sequence.                                       *)
LEMMA SentMessages ==
  ASSUME wire \in Seq(Msg)
  PROVE  /\ Sent \in Seq(Said) /\ Len(Sent) = Len(wire)
         /\ \A i \in 1 .. Len(wire) :
              /\ Sent[i] = [id |-> wire[i], body |-> Body(BodyLen(wire[i]))]
              /\ wire[i] \in Msg
<1>1. \A m \in Msg : m \in Nat /\ BodyLen(m) \in Nat
  BY FramingAssumption, SendAssumption DEF Msg
<1>2. \A m \in Msg : Body(BodyLen(m)) \in Seq({Text})
  BY <1>1 DEF Body
<1>3. \A i \in 1 .. Len(wire) : wire[i] \in Msg
  OBVIOUS
<1>4. \A i \in 1 .. Len(wire) :
        [id |-> wire[i], body |-> Body(BodyLen(wire[i]))] \in Said
  BY <1>1, <1>2, <1>3 DEF Said
<1>5. QED
  BY <1>3, <1>4 DEF Sent

LEMMA ConnectionInvInit == FramingInit => ConnectionInv
<1> SUFFICES ASSUME FramingInit
             PROVE  ConnectionInv
  OBVIOUS
<1>1. QueueInv
  BY InitQueueInv DEF FramingInit
<1>2. ReadTypeOK /\ ClientTypeOK
  <2>1. <<>> \in Seq(Nat) /\ <<>> \in Seq(Said)
        /\ <<>> \in Seq([id : Nat, body : Seq(Nat)])
        /\ <<>> \in Seq([id : Int, body : Seq(Nat)])
    OBVIOUS
  <2>2. /\ down = <<>> /\ heard = <<>> /\ muddled = FALSE /\ said = <<>>
        /\ up = <<>> /\ posted = <<>>
        /\ client = [buf |-> <<>>, pending |-> FALSE, id |-> 0, len |-> 0,
                     at |-> "wait", pos |-> 0, heads |-> 0]
        /\ reader = [for |-> "head", got |-> <<>>, id |-> 0, len |-> 2]
    BY DEF FramingInit, HeadLen
  <2>3. client \in [buf : Seq(Nat), pending : BOOLEAN, id : Nat, len : Nat,
                   at : {"wait", "head", "body"}, pos : Nat, heads : Nat]
    BY <2>1, <2>2
  <2>4. reader \in [for : {"head", "body", "nothing"}, got : Seq(Nat),
                   id : Int, len : Nat]
    BY <2>1, <2>2
  <2>5. QED
    BY <2>1, <2>2, <2>3, <2>4 DEF ReadTypeOK, ClientTypeOK
<1>3. SaidInv /\ PostedIsSaid
  BY FramingAssumption DEF FramingInit, SaidInv, PostedIsSaid, Beginning
<1>4. ReadHeadInv /\ ReadBodyInv
  <2>1. /\ said = <<>> /\ up = <<>> /\ Now = 1
        /\ reader = [for |-> "head", got |-> <<>>, id |-> 0, len |-> HeadLen]
    BY DEF FramingInit, Now
  <2>2. reader.for = "head" /\ reader.len = HeadLen /\ Len(reader.got) = 0
    BY <2>1
  <2>3. QED
    BY <2>1, <2>2, CarriesNothing DEF ReadHeadInv, ReadBodyInv, HeadLen
<1>5. ParserInv
  BY DEF FramingInit, ParserInv
<1>6. HeardInv
  <2>1. wire = <<>> /\ Sent = <<>>
    BY DEF FramingInit, Init, Sent
  <2>2. Stream = <<>> /\ Due = 1 /\ heard = <<>> /\ ~InBody
    BY DEF FramingInit, Stream, Due, InBody
  <2>3. Beginning(heard, Sent)
    BY <2>1, <2>2 DEF Beginning
  <2>4. QED
    BY <2>1, <2>2, <2>3, CarriesNothing DEF HeardInv
<1>7. QED
  BY <1>1, <1>2, <1>3, <1>4, <1>5, <1>6 DEF ConnectionInv, ReadSide, ClientSide

(***************************************************************************)
(* Every step is a step of the send queue, or leaves it alone: what reads  *)
(* and what removes the session closes the socket or shuts it down.        *)
(***************************************************************************)
LEMMA QueueStep == QueueInv /\ [FramingNext]_fvars => [Next]_vars
<1> SUFFICES ASSUME QueueInv, [FramingNext]_fvars
             PROVE  [Next]_vars
  OBVIOUS
<1>1. open \in BOOLEAN /\ closed \in BOOLEAN
  BY DEF QueueInv, TypeOK
<1>2. CASE Sends \/ WriteHandled \/ WriteAll \/ WriteBreaks \/ DealWithWrite
  BY <1>2 DEF Sends, WriteHandled, WriteAll, WriteBreaks, DealWithWrite, Next
<1>3. CASE Part \/ RejectHead \/ HeadThrows \/ TakeHead \/ TakeBody
  BY <1>3 DEF Part, RejectHead, HeadThrows, TakeHead, TakeBody
<1>4. CASE Insert \/ Remove \/ Say \/ ClientReads
  BY <1>4 DEF Insert, Remove, Say, ClientReads, ReadyRead, ParseHead,
              ParseBody, ParseWait
<1>5. CASE ReadInvalid \/ Destroy
  <2>1. /\ pc = "loop" /\ open' = FALSE
        /\ UNCHANGED <<calls, sendQue, write, pc, closed, deals, accepted, wire>>
    BY <1>5 DEF ReadInvalid, Reading, Destroy
  <2>2. CASE open
    BY <2>1, <2>2 DEF ShutDownWrite, Next
  <2>3. CASE ~open
    BY <1>1, <2>1, <2>3 DEF vars
  <2>4. QED
    BY <2>2, <2>3
<1>6. CASE ReadError
  <2>1. CASE closed
    BY <1>1, <1>6, <2>1 DEF ReadError, vars
  <2>2. CASE ~closed
    BY <1>1, <1>6, <2>2 DEF ReadError, CloseByOther, CloseSocket, Next
  <2>3. QED
    BY <2>1, <2>2
<1>7. CASE Expire
  BY <1>7 DEF Expire, CloseByOther, Next
<1>8. CASE UNCHANGED fvars
  BY <1>8 DEF fvars
<1>9. QED
  BY <1>2, <1>3, <1>4, <1>5, <1>6, <1>7, <1>8 DEF FramingNext, SessionReads

LEMMA QueueInvStep == QueueInv /\ [FramingNext]_fvars => QueueInv'
BY QueueStep, StepQueueInv

(***************************************************************************)
(* The reading side.                                                       *)
(***************************************************************************)
(* What a read of n cells brings.                                          *)
LEMMA GotCells ==
  ASSUME ReadTypeOK, ReadHeadInv, ReadBodyInv,
         reader.for \in {"head", "body"}, Len(posted) <= Len(said),
         NEW n \in Chunks
  PROVE  /\ n \in 0 .. Len(up)
         /\ Take(up, n) \in Seq(Nat) /\ Drop(up, n) \in Seq(Nat)
         /\ Got(n) \in Seq(Nat)
         /\ Len(Got(n)) = Len(reader.got) + n /\ Len(Got(n)) <= reader.len
         /\ reader.for = "head" =>
              /\ reader.len = HeadLen
              /\ Len(Got(n)) > 0 => Now <= Len(said)
              /\ \A k \in 1 .. Len(Got(n)) : Got(n)[k] = Cell(said[Now], k)
              /\ Carries(Drop(up, n), said, Now, Len(Got(n)))
         /\ reader.for = "body" =>
              /\ \A k \in 1 .. Len(Got(n)) : Got(n)[k] = Text
              /\ Carries(Drop(up, n), said, Now, HeadLen + Len(Got(n)))
<1> DEFINE g == reader.got
<1>1. /\ up \in Seq(Nat) /\ g \in Seq(Nat) /\ said \in Seq(Said)
      /\ posted \in Seq([id : Int, body : Seq(Nat)]) /\ reader.len \in Nat
      /\ Len(up) \in Nat /\ Len(g) \in Nat /\ Len(said) \in Nat /\ Len(posted) \in Nat
  BY DEF ReadTypeOK
<1>2. Len(g) <= reader.len
  BY DEF ReadHeadInv, ReadBodyInv
<1>3. n \in 0 .. Len(up) /\ Len(g) + n <= reader.len /\ n \in Nat
  BY <1>1, <1>2 DEF Chunks, Missing, MinOf
<1> HIDE DEF g
<1>4. Now \in 1 .. (Len(said) + 1)
  BY <1>1 DEF Now
<1>5. \A m \in Said : Len(m.body) \in Nat
  BY FrameLenNat
<1> DEFINE taken == Take(up, n)
<1>6. /\ taken \in Seq(Nat) /\ Len(taken) = n /\ Drop(up, n) \in Seq(Nat)
      /\ \A i \in 1 .. n : taken[i] = up[i]
  BY <1>1, <1>3, TakeFront, DropFront
<1> HIDE DEF taken
<1> DEFINE all == g \o taken
<1>7. /\ all \in Seq(Nat) /\ Len(all) = Len(g) + n
      /\ \A k \in 1 .. (Len(g) + n) :
           all[k] = IF k <= Len(g) THEN g[k] ELSE taken[k - Len(g)]
  <2>1. /\ g \o taken \in Seq(Nat) /\ Len(g \o taken) = Len(g) + Len(taken)
        /\ \A k \in 1 .. (Len(g) + Len(taken)) :
             (g \o taken)[k] = IF k <= Len(g) THEN g[k] ELSE taken[k - Len(g)]
    BY <1>1, <1>6, ConcatProperties
  <2>2. QED
    BY <1>6, <2>1
<1>8. Got(n) = all
  BY DEF Got, all, taken, g
<1> HIDE DEF all
(* A cell that arrives belongs to a message that has been said.            *)
<1>9. ASSUME NEW c \in Nat, Carries(up, said, Now, c), n > 0
      PROVE  Now <= Len(said)
  <2> SUFFICES ASSUME Now = Len(said) + 1
               PROVE  FALSE
    <3>1. Len(said) \in Nat /\ Now \in 1 .. (Len(said) + 1)
      BY <1>1, <1>4
    <3>2. QED
      BY <3>1
  <2>1. Carries(up, said, Len(said) + 1, c)
    BY <1>9
  <2>2. Len(up) = 0
    BY <1>1, <1>9, <2>1, CarriesNone
  <2>3. QED
    BY <1>3, <1>9, <2>2
<1>10. ASSUME NEW c \in Nat, Carries(up, said, Now, c), Now <= Len(said),
              NEW k \in 1 .. n, c + k <= FrameLen(said[Now])
       PROVE  up[k] = Cell(said[Now], c + k)
  <2>1. Now \in 1 .. Len(said) /\ k \in 1 .. Len(up)
    BY <1>1, <1>3, <1>4, <1>10
  <2>2. QED
    BY <1>1, <1>10, <2>1, CarriesFront
<1>11. ASSUME NEW c \in Nat, Carries(up, said, Now, c)
       PROVE  Carries(Drop(up, n), said, Now, c + n)
  BY <1>1, <1>3, <1>4, <1>11, CarriesRest
<1>12. ASSUME reader.for = "head"
       PROVE  /\ reader.len = HeadLen
              /\ Len(all) > 0 => Now <= Len(said)
              /\ \A k \in 1 .. Len(all) : all[k] = Cell(said[Now], k)
              /\ Carries(Drop(up, n), said, Now, Len(all))
  <2>1. /\ reader.len = HeadLen /\ Carries(up, said, Now, Len(g))
        /\ Len(g) > 0 => Now <= Len(said)
        /\ \A k \in 1 .. Len(g) : g[k] = Cell(said[Now], k)
    BY <1>12 DEF ReadHeadInv, g
  <2>2. Len(all) > 0 => Now <= Len(said)
    BY <1>1, <1>3, <1>7, <1>9, <2>1
  <2>3. ASSUME NEW k \in 1 .. Len(all)
        PROVE  all[k] = Cell(said[Now], k)
    <3>1. CASE k <= Len(g)
      <4>1. k \in 1 .. (Len(g) + n) /\ k \in 1 .. Len(g)
        BY <1>1, <1>3, <1>7, <3>1
      <4>2. QED
        BY <1>7, <2>1, <3>1, <4>1
    <3>2. CASE k > Len(g)
      <4>1. k - Len(g) \in 1 .. n /\ Len(g) + (k - Len(g)) = k
        BY <1>1, <1>3, <1>7, <3>2
      <4>2. all[k] = taken[k - Len(g)] /\ taken[k - Len(g)] = up[k - Len(g)]
        <5>1. k \in 1 .. (Len(g) + n) /\ ~(k <= Len(g))
          BY <1>1, <1>3, <1>7, <3>2
        <5>2. QED
          BY <1>6, <1>7, <4>1, <5>1
      <4>3. Now <= Len(said) /\ Len(all) > 0
        BY <1>1, <1>3, <1>7, <2>2
      <4>4. said[Now] \in Said /\ k <= FrameLen(said[Now])
        <5>1. said[Now] \in Said
          BY <1>1, <1>4, <4>3
        <5>2. Len(said[Now].body) \in Nat /\ k <= HeadLen
          BY <1>3, <1>5, <1>7, <2>1, <5>1 DEF HeadLen
        <5>3. QED
          BY <5>1, <5>2 DEF FrameLen, HeadLen
      <4>5. up[k - Len(g)] = Cell(said[Now], Len(g) + (k - Len(g)))
        BY <1>1, <1>10, <2>1, <4>1, <4>3, <4>4
      <4>6. QED
        BY <4>1, <4>2, <4>5
    <3>3. QED
      BY <1>1, <1>7, <3>1, <3>2
  <2>4. QED
    BY <1>1, <1>7, <1>11, <2>1, <2>2, <2>3
<1>13. ASSUME reader.for = "body"
       PROVE  /\ \A k \in 1 .. Len(all) : all[k] = Text
              /\ Carries(Drop(up, n), said, Now, HeadLen + Len(all))
  <2>1. /\ Now <= Len(said) /\ reader.len = Len(said[Now].body)
        /\ Carries(up, said, Now, HeadLen + Len(g))
        /\ \A k \in 1 .. Len(g) : g[k] = Text
    BY <1>13 DEF ReadBodyInv, g
  <2>2. HeadLen + Len(g) \in Nat /\ (HeadLen + Len(g)) + n = HeadLen + Len(all)
    BY <1>1, <1>3, <1>7 DEF HeadLen
  <2>3. ASSUME NEW k \in 1 .. Len(all)
        PROVE  all[k] = Text
    <3>1. CASE k <= Len(g)
      <4>1. k \in 1 .. (Len(g) + n) /\ k \in 1 .. Len(g)
        BY <1>1, <1>3, <1>7, <3>1
      <4>2. QED
        BY <1>7, <2>1, <3>1, <4>1
    <3>2. CASE k > Len(g)
      <4>1. k - Len(g) \in 1 .. n /\ k \in Nat /\ k > 0
        BY <1>1, <1>3, <1>7, <3>2
      <4>2. all[k] = taken[k - Len(g)] /\ taken[k - Len(g)] = up[k - Len(g)]
        <5>1. k \in 1 .. (Len(g) + n) /\ ~(k <= Len(g))
          BY <1>1, <1>3, <1>7, <3>2
        <5>2. QED
          BY <1>6, <1>7, <4>1, <5>1
      <4>3. (HeadLen + Len(g)) + (k - Len(g)) = HeadLen + k
        BY <1>1, <4>1 DEF HeadLen
      <4>4. HeadLen + k <= FrameLen(said[Now])
        <5>1. k <= reader.len /\ reader.len = Len(said[Now].body) /\ k \in Int
          BY <1>1, <1>3, <1>7, <2>1
        <5>2. reader.len \in Nat
          BY <1>1
        <5>3. QED
          BY <5>1, <5>2 DEF FrameLen, HeadLen
      <4>5. up[k - Len(g)] = Cell(said[Now], HeadLen + k)
        BY <1>10, <2>1, <2>2, <4>1, <4>3, <4>4
      <4>6. Cell(said[Now], HeadLen + k) = Text
        BY <4>1 DEF Cell, HeadLen
      <4>7. QED
        BY <4>2, <4>5, <4>6
    <3>3. QED
      BY <1>1, <1>7, <3>1, <3>2
  <2>4. QED
    BY <1>11, <2>1, <2>2, <2>3
<1>14. /\ n \in 0 .. Len(up) /\ Take(up, n) \in Seq(Nat) /\ Drop(up, n) \in Seq(Nat)
       /\ Got(n) \in Seq(Nat)
       /\ Len(Got(n)) = Len(reader.got) + n /\ Len(Got(n)) <= reader.len
  BY <1>3, <1>6, <1>7, <1>8 DEF taken, g
<1>15. QED
  BY <1>8, <1>12, <1>13, <1>14

LEMMA ReadSideKept == ReadSide /\ UNCHANGED readVars => ReadSide'
<1> SUFFICES ASSUME ReadSide, UNCHANGED <<said, up, reader, posted>>
             PROVE  ReadSide'
  BY DEF readVars
<1>1. ReadTypeOK' /\ SaidInv' /\ PostedIsSaid'
  BY DEF ReadSide, ReadTypeOK, SaidInv, PostedIsSaid, Beginning
<1>2. ReadHeadInv' /\ ReadBodyInv'
  BY DEF ReadSide, ReadHeadInv, ReadBodyInv, Now
<1>3. QED
  BY <1>1, <1>2 DEF ReadSide

(* What has come is not all that was asked for.                            *)
LEMMA PartStep == ReadSide /\ Part => ReadSide'
<1> SUFFICES ASSUME ReadSide, Part
             PROVE  ReadSide'
  OBVIOUS
<1> USE DEF ReadSide
<1>1. PICK n \in Chunks :
        /\ reader' = [reader EXCEPT !.got = Got(n)]
        /\ up' = Drop(up, n)
  BY DEF Part
<1>2. reader.for \in {"head", "body"} /\ UNCHANGED <<said, posted>>
  BY DEF Part, Reading, ReadTypeOK
<1>3. Len(posted) <= Len(said)
  BY DEF PostedIsSaid, Beginning
<1>4. /\ Drop(up, n) \in Seq(Nat) /\ Got(n) \in Seq(Nat)
      /\ Len(Got(n)) <= reader.len
      /\ reader.for = "head" =>
           /\ reader.len = HeadLen
           /\ Len(Got(n)) > 0 => Now <= Len(said)
           /\ \A k \in 1 .. Len(Got(n)) : Got(n)[k] = Cell(said[Now], k)
           /\ Carries(Drop(up, n), said, Now, Len(Got(n)))
      /\ reader.for = "body" =>
           /\ \A k \in 1 .. Len(Got(n)) : Got(n)[k] = Text
           /\ Carries(Drop(up, n), said, Now, HeadLen + Len(Got(n)))
  BY <1>2, <1>3, GotCells
<1>5. /\ reader'.for = reader.for /\ reader'.got = Got(n)
      /\ reader'.id = reader.id /\ reader'.len = reader.len
  BY <1>1 DEF ReadTypeOK
<1>6. ReadTypeOK'
  BY <1>1, <1>2, <1>4 DEF ReadTypeOK
<1>7. SaidInv' /\ PostedIsSaid' /\ Now' = Now
  BY <1>2 DEF SaidInv, PostedIsSaid, Beginning, Now
<1>8. ReadHeadInv'
  BY <1>1, <1>2, <1>4, <1>5, <1>7 DEF ReadHeadInv
<1>9. ReadBodyInv'
  BY <1>1, <1>2, <1>4, <1>5, <1>7 DEF ReadBodyInv
<1>10. QED
  BY <1>6, <1>7, <1>8, <1>9

(* Nobody reads on: nothing is posted any more.                            *)
LEMMA StopStep ==
  ReadSide /\ (ReadInvalid \/ RejectHead \/ HeadThrows \/ ReadError) => ReadSide'
<1> SUFFICES ASSUME ReadSide, ReadInvalid \/ RejectHead \/ HeadThrows \/ ReadError
             PROVE  ReadSide'
  OBVIOUS
<1> USE DEF ReadSide
<1>1. reader' = [reader EXCEPT !.for = "nothing"] /\ UNCHANGED <<said, posted>>
  BY DEF ReadInvalid, RejectHead, HeadThrows, ReadError, Stop
<1>2. up' \in Seq(Nat)
  <2>1. CASE ReadInvalid \/ RejectHead \/ HeadThrows
    <3>1. reader.for \in {"head", "body"}
      BY <2>1 DEF ReadInvalid, RejectHead, HeadThrows, ReadHead, Reading, ReadTypeOK
    <3>2. PICK n \in Chunks : up' = Drop(up, n)
      BY <2>1 DEF ReadInvalid, RejectHead, HeadThrows, ReadHead
    <3>3. Len(posted) <= Len(said)
      BY DEF PostedIsSaid, Beginning
    <3>4. QED
      BY <3>1, <3>2, <3>3, GotCells
  <2>2. CASE ReadError
    BY <2>2 DEF ReadError, ReadTypeOK
  <2>3. QED
    BY <2>1, <2>2
<1>3. reader'.for = "nothing"
  BY <1>1 DEF ReadTypeOK
<1>4. ReadTypeOK'
  BY <1>1, <1>2 DEF ReadTypeOK
<1>5. SaidInv' /\ PostedIsSaid'
  BY <1>1 DEF SaidInv, PostedIsSaid, Beginning
<1>6. QED
  BY <1>3, <1>4, <1>5 DEF ReadHeadInv, ReadBodyInv

(* A short that is not negative is the number that was written.            *)
LEMMA ShortBack ==
  /\ \A l \in 0 .. ShortMax : Short(l) = l
  /\ \A l \in 0 .. (2 * ShortMax + 1) : Short(l) >= 0 => Short(l) = l
<1>1. ShortMax \in Nat
  BY FramingAssumption
<1>2. QED
  BY <1>1 DEF Short

(* A head that is taken is that of the next message: its id and its length *)
(* are read as they were written, since neither became negative.           *)
LEMMA TakeHeadStep == ReadSide /\ TakeHead => ReadSide'
<1> SUFFICES ASSUME ReadSide, TakeHead
             PROVE  ReadSide'
  OBVIOUS
<1> USE DEF ReadSide
<1>1. PICK n \in 1 .. HeadLen :
        /\ ReadHead(n)
        /\ HeadLength(n) >= 0
        /\ reader' = [for |-> "body", got |-> <<>>, id |-> HeadId(n),
                      len |-> HeadLength(n)]
  BY DEF TakeHead
<1>2. /\ reader.for = "head" /\ n \in Chunks /\ Filled(n) /\ up' = Drop(up, n)
      /\ UNCHANGED <<said, posted>>
  BY <1>1 DEF ReadHead, TakeHead
<1>3. Len(posted) <= Len(said)
  BY DEF PostedIsSaid, Beginning
<1>4. /\ Drop(up, n) \in Seq(Nat) /\ Got(n) \in Seq(Nat)
      /\ Len(Got(n)) = Len(reader.got) + n /\ Len(Got(n)) <= reader.len
      /\ reader.len = HeadLen
      /\ Len(Got(n)) > 0 => Now <= Len(said)
      /\ \A k \in 1 .. Len(Got(n)) : Got(n)[k] = Cell(said[Now], k)
      /\ Carries(Drop(up, n), said, Now, Len(Got(n)))
  BY <1>2, <1>3, GotCells
<1>5. Len(Got(n)) = 2
  BY <1>2, <1>4 DEF Filled, HeadLen
<1>6. Now \in 1 .. Len(said) /\ said[Now] \in Said /\ said[Now].id = Now
      /\ Len(said[Now].body) \in 0 .. (2 * ShortMax + 1) /\ Now <= MaxSaid
  <2>1. Now \in 1 .. Len(said)
    BY <1>4, <1>5 DEF Now, ReadTypeOK
  <2>2. Len(said) \in Nat /\ MaxSaid \in Nat
    BY FramingAssumption DEF ReadTypeOK
  <2>3. QED
    BY <2>1, <2>2 DEF SaidInv, ReadTypeOK
<1>7. Got(n)[1] = Now /\ Got(n)[2] = Len(said[Now].body)
  BY <1>4, <1>5, <1>6, SMTT(30) DEF Cell
<1>8. HeadId(n) = said[Now].id
  <2>1. Now \in 0 .. ShortMax
    BY <1>6, FramingAssumption
  <2>2. QED
    BY <1>6, <1>7, <2>1, ShortBack DEF HeadId
<1>9. HeadLength(n) = Len(said[Now].body)
  BY <1>1, <1>6, <1>7, ShortBack DEF HeadLength
<1>10. reader'.for = "body" /\ reader'.got = <<>> /\ reader'.id = said[Now].id
       /\ reader'.len = Len(said[Now].body)
  BY <1>1, <1>8, <1>9
<1>11. ReadTypeOK'
  <2>1. said[Now].id \in Int /\ Len(said[Now].body) \in Nat
    BY <1>6 DEF Said
  <2>2. reader' \in [for : {"head", "body", "nothing"}, got : Seq(Nat),
                     id : Int, len : Nat]
    BY <1>1, <1>8, <1>9, <2>1
  <2>3. QED
    BY <1>2, <1>4, <2>2 DEF ReadTypeOK
<1>12. SaidInv' /\ PostedIsSaid' /\ Now' = Now
  BY <1>2 DEF SaidInv, PostedIsSaid, Beginning, Now
<1>13. ReadHeadInv'
  BY <1>10 DEF ReadHeadInv
<1>14. ReadBodyInv'
  <2>1. Carries(up', said', Now', HeadLen + Len(reader'.got))
    BY <1>2, <1>4, <1>5, <1>10, <1>12 DEF HeadLen
  <2>2. Len(reader'.got) = 0 /\ Now' <= Len(said') /\ reader'.len \in Nat
    BY <1>2, <1>6, <1>10, <1>12
  <2>3. reader'.id = said'[Now'].id /\ reader'.len = Len(said'[Now'].body)
    BY <1>2, <1>10, <1>12
  <2>4. QED
    BY <2>1, <2>2, <2>3 DEF ReadBodyInv
<1>15. QED
  BY <1>11, <1>12, <1>13, <1>14

(* The message posted is the one that was read.                            *)
LEMMA TakeBodyStep == ReadSide /\ TakeBody => ReadSide'
<1> SUFFICES ASSUME ReadSide, TakeBody
             PROVE  ReadSide'
  OBVIOUS
<1> USE DEF ReadSide
<1>1. PICK n \in Chunks :
        /\ Filled(n)
        /\ up' = Drop(up, n)
        /\ posted' = Append(posted, [id |-> reader.id, body |-> Got(n)])
  BY DEF TakeBody
<1>2. /\ reader.for = "body" /\ UNCHANGED said
      /\ reader' = [for |-> "head", got |-> <<>>, id |-> 0, len |-> HeadLen]
  BY DEF TakeBody
<1>3. Len(posted) <= Len(said) /\ \A i \in 1 .. Len(posted) : posted[i] = said[i]
  BY DEF PostedIsSaid, Beginning
<1>4. /\ Drop(up, n) \in Seq(Nat) /\ Got(n) \in Seq(Nat)
      /\ Len(Got(n)) = Len(reader.got) + n /\ Len(Got(n)) <= reader.len
      /\ \A k \in 1 .. Len(Got(n)) : Got(n)[k] = Text
      /\ Carries(Drop(up, n), said, Now, HeadLen + Len(Got(n)))
  BY <1>2, <1>3, GotCells
<1>5. /\ said \in Seq(Said) /\ posted \in Seq([id : Int, body : Seq(Nat)])
      /\ Len(said) \in Nat /\ Len(posted) \in Nat
      /\ reader.id \in Int /\ reader.len \in Nat
  BY DEF ReadTypeOK
<1>6. /\ Now \in 1 .. Len(said) /\ reader.id = said[Now].id
      /\ reader.len = Len(said[Now].body)
  BY <1>2, <1>5 DEF ReadBodyInv, Now
<1>7. said[Now] \in Said
  BY <1>5, <1>6
<1>8. Len(Got(n)) = Len(said[Now].body)
  BY <1>1, <1>4, <1>5, <1>6 DEF Filled
<1>9. [id |-> reader.id, body |-> Got(n)] = said[Now]
  <2>1. Got(n) = Body(Len(said[Now].body))
    BY <1>4, <1>8, AllText
  <2>2. said[Now].body \in Seq({Text}) /\ said[Now] = [id |-> said[Now].id, body |-> said[Now].body]
    BY <1>7 DEF Said
  <2>3. said[Now].body = Body(Len(said[Now].body))
    <3>1. \A k \in 1 .. Len(said[Now].body) : said[Now].body[k] = Text
      BY <2>2
    <3>2. QED
      BY <2>2, <3>1, AllText
  <2>4. QED
    BY <1>6, <2>1, <2>2, <2>3
<1>10. /\ posted' \in Seq([id : Int, body : Seq(Nat)])
       /\ Len(posted') = Now /\ posted'[Now] = said[Now]
       /\ \A i \in 1 .. Len(posted) : posted'[i] = posted[i]
  BY <1>1, <1>4, <1>5, <1>9 DEF Now
<1>11. ReadTypeOK'
  BY <1>1, <1>2, <1>4, <1>10 DEF ReadTypeOK, HeadLen
<1>12. SaidInv'
  BY <1>2 DEF SaidInv
<1>13. PostedIsSaid'
  <2>1. ASSUME NEW i \in 1 .. Len(posted')
        PROVE  posted'[i] = said[i]
    <3>1. i = Now \/ i \in 1 .. Len(posted)
      BY <1>5, <1>10 DEF Now
    <3>2. QED
      BY <1>3, <1>10, <3>1
  <2>2. QED
    BY <1>2, <1>5, <1>6, <1>10, <2>1 DEF PostedIsSaid, Beginning
<1>14. ReadHeadInv'
  <2>1. HeadLen + Len(Got(n)) = FrameLen(said[Now])
    BY <1>8 DEF FrameLen
  <2>2. Carries(up', said, Now + 1, 0)
    BY <1>1, <1>4, <1>5, <1>6, <2>1, CarriesNext
  <2>3. Now' = Now + 1
    BY <1>10 DEF Now
  <2>4. reader'.len = HeadLen /\ Len(reader'.got) = 0
    BY <1>2
  <2>5. QED
    BY <1>2, <2>2, <2>3, <2>4 DEF ReadHeadInv, HeadLen
<1>15. ReadBodyInv'
  BY <1>2 DEF ReadBodyInv
<1>16. QED
  BY <1>11, <1>12, <1>13, <1>14, <1>15

(* What the client says comes behind everything on its way.                *)
LEMMA SayStep == ReadSide /\ Say => ReadSide'
<1> SUFFICES ASSUME ReadSide, Say
             PROVE  ReadSide'
  OBVIOUS
<1> USE DEF ReadSide
<1>1. PICK n \in SaidLen :
        /\ said' = Append(said, [id |-> Len(said) + 1, body |-> Body(n)])
        /\ up' = up \o Frame(Len(said) + 1, n)
  BY DEF Say
<1>2. UNCHANGED <<reader, posted>> /\ Len(said) < MaxSaid
  BY DEF Say
<1>3. n \in 0 .. (2 * ShortMax + 1) /\ n \in Nat /\ MaxSaid \in Nat /\ Text \in Nat
  BY FramingAssumption
<1>4. /\ said \in Seq(Said) /\ up \in Seq(Nat)
      /\ posted \in Seq([id : Int, body : Seq(Nat)])
      /\ Len(said) \in Nat /\ Len(posted) \in Nat
  BY DEF ReadTypeOK
<1> DEFINE id == Len(said) + 1
           m == [id |-> id, body |-> Body(n)]
           f == Frame(id, n)
<1>5. id \in Nat
  BY <1>4
<1>6. /\ Body(n) \in Seq({Text}) /\ Len(Body(n)) = n
      /\ f \in Seq(Nat) /\ Len(f) = HeadLen + n
      /\ \A k \in 1 .. (HeadLen + n) : f[k] = Cell(m, k)
  BY <1>3, <1>5, FrameCells
<1>7. m \in Said /\ FrameLen(m) = HeadLen + n /\ m.id = id /\ Len(m.body) = n
  BY <1>5, <1>6 DEF Said, FrameLen
<1> HIDE DEF m, f
<1>8. said' = Append(said, m) /\ up' = up \o f
  BY <1>1 DEF m, f
<1>9. /\ said' \in Seq(Said) /\ Len(said') = Len(said) + 1 /\ said'[Len(said) + 1] = m
      /\ \A i \in 1 .. Len(said) : said'[i] = said[i]
  BY <1>4, <1>7, <1>8
<1>10. up' \in Seq(Nat)
  BY <1>4, <1>6, <1>8, ConcatProperties
<1>11. ReadTypeOK'
  BY <1>2, <1>9, <1>10 DEF ReadTypeOK
<1>12. SaidInv'
  <2>1. ASSUME NEW i \in 1 .. Len(said')
        PROVE  said'[i].id = i /\ Len(said'[i].body) \in 0 .. (2 * ShortMax + 1)
    <3>1. CASE i = Len(said) + 1
      BY <1>3, <1>7, <1>9, <3>1
    <3>2. CASE i \in 1 .. Len(said)
      BY <1>9, <3>2 DEF SaidInv
    <3>3. i = Len(said) + 1 \/ i \in 1 .. Len(said)
      BY <1>4, <1>9
    <3>4. QED
      BY <3>1, <3>2, <3>3
  <2>2. Len(said') <= MaxSaid
    BY <1>2, <1>3, <1>4, <1>9
  <2>3. QED
    BY <2>1, <2>2 DEF SaidInv
<1>13. Len(posted) <= Len(said) /\ \A i \in 1 .. Len(posted) : posted[i] = said[i]
  BY DEF PostedIsSaid, Beginning
<1>14. PostedIsSaid'
  <2>1. ASSUME NEW i \in 1 .. Len(posted)
        PROVE  posted[i] = said'[i]
    <3>1. i \in 1 .. Len(said)
      BY <1>4, <1>13
    <3>2. QED
      BY <1>9, <1>13, <3>1
  <2>2. Len(posted) <= Len(said')
    BY <1>4, <1>9, <1>13
  <2>3. QED
    BY <1>2, <2>1, <2>2 DEF PostedIsSaid, Beginning
<1>15. Now' = Now /\ Now \in 1 .. (Len(said) + 1)
  BY <1>2, <1>4, <1>13 DEF Now
<1>16. ASSUME NEW c \in Nat, Carries(up, said, Now, c)
       PROVE  Carries(up', said', Now, c)
  BY <1>4, <1>6, <1>7, <1>8, <1>15, <1>16, CarriesAdded
<1>17. Now <= Len(said) => Now <= Len(said') /\ said'[Now] = said[Now]
  BY <1>4, <1>9, <1>15
<1>18. ReadHeadInv'
  <2> SUFFICES ASSUME reader.for = "head"
               PROVE  ReadHeadInv'
    BY <1>2 DEF ReadHeadInv
  <2>1. /\ reader.len = HeadLen /\ Len(reader.got) <= HeadLen
        /\ Len(reader.got) > 0 => Now <= Len(said)
        /\ \A k \in 1 .. Len(reader.got) : reader.got[k] = Cell(said[Now], k)
        /\ Carries(up, said, Now, Len(reader.got))
    BY DEF ReadHeadInv
  <2>2. Len(reader.got) \in Nat
    BY DEF ReadTypeOK
  <2>3. Carries(up', said', Now, Len(reader.got))
    BY <1>16, <2>1, <2>2
  <2>4. ASSUME NEW k \in 1 .. Len(reader.got)
        PROVE  reader.got[k] = Cell(said'[Now], k)
    BY <1>17, <2>1, <2>2
  <2>5. QED
    BY <1>2, <1>15, <1>17, <2>1, <2>3, <2>4 DEF ReadHeadInv
<1>19. ReadBodyInv'
  <2> SUFFICES ASSUME reader.for = "body"
               PROVE  ReadBodyInv'
    BY <1>2 DEF ReadBodyInv
  <2>1. /\ Now <= Len(said) /\ reader.id = said[Now].id
        /\ reader.len = Len(said[Now].body) /\ Len(reader.got) <= reader.len
        /\ \A k \in 1 .. Len(reader.got) : reader.got[k] = Text
        /\ Carries(up, said, Now, HeadLen + Len(reader.got))
    BY DEF ReadBodyInv
  <2>2. HeadLen + Len(reader.got) \in Nat
    BY DEF ReadTypeOK, HeadLen
  <2>3. Carries(up', said', Now, HeadLen + Len(reader.got))
    BY <1>16, <2>1, <2>2
  <2>4. QED
    BY <1>2, <1>15, <1>17, <2>1, <2>3 DEF ReadBodyInv
<1>20. QED
  BY <1>11, <1>12, <1>14, <1>18, <1>19

LEMMA ReadSideStep == ReadSide /\ [FramingNext]_fvars => ReadSide'
<1>1. (\/ Sends \/ WriteHandled \/ WriteAll \/ WriteBreaks \/ DealWithWrite
       \/ Insert \/ Remove \/ Expire \/ Destroy \/ ClientReads \/ UNCHANGED fvars)
        => UNCHANGED readVars
  BY DEF Sends, WriteHandled, WriteAll, WriteBreaks, DealWithWrite, Insert, Remove,
         Expire, Destroy, ClientReads, ReadyRead, ParseHead, ParseBody, ParseWait, fvars
<1>2. QED
  BY <1>1, ReadSideKept, PartStep, StopStep, TakeHeadStep, TakeBodyStep, SayStep
     DEF FramingNext, SessionReads

(***************************************************************************)
(* The client's side.                                                      *)
(***************************************************************************)
LEMMA ClientSideKept ==
  ClientSide /\ UNCHANGED <<wire, down, client, heard, muddled>> => ClientSide'
<1> SUFFICES ASSUME ClientSide, UNCHANGED <<wire, down, client, heard, muddled>>
             PROVE  ClientSide'
  OBVIOUS
<1>1. Sent' = Sent /\ Stream' = Stream /\ Due' = Due /\ InBody' = InBody
  BY DEF Sent, Stream, Due, InBody
<1>2. ClientTypeOK' /\ ParserInv'
  BY DEF ClientSide, ClientTypeOK, ParserInv
<1>3. HeardInv'
  BY <1>1 DEF ClientSide, HeardInv, Beginning
<1>4. QED
  BY <1>2, <1>3 DEF ClientSide

(* A message written comes behind everything on its way.                   *)
LEMMA WriteAllStep == QueueInv /\ ClientSide /\ WriteAll => ClientSide'
<1> SUFFICES ASSUME QueueInv, ClientSide, WriteAll
             PROVE  ClientSide'
  OBVIOUS
<1> USE DEF ClientSide
<1>1. /\ sendQue \in Seq(Msg) /\ sendQue # <<>> /\ wire \in Seq(Msg)
  BY DEF QueueInv, TypeOK, OneWritePerQueue, WriteAll, WriteDone
<1> DEFINE id == Head(sendQue)
           n == BodyLen(id)
           f == Frame(id, n)
           m == [id |-> id, body |-> Body(n)]
<1>2. id \in Msg /\ id \in Nat /\ n \in Nat /\ Text \in Nat
  BY <1>1, FramingAssumption, SendAssumption DEF Msg
<1>3. /\ Body(n) \in Seq({Text}) /\ Len(Body(n)) = n
      /\ f \in Seq(Nat) /\ Len(f) = HeadLen + n
      /\ \A k \in 1 .. (HeadLen + n) : f[k] = Cell(m, k)
  BY <1>2, FrameCells
<1>4. m \in Said /\ FrameLen(m) = HeadLen + n
  BY <1>2, <1>3 DEF Said, FrameLen
<1>5. /\ wire' = Append(wire, id) /\ down' = down \o f
      /\ UNCHANGED <<client, heard, muddled>>
  BY DEF WriteAll, WriteDone, clientVars
<1>6. /\ wire' \in Seq(Msg) /\ Len(wire') = Len(wire) + 1 /\ wire'[Len(wire) + 1] = id
      /\ \A i \in 1 .. Len(wire) : wire'[i] = wire[i]
  BY <1>1, <1>2, <1>5
<1>7. /\ Sent \in Seq(Said) /\ Len(Sent) = Len(wire)
      /\ \A i \in 1 .. Len(wire) :
           Sent[i] = [id |-> wire[i], body |-> Body(BodyLen(wire[i]))]
  BY <1>1, SentMessages
<1>8. Sent' = Append(Sent, m)
  <2>1. Sent' = [i \in 1 .. Len(wire') |-> [id |-> wire'[i], body |-> Body(BodyLen(wire'[i]))]]
    BY DEF Sent
  <2>2. /\ Len(Sent') = Len(wire) + 1
        /\ \A i \in 1 .. (Len(wire) + 1) :
             Sent'[i] = [id |-> wire'[i], body |-> Body(BodyLen(wire'[i]))]
    BY <1>1, <1>6, <2>1
  <2>3. ASSUME NEW i \in 1 .. (Len(wire) + 1)
        PROVE  Sent'[i] \in Said /\ Sent'[i] = Append(Sent, m)[i]
    <3>1. CASE i = Len(wire) + 1
      <4>1. Sent'[i] = m
        BY <1>6, <2>2, <3>1
      <4>2. Append(Sent, m)[i] = m
        BY <1>4, <1>7, <3>1
      <4>3. QED
        BY <1>4, <4>1, <4>2
    <3>2. CASE i \in 1 .. Len(wire)
      <4>1. Sent'[i] = Sent[i]
        BY <1>6, <1>7, <2>2, <3>2
      <4>2. Append(Sent, m)[i] = Sent[i] /\ Sent[i] \in Said
        BY <1>4, <1>7, <3>2
      <4>3. QED
        BY <4>1, <4>2
    <3>3. Len(wire) \in Nat
      BY <1>1
    <3>4. i = Len(wire) + 1 \/ i \in 1 .. Len(wire)
      BY <3>3
    <3>5. QED
      BY <3>1, <3>2, <3>4
  <2>4. Sent' \in Seq(Said)
    BY <1>1, <1>6, <2>1, <2>2, <2>3
  <2>5. Append(Sent, m) \in Seq(Said) /\ Len(Append(Sent, m)) = Len(wire) + 1
    BY <1>4, <1>7
  <2>6. QED
    BY <2>2, <2>3, <2>4, <2>5, SeqEqual
<1> HIDE DEF id, n, f, m
<1>9. /\ down \in Seq(Nat) /\ client.buf \in Seq(Nat) /\ Stream \in Seq(Nat)
      /\ Len(heard) \in Nat
  BY ConcatProperties DEF ClientTypeOK, Stream
<1>10. Stream' = Stream \o f /\ down' \in Seq(Nat)
  <2>1. (client.buf \o down) \o f = client.buf \o (down \o f)
    BY <1>3, <1>9, CellsAssociative
  <2>2. down \o f \in Seq(Nat)
    BY <1>3, <1>9, ConcatProperties
  <2>3. QED
    BY <1>5, <2>1, <2>2 DEF Stream
<1>11. ClientTypeOK' /\ ParserInv'
  BY <1>5, <1>10 DEF ClientTypeOK, ParserInv
<1>12. Due' = Due /\ InBody' = InBody
  BY <1>5 DEF Due, InBody
<1>13. HeardInv'
  <2> SUFFICES ASSUME ~muddled
               PROVE  HeardInv'
    BY <1>5 DEF HeardInv
  <2>1. Len(heard) <= Len(Sent) /\ \A i \in 1 .. Len(heard) : heard[i] = Sent[i]
    BY DEF HeardInv, Beginning
  <2>2. /\ Len(Sent') = Len(Sent) + 1
        /\ \A i \in 1 .. Len(Sent) : Sent'[i] = Sent[i]
        /\ Len(Sent) \in Nat
    BY <1>4, <1>7, <1>8
  <2>3. Beginning(heard', Sent')
    <3>1. \A i \in 1 .. Len(heard) : i \in 1 .. Len(Sent)
      BY <1>9, <2>1, <2>2
    <3>2. Len(heard) <= Len(Sent')
      BY <1>9, <2>1, <2>2
    <3>3. QED
      BY <1>5, <2>1, <2>2, <3>1, <3>2 DEF Beginning
  <2>4. Due \in 1 .. (Len(Sent) + 1)
    BY <1>9, <2>1, <2>2 DEF Due
  <2>5. ASSUME NEW c \in Nat, Carries(Stream, Sent, Due, c)
        PROVE  Carries(Stream', Sent', Due, c)
    BY <1>3, <1>4, <1>7, <1>8, <1>9, <1>10, <2>4, <2>5, CarriesAdded
  <2>6. CASE InBody
    <3>1. /\ Due <= Len(Sent) /\ client.id = Sent[Due].id
          /\ client.len = Len(Sent[Due].body)
          /\ Carries(Stream, Sent, Due, HeadLen)
      BY <2>6 DEF HeardInv
    <3>2. Due <= Len(Sent') /\ Sent'[Due] = Sent[Due]
      BY <2>2, <2>4, <3>1
    <3>3. Carries(Stream', Sent', Due, HeadLen)
      BY <2>5, <3>1 DEF HeadLen
    <3>4. QED
      BY <1>5, <1>12, <2>3, <2>6, <3>1, <3>2, <3>3 DEF HeardInv
  <2>7. CASE ~InBody
    BY <1>12, <2>3, <2>5, <2>7 DEF HeardInv
  <2>8. QED
    BY <2>6, <2>7
<1>14. QED
  BY <1>11, <1>13

(* What has arrived goes from the connection to the buffer.                *)
LEMMA ReadyReadStep == ClientSide /\ ReadyRead => ClientSide'
<1> SUFFICES ASSUME ClientSide, ReadyRead
             PROVE  ClientSide'
  OBVIOUS
<1> USE DEF ClientSide
<1>1. PICK n \in 1 .. Len(down) :
        /\ client' = [client EXCEPT !.buf = @ \o Take(down, n),
                                    !.pos = 0, !.heads = 0,
                                    !.at = IF client.pending THEN "body" ELSE "head"]
        /\ down' = Drop(down, n)
  BY DEF ReadyRead
<1>2. client.at = "wait" /\ UNCHANGED <<wire, heard, muddled>>
  BY DEF ReadyRead, vars
<1>3. down \in Seq(Nat) /\ client.buf \in Seq(Nat) /\ n \in 0 .. Len(down)
  BY DEF ClientTypeOK
<1> DEFINE taken == Take(down, n)
           left == Drop(down, n)
<1>4. taken \in Seq(Nat) /\ left \in Seq(Nat) /\ taken \o left = down
  BY <1>3, TakeFront, DropFront, TakeDrop
<1> HIDE DEF taken, left
<1>5. /\ client'.buf = client.buf \o taken /\ client'.pos = 0 /\ client'.heads = 0
      /\ client'.at = (IF client.pending THEN "body" ELSE "head")
      /\ client'.pending = client.pending
      /\ client'.id = client.id /\ client'.len = client.len
      /\ down' = left
  BY <1>1 DEF ClientTypeOK, taken, left
<1>6. client.buf \o taken \in Seq(Nat)
  BY <1>3, <1>4, ConcatProperties
<1>7. ClientTypeOK'
  <2>1. client' \in [buf : Seq(Nat), pending : BOOLEAN, id : Nat, len : Nat,
                     at : {"wait", "head", "body"}, pos : Nat, heads : Nat]
    BY <1>1, <1>6 DEF ClientTypeOK, taken
  <2>2. QED
    BY <1>2, <1>4, <1>5, <2>1 DEF ClientTypeOK
<1>8. ParserInv'
  BY <1>5 DEF ParserInv
<1>9. Stream' = Stream
  <2>1. (client.buf \o taken) \o left = client.buf \o (taken \o left)
    BY <1>3, <1>4, CellsAssociative
  <2>2. QED
    BY <1>4, <1>5, <2>1 DEF Stream
<1>10. Sent' = Sent /\ Due' = Due /\ InBody' = InBody
  BY <1>2, <1>5 DEF Sent, Due, InBody
<1>11. HeardInv'
  BY <1>2, <1>5, <1>9, <1>10 DEF HeardInv, Beginning
<1>12. QED
  BY <1>7, <1>8, <1>11

(* The first head of a readyRead is the beginning of the buffer, and that  *)
(* is the head of the next message.                                        *)
LEMMA ParseHeadStep == QueueInv /\ ClientSide /\ ParseHead => ClientSide'
<1> SUFFICES ASSUME QueueInv, ClientSide, ParseHead
             PROVE  ClientSide'
  OBVIOUS
<1> USE DEF ClientSide
<1>1. /\ client.at = "head" /\ Len(client.buf) >= HeadLen
      /\ client' = [client EXCEPT !.id = Streamed(1), !.len = Streamed(2),
                              !.pos = MinOf(Len(client.buf), @ + HeadLen),
                              !.buf = Drop(@, HeadLen),
                              !.heads = @ + 1,
                              !.at = "body"]
      /\ muddled' = (muddled \/ client.heads > 0)
      /\ UNCHANGED <<wire, down, heard>>
  BY DEF ParseHead, vars
<1>2. /\ client.buf \in Seq(Nat) /\ down \in Seq(Nat) /\ Len(client.buf) \in Nat
      /\ client.pos \in Nat /\ client.heads \in Nat /\ muddled \in BOOLEAN
      /\ Len(heard) \in Nat
  BY DEF ClientTypeOK
<1>3. /\ client'.id = Streamed(1) /\ client'.len = Streamed(2)
      /\ client'.pos = MinOf(Len(client.buf), client.pos + HeadLen)
      /\ client'.buf = Drop(client.buf, HeadLen)
      /\ client'.heads = client.heads + 1 /\ client'.at = "body"
      /\ client'.pending = client.pending
  BY <1>1 DEF ClientTypeOK
<1>4. HeadLen \in 0 .. Len(client.buf)
  BY <1>1, <1>2 DEF HeadLen
<1>5. Drop(client.buf, HeadLen) \in Seq(Nat)
  BY <1>2, <1>4, DropFront
<1>6. ClientTypeOK'
  <2>1. Streamed(1) \in Nat /\ Streamed(2) \in Nat
    <3>1. ASSUME NEW i \in 1 .. 2
          PROVE  Streamed(i) \in Nat
      <4>1. CASE client.pos + i <= Len(client.buf)
        <5>1. client.pos + i \in 1 .. Len(client.buf)
          BY <1>2, <4>1
        <5>2. QED
          BY <1>2, <4>1, <5>1, SMTT(30) DEF Streamed
      <4>2. CASE ~(client.pos + i <= Len(client.buf))
        BY <4>2 DEF Streamed
      <4>3. QED
        BY <4>1, <4>2
    <3>2. QED
      BY <3>1
  <2>2. MinOf(Len(client.buf), client.pos + HeadLen) \in Nat
    BY <1>2 DEF MinOf, HeadLen
  <2>3. client.heads + 1 \in Nat
    BY <1>2
  <2>4. client' \in [buf : Seq(Nat), pending : BOOLEAN, id : Nat, len : Nat,
                     at : {"wait", "head", "body"}, pos : Nat, heads : Nat]
    BY <1>1, <1>5, <2>1, <2>2, <2>3 DEF ClientTypeOK
  <2>5. muddled' \in BOOLEAN
    BY <1>1
  <2>6. QED
    BY <1>1, <2>4, <2>5 DEF ClientTypeOK
<1>7. ParserInv'
  BY <1>2, <1>3 DEF ParserInv
<1>8. HeardInv'
  <2> SUFFICES ASSUME ~muddled, client.heads = 0
               PROVE  HeardInv'
    <3>1. ~muddled' => ~muddled /\ ~(client.heads > 0)
      BY <1>1, Zenon
    <3>2. ~(client.heads > 0) => client.heads = 0
      BY <1>2
    <3>3. QED
      BY <3>1, <3>2 DEF HeardInv
  <2>1. client.pos = 0 /\ ~client.pending /\ ~InBody /\ InBody'
    BY <1>1, <1>3 DEF ParserInv, InBody
  <2>2. Sent' = Sent /\ Due' = Due
    BY <1>1 DEF Sent, Due
  <2>3. wire \in Seq(Msg)
    BY DEF QueueInv, TypeOK
  <2>4. Sent \in Seq(Said) /\ Len(Sent) \in Nat
    BY <2>3, SentMessages
  <2>5. /\ Len(heard) <= Len(Sent) /\ Beginning(heard, Sent)
        /\ Carries(Stream, Sent, Due, 0)
    BY <2>1 DEF HeardInv, Beginning
  <2>6. /\ Stream \in Seq(Nat) /\ Len(Stream) = Len(client.buf) + Len(down)
        /\ \A i \in 1 .. Len(client.buf) : Stream[i] = client.buf[i]
    <3>1. /\ Stream \in Seq(Nat) /\ Len(Stream) = Len(client.buf) + Len(down)
          /\ \A i \in 1 .. (Len(client.buf) + Len(down)) :
               Stream[i] = IF i <= Len(client.buf) THEN client.buf[i]
                                                   ELSE down[i - Len(client.buf)]
      BY <1>2, ConcatProperties DEF Stream
    <3>2. Len(down) \in Nat /\ Len(client.buf) \in Nat
      BY <1>2
    <3>3. QED
      BY <3>1, <3>2
  <2>7. Len(Stream) \in Nat /\ Len(Stream) >= 2
    BY <1>1, <1>2, <2>6 DEF HeadLen
  <2>8. Due \in 1 .. Len(Sent)
    <3>1. Due \in 1 .. (Len(Sent) + 1)
      BY <1>2, <2>4, <2>5 DEF Due
    <3>2. Due # Len(Sent) + 1
      <4> SUFFICES ASSUME Due = Len(Sent) + 1
                   PROVE  FALSE
        OBVIOUS
      <4>1. Carries(Stream, Sent, Len(Sent) + 1, 0)
        BY <2>5
      <4>2. Len(Stream) = 0
        BY <2>4, <2>6, <4>1, CarriesNone
      <4>3. QED
        BY <2>7, <4>2
    <3>3. QED
      BY <2>4, <3>1, <3>2
  <2>9. Sent[Due] \in Said
    BY <2>4, <2>8
  <2>10. FrameLen(Sent[Due]) \in Nat /\ FrameLen(Sent[Due]) >= 2
    BY <2>9, FrameLenNat DEF FrameLen, HeadLen
  <2>11. Stream[1] = Cell(Sent[Due], 1) /\ Stream[2] = Cell(Sent[Due], 2)
    <3>1. 1 \in 1 .. Len(Stream) /\ 2 \in 1 .. Len(Stream)
      BY <2>7
    <3>2. 0 + 1 <= FrameLen(Sent[Due]) /\ 0 + 2 <= FrameLen(Sent[Due])
      BY <2>10
    <3>3. Stream[1] = Cell(Sent[Due], 0 + 1)
      BY <2>4, <2>5, <2>6, <2>8, <3>1, <3>2, CarriesFront
    <3>4. Stream[2] = Cell(Sent[Due], 0 + 2)
      BY <2>4, <2>5, <2>6, <2>8, <3>1, <3>2, CarriesFront
    <3>5. QED
      BY <3>3, <3>4
  <2>12. Streamed(1) = Stream[1] /\ Streamed(2) = Stream[2]
    <3>1. 1 \in 1 .. Len(client.buf) /\ 2 \in 1 .. Len(client.buf)
      BY <1>1, <1>2 DEF HeadLen
    <3>2. Streamed(1) = client.buf[1] /\ Streamed(2) = client.buf[2]
      BY <1>2, <2>1, <3>1 DEF Streamed
    <3>3. QED
      BY <2>6, <3>1, <3>2
  <2>13. client'.id = Sent[Due].id /\ client'.len = Len(Sent[Due].body)
    BY <1>3, <2>11, <2>12 DEF Cell
  <2>14. Carries(Stream', Sent, Due, HeadLen)
    <3>1. Stream' = Drop(Stream, HeadLen)
      <4>1. Drop(client.buf, HeadLen) \o down = Drop(client.buf \o down, HeadLen)
        BY <1>2, <1>4, DropConcat, Zenon
      <4>2. QED
        BY <1>1, <1>3, <4>1 DEF Stream
    <3>2. HeadLen \in 0 .. Len(Stream)
      BY <2>7 DEF HeadLen
    <3>3. Carries(Drop(Stream, HeadLen), Sent, Due, 0 + HeadLen)
      <4>1. Due \in 1 .. (Len(Sent) + 1)
        BY <2>4, <2>8
      <4>2. QED
        BY <2>4, <2>5, <2>6, <3>2, <4>1, CarriesRest
    <3>4. QED
      BY <3>1, <3>3 DEF HeadLen
  <2>15. QED
    BY <1>1, <2>1, <2>2, <2>5, <2>8, <2>13, <2>14 DEF HeardInv, Beginning
<1>9. QED
  BY <1>6, <1>7, <1>8

(* The body taken is that of the head that was remembered.                 *)
LEMMA ParseBodyStep == QueueInv /\ ClientSide /\ ParseBody => ClientSide'
<1> SUFFICES ASSUME QueueInv, ClientSide, ParseBody
             PROVE  ClientSide'
  OBVIOUS
<1> USE DEF ClientSide
<1> DEFINE b == Take(client.buf, client.len)
<1>1. /\ client.at = "body" /\ Len(client.buf) >= client.len
      /\ heard' = Append(heard, [id |-> client.id, body |-> b])
      /\ client' = [client EXCEPT !.buf = Drop(@, client.len),
                                  !.pending = FALSE, !.at = "head"]
      /\ UNCHANGED <<wire, down, muddled>>
  BY DEF ParseBody, vars
<1>2. /\ client.buf \in Seq(Nat) /\ down \in Seq(Nat)
      /\ client.len \in 0 .. Len(client.buf) /\ client.id \in Nat /\ client.len \in Nat
      /\ heard \in Seq([id : Nat, body : Seq(Nat)]) /\ Len(heard) \in Nat
      /\ Len(client.buf) \in Nat
  BY <1>1 DEF ClientTypeOK
<1>3. /\ b \in Seq(Nat) /\ Len(b) = client.len
      /\ \A i \in 1 .. client.len : b[i] = client.buf[i]
      /\ Drop(client.buf, client.len) \in Seq(Nat)
  BY <1>2, TakeFront, DropFront
<1> HIDE DEF b
<1>4. /\ client'.buf = Drop(client.buf, client.len) /\ client'.pending = FALSE
      /\ client'.at = "head" /\ client'.pos = client.pos /\ client'.heads = client.heads
  BY <1>1 DEF ClientTypeOK
<1>5. /\ heard' \in Seq([id : Nat, body : Seq(Nat)]) /\ Len(heard') = Due
      /\ heard'[Due] = [id |-> client.id, body |-> b]
      /\ \A i \in 1 .. Len(heard) : heard'[i] = heard[i]
  BY <1>1, <1>2, <1>3 DEF Due
<1>6. ClientTypeOK'
  <2>1. client' \in [buf : Seq(Nat), pending : BOOLEAN, id : Nat, len : Nat,
                     at : {"wait", "head", "body"}, pos : Nat, heads : Nat]
    BY <1>1, <1>3 DEF ClientTypeOK
  <2>2. QED
    BY <1>1, <1>5, <2>1 DEF ClientTypeOK
<1>7. ParserInv'
  BY <1>4 DEF ParserInv
<1>8. HeardInv'
  <2> SUFFICES ASSUME ~muddled
               PROVE  HeardInv'
    BY <1>1 DEF HeardInv
  <2>1. InBody /\ ~InBody'
    BY <1>1, <1>4 DEF InBody
  <2>2. Sent' = Sent /\ Due' = Due + 1
    BY <1>1, <1>5 DEF Sent, Due
  <2>3. wire \in Seq(Msg)
    BY DEF QueueInv, TypeOK
  <2>4. Sent \in Seq(Said) /\ Len(Sent) \in Nat
    BY <2>3, SentMessages
  <2>5. /\ Len(heard) <= Len(Sent) /\ \A i \in 1 .. Len(heard) : heard[i] = Sent[i]
        /\ Due <= Len(Sent) /\ client.id = Sent[Due].id
        /\ client.len = Len(Sent[Due].body)
        /\ Carries(Stream, Sent, Due, HeadLen)
    BY <2>1 DEF HeardInv, Beginning
  <2>6. Due \in 1 .. Len(Sent) /\ Sent[Due] \in Said
    BY <1>2, <2>4, <2>5 DEF Due
  <2>7. /\ Stream \in Seq(Nat) /\ Len(Stream) = Len(client.buf) + Len(down)
        /\ \A i \in 1 .. Len(client.buf) : Stream[i] = client.buf[i]
    <3>1. /\ Stream \in Seq(Nat) /\ Len(Stream) = Len(client.buf) + Len(down)
          /\ \A i \in 1 .. (Len(client.buf) + Len(down)) :
               Stream[i] = IF i <= Len(client.buf) THEN client.buf[i]
                                                   ELSE down[i - Len(client.buf)]
      BY <1>2, ConcatProperties DEF Stream
    <3>2. Len(down) \in Nat /\ Len(client.buf) \in Nat
      BY <1>2
    <3>3. ASSUME NEW i \in 1 .. Len(client.buf)
          PROVE  Stream[i] = client.buf[i]
      <4>1. i \in 1 .. (Len(client.buf) + Len(down)) /\ i <= Len(client.buf)
        BY <3>2
      <4>2. QED
        BY <3>1, <4>1
    <3>4. QED
      BY <3>1, <3>3
  <2>8. client.len \in 0 .. Len(Stream)
    <3>1. Len(down) \in Nat
      BY <1>2
    <3>2. QED
      BY <1>2, <2>7, <3>1
  <2>9. ASSUME NEW k \in 1 .. client.len
        PROVE  b[k] = Text
    <3>1. k \in 1 .. Len(Stream) /\ k \in 1 .. Len(client.buf) /\ k \in Nat /\ k >= 1
      BY <1>2, <2>8
    <3>2. HeadLen + k <= FrameLen(Sent[Due])
      BY <1>2, <2>5 DEF FrameLen, HeadLen
    <3>3. Stream[k] = Cell(Sent[Due], HeadLen + k)
      <4>1. HeadLen \in Nat
        BY DEF HeadLen
      <4>2. QED
        BY <2>4, <2>5, <2>6, <2>7, <3>1, <3>2, <4>1, CarriesFront
    <3>4. Cell(Sent[Due], HeadLen + k) = Text
      BY <3>1 DEF Cell, HeadLen
    <3>5. QED
      BY <1>3, <2>7, <3>1, <3>3, <3>4
  <2>10. [id |-> client.id, body |-> b] = Sent[Due]
    <3>1. b = Body(client.len)
      BY <1>3, <2>9, AllText
    <3>2. /\ Sent[Due].body \in Seq({Text})
          /\ Sent[Due] = [id |-> Sent[Due].id, body |-> Sent[Due].body]
      BY <2>6 DEF Said
    <3>3. Sent[Due].body = Body(client.len)
      <4>1. \A k \in 1 .. Len(Sent[Due].body) : Sent[Due].body[k] = Text
        BY <3>2
      <4>2. QED
        BY <2>5, <3>2, <4>1, AllText
    <3>4. QED
      BY <2>5, <3>1, <3>2, <3>3
  <2>11. Beginning(heard', Sent)
    <3>1. ASSUME NEW i \in 1 .. Len(heard')
          PROVE  heard'[i] = Sent[i]
      <4>1. i = Due \/ i \in 1 .. Len(heard)
        BY <1>2, <1>5 DEF Due
      <4>2. QED
        BY <1>5, <2>5, <2>10, <4>1
    <3>2. QED
      BY <1>5, <2>5, <3>1 DEF Beginning
  <2>12. Carries(Stream', Sent, Due + 1, 0)
    <3>1. Stream' = Drop(Stream, client.len)
      <4>1. Drop(client.buf, client.len) \o down = Drop(client.buf \o down, client.len)
        BY <1>2, DropConcat, Zenon
      <4>2. QED
        BY <1>1, <1>4, <4>1 DEF Stream
    <3>2. Carries(Drop(Stream, client.len), Sent, Due, HeadLen + client.len)
      <4>1. Due \in 1 .. (Len(Sent) + 1) /\ HeadLen \in Nat
        BY <2>4, <2>6 DEF HeadLen
      <4>2. QED
        BY <2>4, <2>5, <2>7, <2>8, <4>1, CarriesRest
    <3>3. HeadLen + client.len = FrameLen(Sent[Due])
      BY <2>5 DEF FrameLen
    <3>4. Drop(Stream, client.len) \in Seq(Nat)
      BY <2>7, <2>8, DropFront
    <3>5. QED
      BY <2>4, <2>6, <3>1, <3>2, <3>3, <3>4, CarriesNext
  <2>13. QED
    BY <2>1, <2>2, <2>11, <2>12 DEF HeardInv
<1>9. QED
  BY <1>6, <1>7, <1>8

LEMMA ParseWaitStep == ClientSide /\ ParseWait => ClientSide'
<1> SUFFICES ASSUME ClientSide, ParseWait
             PROVE  ClientSide'
  OBVIOUS
<1> USE DEF ClientSide
<1>1. /\ client.at \in {"head", "body"}
      /\ client' = [client EXCEPT !.pending = @ \/ client.at = "body", !.at = "wait",
                                  !.pos = 0, !.heads = 0]
      /\ UNCHANGED <<wire, down, heard, muddled>>
  BY DEF ParseWait, vars
<1>2. /\ client'.at = "wait" /\ client'.pos = 0 /\ client'.heads = 0
      /\ client'.pending = (client.pending \/ client.at = "body")
      /\ client'.buf = client.buf /\ client'.id = client.id /\ client'.len = client.len
  BY <1>1 DEF ClientTypeOK
<1>3. ClientTypeOK' /\ ParserInv'
  <2>1. (client.pending \/ client.at = "body") \in BOOLEAN
    OBVIOUS
  <2>2. client' \in [buf : Seq(Nat), pending : BOOLEAN, id : Nat, len : Nat,
                     at : {"wait", "head", "body"}, pos : Nat, heads : Nat]
    BY <1>1, <2>1 DEF ClientTypeOK
  <2>3. QED
    BY <1>1, <1>2, <2>2 DEF ClientTypeOK, ParserInv
<1>4. InBody' = InBody
  BY <1>1, <1>2 DEF InBody, ParserInv
<1>5. Sent' = Sent /\ Stream' = Stream /\ Due' = Due
  BY <1>1, <1>2 DEF Sent, Stream, Due
<1>6. HeardInv'
  BY <1>1, <1>2, <1>4, <1>5 DEF HeardInv, Beginning
<1>7. QED
  BY <1>3, <1>6

LEMMA ClientSideStep == QueueInv /\ ClientSide /\ [FramingNext]_fvars => ClientSide'
<1>1. Sends \/ WriteHandled \/ WriteBreaks \/ DealWithWrite \/ SessionReads
        \/ Insert \/ Remove \/ Expire \/ Destroy \/ Say \/ UNCHANGED fvars
        => UNCHANGED <<wire, down, client, heard, muddled>>
  <2>1. Sends => UNCHANGED <<wire, down, client, heard, muddled>>
    BY DEF Sends, Send, SendRefused, PeerGone, clientVars
  <2>2. WriteHandled \/ WriteBreaks \/ DealWithWrite
          => UNCHANGED <<wire, down, client, heard, muddled>>
    BY DEF WriteHandled, HandleError, Pop, WriteBreaks, WriteFailed,
           DealWithWrite, DealException, clientVars
  <2>3. SessionReads => UNCHANGED <<wire, down, client, heard, muddled>>
    BY DEF SessionReads, Part, ReadInvalid, RejectHead, HeadThrows, TakeHead,
           TakeBody, ReadError, clientVars, vars
  <2>4. Insert \/ Remove \/ Expire \/ Destroy \/ Say
          => UNCHANGED <<wire, down, client, heard, muddled>>
    BY DEF Insert, Remove, Expire, Destroy, Say, clientVars, vars
  <2>5. UNCHANGED fvars => UNCHANGED <<wire, down, client, heard, muddled>>
    BY DEF fvars, vars, clientVars
  <2>6. QED
    BY <2>1, <2>2, <2>3, <2>4, <2>5
<1>2. QED
  BY <1>1, ClientSideKept, WriteAllStep, ReadyReadStep, ParseHeadStep, ParseBodyStep,
     ParseWaitStep DEF FramingNext, ClientReads

LEMMA ConnectionInvStep == ConnectionInv /\ [FramingNext]_fvars => ConnectionInv'
BY QueueInvStep, ReadSideStep, ClientSideStep DEF ConnectionInv

LEMMA ConnectionInvHolds == FramingSpec => []ConnectionInv
BY ConnectionInvInit, ConnectionInvStep, PTL DEF FramingSpec

(***************************************************************************)
(* The theorems about the connection.                                      *)
(***************************************************************************)
(* The types of the connection.                                            *)
THEOREM FramingTypeCorrect == FramingSpec => [](TypeOK /\ ReadTypeOK /\ ClientTypeOK)
<1>1. ConnectionInv => TypeOK /\ ReadTypeOK /\ ClientTypeOK
  BY DEF ConnectionInv, QueueInv, ReadSide, ClientSide
<1>2. QED
  BY ConnectionInvHolds, <1>1, PTL

(* What the LogicSystem gets is what the client sent, message by message.  *)
THEOREM PostedIsSaidHolds == FramingSpec => []PostedIsSaid
<1>1. ConnectionInv => PostedIsSaid
  BY DEF ConnectionInv, ReadSide
<1>2. QED
  BY ConnectionInvHolds, <1>1, PTL

(* What the client handles is what the session sent, message by message,   *)
(* until one readyRead finds two heads.                                    *)
THEOREM HeardIsSentHolds == FramingSpec => []HeardIsSentUntilMuddled
<1>1. ConnectionInv => HeardIsSentUntilMuddled
  BY DEF ConnectionInv, ClientSide, HeardInv, HeardIsSentUntilMuddled
<1>2. QED
  BY ConnectionInvHolds, <1>1, PTL

(* The connection runs the send queue as SendQueue describes it, whoever   *)
(* reads, removes or destroys the session; so what the queue guarantees    *)
(* holds on it, and it implements the ordered channel.                     *)
THEOREM RunsTheQueue == FramingSpec => Spec
<1>1. FramingInit => Init
  BY DEF FramingInit
<1>2. ConnectionInv /\ [FramingNext]_fvars => [Next]_vars
  BY QueueStep DEF ConnectionInv
<1>3. QED
  BY <1>1, <1>2, ConnectionInvHolds, PTL DEF FramingSpec, Spec

THEOREM FramingImplements == FramingSpec => ImplementsChannel
BY RunsTheQueue, Implements
=============================================================================
