------------------------ MODULE ClientSession_proofs ------------------------
(***************************************************************************)
(* What the client's pages, requests and connection keep to, whatever the  *)
(* order of answers, messages, clicks and disconnections, for any accounts *)
(* and any number of requests under way.                                   *)
(***************************************************************************)
EXTENDS ClientSession, SequenceTheorems, TLAPS

IsLogin(r) == r.mod = "login"
IsAnswer(m) == m.is \in {"welcome", "refusal"}
Answering == server.is \in {"asked", "entered"}

(* The connection: a login is answered once, and nothing is under way on a *)
(* socket that is not open.                                                *)
NetInv ==
  /\ socket # "open" => server.is = "idle" /\ inbox = <<>>
  /\ server.is \in {"entered", "in"} => server.uid \in User
  /\ \A i, j \in DOMAIN inbox : IsAnswer(inbox[i]) /\ IsAnswer(inbox[j]) => i = j
  /\ Answering => \A i \in DOMAIN inbox : ~IsAnswer(inbox[i])

(* The chat page and the account data come and go together, and a client   *)
(* in its chat page is not answered again.                                 *)
PageInv ==
  /\ page = "chat" <=> info # Nobody
  /\ lists = {info} \ {Nobody}
  /\ page = "chat" =>
       /\ chatDlg = "live"
       /\ socket \in {"open", "closed"}
       /\ ~Answering
       /\ \A i \in DOMAIN inbox : ~IsAnswer(inbox[i])

(* Unless it was left, the login dialog whose login is under way is still  *)
(* there with its inputs disabled, and one thing is under way for it: an   *)
(* HTTP request,                                                           *)
RequestInv ==
  /\ \A i, j \in DOMAIN http : IsLogin(http[i]) /\ IsLogin(http[j]) => i = j
  /\ \A i \in DOMAIN http : IsLogin(http[i]) =>
       /\ page = "login" /\ busy
       /\ http[i].uid = wanted
       /\ socket \in {"closed", "open"} /\ ~Answering
       /\ \A j \in DOMAIN inbox : ~IsAnswer(inbox[j])

(* or a connection that is being made, the question on it or its answer.   *)
ConnectionInv ==
  /\ socket \in {"connecting", "closing"} => page = "login" /\ busy
  /\ socket = "connecting" => uid = wanted
  /\ Answering => page = "login" /\ busy /\ server.uid = wanted
  /\ \A i \in DOMAIN inbox :
       /\ IsAnswer(inbox[i]) => page = "login" /\ busy
       /\ inbox[i].is = "welcome" => inbox[i].uid = wanted
  /\ page \in Forms => socket = "closed" /\ boxes = <<>>
  /\ page = "chat" => info = wanted

IInv ==
  /\ TypeOK /\ NetInv /\ PageInv
  /\ ~strayed => RequestInv /\ ConnectionInv
  /\ NoStalePointer

-----------------------------------------------------------------------------
LEMMA InitIInv == Init => IInv
<1> SUFFICES ASSUME Init
             PROVE  IInv
  OBVIOUS
<1> USE ClientAssumption DEF Init
<1>1. DOMAIN http = {} /\ DOMAIN inbox = {}
  OBVIOUS
<1>2. server \in ServerState
  BY DEF ServerState
<1>3. TypeOK
  <2>1. http \in Seq(Request) /\ Len(http) = 0 /\ Len(http) <= MaxHttp
    OBVIOUS
  <2>2. inbox \in Seq(Message) /\ boxes \in Seq({"offline", "closed"})
    OBVIOUS
  <2>3. QED
    BY <1>2, <2>1, <2>2 DEF TypeOK, Account
<1>4. NetInv /\ PageInv
  BY <1>1 DEF NetInv, PageInv, Answering
<1>5. RequestInv /\ ConnectionInv
  BY <1>1 DEF RequestInv, ConnectionInv, Answering, Forms
<1>6. NoStalePointer
  BY DEF NoStalePointer
<1>7. QED
  BY <1>3, <1>4, <1>5, <1>6 DEF IInv

(* Removing element i of a sequence leaves the others in their order.      *)
LEMMA Removed ==
  ASSUME NEW S, NEW s \in Seq(S), NEW i \in DOMAIN s
  PROVE  /\ RemoveAt(s, i) \in Seq(S)
         /\ Len(RemoveAt(s, i)) = Len(s) - 1
         /\ \A j \in 1 .. (Len(s) - 1) :
              RemoveAt(s, i)[j] = IF j < i THEN s[j] ELSE s[j + 1]
<1> DEFINE a == SubSeq(s, 1, i - 1)
           b == SubSeq(s, i + 1, Len(s))
<1>1. Len(s) \in Nat /\ DOMAIN s = 1 .. Len(s) /\ i \in 1 .. Len(s)
  OBVIOUS
<1>2. /\ a \in Seq(S) /\ Len(a) = i - 1
      /\ \A j \in 1 .. (i - 1) : a[j] = s[j]
  BY <1>1
<1>3. /\ b \in Seq(S) /\ Len(b) = Len(s) - i
      /\ \A j \in 1 .. (Len(s) - i) : b[j] = s[i + j]
  BY <1>1
<1>4. RemoveAt(s, i) = a \o b
  BY DEF RemoveAt
<1> HIDE DEF a, b
<1>5. a \o b \in Seq(S) /\ Len(a \o b) = Len(s) - 1
  <2>1. a \in Seq(S) /\ b \in Seq(S)
    BY <1>2, <1>3
  <2>2. a \o b \in Seq(S) /\ Len(a \o b) = Len(a) + Len(b)
    BY <2>1, ConcatProperties
  <2>3. Len(a) + Len(b) = Len(s) - 1
    BY <1>1, <1>2, <1>3
  <2>4. QED
    BY <2>2, <2>3
<1>6. ASSUME NEW j \in 1 .. (Len(s) - 1)
      PROVE  (a \o b)[j] = IF j < i THEN s[j] ELSE s[j + 1]
  <2>1. CASE j < i
    BY <2>1, <1>1, <1>2, <1>3
  <2>2. CASE ~(j < i)
    <3>1. (a \o b)[j] = b[j - (i - 1)]
      BY <2>2, <1>1, <1>2, <1>3
    <3>2. j - (i - 1) \in 1 .. (Len(s) - i) /\ i + (j - (i - 1)) = j + 1
      BY <2>2, <1>1
    <3>3. QED
      BY <3>1, <3>2, <2>2, <1>3
  <2>3. QED
    BY <2>1, <2>2
<1>7. QED
  BY <1>4, <1>5, <1>6

OneLogin(requests) ==
  \A j, k \in DOMAIN requests : IsLogin(requests[j]) /\ IsLogin(requests[k]) => j = k

(* Request i goes, and each that is left was another before.               *)
RequestGone(i) ==
  /\ i \in DOMAIN http /\ http[i] \in Request
  /\ http' \in Seq(Request) /\ Len(http') <= MaxHttp
  /\ \A j \in DOMAIN http' : \E k \in DOMAIN http : k # i /\ http'[j] = http[k]
  /\ OneLogin(http) => OneLogin(http')

(* An answer that comes takes its request off the list.                    *)
LEMMA RequestAnswered ==
  ASSUME TypeOK, NEW i, Answered(i)
  PROVE  RequestGone(i)
<1>0. i \in DOMAIN http /\ http' = RemoveAt(http, i)
  BY DEF Answered
<1>1. /\ http \in Seq(Request) /\ Len(http) \in Nat /\ Len(http) <= MaxHttp
      /\ MaxHttp \in Nat /\ DOMAIN http = 1 .. Len(http)
  BY ClientAssumption DEF TypeOK
<1>2. /\ http' \in Seq(Request) /\ Len(http') = Len(http) - 1
      /\ \A j \in 1 .. (Len(http) - 1) :
           http'[j] = IF j < i THEN http[j] ELSE http[j + 1]
  BY <1>0, <1>1, Removed
<1>3. DOMAIN http' = 1 .. (Len(http) - 1)
  BY <1>2
<1> DEFINE Old(j) == IF j < i THEN j ELSE j + 1
<1>4. \A j \in DOMAIN http' :
        Old(j) \in DOMAIN http /\ Old(j) # i /\ http'[j] = http[Old(j)]
  BY <1>0, <1>1, <1>2, <1>3
<1>5. \A j, k \in DOMAIN http' : Old(j) = Old(k) => j = k
  BY <1>0, <1>1, <1>3
<1> HIDE DEF Old
<1>6. ASSUME OneLogin(http), NEW j \in DOMAIN http', NEW k \in DOMAIN http',
             IsLogin(http'[j]), IsLogin(http'[k])
      PROVE  j = k
  BY <1>4, <1>5, <1>6 DEF OneLogin
<1>7. Len(http') <= MaxHttp
  BY <1>1, <1>2
<1>8. QED
  BY <1>0, <1>1, <1>2, <1>4, <1>6, <1>7 DEF RequestGone, OneLogin

(* A request that is made is the last on the list.                         *)
LEMMA Requested ==
  ASSUME TypeOK, NEW r \in Request, Ask(r)
  PROVE  /\ http' \in Seq(Request) /\ Len(http') <= MaxHttp
         /\ \A j \in DOMAIN http' :
              \/ j \in DOMAIN http /\ http'[j] = http[j]
              \/ j = Len(http) + 1 /\ http'[j] = r
<1>1. /\ http \in Seq(Request) /\ Len(http) \in Nat
      /\ MaxHttp \in Nat /\ DOMAIN http = 1 .. Len(http)
  BY ClientAssumption DEF TypeOK
<1>2. Len(http) < MaxHttp /\ http' = Append(http, r)
  BY DEF Ask
<1>3. QED
  BY <1>1, <1>2

(* A message that is read is the first of the inbox, and is gone then.     *)
FirstIsRead(kind) ==
  /\ 1 \in DOMAIN inbox /\ Head(inbox) = inbox[1]
  /\ inbox[1] \in Message /\ inbox[1].is = kind
  /\ inbox' \in Seq(Message)
  /\ \A j \in DOMAIN inbox' :
       j + 1 \in DOMAIN inbox /\ j + 1 # 1 /\ inbox'[j] = inbox[j + 1]
  /\ \A j, k \in DOMAIN inbox' : j + 1 = k + 1 => j = k
  /\ socket = "open"

LEMMA Read ==
  ASSUME IInv, NEW kind, Receive(kind)
  PROVE  FirstIsRead(kind)
<1>1. /\ inbox \in Seq(Message) /\ Len(inbox) \in Nat /\ DOMAIN inbox = 1 .. Len(inbox)
      /\ inbox # <<>> /\ inbox' = Tail(inbox) /\ Head(inbox).is = kind
  BY DEF IInv, TypeOK, Receive
<1>2. 1 \in DOMAIN inbox /\ Head(inbox) = inbox[1] /\ inbox[1] \in Message
  BY <1>1
<1>3. /\ inbox' \in Seq(Message) /\ DOMAIN inbox' = 1 .. (Len(inbox) - 1)
      /\ \A j \in 1 .. (Len(inbox) - 1) : inbox'[j] = inbox[j + 1]
  BY <1>1
<1>4. socket = "open"
  BY <1>1 DEF IInv, NetInv
<1>5. QED
  BY <1>1, <1>2, <1>3, <1>4 DEF FirstIsRead

(* A message that is sent is the last of the inbox.                        *)
LEMMA Sent ==
  ASSUME TypeOK, NEW m \in Message, inbox' = Append(inbox, m)
  PROVE  /\ inbox' \in Seq(Message)
         /\ \A j \in DOMAIN inbox' :
              \/ j \in DOMAIN inbox /\ inbox'[j] = inbox[j]
              \/ j = Len(inbox) + 1 /\ inbox'[j] = m
<1>1. inbox \in Seq(Message) /\ Len(inbox) \in Nat /\ DOMAIN inbox = 1 .. Len(inbox)
  BY DEF TypeOK
<1>2. QED
  BY <1>1

LEMMA StepClickLogin ==
  ASSUME IInv, NEW u \in User, ClickLogin(u)
  PROVE  IInv'
<1>0. /\ http' \in Seq(Request) /\ Len(http') <= MaxHttp
      /\ \A j \in DOMAIN http' :
           \/ j \in DOMAIN http /\ http'[j] = http[j]
           \/ j = Len(http) + 1 /\ http'[j].mod = "login" /\ http'[j].uid = u
  <2>1. [mod |-> "login", uid |-> u] \in Request
    BY DEF Request
  <2>2. QED
    BY <2>1, Requested DEF IInv, ClickLogin
<1> USE DEF ClickLogin, Account, UserActs, dataVars
<1>1. TypeOK'
  BY <1>0 DEF IInv, TypeOK
<1>2. NetInv'
  BY DEF IInv, NetInv, Answering, IsAnswer
<1>3. PageInv'
  BY DEF IInv, PageInv, Answering, IsAnswer
<1>4. ~strayed' => RequestInv'
  BY <1>0 DEF IInv, TypeOK, NetInv, PageInv, RequestInv, ConnectionInv,
     Answering, IsAnswer, IsLogin, Forms
<1>5. ~strayed' => ConnectionInv'
  BY DEF IInv, RequestInv, ConnectionInv, Answering, IsAnswer, IsLogin
<1>6. NoStalePointer'
  BY DEF IInv, NoStalePointer
<1>7. QED
  BY <1>1, <1>2, <1>3, <1>4, <1>5, <1>6 DEF IInv

LEMMA StepLeaveLogin ==
  ASSUME IInv, LeaveLogin
  PROVE  IInv'
<1> USE DEF LeaveLogin, Forms, Show, Account, UserActs, netVars, dataVars
<1>1. TypeOK'
  BY DEF IInv, TypeOK
<1>2. NetInv'
  BY DEF IInv, NetInv, Answering, IsAnswer
<1>3. PageInv'
  BY DEF IInv, PageInv, Answering, IsAnswer
<1>4. ~strayed' => RequestInv'
  BY DEF IInv, RequestInv, ConnectionInv, Answering, IsAnswer, IsLogin
<1>5. ~strayed' => ConnectionInv'
  BY DEF IInv, RequestInv, ConnectionInv, Answering, IsAnswer, IsLogin
<1>6. NoStalePointer'
  BY DEF IInv, NoStalePointer
<1>7. QED
  BY <1>1, <1>2, <1>3, <1>4, <1>5, <1>6 DEF IInv

LEMMA StepReturnToLogin ==
  ASSUME IInv, ReturnToLogin
  PROVE  IInv'
<1> USE DEF ReturnToLogin, Forms, Show, Account, UserActs, netVars, dataVars, noteVars
<1>1. TypeOK'
  BY DEF IInv, TypeOK
<1>2. NetInv'
  BY DEF IInv, NetInv, Answering, IsAnswer
<1>3. PageInv'
  BY DEF IInv, PageInv, Answering, IsAnswer
<1>4. ~strayed' => RequestInv'
  BY DEF IInv, RequestInv, ConnectionInv, Answering, IsAnswer, IsLogin
<1>5. ~strayed' => ConnectionInv'
  BY DEF IInv, RequestInv, ConnectionInv, Answering, IsAnswer, IsLogin
<1>6. NoStalePointer'
  BY DEF IInv, NoStalePointer
<1>7. QED
  BY <1>1, <1>2, <1>3, <1>4, <1>5, <1>6 DEF IInv

LEMMA StepCountedDown ==
  ASSUME IInv, CountedDown
  PROVE  IInv'
<1> USE DEF CountedDown, Show, Account, netVars, dataVars, noteVars
<1>1. TypeOK'
  BY DEF IInv, TypeOK
<1>2. NetInv'
  BY DEF IInv, NetInv, Answering, IsAnswer
<1>3. PageInv'
  BY DEF IInv, PageInv, Answering, IsAnswer
<1>4. ~strayed' => RequestInv'
  BY DEF IInv, RequestInv, ConnectionInv, Answering, IsAnswer, IsLogin
<1>5. ~strayed' => ConnectionInv'
  BY DEF IInv, TypeOK, NetInv, PageInv, RequestInv, ConnectionInv,
     Answering, IsAnswer, IsLogin, Forms
<1>6. NoStalePointer'
  BY DEF IInv, NoStalePointer
<1>7. QED
  BY <1>1, <1>2, <1>3, <1>4, <1>5, <1>6 DEF IInv

LEMMA StepSubmit ==
  ASSUME IInv, NEW p \in Forms, NEW id \in {"code", "form"}, Submit(p, id),
         busy' \in {busy, TRUE}
  PROVE  IInv'
<1>0. /\ http' \in Seq(Request) /\ Len(http') <= MaxHttp
      /\ \A j \in DOMAIN http' :
           \/ j \in DOMAIN http /\ http'[j] = http[j]
           \/ j = Len(http) + 1 /\ http'[j].mod \in Forms
  <2>1. [mod |-> p, id |-> id] \in Request
    BY DEF Request
  <2>2. QED
    BY <2>1, Requested DEF IInv, Submit
<1> USE DEF Submit, UserActs, dataVars, noteVars
<1>1. TypeOK'
  BY <1>0 DEF IInv, TypeOK
<1>2. NetInv'
  BY DEF IInv, NetInv, Answering, IsAnswer
<1>3. PageInv'
  BY DEF IInv, PageInv, Answering, IsAnswer
<1>4. ~strayed' => RequestInv'
  BY <1>0 DEF IInv, TypeOK, NetInv, PageInv, RequestInv, ConnectionInv,
     Answering, IsAnswer, IsLogin, Forms
<1>5. ~strayed' => ConnectionInv'
  BY DEF IInv, RequestInv, ConnectionInv, Answering, IsAnswer, IsLogin
<1>6. NoStalePointer'
  BY DEF IInv, NoStalePointer
<1>7. QED
  BY <1>1, <1>2, <1>3, <1>4, <1>5, <1>6 DEF IInv

LEMMA StepPopOut ==
  ASSUME IInv, PopOut
  PROVE  IInv'
<1>0. info \in User
  BY DEF IInv, TypeOK, PageInv, PopOut, Account
<1> USE DEF PopOut, Account, UserActs, uiVars, netVars, noteVars
<1>1. TypeOK'
  BY <1>0 DEF IInv, TypeOK
<1>2. NetInv'
  BY DEF IInv, NetInv, Answering, IsAnswer
<1>3. PageInv'
  BY DEF IInv, PageInv, Answering, IsAnswer
<1>4. ~strayed' => RequestInv'
  BY DEF IInv, RequestInv, ConnectionInv, Answering, IsAnswer, IsLogin
<1>5. ~strayed' => ConnectionInv'
  BY DEF IInv, RequestInv, ConnectionInv, Answering, IsAnswer, IsLogin
<1>6. NoStalePointer'
  BY DEF IInv, NoStalePointer
<1>7. QED
  BY <1>1, <1>2, <1>3, <1>4, <1>5, <1>6 DEF IInv

LEMMA StepCloseWindow ==
  ASSUME IInv, NEW u \in User, CloseWindow(u)
  PROVE  IInv'
<1> USE DEF CloseWindow, UserActs, uiVars, netVars, noteVars
<1>1. TypeOK'
  BY DEF IInv, TypeOK
<1>2. NetInv'
  BY DEF IInv, NetInv, Answering, IsAnswer
<1>3. PageInv'
  BY DEF IInv, PageInv, Answering, IsAnswer
<1>4. ~strayed' => RequestInv'
  BY DEF IInv, RequestInv, ConnectionInv, Answering, IsAnswer, IsLogin
<1>5. ~strayed' => ConnectionInv'
  BY DEF IInv, RequestInv, ConnectionInv, Answering, IsAnswer, IsLogin
<1>6. NoStalePointer'
  BY DEF IInv, NoStalePointer
<1>7. QED
  BY <1>1, <1>2, <1>3, <1>4, <1>5, <1>6 DEF IInv

LEMMA StepSendFromWindow ==
  ASSUME IInv, NEW u \in User, SendFromWindow(u)
  PROVE  IInv'
<1> USE DEF SendFromWindow, UserActs, uiVars, netVars, dataVars, noteVars
<1>1. TypeOK'
  BY DEF IInv, TypeOK
<1>2. NetInv'
  BY DEF IInv, NetInv, Answering, IsAnswer
<1>3. PageInv'
  BY DEF IInv, PageInv, Answering, IsAnswer
<1>4. ~strayed' => RequestInv'
  BY DEF IInv, RequestInv, ConnectionInv, Answering, IsAnswer, IsLogin
<1>5. ~strayed' => ConnectionInv'
  BY DEF IInv, RequestInv, ConnectionInv, Answering, IsAnswer, IsLogin
<1>6. NoStalePointer'
  BY DEF IInv, NoStalePointer
<1>7. QED
  BY <1>1, <1>2, <1>3, <1>4, <1>5, <1>6 DEF IInv

(* An answer that no dialog hears, or that ends no login, takes only its   *)
(* request away.                                                           *)
LEMMA StepAnswerUnheard ==
  ASSUME IInv, NEW i, AnswerUnheard(i)
  PROVE  IInv'
<1>0. RequestGone(i)
  BY RequestAnswered DEF IInv, AnswerUnheard
<1> USE DEF RequestGone, OneLogin, Answered, AnswerUnheard, uiVars, dataVars, noteVars
<1>1. TypeOK'
  BY <1>0 DEF IInv, TypeOK
<1>2. NetInv'
  BY DEF IInv, NetInv, Answering, IsAnswer
<1>3. PageInv'
  BY DEF IInv, PageInv, Answering, IsAnswer
<1>4. ~strayed' => RequestInv'
  BY <1>0 DEF IInv, RequestInv, ConnectionInv, Answering, IsAnswer, IsLogin
<1>5. ~strayed' => ConnectionInv'
  BY <1>0 DEF IInv, RequestInv, ConnectionInv, Answering, IsAnswer, IsLogin
<1>6. NoStalePointer'
  BY DEF IInv, NoStalePointer
<1>7. QED
  BY <1>1, <1>2, <1>3, <1>4, <1>5, <1>6 DEF IInv

LEMMA StepLoginRefused ==
  ASSUME IInv, NEW i, LoginRefused(i)
  PROVE  IInv'
<1>0. RequestGone(i)
  BY RequestAnswered DEF IInv, LoginRefused
<1> USE DEF RequestGone, OneLogin, Answered, LoginRefused, dataVars, noteVars
<1>1. TypeOK'
  BY <1>0 DEF IInv, TypeOK
<1>2. NetInv'
  BY DEF IInv, NetInv, Answering, IsAnswer
<1>3. PageInv'
  BY DEF IInv, PageInv, Answering, IsAnswer
<1>4. ~strayed' => RequestInv'
  BY <1>0 DEF IInv, RequestInv, ConnectionInv, Answering, IsAnswer, IsLogin
<1>5. ~strayed' => ConnectionInv'
  BY <1>0 DEF IInv, RequestInv, ConnectionInv, Answering, IsAnswer, IsLogin
<1>6. NoStalePointer'
  BY DEF IInv, NoStalePointer
<1>7. QED
  BY <1>1, <1>2, <1>3, <1>4, <1>5, <1>6 DEF IInv

LEMMA StepLoginUnread ==
  ASSUME IInv, NEW i, LoginUnread(i)
  PROVE  IInv'
<1>0. RequestGone(i)
  BY RequestAnswered DEF IInv, LoginUnread
<1> USE DEF RequestGone, OneLogin, Answered, LoginUnread, Hinder, uiVars, dataVars
<1>1. TypeOK'
  BY <1>0 DEF IInv, TypeOK
<1>2. NetInv'
  BY DEF IInv, NetInv, Answering, IsAnswer
<1>3. PageInv'
  BY DEF IInv, PageInv, Answering, IsAnswer
<1>4. ~strayed' => RequestInv'
  BY <1>0 DEF IInv, RequestInv, ConnectionInv, Answering, IsAnswer, IsLogin
<1>5. ~strayed' => ConnectionInv'
  BY <1>0 DEF IInv, RequestInv, ConnectionInv, Answering, IsAnswer, IsLogin
<1>6. NoStalePointer'
  BY DEF IInv, NoStalePointer
<1>7. QED
  BY <1>1, <1>2, <1>3, <1>4, <1>5, <1>6 DEF IInv

LEMMA StepLoginGranted ==
  ASSUME IInv, NEW i, LoginGranted(i)
  PROVE  IInv'
<1>0. RequestGone(i)
  BY RequestAnswered DEF IInv, LoginGranted
<1>8. http[i].uid \in User
  BY <1>0 DEF RequestGone, LoginGranted, Request, Forms
<1> USE DEF RequestGone, OneLogin, Answered, LoginGranted, Account, Hinder, dataVars
<1>1. TypeOK'
  BY <1>0, <1>8 DEF IInv, TypeOK
<1>2. NetInv'
  BY DEF IInv, NetInv, Answering, IsAnswer
<1>3. PageInv'
  BY DEF IInv, PageInv, Answering, IsAnswer
<1>4. ~strayed' => RequestInv'
  BY <1>0 DEF IInv, RequestInv, ConnectionInv, Answering, IsAnswer, IsLogin
<1>5. ~strayed' => ConnectionInv'
  BY <1>0 DEF IInv, TypeOK, NetInv, PageInv, RequestInv, ConnectionInv,
     Answering, IsAnswer, IsLogin, Forms
<1>6. NoStalePointer'
  BY DEF IInv, NoStalePointer
<1>7. QED
  BY <1>1, <1>2, <1>3, <1>4, <1>5, <1>6 DEF IInv

LEMMA StepFormAnswered ==
  ASSUME IInv, NEW i, NEW p \in Forms, FormAnswered(p, i),
         busy' \in {busy, FALSE}, leaving' \in {leaving, TRUE}
  PROVE  IInv'
<1>0. RequestGone(i)
  BY RequestAnswered DEF IInv, FormAnswered
<1> USE DEF RequestGone, OneLogin, Answered, FormAnswered, dataVars, noteVars
<1>1. TypeOK'
  BY <1>0 DEF IInv, TypeOK
<1>2. NetInv'
  BY DEF IInv, NetInv, Answering, IsAnswer
<1>3. PageInv'
  BY DEF IInv, PageInv, Answering, IsAnswer
<1>4. ~strayed' => RequestInv'
  BY <1>0 DEF IInv, RequestInv, ConnectionInv, Answering, IsAnswer, IsLogin
<1>5. ~strayed' => ConnectionInv'
  BY <1>0 DEF IInv, RequestInv, ConnectionInv, Answering, IsAnswer, IsLogin
<1>6. NoStalePointer'
  BY DEF IInv, NoStalePointer
<1>7. QED
  BY <1>1, <1>2, <1>3, <1>4, <1>5, <1>6 DEF IInv

LEMMA StepConnected ==
  ASSUME IInv, Connected
  PROVE  IInv'
<1>0. /\ server' \in ServerState /\ server'.is \in {"idle", "asked"}
      /\ server'.is = "asked" => page = "login" /\ server'.uid = uid
  BY DEF IInv, TypeOK, Connected, ServerState
<1> USE DEF Connected, uiVars, dataVars, noteVars
<1>1. TypeOK'
  BY <1>0 DEF IInv, TypeOK
<1>2. NetInv'
  BY <1>0 DEF IInv, NetInv, Answering, IsAnswer
<1>3. PageInv'
  BY <1>0 DEF IInv, PageInv, Answering, IsAnswer
<1>4. ~strayed' => RequestInv'
  BY <1>0 DEF IInv, RequestInv, ConnectionInv, Answering, IsAnswer, IsLogin
<1>5. ~strayed' => ConnectionInv'
  BY <1>0 DEF IInv, RequestInv, ConnectionInv, Answering, IsAnswer, IsLogin
<1>6. NoStalePointer'
  BY DEF IInv, NoStalePointer
<1>7. QED
  BY <1>1, <1>2, <1>3, <1>4, <1>5, <1>6 DEF IInv

LEMMA StepConnectFails ==
  ASSUME IInv, ConnectFails
  PROVE  IInv'
<1> USE DEF ConnectFails, dataVars, noteVars
<1>1. TypeOK'
  BY DEF IInv, TypeOK
<1>2. NetInv'
  BY DEF IInv, NetInv, Answering, IsAnswer
<1>3. PageInv'
  BY DEF IInv, PageInv, Answering, IsAnswer
<1>4. ~strayed' => RequestInv'
  BY DEF IInv, RequestInv, ConnectionInv, Answering, IsAnswer, IsLogin
<1>5. ~strayed' => ConnectionInv'
  BY DEF IInv, TypeOK, NetInv, PageInv, RequestInv, ConnectionInv,
     Answering, IsAnswer, IsLogin, Forms
<1>6. NoStalePointer'
  BY DEF IInv, NoStalePointer
<1>7. QED
  BY <1>1, <1>2, <1>3, <1>4, <1>5, <1>6 DEF IInv

LEMMA StepNetworkError ==
  ASSUME IInv, NetworkError
  PROVE  IInv'
<1> USE DEF NetworkError, Hinder, uiVars, dataVars
<1>1. TypeOK'
  BY DEF IInv, TypeOK
<1>2. NetInv'
  BY DEF IInv, NetInv, Answering, IsAnswer
<1>3. PageInv'
  BY DEF IInv, PageInv, Answering, IsAnswer
<1>4. ~strayed' => RequestInv'
  BY DEF IInv, RequestInv, ConnectionInv, Answering, IsAnswer, IsLogin
<1>5. ~strayed' => ConnectionInv'
  BY DEF IInv, RequestInv, ConnectionInv, Answering, IsAnswer, IsLogin
<1>6. NoStalePointer'
  BY DEF IInv, NoStalePointer
<1>7. QED
  BY <1>1, <1>2, <1>3, <1>4, <1>5, <1>6 DEF IInv

LEMMA StepConnectionEnds ==
  ASSUME IInv, ConnectionEnds
  PROVE  IInv'
<1>0. /\ server' \in ServerState /\ server'.is = "idle"
      /\ inbox' = <<>> /\ DOMAIN inbox' = {} /\ inbox' \in Seq(Message)
      /\ boxes' \in Seq({"offline", "closed"})
  BY DEF IInv, TypeOK, ConnectionEnds, Disconnected, ServerState
<1> USE DEF ConnectionEnds, Disconnected, Hinder, uiVars, dataVars
<1>1. TypeOK'
  BY <1>0 DEF IInv, TypeOK
<1>2. NetInv'
  BY <1>0 DEF IInv, NetInv, Answering, IsAnswer
<1>3. PageInv'
  BY <1>0 DEF IInv, PageInv, Answering, IsAnswer
<1>4. ~strayed' => RequestInv'
  BY <1>0 DEF IInv, RequestInv, ConnectionInv, Answering, IsAnswer, IsLogin
<1>5. ~strayed' => ConnectionInv'
  BY <1>0 DEF IInv, RequestInv, ConnectionInv, Answering, IsAnswer, IsLogin
<1>6. NoStalePointer'
  BY DEF IInv, NoStalePointer
<1>7. QED
  BY <1>1, <1>2, <1>3, <1>4, <1>5, <1>6 DEF IInv

LEMMA StepClosingEnds ==
  ASSUME IInv, ClosingEnds
  PROVE  IInv'
<1>0. /\ server' \in ServerState /\ server'.is = "idle"
      /\ inbox' = <<>> /\ DOMAIN inbox' = {} /\ inbox' \in Seq(Message)
      /\ boxes' \in Seq({"offline", "closed"})
  BY DEF IInv, TypeOK, ClosingEnds, Disconnected, ServerState
<1> USE DEF ClosingEnds, Disconnected, Hinder, uiVars, dataVars
<1>1. TypeOK'
  BY <1>0 DEF IInv, TypeOK
<1>2. NetInv'
  BY <1>0 DEF IInv, NetInv, Answering, IsAnswer
<1>3. PageInv'
  BY <1>0 DEF IInv, PageInv, Answering, IsAnswer
<1>4. ~strayed' => RequestInv'
  BY <1>0 DEF IInv, RequestInv, ConnectionInv, Answering, IsAnswer, IsLogin
<1>5. ~strayed' => ConnectionInv'
  BY <1>0 DEF IInv, RequestInv, ConnectionInv, Answering, IsAnswer, IsLogin
<1>6. NoStalePointer'
  BY DEF IInv, NoStalePointer
<1>7. QED
  BY <1>1, <1>2, <1>3, <1>4, <1>5, <1>6 DEF IInv

LEMMA StepDismissOpen ==
  ASSUME IInv, DismissOpen
  PROVE  IInv'
<1>0. /\ server' \in ServerState /\ server'.is = "idle"
      /\ inbox' = <<>> /\ DOMAIN inbox' = {} /\ inbox' \in Seq(Message)
      /\ boxes' \in Seq({"offline", "closed"})
  BY DEF IInv, TypeOK, DismissOpen, Front, Disconnected, ServerState
<1> USE DEF DismissOpen, Disconnected, Hinder, uiVars, dataVars
<1>1. TypeOK'
  BY <1>0 DEF IInv, TypeOK
<1>2. NetInv'
  BY <1>0 DEF IInv, NetInv, Answering, IsAnswer
<1>3. PageInv'
  BY <1>0 DEF IInv, PageInv, Answering, IsAnswer
<1>4. ~strayed' => RequestInv'
  BY <1>0 DEF IInv, RequestInv, ConnectionInv, Answering, IsAnswer, IsLogin
<1>5. ~strayed' => ConnectionInv'
  BY <1>0 DEF IInv, RequestInv, ConnectionInv, Answering, IsAnswer, IsLogin
<1>6. NoStalePointer'
  BY DEF IInv, NoStalePointer
<1>7. QED
  BY <1>1, <1>2, <1>3, <1>4, <1>5, <1>6 DEF IInv

LEMMA StepDismiss ==
  ASSUME IInv, Dismiss
  PROVE  IInv'
<1>0. boxes' \in Seq({"offline", "closed"})
  BY DEF IInv, TypeOK, Dismiss, Front
<1> USE DEF Dismiss, OfflineLogin, Show, Account, Hinder, uiVars
<1>1. TypeOK'
  BY <1>0 DEF IInv, TypeOK
<1>2. NetInv'
  BY DEF IInv, NetInv, Answering, IsAnswer
<1>3. PageInv'
  BY DEF IInv, PageInv, Answering, IsAnswer
<1>4. ~strayed' => RequestInv'
  BY DEF IInv, RequestInv, ConnectionInv, Answering, IsAnswer, IsLogin
<1>5. ~strayed' => ConnectionInv'
  BY DEF IInv, TypeOK, NetInv, PageInv, RequestInv, ConnectionInv,
     Answering, IsAnswer, IsLogin, Forms
<1>6. NoStalePointer'
  BY DEF IInv, TypeOK, NoStalePointer, PageInv, ConnectionInv, Forms
<1>7. QED
  BY <1>1, <1>2, <1>3, <1>4, <1>5, <1>6 DEF IInv

LEMMA StepAccept ==
  ASSUME IInv, Accept
  PROVE  IInv'
<1>0. /\ server \in ServerState /\ server.is = "asked" /\ server.uid \in User
      /\ server' \in ServerState /\ server'.is = "entered" /\ server'.uid = server.uid
  BY DEF IInv, TypeOK, Accept, ServerState, Account
<1> USE DEF Accept, uiVars, dataVars, noteVars
<1>1. TypeOK'
  BY <1>0 DEF IInv, TypeOK
<1>2. NetInv'
  BY <1>0 DEF IInv, NetInv, Answering, IsAnswer
<1>3. PageInv'
  BY <1>0 DEF IInv, PageInv, Answering, IsAnswer
<1>4. ~strayed' => RequestInv'
  BY <1>0 DEF IInv, RequestInv, ConnectionInv, Answering, IsAnswer, IsLogin
<1>5. ~strayed' => ConnectionInv'
  BY <1>0 DEF IInv, RequestInv, ConnectionInv, Answering, IsAnswer, IsLogin
<1>6. NoStalePointer'
  BY DEF IInv, NoStalePointer
<1>7. QED
  BY <1>1, <1>2, <1>3, <1>4, <1>5, <1>6 DEF IInv

LEMMA StepWelcome ==
  ASSUME IInv, Welcome
  PROVE  IInv'
<1>0. /\ server.is = "entered" /\ server.uid \in User
      /\ server' \in ServerState /\ server'.is = "in" /\ server'.uid = server.uid
  BY DEF IInv, TypeOK, NetInv, Welcome, ServerState
<1>8. PICK m : m = [is |-> "welcome", uid |-> server.uid]
  OBVIOUS
<1>9. /\ inbox' \in Seq(Message)
      /\ \A j \in DOMAIN inbox' :
           \/ j \in DOMAIN inbox /\ inbox'[j] = inbox[j]
           \/ j = Len(inbox) + 1 /\ inbox'[j].is = "welcome" /\ inbox'[j].uid = server.uid
  <2>1. m \in Message
    BY <1>0, <1>8 DEF Message
  <2>2. QED
    BY <1>8, <2>1, Sent DEF IInv, Welcome
<1> USE DEF Welcome, uiVars, dataVars, noteVars
<1>1. TypeOK'
  BY <1>0, <1>9 DEF IInv, TypeOK
<1>2. NetInv'
  BY <1>0, <1>9 DEF IInv, NetInv, Answering, IsAnswer
<1>3. PageInv'
  BY <1>0, <1>9 DEF IInv, PageInv, Answering, IsAnswer
<1>4. ~strayed' => RequestInv'
  BY <1>0, <1>9 DEF IInv, RequestInv, ConnectionInv, Answering, IsAnswer, IsLogin
<1>5. ~strayed' => ConnectionInv'
  BY <1>0, <1>9 DEF IInv, RequestInv, ConnectionInv, Answering, IsAnswer, IsLogin
<1>6. NoStalePointer'
  BY DEF IInv, NoStalePointer
<1>7. QED
  BY <1>1, <1>2, <1>3, <1>4, <1>5, <1>6 DEF IInv

LEMMA StepRefuse ==
  ASSUME IInv, Refuse
  PROVE  IInv'
<1>0. server.is = "asked" /\ server' \in ServerState /\ server'.is = "idle"
  BY DEF IInv, TypeOK, Refuse, ServerState
<1>8. PICK kind \in {"refusal", "noise"} : inbox' = Append(inbox, [is |-> kind])
  BY DEF Refuse
<1>9. /\ inbox' \in Seq(Message)
      /\ \A j \in DOMAIN inbox' :
           \/ j \in DOMAIN inbox /\ inbox'[j] = inbox[j]
           \/ j = Len(inbox) + 1 /\ inbox'[j].is = kind
  <2>1. [is |-> kind] \in Message
    BY DEF Message
  <2>2. QED
    BY <1>8, <2>1, Sent DEF IInv
<1> USE DEF Refuse, uiVars, dataVars, noteVars
<1>1. TypeOK'
  BY <1>0, <1>9 DEF IInv, TypeOK
<1>2. NetInv'
  BY <1>0, <1>9 DEF IInv, NetInv, Answering, IsAnswer
<1>3. PageInv'
  BY <1>0, <1>9 DEF IInv, PageInv, Answering, IsAnswer
<1>4. ~strayed' => RequestInv'
  BY <1>0, <1>9 DEF IInv, RequestInv, ConnectionInv, Answering, IsAnswer, IsLogin
<1>5. ~strayed' => ConnectionInv'
  BY <1>0, <1>9 DEF IInv, RequestInv, ConnectionInv, Answering, IsAnswer, IsLogin
<1>6. NoStalePointer'
  BY DEF IInv, NoStalePointer
<1>7. QED
  BY <1>1, <1>2, <1>3, <1>4, <1>5, <1>6 DEF IInv

LEMMA StepKick ==
  ASSUME IInv, Kick
  PROVE  IInv'
<1>0. /\ server.is \in {"entered", "in"} /\ server.uid \in User
      /\ server' \in ServerState /\ server'.is = "kicked"
  BY DEF IInv, TypeOK, NetInv, Kick, ServerState
<1>9. /\ inbox' \in Seq(Message)
      /\ \A j \in DOMAIN inbox' :
           \/ j \in DOMAIN inbox /\ inbox'[j] = inbox[j]
           \/ inbox'[j].is = "offline"
           \/ /\ j = Len(inbox) + 2 /\ server.is = "entered"
              /\ inbox'[j].is = "welcome" /\ inbox'[j].uid = server.uid
  <2> DEFINE offline == [is |-> "offline"]
             welcome == [is |-> "welcome", uid |-> server.uid]
  <2>1. offline \in Message /\ welcome \in Message
    BY <1>0 DEF FirstIsRead, Message
  <2>2. inbox \in Seq(Message) /\ Len(inbox) \in Nat /\ DOMAIN inbox = 1 .. Len(inbox)
    BY DEF IInv, TypeOK
  <2>3. offline.is = "offline" /\ welcome.is = "welcome" /\ welcome.uid = server.uid
    OBVIOUS
  <2>4. inbox' = inbox \o <<offline>> \o (IF server.is = "in" THEN <<>> ELSE <<welcome>>)
    BY DEF Kick
  <2> HIDE DEF offline, welcome
  <2>5. CASE server.is = "in"
    <3>1. inbox' = Append(inbox, offline)
      BY <2>1, <2>2, <2>4, <2>5
    <3>2. QED
      BY <3>1, <2>1, <2>2, <2>3
  <2>6. CASE server.is = "entered"
    <3>1. inbox' = Append(Append(inbox, offline), welcome)
      <4>1. /\ Append(inbox, offline) \in Seq(Message)
            /\ inbox \o <<offline>> = Append(inbox, offline)
        BY <2>1, <2>2
      <4>2. \A s \in Seq(Message) : s \o <<welcome>> = Append(s, welcome)
        BY <2>1
      <4>3. QED
        BY <4>1, <4>2, <2>4, <2>6
    <3>2. QED
      BY <3>1, <2>1, <2>2, <2>3, <2>6
  <2>7. QED
    BY <1>0, <2>5, <2>6
<1> USE DEF Kick, uiVars, dataVars, noteVars
<1>1. TypeOK'
  BY <1>0, <1>9 DEF IInv, TypeOK
<1>2. NetInv'
  BY <1>0, <1>9 DEF IInv, NetInv, Answering, IsAnswer
<1>3. PageInv'
  BY <1>0, <1>9 DEF IInv, PageInv, Answering, IsAnswer
<1>4. ~strayed' => RequestInv'
  BY <1>0, <1>9 DEF IInv, RequestInv, ConnectionInv, Answering, IsAnswer, IsLogin
<1>5. ~strayed' => ConnectionInv'
  BY <1>0, <1>9 DEF IInv, RequestInv, ConnectionInv, Answering, IsAnswer, IsLogin
<1>6. NoStalePointer'
  BY DEF IInv, NoStalePointer
<1>7. QED
  BY <1>1, <1>2, <1>3, <1>4, <1>5, <1>6 DEF IInv

LEMMA StepReceiveWelcome ==
  ASSUME IInv, ReceiveWelcome
  PROVE  IInv'
<1>0. FirstIsRead("welcome")
  BY Read DEF ReceiveWelcome
<1>8. Head(inbox).uid \in User
  BY <1>0 DEF FirstIsRead, Message
<1> USE DEF FirstIsRead, ReceiveWelcome, Receive, Show, Account, noteVars
<1>1. TypeOK'
  BY <1>0, <1>8 DEF IInv, TypeOK
<1>2. NetInv'
  BY <1>0 DEF IInv, NetInv, Answering, IsAnswer
<1>3. PageInv'
  <2>1. page # "chat" /\ ~Answering /\ info = Nobody /\ lists = {}
    BY <1>0 DEF IInv, NetInv, PageInv, Answering, IsAnswer
  <2>2. \A j \in DOMAIN inbox' : ~IsAnswer(inbox'[j])
    BY <1>0 DEF IInv, NetInv, IsAnswer
  <2>3. /\ page' = "chat" /\ chatDlg' = "live" /\ socket' = "open" /\ server' = server
        /\ info' = Head(inbox).uid /\ lists' = lists \cup {Head(inbox).uid}
    BY <1>0 DEF ReceiveWelcome, Show
  <2>4. info' # Nobody /\ lists' = {info'} \ {Nobody}
    BY <2>1, <2>3, <1>8, ClientAssumption
  <2>5. QED
    BY <2>1, <2>2, <2>3, <2>4 DEF PageInv, Answering
<1>4. ~strayed' => RequestInv'
  BY <1>0 DEF IInv, RequestInv, ConnectionInv, Answering, IsAnswer, IsLogin
<1>5. ~strayed' => ConnectionInv'
  BY <1>0 DEF IInv, TypeOK, NetInv, PageInv, RequestInv, ConnectionInv,
     Answering, IsAnswer, IsLogin, Forms
<1>6. NoStalePointer'
  BY <1>0 DEF IInv, TypeOK, NoStalePointer, PageInv, ConnectionInv, IsAnswer
<1>7. QED
  BY <1>1, <1>2, <1>3, <1>4, <1>5, <1>6 DEF IInv

LEMMA StepReceiveRefusal ==
  ASSUME IInv, ReceiveRefusal
  PROVE  IInv'
<1>0. FirstIsRead("refusal")
  BY Read DEF ReceiveRefusal
<1> USE DEF FirstIsRead, ReceiveRefusal, Receive, dataVars, noteVars
<1>1. TypeOK'
  BY <1>0 DEF IInv, TypeOK
<1>2. NetInv'
  BY <1>0 DEF IInv, NetInv, Answering, IsAnswer
<1>3. PageInv'
  BY <1>0 DEF IInv, PageInv, Answering, IsAnswer
<1>4. ~strayed' => RequestInv'
  BY <1>0 DEF IInv, RequestInv, ConnectionInv, Answering, IsAnswer, IsLogin
<1>5. ~strayed' => ConnectionInv'
  BY <1>0 DEF IInv, TypeOK, NetInv, PageInv, RequestInv, ConnectionInv,
     Answering, IsAnswer, IsLogin, Forms
<1>6. NoStalePointer'
  BY DEF IInv, NoStalePointer
<1>7. QED
  BY <1>1, <1>2, <1>3, <1>4, <1>5, <1>6 DEF IInv

LEMMA StepReceiveNoise ==
  ASSUME IInv, ReceiveNoise
  PROVE  IInv'
<1>0. FirstIsRead("noise")
  BY Read DEF ReceiveNoise
<1> USE DEF FirstIsRead, ReceiveNoise, Receive, Hinder, uiVars, dataVars
<1>1. TypeOK'
  BY <1>0 DEF IInv, TypeOK
<1>2. NetInv'
  BY <1>0 DEF IInv, NetInv, Answering, IsAnswer
<1>3. PageInv'
  BY <1>0 DEF IInv, PageInv, Answering, IsAnswer
<1>4. ~strayed' => RequestInv'
  BY <1>0 DEF IInv, RequestInv, ConnectionInv, Answering, IsAnswer, IsLogin
<1>5. ~strayed' => ConnectionInv'
  BY <1>0 DEF IInv, RequestInv, ConnectionInv, Answering, IsAnswer, IsLogin
<1>6. NoStalePointer'
  BY DEF IInv, NoStalePointer
<1>7. QED
  BY <1>1, <1>2, <1>3, <1>4, <1>5, <1>6 DEF IInv

LEMMA StepReceiveOffline ==
  ASSUME IInv, ReceiveOffline
  PROVE  IInv'
<1>0. FirstIsRead("offline")
  BY Read DEF ReceiveOffline
<1>8. boxes' \in Seq({"offline", "closed"})
  BY DEF IInv, TypeOK, ReceiveOffline
<1> USE DEF FirstIsRead, ReceiveOffline, Receive, Hinder, uiVars, dataVars
<1>1. TypeOK'
  BY <1>0, <1>8 DEF IInv, TypeOK
<1>2. NetInv'
  BY <1>0 DEF IInv, NetInv, Answering, IsAnswer
<1>3. PageInv'
  BY <1>0, <1>8 DEF IInv, PageInv, Answering, IsAnswer
<1>4. ~strayed' => RequestInv'
  BY <1>0 DEF IInv, RequestInv, ConnectionInv, Answering, IsAnswer, IsLogin
<1>5. ~strayed' => ConnectionInv'
  BY <1>0 DEF IInv, RequestInv, ConnectionInv, Answering, IsAnswer, IsLogin
<1>6. NoStalePointer'
  BY DEF IInv, NoStalePointer
<1>7. QED
  BY <1>1, <1>2, <1>3, <1>4, <1>5, <1>6 DEF IInv

LEMMA StepUser == IInv /\ UserNext => IInv'
<1> SUFFICES ASSUME IInv, UserNext
             PROVE  IInv'
  OBVIOUS
<1>1. ASSUME NEW u \in User, ClickLogin(u) \/ CloseWindow(u) \/ SendFromWindow(u)
      PROVE  IInv'
  BY <1>1, StepClickLogin, StepCloseWindow, StepSendFromWindow
<1>2. CASE LeaveLogin \/ ReturnToLogin \/ PopOut
  BY <1>2, StepLeaveLogin, StepReturnToLogin, StepPopOut
<1>3. CASE SureRegister \/ SureReset \/ CodeRegister \/ CodeReset
  <2>1. PICK p \in Forms, id \in {"code", "form"} : Submit(p, id) /\ busy' \in {busy, TRUE}
    BY <1>3 DEF SureRegister, SureReset, CodeRegister, CodeReset, Forms
  <2>2. QED
    BY <2>1, StepSubmit
<1>4. CASE DismissOpen \/ Dismiss
  BY <1>4, StepDismissOpen, StepDismiss
<1>5. QED
  BY <1>1, <1>2, <1>3, <1>4 DEF UserNext

LEMMA StepAnswer ==
  ASSUME IInv, NEW i, Answer(i)
  PROVE  IInv'
<1>1. CASE AnswerUnheard(i) \/ LoginRefused(i) \/ LoginUnread(i) \/ LoginGranted(i)
  BY <1>1, StepAnswerUnheard, StepLoginRefused, StepLoginUnread, StepLoginGranted
<1>2. CASE RegUnread(i) \/ ResetUnread(i) \/ RegHandled(i) \/ ResetHandled(i)
  <2>1. PICK p \in Forms :
          FormAnswered(p, i) /\ busy' \in {busy, FALSE} /\ leaving' \in {leaving, TRUE}
    BY <1>2 DEF RegUnread, ResetUnread, RegHandled, ResetHandled, Forms, IInv, TypeOK
  <2>2. QED
    BY <2>1, StepFormAnswered
<1>3. QED
  BY <1>1, <1>2 DEF Answer

LEMMA StepIInv == IInv /\ [Next]_vars => IInv'
<1> SUFFICES ASSUME IInv, [Next]_vars
             PROVE  IInv'
  OBVIOUS
<1>1. CASE UNCHANGED vars
  <2>1. TypeOK' /\ NetInv' /\ PageInv' /\ NoStalePointer'
    BY <1>1 DEF IInv, TypeOK, NetInv, PageInv, NoStalePointer, Answering, IsAnswer,
                vars, uiVars, netVars, dataVars, noteVars
  <2>2. ~strayed' => RequestInv' /\ ConnectionInv'
    BY <1>1 DEF IInv, RequestInv, ConnectionInv, Answering, IsAnswer, IsLogin,
                vars, uiVars, netVars, dataVars, noteVars
  <2>3. QED
    BY <2>1, <2>2 DEF IInv
<1>2. CASE UserNext
  BY <1>2, StepUser
<1>3. CASE CountedDown
  BY <1>3, StepCountedDown
<1>4. ASSUME NEW i \in 1 .. MaxHttp, Answer(i)
      PROVE  IInv'
  BY <1>4, StepAnswer
<1>5. CASE ConnectNext \/ ConnectionEnds
  BY <1>5, StepConnected, StepConnectFails, StepNetworkError, StepClosingEnds, StepConnectionEnds
     DEF ConnectNext
<1>6. CASE ServerNext
  BY <1>6, StepAccept, StepWelcome, StepRefuse, StepKick DEF ServerNext
<1>7. CASE ReceiveNext
  BY <1>7, StepReceiveWelcome, StepReceiveRefusal, StepReceiveNoise, StepReceiveOffline
     DEF ReceiveNext
<1>8. QED
  BY <1>1, <1>2, <1>3, <1>4, <1>5, <1>6, <1>7 DEF Next

LEMMA IInvHolds == Spec => []IInv
BY InitIInv, StepIInv, PTL DEF Spec

(* Only the last box that is dismissed leaves none.                        *)
LEMMA LastBoxGoes ==
  ASSUME IInv, [Next]_vars, boxes # <<>>, boxes' = <<>>
  PROVE  Dismiss
<1>1. boxes \in Seq({"offline", "closed"})
  BY DEF IInv, TypeOK
<1>2. ASSUME NEW s \in Seq({"offline", "closed"}), NEW box \in {"offline", "closed"}
      PROVE  Append(s, box) # <<>>
  OBVIOUS
<1>3. CASE UNCHANGED vars
  BY <1>3 DEF vars
<1>4. CASE UserNext
  <2>1. ~DismissOpen
    <3>1. Front(boxes) \in Seq({"offline", "closed"})
      BY <1>1 DEF Front
    <3>2. QED
      BY <3>1, <1>2 DEF DismissOpen
  <2>2. QED
    BY <1>4, <2>1 DEF UserNext, ClickLogin, CloseWindow, SendFromWindow, LeaveLogin,
         ReturnToLogin, PopOut, SureRegister, SureReset, CodeRegister, CodeReset, Submit
<1>5. CASE CountedDown
  BY <1>5 DEF CountedDown
<1>6. ASSUME NEW i \in 1 .. MaxHttp, Answer(i)
      PROVE  FALSE
  BY <1>6 DEF Answer, AnswerUnheard, LoginRefused, LoginUnread, LoginGranted, RegUnread,
       ResetUnread, RegHandled, ResetHandled, FormAnswered
<1>7. CASE ConnectNext \/ ConnectionEnds
  BY <1>1, <1>2, <1>7 DEF ConnectNext, ConnectionEnds, Connected, ConnectFails, NetworkError,
       ClosingEnds
<1>8. CASE ServerNext
  BY <1>8 DEF ServerNext, Accept, Welcome, Refuse, Kick
<1>9. CASE ReceiveNext
  BY <1>1, <1>2, <1>9 DEF ReceiveNext, ReceiveWelcome, ReceiveRefusal, ReceiveNoise,
       ReceiveOffline
<1>10. QED
  BY <1>3, <1>4, <1>5, <1>6, <1>7, <1>8, <1>9 DEF Next

-----------------------------------------------------------------------------
(* The dialogs, the requests, the connection and UserMgr keep their types. *)
THEOREM TypeCorrect == Spec => []TypeOK
<1>1. IInv => TypeOK
  BY DEF IInv
<1>2. QED
  BY <1>1, IInvHolds, PTL

(* The account data is that of the chat page, and the chat page that of    *)
(* the account last asked for, for any number of accounts and requests.    *)
THEOREM AccountDataHolds == Spec => []AccountData
<1>1. IInv => AccountData
  BY DEF IInv, PageInv, ConnectionInv, AccountData
<1>2. QED
  BY <1>1, IInvHolds, PTL

(* No dialog that is gone is used unless the login dialog was left in the  *)
(* middle of a login, or a chat page outlives its chat dialog.             *)
THEOREM NoStalePointerHolds == Spec => []NoStalePointer
<1>1. IInv => NoStalePointer
  BY DEF IInv
<1>2. QED
  BY <1>1, IInvHolds, PTL

(* A session that was ended is over when its last message box is.          *)
THEOREM OfflineIsOfflineHolds == Spec => OfflineIsOffline
<1>1. IInv /\ [Next]_vars =>
        (boxes # <<>> /\ boxes' = <<>> => info' = Nobody /\ page' # "chat" /\ socket' # "open")
  <2> SUFFICES ASSUME IInv, [Next]_vars, boxes # <<>>, boxes' = <<>>
               PROVE  info' = Nobody /\ page' # "chat" /\ socket' # "open"
    OBVIOUS
  <2>1. Dismiss
    BY LastBoxGoes
  <2>2. socket' # "open"
    BY <2>1 DEF Dismiss
  <2>3. info' = Nobody /\ page' # "chat"
    BY <2>1 DEF Dismiss, OfflineLogin, Show, IInv, PageInv, uiVars
  <2>4. QED
    BY <2>2, <2>3
<1>2. QED
  BY <1>1, IInvHolds, PTL DEF Spec, OfflineIsOffline
=============================================================================
