------------------------------ MODULE Framing ------------------------------
(***************************************************************************)
(* One connection between a client and a chat session, as bytes.           *)
(*                                                                         *)
(* A message travels as a head (its id and the length of its body) and its *)
(* body.  The session writes the messages of its send queue (SendQueue)    *)
(* and reads heads and bodies of the exact length asked for                *)
(* (Session::AsyncReadHead, AsyncReadBody).  The client appends whatever   *)
(* has arrived to _buffer and takes messages off it (TcpMgr).              *)
(*                                                                         *)
(* The unit is a cell: two bytes of the code.  A head is an id cell and a  *)
(* length cell, a length is a number of cells, and every cell of a body is *)
(* Text, the number that two bytes of JSON make when read as one.          *)
(***************************************************************************)
EXTENDS SendQueue

CONSTANTS
  BodyLen(_),    \* length of the body of a message of the session
  Text,          \* a cell of a body
  SaidLen,       \* lengths of the bodies of the client's messages
  MaxSaid,       \* bound on the messages of the client
  MaxLength,     \* MAX_LENGTH
  ShortMax       \* the largest short: lengths above it are negative

(* Two bytes make a number.  The client writes a length as such a number,  *)
(* the session as a short; ids are positive shorts.                        *)
ASSUME FramingAssumption ==
  /\ ShortMax \in Nat /\ MaxLength \in Nat /\ MaxSaid \in 0 .. ShortMax
  /\ Text \in Nat
  /\ SaidLen \subseteq 0 .. (2 * ShortMax + 1)
  /\ \A m \in Msg : BodyLen(m) \in 0 .. ShortMax

VARIABLES
  down,       \* cells on their way to the client
  client,     \* TcpMgr: _buffer, _b_recv_pending, _message_id, _message_len,
              \* and how far a readyRead has come
  heard,      \* messages handed to handleMsg
  muddled,    \* one readyRead has found two heads
  said,       \* messages the client has sent
  up,         \* cells on their way to the session
  reader,     \* the asynchronous read: what for, and what it has so far
  posted,     \* messages handed to the LogicSystem
  inserted,   \* HandleAccept has put the session into sessions_
  valid,      \* the session is in sessions_
  destroyed   \* the session object is gone

clientVars == <<client, heard, muddled>>
readVars == <<said, up, reader, posted>>
memberVars == <<inserted, valid, destroyed>>
fvars == <<vars, down, clientVars, readVars, memberVars>>

HeadLen == 2   \* HEAD_TOTAL_LEN

MinOf(a, b) == IF a < b THEN a ELSE b
Drop(s, n) == SubSeq(s, n + 1, Len(s))
Take(s, n) == SubSeq(s, 1, MinOf(n, Len(s)))
Body(n) == [i \in 1 .. n |-> Text]

(* SendNode on one side, slot_send_data on the other.                      *)
Frame(id, n) == <<id, n>> \o Body(n)

FramingInit ==
  /\ Init
  /\ down = <<>>
  /\ client = [buf |-> <<>>, pending |-> FALSE, id |-> 0, len |-> 0,
               at |-> "wait", pos |-> 0, heads |-> 0]
  /\ heard = <<>>
  /\ muddled = FALSE
  /\ said = <<>>
  /\ up = <<>>
  /\ reader = [for |-> "head", got |-> <<>>, id |-> 0, len |-> HeadLen]
  /\ posted = <<>>
  /\ inserted = FALSE
  /\ valid = FALSE
  /\ destroyed = FALSE

-----------------------------------------------------------------------------
(* The session's writes, as cells.                                         *)
Sends ==
  /\ ~destroyed
  /\ Send \/ SendRefused \/ PeerGone
  /\ UNCHANGED <<down, clientVars, readVars, memberVars>>

WriteHandled ==
  /\ HandleError \/ Pop
  /\ UNCHANGED <<down, clientVars, readVars, memberVars>>

(* What has gone out of a message whose write then fails is left out: it   *)
(* is the last the connection carries and never makes a whole message.     *)
WriteAll ==
  /\ WriteDone
  /\ down' = down \o Frame(Head(sendQue), BodyLen(Head(sendQue)))
  /\ UNCHANGED <<clientVars, readVars, memberVars>>

WriteBreaks ==
  /\ WriteFailed
  /\ UNCHANGED <<down, clientVars, readVars, memberVars>>

(* DealExceptionSession ends with CleanSession.                            *)
DealWithWrite ==
  /\ DealException
  /\ valid' = FALSE
  /\ UNCHANGED <<down, clientVars, readVars, inserted, destroyed>>

-----------------------------------------------------------------------------
(* The session's reads.                                                    *)
(* A length that does not fit a short is read as a negative number.        *)
Short(n) == IF n > ShortMax THEN n - 2 * (ShortMax + 1) ELSE n

Reading == reader.for # "nothing" /\ ~closed /\ ~destroyed /\ pc = "loop"

(* The sizes async_read_some may come back with: it asks for what is       *)
(* missing, and an empty body needs no data.                               *)
Missing == reader.len - Len(reader.got)

(* Variant: the read asks for all the data there is.                       *)
ChunksGreedy == IF Missing = 0 THEN {0} ELSE 1 .. Len(up)

Chunks == IF Missing = 0 THEN {0} ELSE 1 .. MinOf(Len(up), Missing)

(* asyncReadLen: the read has brought n cells and all that was missing.    *)
Filled(n) == Len(reader.got) + n >= reader.len
Got(n) == reader.got \o Take(up, n)

Part ==
  /\ Reading
  /\ \E n \in Chunks :
       /\ ~Filled(n)
       /\ reader' = [reader EXCEPT !.got = Got(n)]
       /\ up' = Drop(up, n)
  /\ UNCHANGED <<vars, down, clientVars, said, posted, memberVars>>

Stop == reader' = [reader EXCEPT !.for = "nothing"]

(* A read for a session that is not in sessions_: ShutDownWrite, and       *)
(* nobody reads on.                                                        *)
ReadInvalid ==
  /\ Reading
  /\ ~valid
  /\ \E n \in Chunks : Filled(n) /\ up' = Drop(up, n)
  /\ Stop
  /\ open' = FALSE
  /\ UNCHANGED <<calls, sendQue, write, pc, closed, deals, accepted, wire,
                 down, clientVars, said, posted, memberVars>>

ReadHead(n) ==
  /\ Reading
  /\ valid
  /\ reader.for = "head"
  /\ n \in Chunks
  /\ Filled(n)
  /\ up' = Drop(up, n)

HeadId(n) == Short(Got(n)[1])
HeadLength(n) == Short(Got(n)[2])

(* The id or the length is too large.                                      *)
TooLarge(n) == HeadId(n) > MaxLength \/ HeadLength(n) > MaxLength

(* CleanSession, without Close.                                            *)
RejectHead ==
  /\ \E n \in 1 .. HeadLen : ReadHead(n) /\ TooLarge(n)
  /\ Stop
  /\ valid' = FALSE
  /\ UNCHANGED <<vars, down, clientVars, said, posted, inserted, destroyed>>

(* RecvNode of a negative length throws; the handler logs the exception    *)
(* and the session stays in sessions_ without a read.                      *)
HeadThrows ==
  /\ \E n \in 1 .. HeadLen : ReadHead(n) /\ ~TooLarge(n) /\ HeadLength(n) < 0
  /\ Stop
  /\ UNCHANGED <<vars, down, clientVars, said, posted, memberVars>>

TakeHead ==
  /\ \E n \in 1 .. HeadLen :
       /\ ReadHead(n)
       /\ ~TooLarge(n)
       /\ HeadLength(n) >= 0
       /\ reader' = [for |-> "body", got |-> <<>>, id |-> HeadId(n),
                     len |-> HeadLength(n)]
  /\ UNCHANGED <<vars, down, clientVars, said, posted, memberVars>>

(* Variant: the next head is not asked for.                                *)
TakeBodyOnly ==
  /\ Reading
  /\ valid
  /\ reader.for = "body"
  /\ \E n \in Chunks :
       /\ Filled(n)
       /\ up' = Drop(up, n)
       /\ posted' = Append(posted, [id |-> reader.id, body |-> Got(n)])
  /\ reader' = [for |-> "answer", got |-> <<>>, id |-> 0, len |-> HeadLen]
  /\ UNCHANGED <<vars, down, clientVars, said, memberVars>>

(* PostMsgToQue, and the next head.                                        *)
TakeBody ==
  /\ Reading
  /\ valid
  /\ reader.for = "body"
  /\ \E n \in Chunks :
       /\ Filled(n)
       /\ up' = Drop(up, n)
       /\ posted' = Append(posted, [id |-> reader.id, body |-> Got(n)])
  /\ reader' = [for |-> "head", got |-> <<>>, id |-> 0, len |-> HeadLen]
  /\ UNCHANGED <<vars, down, clientVars, said, memberVars>>

(* The socket is closed or the peer has gone: Close, and CleanSession at   *)
(* the end of DealExceptionSession.                                        *)
ReadError ==
  /\ reader.for # "nothing"
  /\ ~open
  /\ ~destroyed
  /\ pc = "loop"
  /\ Stop
  /\ closed' = TRUE
  /\ valid' = FALSE
  /\ UNCHANGED <<calls, sendQue, write, pc, open, deals, accepted, wire,
                 down, clientVars, said, up, posted, inserted, destroyed>>

-----------------------------------------------------------------------------
(* The session in sessions_.  HandleAccept starts the read first.          *)
Insert ==
  /\ ~inserted
  /\ inserted' = TRUE
  /\ valid' = TRUE
  /\ UNCHANGED <<vars, down, clientVars, readVars, destroyed>>

(* CleanSession by a later login of the user, or at the end of what the    *)
(* timer does with a session it has closed.                                *)
Remove ==
  /\ valid
  /\ valid' = FALSE
  /\ UNCHANGED <<vars, down, clientVars, readVars, inserted, destroyed>>

(* on_timer: no heartbeat has come from a session that is not read.        *)
Expire ==
  /\ valid
  /\ ~closed
  /\ CloseSocket
  /\ UNCHANGED <<calls, sendQue, write, pc, deals, accepted, wire,
                 down, clientVars, readVars, memberVars>>

(* Nobody refers to the session any more: neither sessions_ nor a read nor *)
(* a write.  Its socket closes with it.                                    *)
Destroy ==
  /\ ~destroyed
  /\ inserted /\ ~valid
  /\ reader.for = "nothing"
  /\ sendQue = <<>> /\ write = "none" /\ pc = "loop"
  /\ destroyed' = TRUE
  /\ open' = FALSE
  /\ UNCHANGED <<calls, sendQue, write, pc, closed, deals, accepted, wire,
                 down, clientVars, readVars, inserted, valid>>

-----------------------------------------------------------------------------
(* The client.                                                             *)
(* slot_send_data.                                                         *)
Say ==
  /\ open
  /\ Len(said) < MaxSaid
  /\ \E n \in SaidLen :
       /\ said' = Append(said, [id |-> Len(said) + 1, body |-> Body(n)])
       /\ up' = up \o Frame(Len(said) + 1, n)
  /\ UNCHANGED <<vars, down, clientVars, reader, posted, memberVars>>

(* A readyRead appends what has arrived to _buffer and opens a QDataStream *)
(* over it; then it takes heads and bodies off _buffer in turn.            *)
ReadyRead ==
  /\ client.at = "wait"
  /\ \E n \in 1 .. Len(down) :
       /\ client' = [client EXCEPT !.buf = @ \o Take(down, n),
                                   !.pos = 0, !.heads = 0,
                                   !.at = IF client.pending THEN "body" ELSE "head"]
       /\ down' = Drop(down, n)
  /\ UNCHANGED <<vars, heard, muddled, readVars, memberVars>>

(* The stream reads from _buffer at its position, and 0 beyond the end.    *)
(* The position stays where it is when _buffer is replaced by its rest.    *)
Streamed(i) ==
  IF client.pos + i <= Len(client.buf) THEN client.buf[client.pos + i] ELSE 0

ParseHead ==
  /\ client.at = "head"
  /\ Len(client.buf) >= HeadLen
  /\ client' = [client EXCEPT !.id = Streamed(1), !.len = Streamed(2),
                              !.pos = MinOf(Len(client.buf), @ + HeadLen),
                              !.buf = Drop(@, HeadLen),
                              !.heads = @ + 1,
                              !.at = "body"]
  /\ muddled' = (muddled \/ client.heads > 0)
  /\ UNCHANGED <<vars, down, heard, readVars, memberVars>>

(* Variant: the flag is left set.                                          *)
ParseBodyPending ==
  /\ client.at = "body"
  /\ Len(client.buf) >= client.len
  /\ heard' = Append(heard, [id |-> client.id, body |-> Take(client.buf, client.len)])
  /\ client' = [client EXCEPT !.buf = Drop(@, client.len), !.at = "head"]
  /\ UNCHANGED <<vars, down, muddled, readVars, memberVars>>

(* handleMsg, with the first bytes of _buffer as the body.                 *)
ParseBody ==
  /\ client.at = "body"
  /\ Len(client.buf) >= client.len
  /\ heard' = Append(heard, [id |-> client.id, body |-> Take(client.buf, client.len)])
  /\ client' = [client EXCEPT !.buf = Drop(@, client.len),
                              !.pending = FALSE, !.at = "head"]
  /\ UNCHANGED <<vars, down, muddled, readVars, memberVars>>

(* What is there is not enough for a head, or for the body.                *)
ParseWait ==
  /\ \/ client.at = "head" /\ Len(client.buf) < HeadLen
     \/ client.at = "body" /\ Len(client.buf) < client.len
  /\ client' = [client EXCEPT !.pending = @ \/ client.at = "body", !.at = "wait",
                              !.pos = 0, !.heads = 0]
  /\ UNCHANGED <<vars, down, heard, muddled, readVars, memberVars>>

-----------------------------------------------------------------------------
SessionReads ==
  Part \/ ReadInvalid \/ RejectHead \/ HeadThrows \/ TakeHead \/ TakeBody
    \/ ReadError

ClientReads == ReadyRead \/ ParseHead \/ ParseBody \/ ParseWait

FramingNext ==
  \/ Sends \/ WriteHandled \/ WriteAll \/ WriteBreaks \/ DealWithWrite
  \/ SessionReads
  \/ Insert \/ Remove \/ Expire \/ Destroy
  \/ Say \/ ClientReads

FramingSpec == FramingInit /\ [][FramingNext]_fvars

(* The io thread runs the handlers of what has completed, the network      *)
(* delivers, the accept handler goes on, and the timer closes a session    *)
(* that is no longer read and so sends no heartbeat.                       *)
FramingFairSpec ==
  /\ FramingSpec
  /\ WF_fvars(WriteAll \/ WriteBreaks)
  /\ WF_fvars(DealWithWrite \/ WriteHandled)
  /\ WF_fvars(SessionReads)
  /\ WF_fvars(Insert)
  /\ WF_fvars(Expire /\ reader.for = "nothing")
  /\ WF_fvars(Destroy)
  /\ WF_fvars(ClientReads)

-----------------------------------------------------------------------------
Beginning(s, t) == Len(s) <= Len(t) /\ \A i \in 1 .. Len(s) : s[i] = t[i]

Sent == [i \in 1 .. Len(wire) |-> [id |-> wire[i], body |-> Body(BodyLen(wire[i]))]]

(* What the LogicSystem gets is what the client sent, message by message   *)
(* and in order, however TCP cuts the bytes, whatever is rejected on the   *)
(* way and whenever the session is removed (Session.cc:82-220, 259-292).   *)
PostedIsSaid == Beginning(posted, said)

(* What TcpMgr hands to its handlers is what the session sent, message by  *)
(* message and in order, as long as no readyRead finds two heads and the   *)
(* connection begins with an empty buffer (tcpmgr.cpp:13-56).              *)
HeardIsSentUntilMuddled == ~muddled => Beginning(heard, Sent)

(* What the comments of tcpmgr.cpp:24-35 say of it: the head parsed is the *)
(* first four bytes of _buffer, so that what is handled is what was sent.  *)
HeardIsSent == Beginning(heard, Sent)

(* Whatever arrives from the client is read, or the session stops reading; *)
(* no cell waits for ever behind a read that nobody has started.           *)
EverythingRead == up # <<>> ~> (up = <<>> \/ reader.for = "nothing")
=============================================================================
