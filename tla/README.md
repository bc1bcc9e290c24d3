# Verification of AnyoneChat

TLA+ models of AnyoneChat, the TLC runs that check them on small instances,
and proofs that TLAPS checks for every value of the constants. Paths below are
relative to the repository; `ChatServer/` stands for `src/Server/ChatServer/`
and so on.

## 1. The system

AnyoneChat is an instant messenger: a Qt client and a set of servers.

```
 client --HTTP--> GateServer --gRPC--> VarifyServer (codes by mail)
                      |------gRPC----> StatusServer (which chat server, token)
 client --TCP---> ChatServer 1..N <--gRPC--> ChatServer 1..N
 all servers ---> Redis (login state, locks, caches, codes)   MySQL (accounts, friends)
```

| component | state | operations | interacts through | what is hard | what makes it correct |
|---|---|---|---|---|---|
| **Login and session registry** (`ChatServer/LogicSystem.cc` LoginHandler, `ChatServer.cc`, `Session.cc`, `UserMgr.cc`, `ChatServiceImpl.cc` NotifyKickUser) | `sessions_`, `user_uid_`, `closed_`, `uid_to_session_`; Redis `uip_`, `usession_`, `logincount` | accept, login, kick, heartbeat scan, clean up after an error | Redis, kick RPC, three kinds of threads in each server | login and cleanup race on several servers; a cleanup of an old session must not erase a new login; crash; lost kick | one live login per user; the two Redis keys agree with it; a closed session leaves the registry |
| **Distributed lock** (`Common/DistLock.cc`, `RedisMgr.cc`) | Redis `lock:lock_<uid>` with a time to live | acquire with retry, release by script | Redis | expiry in a slow holder, lost replies, dead holders | exclusion within the time to live; only the holder releases; the key comes free |
| **Session write path** (`Session.cc` Send, HandleWrite) | `send_que_`, the write under way | send, write completion, close | any worker or gRPC thread calls Send; the io thread completes | errors between two writes; close by another thread | an ordered channel; one write at a time; nothing waits for ever |
| **Session read path** (`Session.cc` AsyncReadHead/Body) | receive nodes, heartbeat time | read head, read body, post to LogicSystem | LogicSystem queue | partial reads, bad lengths | every frame is posted once, in order |
| **LogicSystem queue** (`LogicSystem.cc` PostMsgToQue, DealMsg, Shutdown) | `msg_que_`, `stopped_`, mutex, condition variable | post, take a batch, shut down | io threads, workers, main | lost wake-ups, stop racing a sleep, several workers | every message is handled once; shutdown ends |
| **Routing and peer RPC** (`LogicSystem.cc` chat text and friend handlers, `ChatGrpcClient.cc`, `ChatServiceImpl.cc`) | none of its own | look up `uip_`, deliver here or by RPC | Redis, UserMgr, gRPC | stale location, peer gone | delivered to the receiver's session, or known lost |
| **Friends** (`LogicSystem.cc`, `Common/MysqlDao.cc`) | MySQL `friend`, `friend_apply` | apply, authorise, list | MySQL transactions, notices | one of two statements failing | friendship is symmetric; a notice means a friendship |
| **Accounts** (`GateServer/LogicSystem.cc`, `MysqlDao.cc`, `VarifyServer/server.go`) | MySQL `user`, `user_id`; Redis `code_`, `ubaseinfo_`, `nameinfo_` | send code, register, reset, log in | HTTP, gRPC, Redis, MySQL | concurrent registrations, stale caches, codes running out | unique names and mails; only with the right code |
| **StatusServer** (`StatusServer/StatusServiceImpl.cc`) | Redis `utoken_`, `logincount` (read) | choose a server, issue a token | gRPC, Redis | stale counts, overwritten tokens | the client holding the newest token can log in |
| **User info cache** (`ChatServer/LogicSystem.cc` GetBaseInfo, GetUserByUid, GetUserByName) | Redis `ubaseinfo_`, `nameinfo_` | read through Redis to MySQL, write back | Redis, MySQL | records that never expire beside a table that changes | the user found is the user asked for |
| **Connection pools** (`ChatGrpcClient.h`, `VerifyGrpcClient.h`, `redis.cc`, `mysql.cc`) | a queue of connections, their errors and ages | get, return, check, reconnect | every handler | waiting without limit, failed connections in use, a transaction left open | a connection is used by one caller; all come back, clean |
| **Start and stop** (`ChatServer/main.cc`, `AsioIOServicePool.cc`) | work guards, threads | signal handling, stop | all of the above | order of stopping, pending reads | stopping ends and leaves nothing behind |
| **Client framing** (`Client/AnyoneChat/tcpmgr.cpp`) | buffer, pending head | readyRead, send | the chat server's byte stream | several or partial frames in a read | same as the server's read path |
| **Client contacts and pages** (`usermgr.cpp`, `chatdialog.cpp`) | friends, applies, items, pages | handlers of notices, loading by pages | TcpMgr signals | notices before lists are loaded | an item and a page for each chat |
| **Client login** (`logindialog.cpp`, `mainwindow.cpp`, ...) | the current window, the login data | HTTP login, TCP connection, chat login, going offline | GateServer, ChatServer | late answers, reconnects | back at the login window after any failure |

Painting and input widgets, configuration and logging carry no protocol state
and are not modelled.

## 2. Modules

| module | models | role |
|---|---|---|
| `ChatLogin` | login, displacement, cleanup, timer and crash of N chat servers with Redis | detailed |
| `MCChatLogin` | small clusters for it: which sessions break, symmetry, the view | TLC only |
| `ChatLogin_proofs` | types, mutual exclusion, release of the lock, who is logged in where | proofs |
| `Lease` | what acquireLock and releaseLock promise their callers | abstract |
| `DistLock` | the Redis lock with time, which implements `Lease` | detailed |
| `OrderedChannel` | what Session::Send promises | abstract |
| `SendQueue` | the send queue of a session, which implements `OrderedChannel` | detailed |
| `LogicQueue`, `LogicQueue_proofs` | the LogicSystem queue with its condition variable | detailed, proofs |
| `Framing` | one connection as bytes: SendQueue's writes, the session's reads, the client's parser | detailed, extends `SendQueue` |
| `MCFraming` | small instances of it | TLC only |
| `Framing_proofs` | the send queue and its refinement; both directions of a connection keep what was said | proofs |
| `RedisLock` | the lock through the pool of Redis connections, which implements `Lease` too | detailed, extends `DistLock` |
| `RedisLock_proofs` | the lock with and without the pool | proofs |
| `MysqlPool` | the pool of MySQL connections under statements and transactions | detailed |
| `Accounts` | HTTP requests, codes, accounts, tokens, the cache | detailed |
| `MCAccounts` | a small instance of it: what is posted on which connection | TLC only |
| `Accounts_proofs` | transactions through the pool of MySQL connections; what accounts answer and who may change them | proofs |
| `Cluster`, `Cluster_proofs` | start, stop and count of the chat servers, StatusServer's choice | detailed, proofs |
| `MCCluster` | a small instance of it | TLC only |
| `ClientSession`, `ClientSession_proofs` | the client's pages, requests, connection and account data | detailed, proofs |
| `Friendship` | what the tables `friend_apply` and `friend` promise | abstract |
| `Contacts` | what a client's chat window knows, and how each message changes it | operators |
| `Messaging` | friend requests and texts between users on several servers and their clients; implements `Friendship` | detailed |
| `Messaging_proofs` | the tables implement `Friendship`; who is shown as a friend, gets a text or hears of a request | proofs |
| `MCMessaging` | small instances of it | TLC only |

An operator whose comment begins with *Variant* is a mistake somebody could
make in the operator after it. No specification uses one. They document what
each property protects: put in place of the original, the variant makes a run
find the property violated (the `mutants` of `PROJECT.json`).

### ChatLogin

Every process is a thread at work on a session: `Login(x)` is the LogicSystem
worker in LoginHandler for session `x`, `Io(x)` the io thread in a completion
handler of `x`, `Timer(s)` the thread of server `s` that runs `on_timer`. A
step is one Redis command, one RPC half, or one section under a mutex of the
server; what happens in memory between two such points belongs to the step
before. The program counter `pc` names the step that comes next:

| code | steps |
|---|---|
| LoginHandler (`LogicSystem.cc:134-298`) | `StartLogin`, `Acquire`, `GetIp`, `Lookup`, `Evict`, `SetUserId`, `SetIp`, `SetUserSession`, `SetSess`, `Release`, `Reply` |
| NotifyKickUser (`ChatServiceImpl.cc:208-234`) | `Lookup` and `Evict` with `peer` on another server; `KickLost` |
| DealExceptionSession (`Session.cc:326-377`) | `SocketError` or `DealExpired`, `Acquire`, `GetSess`, `DelSess`, `DelIp`, `Clean`, `Release` |
| on_timer (`ChatServer.cc:72-110`) | `OnTimer` (scan, count, HSET), `DealExpired` for each expired session |
| HandleAccept (`ChatServer.cc:21-38`) | `Accept` (the read is started), `Insert` (under `mutex_`) |
| AsyncReadHead, length above MAX_LENGTH | `BadHead` |

`UserMgr` keeps weak pointers. A session that left `sessions_` lives as long
as a handler still refers to it, so a lookup of such a session may return it
or nothing: `GetSession` is a set of outcomes. `CleanSession` holds the
server's `mutex_` throughout; the section of the UserMgr's mutex inside it
(`RmvUserSession`) and the erasure from `sessions_` are one step, because nobody
sees `sessions_` without `mutex_`: a SetUserSession that runs between the two is
one that runs after both. The identifiers of the lock are
represented by their owner, because each call of acquireLock makes a fresh one
and a process has at most one.

Abstracted: the token comparison is a choice (`StartLogin` goes to `acquire`
or straight to `reply`); the reply's contents (own record, friend and apply
lists) are left out; a heartbeat is the timer's choice not to expire a
session; each connection carries one login message.

Faults, drawn from `FaultKinds` and counted in `faults`: `ttl`, a lock expires
while its holder is alive; `timeout`, acquireLock gives up while another holds
the lock; `redis`, a command gets no connection or no answer, so that
acquireLock returns at once, a failed GET skips the kick or the cleanup, a SET
or DEL is not done (one whose answer is lost is done), and a lock that was not released stays until
it expires (`AcquireTimeout`, `ReleaseFails`, `CommandFails`); `rpc`, the kick
RPC is lost; `crash`, a server dies, its memory is
gone, Redis keeps the locks (as `Orphan`, until they expire) and the keys.
Properties about what the lock is for are stated for `faults = 0`: the code
promises nothing more, since a login that got no lock goes on without it and
the results of the kick RPC and of the Redis commands are ignored. The others hold with any faults.

### DistLock

Time in ticks; `ttl` is the key's remaining life, `age[p]` the time since
`p`'s SET, `wait[p]` what is left of acquireTimeout. `SetReplyLost` and
`ReleaseLost` lose a reply or a whole command (or the caller). `ChatLogin`
uses the lock without time; `DistLock` justifies that: within the time to live
exactly one caller holds it (`ExclusiveWithinTtl`), and its expiry is there
the fault `ttl`.

`Lease` says what a caller gets: the section to itself for a time, unless it
comes back earlier. It knows no key, identifier or connection; one number, how
long the door stays shut, decides whether anybody is let in. `DistLock` maps to
it the key's remaining life and each holder's time that is left. A key whose
reply or release was lost is a door shut with nobody inside; a holder that
overstays has left, and its late release must not open the door.

### SendQueue and OrderedChannel

`Send` is one section of `send_mutex_`; a write completes with success while
the socket is open and with an error once it is not; `HandleError`,
`DealException`, `Pop` are the parts of HandleWrite, which holds the mutex for
the last one only and does not return after an error. `open` is the socket's
sending side, closed by the peer, by Close from other threads and by
ShutDownWrite. `accepted` and `wire` record what was queued and what was
handed over. The refinement maps `got` to `wire` and `up` to `open`.
Lengths and bodies of messages are in `Framing`, whose next-state relation
contains every action of this module; its run checks the properties of both.

### Framing

The unit is a cell of two bytes: a head is an id cell and a length cell, and a
body is a number of equal cells `Text`, because a parser that reads inside a
body sees two bytes of JSON as a number. `down` and `up` are the two
directions of TCP, which may be cut anywhere.

| code | steps |
|---|---|
| Send, HandleWrite (`Session.cc:35-62`, `222-256`) | `Sends`, `WriteAll`, `WriteBreaks`, `DealWithWrite`, `WriteHandled` |
| asyncReadFull, asyncReadLen (`Session.cc:259-292`) | `Part` while cells are missing; `Chunks` are what async_read_some may bring |
| AsyncReadBody, AsyncReadHead (`Session.cc:82-220`) | `TakeHead`, `TakeBody`, `RejectHead` (length or id above MAX_LENGTH), `HeadThrows` (a negative length makes RecvNode throw), `ReadInvalid` (no longer in `sessions_`), `ReadError` |
| HandleAccept, CleanSession, on_timer, the last shared_ptr | `Insert`, `Remove`, `Expire`, `Destroy` |
| readyRead of TcpMgr (`tcpmgr.cpp:13-56`) | `ReadyRead`, then `ParseHead`, `ParseBody` in turn until `ParseWait` |
| slot_send_data | `Say` |

`client.pos` is the position of the QDataStream over `_buffer`: it survives the
`mid` calls that replace the buffer, so a second head in one readyRead is read
from the wrong place. The ghost `muddled` says that this has happened.

### RedisLock and MysqlPool

`RedisLock` puts the callers of `DistLock` that live in one process (`Local`)
on that process's pool, next to threads that run any other command (`User`);
callers of other processes act as in `DistLock`. `RedisPool::get` (`redis.cc:272-311`)
is `Reuse`, `Open`, `Discard` or `CannotOpen`: the front connection is tested
only if it rested for 30 seconds, and a null result makes the caller give up.
`acquireLock` keeps its connection for the whole loop. `Fail` is a broken
connection or a command past its 100 ms; hiredis keeps the error, so it stays
failed until it is opened again. Time passes in `Tick` for the lock; `Rest`
is free, since a pool may be idle for any time.

`MysqlPool` follows `mysql.cc` and the calls MysqlDao makes. `get` hands out an
untested connection (`GetUntested`) if it was used lately and without error,
pings another (`GetPinged`), and reconnects or makes one otherwise. A
transaction is opened twice (`Create` in openTransaction, `BeginAgain` in
MysqlDao), runs two statements and ends with `CommitTx` or `RollbackTx`, which is
also what `~MySQLTransaction` does; when the first BEGIN fails the process dies
of a null pointer and starts anew (`CreateFails`). `Break` loses the connection and the server's half of
the transaction; `Age` makes it old. `m_hasError` is set by direct statements
only, as in the code.

### LogicQueue

`consume_.wait` is three steps, as the C++ memory of a condition variable
requires: the predicate is tested under the mutex, blocking gives the mutex up
atomically, and a notified thread takes the mutex again. Shutdown's three
steps run without the mutex, as in the code. `WakeUp` is a spurious wake-up.

### Messaging, Contacts and Friendship

A request is one ID_ADD_FRIEND_REQ (`apply`), ID_AUTH_FRIEND_REQ (`auth`) or
ID_TEXT_CHAT_MSG_REQ (`text`). `pc[r]` names its next step: each SQL statement,
the lookup of `uip_`, the delivery here, the taking of an RPC stub, the call,
the giving back, and the answer that the `Defer` of the handler sends.

| code | steps |
|---|---|
| AddFriendApply (`LogicSystem.cc:328-418`, `MysqlDao.cc:216-254`) | `SendRequest`, `InsertApply`, then delivery |
| AuthFriendApply (`LogicSystem.cc:420-524`, `MysqlDao.cc:256-360`) | `SendRequest`, `UpdateApply`, `InsertFirst`, `InsertSecond`, `Commit`, then delivery |
| DealChatTextMsg (`LogicSystem.cc:526-602`) | `SendRequest`, then delivery |
| delivery | `Route`, then `DeliverHere` or `TakeStub`, `Call`, `ReturnStub`; then `Reply` |
| LoginHandler, as far as a request meets it | `ReadApplies`, `ReadFriends`, `SetIp`, `SetUserSession`, `LoginReply` |
| DealExceptionSession, likewise | `Disconnect`, `DelIp`, `CleanSession` |
| client handlers (`tcpmgr.cpp`, `chatdialog.cpp`) | `OpenWindow`, `Unheard`, `HearApply`, `HearFriend`, `HearText`, `CrashOnText` |
| what its user does | `SendRequest`, `LoadMore`, `OpenChat`, `CrashOnClick`, `Disconnect` |

A user has one session at a time: displacement and concurrent cleanups are
`ChatLogin`'s subject, which shows that a live login is the one Redis names.
MySQL is modelled by what the code relies on: a statement is atomic; the rows
an open transaction has inserted are locked, and another insertion of them
waits; of two transactions that wait for each other InnoDB ends one
(`DeadlockVictim`), which AddFriend rolls back. `Message` bodies are reduced
to kind and sender. GetBaseInfo, which the handlers call for the record of the
sender, is in `Accounts`; a request's users exist.

The window's state is a record (`Contacts`). A friend list arrives with the
login and is put into the chat list by pages; `items` and `pages` are the keys
of `_chat_items_added` and `_chat_pages`, which drift apart when a text comes
from a friend not yet loaded. `MaySend` is what the windows offer: the servers
test none of it.

Faults: `sql`, a statement fails; `redis`, the lookup fails; `rpc`, a call
fails. All handlers ignore the results. What is stated with `faults = 0` does
break after a failed statement, by design of the code: `AddFriend` fails and
the requester is told of a friendship all the same. `ImplementsFriendship`
and `RequestAnswered` hold with faults.

A user whose login has read its lists (`ReadApplies`, `ReadFriends`) but is not
yet registered is told nothing of an application or a friendship made in that
moment; he learns of it at his next login. If the new friend writes to him
before, his client crashes (`CrashOnText`): the chat list has neither an item
nor a friend record. The model has these behaviours; `NoticeReaches` says that
they are confined to logins.

### Accounts

A slot of `Request` is one HttpConnection (`GateServer/HttpConnection.cc`), used
again when it is done. `req[r].pc` says which step is next: `Accept`,
`Dispatch` or `Reject`, the handler, `Written` or `WriteFailed` or `Deadline`.

| code | steps |
|---|---|
| get_varifycode with GetVarifyCode (`server.go:34-79`) | `GetCode`, `SetCode` (SETEX, 180 s), `SendMail`; `VarifyFails`; `Expire` is the end of a code's life |
| user_register (`GateServer/LogicSystem.cc:70-148`, `MysqlDao.cc:18-115`) | `CheckCode`, `CheckExists`, `UpdateId` (takes the row lock of `user_id`), `Insert`, `Commit` |
| reset_pwd (`GateServer/LogicSystem.cc:150-225`) | `CheckCode`, `CheckEmail`, `UpdatePwd` |
| user_login (`GateServer/LogicSystem.cc:227`), StatusServer | `CheckPwd`, `GetChatServer` (SET utoken) |
| the first half of LoginHandler (`ChatServer/LogicSystem.cc:134-201`) | `ChatLogin`: the client presents its token with any uid, and `TokenIs` compares it with `utoken_` of that uid |
| SearchInfo and the record of a login | `Search` (a text of digits is a uid, `Spelt`, any other a name), `GetNameInfo`, `GetBaseInfo`, `GetUser`, `SetNameInfo`, `SetBaseInfo` |

Any statement, commit or RPC may fail once (`RegUserFails`, `ResetFails`,
`LoginFails`, `InfoFails`, `CommitReplyLost`). Tables hold what is committed;
the row lock and the unique index on the address are what MySQL is asked for.
There is no unique index on the name (`mysql.sql:45`), and none is modelled.
A token is represented by the request it was made for, since GetChatServer draws
a new one each time; the next login of the user overwrites it. `held` is a ghost:
a row had this mail and password at some moment since the request came.

### Cluster

`main[s]` is where the main thread of the process with the port is; `starting`
and `old` are processes of the same name before and after they have the port,
so that a restart overlaps its predecessor. `Start` is the HSET of `main.cc:21`,
`Bind` or `BindFails` (an exception, and the Defer runs) the acceptor, `Tick`,
`Report`, `Expire` the timer in its three parts, `Signal` the handler,
`PoolStop` the join of the io threads, `End` the rest of the handler and the
return of main, `Delete` the HDEL. The join waits for whatever is read from
(`Reads`): a session another login has displaced is no longer in `sessions_` and
still has its read pending until its client goes (`Displace`, `DisplacedEnds`).
After the join LogicSystem::Shutdown may wait for ever (`main.cc:63`, section 6);
the process is then `stuck`, with its port and its count (`WorkersHang`).
StatusServer's getChatServer (`StatusServiceImpl.cc:66-111`) is `GetChatServer`
(the mutex is taken), one `HGet` for each server and `Tell`; `seen[s]` are the
values `logincount[s]` had since then. The count is of sessions; who is logged
in is `ChatLogin`'s subject.

### ClientSession

`page`, `busy`, `chatDlg` are MainWindow's status, the disabled inputs and the
pointer to the chat dialog; `boxes` are open message boxes, each an event loop
of its own inside the handler that opened it, so the rest of the handler is a
step on dismissal (`Dismiss`, `OfflineLogin`).

| code | steps |
|---|---|
| dialogs (`logindialog.cpp`, `registerdialog.cpp`, `resetdialog.cpp`) | `ClickLogin`, `LeaveLogin`, `ReturnToLogin`, `SureRegister`, `CodeRegister`, the same of reset, `CountedDown` |
| HTTP answers (`httpmgr.cpp`) | `LoginRefused`, `LoginUnread`, `LoginGranted`, `RegHandled`, `RegUnread`, `ResetHandled`, `ResetUnread`, `AnswerUnheard` |
| socket signals (`tcpmgr.cpp`) | `Connected`, `ConnectFails`, `NetworkError`, `ConnectionEnds`, `ClosingEnds` |
| server | `Accept`, `Welcome`, `Refuse`, `Kick` |
| messages | `ReceiveWelcome`, `ReceiveRefusal`, `ReceiveOffline`, `ReceiveNoise` |
| SlotOffline, SlotExcepConOffline, offlineLogin (`mainwindow.cpp`) | `ReceiveOffline`, `ConnectionEnds`, `Dismiss`, `OfflineLogin` |
| popped-out chat windows | `PopOut`, `CloseWindow`, `SendFromWindow` |

A pointer used after its object is gone sets `crashed`, after which nothing
happens. The framing of messages is `Framing`'s.

## 3. Runs

| run | instance | shows |
|---|---|---|
| `login` (`ChatLogin_safe.cfg`) | 2 servers, 2 connections, 1 user, one connection may report a socket error, any one fault; 1.3 million states | exclusion, one live login, agreement of Redis keys and registry, what removal leaves |
| `login_live` (`ChatLogin_live.cfg`) | 1 server, 2 connections, one socket error, one crash | every login is answered; a closed session leaves `sessions_` for good |
| `session_io` (`Framing.cfg`) | 3 messages of the session, send queue of 1, 2 of the client with bodies of 1, 3 or 4 cells, lengths up to 2 accepted and above 3 negative; 0.3 million states | the session posts what the client said; the client hears what the session sent, until two heads come in one read; ordered channel; no message and no cell waits for ever |
| `client_framing` (`Framing_piled.cfg`) | 2 messages of the session | **violated**: the client hears what was never sent |
| `logic_queue` | 3 workers, 2 io threads, 3 messages | nothing reordered in a worker, lost or left at shutdown; shutdown ends but for one case |
| `dist_lock` (`RedisLock.cfg`) | one caller on the pool, one elsewhere, 2 other threads, pool of 2, LockTime 3, AcquireTime 2 | exclusion within the time to live, the promise of a lease, acquire returns, a rested failed connection is replaced |
| `messaging` | 2 servers, 2 users who log in once and a third who stays away, two acceptances that meet and a text; pages of one friend; 1.2 million states | friendship is symmetric and atomic, shown friends are stored, nobody present is missed, texts come from friends |
| `messaging_faults` | 2 servers, 2 users, an acceptance and an application, one stub, one fault of any kind | every request is answered and every stub comes back; the two tables agree without the fault |
| `accounts` | 2 connections, 2 addresses, names and passwords, 1 code, one fault; 0.9 million states | answers are true, only mailed codes change rows, the chat server admits only who gave the password, every request ends |
| `mysql_pool` | 3 threads, pool of 2, a third connection | all or nothing; pooled connections are clean |
| `client` (`ClientSession.cfg`) | 2 accounts, 2 HTTP requests under way; 0.13 million states | account data, offline, stale pointers, dialogs that answer |
| `cluster` | 2 servers, of which one is signalled, 1 client, one fault or second start; 0.16 million states | counts go with the last process, the choice is right for some moment, counts catch up, the io threads of a stop end and then the process, unless it hangs in LogicSystem::Shutdown |

Bounds. Displacement relates an old and a new login; two connections on two
servers give both the local and the remote kick and both directions, and one
user suffices because the lock, the keys and the entries of different users
never meet. One connection that may report a read error while the timer
expires it gives the two cleanups of one session running at once; the other
connection is still ended by its timer. One fault is enough for each kind to
meet every state of the others. `login` uses symmetry of servers and the view
`LoginView`, which leaves out the published login counts and the locals of a
login past their last use: no step and no property of the module depends on
them. Liveness is checked without symmetry and without view.

`session_io`: with a limit of 1 the queue holds two messages, so three sends
fill it, drain it and fill it again; a body of 1 cell is taken, one of 3 is too
long and one of 4 negative; a head and a body in each direction are two reads
of up to 4 cells that may come in any parts, and a second message may come with
the first. Three messages, three workers: a batch of two, a batch of one and a
sleeping worker together. LockTime > AcquireTime, as in `const.h` (10 and 5
seconds): enough to give up, to win, and to overstay; two other threads keep
the pool of two empty or full, and the third connection is one too many.

`messaging` needs two acceptances for the deadlock of their transactions, a
text for what follows from them, and a friend list of two pages of one friend
each. `messaging_faults` has two requests that may go from one server to the
same peer, so that with one stub the second waits for the first. One login of
a user suffices: what a second one starts with is the tables and an empty
window, like the first. The symmetry of servers is used in `messaging`, whose
properties are safety properties that name no server.

`accounts`: two requests are what meets at a row, a code, a name or an address,
and as slots are used again one connection may do all of a history while the
other stays in one step of its own. One code of an address may run out, be
drawn again and be mailed again. Both may log in the same address, so that one
overwrites the token of the other before or after it was presented; one of the
two names is a number, so that a search for it is for a uid. `cluster`: two servers are what a choice needs; one
client is on one of them, waiting, or asking; with two clients there are more
than 20 million states. Its fault is a crash, a failed command, or a second
process of one name. `client` has the account of before and the account of
after, and two requests so that answers of a dialog that has gone meet a new
one. `mysql_pool` has three threads for a pool of two, so that a connection is
made beyond it and deleted on return.

Deadlock is checked where the system goes on for ever: in `login`,
`login_live`, `dist_lock`, `mysql_pool`, `accounts` and `cluster`. The others
stop when the bounded messages, requests and logins are used up, after the
shutdown, when a connection has ended for good, or, in `client`, when a pointer without its object was used.

## 4. Fairness

* Threads with work go on (`WF` on the steps of a login, of a cleanup, of a
  worker, of HandleWrite): they are ordinary threads that do not wait except
  for a lock or for I/O that returns.
* `ChatLogin` assumes only weak fairness of `Acquire`: the loop of acquireLock
  polls; a process that would be overtaken for ever is not a case of these
  finite instances, where every process takes the lock finitely often.
* A dead holder's lock expires (`ExpireOrphan`), because SET has EX.
* `on_timer` re-arms itself, and a closed session gets no heartbeat, so the
  scan finds each closed session (`ExpireClosed`) and deals with it.
* HandleAccept goes on to `Insert`.
* `LogicQueue`: `SF` on taking the mutex, because the other threads may take
  it in between again and again while a mutex is handed out to every waiter
  in the end. Nothing is assumed of spurious wake-ups or of the signal.
* `SendQueue`, `Framing`: asio completes each write, with success or with an
  error, and each read for which data is there; a session nobody refers to is
  destroyed; the timer expires a session that is not read, since it gets no
  heartbeat; Qt emits readyRead when data is there.
* `DistLock`, `RedisLock`: time passes and the loop of acquireLock reads the
  clock; a command returns or times out after 100 ms, so that a connection
  comes back. The threads with other commands come back for more, as on_timer
  does every 60 s. Nothing is assumed of new callers of the lock or of `Rest`.
* `Messaging`: workers go on with what they handle, and statements and calls
  return. `WF` of `TakeStub` is enough for a finite number of requests. Nothing
  is assumed of logins, clients and users.
* `Accounts`: the io thread of a request goes on, one `WF` for all its steps;
  `SF` on the two statements that wait for a row lock (`UpdateId`,
  `UpdatePwd`), because InnoDB grants locks in the order of asking. Nothing
  makes a client send its request or take its answer: `Deadline`, the timer of
  60 s in HttpConnection, ends the answer.
* `Cluster`: the main thread of a server goes on and its timer fires; a second
  process binds or fails to; once nothing is read from any more the io threads
  end, and main ends or hangs in LogicSystem::Shutdown (`WF` of the three steps
  together, so that nothing is assumed against the hang). Nobody has to
  start, signal, come, ask or leave, a displaced client included.
* `ClientSession`: every HTTP request and attempt to connect ends, the chat
  server answers a login, what has arrived is handled. Users need do nothing,
  not even dismiss a box.
* Nothing is assumed of faults, errors, new connections or new messages.

## 5. Proofs

| theorem | says |
|---|---|
| `ChatLogin_proofs!TypeCorrect` | all variables keep their types |
| `ChatLogin_proofs!MutualExclusionHolds` | logins and cleanups of a user exclude each other until a fault |
| `ChatLogin_proofs!OnlyHolderReleasesHolds` | a lock that has not run out is released by its holder only |
| `ChatLogin_proofs!BoundToItsUserHolds` | UserMgr and Redis bind a session to its own user and server, whatever fails |
| `ChatLogin_proofs!RemovalUnbindsHolds` | a session that leaves `sessions_` leaves every UserMgr, whatever fails |
| `ChatLogin_proofs!SingleLoginHolds` | at most one live login of a user in the cluster until a fault |
| `ChatLogin_proofs!RedisPairAgreesHolds`, `LiveLoginIsRoutableHolds` | the Redis keys agree with each other and with the live login until a fault |
| `ChatLogin_proofs!NoticeMeansDisplacedHolds` | who was told to go offline has been displaced, until a fault |
| `LogicQueue_proofs!TypeCorrect`, `MutexHeldHolds` | types; who holds the mutex |
| `LogicQueue_proofs!NoLostWakeupHolds` | a queued message has a worker awake |
| `LogicQueue_proofs!NothingLeftBehindHolds` | nothing accepted is left over after the join |
| `LogicQueue_proofs!OrderPerWorkerHolds` | a worker keeps the order of the queue |
| `RedisLock_proofs!WithinTtlHolds`, `ExclusionHolds` | the lock excludes callers within its time to live |
| `RedisLock_proofs!OnlyHolderReleasesHolds` | a live key is deleted by its holder only |
| `RedisLock_proofs!LeaseHolds`, `PoolImplementsLease` | the lock keeps the promise of a lease, alone and through the pool, whatever replies, releases and connections are lost |
| `RedisLock_proofs!PoolExclusionHolds` | through the pool the lock excludes callers within its time to live |
| `RedisLock_proofs!OnePlaceHolds` | a connection is in the pool once or with one thread |
| `Cluster_proofs!TypeCorrect` | all variables keep their types |
| `Cluster_proofs!StoppedIsUnlistedHolds` | no process, no count, unless a crash or a failed command left one |
| `Cluster_proofs!LeastLoadedHolds` | StatusServer's choice was right for some moment of the request |
| `Framing_proofs!OneWrite`, `Bounded`, `OneDeal` | the safety invariants of the send queue |
| `Framing_proofs!Implements`, `FramingImplements` | the send queue, and a connection that uses it, implement `OrderedChannel` |
| `Framing_proofs!RunsTheQueue` | every step of a connection is one of the send queue or leaves it alone |
| `Framing_proofs!FramingTypeCorrect` | the reader, the parser and the cells under way keep their types |
| `Framing_proofs!PostedIsSaidHolds` | the LogicSystem gets what the client sent, in order, however TCP cuts it |
| `Framing_proofs!HeardIsSentHolds` | the client handles what was sent, in order, until one readyRead finds two heads |
| `Messaging_proofs!Implements` | the tables implement `Friendship`, whatever fails |
| `Messaging_proofs!ShownIsStoredHolds` | nobody is shown a friend who is not stored, until a fault |
| `Messaging_proofs!TextFromFriendHolds` | a text is for a friend of its sender, although no server tests it, until a fault |
| `Messaging_proofs!StatusMatchesFriendshipHolds` | the two tables agree on who accepted whom, until a fault |
| `Messaging_proofs!NoticeReachesHolds` | who had his window open when a request looked him up, and has kept it open, knows of the request once it is handled |
| `Accounts_proofs!MysqlTypeCorrect`, `TypeCorrect` | types of the pool, and of the accounts |
| `Accounts_proofs!AllOrNothingHolds` | a transaction stores all or nothing, wherever connections break |
| `Accounts_proofs!PooledIsCleanHolds` | no pooled connection has a transaction open |
| `Accounts_proofs!ConnectionsAreNotShared` | a connection is in the pool once or with one thread |
| `Accounts_proofs!RowsAreUnique` | uids are 1, 2, 3, ..., and no address has two rows |
| `Accounts_proofs!AnswerTrueHolds` | what a registration and a search answer is so |
| `Accounts_proofs!LoginByPasswordHolds` | nobody is told a token or admitted by a chat server without the password of that user's row, whatever uid is presented and whatever tokens are overwritten |
| `Accounts_proofs!OnlyWithMailedCodeHolds` | no row and no new password without a code mailed to the row's address |
| `ClientSession_proofs!TypeCorrect` | all variables keep their types |
| `ClientSession_proofs!AccountDataHolds` | the account data is that of the chat page and the account last asked for |
| `ClientSession_proofs!NoStalePointerHolds` | no dialog that is gone is used, outside the two known cases |
| `ClientSession_proofs!OfflineIsOfflineHolds` | when the last message box goes there is no account and no connection |

They hold for every number of servers, users, clients, sessions, callers,
connections, threads, requests, addresses and messages and every limit, under the
assumptions the modules name:

* `NilAssumption`, `PoolAssumption`, `MysqlPoolAssumption`, `ClientAssumption`,
  `ClusterAssumption`, `AccountsAssumption`: the special values differ from the
  ordinary ones, the list of servers names each once, a search for digits is for
  a positive number;
* `BoundAssumption`, `LockAssumption`, `SendAssumption`, `LogicAssumption`,
  `MessagingAssumption`: types of the bounds, finitely many sessions, at least one
  worker;
* `FramingAssumption`: what the client says fits the two bytes of a length, as
  slot_send_data writes it, and what the session says fits its short; longer
  answers are left out (section 7).

Some theorems are about invariants no run lists, because they are what the listed
ones rest on: the types of each module, `BoundToItsUser`, `NoticeMeansDisplaced`
and `OnlyHolderReleases` of `ChatLogin`, `HolderWithinTtl` and
`OnlyHolderReleases` of `DistLock`, `MutexHeld` and `NoLostWakeup` of
`LogicQueue`, `OneWritePerQueue`, `QueueBounded` and `OneDealPerLostMessage` of
`SendQueue`, `OnePlace` of `RedisLock`, `PlaceInv` of the MySQL pool and `TableInv`
of the accounts. The hard inductive invariants were checked by TLC on the
instances of the runs before they were proved.

One proof module may serve two models where one explains the other:
`Framing_proofs` those of `SendQueue` and `Framing`, `RedisLock_proofs` those of
`DistLock` and `RedisLock`, `Accounts_proofs` those of `MysqlPool` and `Accounts`,
because a registration's rows appear in the one step `Commit` of `Accounts` only
if a transaction through the pool is all or nothing.

*ChatLogin.* `TypeOK` is not inductive: `Evict` adds `old[p]` to `kicked`,
which must be a session there, and the steps of a login use `home[sess[p]]`
as a server. `IInv` adds `LocalsOK`, which says what the locals of a process
hold at each program counter. `MutualExclusion` follows from `LockHeld`: until
a fault, a process in its critical section is the holder the lock names.

*Registry of ChatLogin.* `BindInv` holds whatever fails: a session has no user
up to SetUserId and the user of its handler from there on, so an entry made by
SetUserSession is right when it is made, and stays right because `uid` and
`home` are written once. `RegistryInv` needs the lock. By `LockHeld` there is
one process in the locked section of a user, and the invariant says for each of
its program counters what the keys and the UserMgrs hold: at `lookup` the key
`uip` is the peer it read; at `evict` the session it found is the only live
one; from `setuid` to `setuser` none is live; at `delip` only the session being
cleaned up may be. Outside the section `PairAgrees` and `LiveOnly` are left.
All other steps are `Calm`: they write no key of the user and can only end
live sessions; HandleAccept's insertion makes no session live, because nobody
has logged in on it. The lemmas `Quiet` and `InSection` use this once for all
steps. `NoticeInv` adds that a session found at `evict` has been answered and
that, while Redis still names a session that was told to go offline, the login
that displaced it is on the way to overwrite the key.

*LogicQueue.* `NoLostWakeup` needs that a worker about to block saw an empty
queue and still holds the mutex, and that a worker has left only when no poster
can queue anything more: `WakeInv`. At least one worker is assumed; the
constructor starts four. `OrderPerWorker` follows from `OrderInv`: what a
worker has handled, its batch and the queue are increasing, and each precedes
the next.

*DistLock.* `HolderWithinTtl` is inductive with the types: the key names a
holder within its time and lives exactly as long as the holder's clock says.
Two such holders would both be named by one key.

*Lease.* The refinement needs two facts more (`LeaseInv`): a key that is set has
time left (`KeyEnds`), and a holder past its time is not the one the key names
(`LateIsOut`), since the key it set ran out and whoever took the key next has an
identifier of its own. So its release deletes nothing, while the release of a
holder in time finds its own key (`StepLease` has one case per step).

*SendQueue.* `OneDealPerLostMessage` counts where the accepted messages went
and bounds `deals`. The refinement needs `OpenInOrder`: while the socket is
open nothing has failed, and the queue is the end of `accepted` from the first
message not yet popped; so the message written next is the next of `accepted`.

*Framing.* `Laid` says what the cells of a direction are: the frames of the
messages that have been said and not yet received, from cell `off` of the first
one on, as far as they have been handed over. It is a statement about each
position, so that no recursion is needed, and three lemmas move it: cells are
added at the end, cells are taken from the front, a frame ends. `ReadHeadInv` and
`ReadBodyInv` say where in the frame the session's reader is, `ParserInv` where
the client's is: its buffer followed by what is under way is laid out from
there. A reader takes a head only if id and length are numbers it accepts, and
then they are the head's, because the reader stands at the first cell of a frame.
On the client this is so only while `client.pos` is 0 when a head is parsed,
which is what `~muddled` says; without it the theorem is false (section 6).

*Messaging.* The refinement needs `TxnInv`: at `second` the first row of the
transaction is in the table or inserted, at `commit` both are, and a request
outside its transaction has inserted nothing. So `Commit` adds exactly the two
rows, and a rollback adds none. The other steps leave the tables alone
(`Elsewhere`, `Moving`).

`ShownIsStored` needs `ShownInv`. A client shows whom a notice, an answer or a
login list names, so the invariant follows the name to where it came from:
`AllToldStored` says it of the lists a login is reading and of the messages
under way as well as of the windows, and `AuthOf` of a request past its
transaction, which sends the notices without looking at the table. The lemma
`StoredLasts` says that what is stored, or about to be, stays so: until a fault
only a deadlock ends a transaction early, and its victim leaves the other
transaction of the same two users still running (`InTransaction`).

`TextFromFriend` rests on the same: a page to type in belongs to somebody shown
as a friend, so `TextInv` has the receiver of a text stored from the click to the
delivery, and `StoredNext` keeps him stored.

`StatusMatchesFriendship` needs the way from an application to its acceptance
(`StatusInv`): what a window offers to accept is a row of `friend_apply`, since
notices are sent after the INSERT and login lists are read from the table; no row
is ever deleted, so the UPDATE of an acceptance finds one; and rows of `friend`
are inserted only by the transaction after that UPDATE (`FriendsAccepted`,
`AcceptedStored`).

`NoticeReaches` relates one request and one login of its receiver. `SessionOf`
says that a user whose window is open is in phase `in`, with `uip`, the server
of the connection and its UserMgr the same; `epoch` numbers the logins. So if
the window was open at the lookup and the login is still the same, the route
found then is the right one until the notice is in the inbox (`LookupOf`), and
from there it stays before the client or in what the window knows
(`Reached`): an open window forgets nothing, because the only thing that sets
its lists is the one answer to the login that opened it.

*RedisLock.* The callers of one pool take and return connections beside the
steps of `DistLock` and never touch its variables otherwise (`PoolKeepsLock`), so
the lease and the exclusion hold through the pool too. `OnePlace` is a property of
the pool itself, inductive with the types and `Placed`: what `Reuse` takes from
the pool is with nobody, `Open` takes a closed connection, which is nowhere, and
`Free` puts back what its thread held.

*Cluster.* `StoppedIsUnlisted` is inductive: only a process that is starting or
has the port writes a count, and each way out of it goes through `Delete` or
marks the count as lost. `LeastLoaded` follows from `ScanInv`: the count of a
server now is among those seen since the request began (`SeenInv`); the least
value found is at least one seen of the best server (`BestInv`) and at most one
seen of each server already read (`LeastInv`). The lemma `ScanKept` covers all
steps that leave the scan alone.

*MysqlPool.* `AllOrNothing` needs three things of every other thread: that it
holds another connection (`PlaceInv`), that a connection nobody holds has
nothing open (`ConnInv`), and that the connection of a transaction which has come
to its second statement has done the first, unless it broke (`StepInv`). A
connection that breaks loses the transaction with the work, and the statement
after it fails instead of being committed by itself, because only BEGIN sets
`tx` and nothing reconnects inside a transaction.

*Accounts.* `IInv` says of each request, by its program counter, what it has
shown so far (`VarifyInv`, `CodeInv`, `RegisterInv`, `LoginInv`, `FindInv`), and of
the tables that the uids are 1, 2, 3 and so on (`TableInv`), that Redis holds an
address's own codes and rows that exist (`RedisInv`), and that the number read
under the row lock is still the next one when its row is inserted (`LockInv`):
this makes a refused INSERT mean a taken address. A request that waits while
another changes the tables keeps its part, because rows are only added and of a
row only the password changes (`Grown`); a login under way notes that the tables
held its password (`Waits`), which is the "at some moment" of `LoginByPassword`.
That property is about what the chat server admits, and there only the token
counts: the uid is the client's word. It needs `TokenInv`: a request that was
told a token (`Bearer`) has it in `utoken_` of its own user or nowhere any more
(`OnlyToken`), since a token is written under the uid of the row whose password
was checked, is made once, and overwriting removes it. A uid for which the
comparison succeeds is then the one the password was checked for.
That a search misses nobody rests on `FirstRow`: among the rows of a name there
is a first one. `OnlyWithMailedCode` follows from `CodeInv`: Redis' code of an
address, which was mailed to it, is compared before anything is written, and at
the UPDATE the name has a row of that address; if the name has one row only,
it is the row that changes.

*ClientSession.* `PageInv` ties the account data to the chat page, `NetInv` says
that a login on the connection is answered once. Both hold always. That the
data is of the account asked for needs that no login was left midway
(`strayed`): then exactly one thing is under way for the login dialog, an HTTP
request (`RequestInv`) or a connection, a question or its answer
(`ConnectionInv`), and each carries the account of the last click.

Only model-checked: all liveness properties (the prover has no rules for fairness
here): `LoginAnswered`, `ClosedSessionLeaves`, `EveryMessageLeaves`,
`EverythingRead`, `EveryMessageHandled`, `ShutdownEnds`, `AcquireReturns`,
`RestedIsReplaced`, `RequestAnswered`, `RequestEnds`, `DialogAnswers`,
`CountCatchesUp` and `StopEnds`. Every invariant and every action property of a
passing run is stated by a theorem. What a recursive definition computes for all
data would need induction over it, which the installed provers cannot do; the
modules have no such definition, and sequences that would be defined by one (the
bytes of a connection) are described position by position.

## 6. Findings

The run `client_framing` shows one: the handler of readyRead makes one
QDataStream before its loop (`tcpmgr.cpp:19`) and replaces `_buffer` under it
(`tcpmgr.cpp:34`, `52`), so two heads in one read are not parsed as the comments
at `tcpmgr.cpp:30` and `33` say.

The models contain the following as well; the properties are stated around
them, as their comments say.

* LoginHandler ignores a failed acquireLock (`LogicSystem.cc:234`),
  DealExceptionSession does not (`Session.cc:342`): with the fault `timeout` two
  logins of a user are in the locked section.
* `CleanSession` looks up the user by `user_uid_`; before SetUserId
  (`LogicSystem.cc:287`) that is 0, and an association made later stays.
* `stopped_` is set and notified without `mutex_` (`LogicSystem.cc:26`): a worker
  between its test and its sleep misses both, and Shutdown waits for ever.
  `ShutdownEnds` excepts it.
* The send queue holds up to MAX_SENDQUE + 1 messages (`QueueBounded`).
* A length above 32767 is negative as a short; RecvNode throws in the handler,
  reading stops, and the session stays until its heartbeat runs out
  (`HeadThrows`).
* A process of a name that is already running sets the count to 0
  (`main.cc:21`), and when it fails to bind, or when an older process ends late,
  deletes it (`main.cc:23`). `CountCatchesUp` says that the next report with a
  count repairs this.
* A connection of the Redis pool that failed is tested only after 30 s of rest
  (`redis.cc:283`). In a pool in constant use it may stay and fail every command.
* When its BEGIN fails `openTransaction` returns null, and MysqlDao
  dereferences it (`MysqlDao.cc:31`, `302`).
* Two registrations of one name that overlap both pass the test
  (`MysqlDao.cc:51`); there is no unique index on the name. `OnlyWithMailedCode`
  is stated for names held once: a reset by one address changes both rows.
* A reset changes MySQL only (`MysqlDao.cc:156`); the cached record keeps the
  old password for ever.
* `slot_text_chat_msg` makes an item without a page (`chatdialog.cpp:302-313`),
  `loadMoreChatUser` then skips the user (`chatdialog.cpp:455`), and the next
  text or a click dereferences the missing page (`chatdialog.cpp:358`,
  `222-224`), although the comments at `chatdialog.cpp:437` and `470` promise
  every user a page.
* The login dialog stays disabled after an answer it cannot parse, a connection
  that was already open or that closes on the login page, a network error
  TcpMgr only logs, or an offline notice before the answer (`Hinder`).
* A login dialog that is left in the middle of a login (`strayed`), and chat
  windows that outlive the chat dialog (`windows`), end in the use of a dialog
  that is gone.

## 7. Not modelled

* **Widgets and styling**: painting, layout, labels, the image cropper, input
  fields and their checks, the application and confirmation forms. They keep no
  protocol state; what they send is `SendRequest`, `Submit` and `ClickLogin`.
* **Configuration and logging**: read once, written only.
* Mail delivery, SQL, JSON and protobuf encodings: I/O or syntax. What their
  results decide is a choice in the models.
* The stub pools of GateServer (`VerifyGrpcClient.h`, `StatusGrpcClient.h`) are
  the code of `ChatGrpcClient.h` again, modelled in `Messaging`. `checkConnection`
  of the MySQL pool is called by nothing.
* `Framing` has one connection that begins with an empty buffer; TcpMgr never
  clears `_buffer` and `_b_recv_pending`, so a second connection starts with what
  the first left. Answers above 32 KB, whose length does not fit
  Session::Send's short, are left out too.
* Of the client's lists, the contact list, the side bar and the records of chats
  are left out: they follow the friend list and the texts, which are in
  `Contacts`.
* A search for digits beyond int (`LogicSystem.cc:670`) ends the process by an
  uncaught exception; `Accounts` searches for numbers an int holds. Of the
  texts that are one number only the one without leading zeros is in `Spelt`.
* The `accounts` run has one code for each address, so that a code that replaces
  another is the same again, and codes are asked for on one connection only.
* In `Cluster` the login that displaces a client may come from outside `Client`;
  sessions whose reading has stopped in `Framing`'s way are among those that stay
  until their heartbeat runs out.
* `login_live` has the fault `crash` only: with failed Redis commands as well its
  liveness check exceeds what TLC does in minutes. They are in `login`.
