------------------------------ MODULE Cluster ------------------------------
(***************************************************************************)
(* Cluster: the chat servers from their start to their stop, the hash      *)
(* logincount in which each reports its sessions, and the choice of a      *)
(* server that StatusServer makes for a client that logs in.               *)
(*                                                                         *)
(* The main thread of a chat server runs its io_context: the accepts, the  *)
(* timer and the signal handler follow one another there.  A process of    *)
(* the same name may be started while an earlier one still has the port,   *)
(* or has given the port up and not yet removed its count.                 *)
(***************************************************************************)
EXTENDS Naturals, Sequences, FiniteSets

CONSTANTS
  Client,
  Signalled,  \* the servers that get a signal to stop
  ServerList, \* the names in servers_, in their order
  MaxFaults,  \* how many crashes, failed commands and second starts
  None

Server == {ServerList[i] : i \in DOMAIN ServerList}

ASSUME ClusterAssumption ==
  /\ IsFiniteSet(Client)
  /\ ServerList \in Seq(Server) /\ ServerList # <<>>
  /\ \A i, j \in DOMAIN ServerList : ServerList[i] = ServerList[j] => i = j
  /\ None \notin Client \cup Server
  /\ Signalled \subseteq Server
  /\ MaxFaults \in Nat

VARIABLES
  main,       \* where the main thread of the process with the port is
  starting,   \* a process has set its count and not yet bound the port
  old,        \* a process has given up the port and not yet removed its count
  logincount, \* the hash in Redis
  tick,       \* the count and the expired sessions of the tick under way
  client, at, \* what a client is doing, and the server it was told
  scan,       \* the request to StatusServer that has its mutex
  seen,       \* the counts Redis has given or held since that request began
  lost,       \* a count was left behind by a crash or a failed command
  faults

vars == <<main, starting, old, logincount, tick, client, at, scan, seen, lost, faults>>

INT_MAX == Cardinality(Client) + 1

Count == 0 .. Cardinality(Client)

Serving == {"up", "report", "expire"}

NoTick == [count |-> 0, expired |-> {}]
NoScan == [client |-> None, next |-> 1, best |-> None, least |-> INT_MAX]

TypeOK ==
  /\ main \in [Server -> Serving \cup {"down", "join", "end", "stuck"}]
  /\ starting \in [Server -> BOOLEAN] /\ old \in [Server -> BOOLEAN]
  /\ lost \in [Server -> BOOLEAN]
  /\ logincount \in [Server -> Count \cup {None}]
  /\ tick \in [Server -> [count : Count, expired : SUBSET Client]]
  /\ client \in [Client -> {"away", "asking", "told", "in", "late", "left", "displaced"}]
  /\ at \in [Client -> Server \cup {None}]
  /\ scan \in [client : Client \cup {None}, next : 1 .. Len(ServerList) + 1,
               best : Server \cup {None}, least : Nat]
  /\ seen \in [Server -> SUBSET (Count \cup {None})]
  /\ faults \in 0 .. MaxFaults

Init ==
  /\ main = [s \in Server |-> "down"]
  /\ starting = [s \in Server |-> FALSE]
  /\ old = [s \in Server |-> FALSE]
  /\ logincount = [s \in Server |-> None]
  /\ tick = [s \in Server |-> NoTick]
  /\ client = [c \in Client |-> "away"]
  /\ at = [c \in Client |-> None]
  /\ scan = NoScan
  /\ seen = [s \in Server |-> {}]
  /\ lost = [s \in Server |-> FALSE]
  /\ faults = 0

Fault ==
  /\ faults < MaxFaults
  /\ faults' = faults + 1

(* The sessions in sessions_.                                              *)
Sessions(s) == {c \in Client : at[c] = s /\ client[c] \in {"in", "late", "left"}}

(* A displaced session is no longer there, and still read from.            *)
Reads(s) == Sessions(s) \cup {c \in Client : at[c] = s /\ client[c] = "displaced"}

Late(s) == {c \in Sessions(s) : client[c] = "late"}

(* HSET or HDEL; a request of StatusServer that is under way may see it.   *)
SetCount(s, v) ==
  /\ logincount' = [logincount EXCEPT ![s] = v]
  /\ seen' = IF scan.client = None THEN seen ELSE [seen EXCEPT ![s] = @ \cup {v}]

Redis == <<logincount, seen>>
Clients == <<client, at>>

Send(cs, phase) ==
  /\ client' = [c \in Client |-> IF c \in cs THEN phase ELSE client[c]]
  /\ at' = [c \in Client |-> IF c \in cs /\ phase = "away" THEN None ELSE at[c]]

-----------------------------------------------------------------------------
(* main: a chat server starts.                                             *)

(* HSET logincount name 0.  While another process has the port, somebody   *)
(* has started the server twice.                                           *)
Start(s) ==
  /\ ~starting[s]
  /\ IF main[s] = "down" THEN UNCHANGED faults ELSE Fault
  /\ starting' = [starting EXCEPT ![s] = TRUE]
  /\ lost' = [lost EXCEPT ![s] = FALSE]
  /\ SetCount(s, 0)
  /\ UNCHANGED <<main, old, tick, Clients, scan>>

(* The acceptor is open and ChatServer::Start accepts and starts the timer.*)
Bind(s) ==
  /\ starting[s] /\ main[s] = "down"
  /\ starting' = [starting EXCEPT ![s] = FALSE]
  /\ main' = [main EXCEPT ![s] = "up"]
  /\ UNCHANGED <<old, Redis, tick, Clients, scan, lost, faults>>

(* Variant: the count is reset, not removed.                               *)
ResetCount(s) == SetCount(s, 0)

(* HDEL logincount name.                                                   *)
RemoveCount(s) == SetCount(s, None)

(* The port is taken: the constructor throws, and the Defer removes the    *)
(* count, whosever it is.                                                  *)
BindFails(s) ==
  /\ starting[s] /\ main[s] # "down"
  /\ starting' = [starting EXCEPT ![s] = FALSE]
  /\ RemoveCount(s)
  /\ UNCHANGED <<main, old, tick, Clients, scan, lost, faults>>

-----------------------------------------------------------------------------
(* HandleAccept, of a connection from the backlog.                         *)

(* Variant: connections are accepted while the pool is being stopped.      *)
AcceptsStopping(s) == main[s] \in {"up", "join"}

Accepts(s) == main[s] = "up"

Accept(c) ==
  /\ client[c] = "told" /\ Accepts(at[c])
  /\ Send({c}, "in")
  /\ UNCHANGED <<main, starting, old, Redis, tick, scan, lost, faults>>

(* on_timer: sessions without a heartbeat are closed, which fails their    *)
(* reads, and the others are counted.                                      *)
Tick(s) ==
  /\ main[s] = "up"
  /\ main' = [main EXCEPT ![s] = "report"]
  /\ tick' = [tick EXCEPT ![s] =
       [count |-> Cardinality(Sessions(s) \ Late(s)), expired |-> Late(s)]]
  /\ Send(Late(s), "left")
  /\ UNCHANGED <<starting, old, Redis, scan, lost, faults>>

(* Variant: a server without sessions has nothing to report.               *)
NonZeroCount(s) ==
  IF tick[s].count = 0 THEN UNCHANGED Redis ELSE SetCount(s, tick[s].count)

ReportCount(s) == SetCount(s, tick[s].count)

Report(s) ==
  /\ main[s] = "report"
  /\ main' = [main EXCEPT ![s] = "expire"]
  /\ ReportCount(s)
  /\ UNCHANGED <<starting, old, tick, Clients, scan, lost, faults>>

ReportFails(s) ==
  /\ main[s] = "report"
  /\ Fault
  /\ main' = [main EXCEPT ![s] = "expire"]
  /\ UNCHANGED <<starting, old, Redis, tick, Clients, scan, lost>>

(* DealExceptionSession of the expired sessions that their io threads have *)
(* not removed yet; then start_timer.                                      *)
Expire(s) ==
  /\ main[s] = "expire"
  /\ main' = [main EXCEPT ![s] = "up"]
  /\ Send({c \in tick[s].expired : client[c] = "left" /\ at[c] = s}, "away")
  /\ tick' = [tick EXCEPT ![s] = NoTick]
  /\ UNCHANGED <<starting, old, Redis, scan, lost, faults>>

-----------------------------------------------------------------------------
(* The signal handler: the timer and the io_context are stopped, so nobody *)
(* is accepted or found to be silent any more.                             *)
Signal(s) ==
  /\ s \in Signalled
  /\ main[s] = "up"
  /\ main' = [main EXCEPT ![s] = "join"]
  /\ UNCHANGED <<starting, old, Redis, tick, Clients, scan, lost, faults>>

(* AsioIOServicePool::Stop joins the io threads, which run on while they   *)
(* have sessions to read from, displaced ones as well.                     *)
PoolStop(s) ==
  /\ main[s] = "join" /\ Reads(s) = {}
  /\ main' = [main EXCEPT ![s] = "end"]
  /\ UNCHANGED <<starting, old, Redis, tick, Clients, scan, lost, faults>>

(* The gRPC server stops; LogicSystem::Shutdown may wait for ever for a    *)
(* worker that misses it (LogicQueue), and the process keeps its port.     *)
WorkersHang(s) ==
  /\ main[s] = "end"
  /\ main' = [main EXCEPT ![s] = "stuck"]
  /\ UNCHANGED <<starting, old, Redis, tick, Clients, scan, lost, faults>>

(* Or the workers end too, run returns and the io_context goes with the    *)
(* acceptor and its backlog.                                               *)
End(s) ==
  /\ main[s] = "end"
  /\ main' = [main EXCEPT ![s] = "down"]
  /\ old' = [old EXCEPT ![s] = TRUE]
  /\ UNCHANGED <<starting, Redis, tick, Clients, scan, lost, faults>>

(* The Defer of main, whose HDEL may fail.                                 *)
Delete(s) ==
  /\ old[s]
  /\ old' = [old EXCEPT ![s] = FALSE]
  /\ \/ RemoveCount(s) /\ UNCHANGED <<lost, faults>>
     \/ Fault /\ lost' = [lost EXCEPT ![s] = TRUE] /\ UNCHANGED Redis
  /\ UNCHANGED <<main, starting, tick, Clients, scan>>

(* The process dies.                                                       *)
Crash(s) ==
  /\ main[s] # "down"
  /\ Fault
  /\ main' = [main EXCEPT ![s] = "down"]
  /\ tick' = [tick EXCEPT ![s] = NoTick]
  /\ lost' = [lost EXCEPT ![s] = TRUE]
  /\ Send(Reads(s), "away")
  /\ UNCHANGED <<starting, old, Redis, scan>>

-----------------------------------------------------------------------------
(* StatusServer's getChatServer, under its mutex.                          *)

(* A server without a count is taken to be full.                           *)
Level(v) == IF v = None THEN INT_MAX ELSE v

GetChatServer(c) ==
  /\ client[c] = "away" /\ scan.client = None
  /\ Send({c}, "asking")
  /\ scan' = [NoScan EXCEPT !.client = c]
  /\ seen' = [s \in Server |-> {logincount[s]}]
  /\ UNCHANGED <<main, starting, old, logincount, tick, lost, faults>>

(* The first server is taken as it is, a later one when it has fewer.      *)
Better(v) == scan.next = 1 \/ v < scan.least

Compared(s, v) ==
  [client |-> scan.client,
   next   |-> scan.next + 1,
   best   |-> IF Better(v) THEN s ELSE scan.best,
   least  |-> IF Better(v) THEN v ELSE scan.least]

(* Variant: the last server is left out.                                   *)
ToReadButLast == scan.next < Len(ServerList)

ToRead == scan.next <= Len(ServerList)

HGet ==
  /\ scan.client # None /\ ToRead
  /\ scan' = Compared(ServerList[scan.next], Level(logincount[ServerList[scan.next]]))
  /\ UNCHANGED <<main, starting, old, Redis, tick, Clients, lost, faults>>

HGetFails ==
  /\ scan.client # None /\ ToRead
  /\ Fault
  /\ scan' = Compared(ServerList[scan.next], INT_MAX)
  /\ seen' = [seen EXCEPT ![ServerList[scan.next]] = @ \cup {None}]
  /\ UNCHANGED <<main, starting, old, logincount, tick, Clients, lost>>

Tell ==
  /\ scan.client # None /\ ~ToRead
  /\ client' = [client EXCEPT ![scan.client] = "told"]
  /\ at' = [at EXCEPT ![scan.client] = scan.best]
  /\ scan' = NoScan
  /\ seen' = [s \in Server |-> {}]
  /\ UNCHANGED <<main, starting, old, logincount, tick, lost, faults>>

-----------------------------------------------------------------------------
(* A client that has been told a server connects to it, and waits in its   *)
(* backlog (Accept) unless nobody has the port or it gives up.             *)
Refused(c) ==
  /\ client[c] = "told"
  /\ Send({c}, "away")
  /\ UNCHANGED <<main, starting, old, Redis, tick, scan, lost, faults>>

(* It leaves; the io thread that reads its session removes it.             *)
Leave(c) ==
  /\ client[c] = "in"
  /\ Send({c}, "left")
  /\ UNCHANGED <<main, starting, old, Redis, tick, scan, lost, faults>>

Remove(c) ==
  /\ client[c] = "left"
  /\ Send({c}, "away")
  /\ UNCHANGED <<main, starting, old, Redis, tick, scan, lost, faults>>

(* Its network ends without a word, and IsHeartbeatExpired 20 s later.     *)
HeartbeatExpires(c) ==
  /\ client[c] = "in"
  /\ Send({c}, "late")
  /\ UNCHANGED <<main, starting, old, Redis, tick, scan, lost, faults>>

(* The user logs in on another connection, maybe with a client that is not *)
(* in Client: the session is told to go offline and erased from sessions_, *)
(* but its read goes on.                                                   *)
Displace(c) ==
  /\ client[c] \in {"in", "late"}
  /\ Send({c}, "displaced")
  /\ UNCHANGED <<main, starting, old, Redis, tick, scan, lost, faults>>

(* It closes its connection, or sends something, which CheckValid refuses. *)
(* A silent one stays: the timer does not see it any more.                 *)
DisplacedEnds(c) ==
  /\ client[c] = "displaced"
  /\ Send({c}, "away")
  /\ UNCHANGED <<main, starting, old, Redis, tick, scan, lost, faults>>

-----------------------------------------------------------------------------
Main(s) ==
  \/ Start(s) \/ Bind(s) \/ BindFails(s)
  \/ Tick(s) \/ Report(s) \/ ReportFails(s) \/ Expire(s)
  \/ Signal(s) \/ PoolStop(s) \/ WorkersHang(s) \/ End(s) \/ Delete(s) \/ Crash(s)

Status == HGet \/ HGetFails \/ Tell

Move(c) ==
  \/ GetChatServer(c) \/ Accept(c) \/ Refused(c)
  \/ Leave(c) \/ Remove(c) \/ HeartbeatExpires(c) \/ Displace(c) \/ DisplacedEnds(c)

Next == (\E s \in Server : Main(s)) \/ Status \/ (\E c \in Client : Move(c))

Spec == Init /\ [][Next]_vars

(* The main thread of a server goes on and its timer fires.  Nobody has to *)
(* start or stop a server, and no client has to come or leave.             *)
FairSpec ==
  /\ Spec
  /\ \A s \in Server :
       /\ WF_vars(Tick(s) \/ Report(s) \/ Expire(s))
       /\ WF_vars(PoolStop(s) \/ WorkersHang(s) \/ End(s))
       /\ WF_vars(Bind(s) \/ BindFails(s)) /\ WF_vars(Delete(s))

-----------------------------------------------------------------------------
(* A client is sent to a server that had, at some moment of the request,   *)
(* no more sessions listed than any other server had at some moment of it, *)
(* although servers report, start and stop between the reads; one that     *)
(* was not listed at any moment is chosen only if another was unlisted too.*)
LeastLoaded ==
  [][\A c \in Client : client[c] = "asking" /\ client'[c] = "told" =>
       \A s \in Server : \E v \in seen[at'[c]], w \in seen[s] : Level(v) <= Level(w)]_vars

(* The count of a server is gone once no process of its name is left,      *)
(* whichever of them came and went last, unless one crashed or could not   *)
(* delete it (the Defer of main).                                          *)
StoppedIsUnlisted ==
  \A s \in Server :
    main[s] = "down" /\ ~starting[s] /\ ~old[s] /\ ~lost[s] => logincount[s] = None

(* A server that runs on is listed with the sessions it has, once they     *)
(* have stopped changing, although a second start, or the end of an        *)
(* earlier process, may have reset or removed its count.                   *)
CountCatchesUp ==
  \A s \in Server :
    <>[](main[s] \in Serving) /\ <>[][FALSE]_(Sessions(s))
      => <>[](main[s] \in Serving /\ logincount[s] = Cardinality(Sessions(s)))

(* The io threads that a stop waits for end when the last connection that  *)
(* is read from has, sessions_ or not, since nobody comes in any more; the *)
(* process then ends, or hangs in LogicSystem::Shutdown and nowhere else.  *)
(* (A client that stays or is silent for ever keeps a stop waiting.)       *)
StopEnds ==
  \A s \in Server :
    main[s] = "join" /\ Reads(s) = {} ~> main[s] \in {"down", "stuck"}
=============================================================================
