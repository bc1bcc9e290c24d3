--------------------------- MODULE Cluster_proofs ---------------------------
(***************************************************************************)
(* Proofs about Cluster, for any servers, clients and faults.              *)
(***************************************************************************)
EXTENDS Cluster, FiniteSetTheorems, TLAPS

(* Counts are numbers, and so is INT_MAX.                                  *)
LEMMA Counts ==
  /\ Cardinality(Client) \in Nat /\ INT_MAX \in Nat /\ 0 \in Count
  /\ \A v \in Count \cup {None} : Level(v) \in Nat /\ Level(v) <= INT_MAX
<1>1. Cardinality(Client) \in Nat
  BY FS_CardinalityType, ClusterAssumption
<1> QED
  BY <1>1 DEF INT_MAX, Count, Level

(* So many clients are a count.                                            *)
LEMMA Some ==
  ASSUME NEW cs, cs \subseteq Client
  PROVE  Cardinality(cs) \in Count
<1>1. IsFiniteSet(cs) /\ Cardinality(cs) <= Cardinality(Client)
  BY FS_Subset, ClusterAssumption
<1>2. Cardinality(cs) \in Nat
  BY <1>1, FS_CardinalityType
<1> QED
  BY <1>1, <1>2, Counts DEF Count

(* Send keeps the types.                                                   *)
Phase == {"away", "asking", "told", "in", "late", "left", "displaced"}

LEMMA SendTyped ==
  ASSUME NEW cs, NEW p \in Phase, Send(cs, p),
         client \in [Client -> Phase], at \in [Client -> Server \cup {None}]
  PROVE  client' \in [Client -> Phase] /\ at' \in [Client -> Server \cup {None}]
BY DEF Send

(* A change of a count keeps the types.                                    *)
LEMMA SetCountTyped ==
  ASSUME NEW s \in Server, NEW v \in Count \cup {None}, SetCount(s, v),
         logincount \in [Server -> Count \cup {None}],
         seen \in [Server -> SUBSET (Count \cup {None})]
  PROVE  /\ logincount' \in [Server -> Count \cup {None}]
         /\ seen' \in [Server -> SUBSET (Count \cup {None})]
BY DEF SetCount

(* So does a fault.                                                        *)
LEMMA FaultTyped ==
  ASSUME Fault, faults \in 0 .. MaxFaults
  PROVE  faults' \in 0 .. MaxFaults
BY ClusterAssumption DEF Fault

(* So does the comparison of the next server, whatever is read of it.      *)
Scan == [client : Client \cup {None}, next : 1 .. Len(ServerList) + 1,
         best : Server \cup {None}, least : Nat]

LEMMA ComparedTyped ==
  ASSUME scan \in Scan, ToRead, NEW v \in Nat
  PROVE  /\ scan.next \in DOMAIN ServerList /\ ServerList[scan.next] \in Server
         /\ Compared(ServerList[scan.next], v) \in Scan
<1>1. Len(ServerList) \in Nat /\ scan.next \in 1 .. Len(ServerList)
  BY ClusterAssumption DEF Scan, ToRead
<1>2. ServerList[scan.next] \in Server
  BY <1>1, ClusterAssumption DEF Server
<1>3. /\ scan.client \in Client \cup {None} /\ scan.best \in Server \cup {None}
      /\ scan.least \in Nat /\ scan.next + 1 \in 1 .. Len(ServerList) + 1
  BY <1>1 DEF Scan
<1>4. Compared(ServerList[scan.next], v) \in Scan
  BY <1>2, <1>3 DEF Scan, Compared
<1>5. scan.next \in DOMAIN ServerList
  BY <1>1, ClusterAssumption
<1> QED
  BY <1>2, <1>4, <1>5

(* Every variable keeps its type.                                          *)
THEOREM TypeCorrect == Spec => []TypeOK
<1>1. Init => TypeOK
  BY Counts, ClusterAssumption DEF Init, TypeOK, NoTick, NoScan, Count
<1>2. TypeOK /\ [Next]_vars => TypeOK'
  <2> SUFFICES ASSUME TypeOK, [Next]_vars PROVE TypeOK'
    OBVIOUS
  <2> USE DEF TypeOK, Serving
  <2>1. ASSUME NEW s \in Server, Start(s) PROVE TypeOK'
    BY <2>1, SetCountTyped, FaultTyped, Counts DEF Start, Clients
  <2>2. ASSUME NEW s \in Server, Bind(s) PROVE TypeOK'
      BY <2>2 DEF Bind, Redis, Clients
  <2>3. ASSUME NEW s \in Server, BindFails(s) PROVE TypeOK'
      BY <2>3, SetCountTyped DEF BindFails, RemoveCount, Clients
  <2>4. ASSUME NEW s \in Server, Tick(s) PROVE TypeOK'
      BY <2>4, SendTyped, Some DEF Tick, Redis, Sessions, Late, Phase
  <2>5. ASSUME NEW s \in Server, Report(s) PROVE TypeOK'
      BY <2>5, SetCountTyped DEF Report, ReportCount, Clients
  <2>6. ASSUME NEW s \in Server, ReportFails(s) PROVE TypeOK'
    BY <2>6, FaultTyped DEF ReportFails, Redis, Clients
  <2>7. ASSUME NEW s \in Server, Expire(s) PROVE TypeOK'
    <3>1. Send({c \in tick[s].expired : client[c] = "left" /\ at[c] = s}, "away")
      BY <2>7 DEF Expire
    <3>2. client' \in [Client -> Phase] /\ at' \in [Client -> Server \cup {None}]
      BY <3>1, SendTyped DEF Phase
    <3>3. NoTick \in [count : Count, expired : SUBSET Client]
      BY Counts DEF NoTick
    <3> QED
      BY <2>7, <3>2, <3>3 DEF Expire, Redis, Phase
  <2>8. ASSUME NEW s \in Server, Signal(s) PROVE TypeOK'
      BY <2>8 DEF Signal, Redis, Clients
  <2>9. ASSUME NEW s \in Server, PoolStop(s) PROVE TypeOK'
      BY <2>9 DEF PoolStop, Redis, Clients
  <2>10. ASSUME NEW s \in Server, End(s) \/ WorkersHang(s) PROVE TypeOK'
      BY <2>10 DEF End, WorkersHang, Redis, Clients
  <2>11. ASSUME NEW s \in Server, Delete(s) PROVE TypeOK'
    <3>1. faults' \in 0 .. MaxFaults /\ lost' \in [Server -> BOOLEAN]
      BY <2>11, FaultTyped DEF Delete
    <3>2. /\ logincount' \in [Server -> Count \cup {None}]
          /\ seen' \in [Server -> SUBSET (Count \cup {None})]
      BY <2>11, SetCountTyped DEF Delete, RemoveCount, Redis
    <3> QED
      BY <2>11, <3>1, <3>2 DEF Delete, Clients
  <2>12. ASSUME NEW s \in Server, Crash(s) PROVE TypeOK'
    <3>1. client' \in [Client -> Phase] /\ at' \in [Client -> Server \cup {None}]
      BY <2>12, SendTyped DEF Crash, Phase
    <3>2. NoTick \in [count : Count, expired : SUBSET Client]
      BY Counts DEF NoTick
    <3> QED
      BY <2>12, <3>1, <3>2, FaultTyped DEF Crash, Redis, Phase
  <2>13. ASSUME HGet PROVE TypeOK'
    <3>1. Level(logincount[ServerList[scan.next]]) \in Nat
      <4>1. ServerList[scan.next] \in Server
        BY <2>13, ComparedTyped DEF HGet, Scan
      <4> QED
        BY <4>1, Counts
    <3>2. scan' \in Scan
      BY <2>13, <3>1, ComparedTyped DEF HGet, Scan
    <3> QED
      BY <2>13, <3>2 DEF HGet, Redis, Clients, Scan
  <2>14. ASSUME HGetFails PROVE TypeOK'
    <3>1. scan' \in Scan /\ ServerList[scan.next] \in Server
      BY <2>14, Counts, ComparedTyped DEF HGetFails, Scan
    <3>2. seen' \in [Server -> SUBSET (Count \cup {None})]
      BY <2>14, <3>1 DEF HGetFails
    <3> QED
      BY <2>14, <3>1, <3>2, FaultTyped DEF HGetFails, Clients, Scan
  <2>15. ASSUME Tell PROVE TypeOK'
      BY <2>15, Counts, ClusterAssumption DEF Tell, NoScan
  <2>16. ASSUME NEW c \in Client, GetChatServer(c) PROVE TypeOK'
    <3>1. client' \in [Client -> Phase] /\ at' \in [Client -> Server \cup {None}]
      BY <2>16, SendTyped DEF GetChatServer, Phase
    <3>2. seen' \in [Server -> SUBSET (Count \cup {None})]
      BY <2>16 DEF GetChatServer
    <3>3. scan' \in Scan
      <4>1. scan' = [client |-> c, next |-> 1, best |-> None, least |-> INT_MAX]
        BY <2>16 DEF GetChatServer, NoScan
      <4>2. INT_MAX \in Nat /\ 1 \in 1 .. Len(ServerList) + 1
        BY Counts, ClusterAssumption
      <4> QED BY <4>1, <4>2 DEF Scan
    <3> QED
      BY <2>16, <3>1, <3>2, <3>3 DEF GetChatServer, Phase, Scan
  <2>17. ASSUME NEW c \in Client, Accept(c) PROVE TypeOK'
      BY <2>17, SendTyped DEF Accept, Redis, Phase
  <2>18. ASSUME NEW c \in Client, Refused(c) PROVE TypeOK'
      BY <2>18, SendTyped DEF Refused, Redis, Phase
  <2>19. ASSUME NEW c \in Client, Leave(c) PROVE TypeOK'
      BY <2>19, SendTyped DEF Leave, Redis, Phase
  <2>20. ASSUME NEW c \in Client, Remove(c) PROVE TypeOK'
      BY <2>20, SendTyped DEF Remove, Redis, Phase
  <2>21. ASSUME NEW c \in Client, HeartbeatExpires(c) \/ Displace(c) \/ DisplacedEnds(c)
         PROVE  TypeOK'
      BY <2>21, SendTyped DEF HeartbeatExpires, Displace, DisplacedEnds, Redis, Phase
  <2>22. CASE UNCHANGED vars
    BY <2>22 DEF vars
  <2> QED
    BY <2>1, <2>2, <2>3, <2>4, <2>5, <2>6, <2>7, <2>8, <2>9, <2>10, <2>11, <2>12, <2>13, <2>14, <2>15, <2>16, <2>17, <2>18, <2>19, <2>20, <2>21, <2>22 DEF Next, Main, Status, Move
<1> QED
  BY <1>1, <1>2, PTL DEF Spec

(* The count of a server is gone once no process of its name is left,      *)
(* unless one crashed or could not delete it.                              *)
THEOREM StoppedIsUnlistedHolds == Spec => []StoppedIsUnlisted
<1>1. Init => StoppedIsUnlisted
  BY DEF Init, StoppedIsUnlisted
<1>2. TypeOK /\ StoppedIsUnlisted /\ [Next]_vars => StoppedIsUnlisted'
  <2> SUFFICES ASSUME TypeOK, StoppedIsUnlisted, [Next]_vars PROVE StoppedIsUnlisted'
    OBVIOUS
  <2> USE DEF TypeOK, StoppedIsUnlisted
  <2>1. ASSUME NEW s \in Server, Start(s) PROVE StoppedIsUnlisted'
    BY <2>1 DEF Start, SetCount, Clients
  <2>2. ASSUME NEW s \in Server, Bind(s) \/ BindFails(s) PROVE StoppedIsUnlisted'
    BY <2>2 DEF Bind, BindFails, RemoveCount, SetCount, Redis
  <2>3. ASSUME NEW s \in Server, Tick(s) \/ Report(s) \/ ReportFails(s) \/ Expire(s)
        PROVE  StoppedIsUnlisted'
    BY <2>3 DEF Tick, Report, ReportCount, ReportFails, Expire, SetCount, Redis
  <2>4. ASSUME NEW s \in Server, Signal(s) \/ PoolStop(s) \/ End(s) \/ WorkersHang(s)
        PROVE  StoppedIsUnlisted'
    BY <2>4 DEF Signal, PoolStop, End, WorkersHang, Redis
  <2>5. ASSUME NEW s \in Server, Delete(s) PROVE StoppedIsUnlisted'
    BY <2>5 DEF Delete, RemoveCount, SetCount, Redis
  <2>6. ASSUME NEW s \in Server, Crash(s) PROVE StoppedIsUnlisted'
    BY <2>6 DEF Crash, Redis
  <2>7. ASSUME Status PROVE StoppedIsUnlisted'
    BY <2>7 DEF Status, HGet, HGetFails, Tell, Redis
  <2>8. ASSUME NEW c \in Client, Move(c) PROVE StoppedIsUnlisted'
    BY <2>8 DEF Move, GetChatServer, Accept, Refused, Leave, Remove, HeartbeatExpires,
       Displace, DisplacedEnds, Redis
  <2>9. CASE UNCHANGED vars
    BY <2>9 DEF vars
  <2> QED
    BY <2>1, <2>2, <2>3, <2>4, <2>5, <2>6, <2>7, <2>8, <2>9 DEF Next, Main
<1> QED
  BY <1>1, <1>2, TypeCorrect, PTL DEF Spec

-----------------------------------------------------------------------------
(* StatusServer's scan: what it holds as the least is what the best server *)
(* had at some moment of the request, and no server read so far had fewer  *)
(* at every moment of it.                                                  *)
SeenInv ==
  scan.client # None =>
    /\ client[scan.client] = "asking"
    /\ \A s \in Server : logincount[s] \in seen[s]

BestInv ==
  scan.client # None /\ scan.next > 1 =>
    scan.best \in Server /\ \E v \in seen[scan.best] : Level(v) <= scan.least

LeastInv ==
  scan.client # None =>
    \A i \in DOMAIN ServerList :
      i < scan.next => \E w \in seen[ServerList[i]] : scan.least <= Level(w)

AskInv == \A c \in Client : client[c] = "asking" => scan.client = c

ScanInv == SeenInv /\ BestInv /\ LeastInv /\ AskInv

(* A step that leaves the scan alone and only adds to what has been seen.  *)
LEMMA ScanKept ==
  ASSUME TypeOK, ScanInv, UNCHANGED scan,
         \A s \in Server : seen[s] \subseteq seen'[s],
         scan.client # None => \A s \in Server : logincount'[s] \in seen'[s],
         \A c \in Client : client'[c] = "asking" <=> client[c] = "asking"
  PROVE  ScanInv'
<1>1. SeenInv' /\ AskInv'
  BY DEF TypeOK, ScanInv, SeenInv, AskInv
<1>2. BestInv'
  BY DEF TypeOK, ScanInv, BestInv
<1>3. LeastInv'
  BY DEF TypeOK, ScanInv, LeastInv, Server
<1> QED
  BY <1>1, <1>2, <1>3 DEF ScanInv

(* Reading the next server keeps what is known of the best one.            *)
LEMMA ScanNext ==
  ASSUME TypeOK, ScanInv, ToRead, scan.client # None,
         NEW v \in seen'[ServerList[scan.next]],
         scan' = Compared(ServerList[scan.next], Level(v)),
         v \in Count \cup {None},
         \A s \in Server : seen[s] \subseteq seen'[s],
         UNCHANGED <<logincount, client>>
  PROVE  ScanInv'
<1> DEFINE n == scan.next
<1> DEFINE b == ServerList[n]
<1>1. n \in DOMAIN ServerList /\ b \in Server /\ n \in Nat /\ Level(v) \in Nat /\ scan.least \in Nat
  <2>1. scan \in Scan /\ Level(v) \in Nat
    BY Counts DEF TypeOK, Scan
  <2>2. n \in DOMAIN ServerList /\ b \in Server
    BY <2>1, ComparedTyped
  <2>3. n \in Nat /\ scan.least \in Nat
    BY <2>1, ClusterAssumption DEF Scan
  <2> QED
    BY <2>1, <2>2, <2>3
<1>2. /\ scan'.client = scan.client /\ scan'.next = n + 1
      /\ scan'.best = IF Better(Level(v)) THEN b ELSE scan.best
      /\ scan'.least = IF Better(Level(v)) THEN Level(v) ELSE scan.least
  BY DEF Compared
<1>3. SeenInv' /\ AskInv'
  BY <1>2 DEF TypeOK, ScanInv, SeenInv, AskInv
<1>4. scan'.least <= Level(v) /\ (n > 1 => scan'.least <= scan.least)
  BY <1>1, <1>2 DEF Better
<1>5. BestInv'
  <2>1. CASE Better(Level(v))
    BY <1>1, <1>2, <2>1 DEF BestInv
  <2>2. CASE ~Better(Level(v))
    <3>1. n > 1 /\ scan'.best = scan.best /\ scan'.least = scan.least
      BY <1>1, <1>2, <2>2 DEF Better, TypeOK
    <3> QED
      BY <3>1 DEF ScanInv, BestInv
  <2> QED
    BY <2>1, <2>2
<1>6. LeastInv'
  <2> SUFFICES ASSUME NEW i \in DOMAIN ServerList, i < n + 1
               PROVE  \E w \in seen'[ServerList[i]] : scan'.least <= Level(w)
    BY <1>2 DEF LeastInv
  <2>1. i \in Nat \ {0} /\ ServerList[i] \in Server
    BY ClusterAssumption DEF Server
  <2>2. CASE i = n
    BY <1>4, <2>2
  <2>3. CASE i < n
    <3>1. PICK w \in seen[ServerList[i]] : scan.least <= Level(w)
      BY <2>3 DEF ScanInv, LeastInv
    <3>2. Level(w) \in Nat
      BY <2>1, Counts DEF TypeOK
    <3>3. scan'.least <= Level(w) /\ w \in seen'[ServerList[i]]
      BY <1>1, <1>2, <1>4, <2>1, <2>3, <3>1, <3>2
    <3> QED
      BY <3>3
  <2> QED
    BY <1>1, <2>1, <2>2, <2>3
<1> QED
  BY <1>3, <1>5, <1>6 DEF ScanInv

LEMMA ScanInductive == TypeOK /\ ScanInv /\ [Next]_vars => ScanInv'
<1> SUFFICES ASSUME TypeOK, ScanInv, [Next]_vars PROVE ScanInv'
  OBVIOUS
<1>1. ASSUME NEW s \in Server, NEW v, SetCount(s, v), UNCHANGED <<scan, client>>
      PROVE  ScanInv'
  <2>1. \A r \in Server : seen[r] \subseteq seen'[r]
    BY <1>1 DEF SetCount, TypeOK
  <2>2. scan.client # None => \A r \in Server : logincount'[r] \in seen'[r]
    BY <1>1 DEF SetCount, TypeOK, ScanInv, SeenInv
  <2> QED
    BY <1>1, <2>1, <2>2, ScanKept
<1>2. ASSUME UNCHANGED <<scan, logincount, seen>>,
             \A c \in Client : client'[c] = "asking" <=> client[c] = "asking"
      PROVE  ScanInv'
  BY <1>2, ScanKept DEF ScanInv, SeenInv
<1>3. ASSUME NEW s \in Server, Main(s) PROVE ScanInv'
  <2>1. CASE Start(s) \/ BindFails(s) \/ Report(s)
    BY <2>1, <1>1 DEF Start, BindFails, Report, RemoveCount, ReportCount, Clients
  <2>2. CASE Bind(s) \/ ReportFails(s) \/ Signal(s) \/ PoolStop(s) \/ End(s) \/ WorkersHang(s)
    BY <2>2, <1>2 DEF Bind, ReportFails, Signal, PoolStop, End, WorkersHang, Redis, Clients
  <2>3. CASE Tick(s) \/ Expire(s) \/ Crash(s)
    BY <2>3, <1>2 DEF Tick, Expire, Crash, Send, Late, Sessions, Reads, Redis, TypeOK
  <2>4. CASE Delete(s)
    BY <2>4, <1>1, <1>2 DEF Delete, RemoveCount, Redis, Clients
  <2> QED
    BY <1>3, <2>1, <2>2, <2>3, <2>4 DEF Main
<1>4. ASSUME HGet PROVE ScanInv'
  <2>1. ServerList[scan.next] \in Server
    BY <1>4, ComparedTyped DEF HGet, TypeOK, Scan
  <2> QED
    BY <1>4, <2>1, ScanNext DEF HGet, Redis, Clients, ScanInv, SeenInv, TypeOK
<1>5. ASSUME HGetFails PROVE ScanInv'
  <2>1. ServerList[scan.next] \in Server
    BY <1>5, ComparedTyped DEF HGetFails, TypeOK, Scan
  <2>2. None \in seen'[ServerList[scan.next]] /\ \A s \in Server : seen[s] \subseteq seen'[s]
    BY <1>5, <2>1 DEF HGetFails, TypeOK
  <2> QED
    BY <1>5, <2>1, <2>2, ScanNext DEF HGetFails, Clients, Level
<1>6. ASSUME Tell PROVE ScanInv'
  BY <1>6 DEF Tell, NoScan, ScanInv, SeenInv, BestInv, LeastInv, AskInv, TypeOK
<1>7. ASSUME NEW c \in Client, GetChatServer(c) PROVE ScanInv'
  <2>1. scan' = [client |-> c, next |-> 1, best |-> None, least |-> INT_MAX]
    BY <1>7 DEF GetChatServer, NoScan
  <2>2. SeenInv'
    BY <1>7, <2>1 DEF GetChatServer, Send, SeenInv, TypeOK
  <2>3. AskInv'
    BY <1>7, <2>1, ClusterAssumption DEF GetChatServer, Send, AskInv, ScanInv, TypeOK
  <2>4. BestInv' /\ LeastInv'
    BY <2>1, ClusterAssumption DEF BestInv, LeastInv
  <2> QED
    BY <2>2, <2>3, <2>4 DEF ScanInv
<1>8. ASSUME NEW c \in Client,
             \/ Accept(c) \/ Refused(c) \/ Leave(c) \/ Remove(c)
             \/ HeartbeatExpires(c) \/ Displace(c) \/ DisplacedEnds(c)
      PROVE  ScanInv'
  <2>1. ASSUME NEW p \in {"away", "in", "late", "left", "displaced"}, NEW d \in Client,
               client[c] # "asking", Send({c}, p)
        PROVE  client'[d] = "asking" <=> client[d] = "asking"
    BY <2>1 DEF Send, TypeOK
  <2> QED
    BY <1>8, <1>2, <2>1 DEF Accept, Refused, Leave, Remove, HeartbeatExpires, Displace,
       DisplacedEnds, Redis
<1>9. CASE UNCHANGED vars
  BY <1>9, <1>2 DEF vars
<1> QED
  BY <1>3, <1>4, <1>5, <1>6, <1>7, <1>8, <1>9 DEF Next, Status, Move

(* A client is sent to a server that had, at some moment of the request,   *)
(* no more sessions listed than any other server had at some moment of it. *)
THEOREM LeastLoadedHolds == Spec => LeastLoaded
<1>1. Init => ScanInv
  BY DEF Init, NoScan, ScanInv, SeenInv, BestInv, LeastInv, AskInv
<1> DEFINE Chosen(c) == client[c] = "asking" /\ client'[c] = "told"
<1>2. ASSUME TypeOK, ScanInv, [Next]_vars, NEW c \in Client, Chosen(c), NEW s \in Server
      PROVE  \E v \in seen[at'[c]], w \in seen[s] : Level(v) <= Level(w)
  <2>1. Tell
    <3>1. ASSUME NEW p, NEW cs, Send(cs, p), p # "told" PROVE FALSE
      BY <1>2, <3>1 DEF Send, TypeOK
    <3>2. ASSUME client' = client PROVE FALSE
      BY <1>2, <3>2
    <3>3. ASSUME NEW r \in Server, Main(r) PROVE FALSE
      BY <3>1, <3>2, <3>3 DEF Main, Start, Bind, BindFails, Tick, Report, ReportFails, Expire,
         Signal, PoolStop, WorkersHang, End, Delete, Crash, Clients
    <3>4. ASSUME NEW d \in Client, Move(d) PROVE FALSE
      BY <3>1, <3>4 DEF Move, GetChatServer, Accept, Refused, Leave, Remove, HeartbeatExpires,
         Displace, DisplacedEnds
    <3>5. ASSUME HGet \/ HGetFails PROVE FALSE
      BY <3>2, <3>5 DEF HGet, HGetFails, Clients
    <3> QED
      BY <1>2, <3>2, <3>3, <3>4, <3>5 DEF Next, Status, vars
  <2>2. scan.client = c /\ c # None /\ at'[c] = scan.best
    BY <1>2, <2>1, ClusterAssumption DEF Tell, ScanInv, AskInv, TypeOK
  <2>3. PICK i \in DOMAIN ServerList : ServerList[i] = s
    BY DEF Server
  <2>4. Len(ServerList) \in Nat /\ i \in 1 .. Len(ServerList) /\ scan.next \in Nat
    BY <1>2, ClusterAssumption DEF TypeOK
  <2>5. i < scan.next /\ scan.next > 1
    BY <2>1, <2>4 DEF Tell, ToRead
  <2>6. PICK v \in seen[scan.best] : Level(v) <= scan.least
    BY <1>2, <2>2, <2>5 DEF ScanInv, BestInv
  <2>7. PICK w \in seen[s] : scan.least <= Level(w)
    BY <1>2, <2>2, <2>3, <2>5 DEF ScanInv, LeastInv
  <2>8. Level(v) \in Nat /\ Level(w) \in Nat /\ scan.least \in Nat
    BY <1>2, <2>2, <2>5, Counts DEF TypeOK, ScanInv, BestInv
  <2>9. Level(v) <= Level(w)
    BY <2>6, <2>7, <2>8
  <2> QED
    BY <2>2, <2>9
<1>3. TypeOK /\ ScanInv /\ [Next]_vars =>
        [\A c \in Client : client[c] = "asking" /\ client'[c] = "told" =>
           \A s \in Server : \E v \in seen[at'[c]], w \in seen[s] : Level(v) <= Level(w)]_vars
  BY <1>2
<1> QED
  BY <1>1, <1>3, TypeCorrect, ScanInductive, PTL DEF Spec, LeastLoaded

=============================================================================
