-------------------------- MODULE ConnectionServers --------------------------
(***************************************************************************)
(* Passive partners and the servers that listen for them                   *)
(* (core/s7_partner.cpp: TServersManager, TConnectionServer, Start and     *)
(* Stop of TSnap7Partner).                                                 *)
(*                                                                         *)
(* One application thread starts and stops partners; each server has a     *)
(* listener thread that accepts the connections peers make to its address  *)
(* and hands each to the partner that waits for that peer.  Whoever uses   *)
(* an empty place of the table of servers or a deleted server ends the     *)
(* program: crashed.  What a connected partner does is in module Partner.  *)
(***************************************************************************)
EXTENDS Integers, Sequences, FiniteSets

CONSTANTS
  PartnerSet,   \* passive partners
  Addresses,    \* local addresses
  Peers,        \* addresses of peers
  MaxAdapters,  \* places in the table of servers, 256
  MaxPartners,  \* places for partners at a server, 256
  Given,        \* <<p, a, x>>: partner p may be started at address a for peer x
  Zeroed,       \* partners and addresses whose Stopping and Destroying happen to be FALSE at first
  MaxWaiting,   \* bound on the connections that wait or are in the hands of listeners
  MaxCalls      \* bound on the calls of Start and Stop

ASSUME ConnectionServersAssumption ==
  /\ MaxAdapters \in Nat \ {0} /\ MaxPartners \in Nat \ {0} /\ MaxCalls \in Nat
  /\ Given \subseteq PartnerSet \X Addresses \X Peers
  /\ "none" \notin PartnerSet \cup Peers

VARIABLES
  ServersManager,          \* it exists
  Servers, ServersCount,   \* its table; a place holds a server's number or 0
  server, created,         \* the servers made so far, their number
  listener,                \* where the listener thread of a server is
  FServer, PeerAddress, Running, Stopping, \* members of a partner
  worker,                  \* its worker thread runs
  socket,                  \* the peer it is connected with
  registered, shared,      \* histories: RegisterPartner took it; a server has gone on when it stopped
  app, calls,              \* the application's call and the number of calls
  backlog,                 \* connections waiting at an address
  crashed

managerVars == <<ServersManager, Servers, ServersCount>>
partnerVars == <<FServer, PeerAddress, Running, Stopping, worker, socket, registered, shared>>
vars == <<managerVars, server, created, listener, partnerVars, app, calls, backlog, crashed>>

Numbers == 1..MaxCalls
Slots == 0..MaxAdapters - 1
Places == 0..MaxPartners - 1
Alive(s) == s \in Numbers /\ server[s].state = "alive"
\* The first of some places, which a walk over the table comes to.
Firsts(S) == {i \in S : \A j \in S : i <= j}
AppIdle == [place |-> "idle"]
ListenerIdle == [place |-> "idle"]

\* Nothing initialises Stopping, nor Destroying of a server.
Init ==
  /\ ServersManager = FALSE
  /\ Servers = [c \in Slots |-> 0] /\ ServersCount = 0
  /\ server = [s \in Numbers |-> [state |-> "none"]] /\ created = 0
  /\ listener = [s \in Numbers |-> [place |-> "ended"]]
  /\ FServer = [p \in PartnerSet |-> 0]
  /\ PeerAddress = [p \in PartnerSet |-> "none"]
  /\ Running = [p \in PartnerSet |-> FALSE]
  /\ Stopping \in {f \in [PartnerSet -> BOOLEAN] : \A p \in Zeroed \cap PartnerSet : ~f[p]}
  /\ worker = [p \in PartnerSet |-> FALSE]
  /\ socket = [p \in PartnerSet |-> "none"]
  /\ registered = [p \in PartnerSet |-> FALSE] /\ shared = [p \in PartnerSet |-> FALSE]
  /\ app = AppIdle /\ calls = 0
  /\ backlog = [a \in Addresses |-> <<>>]
  /\ crashed = FALSE

-----------------------------------------------------------------------------
(* Start.                                                                  *)

\* The addresses are taken over even if the partner is running.
Start(p) ==
  /\ app = AppIdle /\ calls < MaxCalls /\ calls' = calls + 1
  /\ \E a \in Addresses, x \in Peers :
       /\ <<p, a, x>> \in Given
       /\ PeerAddress' = [PeerAddress EXCEPT ![p] = x]
       /\ app' = IF Running[p] THEN AppIdle ELSE [place |-> "getserver", partner |-> p, address |-> a]
  /\ UNCHANGED <<managerVars, server, created, listener, FServer, Running, Stopping, worker, socket,
                 registered, shared, backlog, crashed>>

\* The walk over the first ServersCount places stops at the server of the
\* address or at an empty place.
Stops(a) == {c \in Slots : c < ServersCount /\ (Servers[c] = 0 \/ server[Servers[c]].LocalBind = a)}

GetServer ==
  /\ app.place = "getserver"
  /\ \E c \in Firsts(Stops(app.address)) :
       IF Servers[c] = 0
         THEN crashed' = TRUE /\ UNCHANGED <<FServer, app>>
         ELSE /\ FServer' = [FServer EXCEPT ![app.partner] = Servers[c]]
              /\ app' = [app EXCEPT !.place = "register"]
              /\ UNCHANGED crashed
  /\ ServersManager' = TRUE
  /\ UNCHANGED <<Servers, ServersCount, server, created, listener, PeerAddress, Running, Stopping, worker, socket,
                 registered, shared, calls, backlog>>

Creates == app.place = "getserver" /\ Stops(app.address) = {} /\ ServersManager' = TRUE

\* CreateServer and AddServer.
CreateServer ==
  /\ Creates /\ ServersCount < MaxAdapters
  /\ ~ \E s \in Numbers : Alive(s) /\ server[s].LocalBind = app.address
  /\ LET s == created + 1
     IN /\ \E destroying \in IF app.address \in Zeroed THEN {FALSE} ELSE BOOLEAN :
             server' = [server EXCEPT ![s] =
               [state |-> "alive", LocalBind |-> app.address, Destroying |-> destroying, Terminated |-> FALSE,
                Partners |-> [i \in Places |-> "none"], PartnersCount |-> 0]]
        /\ listener' = [listener EXCEPT ![s] = ListenerIdle]
        /\ \E c \in Firsts({c \in Slots : Servers[c] = 0}) : Servers' = [Servers EXCEPT ![c] = s]
        /\ FServer' = [FServer EXCEPT ![app.partner] = s]
  /\ created' = created + 1
  /\ ServersCount' = ServersCount + 1
  /\ app' = [app EXCEPT !.place = "register"]
  /\ UNCHANGED <<PeerAddress, Running, Stopping, worker, socket, registered, shared, calls, backlog, crashed>>

\* No room, or the address cannot be bound: Start fails.
CreateServerFails ==
  /\ Creates
  /\ FServer' = [FServer EXCEPT ![app.partner] = 0]
  /\ app' = AppIdle
  /\ UNCHANGED <<Servers, ServersCount, server, created, listener, PeerAddress, Running, Stopping, worker, socket,
                 registered, shared, calls, backlog, crashed>>

\* Seeded fault: the search ends at the number of partners, not of places.
FindPartnerCounted(s, x) ==
  LET found == Firsts({i \in Places : i < server[s].PartnersCount /\ server[s].Partners[i] # "none"
                                        /\ PeerAddress[server[s].Partners[i]] = x})
  IN IF found = {} THEN "none" ELSE server[s].Partners[CHOOSE i \in found : TRUE]
FindPartner(s, x) ==
  LET found == Firsts({i \in Places : server[s].Partners[i] # "none" /\ PeerAddress[server[s].Partners[i]] = x})
  IN IF found = {} THEN "none" ELSE server[s].Partners[CHOOSE i \in found : TRUE]

FreePlaces(s) == {i \in Places : server[s].Partners[i] = "none"}

\* Start does not look at what RegisterPartner returns.
RegisterPartner ==
  /\ app.place = "register"
  /\ LET p == app.partner
         s == FServer[p]
     IN IF FindPartner(s, PeerAddress[p]) = "none" /\ FreePlaces(s) # {}
          THEN /\ \E i \in Firsts(FreePlaces(s)) :
                    server' = [server EXCEPT ![s].Partners[i] = p, ![s].PartnersCount = @ + 1]
               /\ registered' = [registered EXCEPT ![p] = TRUE]
          ELSE UNCHANGED <<server, registered>>
  /\ app' = [app EXCEPT !.place = "run"]
  /\ UNCHANGED <<managerVars, created, listener, FServer, PeerAddress, Running, Stopping, worker, socket, shared,
                 calls, backlog, crashed>>

StartWorker ==
  /\ app.place = "run"
  /\ worker' = [worker EXCEPT ![app.partner] = TRUE]
  /\ Running' = [Running EXCEPT ![app.partner] = TRUE]
  /\ app' = AppIdle
  /\ UNCHANGED <<managerVars, server, created, listener, FServer, PeerAddress, Stopping, socket, registered, shared,
                 calls, backlog, crashed>>

-----------------------------------------------------------------------------
(* Stop.                                                                   *)

Stop(p) ==
  /\ app = AppIdle /\ calls < MaxCalls /\ calls' = calls + 1
  /\ Running[p]
  /\ Stopping' = [Stopping EXCEPT ![p] = TRUE]
  /\ app' = [place |-> "closeworker", partner |-> p]
  /\ UNCHANGED <<managerVars, server, created, listener, FServer, PeerAddress, Running, worker, socket,
                 registered, shared, backlog, crashed>>

CloseWorker ==
  /\ app.place = "closeworker"
  /\ worker' = [worker EXCEPT ![app.partner] = FALSE]
  /\ app' = [app EXCEPT !.place = "remove"]
  /\ UNCHANGED <<managerVars, server, created, listener, FServer, PeerAddress, Running, Stopping, socket,
                 registered, shared, calls, backlog, crashed>>

\* Seeded fault: a server with one partner left is deleted.
UnusedOne(count) == count <= 1
Unused(count) == count = 0

\* FServer is not looked at when there is no manager.
RemoveNowhere ==
  /\ app.place = "remove" /\ ~ServersManager
  /\ app' = [app EXCEPT !.place = "disconnect"]
  /\ UNCHANGED <<managerVars, server, created, listener, partnerVars, calls, backlog, crashed>>

RemoveStale ==
  /\ app.place = "remove" /\ ServersManager /\ ~Alive(FServer[app.partner])
  /\ crashed' = TRUE
  /\ UNCHANGED <<managerVars, server, created, listener, partnerVars, app, calls, backlog>>

\* RemovePartner of the server, then of the manager; an unused server leaves the
\* table and its listener is told to end.
RemovePartner ==
  /\ app.place = "remove" /\ ServersManager /\ Alive(FServer[app.partner])
  /\ LET p == app.partner
         s == FServer[p]
         own == {i \in Places : server[s].Partners[i] = p}
         count == server[s].PartnersCount - Cardinality(own)
     IN /\ server' = [server EXCEPT ![s].Partners = [i \in Places |-> IF i \in own THEN "none" ELSE @[i]],
                                    ![s].PartnersCount = count, ![s].Terminated = Unused(count)]
        /\ Servers' = [c \in Slots |-> IF Unused(count) /\ Servers[c] = s THEN 0 ELSE Servers[c]]
        /\ ServersCount' = IF Unused(count) THEN ServersCount - 1 ELSE ServersCount
        /\ app' = [app EXCEPT !.place = IF Unused(count) THEN "delete" ELSE "disconnect"]
        /\ shared' = [shared EXCEPT ![p] = @ \/ ~Unused(count)]
        /\ registered' = [registered EXCEPT ![p] = FALSE]
  /\ UNCHANGED <<ServersManager, created, listener, FServer, PeerAddress, Running, Stopping, worker, socket,
                 calls, backlog, crashed>>

\* Seeded fault: the server is deleted without waiting for its listener.
ListenerDoneNever(s) == TRUE
\* ServerThread has ended; a thread that has not in csTimeout is killed (Kill).
ListenerDone(s) == listener[s].place = "ended"

DeleteServer ==
  /\ app.place = "delete"
  /\ LET s == FServer[app.partner]
     IN /\ ListenerDone(s)
        /\ server' = [server EXCEPT ![s].state = "deleted"]
        /\ backlog' = [backlog EXCEPT ![server[s].LocalBind] = <<>>]
  /\ ServersManager' = (ServersCount > 0)
  /\ app' = [app EXCEPT !.place = "disconnect"]
  /\ UNCHANGED <<Servers, ServersCount, created, listener, partnerVars, calls, crashed>>

Kill ==
  /\ app.place = "delete"
  /\ listener' = [listener EXCEPT ![FServer[app.partner]] = [place |-> "ended"]]
  /\ listener' # listener
  /\ UNCHANGED <<managerVars, server, created, partnerVars, app, calls, backlog, crashed>>

Disconnect ==
  /\ app.place = "disconnect"
  /\ socket' = [socket EXCEPT ![app.partner] = "none"]
  /\ Running' = [Running EXCEPT ![app.partner] = FALSE]
  /\ Stopping' = [Stopping EXCEPT ![app.partner] = FALSE]
  /\ app' = AppIdle
  /\ UNCHANGED <<managerVars, server, created, listener, FServer, PeerAddress, worker, registered, shared,
                 calls, backlog, crashed>>

InCall ==
  \/ GetServer \/ CreateServer \/ CreateServerFails \/ RegisterPartner \/ StartWorker
  \/ CloseWorker \/ RemoveNowhere \/ RemoveStale \/ RemovePartner \/ DeleteServer \/ Disconnect

-----------------------------------------------------------------------------
(* The listener thread of server s.                                        *)

\* SckAccept; Terminated and Destroying are looked at after it.
Accept(s) ==
  /\ listener[s].place = "idle" /\ backlog[server[s].LocalBind] # <<>>
  /\ backlog' = [backlog EXCEPT ![server[s].LocalBind] = Tail(@)]
  /\ listener' = [listener EXCEPT ![s] =
       IF server[s].Terminated \/ server[s].Destroying THEN ListenerIdle
       ELSE [place |-> "find", peer |-> Head(backlog[server[s].LocalBind])]]
  /\ UNCHANGED <<managerVars, server, created, partnerVars, app, calls, crashed>>

\* Incoming: under the lock.
IncomingFind(s) ==
  /\ listener[s].place = "find"
  /\ LET p == FindPartner(s, listener[s].peer)
     IN listener' = [listener EXCEPT ![s] =
          IF p = "none" THEN ListenerIdle ELSE [place |-> "test", peer |-> @.peer, partner |-> p]]
  /\ UNCHANGED <<managerVars, server, created, partnerVars, app, calls, backlog, crashed>>

\* Without it.
IncomingTest(s) ==
  /\ listener[s].place = "test"
  /\ LET p == listener[s].partner
     IN listener' = [listener EXCEPT ![s] =
          IF Stopping[p] \/ socket[p] # "none" THEN ListenerIdle ELSE [@ EXCEPT !.place = "hand"]]
  /\ UNCHANGED <<managerVars, server, created, partnerVars, app, calls, backlog, crashed>>

SetSocket(s) ==
  /\ listener[s].place = "hand"
  /\ socket' = [socket EXCEPT ![listener[s].partner] = listener[s].peer]
  /\ listener' = [listener EXCEPT ![s] = ListenerIdle]
  /\ UNCHANGED <<managerVars, server, created, FServer, PeerAddress, Running, Stopping, worker, registered, shared,
                 app, calls, backlog, crashed>>

ListenerEnds(s) ==
  /\ listener[s].place = "idle" /\ server[s].Terminated
  /\ listener' = [listener EXCEPT ![s] = [place |-> "ended"]]
  /\ UNCHANGED <<managerVars, server, created, partnerVars, app, calls, backlog, crashed>>

ListenerStep(s) == Accept(s) \/ IncomingFind(s) \/ IncomingTest(s) \/ SetSocket(s) \/ ListenerEnds(s)

-----------------------------------------------------------------------------
(* Peers, and the partner's worker that finds its connection closed.       *)

InHand ==
  Cardinality({s \in Numbers : listener[s].place \in {"find", "test", "hand"}})
    + Cardinality(UNION {{a} \X DOMAIN backlog[a] : a \in Addresses})
PeerConnects(a, x) ==
  /\ \E s \in Numbers : Alive(s) /\ server[s].LocalBind = a
  /\ InHand < MaxWaiting
  /\ backlog' = [backlog EXCEPT ![a] = Append(@, x)]
  /\ UNCHANGED <<managerVars, server, created, listener, partnerVars, app, calls, crashed>>

WorkerDisconnects(p) ==
  /\ worker[p] /\ socket[p] # "none"
  /\ socket' = [socket EXCEPT ![p] = "none"]
  /\ UNCHANGED <<managerVars, server, created, listener, FServer, PeerAddress, Running, Stopping, worker,
                 registered, shared, app, calls, backlog, crashed>>

Next ==
  /\ ~crashed
  /\ \/ \E p \in PartnerSet : Start(p) \/ Stop(p) \/ WorkerDisconnects(p)
     \/ InCall \/ Kill
     \/ \E s \in Numbers : ListenerStep(s)
     \/ \E a \in Addresses, x \in Peers : PeerConnects(a, x)

\* The listeners run, and a call of the application goes on.  Nobody need call,
\* connect or close a connection.
Fairness ==
  /\ WF_vars(~crashed /\ InCall)
  /\ \A s \in Numbers : WF_vars(~crashed /\ ListenerStep(s))

Spec == Init /\ [][Next]_vars /\ Fairness

-----------------------------------------------------------------------------
(* Properties.                                                             *)

Listed(s) == \E c \in Slots : Servers[c] = s
Deleting(s) == app.place = "delete" /\ FServer[app.partner] = s

\* As long as no hole of the table and no deleted server has been used: the
\* table and the counts of GetServer and RemovePartner agree, no server is lost
\* or listed after its end, a server without partners does not stay, and the
\* server of a running partner that was registered is there and has it.
ServersInv ==
  /\ ServersCount = Cardinality({c \in Slots : Servers[c] # 0})
  /\ ServersCount > 0 => ServersManager
  /\ \A c, d \in Slots : Servers[c] = Servers[d] /\ Servers[c] # 0 => c = d
  /\ \A s \in Numbers : Alive(s) = (Listed(s) \/ Deleting(s))
  /\ \A s \in Numbers : Alive(s) =>
       /\ server[s].PartnersCount = Cardinality({i \in Places : server[s].Partners[i] # "none"})
       /\ server[s].PartnersCount = 0 => app.place \in {"register", "delete"} /\ FServer[app.partner] = s
  /\ \A p \in PartnerSet : registered[p] =>
       /\ Alive(FServer[p])
       /\ Cardinality({i \in Places : server[FServer[p]].Partners[i] = p}) = 1

\* A partner that has been stopped is not given a connection any more, which the
\* listener might still have in its hands, unless a server has gone on for others
\* when it was stopped.
StopDisconnects ==
  \A p \in PartnerSet : socket[p] # "none" /\ ~Running[p] /\ ~registered[p] => shared[p]

\* Nothing in the way of a connection to p.
Reachable(p) ==
  /\ ~crashed /\ Running[p] /\ registered[p] /\ ~Stopping[p]
  /\ Alive(FServer[p]) /\ ~server[FServer[p]].Destroying
  /\ \A q \in PartnerSet \ {p} : FServer[q] = FServer[p] => PeerAddress[q] # PeerAddress[p]

Waits(p) ==
  FServer[p] # 0 /\ Alive(FServer[p])
    /\ \E k \in DOMAIN backlog[server[FServer[p]].LocalBind] : backlog[server[FServer[p]].LocalBind][k] = PeerAddress[p]

\* A partner that stays in service is connected again and again as long as its
\* peer goes on trying, whoever else starts and stops.
PartnerReachable ==
  \A p \in PartnerSet : (<>[]Reachable(p) /\ []<>Waits(p)) => []<>(socket[p] # "none")
=============================================================================
