----------------------- MODULE ConnectionServersProofs -----------------------
(***************************************************************************)
(* The table of connection servers, their counts and their partners agree  *)
(* for any number of partners, addresses, peers, places and calls.         *)
(***************************************************************************)
EXTENDS ConnectionServers, FiniteSetTheorems, TLAPS

ServerRecords ==
  [state : {"alive", "deleted"}, LocalBind : Addresses, Destroying : BOOLEAN, Terminated : BOOLEAN,
   Partners : [Places -> PartnerSet \cup {"none"}], PartnersCount : Int]

AppStates ==
  {AppIdle}
    \cup [place : {"getserver", "register", "run"}, partner : PartnerSet, address : Addresses]
    \cup [place : {"closeworker", "remove", "delete", "disconnect"}, partner : PartnerSet]

Used == {c \in Slots : Servers[c] # 0}
Taken(s) == {i \in Places : server[s].Partners[i] # "none"}
PlacesOf(s, p) == {i \in Places : server[s].Partners[i] = p}

Types ==
  /\ Servers \in [Slots -> Numbers \cup {0}]
  /\ server \in [Numbers -> ServerRecords \cup {[state |-> "none"]}]
  /\ FServer \in [PartnerSet -> Numbers \cup {0}]
  /\ Running \in [PartnerSet -> BOOLEAN] /\ registered \in [PartnerSet -> BOOLEAN]
  /\ app \in AppStates

\* A number is used for one server only: there is one for every call of Start.
NumbersLeft ==
  /\ created \in Nat /\ calls \in 0..MaxCalls
  /\ created <= calls /\ (app.place = "getserver" => created < calls)
  /\ \A s \in Numbers : s > created => server[s].state = "none"

TableAgrees ==
  /\ ServersCount = Cardinality(Used)
  /\ ServersCount > 0 => ServersManager
  /\ \A c, d \in Slots : Servers[c] = Servers[d] /\ Servers[c] # 0 => c = d

NoneLost ==
  \A s \in Numbers : /\ Alive(s) <=> Listed(s) \/ Deleting(s)
                     /\ ~(Listed(s) /\ Deleting(s))

CountsAgree ==
  \A s \in Numbers : Alive(s) =>
    /\ server[s].PartnersCount = Cardinality(Taken(s))
    /\ server[s].PartnersCount = 0 => app.place \in {"register", "delete"} /\ FServer[app.partner] = s
    /\ Deleting(s) => server[s].PartnersCount = 0

\* Where the partner of the call in hand is, and the others.
PartnersAgree ==
  /\ app.place = "register" => Alive(FServer[app.partner])
  /\ app.place \in {"getserver", "register", "delete", "disconnect"} => ~registered[app.partner]
  /\ \A p \in PartnerSet : registered[p] =>
       /\ Running[p] \/ (app.place = "run" /\ app.partner = p)
       /\ Alive(FServer[p])
       /\ \E i \in Places : PlacesOf(FServer[p], p) = {i}
  /\ \A s \in Numbers : Alive(s) =>
       \A p \in PartnerSet : PlacesOf(s, p) # {} => registered[p] /\ FServer[p] = s

ServersIInv == Types /\ NumbersLeft /\ TableAgrees /\ NoneLost /\ CountsAgree /\ PartnersAgree

\* The tables are finite.
LEMMA TablesFinite ==
  /\ \A S \in SUBSET Slots : IsFiniteSet(S) /\ Cardinality(S) \in Nat
  /\ \A S \in SUBSET Places : IsFiniteSet(S) /\ Cardinality(S) \in Nat
<1>1. IsFiniteSet(Slots) /\ IsFiniteSet(Places)
  BY FS_Interval, ConnectionServersAssumption DEF Slots, Places
<1>2. QED
  BY <1>1, FS_Subset, FS_CardinalityType

\* A server that is alive has all its members.
LEMMA AliveRecord ==
  ASSUME Types, NEW s, Alive(s)
  PROVE  s \in Numbers /\ server[s] \in ServerRecords /\ server[s].state = "alive"
BY DEF Types, Alive

\* The strengthened invariant gives ServersInv.
LEMMA ServersStrong == ServersIInv => ServersInv
<1> SUFFICES ASSUME ServersIInv PROVE ServersInv
  OBVIOUS
<1>1. /\ ServersCount = Cardinality({c \in Slots : Servers[c] # 0})
      /\ ServersCount > 0 => ServersManager
      /\ \A c, d \in Slots : Servers[c] = Servers[d] /\ Servers[c] # 0 => c = d
  BY DEF ServersIInv, TableAgrees, Used
<1>2. \A s \in Numbers : Alive(s) = (Listed(s) \/ Deleting(s))
  BY DEF ServersIInv, NoneLost, Alive, Listed, Deleting
<1>3. \A s \in Numbers : Alive(s) =>
       /\ server[s].PartnersCount = Cardinality({i \in Places : server[s].Partners[i] # "none"})
       /\ server[s].PartnersCount = 0 => app.place \in {"register", "delete"} /\ FServer[app.partner] = s
  BY DEF ServersIInv, CountsAgree, Taken
<1>4. \A p \in PartnerSet : registered[p] =>
       /\ Alive(FServer[p])
       /\ Cardinality({i \in Places : server[FServer[p]].Partners[i] = p}) = 1
  <2> SUFFICES ASSUME NEW p \in PartnerSet, registered[p]
               PROVE  Alive(FServer[p]) /\ Cardinality(PlacesOf(FServer[p], p)) = 1
    BY DEF PlacesOf
  <2>1. Alive(FServer[p]) /\ \E i \in Places : PlacesOf(FServer[p], p) = {i}
    BY DEF ServersIInv, PartnersAgree
  <2>2. QED
    BY <2>1, FS_Singleton
<1>5. QED
  BY <1>1, <1>2, <1>3, <1>4 DEF ServersInv

\* At the start there is no server.
LEMMA InitServers == Init => ServersIInv
<1> SUFFICES ASSUME Init PROVE ServersIInv
  OBVIOUS
<1> USE DEF Init
<1>1. app = AppIdle /\ app.place = "idle"
  BY DEF AppIdle
<1>2. \A s \in Numbers : ~Alive(s) /\ ~Listed(s) /\ ~Deleting(s) /\ server[s].state = "none"
  BY <1>1 DEF Alive, Listed, Deleting, Slots, Numbers
<1>3. Types
  BY <1>1 DEF Types, AppStates
<1>4. NumbersLeft
  BY <1>1, <1>2, ConnectionServersAssumption DEF NumbersLeft
<1>5. TableAgrees
  <2>1. Used = {}
    BY DEF Used
  <2>2. QED
    BY <2>1, FS_EmptySet DEF TableAgrees
<1>6. NoneLost /\ CountsAgree
  BY <1>2 DEF NoneLost, CountsAgree
<1>a. PartnersAgree
  BY <1>1, <1>2 DEF PartnersAgree
<1>7. QED
  BY <1>3, <1>4, <1>5, <1>6, <1>a DEF ServersIInv

\* What the listeners, the peers and the workers of partners do, and the parts of
\* calls that touch neither table nor partners, change nothing of it.
LEMMA SameServers ==
  ASSUME ServersIInv,
         UNCHANGED <<Servers, ServersCount, server, created, FServer, Running, registered, app, calls>>,
         ServersManager' = ServersManager \/ ServersManager' = TRUE
  PROVE  ServersIInv'
<1> USE DEF ServersIInv
<1>1. Types' /\ NumbersLeft'
  BY DEF Types, NumbersLeft
<1>2. Used' = Used /\ \A s, p : Taken(s)' = Taken(s) /\ PlacesOf(s, p)' = PlacesOf(s, p)
  BY DEF Used, Taken, PlacesOf
<1>3. TableAgrees'
  BY <1>2 DEF TableAgrees
<1>4. \A s : Alive(s)' = Alive(s) /\ Listed(s)' = Listed(s) /\ Deleting(s)' = Deleting(s)
  BY DEF Alive, Listed, Deleting
<1>5. NoneLost'
  BY <1>4 DEF NoneLost
<1>6. CountsAgree'
  BY <1>2, <1>4 DEF CountsAgree
<1>7. PartnersAgree'
  BY <1>2, <1>4 DEF PartnersAgree
<1>8. QED
  BY <1>1, <1>3, <1>5, <1>6, <1>7

\* A step of a call that changes neither tables nor registrations, from a place
\* where no server is without partners.
LEMMA OnlyCall ==
  ASSUME ServersIInv, Types', NumbersLeft',
         UNCHANGED <<Servers, ServersCount, server, created, registered>>,
         ServersManager => ServersManager',
         app.place \notin {"register", "delete"}, app'.place # "delete",
         app'.place = "register" => Alive(FServer'[app'.partner]),
         app'.place \in {"getserver", "register", "disconnect"} => ~registered[app'.partner],
         \A p \in PartnerSet : registered[p] =>
           FServer'[p] = FServer[p] /\ (Running'[p] \/ (app'.place = "run" /\ app'.partner = p))
  PROVE  ServersIInv'
<1> USE DEF ServersIInv
<1>1. Used' = Used /\ \A s, p : Taken(s)' = Taken(s) /\ PlacesOf(s, p)' = PlacesOf(s, p)
  BY DEF Used, Taken, PlacesOf
<1>2. \A s : (Alive(s)' <=> Alive(s)) /\ (Listed(s)' <=> Listed(s)) /\ ~Deleting(s) /\ ~Deleting(s)'
  BY DEF Alive, Listed, Deleting
<1>3. TableAgrees'
  <2>1. (ServersCount > 0)' <=> ServersCount > 0
    OBVIOUS
  <2>2. QED
    BY <1>1, <2>1 DEF TableAgrees
<1>4. NoneLost'
  BY <1>2 DEF NoneLost
<1>5. CountsAgree'
  <2> SUFFICES ASSUME NEW s \in Numbers, Alive(s)
               PROVE  server[s].PartnersCount = Cardinality(Taken(s)) /\ server[s].PartnersCount # 0
    BY <1>1, <1>2 DEF CountsAgree
  <2>1. QED
    BY DEF CountsAgree
<1>6. PartnersAgree'
  <2>1. \A p \in PartnerSet : registered[p] =>
          Alive(FServer[p]) /\ \E i \in Places : PlacesOf(FServer[p], p) = {i}
    BY DEF PartnersAgree
  <2>2. \A p \in PartnerSet : registered'[p] =>
          /\ Running'[p] \/ (app'.place = "run" /\ app'.partner = p)
          /\ Alive(FServer[p])'
          /\ \E i \in Places : PlacesOf(FServer[p], p)' = {i}
    <3> SUFFICES ASSUME NEW p \in PartnerSet, registered[p]
                 PROVE  /\ Running'[p] \/ (app'.place = "run" /\ app'.partner = p)
                        /\ Alive(FServer[p])'
                        /\ \E i \in Places : PlacesOf(FServer[p], p)' = {i}
      OBVIOUS
    <3>1. FServer'[p] = FServer[p]
      OBVIOUS
    <3>2. Alive(FServer[p])' /\ PlacesOf(FServer[p], p)' = PlacesOf(FServer[p], p)
      BY <2>1, <3>1 DEF Alive, PlacesOf
    <3>3. QED
      BY <2>1, <3>2
  <2>3. (\A s \in Numbers : Alive(s) => \A p \in PartnerSet : PlacesOf(s, p) # {} => registered[p] /\ FServer[p] = s)'
    <3> SUFFICES ASSUME NEW s \in Numbers, Alive(s), NEW p \in PartnerSet, PlacesOf(s, p) # {}
                 PROVE  registered'[p] /\ FServer'[p] = s
      BY <1>1, <1>2
    <3>1. registered[p] /\ FServer[p] = s
      BY DEF PartnersAgree
    <3>2. QED
      BY <3>1
  <2>4. (app.place = "register" => Alive(FServer[app.partner]))'
    BY DEF Alive
  <2>5. QED
    BY <2>2, <2>3, <2>4 DEF PartnersAgree
<1>7. QED
  BY <1>3, <1>4, <1>5, <1>6

\* Start: its partner is not running, so that no server has it.
LEMMA StartServers ==
  ASSUME ServersIInv, NEW p \in PartnerSet, Start(p)
  PROVE  ServersIInv'
<1> USE DEF ServersIInv
<1>1. PICK a \in Addresses : app' = IF Running[p] THEN AppIdle ELSE [place |-> "getserver", partner |-> p, address |-> a]
  BY DEF Start
<1>2. /\ app = AppIdle /\ app.place = "idle" /\ calls < MaxCalls /\ calls' = calls + 1
      /\ UNCHANGED <<ServersManager, Servers, ServersCount, server, created, FServer, Running, registered>>
  BY DEF Start, AppIdle, managerVars
<1>3. Types'
  BY <1>1, <1>2 DEF Types, AppStates, AppIdle
<1>4. NumbersLeft'
  BY <1>1, <1>2, ConnectionServersAssumption DEF NumbersLeft
<1>5. app'.place \in {"idle", "getserver"} /\ (app'.place = "getserver" => app'.partner = p /\ ~Running[p])
  BY <1>1 DEF AppIdle
<1>6. \A q \in PartnerSet : registered[q] => Running[q]
  BY <1>2 DEF PartnersAgree
<1>7. QED
  BY <1>2, <1>3, <1>4, <1>5, <1>6, OnlyCall

\* GetServer finds a server in the table, or a hole.
LEMMA GetServerServers ==
  ASSUME ServersIInv, GetServer
  PROVE  ServersIInv'
<1> USE DEF ServersIInv
<1>1. /\ app.place = "getserver" /\ ServersManager' = TRUE
      /\ UNCHANGED <<Servers, ServersCount, server, created, Running, registered, calls>>
  BY DEF GetServer
<1>2. PICK c \in Slots :
        IF Servers[c] = 0
          THEN UNCHANGED <<FServer, app>>
          ELSE /\ FServer' = [FServer EXCEPT ![app.partner] = Servers[c]]
               /\ app' = [app EXCEPT !.place = "register"]
  BY DEF GetServer, Firsts, Stops
<1>3. CASE Servers[c] = 0
  BY <1>1, <1>2, <1>3, SameServers
<1>4. CASE Servers[c] # 0
  <2>1. app \in [place : {"getserver", "register", "run"}, partner : PartnerSet, address : Addresses]
    BY <1>1 DEF Types, AppStates, AppIdle
  <2>2. app'.place = "register" /\ app'.partner = app.partner /\ app.partner \in PartnerSet /\ app' \in AppStates
    BY <1>2, <1>4, <2>1 DEF AppStates
  <2>3. Servers[c] \in Numbers /\ Alive(Servers[c])
    BY <1>4 DEF Types, NoneLost, Listed
  <2>4. FServer'[app.partner] = Servers[c] /\ \A q \in PartnerSet \ {app.partner} : FServer'[q] = FServer[q]
    BY <1>2, <1>4, <2>2 DEF Types
  <2>5. Types'
    BY <1>1, <1>2, <1>4, <2>2, <2>3 DEF Types
  <2>6. NumbersLeft'
    BY <1>1, <2>2 DEF NumbersLeft
  <2>7. ~registered[app.partner]
    BY <1>1 DEF PartnersAgree
  <2>8. \A q \in PartnerSet : registered[q] => Running[q]
    BY <1>1 DEF PartnersAgree
  <2>9. QED
    BY <1>1, <2>2, <2>3, <2>4, <2>5, <2>6, <2>7, <2>8, OnlyCall
<1>5. QED
  BY <1>3, <1>4

\* A server that cannot be made leaves table and partners alone; the partner that
\* Start was called for is in none.
LEMMA CreateServerFailsServers ==
  ASSUME ServersIInv, CreateServerFails
  PROVE  ServersIInv'
<1> USE DEF ServersIInv
<1>1. /\ app.place = "getserver" /\ ServersManager' = TRUE
      /\ FServer' = [FServer EXCEPT ![app.partner] = 0] /\ app' = AppIdle /\ app'.place = "idle"
      /\ UNCHANGED <<Servers, ServersCount, server, created, Running, registered, calls>>
  BY DEF CreateServerFails, Creates, AppIdle
<1>2. Types' /\ NumbersLeft'
  BY <1>1 DEF Types, NumbersLeft, AppStates
<1>3. ~registered[app.partner] /\ \A q \in PartnerSet : registered[q] => Running[q]
  BY <1>1 DEF PartnersAgree
<1>4. \A q \in PartnerSet : registered[q] => FServer'[q] = FServer[q]
  BY <1>1, <1>3 DEF Types
<1>5. QED
  BY <1>1, <1>2, <1>3, <1>4, OnlyCall

\* The worker of a partner starts, and Stop runs up to the removal.
LEMMA StartWorkerServers ==
  ASSUME ServersIInv, StartWorker
  PROVE  ServersIInv'
<1> USE DEF ServersIInv
<1>1. /\ app.place = "run" /\ Running' = [Running EXCEPT ![app.partner] = TRUE] /\ app' = AppIdle /\ app'.place = "idle"
      /\ UNCHANGED <<ServersManager, Servers, ServersCount, server, created, FServer, registered, calls>>
  BY DEF StartWorker, AppIdle, managerVars
<1>2. Types' /\ NumbersLeft'
  BY <1>1 DEF Types, NumbersLeft, AppStates
<1>3. \A q \in PartnerSet : registered[q] => Running'[q]
  BY <1>1 DEF Types, PartnersAgree
<1>4. QED
  BY <1>1, <1>2, <1>3, OnlyCall

\* Stop and CloseWorker do not touch the table; they lead to a place of the call
\* that speaks of no server.
LEMMA StopServers ==
  ASSUME ServersIInv, (\E p \in PartnerSet : Stop(p)) \/ CloseWorker
  PROVE  ServersIInv'
<1> USE DEF ServersIInv
<1>1. UNCHANGED <<ServersManager, Servers, ServersCount, server, created, FServer, Running, registered>>
  BY DEF Stop, CloseWorker, managerVars
<1>2. /\ app.place \in {"idle", "closeworker"} /\ app'.place \in {"closeworker", "remove"}
      /\ app' \in AppStates /\ calls' \in Nat /\ calls <= calls' /\ calls' <= MaxCalls
  <2>1. ASSUME NEW p \in PartnerSet, Stop(p)
        PROVE  /\ app.place = "idle" /\ app' = [place |-> "closeworker", partner |-> p]
               /\ calls < MaxCalls /\ calls' = calls + 1
    BY <2>1 DEF Stop, AppIdle
  <2>2. CASE \E p \in PartnerSet : Stop(p)
    BY <2>1, <2>2, ConnectionServersAssumption DEF AppStates, NumbersLeft
  <2>3. CASE CloseWorker
    <3>1. app.place = "closeworker" /\ app' = [app EXCEPT !.place = "remove"] /\ calls' = calls
      BY <2>3 DEF CloseWorker
    <3>2. app \in [place : {"closeworker", "remove", "delete", "disconnect"}, partner : PartnerSet]
      BY <3>1 DEF Types, AppStates, AppIdle
    <3>3. QED
      BY <3>1, <3>2, ConnectionServersAssumption DEF AppStates, NumbersLeft
  <2>4. QED
    BY <2>2, <2>3
<1>3. Types' /\ NumbersLeft'
  BY <1>1, <1>2, ConnectionServersAssumption DEF Types, NumbersLeft
<1>4. \A q \in PartnerSet : registered[q] => Running[q]
  BY <1>2 DEF PartnersAgree
<1>5. QED
  BY <1>1, <1>2, <1>3, <1>4, OnlyCall

\* Without a manager no partner is registered.
LEMMA RemoveNowhereServers ==
  ASSUME ServersIInv, RemoveNowhere
  PROVE  ServersIInv'
<1> USE DEF ServersIInv
<1>1. /\ app.place = "remove" /\ ~ServersManager /\ app' = [app EXCEPT !.place = "disconnect"]
      /\ UNCHANGED <<ServersManager, Servers, ServersCount, server, created, FServer, Running, registered, calls>>
  BY DEF RemoveNowhere, managerVars, partnerVars
<1>2. app \in [place : {"closeworker", "remove", "delete", "disconnect"}, partner : PartnerSet]
  BY <1>1 DEF Types, AppStates, AppIdle
<1>3. app' \in AppStates /\ app'.place = "disconnect" /\ app'.partner = app.partner /\ app.partner \in PartnerSet
  BY <1>1, <1>2 DEF AppStates
<1>4. Types' /\ NumbersLeft'
  BY <1>1, <1>3 DEF Types, NumbersLeft
<1>5. ~registered[app.partner]
  <2> SUFFICES ASSUME registered[app.partner] PROVE FALSE
    OBVIOUS
  <2>1. Alive(FServer[app.partner])
    BY <1>3 DEF PartnersAgree
  <2>2. Listed(FServer[app.partner])
    BY <1>1, <2>1 DEF NoneLost, Deleting, Alive
  <2>3. Used # {}
    BY <2>1, <2>2 DEF Listed, Used, Alive, Numbers
  <2>4. Cardinality(Used) \in Nat /\ Cardinality(Used) # 0
    BY <2>3, TablesFinite, FS_EmptySet DEF Used
  <2>5. QED
    BY <1>1, <2>4 DEF TableAgrees
<1>6. \A q \in PartnerSet : registered[q] => Running[q]
  BY <1>1 DEF PartnersAgree
<1>7. QED
  BY <1>1, <1>3, <1>4, <1>5, <1>6, OnlyCall

\* The partner that Disconnect takes out of service is in no server any more.
LEMMA DisconnectServers ==
  ASSUME ServersIInv, Disconnect
  PROVE  ServersIInv'
<1> USE DEF ServersIInv
<1>1. /\ app.place = "disconnect" /\ Running' = [Running EXCEPT ![app.partner] = FALSE] /\ app' = AppIdle /\ app'.place = "idle"
      /\ UNCHANGED <<ServersManager, Servers, ServersCount, server, created, FServer, registered, calls>>
  BY DEF Disconnect, AppIdle, managerVars
<1>2. Types' /\ NumbersLeft'
  BY <1>1 DEF Types, NumbersLeft, AppStates
<1>3. ~registered[app.partner]
  BY <1>1 DEF PartnersAgree
<1>4. \A q \in PartnerSet : registered[q] => Running'[q]
  BY <1>1, <1>3 DEF Types, PartnersAgree
<1>5. QED
  BY <1>1, <1>2, <1>4, OnlyCall

\* A new server has a number and a place of its own and no partner yet.
LEMMA CreateServerServers ==
  ASSUME ServersIInv, CreateServer
  PROVE  ServersIInv'
<1> USE DEF ServersIInv
<1>0. PICK s, p : s = created + 1 /\ p = app.partner
  OBVIOUS
<1> USE <1>0
<1>1. /\ app.place = "getserver" /\ ServersManager' = TRUE /\ ServersCount' = ServersCount + 1
      /\ created' = created + 1 /\ app' = [app EXCEPT !.place = "register"]
      /\ FServer' = [FServer EXCEPT ![p] = s]
      /\ UNCHANGED <<Running, registered, calls>>
  BY DEF CreateServer, Creates
<1>2. PICK d \in Slots, destroying \in BOOLEAN :
        /\ Servers[d] = 0 /\ Servers' = [Servers EXCEPT ![d] = s]
        /\ server' = [server EXCEPT ![s] =
               [state |-> "alive", LocalBind |-> app.address, Destroying |-> destroying, Terminated |-> FALSE,
                Partners |-> [i \in Places |-> "none"], PartnersCount |-> 0]]
  BY DEF CreateServer, Firsts
<1>3. /\ app \in [place : {"getserver", "register", "run"}, partner : PartnerSet, address : Addresses]
      /\ app' \in AppStates /\ app'.place = "register" /\ app'.partner = p /\ p \in PartnerSet /\ app.address \in Addresses
  <2>1. app \in [place : {"getserver", "register", "run"}, partner : PartnerSet, address : Addresses]
    BY <1>1 DEF Types, AppStates, AppIdle
  <2>2. QED
    BY <1>1, <2>1 DEF AppStates
<1>4. s \in Numbers /\ server[s].state = "none" /\ ~Alive(s)
  BY <1>1, ConnectionServersAssumption DEF NumbersLeft, Numbers, Alive
<1>5. /\ server'[s] = [state |-> "alive", LocalBind |-> app.address, Destroying |-> destroying, Terminated |-> FALSE,
                       Partners |-> [i \in Places |-> "none"], PartnersCount |-> 0]
      /\ \A x \in Numbers \ {s} : server'[x] = server[x]
  BY <1>2, <1>4 DEF Types
<1>6. /\ Servers'[d] = s /\ \A c \in Slots \ {d} : Servers'[c] = Servers[c]
      /\ \A c \in Slots : Servers[c] # s
  <2>1. ~Listed(s)
    BY <1>4 DEF NoneLost
  <2>2. QED
    BY <1>2, <2>1 DEF Types, Listed
<1>7. FServer'[p] = s /\ \A q \in PartnerSet \ {p} : FServer'[q] = FServer[q]
  BY <1>1, <1>3 DEF Types
<1>8. Alive(s)' /\ Listed(s)' /\ \A x \in Numbers \ {s} : (Alive(x)' <=> Alive(x)) /\ (Listed(x)' <=> Listed(x))
  <2>1. Alive(s)' /\ \A x \in Numbers \ {s} : (Alive(x)' <=> Alive(x))
    BY <1>4, <1>5 DEF Alive
  <2>2. Listed(s)' /\ \A x \in Numbers \ {s} : (Listed(x)' <=> Listed(x))
    <3>1. Listed(s)'
      BY <1>6 DEF Listed
    <3>2. ASSUME NEW x \in Numbers, x # s PROVE Listed(x)' <=> Listed(x)
      BY <1>2, <1>6, <3>2 DEF Listed, Numbers
    <3>3. QED
      BY <3>1, <3>2
  <2>3. QED
    BY <2>1, <2>2
<1>9. \A x \in Numbers : ~Deleting(x) /\ ~Deleting(x)'
  BY <1>1, <1>3 DEF Deleting
<1>10. ~registered[p] /\ \A q \in PartnerSet : registered[q] => Running[q]
  BY <1>1 DEF PartnersAgree
<1>11. Types'
  <2>1. server'[s] \in ServerRecords
    BY <1>3, <1>5 DEF ServerRecords
  <2>2. server' \in [Numbers -> ServerRecords \cup {[state |-> "none"]}]
    BY <1>2, <1>4, <1>5, <2>1 DEF Types
  <2>3. Servers' \in [Slots -> Numbers \cup {0}] /\ FServer' \in [PartnerSet -> Numbers \cup {0}]
    BY <1>1, <1>2, <1>4 DEF Types
  <2>4. QED
    BY <1>1, <1>3, <2>2, <2>3 DEF Types
<1>12. NumbersLeft'
  BY <1>1, <1>3, <1>5 DEF NumbersLeft, Numbers
<1>13. TableAgrees'
  <2>1. Used' = Used \cup {d} /\ d \notin Used
    BY <1>2, <1>4, <1>6 DEF Used, Numbers
  <2>2. IsFiniteSet(Used) /\ Cardinality(Used) \in Nat
    BY TablesFinite DEF Used
  <2>3. Cardinality(Used') = Cardinality(Used) + 1
    BY <2>1, <2>2, FS_AddElement
  <2>4. ServersCount' = Cardinality(Used')
    BY <1>1, <2>3 DEF TableAgrees
  <2>5. \A c, e \in Slots : Servers'[c] = Servers'[e] /\ Servers'[c] # 0 => c = e
    BY <1>6 DEF TableAgrees
  <2>6. QED
    BY <1>1, <2>4, <2>5 DEF TableAgrees
<1>14. NoneLost'
  BY <1>8, <1>9 DEF NoneLost
<1>15. CountsAgree'
  <2>1. ASSUME NEW x \in Numbers, Alive(x)', x # s
        PROVE  server'[x].PartnersCount = Cardinality(Taken(x)') /\ server'[x].PartnersCount # 0
    <3>1. Alive(x) /\ server'[x] = server[x] /\ Taken(x)' = Taken(x)
      BY <1>5, <1>8, <2>1 DEF Taken
    <3>2. QED
      BY <1>1, <3>1 DEF CountsAgree
  <2>2. server'[s].PartnersCount = Cardinality(Taken(s)')
    <3>1. Taken(s)' = {} /\ server'[s].PartnersCount = 0
      BY <1>5 DEF Taken
    <3>2. QED
      BY <3>1, FS_EmptySet
  <2>3. QED
    BY <1>3, <1>7, <1>9, <2>1, <2>2 DEF CountsAgree
<1>16. PartnersAgree'
  <2>1. (app.place = "register" => Alive(FServer[app.partner]))'
    BY <1>3, <1>7, <1>8
  <2>2. ~registered'[app'.partner]
    BY <1>1, <1>3, <1>10
  <2>3. ASSUME NEW q \in PartnerSet, registered'[q]
        PROVE  Running'[q] /\ Alive(FServer[q])' /\ \E i \in Places : PlacesOf(FServer[q], q)' = {i}
    <3>1. registered[q] /\ q # p /\ FServer'[q] = FServer[q]
      BY <1>1, <1>7, <1>10, <2>3
    <3>2. Alive(FServer[q]) /\ \E i \in Places : PlacesOf(FServer[q], q) = {i}
      BY <3>1 DEF PartnersAgree
    <3>3. FServer[q] \in Numbers /\ FServer[q] # s
      BY <1>4, <3>2 DEF Alive
    <3>4. PlacesOf(FServer[q], q)' = PlacesOf(FServer[q], q) /\ Alive(FServer[q])'
      BY <1>5, <3>1, <3>2, <3>3 DEF PlacesOf, Alive
    <3>5. QED
      BY <1>1, <1>10, <3>1, <3>2, <3>4
  <2>4. ASSUME NEW x \in Numbers, Alive(x)', NEW q \in PartnerSet, PlacesOf(x, q)' # {}
        PROVE  registered'[q] /\ FServer'[q] = x
    <3>1. x # s
      <4> SUFFICES ASSUME x = s PROVE FALSE
        OBVIOUS
      <4>1. q # "none"
        BY ConnectionServersAssumption
      <4>2. QED
        BY <1>5, <2>4, <4>1 DEF PlacesOf
    <3>2. Alive(x) /\ PlacesOf(x, q) # {}
      BY <1>5, <1>8, <2>4, <3>1 DEF PlacesOf
    <3>3. registered[q] /\ FServer[q] = x
      BY <3>2 DEF PartnersAgree
    <3>4. QED
      BY <1>1, <1>7, <1>10, <3>3
  <2>5. QED
    BY <1>3, <2>1, <2>2, <2>3, <2>4 DEF PartnersAgree
<1>17. QED
  BY <1>11, <1>12, <1>13, <1>14, <1>15, <1>16

\* A server without partners takes the one of the call in hand.
LEMMA RegisterPartnerServers ==
  ASSUME ServersIInv, RegisterPartner
  PROVE  ServersIInv'
<1> USE DEF ServersIInv
<1>0. PICK p, s : p = app.partner /\ s = FServer[p]
  OBVIOUS
<1> USE <1>0
<1>1. /\ app.place = "register" /\ app' = [app EXCEPT !.place = "run"]
      /\ UNCHANGED <<ServersManager, Servers, ServersCount, created, FServer, Running, calls>>
  BY DEF RegisterPartner, managerVars
<1>2. /\ app \in [place : {"getserver", "register", "run"}, partner : PartnerSet, address : Addresses]
      /\ app' \in AppStates /\ app'.place = "run" /\ app'.partner = p /\ p \in PartnerSet
  <2>1. app \in [place : {"getserver", "register", "run"}, partner : PartnerSet, address : Addresses]
    BY <1>1 DEF Types, AppStates, AppIdle
  <2>2. QED
    BY <1>1, <2>1 DEF AppStates
<1>3. Alive(s) /\ ~registered[p] /\ \A q \in PartnerSet : registered[q] => Running[q]
  BY <1>1 DEF PartnersAgree
<1>4. s \in Numbers /\ server[s] \in ServerRecords /\ server[s].state = "alive"
  BY <1>3, AliveRecord
<1>5. p # "none"
  BY <1>2, ConnectionServersAssumption
<1>6. server[s].PartnersCount = Cardinality(Taken(s)) /\ IsFiniteSet(Taken(s)) /\ Cardinality(Taken(s)) \in Nat
  <2>1. IsFiniteSet(Taken(s)) /\ Cardinality(Taken(s)) \in Nat
    BY TablesFinite DEF Taken
  <2>2. QED
    BY <1>3, <1>4, <2>1 DEF CountsAgree
<1>7. \A x \in Numbers : ~Deleting(x) /\ ~Deleting(x)' /\ (Listed(x)' <=> Listed(x))
  BY <1>1, <1>2 DEF Deleting, Listed
<1>8. NumbersLeft' /\ TableAgrees'
  <2>1. \A x \in Numbers : server'[x].state = server[x].state
    <3>1. CASE UNCHANGED server
      BY <3>1
    <3>2. CASE \E i \in Places : server' = [server EXCEPT ![s].Partners[i] = p, ![s].PartnersCount = @ + 1]
      <4>1. \A x \in Numbers : x # s => server'[x] = server[x]
        BY <1>4, <3>2 DEF Types
      <4>2. server'[s].state = server[s].state
        BY <1>4, <3>2 DEF Types, ServerRecords
      <4>3. QED
        BY <4>1, <4>2
    <3>3. QED
      BY <3>1, <3>2 DEF RegisterPartner, FreePlaces, Firsts
  <2>2. Used' = Used
    BY <1>1 DEF Used
  <2>3. QED
    BY <1>1, <1>2, <2>1, <2>2 DEF NumbersLeft, TableAgrees
<1>9. CASE /\ ~(FindPartner(s, PeerAddress[p]) = "none" /\ FreePlaces(s) # {})
           /\ UNCHANGED <<server, registered>>
  <2>1. server[s].PartnersCount # 0
    <3> SUFFICES ASSUME Cardinality(Taken(s)) = 0 PROVE FALSE
      BY <1>6
    <3>1. Taken(s) = {}
      BY <1>6, FS_EmptySet
    <3>2. \A i \in Places : server[s].Partners[i] = "none"
      BY <3>1 DEF Taken
    <3>3. FindPartner(s, PeerAddress[p]) = "none"
      BY <3>2 DEF FindPartner, Firsts
    <3>4. 0 \in FreePlaces(s)
      BY <3>2, ConnectionServersAssumption DEF FreePlaces, Places
    <3>5. QED
      BY <1>9, <3>3, <3>4
  <2>2. \A x : (Alive(x)' <=> Alive(x)) /\ Taken(x)' = Taken(x) /\ \A q : PlacesOf(x, q)' = PlacesOf(x, q)
    BY <1>9 DEF Alive, Taken, PlacesOf
  <2>3. Types'
    BY <1>1, <1>2, <1>9 DEF Types
  <2>4. NoneLost'
    BY <1>7, <2>2 DEF NoneLost
  <2>5. CountsAgree'
    <3> SUFFICES ASSUME NEW x \in Numbers, Alive(x)
                 PROVE  server[x].PartnersCount = Cardinality(Taken(x)) /\ server[x].PartnersCount # 0
      BY <1>7, <1>9, <2>2 DEF CountsAgree
    <3>1. QED
      BY <2>1 DEF CountsAgree
  <2>6. PartnersAgree'
    BY <1>1, <1>2, <1>3, <1>9, <2>2 DEF PartnersAgree
  <2>7. QED
    BY <1>8, <2>3, <2>4, <2>5, <2>6
<1>10. ASSUME NEW j \in Places, server[s].Partners[j] = "none",
              server' = [server EXCEPT ![s].Partners[j] = p, ![s].PartnersCount = @ + 1],
              registered' = [registered EXCEPT ![p] = TRUE]
       PROVE  ServersIInv'
  <2>1. /\ server'[s] \in ServerRecords /\ server'[s].state = "alive"
        /\ server'[s].PartnersCount = server[s].PartnersCount + 1
        /\ server'[s].Partners = [server[s].Partners EXCEPT ![j] = p]
        /\ \A x \in Numbers \ {s} : server'[x] = server[x]
    BY <1>2, <1>4, <1>10 DEF Types, ServerRecords
  <2>2. \A x \in Numbers : (Alive(x)' <=> Alive(x))
    BY <1>4, <2>1 DEF Alive
  <2>3. registered'[p] /\ \A q \in PartnerSet \ {p} : registered'[q] = registered[q]
    BY <1>2, <1>10 DEF Types
  <2>4. \A i \in Places : server'[s].Partners[i] = IF i = j THEN p ELSE server[s].Partners[i]
    BY <1>4, <2>1 DEF ServerRecords
  <2>5. \A x \in Numbers \ {s} : Taken(x)' = Taken(x) /\ \A q : PlacesOf(x, q)' = PlacesOf(x, q)
    BY <2>1 DEF Taken, PlacesOf
  <2>6. Types'
    <3>1. server' \in [Numbers -> ServerRecords \cup {[state |-> "none"]}]
      BY <1>10, <2>1 DEF Types
    <3>2. QED
      BY <1>1, <1>2, <1>10, <3>1 DEF Types
  <2>7. NoneLost'
    BY <1>7, <2>2 DEF NoneLost
  <2>8. CountsAgree'
    <3>1. server'[s].PartnersCount = Cardinality(Taken(s)') /\ server'[s].PartnersCount # 0
      <4>1. Taken(s)' = Taken(s) \cup {j} /\ j \notin Taken(s)
        BY <1>5, <1>10, <2>4 DEF Taken
      <4>2. Cardinality(Taken(s)') = Cardinality(Taken(s)) + 1
        BY <1>6, <4>1, FS_AddElement
      <4>3. QED
        BY <1>6, <2>1, <4>2
    <3>2. ASSUME NEW x \in Numbers, Alive(x), x # s
          PROVE  server'[x].PartnersCount = Cardinality(Taken(x)') /\ server'[x].PartnersCount # 0
      <4>1. server[x].PartnersCount = Cardinality(Taken(x)) /\ server[x].PartnersCount # 0
        BY <3>2 DEF CountsAgree
      <4>2. QED
        BY <2>1, <2>5, <3>2, <4>1
    <3>3. QED
      BY <1>7, <2>2, <3>1, <3>2 DEF CountsAgree
  <2>9. PartnersAgree'
    <3>1. PlacesOf(s, p)' = {j}
      <4>1. \A i \in Places : server[s].Partners[i] # p
        BY <1>2, <1>3, <1>4 DEF PartnersAgree, PlacesOf
      <4>2. QED
        BY <2>4, <4>1 DEF PlacesOf
    <3>2. \A q \in PartnerSet \ {p} : PlacesOf(s, q)' = PlacesOf(s, q)
      BY <1>10, <2>4, ConnectionServersAssumption DEF PlacesOf
    <3>3. ASSUME NEW q \in PartnerSet, registered'[q]
          PROVE  /\ Running'[q] \/ q = p
                 /\ Alive(FServer[q])'
                 /\ \E i \in Places : PlacesOf(FServer[q], q)' = {i}
      <4>1. CASE q = p
        <5>1. PlacesOf(FServer[q], q)' = {j} /\ Alive(FServer[q])'
          BY <1>1, <1>3, <1>4, <2>1, <3>1, <4>1 DEF Alive, PlacesOf
        <5>2. QED
          BY <4>1, <5>1
      <4>2. CASE q # p
        <5>1. registered[q]
          BY <2>3, <3>3, <4>2
        <5>2. Alive(FServer[q]) /\ \E i \in Places : PlacesOf(FServer[q], q) = {i}
          BY <5>1 DEF PartnersAgree
        <5>3. FServer[q] \in Numbers
          BY <5>2 DEF Alive
        <5>4. PlacesOf(FServer[q], q)' = PlacesOf(FServer[q], q)
          <6>1. CASE FServer[q] = s
            BY <1>1, <3>2, <4>2, <6>1 DEF PlacesOf
          <6>2. CASE FServer[q] # s
            BY <1>1, <2>1, <5>3, <6>2 DEF PlacesOf
          <6>3. QED
            BY <6>1, <6>2
        <5>5. Alive(FServer[q])'
          BY <1>1, <1>4, <2>1, <5>2 DEF Alive
        <5>6. QED
          BY <1>1, <1>3, <5>1, <5>2, <5>4, <5>5
      <4>3. QED
        BY <4>1, <4>2
    <3>4. ASSUME NEW x \in Numbers, Alive(x), NEW q \in PartnerSet, PlacesOf(x, q)' # {}
          PROVE  registered'[q] /\ FServer'[q] = x
      <4>1. CASE x = s /\ q = p
        BY <1>1, <2>3, <4>1
      <4>2. CASE ~(x = s /\ q = p)
        <5>1. PlacesOf(x, q)' = PlacesOf(x, q)
          BY <2>5, <3>2, <4>2
        <5>2. registered[q] /\ FServer[q] = x
          BY <3>4, <5>1 DEF PartnersAgree
        <5>3. QED
          BY <1>1, <2>3, <5>2
      <4>3. QED
        BY <4>1, <4>2
    <3>5. QED
      BY <1>2, <2>2, <3>3, <3>4 DEF PartnersAgree
  <2>10. QED
    BY <1>8, <2>6, <2>7, <2>8, <2>9
<1>11. QED
  BY <1>9, <1>10 DEF RegisterPartner, FreePlaces, Firsts

\* A partner leaves its server, which leaves the table with the last of them.
LEMMA RemovePartnerServers ==
  ASSUME ServersIInv, RemovePartner
  PROVE  ServersIInv'
<1> USE DEF ServersIInv
<1>0. PICK p, s, own, count : /\ p = app.partner /\ s = FServer[p]
                              /\ own = PlacesOf(s, p)
                              /\ count = server[s].PartnersCount - Cardinality(own)
  OBVIOUS
<1>1. /\ app.place = "remove" /\ Alive(s) /\ ServersCount' = (IF count = 0 THEN ServersCount - 1 ELSE ServersCount)
      /\ UNCHANGED <<ServersManager, created, FServer, Running, calls>>
  BY <1>0 DEF RemovePartner, Unused, PlacesOf
<1>a. app' = [app EXCEPT !.place = IF count = 0 THEN "delete" ELSE "disconnect"]
  BY <1>0 DEF RemovePartner, Unused, PlacesOf
<1>b. server' = [server EXCEPT ![s].Partners = [i \in Places |-> IF i \in own THEN "none" ELSE @[i]],
                               ![s].PartnersCount = count, ![s].Terminated = (count = 0)]
  BY <1>0 DEF RemovePartner, Unused, PlacesOf
<1>c. /\ Servers' = [c \in Slots |-> IF count = 0 /\ Servers[c] = s THEN 0 ELSE Servers[c]]
      /\ registered' = [registered EXCEPT ![p] = FALSE]
  BY <1>0 DEF RemovePartner, Unused, PlacesOf
<1>2. /\ app' \in AppStates /\ app'.place = (IF count = 0 THEN "delete" ELSE "disconnect")
      /\ app'.partner = p /\ p \in PartnerSet
  <2>1. app \in [place : {"closeworker", "remove", "delete", "disconnect"}, partner : PartnerSet]
    BY <1>1 DEF Types, AppStates, AppIdle
  <2>2. QED
    BY <1>0, <1>a, <2>1 DEF AppStates
<1>3. /\ s \in Numbers /\ server[s] \in ServerRecords /\ server[s].state = "alive"
  BY <1>1, AliveRecord
<1>4. \A q \in PartnerSet : registered[q] => Running[q]
  BY <1>1 DEF PartnersAgree
<1>5. p # "none" /\ own \subseteq Taken(s)
  BY <1>0, <1>2, ConnectionServersAssumption DEF PlacesOf, Taken
<1>6. /\ server[s].PartnersCount = Cardinality(Taken(s)) /\ Cardinality(Taken(s)) # 0
      /\ IsFiniteSet(Taken(s)) /\ Cardinality(Taken(s)) \in Nat
  <2>1. IsFiniteSet(Taken(s)) /\ Cardinality(Taken(s)) \in Nat
    BY TablesFinite DEF Taken
  <2>2. server[s].PartnersCount = Cardinality(Taken(s)) /\ server[s].PartnersCount # 0
    BY <1>1, <1>3 DEF CountsAgree
  <2>3. QED
    BY <2>1, <2>2
<1>7. count = Cardinality(Taken(s) \ own) /\ count \in Nat /\ (count = 0 => Taken(s) \ own = {})
  <2>1. CASE registered[p]
    <3>1. PICK i \in Places : own = {i}
      BY <1>0, <1>2, <2>1 DEF PartnersAgree
    <3>2. i \in Taken(s) /\ Cardinality(own) = 1
      BY <1>5, <3>1, FS_Singleton
    <3>3. /\ IsFiniteSet(Taken(s) \ {i})
          /\ Cardinality(Taken(s) \ {i}) = Cardinality(Taken(s)) - 1
      BY <1>6, <3>2, FS_RemoveElement
    <3>4. Cardinality(Taken(s) \ {i}) \in Nat
      BY <3>3, FS_CardinalityType
    <3>5. QED
      BY <1>0, <1>6, <3>1, <3>2, <3>3, <3>4, FS_EmptySet
  <2>2. CASE ~registered[p]
    <3>1. own = {}
      BY <1>0, <1>1, <1>2, <1>3, <2>2 DEF PartnersAgree
    <3>2. Cardinality(own) = 0
      BY <3>1, FS_EmptySet
    <3>3. QED
      BY <1>0, <1>6, <3>1, <3>2
  <2>3. QED
    BY <2>1, <2>2
<1>8. /\ server'[s] \in ServerRecords /\ server'[s].state = "alive" /\ server'[s].PartnersCount = count
      /\ \A i \in Places : server'[s].Partners[i] = IF i \in own THEN "none" ELSE server[s].Partners[i]
      /\ \A x \in Numbers \ {s} : server'[x] = server[x]
  <2>1. \A x \in Numbers \ {s} : server'[x] = server[x]
    BY <1>b, <1>3 DEF Types
  <2>2. server'[s] = [server[s] EXCEPT !.Partners = [i \in Places |-> IF i \in own THEN "none" ELSE server[s].Partners[i]],
                                       !.PartnersCount = count, !.Terminated = (count = 0)]
    BY <1>b, <1>3 DEF Types
  <2>3. server[s].Partners \in [Places -> PartnerSet \cup {"none"}]
    BY <1>3 DEF ServerRecords
  <2>4. [i \in Places |-> IF i \in own THEN "none" ELSE server[s].Partners[i]] \in [Places -> PartnerSet \cup {"none"}]
    BY <2>3
  <2>5. (count = 0) \in BOOLEAN /\ count \in Int
    BY <1>7
  <2>6. server'[s] \in ServerRecords
    BY <1>3, <2>2, <2>4, <2>5 DEF ServerRecords
  <2>7. /\ server'[s].PartnersCount = count /\ server'[s].state = "alive"
        /\ server'[s].Partners = [i \in Places |-> IF i \in own THEN "none" ELSE server[s].Partners[i]]
    BY <1>3, <2>2 DEF ServerRecords
  <2>8. QED
    BY <2>1, <2>6, <2>7
<1>9. \A x \in Numbers : Alive(x)' <=> Alive(x)
  BY <1>3, <1>8 DEF Alive
<1>10. Taken(s)' = Taken(s) \ own /\ \A x \in Numbers \ {s} : Taken(x)' = Taken(x) /\ \A q : PlacesOf(x, q)' = PlacesOf(x, q)
  BY <1>8 DEF Taken, PlacesOf
<1>11. \A q \in PartnerSet \ {p} : PlacesOf(s, q)' = PlacesOf(s, q)
  BY <1>0, <1>8, ConnectionServersAssumption DEF PlacesOf
<1>12. PlacesOf(s, p)' = {}
  BY <1>0, <1>5, <1>8 DEF PlacesOf
<1>13. /\ \A x \in Numbers : ~Deleting(x)
       /\ \A x \in Numbers : Deleting(x)' <=> (count = 0 /\ x = s)
  <2>1. \A x \in Numbers : ~Deleting(x)
    BY <1>1 DEF Deleting
  <2>2. FServer'[app'.partner] = s
    BY <1>0, <1>1, <1>2
  <2>3. QED
    BY <1>2, <2>1, <2>2 DEF Deleting
<1>14. /\ \A x \in Numbers \ {s} : Listed(x)' <=> Listed(x)
       /\ Listed(s) /\ (Listed(s)' <=> count # 0)
  <2>1. \A x \in Numbers \ {s} : Listed(x)' <=> Listed(x)
    <3>1. ASSUME NEW x \in Numbers, x # s, NEW c \in Slots PROVE Servers'[c] = x <=> Servers[c] = x
      BY <1>c, <3>1 DEF Numbers
    <3>2. QED
      BY <3>1 DEF Listed
  <2>2. Listed(s)
    BY <1>1, <1>3, <1>13 DEF NoneLost
  <2>3. Listed(s)' <=> count # 0
    <3>1. s # 0
      BY <1>3 DEF Numbers
    <3>2. \A c \in Slots : Servers'[c] = s <=> (count # 0 /\ Servers[c] = s)
      BY <1>c, <3>1
    <3>3. QED
      BY <2>2, <3>2 DEF Listed
  <2>4. QED
    BY <2>1, <2>2, <2>3
<1>15. Types'
  <2>1. server' \in [Numbers -> ServerRecords \cup {[state |-> "none"]}]
    BY <1>b, <1>8 DEF Types
  <2>2. Servers' \in [Slots -> Numbers \cup {0}] /\ registered' \in [PartnerSet -> BOOLEAN]
    BY <1>c DEF Types
  <2>3. QED
    BY <1>1, <1>2, <2>1, <2>2 DEF Types
<1>16. NumbersLeft'
  <2>1. \A x \in Numbers : server[x].state = "none" => server'[x].state = "none"
    BY <1>3, <1>8
  <2>2. app'.place # "getserver"
    BY <1>2
  <2>3. QED
    BY <1>1, <2>1, <2>2 DEF NumbersLeft
<1>17. TableAgrees'
  <2>1. CASE count # 0
    <3>1. Servers' = Servers /\ ServersCount' = ServersCount
      BY <1>1, <1>c, <2>1 DEF Types
    <3>2. QED
      BY <1>1, <3>1 DEF TableAgrees, Used
  <2>2. CASE count = 0
    <3>1. PICK d \in Slots : Servers[d] = s
      BY <1>14 DEF Listed
    <3>2. \A c \in Slots : Servers'[c] = IF c = d THEN 0 ELSE Servers[c]
      BY <1>c, <1>3, <2>2, <3>1 DEF TableAgrees, Numbers
    <3>3. Used' = Used \ {d} /\ d \in Used
      BY <1>3, <3>1, <3>2 DEF Used, Numbers
    <3>4. IsFiniteSet(Used) /\ Cardinality(Used) \in Nat
      BY TablesFinite DEF Used
    <3>5. Cardinality(Used') = Cardinality(Used) - 1
      BY <3>3, <3>4, FS_RemoveElement
    <3>6. ServersCount = Cardinality(Used) /\ ServersCount' = ServersCount - 1
      BY <1>1, <2>2 DEF TableAgrees
    <3>a. ServersCount' = Cardinality(Used') /\ (ServersCount' > 0 => ServersCount > 0)
      BY <3>4, <3>5, <3>6
    <3>7. \A c, e \in Slots : Servers'[c] = Servers'[e] /\ Servers'[c] # 0 => c = e
      BY <3>2 DEF TableAgrees
    <3>8. QED
      BY <1>1, <3>a, <3>7 DEF TableAgrees
  <2>3. QED
    BY <2>1, <2>2
<1>18. NoneLost'
  BY <1>1, <1>9, <1>13, <1>14 DEF NoneLost
<1>19. CountsAgree'
  <2>1. ASSUME NEW x \in Numbers, Alive(x), x # s
        PROVE  server'[x].PartnersCount = Cardinality(Taken(x)') /\ server'[x].PartnersCount # 0
    <3>1. server[x].PartnersCount = Cardinality(Taken(x)) /\ server[x].PartnersCount # 0
      BY <1>1, <2>1 DEF CountsAgree
    <3>2. QED
      BY <1>8, <1>10, <2>1, <3>1
  <2>2. server'[s].PartnersCount = Cardinality(Taken(s)') /\ server'[s].PartnersCount = count
    BY <1>7, <1>8, <1>10
  <2>3. count = 0 => app'.place = "delete" /\ FServer'[app'.partner] = s
    BY <1>0, <1>1, <1>2
  <2>4. QED
    BY <1>9, <1>13, <2>1, <2>2, <2>3 DEF CountsAgree
<1>20. PartnersAgree'
  <2>1. ~registered'[p]
    BY <1>c, <1>2 DEF Types
  <2>2. ASSUME NEW q \in PartnerSet, registered'[q]
        PROVE  Running'[q] /\ Alive(FServer[q])' /\ \E i \in Places : PlacesOf(FServer[q], q)' = {i}
    <3>1. registered[q] /\ q # p
      BY <1>c, <1>2, <2>2 DEF Types
    <3>2. Alive(FServer[q]) /\ \E i \in Places : PlacesOf(FServer[q], q) = {i}
      BY <3>1 DEF PartnersAgree
    <3>3. FServer'[q] = FServer[q] /\ FServer[q] \in Numbers
      BY <1>1, <3>2 DEF Alive
    <3>4. PlacesOf(FServer[q], q)' = PlacesOf(FServer[q], q)
      <4>1. CASE FServer[q] = s
        BY <1>11, <3>1, <3>3, <4>1 DEF PlacesOf
      <4>2. CASE FServer[q] # s
        BY <1>8, <3>3, <4>2 DEF PlacesOf
      <4>3. QED
        BY <4>1, <4>2
    <3>5. Alive(FServer[q])'
      BY <1>3, <1>8, <3>2, <3>3 DEF Alive
    <3>6. QED
      BY <1>1, <1>4, <3>1, <3>2, <3>4, <3>5
  <2>3. ASSUME NEW x \in Numbers, Alive(x), NEW q \in PartnerSet, PlacesOf(x, q)' # {}
        PROVE  registered'[q] /\ FServer'[q] = x
    <3>1. PlacesOf(x, q)' = PlacesOf(x, q) /\ ~(x = s /\ q = p)
      BY <1>10, <1>11, <1>12, <2>3
    <3>2. registered[q] /\ FServer[q] = x
      BY <2>3, <3>1 DEF PartnersAgree
    <3>3. q # p
      BY <1>0, <3>1, <3>2
    <3>4. QED
      BY <1>1, <1>c, <3>2, <3>3 DEF Types
  <2>4. QED
    BY <1>2, <1>9, <2>1, <2>2, <2>3 DEF PartnersAgree
<1>21. QED
  BY <1>15, <1>16, <1>17, <1>18, <1>19, <1>20

\* A server is deleted when nobody has it any more.
LEMMA DeleteServerServers ==
  ASSUME ServersIInv, DeleteServer
  PROVE  ServersIInv'
<1> USE DEF ServersIInv
<1>0. PICK p, s : p = app.partner /\ s = FServer[p]
  OBVIOUS
<1>1. /\ app.place = "delete" /\ server' = [server EXCEPT ![s].state = "deleted"]
      /\ ServersManager' = (ServersCount > 0) /\ app' = [app EXCEPT !.place = "disconnect"]
      /\ UNCHANGED <<Servers, ServersCount, created, FServer, Running, registered, calls>>
  BY <1>0 DEF DeleteServer, partnerVars
<1>2. app' \in AppStates /\ app'.place = "disconnect" /\ app'.partner = p /\ p \in PartnerSet
  <2>1. app \in [place : {"closeworker", "remove", "delete", "disconnect"}, partner : PartnerSet]
    BY <1>1 DEF Types, AppStates, AppIdle
  <2>2. QED
    BY <1>0, <1>1, <2>1 DEF AppStates
<1>3. s \in Numbers \cup {0}
  BY <1>0, <1>2 DEF Types
<1>4. ~registered[p] /\ \A q \in PartnerSet : registered[q] => Running[q]
  BY <1>0, <1>1 DEF PartnersAgree
<1>5. \A x \in Numbers : (Deleting(x) <=> x = s) /\ ~Deleting(x)' /\ (Listed(x)' <=> Listed(x))
  BY <1>0, <1>1, <1>2 DEF Deleting, Listed
<1>6. CASE s \notin Numbers
  <2>1. server' = server
    BY <1>1, <1>6 DEF Types
  <2>2. \A x : (Alive(x)' <=> Alive(x)) /\ Taken(x)' = Taken(x) /\ \A q : PlacesOf(x, q)' = PlacesOf(x, q)
    BY <2>1 DEF Alive, Taken, PlacesOf
  <2>3. Types' /\ NumbersLeft'
    BY <1>1, <1>2, <2>1 DEF Types, NumbersLeft
  <2>4. TableAgrees'
    BY <1>1 DEF TableAgrees, Used
  <2>5. NoneLost'
    BY <1>5, <1>6, <2>2 DEF NoneLost
  <2>6. CountsAgree'
    BY <1>0, <1>1, <1>5, <1>6, <2>1, <2>2 DEF CountsAgree
  <2>7. PartnersAgree'
    BY <1>1, <1>2, <1>4, <2>2 DEF PartnersAgree
  <2>8. QED
    BY <2>3, <2>4, <2>5, <2>6, <2>7
<1>7. CASE s \in Numbers
  <2>1. Alive(s) /\ ~Listed(s) /\ server[s].PartnersCount = 0
    BY <1>5, <1>7 DEF NoneLost, CountsAgree
  <2>2. server[s] \in ServerRecords /\ server[s].state = "alive"
    BY <2>1, AliveRecord
  <2>3. /\ server'[s] \in ServerRecords /\ server'[s].state = "deleted"
        /\ \A x \in Numbers \ {s} : server'[x] = server[x]
    BY <1>1, <1>7, <2>2 DEF Types, ServerRecords
  <2>4. \A x \in Numbers : Alive(x)' <=> Alive(x) /\ x # s
    BY <2>3 DEF Alive
  <2>5. \A x \in Numbers \ {s} : Taken(x)' = Taken(x) /\ \A q : PlacesOf(x, q)' = PlacesOf(x, q)
    BY <2>3 DEF Taken, PlacesOf
  <2>6. \A q \in PartnerSet : registered[q] => FServer[q] # s
    <3> SUFFICES ASSUME NEW q \in PartnerSet, registered[q], FServer[q] = s PROVE FALSE
      OBVIOUS
    <3>1. PICK i \in Places : PlacesOf(s, q) = {i}
      BY DEF PartnersAgree
    <3>2. i \in Taken(s)
      BY <3>1, ConnectionServersAssumption DEF PlacesOf, Taken
    <3>3. Cardinality(Taken(s)) # 0
      BY <3>2, TablesFinite, FS_EmptySet DEF Taken
    <3>4. QED
      BY <1>7, <2>1, <3>3 DEF CountsAgree
  <2>7. Types'
    <3>1. server' \in [Numbers -> ServerRecords \cup {[state |-> "none"]}]
      BY <1>1, <2>3 DEF Types
    <3>2. QED
      BY <1>1, <1>2, <3>1 DEF Types
  <2>8. NumbersLeft'
    BY <1>1, <1>2, <2>2, <2>3 DEF NumbersLeft
  <2>9. TableAgrees'
    BY <1>1 DEF TableAgrees, Used
  <2>10. NoneLost'
    BY <1>5, <2>1, <2>4 DEF NoneLost
  <2>11. CountsAgree'
    <3> SUFFICES ASSUME NEW x \in Numbers, Alive(x), x # s
                 PROVE  server'[x].PartnersCount = Cardinality(Taken(x)') /\ server'[x].PartnersCount # 0
      BY <1>5, <2>4 DEF CountsAgree
    <3>1. server[x].PartnersCount = Cardinality(Taken(x)) /\ server[x].PartnersCount # 0
      BY <1>0 DEF CountsAgree
    <3>2. QED
      BY <2>3, <2>5, <3>1
  <2>12. PartnersAgree'
    <3>1. ASSUME NEW q \in PartnerSet, registered[q]
          PROVE  Running'[q] /\ Alive(FServer[q])' /\ \E i \in Places : PlacesOf(FServer[q], q)' = {i}
      <4>1. Alive(FServer[q]) /\ \E i \in Places : PlacesOf(FServer[q], q) = {i}
        BY <3>1 DEF PartnersAgree
      <4>2. FServer'[q] = FServer[q] /\ FServer[q] \in Numbers \ {s}
        BY <1>1, <2>6, <3>1, <4>1 DEF Alive
      <4>3. PlacesOf(FServer[q], q)' = PlacesOf(FServer[q], q) /\ Alive(FServer[q])'
        BY <2>3, <4>1, <4>2 DEF PlacesOf, Alive
      <4>4. QED
        BY <1>1, <1>4, <3>1, <4>1, <4>3
    <3>2. ASSUME NEW x \in Numbers, Alive(x), x # s, NEW q \in PartnerSet, PlacesOf(x, q)' # {}
          PROVE  registered'[q] /\ FServer'[q] = x
      BY <1>1, <2>5, <3>2 DEF PartnersAgree
    <3>3. QED
      BY <1>1, <1>2, <1>4, <2>4, <3>1, <3>2 DEF PartnersAgree
  <2>13. QED
    BY <2>7, <2>8, <2>9, <2>10, <2>11, <2>12
<1>8. QED
  BY <1>3, <1>6, <1>7

\* A step of the application, a listener, a peer or a worker keeps the invariant.
LEMMA NextServers == ServersIInv /\ [Next]_vars => ServersIInv'
<1> SUFFICES ASSUME ServersIInv, [Next]_vars PROVE ServersIInv'
  OBVIOUS
<1> DEFINE Same == UNCHANGED <<ServersManager, Servers, ServersCount, server, created, FServer, Running, registered, app, calls>>
<1>1. CASE \E p \in PartnerSet : Start(p) \/ Stop(p)
  BY <1>1, StartServers, StopServers
<1>2. CASE InCall
  <2>1. CASE RemoveStale
    <3>1. Same
      BY <2>1 DEF RemoveStale, managerVars, partnerVars
    <3>2. QED
      BY <3>1, SameServers
  <2>2. QED
    BY <1>2, <2>1, GetServerServers, CreateServerServers, CreateServerFailsServers, RegisterPartnerServers,
       StartWorkerServers, StopServers, RemoveNowhereServers, RemovePartnerServers, DeleteServerServers,
       DisconnectServers DEF InCall
<1>3. CASE \/ Kill
           \/ \E p \in PartnerSet : WorkerDisconnects(p)
           \/ \E a \in Addresses, x \in Peers : PeerConnects(a, x)
           \/ UNCHANGED vars
  <2>1. Same
    BY <1>3 DEF Kill, WorkerDisconnects, PeerConnects, vars, managerVars, partnerVars
  <2>2. QED
    BY <2>1, SameServers
<1>4. ASSUME NEW s \in Numbers, ListenerStep(s) PROVE ServersIInv'
  <2>1. Same
    BY <1>4 DEF ListenerStep, Accept, IncomingFind, IncomingTest, SetSocket, ListenerEnds, managerVars, partnerVars
  <2>2. QED
    BY <2>1, SameServers
<1>5. QED
  BY <1>1, <1>2, <1>3, <1>4 DEF Next

\* Table, counts and partners of the connection servers agree in every state, for
\* any number of partners, addresses, peers, places and calls of Start and Stop,
\* until an empty place or a deleted server is used.
THEOREM ServersInvHolds == Spec => []ServersInv
<1>1. Init => ServersIInv
  BY InitServers
<1>2. ServersIInv /\ [Next]_vars => ServersIInv'
  BY NextServers
<1>3. ServersIInv => ServersInv
  BY ServersStrong
<1>4. QED
  BY <1>1, <1>2, <1>3, PTL DEF Spec

-----------------------------------------------------------------------------
(* A stopped partner is given no connection.                               *)

\* A listener that has found a partner for a peer: the partner is at its server,
\* or was the last one there and waits in Stop for the listener to end, or the
\* server has gone on without it.
ListenersAgree ==
  /\ listener = [s \in Numbers |-> listener[s]]
  /\ \A s \in Numbers : listener[s].place # "ended" => Alive(s)
  /\ \A s \in Numbers : listener[s].place \in {"test", "hand"} =>
       \E x, p : /\ listener[s] = [place |-> listener[s].place, peer |-> x, partner |-> p]
                 /\ p \in PartnerSet
                 /\ shared[p] \/ (registered[p] /\ FServer[p] = s) \/ (Deleting(s) /\ app.partner = p)

SocketsAgree ==
  /\ socket = [p \in PartnerSet |-> socket[p]]
  /\ shared \in [PartnerSet -> BOOLEAN]
  /\ app.place \in {"closeworker", "remove", "delete", "disconnect"} => Running[app.partner]
  /\ \A p \in PartnerSet : socket[p] # "none" => shared[p] \/ registered[p] \/ Running[p]

StopIInv == ServersIInv /\ ListenersAgree /\ SocketsAgree

\* A socket that is neither shared, registered nor running is none.
LEMMA StopStrong == StopIInv => StopDisconnects
BY DEF StopIInv, SocketsAgree, StopDisconnects

\* At the start there are no listeners and no connections.
LEMMA InitStop == Init => StopIInv
<1> SUFFICES ASSUME Init PROVE StopIInv
  OBVIOUS
<1>1. ServersIInv
  BY InitServers
<1>2. app.place = "idle"
  BY DEF Init, AppIdle
<1>3. ListenersAgree
  BY DEF Init, ListenersAgree
<1>4. SocketsAgree
  BY <1>2 DEF Init, SocketsAgree
<1>5. QED
  BY <1>1, <1>3, <1>4 DEF StopIInv

\* Steps that touch neither listeners nor connections and take no partner from
\* its server.
LEMMA SameListeners ==
  ASSUME StopIInv, ServersIInv', UNCHANGED <<listener, socket, shared>>,
         app.place # "delete" \/ (app' = app /\ FServer' = FServer),
         \A s \in Numbers : Alive(s) => Alive(s)',
         \A p \in PartnerSet : registered[p] => registered'[p] /\ FServer'[p] = FServer[p],
         \A p \in PartnerSet : Running[p] => Running'[p],
         app'.place \in {"closeworker", "remove", "delete", "disconnect"} => Running'[app'.partner]
  PROVE  StopIInv'
<1> USE DEF StopIInv
<1>1. ListenersAgree'
  <2>1. \A s \in Numbers : listener'[s].place # "ended" => Alive(s)'
    BY DEF ListenersAgree
  <2>2. ASSUME NEW s \in Numbers, listener[s].place \in {"test", "hand"}
        PROVE  \E x, p : /\ listener'[s] = [place |-> listener'[s].place, peer |-> x, partner |-> p]
                         /\ p \in PartnerSet
                         /\ shared'[p] \/ (registered'[p] /\ FServer'[p] = s) \/ (Deleting(s)' /\ app'.partner = p)
    <3>1. PICK x, p : /\ listener[s] = [place |-> listener[s].place, peer |-> x, partner |-> p]
                      /\ p \in PartnerSet
                      /\ shared[p] \/ (registered[p] /\ FServer[p] = s) \/ (Deleting(s) /\ app.partner = p)
      BY <2>2 DEF ListenersAgree
    <3>2. Deleting(s) /\ app.partner = p => Deleting(s)' /\ app'.partner = p
      BY DEF Deleting
    <3>3. QED
      BY <3>1, <3>2
  <2>3. listener' = [s \in Numbers |-> listener'[s]]
    BY DEF ListenersAgree
  <2>4. QED
    BY <2>1, <2>2, <2>3 DEF ListenersAgree
<1>2. SocketsAgree'
  BY DEF SocketsAgree
<1>3. QED
  BY <1>1, <1>2

\* Start and Stop outside of the steps below.
LEMMA CallStop ==
  ASSUME StopIInv, ServersIInv',
         \/ \E p \in PartnerSet : Start(p) \/ Stop(p)
         \/ GetServer \/ CreateServerFails \/ RegisterPartner \/ StartWorker \/ CloseWorker \/ RemoveNowhere
  PROVE  StopIInv'
<1> USE DEF StopIInv, ServersIInv
<1>1. UNCHANGED <<listener, socket, shared>> /\ app.place # "delete"
  BY DEF Start, Stop, GetServer, CreateServerFails, Creates, RegisterPartner, StartWorker, CloseWorker, RemoveNowhere,
         AppIdle, partnerVars
<1>2. \A s \in Numbers : Alive(s) => Alive(s)'
  <2>1. CASE UNCHANGED server
    BY <2>1 DEF Alive
  <2>2. CASE RegisterPartner
    <3>1. ASSUME NEW s \in Numbers, Alive(s), NEW t, NEW i \in Places, NEW p,
                 server' = [server EXCEPT ![t].Partners[i] = p, ![t].PartnersCount = @ + 1]
          PROVE  server'[s].state = "alive"
      <4>1. server[s] \in ServerRecords /\ server[s].state = "alive"
        BY <3>1, AliveRecord
      <4>2. CASE s = t
        BY <3>1, <4>1, <4>2 DEF Types, ServerRecords
      <4>3. CASE s # t
        BY <3>1, <4>1, <4>3 DEF Types
      <4>4. QED
        BY <4>2, <4>3
    <3>2. QED
      BY <2>1, <2>2, <3>1 DEF RegisterPartner, FreePlaces, Firsts, Alive
  <2>3. QED
    BY <2>1, <2>2 DEF Start, Stop, GetServer, CreateServerFails, StartWorker, CloseWorker, RemoveNowhere
<1>3. \A p \in PartnerSet : registered[p] => registered'[p] /\ FServer'[p] = FServer[p]
  <2> SUFFICES ASSUME NEW p \in PartnerSet, registered[p] PROVE registered'[p] /\ FServer'[p] = FServer[p]
    OBVIOUS
  <2>1. CASE GetServer \/ CreateServerFails
    <3>1. app.place = "getserver" /\ registered' = registered
      BY <2>1 DEF GetServer, CreateServerFails, Creates
    <3>2. p # app.partner
      BY <3>1 DEF PartnersAgree
    <3>3. \/ FServer' = FServer
          \/ \E x : FServer' = [FServer EXCEPT ![app.partner] = x]
      BY <2>1 DEF GetServer, CreateServerFails
    <3>4. QED
      BY <3>1, <3>2, <3>3 DEF Types
  <2>2. CASE RegisterPartner
    <3>1. FServer' = FServer /\ (registered' = registered \/ registered' = [registered EXCEPT ![app.partner] = TRUE])
      BY <2>2 DEF RegisterPartner
    <3>2. QED
      BY <3>1 DEF Types
  <2>3. QED
    BY <2>1, <2>2 DEF Start, Stop, StartWorker, CloseWorker, RemoveNowhere, partnerVars
<1>4. \A p \in PartnerSet : Running[p] => Running'[p]
  <2>1. Running' = Running \/ Running' = [Running EXCEPT ![app.partner] = TRUE]
    BY DEF Start, Stop, GetServer, CreateServerFails, RegisterPartner, StartWorker, CloseWorker, RemoveNowhere, partnerVars
  <2>2. QED
    BY <2>1 DEF Types
<1>5. app'.place \in {"closeworker", "remove", "delete", "disconnect"} => Running'[app'.partner]
  <2>1. ASSUME NEW p \in PartnerSet, Stop(p) PROVE Running'[app'.partner]
    BY <2>1 DEF Stop
  <2>2. CASE CloseWorker \/ RemoveNowhere
    <3>1. /\ app.place \in {"closeworker", "remove"} /\ Running' = Running
          /\ app' = [app EXCEPT !.place = "remove"] \/ app' = [app EXCEPT !.place = "disconnect"]
      BY <2>2 DEF CloseWorker, RemoveNowhere, partnerVars
    <3>2. app \in [place : {"closeworker", "remove", "delete", "disconnect"}, partner : PartnerSet]
      BY <3>1 DEF Types, AppStates, AppIdle
    <3>3. app'.partner = app.partner /\ Running[app.partner]
      BY <3>1, <3>2 DEF SocketsAgree
    <3>4. QED
      BY <3>1, <3>3
  <2>3. CASE (\E p \in PartnerSet : Start(p)) \/ CreateServerFails \/ StartWorker
    <3>1. \/ app' = AppIdle
          \/ \E p, a : app' = [place |-> "getserver", partner |-> p, address |-> a]
      BY <2>3 DEF Start, CreateServerFails, StartWorker
    <3>2. app'.place \in {"idle", "getserver"}
      BY <3>1 DEF AppIdle
    <3>3. QED
      BY <3>2
  <2>4. CASE GetServer \/ RegisterPartner
    <3>1. /\ app.place \in {"getserver", "register"}
          /\ app' \in {app, [app EXCEPT !.place = "register"], [app EXCEPT !.place = "run"]}
      BY <2>4 DEF GetServer, RegisterPartner
    <3>2. app \in [place : {"getserver", "register", "run"}, partner : PartnerSet, address : Addresses]
      BY <3>1 DEF Types, AppStates, AppIdle
    <3>3. QED
      BY <3>1, <3>2
  <2>5. QED
    BY <2>1, <2>2, <2>3, <2>4
<1>6. QED
  BY <1>1, <1>2, <1>3, <1>4, <1>5, SameListeners

\* A new server gets a listener.
LEMMA CreateServerStop ==
  ASSUME StopIInv, ServersIInv', CreateServer
  PROVE  StopIInv'
<1> USE DEF StopIInv, ServersIInv
<1>0. PICK s, p : s = created + 1 /\ p = app.partner
  OBVIOUS
<1>1. /\ app.place = "getserver" /\ app' = [app EXCEPT !.place = "register"]
      /\ listener' = [listener EXCEPT ![s] = ListenerIdle] /\ FServer' = [FServer EXCEPT ![p] = s]
      /\ UNCHANGED <<socket, shared, registered, Running>>
  BY <1>0 DEF CreateServer, Creates
<1>2. s \in Numbers /\ \A x \in Numbers \ {s} : server'[x] = server[x]
  <2>1. s \in Numbers
    BY <1>0, <1>1, ConnectionServersAssumption DEF NumbersLeft, Numbers
  <2>2. \E r : server' = [server EXCEPT ![s] = r]
    BY <1>0 DEF CreateServer
  <2>3. QED
    BY <2>1, <2>2 DEF Types
<1>3. app'.place = "register"
  <2>1. app \in [place : {"getserver", "register", "run"}, partner : PartnerSet, address : Addresses]
    BY <1>1 DEF Types, AppStates, AppIdle
  <2>2. QED
    BY <1>1, <2>1
<1>4. ~registered[p] /\ \A q \in PartnerSet : registered[q] => q # p /\ FServer'[q] = FServer[q]
  <2>1. ~registered[p]
    BY <1>0, <1>1 DEF PartnersAgree
  <2>2. QED
    BY <1>1, <2>1 DEF Types
<1>5. ListenersAgree'
  <2>1. listener'[s].place = "idle" /\ \A x \in Numbers \ {s} : listener'[x] = listener[x]
    BY <1>1, <1>2 DEF ListenersAgree, ListenerIdle
  <2>2. Alive(s)'
    <3>1. server'[s].state = "alive"
      BY <1>0, <1>2 DEF CreateServer, Types
    <3>2. QED
      BY <1>2, <3>1 DEF Alive
  <2>3. \A x \in Numbers \ {s} : listener'[x].place # "ended" => Alive(x)'
    BY <1>2, <2>1 DEF ListenersAgree, Alive
  <2>4. ASSUME NEW x \in Numbers, listener'[x].place \in {"test", "hand"}
        PROVE  \E y, q : /\ listener'[x] = [place |-> listener'[x].place, peer |-> y, partner |-> q]
                         /\ q \in PartnerSet
                         /\ shared'[q] \/ (registered'[q] /\ FServer'[q] = x)
    <3>1. x # s /\ listener'[x] = listener[x]
      BY <2>1, <2>4
    <3>2. ~Deleting(x)
      BY <1>1 DEF Deleting
    <3>3. QED
      BY <1>1, <1>4, <2>4, <3>1, <3>2 DEF ListenersAgree
  <2>5. listener' = [x \in Numbers |-> listener'[x]]
    BY <1>1, <1>2 DEF ListenersAgree
  <2>6. QED
    BY <2>1, <2>2, <2>3, <2>4, <2>5 DEF ListenersAgree
<1>6. SocketsAgree'
  BY <1>1, <1>3 DEF SocketsAgree
<1>7. QED
  BY <1>5, <1>6

\* A partner leaves its server: the server goes on and it is shared, or waits.
LEMMA RemovePartnerStop ==
  ASSUME StopIInv, ServersIInv', RemovePartner
  PROVE  StopIInv'
<1> USE DEF StopIInv, ServersIInv
<1>0. PICK p, s, unused : /\ p = app.partner /\ s = FServer[p]
                          /\ unused = Unused(server[s].PartnersCount - Cardinality({i \in Places : server[s].Partners[i] = p}))
  OBVIOUS
<1>1. /\ app.place = "remove" /\ Alive(s)
      /\ app' = [app EXCEPT !.place = IF unused THEN "delete" ELSE "disconnect"]
      /\ UNCHANGED <<listener, socket, FServer, Running>>
  BY <1>0 DEF RemovePartner
<1>2. /\ shared' = [shared EXCEPT ![p] = @ \/ ~unused]
      /\ registered' = [registered EXCEPT ![p] = FALSE]
  BY <1>0 DEF RemovePartner
<1>3. /\ app'.place = (IF unused THEN "delete" ELSE "disconnect") /\ app'.partner = p
      /\ p \in PartnerSet /\ Running'[p]
  <2>1. app \in [place : {"closeworker", "remove", "delete", "disconnect"}, partner : PartnerSet]
    BY <1>1 DEF Types, AppStates, AppIdle
  <2>2. QED
    BY <1>0, <1>1, <2>1 DEF SocketsAgree
<1>4. unused \in BOOLEAN
  BY <1>0 DEF Unused
<1>5. /\ shared' \in [PartnerSet -> BOOLEAN] /\ \A q \in PartnerSet : shared[q] => shared'[q]
      /\ ~unused => shared'[p]
      /\ \A q \in PartnerSet \ {p} : registered'[q] = registered[q]
  BY <1>2, <1>3, <1>4 DEF SocketsAgree, Types
<1>6. \A x \in Numbers : Alive(x) => Alive(x)'
  <2>1. \A x \in Numbers : server'[x].state = server[x].state
    <3>1. \E f, g, h : server' = [server EXCEPT ![s].Partners = f, ![s].PartnersCount = g, ![s].Terminated = h]
      <4>1. \E g, h : server' = [server EXCEPT ![s].Partners = [i \in Places |-> IF i \in {j \in Places : server[s].Partners[j] = p} THEN "none" ELSE @[i]], ![s].PartnersCount = g, ![s].Terminated = h]
        BY <1>0 DEF RemovePartner
      <4>2. QED
        BY <4>1
    <3>2. server[s] \in ServerRecords /\ s \in Numbers
      BY <1>1, AliveRecord
    <3>3. \A x \in Numbers : x # s => server'[x] = server[x]
      BY <3>1, <3>2 DEF Types
    <3>4. server'[s].state = server[s].state
      BY <3>1, <3>2 DEF Types, ServerRecords
    <3>5. QED
      BY <3>3, <3>4
  <2>2. QED
    BY <2>1 DEF Alive
<1>7. ListenersAgree'
  <2>1. ASSUME NEW x \in Numbers, listener[x].place \in {"test", "hand"}
        PROVE  \E y, q : /\ listener'[x] = [place |-> listener'[x].place, peer |-> y, partner |-> q]
                         /\ q \in PartnerSet
                         /\ shared'[q] \/ (registered'[q] /\ FServer'[q] = x) \/ (Deleting(x)' /\ app'.partner = q)
    <3>1. PICK y, q : /\ listener[x] = [place |-> listener[x].place, peer |-> y, partner |-> q]
                      /\ q \in PartnerSet
                      /\ shared[q] \/ (registered[q] /\ FServer[q] = x) \/ (Deleting(x) /\ app.partner = q)
      BY <2>1 DEF ListenersAgree
    <3>2. shared[q] \/ (registered[q] /\ FServer[q] = x)
      BY <1>1, <3>1 DEF Deleting
    <3>3. shared'[q] \/ (registered'[q] /\ FServer'[q] = x) \/ (Deleting(x)' /\ app'.partner = q)
      <4>1. CASE shared[q] \/ q # p
        BY <1>1, <1>5, <3>1, <3>2, <4>1
      <4>2. CASE ~shared[q] /\ q = p
        <5>1. x = s
          BY <1>0, <3>2, <4>2
        <5>2. CASE unused
          BY <1>0, <1>1, <1>3, <4>2, <5>1, <5>2 DEF Deleting
        <5>3. CASE ~unused
          BY <1>5, <4>2, <5>3
        <5>4. QED
          BY <5>2, <5>3
      <4>3. QED
        BY <4>1, <4>2
    <3>4. QED
      BY <1>1, <3>1, <3>3
  <2>2. \A x \in Numbers : listener'[x].place # "ended" => Alive(x)'
    BY <1>1, <1>6 DEF ListenersAgree
  <2>3. QED
    BY <1>1, <2>1, <2>2 DEF ListenersAgree
<1>8. SocketsAgree'
  <2>1. \A q \in PartnerSet : socket'[q] # "none" => shared'[q] \/ registered'[q] \/ Running'[q]
    BY <1>1, <1>3, <1>5 DEF SocketsAgree
  <2>2. QED
    BY <1>1, <1>3, <1>5, <2>1 DEF SocketsAgree
<1>9. QED
  BY <1>7, <1>8

\* The listener of a server that is deleted has ended.
LEMMA DeleteServerStop ==
  ASSUME StopIInv, ServersIInv', DeleteServer
  PROVE  StopIInv'
<1> USE DEF StopIInv, ServersIInv
<1>0. PICK p, s : p = app.partner /\ s = FServer[p]
  OBVIOUS
<1>1. /\ app.place = "delete" /\ listener[s].place = "ended" /\ server' = [server EXCEPT ![s].state = "deleted"]
      /\ app' = [app EXCEPT !.place = "disconnect"]
      /\ UNCHANGED <<listener, FServer, Running, socket, shared, registered>>
  BY <1>0 DEF DeleteServer, ListenerDone, partnerVars
<1>2. app'.place = "disconnect" /\ app'.partner = p /\ Running'[p]
  <2>1. app \in [place : {"closeworker", "remove", "delete", "disconnect"}, partner : PartnerSet]
    BY <1>1 DEF Types, AppStates, AppIdle
  <2>2. QED
    BY <1>0, <1>1, <2>1 DEF SocketsAgree
<1>3. \A x \in Numbers : x # s => (Alive(x)' <=> Alive(x)) /\ ~Deleting(x)
  BY <1>0, <1>1 DEF Types, Alive, Deleting
<1>4. ListenersAgree'
  <2>1. \A x \in Numbers : listener'[x].place # "ended" => Alive(x)' /\ x # s
    BY <1>1, <1>3 DEF ListenersAgree
  <2>2. ASSUME NEW x \in Numbers, listener[x].place \in {"test", "hand"}
        PROVE  \E y, q : /\ listener'[x] = [place |-> listener'[x].place, peer |-> y, partner |-> q]
                         /\ q \in PartnerSet
                         /\ shared'[q] \/ (registered'[q] /\ FServer'[q] = x)
    <3>1. ~Deleting(x)
      BY <1>1, <1>3, <2>2
    <3>2. QED
      BY <1>1, <2>2, <3>1 DEF ListenersAgree
  <2>3. QED
    BY <1>1, <2>1, <2>2 DEF ListenersAgree
<1>5. SocketsAgree'
  BY <1>1, <1>2 DEF SocketsAgree
<1>6. QED
  BY <1>4, <1>5

\* The last step of Stop closes the connection.
LEMMA DisconnectStop ==
  ASSUME StopIInv, ServersIInv', Disconnect
  PROVE  StopIInv'
<1> USE DEF StopIInv, ServersIInv
<1>0. PICK p : p = app.partner
  OBVIOUS
<1>1. /\ app.place = "disconnect" /\ app' = AppIdle /\ app'.place = "idle"
      /\ socket' = [socket EXCEPT ![p] = "none"] /\ Running' = [Running EXCEPT ![p] = FALSE]
      /\ UNCHANGED <<server, listener, FServer, shared, registered>>
  BY <1>0 DEF Disconnect, AppIdle
<1>2. ListenersAgree'
  <2>1. \A x : ~Deleting(x)
    BY <1>1 DEF Deleting
  <2>2. \A x : Alive(x)' <=> Alive(x)
    BY <1>1 DEF Alive
  <2>3. QED
    BY <1>1, <2>1, <2>2 DEF ListenersAgree
<1>3. SocketsAgree'
  <2>1. \A q \in PartnerSet : socket'[q] # "none" => q # p /\ socket[q] # "none"
    BY <1>1 DEF SocketsAgree
  <2>2. \A q \in PartnerSet : q # p => Running'[q] = Running[q]
    BY <1>1 DEF Types
  <2>3. socket' = [q \in PartnerSet |-> socket'[q]]
    BY <1>1 DEF SocketsAgree
  <2>4. QED
    BY <1>1, <2>1, <2>2, <2>3 DEF SocketsAgree
<1>4. QED
  BY <1>2, <1>3

\* A listener finds a partner that is at its server, and hands it the connection.
LEMMA ListenerStop ==
  ASSUME StopIInv, ServersIInv', NEW s \in Numbers, ListenerStep(s)
  PROVE  StopIInv'
<1> USE DEF StopIInv, ServersIInv
<1>1. /\ UNCHANGED <<server, FServer, Running, registered, shared, app>>
      /\ listener' = [listener EXCEPT ![s] = listener'[s]]
      /\ listener[s].place # "ended"
  <2>1. UNCHANGED <<server, FServer, Running, registered, shared, app>>
    BY DEF ListenerStep, Accept, IncomingFind, IncomingTest, SetSocket, ListenerEnds, partnerVars
  <2>2. listener[s].place # "ended" /\ \E r : listener' = [listener EXCEPT ![s] = r]
    BY DEF ListenerStep, Accept, IncomingFind, IncomingTest, SetSocket, ListenerEnds
  <2>3. QED
    BY <2>1, <2>2 DEF ListenersAgree
<1>2. \A x \in Numbers : x # s => listener'[x] = listener[x]
  BY <1>1 DEF ListenersAgree
<1>3. \A x : (Alive(x)' <=> Alive(x)) /\ (Deleting(x)' <=> Deleting(x))
  BY <1>1 DEF Alive, Deleting
<1>4. Alive(s)
  BY <1>1 DEF ListenersAgree
<1>5. listener'[s].place \in {"test", "hand"} =>
        \E x, p : /\ listener'[s] = [place |-> listener'[s].place, peer |-> x, partner |-> p]
                  /\ p \in PartnerSet
                  /\ shared[p] \/ (registered[p] /\ FServer[p] = s) \/ (Deleting(s) /\ app.partner = p)
  <2>1. CASE IncomingFind(s)
    <3>1. PICK x, p : x = listener[s].peer /\ p = FindPartner(s, x)
      OBVIOUS
    <3>2. listener'[s] = IF p = "none" THEN ListenerIdle ELSE [place |-> "test", peer |-> x, partner |-> p]
      BY <2>1, <3>1 DEF IncomingFind, ListenersAgree
    <3>3. CASE p # "none"
      <4>1. PICK i \in Places : server[s].Partners[i] = p
        BY <3>1, <3>3 DEF FindPartner, Firsts
      <4>2. p \in PartnerSet
        BY <1>4, <3>3, <4>1, AliveRecord DEF ServerRecords
      <4>3. PlacesOf(s, p) # {}
        BY <4>1 DEF PlacesOf
      <4>4. registered[p] /\ FServer[p] = s
        BY <1>4, <4>2, <4>3 DEF PartnersAgree
      <4>5. listener'[s] = [place |-> "test", peer |-> x, partner |-> p]
        BY <3>2, <3>3
      <4>6. listener'[s].place = "test"
        BY <4>5
      <4>7. listener'[s] = [place |-> listener'[s].place, peer |-> x, partner |-> p]
        BY <4>5, <4>6
      <4>8. QED
        BY <4>2, <4>4, <4>7
    <3>4. CASE p = "none"
      BY <3>2, <3>4 DEF ListenerIdle
    <3>5. QED
      BY <3>3, <3>4
  <2>2. CASE IncomingTest(s)
    <3>1. PICK x, p : /\ listener[s] = [place |-> "test", peer |-> x, partner |-> p]
                      /\ p \in PartnerSet
                      /\ shared[p] \/ (registered[p] /\ FServer[p] = s) \/ (Deleting(s) /\ app.partner = p)
      BY <2>2 DEF IncomingTest, ListenersAgree
    <3>2. listener'[s] = ListenerIdle \/ listener'[s] = [listener[s] EXCEPT !.place = "hand"]
      BY <2>2 DEF IncomingTest, ListenersAgree
    <3>3. listener'[s] = ListenerIdle \/ listener'[s] = [place |-> "hand", peer |-> x, partner |-> p]
      BY <3>1, <3>2
    <3>4. CASE listener'[s] = ListenerIdle
      BY <3>4 DEF ListenerIdle
    <3>5. CASE listener'[s] = [place |-> "hand", peer |-> x, partner |-> p]
      <4>1. listener'[s].place = "hand"
        BY <3>5
      <4>2. listener'[s] = [place |-> listener'[s].place, peer |-> x, partner |-> p]
        BY <3>5, <4>1
      <4>3. QED
        BY <3>1, <4>2
    <3>6. QED
      BY <3>3, <3>4, <3>5
  <2>3. CASE Accept(s)
    <3>1. listener'[s] = ListenerIdle \/ \E x : listener'[s] = [place |-> "find", peer |-> x]
      BY <2>3 DEF Accept, ListenersAgree
    <3>2. listener'[s].place \in {"idle", "find"}
      <4>1. ListenerIdle.place = "idle" /\ \A x : [place |-> "find", peer |-> x].place = "find"
        BY DEF ListenerIdle
      <4>2. QED
        BY <3>1, <4>1
    <3>3. QED
      BY <3>2
  <2>4. CASE SetSocket(s) \/ ListenerEnds(s)
    <3>1. listener'[s] = ListenerIdle \/ listener'[s] = [place |-> "ended"]
      BY <2>4 DEF SetSocket, ListenerEnds, ListenersAgree
    <3>2. listener'[s].place \in {"idle", "ended"}
      BY <3>1 DEF ListenerIdle
    <3>3. QED
      BY <3>2
  <2>5. QED
    BY <2>1, <2>2, <2>3, <2>4 DEF ListenerStep
<1>6. ListenersAgree'
  <2>1. \A x \in Numbers : listener'[x].place # "ended" => Alive(x)'
    BY <1>2, <1>3, <1>4 DEF ListenersAgree
  <2>2. ASSUME NEW x \in Numbers, listener'[x].place \in {"test", "hand"}
        PROVE  \E y, q : /\ listener'[x] = [place |-> listener'[x].place, peer |-> y, partner |-> q]
                         /\ q \in PartnerSet
                         /\ shared[q] \/ (registered[q] /\ FServer[q] = x) \/ (Deleting(x) /\ app.partner = q)
    <3>1. CASE x = s
      BY <1>5, <2>2, <3>1
    <3>2. CASE x # s
      BY <1>2, <2>2, <3>2 DEF ListenersAgree
    <3>3. QED
      BY <3>1, <3>2
  <2>3. listener' = [x \in Numbers |-> listener'[x]]
    BY <1>1 DEF ListenersAgree
  <2>4. QED
    BY <1>1, <1>3, <2>1, <2>2, <2>3 DEF ListenersAgree
<1>7. SocketsAgree'
  <2>1. CASE SetSocket(s)
    <3>1. PICK x, p : /\ listener[s] = [place |-> "hand", peer |-> x, partner |-> p]
                      /\ p \in PartnerSet
                      /\ shared[p] \/ (registered[p] /\ FServer[p] = s) \/ (Deleting(s) /\ app.partner = p)
      BY <2>1 DEF SetSocket, ListenersAgree
    <3>2. socket' = [socket EXCEPT ![p] = x]
      BY <2>1, <3>1 DEF SetSocket
    <3>3. shared[p] \/ registered[p] \/ Running[p]
      BY <3>1 DEF Deleting, SocketsAgree
    <3>4. \A q \in PartnerSet : socket'[q] # "none" => shared[q] \/ registered[q] \/ Running[q]
      BY <3>2, <3>3 DEF SocketsAgree
    <3>5. socket' = [q \in PartnerSet |-> socket'[q]]
      BY <3>2 DEF SocketsAgree
    <3>6. QED
      BY <1>1, <3>4, <3>5 DEF SocketsAgree
  <2>2. CASE socket' = socket
    BY <1>1, <2>2 DEF SocketsAgree
  <2>3. QED
    BY <2>1, <2>2 DEF ListenerStep, Accept, IncomingFind, IncomingTest, ListenerEnds, partnerVars
<1>8. QED
  BY <1>6, <1>7

\* A listener that does not end in time is killed; a worker closes its connection.
LEMMA OutsideStop ==
  ASSUME StopIInv, ServersIInv',
         \/ Kill \/ RemoveStale \/ UNCHANGED vars
         \/ \E p \in PartnerSet : WorkerDisconnects(p)
         \/ \E a \in Addresses, x \in Peers : PeerConnects(a, x)
  PROVE  StopIInv'
<1> USE DEF StopIInv, ServersIInv
<1>1. UNCHANGED <<server, FServer, Running, registered, shared, app>>
  BY DEF Kill, RemoveStale, WorkerDisconnects, PeerConnects, vars, partnerVars
<1>2. \A x : (Alive(x)' <=> Alive(x)) /\ (Deleting(x)' <=> Deleting(x))
  BY <1>1 DEF Alive, Deleting
<1>3. /\ listener' = listener \/ \E s : listener' = [listener EXCEPT ![s] = [place |-> "ended"]]
      /\ socket' = socket \/ \E p : socket' = [socket EXCEPT ![p] = "none"]
  BY DEF Kill, RemoveStale, WorkerDisconnects, PeerConnects, vars, partnerVars
<1>4. ListenersAgree'
  <2>1. \A x \in Numbers : listener'[x].place # "ended" => listener'[x] = listener[x]
    BY <1>3 DEF ListenersAgree
  <2>2. listener' = [x \in Numbers |-> listener'[x]]
    BY <1>3 DEF ListenersAgree
  <2>3. \A x \in Numbers : listener'[x].place # "ended" => Alive(x)'
    BY <1>2, <2>1 DEF ListenersAgree
  <2>4. ASSUME NEW x \in Numbers, listener'[x].place \in {"test", "hand"}
        PROVE  \E y, q : /\ listener'[x] = [place |-> listener'[x].place, peer |-> y, partner |-> q]
                         /\ q \in PartnerSet
                         /\ shared[q] \/ (registered[q] /\ FServer[q] = x) \/ (Deleting(x) /\ app.partner = q)
    BY <2>1, <2>4 DEF ListenersAgree
  <2>5. QED
    BY <1>1, <1>2, <2>2, <2>3, <2>4 DEF ListenersAgree
<1>5. SocketsAgree'
  <2>1. \A q \in PartnerSet : socket'[q] # "none" => socket[q] # "none"
    BY <1>3 DEF SocketsAgree
  <2>2. socket' = [q \in PartnerSet |-> socket'[q]]
    BY <1>3 DEF SocketsAgree
  <2>3. QED
    BY <1>1, <2>1, <2>2 DEF SocketsAgree
<1>6. QED
  BY <1>4, <1>5

\* Every step keeps the invariant: the union of the lemmas above.
LEMMA NextStop == StopIInv /\ [Next]_vars => StopIInv'
<1> SUFFICES ASSUME StopIInv, [Next]_vars PROVE StopIInv'
  OBVIOUS
<1>1. ServersIInv'
  BY NextServers DEF StopIInv
<1>2. QED
  BY <1>1, CallStop, CreateServerStop, RemovePartnerStop, DeleteServerStop, DisconnectStop, ListenerStop, OutsideStop
     DEF Next, InCall

\* A partner that has been stopped has no connection, nor gets one from a listener
\* that had it in hand, unless its server has gone on for others: for any number
\* of partners, servers, peers and calls.
THEOREM StopDisconnectsHolds == Spec => []StopDisconnects
<1>1. Init => StopIInv
  BY InitStop
<1>2. StopIInv /\ [Next]_vars => StopIInv'
  BY NextStop
<1>3. StopIInv => StopDisconnects
  BY StopStrong
<1>4. QED
  BY <1>1, <1>2, <1>3, PTL DEF Spec

=============================================================================
