-------------------------- MODULE TcpServerProofs --------------------------
(***************************************************************************)
(* What TcpServer guarantees for any size of the table, any limit and any  *)
(* number of connections, whether or not threads are killed by time-outs.  *)
(***************************************************************************)
EXTENDS TcpServer, FiniteSetTheorems, TLAPS

\* The table is finite, so ClientsCount can be its number of used places.
LEMMA UsedFinite ==
  /\ IsFiniteSet(Used)
  /\ Cardinality(Used) \in Nat
  /\ Cardinality(Used) = 0 <=> Used = {}
  /\ LostPlaces = {} => Cardinality(LostPlaces) = 0
<1>1. IsFiniteSet(Slots)
  BY FS_Interval, ServerAssumption DEF Slots
<1>2. Used \subseteq Slots
  BY DEF Used
<1>3. IsFiniteSet(Used)
  BY <1>1, <1>2, FS_Subset
<1>4. QED
  BY <1>3, FS_CardinalityType, FS_EmptySet

\* The server starts stopped, with an empty table.
LEMMA InitServer == Init => ServerInv
<1> SUFFICES ASSUME Init PROVE ServerInv
  OBVIOUS
<1>1. MaxWorkers \in Nat /\ Limits \subseteq Nat /\ MaxConns \in Nat
  BY ServerAssumption
<1>2. Used = {} /\ Placed = {} /\ Cardinality(Used) = 0
  BY UsedFinite DEF Init, Used, Placed, Alive, Lost
<1>3. TypeOK
  <2>1. Workers \in [Slots -> 0..MaxConns] /\ held \in 0..MaxConns /\ nConns \in 0..MaxConns
    BY <1>1 DEF Init
  <2>2. /\ worker \in [Conns -> {"none", "start", "run", "report", "callback", "freed",
                             "unlock", "done", "lost", "killed"}]
        /\ index \in [Conns -> Slots \cup {0}]
        /\ wTerminated \in [Conns -> BOOLEAN]
    BY DEF Init
  <2>3. scan \in 1..(MaxWorkers + 1) /\ ClientsCount \in Int
    BY <1>1 DEF Init
  <2>4. /\ CSList \in Conns \cup {Nobody, Listener} /\ CSEvent \in Conns \cup {Nobody, Listener}
        /\ destroying \in BOOLEAN /\ lTerminated \in BOOLEAN
        /\ MaxClients \in Nat /\ timely \in BOOLEAN
    BY <1>1 DEF Init
  <2>5. QED
    BY <2>1, <2>2, <2>3, <2>4 DEF Init, TypeOK
<1>4. TableInv
  BY <1>2 DEF Init, TableInv
<1>5. ConnInv
  BY DEF Init, ConnInv
<1>6. PhaseInv
  BY <1>1, <1>2 DEF Init, PhaseInv
<1>7. LostInv
  BY DEF Init, LostInv
<1>8. QED
  BY <1>3, <1>4, <1>5, <1>6, <1>7 DEF ServerInv

\* A step that adds nobody and removes nobody leaves the table as it is.
LEMMA SameTable ==
  ASSUME TableInv, UNCHANGED <<tabVars, index, app>>, Placed' = Placed
  PROVE  TableInv' /\ Used' = Used
<1>1. Used' = Used
  BY DEF tabVars, Used
<1>2. TableInv'
  BY <1>1 DEF tabVars, TableInv
<1>3. QED
  BY <1>1, <1>2

\* The steps of the listener; IncomingAdd is the one that fills a place.
LEMMA ListenerInv ==
  ASSUME ServerInv, ListenerNext
  PROVE  ServerInv'
<1> USE DEF ServerInv
<1>1. CASE ListenerLoop \/ ListenerAccept \/ ListenerCheck \/ Incoming \/ ListenerReport
           \/ ListenerReported \/ IncomingUnlock
  <2>1. UNCHANGED <<srvVars, tabVars, wrkVars, appVars>>
    BY <1>1 DEF ListenerLoop, ListenerAccept, ListenerCheck, Incoming, ListenerReport,
                ListenerReported, IncomingUnlock
  <2>2. TypeOK'
    BY <1>1, <2>1, ServerAssumption
       DEF ListenerLoop, ListenerAccept, ListenerCheck, Incoming, ListenerReport,
           ListenerReported, IncomingUnlock, AfterReport, TypeOK, srvVars, setVars, tabVars,
           wrkVars, appVars, Nobody, Listener
  <2>3. TableInv' /\ Used' = Used
    BY <2>1, SameTable DEF wrkVars, appVars, Placed, Alive, Lost
  <2>4. ConnInv'
    BY <1>1, <2>1, ServerAssumption
       DEF ListenerLoop, ListenerAccept, ListenerCheck, Incoming, ListenerReport,
           ListenerReported, IncomingUnlock, AfterReport, TypeOK, ConnInv, wrkVars, Conns
  <2>5. PhaseInv'
    <3>1. listener # "none"
      BY <1>1 DEF ListenerLoop, ListenerAccept, ListenerCheck, Incoming, ListenerReport,
                  ListenerReported, IncomingUnlock
    <3>2. listener' = "lock" => Incoming
      BY <1>1 DEF ListenerLoop, ListenerAccept, ListenerCheck, Incoming, ListenerReport,
                  ListenerReported, IncomingUnlock, AfterReport
    <3>3. /\ app \notin {"terminate", "scan", "tell", "count", "kill", "dropped", "zero",
                         "stopped", "crashed"}
          /\ app \in {"idle", "failed", "gone"} => status = "running"
      BY <3>1 DEF PhaseInv
    <3>4. MaxClients # 0 /\ Incoming /\ listener' = "lock" => Cardinality(Used) < MaxClients
      BY <3>3 DEF Incoming, CanAccept, TableInv
    <3>5. QED
      BY <2>1, <2>3, <3>2, <3>3, <3>4 DEF PhaseInv, srvVars, setVars, appVars
  <2>6. LostInv'
    BY <2>1 DEF LostInv, Lost, srvVars, setVars, wrkVars, appVars
  <2>7. QED
    BY <2>2, <2>3, <2>4, <2>5, <2>6
<1>2. CASE IncomingAdd
  <2> DEFINE c == nConns
  <2>1. /\ listener = "lock" /\ listener' = "report" /\ CSList' = Listener
        /\ c \in Conns /\ worker[c] = "none" /\ nConns' = c
        /\ UNCHANGED <<srvVars, lTerminated, CSEvent, appVars, nConns>>
    BY <1>2 DEF IncomingAdd, ConnInv
  <2>2. /\ app \notin {"terminate", "scan", "tell", "count", "kill", "dropped", "zero",
                       "stopped", "crashed"}
        /\ app \in {"idle", "failed", "gone"} => status = "running"
    BY <2>1 DEF PhaseInv
  <2>3. CASE FreeSlots = {}
    <3>1. UNCHANGED <<tabVars, wrkVars>>
      BY <1>2, <2>3 DEF IncomingAdd
    <3>2. TypeOK'
      BY <2>1, <3>1 DEF TypeOK, srvVars, setVars, tabVars, wrkVars, appVars, Listener
    <3>3. TableInv' /\ Used' = Used
      BY <2>1, <3>1, SameTable DEF wrkVars, appVars, Placed, Alive, Lost
    <3>4. ConnInv'
      BY <2>1, <3>1 DEF ConnInv, wrkVars
    <3>5. PhaseInv'
      BY <2>1, <2>2, <3>3 DEF PhaseInv, srvVars, setVars, appVars
    <3>6. LostInv'
      BY <2>1, <3>1 DEF LostInv, Lost, srvVars, setVars, wrkVars, appVars
    <3>7. QED
      BY <3>2, <3>3, <3>4, <3>5, <3>6
  <2>4. CASE FreeSlots # {}
    <3>1. PICK s \in FreeSlots : /\ Workers' = [Workers EXCEPT ![s] = c]
                                /\ index' = [index EXCEPT ![c] = s]
      BY <1>2, <2>4 DEF IncomingAdd, FirstFree
    <3>2. /\ ClientsCount' = ClientsCount + 1
          /\ worker' = [worker EXCEPT ![c] = "start"]
          /\ wTerminated' = [wTerminated EXCEPT ![c] = FALSE]
      BY <1>2, <2>4 DEF IncomingAdd
    <3>3. s \in Slots /\ Workers[s] = 0 /\ c \in 1..MaxConns
      BY <2>1 DEF FreeSlots, Conns
    <3>4. TypeOK'
      <4>1. Workers' \in [Slots -> 0..MaxConns]
        BY <3>1, <3>3 DEF TypeOK
      <4>2. index' \in [Conns -> Slots \cup {0}]
        BY <3>1, <3>3 DEF TypeOK
      <4>3. worker' \in [Conns -> {"none", "start", "run", "report", "callback", "freed",
                                  "unlock", "done", "lost", "killed"}]
        BY <2>1, <3>2 DEF TypeOK
      <4>4. ClientsCount' \in Int
        BY <3>2 DEF TypeOK
      <4>5. QED
        BY <2>1, <3>2, <4>1, <4>2, <4>3, <4>4 DEF TypeOK, srvVars, setVars, appVars, Listener
    <3>5. Used' = Used \cup {s} /\ s \notin Used
      BY <3>1, <3>3, ServerAssumption DEF Used, TypeOK
    <3>6. Placed' = Placed \cup {c} /\ c \notin Placed
      BY <2>1, <3>2 DEF Placed, Alive, Lost, TypeOK
    <3>7. Cardinality(Used') = Cardinality(Used) + 1
      BY <3>5, UsedFinite, FS_AddElement
    <3>8. TableInv'
      <4>1. \A w \in Placed' : index'[w] \in Slots /\ Workers'[index'[w]] = w
        <5> SUFFICES ASSUME NEW w \in Placed'
                     PROVE  index'[w] \in Slots /\ Workers'[index'[w]] = w
          OBVIOUS
        <5>1. CASE w = c
          BY <2>1, <3>1, <3>3, <5>1 DEF TypeOK
        <5>2. CASE w # c
          <6>1. w \in Placed /\ index'[w] = index[w]
            BY <2>1, <3>1, <3>6, <5>2 DEF TypeOK, Placed, Alive, Lost
          <6>2. Workers[index[w]] = w /\ index[w] \in Slots /\ w # 0
            BY <6>1 DEF TableInv, Placed, Alive, Lost, Conns
          <6>3. QED
            BY <3>1, <3>3, <6>1, <6>2 DEF TypeOK
        <5>3. QED
          BY <5>1, <5>2
      <4>2. \A r \in Used' : Workers'[r] \in Placed' /\ index'[Workers'[r]] = r
        <5> SUFFICES ASSUME NEW r \in Used'
                     PROVE  Workers'[r] \in Placed' /\ index'[Workers'[r]] = r
          OBVIOUS
        <5>1. CASE r = s
          BY <2>1, <3>1, <3>3, <3>6, <5>1 DEF TypeOK
        <5>2. CASE r # s
          <6>1. r \in Used /\ Workers'[r] = Workers[r]
            BY <3>1, <3>5, <5>2 DEF TypeOK, Used
          <6>2. Workers[r] \in Placed /\ index[Workers[r]] = r /\ Workers[r] # c
            BY <3>6, <6>1 DEF TableInv
          <6>3. QED
            BY <2>1, <3>1, <3>6, <6>1, <6>2 DEF TypeOK, Placed, Alive, Lost
        <5>3. QED
          BY <5>1, <5>2
      <4>3. ClientsCount' = Cardinality(Used')
        BY <2>2, <3>2, <3>7 DEF TableInv
      <4>4. QED
        BY <2>1, <2>2, <4>1, <4>2, <4>3 DEF TableInv, appVars
    <3>9. ConnInv'
      BY <2>1, <3>2, ServerAssumption DEF ConnInv, TypeOK, Conns
    <3>10. PhaseInv'
      BY <2>1, <2>2, <3>7, UsedFinite, ServerAssumption DEF TypeOK, PhaseInv, srvVars, setVars, appVars
    <3>11. LostInv'
      BY <2>1, <2>2, <3>2 DEF LostInv, Lost, TypeOK, appVars
    <3>12. QED
      BY <3>4, <3>8, <3>9, <3>10, <3>11
  <2>5. QED
    BY <2>3, <2>4
<1>3. QED
  BY <1>1, <1>2 DEF ListenerNext

\* The steps of a worker; WorkerDelete is the one that empties its place.
LEMMA WorkerInv ==
  ASSUME ServerInv, NEW c \in Conns, WorkerSelfClose(c) \/ WorkerFinish(c)
  PROVE  ServerInv'
<1> USE DEF ServerInv, WorkerGoes
<1>1. CASE \/ WorkerBegin(c) \/ WorkerSelfClose(c) \/ WorkerStop(c) \/ WorkerReport(c)
           \/ WorkerReported(c) \/ WorkerUnlock(c)
  <2>1. /\ worker[c] # "none" /\ worker'[c] # "none"
        /\ UNCHANGED <<srvVars, lstVars, tabVars, index, wTerminated, appVars, nConns>>
        /\ \A w \in Conns : w # c => worker'[w] = worker[w]
    BY <1>1 DEF WorkerBegin, WorkerSelfClose, WorkerStop, WorkerReport, WorkerReported,
                WorkerUnlock, TypeOK
  <2>2. Placed' = Placed
    BY <1>1 DEF WorkerBegin, WorkerSelfClose, WorkerStop, WorkerReport, WorkerReported,
                WorkerUnlock, TypeOK, Placed, Alive, Lost
  <2>3. worker' \in [Conns -> {"none", "start", "run", "report", "callback", "freed",
                              "unlock", "done", "lost", "killed"}]
    BY <1>1 DEF WorkerBegin, WorkerSelfClose, WorkerStop, WorkerReport, WorkerReported,
                WorkerUnlock, TypeOK
  <2>4. CSList' \in Conns \cup {Nobody, Listener} /\ CSEvent' \in Conns \cup {Nobody, Listener}
    BY <1>1 DEF WorkerBegin, WorkerSelfClose, WorkerStop, WorkerReport, WorkerReported,
                WorkerUnlock, TypeOK
  <2>5. TypeOK'
    BY <2>1, <2>3, <2>4 DEF TypeOK, srvVars, setVars, lstVars, tabVars, appVars
  <2>6. TableInv' /\ Used' = Used
    BY <2>1, <2>2, SameTable DEF appVars
  <2>7. ConnInv'
    BY <2>1 DEF ConnInv, lstVars
  <2>8. PhaseInv'
    BY <2>1, <2>6 DEF PhaseInv, srvVars, setVars, lstVars, appVars
  <2>9. LostInv'
    <3>1. worker'[c] # "start" /\ (worker[c] = "lost" => FALSE)
      BY <1>1 DEF WorkerBegin, WorkerSelfClose, WorkerStop, WorkerReport, WorkerReported,
                  WorkerUnlock, TypeOK
    <3>2. worker'[c] = "lost" => worker[c] = "start" /\ wTerminated[c]
      BY <1>1 DEF WorkerBegin, WorkerSelfClose, WorkerStop, WorkerReport, WorkerReported,
                  WorkerUnlock, TypeOK
    <3>3. Lost \subseteq Lost'
      BY <2>1, <3>1 DEF Lost
    <3>4. QED
      BY <2>1, <3>1, <3>2, <3>3 DEF LostInv, srvVars, setVars, appVars
  <2>10. QED
    BY <2>5, <2>6, <2>7, <2>8, <2>9
<1>2. CASE WorkerDelete(c)
  <2> DEFINE s == index[c]
  <2>1. /\ worker[c] = "freed" /\ worker' = [worker EXCEPT ![c] = "unlock"]
        /\ Workers' = [Workers EXCEPT ![s] = 0] /\ ClientsCount' = ClientsCount - 1
        /\ CSList' = c
        /\ UNCHANGED <<srvVars, lstVars, index, wTerminated, CSEvent, appVars, nConns>>
    BY <1>2 DEF WorkerDelete, CountedOut
  <2>2. c \in Placed /\ s \in Slots /\ Workers[s] = c /\ c # 0
    BY <2>1 DEF Placed, Alive, Lost, TableInv, Conns
  <2>3. Used' = Used \ {s} /\ s \in Used
    BY <2>1, <2>2 DEF Used, TypeOK
  <2>4. Placed' = Placed \ {c}
    BY <2>1 DEF Placed, Alive, Lost, TypeOK
  <2>5. Cardinality(Used') = Cardinality(Used) - 1
    BY <2>3, UsedFinite, FS_RemoveElement
  <2>6. /\ app \notin {"dropped", "zero", "stopped"}
        /\ app \in {"idle", "failed", "gone"} => status = "running"
    BY <2>3 DEF TableInv, PhaseInv
  <2>7. TypeOK'
    <3>0. 0 \in 0..MaxConns
      BY ServerAssumption
    <3>1. Workers' \in [Slots -> 0..MaxConns]
      BY <2>1, <2>2, <3>0 DEF TypeOK
    <3>2. worker' \in [Conns -> {"none", "start", "run", "report", "callback", "freed",
                                "unlock", "done", "lost", "killed"}]
      BY <2>1 DEF TypeOK
    <3>3. QED
      BY <2>1, <3>1, <3>2 DEF TypeOK, srvVars, setVars, lstVars, appVars
  <2>8. TableInv'
    <3>1. \A w \in Placed' : index'[w] \in Slots /\ Workers'[index'[w]] = w
      <4> SUFFICES ASSUME NEW w \in Placed'
                   PROVE  index'[w] \in Slots /\ Workers'[index'[w]] = w
        OBVIOUS
      <4>1. w \in Placed /\ w # c /\ index'[w] = index[w]
        BY <2>1, <2>4
      <4>2. index[w] \in Slots /\ Workers[index[w]] = w /\ index[w] # s
        BY <2>2, <4>1 DEF TableInv
      <4>3. QED
        BY <2>1, <4>1, <4>2 DEF TypeOK
    <3>2. \A r \in Used' : Workers'[r] \in Placed' /\ index'[Workers'[r]] = r
      <4> SUFFICES ASSUME NEW r \in Used'
                   PROVE  Workers'[r] \in Placed' /\ index'[Workers'[r]] = r
        OBVIOUS
      <4>1. r \in Used /\ r # s /\ Workers'[r] = Workers[r]
        BY <2>1, <2>3 DEF TypeOK, Used
      <4>2. Workers[r] \in Placed /\ index[Workers[r]] = r
        BY <4>1 DEF TableInv
      <4>3. QED
        BY <2>1, <2>4, <4>1, <4>2
    <3>3. ClientsCount' = Cardinality(Used')
      BY <2>1, <2>5, <2>6 DEF TableInv
    <3>4. QED
      BY <2>1, <2>6, <3>1, <3>2, <3>3 DEF TableInv, appVars
  <2>9. ConnInv'
    BY <2>1 DEF ConnInv, TypeOK, lstVars
  <2>10. PhaseInv'
    BY <2>1, <2>5, <2>6, UsedFinite, ServerAssumption DEF TypeOK, PhaseInv, srvVars, setVars, lstVars, appVars
  <2>11. LostInv'
    BY <2>1 DEF LostInv, Lost, TypeOK, srvVars, setVars, appVars
  <2>12. QED
    BY <2>7, <2>8, <2>9, <2>10, <2>11
<1>3. QED
  BY <1>1, <1>2 DEF WorkerFinish

\* The steps of the application; KillAll is the one that empties the table.
LEMMA AppInv ==
  ASSUME ServerInv, Start \/ Stop \/ Destroy \/ AppFinish
  PROVE  ServerInv'
<1> USE DEF ServerInv
<1>0. MaxWorkers \in Nat /\ MaxClients \in Nat /\ MaxConns \in Nat
  BY ServerAssumption DEF TypeOK
<1>1. CASE \/ Start \/ ReportStarted \/ Stop \/ Destroy \/ JoinListener \/ TerminateAll
           \/ ScanTest \/ ScanTell \/ WaitCount \/ ReportStopped
  <2> USE DEF Start, ReportStarted, Stop, Destroy, JoinListener, TerminateAll, ScanTest,
              ScanTell, WaitCount, ReportStopped
  <2>1. UNCHANGED <<tabVars, worker, index, CSList, CSEvent, nConns, setVars>>
    BY <1>1 DEF wrkVars, srvVars
  <2>2. Used' = Used /\ Placed' = Placed
    BY <2>1 DEF tabVars, Used, Placed, Alive, Lost
  <2>3. TypeOK'
    <3>1. Workers \in [Slots -> 0..MaxConns] /\ held \in 0..MaxConns
      BY DEF TypeOK
    <3>2. held' \in 0..MaxConns /\ scan' \in 1..(MaxWorkers + 1)
      <4>1. CASE ScanTest
        BY <1>0, <3>1, <4>1 DEF TypeOK, Slots
      <4>2. CASE ~ScanTest
        BY <1>0, <1>1, <4>2 DEF TypeOK, appVars
      <4>3. QED
        BY <4>1, <4>2
    <3>3. wTerminated' \in [Conns -> BOOLEAN]
      BY <1>1 DEF TypeOK, Told, wrkVars
    <3>4. destroying' \in BOOLEAN /\ lTerminated' \in BOOLEAN
      BY <1>1 DEF TypeOK, srvVars, setVars, lstVars
    <3>5. listener' \in {listener, "loop", "none"} /\ status' \in {status, "running", "error", "stopped"}
      BY <1>1 DEF srvVars, setVars, lstVars
    <3>6. app' \in {"idle", "started", "failed", "join", "terminate", "scan", "tell", "count",
                   "kill", "dropped", "zero", "stopped", "gone", "crashed"}
      BY <1>1
    <3>7. QED
      BY <2>1, <3>2, <3>3, <3>4, <3>5, <3>6 DEF TypeOK, tabVars, setVars
  <2>4. ClientsCount = Cardinality(Used) /\ app \notin {"dropped", "zero"}
    BY <1>1 DEF TableInv
  <2>5. app' # "dropped" /\ (app' \in {"zero", "stopped"} => Used = {})
    BY <1>1, <2>4, UsedFinite DEF TableInv
  <2>6. TableInv'
    <3>1. Cardinality(Used') = Cardinality(Used)
      BY <2>2
    <3>2. ClientsCount' = Cardinality(Used')
      BY <2>1, <2>4, <3>1 DEF tabVars
    <3>3. /\ \A c \in Placed' : index'[c] \in Slots /\ Workers'[index'[c]] = c
          /\ \A s \in Used' : Workers'[s] \in Placed' /\ index'[Workers'[s]] = s
      BY <2>1, <2>2 DEF TableInv, tabVars
    <3>4. QED
      BY <2>2, <2>5, <3>2, <3>3 DEF TableInv
  <2>7. ConnInv'
    BY <1>1, <2>1 DEF ConnInv, lstVars
  <2>8. PhaseInv'
    <3>1. UNCHANGED MaxClients
      BY <2>1 DEF setVars
    <3>2. QED
      BY <1>1, <2>2, <2>5, <3>1 DEF PhaseInv, srvVars, lstVars
  <2>9. LostInv'
    <3>1. UNCHANGED <<timely, worker>>
      BY <2>1 DEF setVars
    <3>2. app' = "kill" /\ timely => Lost # {}
      <4> SUFFICES ASSUME app' = "kill", timely PROVE Lost # {}
        OBVIOUS
      <4>1. ClientsCount > 0 /\ ClientsCount <= Cardinality(LostPlaces)
        BY <1>1
      <4>2. LostPlaces # {}
        <5> SUFFICES ASSUME LostPlaces = {} PROVE FALSE
          OBVIOUS
        <5>1. Cardinality(LostPlaces) = 0 /\ ClientsCount \in Int
          BY UsedFinite DEF TypeOK
        <5>2. QED
          BY <4>1, <5>1
      <4>3. QED
        BY <4>2 DEF LostPlaces, Lost, TableInv, Used, Placed, Alive
    <3>3. app' # "crashed" /\ Lost' = Lost
      BY <1>1, <3>1 DEF Lost
    <3>4. ASSUME NEW c \in Conns, (worker'[c] = "start" /\ wTerminated'[c]) \/ worker'[c] = "lost"
          PROVE  app' \in {"scan", "tell", "count", "kill", "crashed"}
      <4>1. CASE ScanTell
        BY <4>1
      <4>2. CASE ~ScanTell
        <5>1. UNCHANGED wTerminated
          BY <1>1, <4>2 DEF wrkVars
        <5>2. app \in {"scan", "tell", "count", "kill", "crashed"}
          BY <3>1, <3>4, <5>1 DEF LostInv
        <5>3. c \in Placed
          BY <3>1, <3>4 DEF Placed, Alive, Lost
        <5>4. Used # {}
          BY <5>3 DEF Used, TableInv, Conns
        <5>5. QED
          BY <1>1, <2>5, <5>2, <5>4
      <4>3. QED
        BY <4>1, <4>2
    <3>5. QED
      BY <3>1, <3>2, <3>3, <3>4 DEF LostInv
  <2>10. QED
    BY <2>3, <2>6, <2>7, <2>8, <2>9
<1>2. CASE KillAll /\ app' = "crashed"
  <2>1. /\ app = "kill" /\ LostPlaces # {}
        /\ UNCHANGED <<worker, Workers>>
        /\ UNCHANGED <<srvVars, lstVars, ClientsCount, index, wTerminated, CSList, CSEvent,
                       scan, held, nConns>>
    BY <1>2 DEF KillAll
  <2>2. Used' = Used /\ Placed' = Placed /\ Lost' = Lost
    BY <2>1 DEF Used, Placed, Alive, Lost
  <2>3. Lost # {}
    BY <2>1 DEF LostPlaces, Lost, TableInv, Used, Placed, Alive
  <2>4. TypeOK'
    BY <1>2, <2>1 DEF TypeOK, srvVars, setVars, lstVars
  <2>5. TableInv'
    <3>1. Cardinality(Used') = Cardinality(Used)
      BY <2>2
    <3>2. QED
      BY <1>2, <2>1, <2>2, <3>1 DEF TableInv
  <2>6. ConnInv'
    BY <2>1 DEF ConnInv, lstVars
  <2>7. LostInv'
    BY <1>2, <2>1, <2>2, <2>3 DEF LostInv
  <2>8. PhaseInv'
    <3>1. Cardinality(Used') = Cardinality(Used)
      BY <2>2
    <3>2. QED
      BY <1>2, <2>1, <2>2, <3>1 DEF PhaseInv, lstVars, srvVars, setVars
  <2>9. QED
    BY <2>4, <2>5, <2>6, <2>7, <2>8
<1>3. CASE KillAll /\ app' # "crashed"
  <2>1. /\ app = "kill" /\ app' = "dropped" /\ Workers' = [s \in Slots |-> 0]
        /\ worker' = [c \in Conns |-> IF \E s \in Slots : Workers[s] = c THEN "killed"
                                      ELSE worker[c]]
        /\ UNCHANGED <<srvVars, lstVars, ClientsCount, index, wTerminated, CSList, CSEvent,
                       scan, held, nConns>>
    BY <1>3 DEF KillAll
  <2>2. Used' = {}
    BY <2>1 DEF Used
  <2>3. Placed' = {}
    BY <2>1 DEF Placed, Alive, Lost, TableInv
  <2>4. TypeOK'
    BY <1>0, <2>1 DEF TypeOK, srvVars, setVars, lstVars
  <2>5. TableInv'
    BY <2>1, <2>2, <2>3 DEF TableInv
  <2>6. Cardinality(Used') = 0
    BY <2>2, FS_EmptySet
  <2>7. ConnInv'
    <3>1. listener' = "none"
      BY <2>1 DEF PhaseInv, lstVars
    <3>2. \A c \in Conns : worker'[c] # "none" => worker[c] # "none"
      BY <2>1 DEF TableInv, Placed, Alive, Lost, Used, Conns
    <3>3. QED
      BY <2>1, <3>1, <3>2 DEF ConnInv
  <2>8. PhaseInv'
    BY <1>0, <2>1, <2>2, <2>6 DEF PhaseInv, lstVars, srvVars, setVars
  <2>9. LostInv'
    <3>1. \A c \in Conns : worker'[c] \notin {"start", "lost"}
      BY <2>1, <2>3 DEF Placed, Alive, Lost
    <3>2. QED
      BY <2>1, <3>1 DEF LostInv
  <2>10. QED
    BY <2>4, <2>5, <2>7, <2>8, <2>9
<1>4. CASE ReportDropped \/ ZeroCount
  <2>1. /\ app \in {"dropped", "zero"} /\ app' \in {"zero", "stopped"}
        /\ app' = "stopped" => ClientsCount' = 0
        /\ ClientsCount' \in {ClientsCount, 0}
        /\ UNCHANGED <<srvVars, lstVars, Workers, wrkVars, CSList, CSEvent, scan, held, nConns>>
    BY <1>4 DEF ReportDropped, ZeroCount, tabVars
  <2>2. Used = {} /\ Used' = {} /\ Placed' = Placed /\ Cardinality(Used') = 0
    BY <2>1, FS_EmptySet DEF TableInv, Used, Placed, Alive, Lost, wrkVars
  <2>3. TypeOK'
    BY <2>1 DEF TypeOK, srvVars, setVars, lstVars, wrkVars
  <2>4. TableInv'
    BY <2>1, <2>2 DEF TableInv, wrkVars
  <2>5. ConnInv'
    BY <2>1 DEF ConnInv, lstVars, wrkVars
  <2>6. PhaseInv'
    BY <1>0, <2>1, <2>2 DEF PhaseInv, srvVars, setVars, lstVars
  <2>7. LostInv'
    BY <2>1, <2>2 DEF LostInv, Lost, wrkVars
  <2>8. QED
    BY <2>3, <2>4, <2>5, <2>6, <2>7
<1>5. QED
  BY <1>1, <1>2, <1>3, <1>4 DEF AppFinish

\* ServerInv is inductive.
LEMMA StepServer ==
  ASSUME ServerInv, [Next]_vars
  PROVE  ServerInv'
<1>1. CASE UNCHANGED vars
  <2>1. UNCHANGED <<srvVars, lstVars, tabVars, wrkVars, CSList, CSEvent, appVars, nConns>>
    BY <1>1 DEF vars
  <2>2. TableInv' /\ Used' = Used
    BY <2>1, SameTable DEF ServerInv, wrkVars, appVars, Placed, Alive, Lost
  <2>3. TypeOK'
    BY <2>1 DEF ServerInv, TypeOK, srvVars, setVars, lstVars, tabVars, wrkVars, appVars
  <2>4. ConnInv' /\ PhaseInv' /\ LostInv'
    BY <2>1, <2>2 DEF ServerInv, ConnInv, PhaseInv, LostInv, Lost, srvVars, setVars,
                      lstVars, wrkVars, appVars
  <2>5. QED
    BY <2>2, <2>3, <2>4 DEF ServerInv
<1>2. QED
  BY <1>1, ListenerInv, WorkerInv, AppInv DEF Next

\* The table holds exactly the live workers and those that a Stop made lose their
\* place before they first ran, and ClientsCount counts both.
THEOREM ServerInvariant == Spec => []ServerInv
  BY InitServer, StepServer, PTL DEF Spec

\* The connection limit holds though it is tested outside the lock.
THEOREM LimitRespectedHolds == Spec => []LimitRespected
<1>1. ServerInv => LimitRespected
  BY DEF ServerInv, PhaseInv, LimitRespected
<1>2. QED
  BY <1>1, ServerInvariant, PTL

\* When Stop has returned nobody serves any more, killed threads or not.
THEOREM StopLeavesNoneHolds == Spec => []StopLeavesNone
<1>1. ServerInv => StopLeavesNone
  BY DEF ServerInv, PhaseInv, TableInv, LostInv, StopLeavesNone, Used, Placed, Alive, Lost, Conns
<1>2. QED
  BY <1>1, ServerInvariant, PTL
=============================================================================
