--------------------------- MODULE S7SessionProofs ---------------------------
(***************************************************************************)
(* The table of data blocks and the memory of an S7 server, for any number *)
(* of places, areas, connections, requests and jobs, whatever the workers  *)
(* do while the application registers, unregisters and updates; the blocks *)
(* and lists the client moves in slices, for any length of them; the PDU   *)
(* length both keep to; and what the caller is told of a read, of a list   *)
(* of blocks and of a write.                                               *)
(***************************************************************************)
EXTENDS SessionTypeProofs

UsedSlots == {i \in Slots : DB[i] # "none"}

\* What RegisterDB has published and not counted yet, or UnregisterDB taken out.
Uncounted == IF app.place = "count" THEN 1 ELSE IF app.place = "uncount" THEN -1 ELSE 0

TableTypes ==
  /\ DB \in [Slots -> DBNumbers \cup {"none"}]
  /\ DBCount \in Int /\ DBLimit \in Nat
  /\ app.place \in {"count", "limit"} =>
       /\ app = [place |-> app.place, index |-> app.index]
       /\ app.index \in Slots /\ DB[app.index] # "none"
  /\ app.place = "update" => app = [place |-> "update", area |-> app.area, left |-> app.left]

TableOnce == \A i, j \in Slots : DB[i] = DB[j] /\ DB[i] # "none" => i = j
TableCounted == DBCount = Cardinality(UsedSlots) - Uncounted
TableInReach == \A i \in UsedSlots : i <= DBLimit \/ (app.place \in {"count", "limit"} /\ app.index = i)

TableIInv == TableTypes /\ TableOnce /\ TableCounted /\ TableInReach

\* The table is finite, so that DBCount can be the number of its used places.
LEMMA UsedSlotsFinite ==
  ASSUME NEW S, S \subseteq Slots
  PROVE  IsFiniteSet(S) /\ Cardinality(S) \in Nat
<1>1. IsFiniteSet(Slots)
  BY FS_Interval, S7ServerAssumption DEF Slots
<1>2. QED
  BY <1>1, FS_Subset, FS_CardinalityType

\* The strengthened invariant has the three parts of TableInv.
LEMMA TableStrong == TableIInv => TableInv
<1> SUFFICES ASSUME TableIInv PROVE TableInv
  OBVIOUS
<1> USE DEF TableIInv, UsedSlots
<1>1. \A i, j \in Slots : DB[i] = DB[j] /\ DB[i] # "none" => i = j
  BY DEF TableOnce
<1>2. app.place \notin {"count", "limit", "uncount"} => DBCount = Cardinality({i \in Slots : DB[i] # "none"})
  <2> SUFFICES ASSUME app.place \notin {"count", "limit", "uncount"} PROVE DBCount = Cardinality(UsedSlots)
    OBVIOUS
  <2>1. Uncounted = 0
    BY DEF Uncounted
  <2>2. Cardinality(UsedSlots) \in Nat
    BY UsedSlotsFinite
  <2>3. QED
    BY <2>1, <2>2 DEF TableCounted
<1>3. \A i \in Slots : DB[i] # "none" => i <= DBLimit \/ (app.place \in {"count", "limit"} /\ app.index = i)
  BY DEF TableInReach
<1>4. QED
  BY <1>1, <1>2, <1>3 DEF TableInv

\* A server starts with the table earlier calls have left, counted and in reach.
LEMMA InitTable == Init => TableIInv
<1> SUFFICES ASSUME Init PROVE TableIInv
  OBVIOUS
<1>1. PICK s \in InitialDBs :
        /\ DB = [i \in Slots |-> IF i < Len(s) THEN s[i + 1] ELSE "none"]
        /\ DBCount = Cardinality({i \in Slots : i < Len(s) /\ s[i + 1] # "none"})
        /\ DBLimit = IF s = <<>> THEN 0 ELSE Len(s) - 1
  BY DEF Init, InitServer
<1>2. /\ s \in Seq(DBNumbers \cup {"none"}) /\ Len(s) <= MaxDB
      /\ \A i, j \in DOMAIN s : s[i] = s[j] /\ s[i] # "none" => i = j
  BY S7ServerAssumption
<1>3. Len(s) \in Nat /\ DOMAIN s = 1..Len(s)
  BY <1>2
<1>a. s = <<>> => Len(s) = 0
  OBVIOUS
<1>b. s # <<>> => Len(s) > 0
  BY <1>2, <1>3, EmptySeq
<1>4. app = [place |-> "idle"] /\ app.place = "idle"
  BY DEF Init, InitServer, AppIdle
<1>5. UsedSlots = {i \in Slots : i < Len(s) /\ s[i + 1] # "none"}
  BY <1>1 DEF UsedSlots
<1>6. Slots \subseteq Nat
  BY S7ServerAssumption DEF Slots
<1>7. TableTypes
  <2>1. \A i \in Slots : i < Len(s) => s[i + 1] \in DBNumbers \cup {"none"}
    BY <1>2, <1>3, <1>6
  <2>2. DB \in [Slots -> DBNumbers \cup {"none"}]
    BY <1>1, <2>1
  <2>3. DBCount \in Int
    BY <1>1, UsedSlotsFinite
  <2>4. DBLimit \in Nat
    <3>1. CASE s = <<>>
      BY <1>1, <3>1
    <3>2. CASE s # <<>>
      BY <1>1, <1>3, <1>b, <3>2
    <3>3. QED
      BY <3>1, <3>2
  <2>5. QED
    BY <2>2, <2>3, <2>4, <1>4 DEF TableTypes
<1>8. TableOnce
  <2> SUFFICES ASSUME NEW i \in Slots, NEW j \in Slots, DB[i] = DB[j], DB[i] # "none" PROVE i = j
    BY DEF TableOnce
  <2>1. i < Len(s) /\ j < Len(s)
    BY <1>1
  <2>2. s[i + 1] = s[j + 1] /\ s[i + 1] # "none"
    BY <1>1, <2>1
  <2>3. i + 1 \in DOMAIN s /\ j + 1 \in DOMAIN s
    BY <2>1, <1>3, <1>6
  <2>4. QED
    BY <2>2, <2>3, <1>2, <1>6
<1>9. TableCounted
  <2>1. Cardinality(UsedSlots) \in Nat
    BY UsedSlotsFinite DEF UsedSlots
  <2>2. QED
    BY <1>1, <1>4, <1>5, <2>1 DEF TableCounted, Uncounted
<1>10. TableInReach
  <2> SUFFICES ASSUME NEW i \in UsedSlots PROVE i <= DBLimit
    BY DEF TableInReach
  <2>1. i < Len(s) /\ i \in Nat
    BY <1>5, <1>6
  <2>2. s # <<>>
    BY <2>1, <1>a
  <2>3. DBLimit = Len(s) - 1
    BY <1>1, <2>2
  <2>4. QED
    BY <2>1, <2>3, <1>3
<1>11. QED
  BY <1>7, <1>8, <1>9, <1>10 DEF TableIInv

\* A step that leaves the table alone and has nothing of it in hand afterwards.
LEMMA SameTable ==
  ASSUME TableIInv, UNCHANGED <<DB, DBCount, DBLimit>>,
         \/ app' = app
         \/ /\ app.place \in {"idle", "update"}
            /\ app'.place \in {"idle", "update"}
            /\ app'.place = "update" => app' = [place |-> "update", area |-> app'.area, left |-> app'.left]
  PROVE  TableIInv'
<1> USE DEF TableIInv
<1>1. UsedSlots' = UsedSlots
  BY DEF UsedSlots
<1>2. CASE app' = app
  <2>1. Uncounted' = Uncounted
    BY <1>2 DEF Uncounted
  <2>2. QED
    BY <1>1, <1>2, <2>1 DEF TableTypes, TableOnce, TableCounted, TableInReach
<1>3. CASE /\ app.place \in {"idle", "update"}
           /\ app'.place \in {"idle", "update"}
           /\ app'.place = "update" => app' = [place |-> "update", area |-> app'.area, left |-> app'.left]
  <2>1. Uncounted = 0 /\ Uncounted' = 0
    BY <1>3 DEF Uncounted
  <2>2. TableTypes'
    BY <1>3 DEF TableTypes
  <2>3. TableInReach'
    BY <1>1, <1>3 DEF TableInReach
  <2>4. QED
    BY <1>1, <2>1, <2>2, <2>3 DEF TableOnce, TableCounted
<1>4. QED
  BY <1>2, <1>3

\* The workers read the tables and never write them.
LEMMA WorkerKeepsTable ==
  ASSUME NEW c, WorkerStep(c)
  PROVE  UNCHANGED <<DB, DBCount, DBLimit, app>>
<1> USE DEF tableVars, appVars, serverVars
<1>1. CASE ExecuteRecv(c) \/ IsoPerformCommand(c) \/ PerformGroupProgrammer(c)
           \/ PerformFunctionNegotiate(c) \/ PerformFunctionControl(c) \/ SetCpuStatus(c)
  BY <1>1 DEF ExecuteRecv, IsoPerformCommand, PerformGroupProgrammer, PerformFunctionNegotiate,
              PerformFunctionControl, SetCpuStatus
<1>2. CASE PerformFunctionUpload(c) \/ PerformFunctionDownload(c) \/ PerformGroupSecurity(c)
           \/ PerformGetClock(c) \/ PerformSetClock(c) \/ PerformGroupSZL(c)
  BY <1>2 DEF PerformFunctionUpload, PerformFunctionDownload, PerformGroupSecurity, PerformGetClock,
              PerformSetClock, PerformGroupSZL
<1>3. CASE BLK_ListAll(c) \/ BLK_GetBlkInfo(c)
  BY <1>3 DEF BLK_ListAll, BLK_GetBlkInfo
<1>4. CASE BLK_ListBoT(c)
  BY <1>4 DEF BLK_ListBoT
<1>5. CASE PerformFunctionRead(c) \/ PerformFunctionWrite(c)
  BY <1>5 DEF PerformFunctionRead, PerformFunctionWrite, Serving
<1>6. CASE ReadAreaFind(c) \/ WriteAreaFind(c)
  BY <1>6 DEF ReadAreaFind, WriteAreaFind
<1>7. CASE ReadAreaCopy(c) \/ WriteAreaCopy(c)
  BY <1>7 DEF ReadAreaCopy, WriteAreaCopy
<1>8. CASE WriteBitLoad(c) \/ WriteBitStore(c)
  BY <1>8 DEF WriteBitLoad, WriteBitStore
<1>9. QED
  BY <1>1, <1>2, <1>3, <1>4, <1>5, <1>6, <1>7, <1>8 DEF WorkerStep

\* RegisterDB puts a number that is not in the table into a free place.
LEMMA RegisterDBTable ==
  ASSUME TableIInv, NEW o, RegisterDB(o)
  PROVE  TableIInv'
<1> USE DEF TableIInv
<1>1. /\ app.place = "idle" /\ o.area \in DBNumbers
      /\ \A i \in Slots : i <= DBLimit => DB[i] # o.area
      /\ DBCount' = DBCount /\ DBLimit' = DBLimit
  BY DEF RegisterDB, Calls, MayRegister, Registered, IndexOfDB
<1>2. PICK index \in Slots : /\ DB[index] = "none"
                             /\ DB' = [DB EXCEPT ![index] = o.area]
                             /\ app' = [place |-> "count", index |-> index]
  BY DEF RegisterDB, FreeSlots
<1>3. o.area # "none" /\ o.area \in DBNumbers
  BY <1>1, S7ServerAssumption
<1>4. \A i \in Slots : DB[i] # "none" => i <= DBLimit
  BY <1>1 DEF TableInReach, UsedSlots
<1>5. \A i \in Slots : DB[i] # o.area
  BY <1>1, <1>3, <1>4
<1>6. DB' \in [Slots -> DBNumbers \cup {"none"}] /\ \A i \in Slots : DB'[i] = IF i = index THEN o.area ELSE DB[i]
  BY <1>2, <1>3 DEF TableTypes
<1>7. UsedSlots' = UsedSlots \cup {index} /\ index \notin UsedSlots
  BY <1>2, <1>3, <1>6 DEF UsedSlots
<1>8. app'.place = "count" /\ app'.index = index
  BY <1>2
<1>9. TableTypes'
  BY <1>1, <1>2, <1>3, <1>6, <1>8 DEF TableTypes
<1>10. TableOnce'
  BY <1>5, <1>6 DEF TableOnce
<1>11. TableCounted'
  <2>1. IsFiniteSet(UsedSlots) /\ Cardinality(UsedSlots) \in Nat
    BY UsedSlotsFinite DEF UsedSlots
  <2>2. Cardinality(UsedSlots') = Cardinality(UsedSlots) + 1
    BY <1>7, <2>1, FS_AddElement
  <2>3. Uncounted = 0 /\ Uncounted' = 1
    BY <1>1, <1>8 DEF Uncounted
  <2>4. QED
    BY <1>1, <2>1, <2>2, <2>3 DEF TableCounted
<1>12. TableInReach'
  BY <1>1, <1>4, <1>6, <1>8 DEF TableInReach, UsedSlots
<1>13. QED
  BY <1>9, <1>10, <1>11, <1>12

\* Its two later steps count the block and bring it in reach.
LEMMA CountDBTable ==
  ASSUME TableIInv, CountDB
  PROVE  TableIInv'
<1> USE DEF TableIInv
<1>1. /\ app.place = "count" /\ app' = [app EXCEPT !.place = "limit"]
      /\ DB' = DB /\ DBCount' = DBCount + 1 /\ DBLimit' = DBLimit
  BY DEF CountDB
<1>2. app = [place |-> "count", index |-> app.index] /\ app.index \in Slots /\ DB[app.index] # "none"
  BY <1>1 DEF TableTypes
<1>3. app' = [place |-> "limit", index |-> app.index] /\ app'.place = "limit" /\ app'.index = app.index
  BY <1>1, <1>2
<1>4. UsedSlots' = UsedSlots
  BY <1>1 DEF UsedSlots
<1>5. TableTypes'
  BY <1>1, <1>2, <1>3 DEF TableTypes
<1>6. TableOnce'
  BY <1>1 DEF TableOnce
<1>7. TableCounted'
  <2>1. Cardinality(UsedSlots) \in Nat
    BY UsedSlotsFinite DEF UsedSlots
  <2>2. Uncounted = 1 /\ Uncounted' = 0
    BY <1>1, <1>3 DEF Uncounted
  <2>3. QED
    BY <1>1, <1>4, <2>1, <2>2 DEF TableCounted
<1>8. TableInReach'
  BY <1>1, <1>3, <1>4 DEF TableInReach
<1>9. QED
  BY <1>5, <1>6, <1>7, <1>8

\* RegisterDB moves DBLimit up to the new place, which brings it in reach.
LEMMA LimitDBTable ==
  ASSUME TableIInv, LimitDB
  PROVE  TableIInv'
<1> USE DEF TableIInv
<1>1. /\ app.place = "limit" /\ app' = AppIdle
      /\ DB' = DB /\ DBCount' = DBCount /\ DBLimit' = NewLimit(app.index)
  BY DEF LimitDB
<1>2. app'.place = "idle"
  BY <1>1 DEF AppIdle
<1>3. app.index \in Slots /\ Slots \subseteq Nat
  BY <1>1, S7ServerAssumption DEF TableTypes, Slots
<1>4. DBLimit' \in Nat /\ DBLimit <= DBLimit' /\ app.index <= DBLimit'
  BY <1>1, <1>3 DEF NewLimit, TableTypes
<1>5. UsedSlots' = UsedSlots /\ UsedSlots \subseteq Nat
  BY <1>1, <1>3 DEF UsedSlots
<1>6. TableTypes'
  BY <1>1, <1>2, <1>4 DEF TableTypes
<1>7. TableOnce'
  BY <1>1 DEF TableOnce
<1>8. TableCounted'
  <2>1. Uncounted = 0 /\ Uncounted' = 0
    BY <1>1, <1>2 DEF Uncounted
  <2>2. QED
    BY <1>1, <1>5, <2>1 DEF TableCounted
<1>9. TableInReach'
  <2> SUFFICES ASSUME NEW i \in UsedSlots PROVE i <= DBLimit'
    BY <1>5 DEF TableInReach
  <2>1. i <= DBLimit \/ i = app.index
    BY DEF TableInReach
  <2>2. DBLimit \in Nat /\ i \in Nat
    BY <1>5 DEF TableTypes
  <2>3. QED
    BY <1>4, <2>1, <2>2
<1>10. QED
  BY <1>6, <1>7, <1>8, <1>9

\* UnregisterDB empties the only place that has the number.
LEMMA UnregisterDBTable ==
  ASSUME TableIInv, NEW o, UnregisterDB(o)
  PROVE  TableIInv'
<1> USE DEF TableIInv
<1>1. /\ app.place = "idle" /\ o.area \in DBNumbers /\ app' = [place |-> "uncount"]
      /\ DBCount' = DBCount /\ DBLimit' = DBLimit
  BY DEF UnregisterDB, Calls
<1>2. PICK index \in Slots : DB[index] = o.area /\ DB' = [DB EXCEPT ![index] = "none"]
  BY DEF UnregisterDB, IndexOfDB
<1>3. DB[index] # "none" /\ app'.place = "uncount"
  BY <1>1, <1>2, S7ServerAssumption
<1>4. DB' \in [Slots -> DBNumbers \cup {"none"}] /\ \A i \in Slots : DB'[i] = IF i = index THEN "none" ELSE DB[i]
  BY <1>2 DEF TableTypes
<1>5. UsedSlots' = UsedSlots \ {index} /\ index \in UsedSlots
  BY <1>2, <1>3, <1>4 DEF UsedSlots
<1>6. TableTypes'
  BY <1>1, <1>3, <1>4 DEF TableTypes
<1>7. TableOnce'
  BY <1>4 DEF TableOnce
<1>8. TableCounted'
  <2>1. IsFiniteSet(UsedSlots) /\ Cardinality(UsedSlots) \in Nat
    BY UsedSlotsFinite DEF UsedSlots
  <2>2. Cardinality(UsedSlots') = Cardinality(UsedSlots) - 1
    BY <1>5, <2>1, FS_RemoveElement
  <2>3. Uncounted = 0 /\ Uncounted' = -1
    BY <1>1, <1>3 DEF Uncounted
  <2>4. QED
    BY <1>1, <2>1, <2>2, <2>3 DEF TableCounted
<1>9. TableInReach'
  BY <1>1, <1>5 DEF TableInReach
<1>10. QED
  BY <1>6, <1>7, <1>8, <1>9

\* UnregisterDB counts the block out that has left the table.
LEMMA UncountDBTable ==
  ASSUME TableIInv, UncountDB
  PROVE  TableIInv'
<1> USE DEF TableIInv
<1>1. /\ app.place = "uncount" /\ app' = AppIdle
      /\ DB' = DB /\ DBCount' = DBCount - 1 /\ DBLimit' = DBLimit
  BY DEF UncountDB
<1>2. app'.place = "idle"
  BY <1>1 DEF AppIdle
<1>3. UsedSlots' = UsedSlots
  BY <1>1 DEF UsedSlots
<1>4. TableTypes'
  BY <1>1, <1>2 DEF TableTypes
<1>5. TableCounted'
  <2>1. Cardinality(UsedSlots) \in Nat
    BY UsedSlotsFinite DEF UsedSlots
  <2>2. Uncounted = -1 /\ Uncounted' = 0
    BY <1>1, <1>2 DEF Uncounted
  <2>3. QED
    BY <1>1, <1>3, <2>1, <2>2 DEF TableCounted
<1>6. QED
  BY <1>1, <1>3, <1>4, <1>5 DEF TableOnce, TableInReach

\* The application's other operations leave the table alone.
LEMMA OtherAppSteps ==
  ASSUME TableIInv,
         \/ \E o \in AppOps : RegisterSys(o) \/ UnregisterSys(o) \/ LockArea(o)
         \/ UpdateByte \/ UnlockArea
  PROVE  TableIInv'
<1> USE DEF tableVars
<1>1. CASE \E o \in AppOps : RegisterSys(o) \/ UnregisterSys(o)
  BY <1>1, SameTable DEF RegisterSys, UnregisterSys
<1>2. ASSUME NEW o \in AppOps, LockArea(o) PROVE TableIInv'
  <2>1. app.place = "idle" /\ app' = [place |-> "update", area |-> o.area, left |-> Shared]
    BY <1>2 DEF LockArea, Calls
  <2>2. app'.place = "update" /\ app'.area = o.area /\ app'.left = Shared
    BY <2>1
  <2>3. UNCHANGED <<DB, DBCount, DBLimit>>
    BY <1>2 DEF LockArea
  <2>4. QED
    BY <2>1, <2>2, <2>3, SameTable
<1>3. CASE UpdateByte
  <2>1. /\ app.place = "update" /\ UNCHANGED <<DB, DBCount, DBLimit>>
        /\ \E rest : app' = [app EXCEPT !.left = rest]
    BY <1>3 DEF UpdateByte
  <2>2. app = [place |-> "update", area |-> app.area, left |-> app.left]
    BY <2>1 DEF TableIInv, TableTypes
  <2>3. app' = [place |-> "update", area |-> app'.area, left |-> app'.left] /\ app'.place = "update"
    BY <2>1, <2>2
  <2>4. QED
    BY <2>1, <2>3, SameTable
<1>4. CASE UnlockArea
  <2>1. app.place = "update" /\ app'.place = "idle" /\ UNCHANGED <<DB, DBCount, DBLimit>>
    BY <1>4 DEF UnlockArea, AppIdle
  <2>2. QED
    BY <2>1, SameTable
<1>5. QED
  BY <1>1, <1>2, <1>3, <1>4

\* A step of client, worker, station, PLC or application keeps the invariant.
LEMMA NextTable == TableIInv /\ [Next]_vars => TableIInv'
<1> SUFFICES ASSUME TableIInv, [Next]_vars PROVE TableIInv'
  OBVIOUS
<1>1. CASE Application
  BY <1>1, RegisterDBTable, CountDBTable, LimitDBTable, UnregisterDBTable, UncountDBTable, OtherAppSteps
     DEF Application, AppStep
<1>2. ASSUME NEW c \in Conns, Serve(c) PROVE TableIInv'
  BY <1>2, WorkerKeepsTable, SameTable DEF Serve
<1>3. CASE Connect \/ Perform \/ Fails \/ StationAsks \/ Plc \/ UNCHANGED vars
  <2>1. UNCHANGED <<DB, DBCount, DBLimit, app>>
    BY <1>3 DEF Connect, Perform, Fails, StationAsks, Plc, vars, serverVars, tableVars, appVars
  <2>2. QED
    BY <2>1, SameTable
<1>4. QED
  BY <1>1, <1>2, <1>3 DEF Next

\* The table of data blocks is sound in every state, for any number of places,
\* connections and operations: RegisterDB and UnregisterDB keep every number in
\* it once, counted when the call is over, and in reach of FindDB.
THEOREM TableInvHolds == Spec => []TableInv
<1>1. Init => TableIInv
  BY InitTable
<1>2. TableIInv /\ [Next]_vars => TableIInv'
  BY NextTable
<1>3. TableIInv => TableInv
  BY TableStrong
<1>4. QED
  BY <1>1, <1>2, <1>3, PTL DEF Spec

-----------------------------------------------------------------------------
(* Updates are seen as a whole.                                            *)

\* A byte no station has written, nor a bit of it.
Clean(b) == b.by \in {"init", "app"} /\ b.bit = NoBit

Updating(a) == app.place = "update" /\ app.area = a
Pending(a) == IF Updating(a) THEN app.left ELSE {}

\* Such bytes are in their place.  Those updated together have one stamp, but
\* for an update in hand, which has reached those that are not pending.
AreaClean(a) ==
  /\ \A i \in DOMAIN mem[a] : Clean(mem[a][i]) => mem[a][i].at = i
  /\ \A i, j \in Shared \cap DOMAIN mem[a] :
       Clean(mem[a][i]) /\ Clean(mem[a][j]) /\ (i \in Pending(a) <=> j \in Pending(a))
         => mem[a][i].by = mem[a][j].by /\ mem[a][i].n = mem[a][j].n
  /\ Updating(a) =>
       \A i \in Shared \cap DOMAIN mem[a] :
         i \notin Pending(a) /\ Clean(mem[a][i]) => mem[a][i].by = "app" /\ mem[a][i].n = updates

MemClean == \A a \in Areas : AreaClean(a)

OneUpdate(data) ==
  \A i, j \in DOMAIN data :
    data[i].at \in Shared /\ data[j].at \in Shared /\ Clean(data[i]) /\ Clean(data[j])
      => data[i].by = data[j].by /\ data[i].n = data[j].n

RepliesClean ==
  \A c \in Conns : Reading(c) => \A k \in DOMAIN worker[c].reply : OneUpdate(worker[c].reply[k].data)

AnswersClean ==
  \A c \in Conns : answer[c].fun = "read" => \A k \in DOMAIN answer[c].items : OneUpdate(answer[c].items[k].data)

MemoryInv == SessionInv /\ MemClean /\ RepliesClean /\ AnswersClean

\* Bytes that change are no longer clean, and no update goes on meanwhile.
LEMMA WrittenClean ==
  ASSUME MemClean, UNCHANGED <<app, updates>>,
         \A a \in Areas : /\ DOMAIN mem'[a] = DOMAIN mem[a]
                          /\ \A i \in DOMAIN mem[a] : mem'[a][i] = mem[a][i] \/ ~Clean(mem'[a][i])
  PROVE  MemClean'
<1> SUFFICES ASSUME NEW a \in Areas PROVE AreaClean(a)'
  BY DEF MemClean
<1>1. Pending(a)' = Pending(a) /\ Updating(a)' = Updating(a)
  BY DEF Pending, Updating
<1>2. AreaClean(a)
  BY DEF MemClean
<1>3. DOMAIN mem'[a] = DOMAIN mem[a] /\ \A i \in DOMAIN mem[a] : Clean(mem'[a][i]) => mem'[a][i] = mem[a][i]
  OBVIOUS
<1>4. QED
  BY <1>1, <1>2, <1>3 DEF AreaClean, Clean

\* Steps that do not touch the areas.
LEMMA StaysClean ==
  ASSUME MemClean, MemoryStays
  PROVE  MemClean'
<1> SUFFICES ASSUME NEW a \in Areas PROVE AreaClean(a)'
  BY DEF MemClean
<1>1. Pending(a)' = Pending(a) /\ Updating(a)' = Updating(a) /\ UNCHANGED <<mem, updates>>
  BY DEF Pending, Updating, MemoryStays
<1>2. AreaClean(a)
  BY DEF MemClean
<1>3. QED
  BY <1>1, <1>2 DEF AreaClean, Clean

\* LockArea: every byte of the update is pending.
LEMMA LockClean ==
  ASSUME SessionInv, MemClean, NEW o, LockArea(o)
  PROVE  MemClean'
<1> SUFFICES ASSUME NEW a \in Areas PROVE AreaClean(a)'
  BY DEF MemClean
<1>1. /\ app.place = "idle" /\ UNCHANGED mem
      /\ app'.place = "update" /\ app'.area = o.area /\ app'.left = Shared
  BY DEF LockArea, Calls
<1>2. AreaClean(a)
  BY DEF MemClean
<1>3. Pending(a) = {} /\ ~Updating(a)
  BY <1>1 DEF Pending, Updating
<1>4. CASE a = o.area
  <2>1. Pending(a)' = Shared
    BY <1>1, <1>4 DEF Pending, Updating
  <2>2. QED
    BY <1>1, <1>2, <1>3, <2>1 DEF AreaClean, Clean
<1>5. CASE a # o.area
  <2>1. Pending(a)' = {} /\ ~Updating(a)'
    BY <1>1, <1>5 DEF Pending, Updating
  <2>2. QED
    BY <1>1, <1>2, <1>3, <2>1 DEF AreaClean, Clean
<1>6. QED
  BY <1>4, <1>5

\* A byte of an update is done: it has the stamp of those done before it.
LEMMA UpdateClean ==
  ASSUME SessionInv, MemClean, UpdateByte
  PROVE  MemClean'
<1> SUFFICES ASSUME NEW a \in Areas PROVE AreaClean(a)'
  BY DEF MemClean
<1>1. app.place = "update" /\ app = [place |-> "update", area |-> app.area, left |-> app.left] /\ app.area \in Areas /\ app.left \subseteq Shared
  BY DEF UpdateByte, SessionInv, AppTypes
<1>2. PICK i \in app.left :
        /\ mem' = [mem EXCEPT ![app.area][i] = [by |-> "app", n |-> updates, at |-> i, bit |-> NoBit]]
        /\ app' = [app EXCEPT !.left = @ \ {i}]
  BY DEF UpdateByte
<1> DEFINE x == [by |-> "app", n |-> updates, at |-> i, bit |-> NoBit]
<1>3. mem' = [mem EXCEPT ![app.area][i] = x] /\ x.by = "app" /\ x.n = updates /\ x.at = i
  BY <1>2
<1> HIDE DEF x
<1>4. updates' = updates
  BY DEF UpdateByte
<1>5. app' = [place |-> "update", area |-> app.area, left |-> app.left \ {i}]
  BY <1>1, <1>2
<1>6. DOMAIN mem = Areas /\ AreaClean(a)
  BY DEF SessionInv, AreaTypes, MemClean
<1>7. CASE a # app.area
  <2>1. mem'[a] = mem[a]
    BY <1>3, <1>6, <1>7
  <2>2. Pending(a) = {} /\ ~Updating(a) /\ Pending(a)' = {} /\ ~Updating(a)'
    BY <1>1, <1>5, <1>7 DEF Pending, Updating
  <2>3. QED
    BY <1>6, <2>1, <2>2 DEF AreaClean, Clean
<1>8. CASE a = app.area
  <2>1. mem'[a] = [mem[a] EXCEPT ![i] = x]
    BY <1>3, <1>6, <1>8
  <2>2. /\ DOMAIN mem'[a] = DOMAIN mem[a]
        /\ \A k \in DOMAIN mem[a] : mem'[a][k] = IF k = i THEN x ELSE mem[a][k]
    BY <2>1
  <2>3. Pending(a) = app.left /\ Updating(a) /\ Pending(a)' = app.left \ {i} /\ Updating(a)'
    BY <1>1, <1>5, <1>8 DEF Pending, Updating
  <2> DEFINE m == mem[a]
             m2 == mem'[a]
             P == app.left
  <2>4. /\ \A k \in DOMAIN m : Clean(m[k]) => m[k].at = k
        /\ \A k, j \in Shared \cap DOMAIN m :
             Clean(m[k]) /\ Clean(m[j]) /\ (k \in P <=> j \in P) => m[k].by = m[j].by /\ m[k].n = m[j].n
        /\ \A k \in Shared \cap DOMAIN m : k \notin P /\ Clean(m[k]) => m[k].by = "app" /\ m[k].n = updates
    BY <1>6, <2>3 DEF AreaClean
  <2>5. DOMAIN m2 = DOMAIN m /\ \A k \in DOMAIN m : m2[k] = IF k = i THEN x ELSE m[k]
    BY <2>2
  <2> HIDE DEF m, m2, P
  <2>6. \A k \in DOMAIN m2 : Clean(m2[k]) => m2[k].at = k
    BY <1>3, <2>4, <2>5
  <2>7. \A k \in Shared \cap DOMAIN m2 : k \notin P \ {i} /\ Clean(m2[k]) => m2[k].by = "app" /\ m2[k].n = updates
    BY <1>3, <2>4, <2>5
  <2>8. \A k, j \in Shared \cap DOMAIN m2 :
          Clean(m2[k]) /\ Clean(m2[j]) /\ (k \in P \ {i} <=> j \in P \ {i}) => m2[k].by = m2[j].by /\ m2[k].n = m2[j].n
    <3> SUFFICES ASSUME NEW k \in Shared \cap DOMAIN m2, NEW j \in Shared \cap DOMAIN m2,
                        Clean(m2[k]), Clean(m2[j]), k \in P \ {i} <=> j \in P \ {i}
                 PROVE  m2[k].by = m2[j].by /\ m2[k].n = m2[j].n
      OBVIOUS
    <3>1. CASE k \in P \ {i}
      BY <3>1, <2>4, <2>5
    <3>2. CASE k \notin P \ {i}
      BY <3>2, <2>7
    <3>3. QED
      BY <3>1, <3>2
  <2>9. QED
    BY <1>4, <2>3, <2>6, <2>7, <2>8 DEF AreaClean, Clean, m2, P
<1>9. QED
  BY <1>7, <1>8

\* UnlockArea: no byte is pending.
LEMMA UnlockClean ==
  ASSUME SessionInv, MemClean, UnlockArea
  PROVE  MemClean'
<1> SUFFICES ASSUME NEW a \in Areas PROVE AreaClean(a)'
  BY DEF MemClean
<1>1. app.place = "update" /\ app.left = {} /\ app'.place = "idle" /\ UNCHANGED mem
  BY DEF UnlockArea, AppIdle
<1>2. AreaClean(a) /\ Pending(a) = {} /\ Pending(a)' = {} /\ ~Updating(a)'
  BY <1>1 DEF MemClean, Pending, Updating
<1>3. QED
  BY <1>1, <1>2 DEF AreaClean, Clean

\* Data of a request is not clean, nor is a byte with a bit from one.
LEMMA WriteClean ==
  ASSUME SessionInv, MemClean, UNCHANGED <<app, updates>>, NEW c \in Conns, WriteAreaCopy(c) \/ WriteBitStore(c)
  PROVE  MemClean'
<1> DEFINE it == Item(c)
           at == StartByte(it)
           n == SizeOfItem(it)
           a == it.area
<1>1. /\ IsItem("write", it) /\ a \in Areas /\ at \in Nat /\ n \in Int /\ DOMAIN mem = Areas
      /\ worker[c].place = "store" => it.wl = "Bit"
  <2>1. worker[c].place \in {"copy", "store"}
    BY DEF WriteAreaCopy, WriteBitStore
  <2>2. WorkerOK(worker[c])
    BY DEF SessionInv, WorkerTypes
  <2>3. worker[c].fun = "write"
    BY <2>1, <2>2 DEF WriteAreaCopy, WriteBitStore, WorkerOK
  <2>4. DOMAIN mem = Areas
    BY DEF SessionInv, AreaTypes
  <2>5. QED
    BY <2>1, <2>2, <2>3, <2>4, ItemInHand DEF WorkerOK, Item
<1>2. PICK who \in Writers, num \in Numbers : \A k \in DOMAIN it.data : IsByte(it.data[k]) /\ it.data[k].by = who /\ it.data[k].n = num
  BY <1>1, Zenon DEF IsItem, OneWriter
<1>3. CASE WriteAreaCopy(c)
  <2>1. mem' = [mem EXCEPT ![a] = [i \in DOMAIN @ |-> IF i \in at..at + n - 1 THEN it.data[i - at + 1] ELSE @[i]]]
    BY <1>3 DEF WriteAreaCopy
  <2>2. DOMAIN it.data = 1..n
    BY <1>1 DEF IsItem
  <2> HIDE DEF it, at, n, a
  <2>3. \A i \in at..at + n - 1 : ~Clean(it.data[i - at + 1])
    <3>1. \A i \in at..at + n - 1 : i - at + 1 \in 1..n
      BY <1>1
    <3>2. \A k \in 1..n : ~Clean(it.data[k])
      BY <1>2, <2>2 DEF Clean, Writers
    <3>3. QED
      BY <3>1, <3>2
  <2>4. \A b \in Areas : /\ DOMAIN mem'[b] = DOMAIN mem[b]
                         /\ \A i \in DOMAIN mem[b] : mem'[b][i] = mem[b][i] \/ ~Clean(mem'[b][i])
    BY <1>1, <2>1, <2>3
  <2>5. QED
    BY <2>4, WrittenClean
<1>4. CASE WriteBitStore(c)
  <2> DEFINE bit == [by |-> it.data[1].by, n |-> it.data[1].n, at |-> it.data[1].at]
             x == [worker[c].byte EXCEPT !.bit = bit]
  <2>1. mem' = [mem EXCEPT ![a][at] = x] /\ worker[c].place = "store"
    BY <1>4 DEF WriteBitStore
  <2>2. 1 \in DOMAIN it.data
    BY <1>1, <2>1, BitItem
  <2>3. IsByte(worker[c].byte)
    BY <2>1 DEF SessionInv, WorkerTypes, WorkerOK
  <2>4. ~Clean(x)
    <3>1. bit.by \in Writers
      BY <1>2, <2>2
    <3>2. bit # NoBit
      BY <3>1 DEF Writers, NoBit
    <3> HIDE DEF bit
    <3>3. x.bit = bit
      BY <2>3 DEF IsByte
    <3>4. QED
      BY <3>2, <3>3 DEF Clean
  <2> HIDE DEF x, it, at, n, a
  <2>5. QED
    BY <1>1, <2>1, <2>4, WrittenClean DEF Clean
<1>5. QED
  BY <1>3, <1>4

\* Every step keeps the bytes updated together at one stamp.
LEMMA MemCleanNext ==
  ASSUME SessionInv, MemClean, [Next]_vars
  PROVE  MemClean'
BY MemoryNext, StaysClean, LockClean, UpdateClean, UnlockClean, WriteClean

\* A worker that copies an area under its lock copies one update of it.
LEMMA CopiedClean ==
  ASSUME SessionInv, MemClean, NEW a \in Areas, lock[a] = "none", NEW at \in Nat, NEW n \in Int,
         at + n <= AreaSize[a], NEW data, data = [k \in 1..n |-> mem[a][at + k - 1]]
  PROVE  OneUpdate(data)
<1>1. Pending(a) = {}
  BY DEF SessionInv, AppTypes, Pending, Updating
<1>2. AreaClean(a) /\ AreaSize[a] \in Nat
  BY S7ServerAssumption DEF MemClean
<1>3. DOMAIN mem[a] = 0..AreaSize[a] - 1
  BY DEF SessionInv, AreaTypes
<1>4. \A k \in 1..n : at + k - 1 \in DOMAIN mem[a] /\ data[k] = mem[a][at + k - 1]
  BY <1>2, <1>3
<1>5. SUFFICES ASSUME NEW i \in 1..n, NEW j \in 1..n,
                      data[i].at \in Shared, data[j].at \in Shared, Clean(data[i]), Clean(data[j])
               PROVE  data[i].by = data[j].by /\ data[i].n = data[j].n
  BY DEF OneUpdate
<1> DEFINE p == at + i - 1
           q == at + j - 1
<1>6. p \in DOMAIN mem[a] /\ q \in DOMAIN mem[a] /\ data[i] = mem[a][p] /\ data[j] = mem[a][q]
  BY <1>4
<1> HIDE DEF p, q
<1>7. mem[a][p].at = p /\ mem[a][q].at = q
  BY <1>2, <1>5, <1>6 DEF AreaClean
<1>8. p \in Shared \cap DOMAIN mem[a] /\ q \in Shared \cap DOMAIN mem[a]
  BY <1>5, <1>6, <1>7
<1>9. QED
  BY <1>1, <1>2, <1>5, <1>6, <1>8 DEF AreaClean

\* Steps that make no reply to a read keep replies and answers.
LEMMA QuietClean ==
  ASSUME MemoryInv, SessionInv', QuietForReads
  PROVE  RepliesClean' /\ AnswersClean'
<1>1. RepliesClean'
  <2> SUFFICES ASSUME NEW c \in Conns, Reading(c)' PROVE \A k \in DOMAIN worker'[c].reply : OneUpdate(worker'[c].reply[k].data)
    BY DEF RepliesClean, OneUpdate, Clean
  <2>1. \/ Reading(c) /\ worker'[c].reply = worker[c].reply
        \/ worker'[c].reply = <<>>
    BY DEF QuietForReads, RepliesStay
  <2>2. QED
    BY <2>1 DEF MemoryInv, RepliesClean
<1>2. AnswersClean'
  <2> SUFFICES ASSUME NEW c \in Conns, answer'[c].fun = "read"
               PROVE  \A k \in DOMAIN answer'[c].items : OneUpdate(answer'[c].items[k].data)
    BY DEF AnswersClean, OneUpdate, Clean
  <2>1. answer'[c] = answer[c] \/ Bare(answer'[c].items)
    BY DEF QuietForReads, AnswerStays
  <2>2. OneUpdate(<<>>)
    BY DEF OneUpdate
  <2>3. QED
    BY <2>1, <2>2 DEF MemoryInv, AnswersClean, Bare
<1>3. QED
  BY <1>1, <1>2

\* An item that is done is a new reply, or the last of an answer.
LEMMA ItemDoneClean ==
  ASSUME MemoryInv, NEW c \in Conns, Reading(c), NEW r, ItemDone(c, r), OneUpdate(r.data)
  PROVE  RepliesClean' /\ AnswersClean'
<1> DEFINE w == worker[c]
           v == worker'[c]
           reply == Append(w.reply, r)
<1>1. /\ DOMAIN worker = Conns /\ DOMAIN answer = Conns
      /\ {"place", "fun", "reply", "remainder", "items"} \subseteq DOMAIN w
      /\ IsSeq(w.reply) /\ Len(w.reply) \in Nat
  BY WorkerInRequest DEF MemoryInv, Reading
<1>2. \A k \in DOMAIN w.reply : OneUpdate(w.reply[k].data)
  BY DEF MemoryInv, RepliesClean
<1>3. \A k \in DOMAIN reply : OneUpdate(reply[k].data)
  <2>1. /\ IsSeq(reply) /\ Len(reply) = Len(w.reply) + 1
        /\ \A i \in 1..Len(w.reply) : reply[i] = w.reply[i]
        /\ reply[Len(w.reply) + 1] = r
    BY <1>1, SeqAppend
  <2> HIDE DEF reply
  <2>2. DOMAIN reply = 1..Len(w.reply) + 1 /\ DOMAIN w.reply = 1..Len(w.reply)
    BY <1>1, <2>1, SeqFacts
  <2>3. ASSUME NEW k \in DOMAIN reply PROVE OneUpdate(reply[k].data)
    <3>1. k \in 1..Len(w.reply) \/ k = Len(w.reply) + 1
      BY <1>1, <2>2
    <3>2. QED
      BY <1>2, <2>1, <2>2, <3>1
  <2>4. QED
    BY <2>3
<1>4. CASE Len(reply) = Len(w.items)
  <2> DEFINE a == [fun |-> w.fun, error |-> "ok", items |-> reply]
  <2>1. worker' = [worker EXCEPT ![c] = Idle] /\ answer' = [answer EXCEPT ![c] = a] /\ a.items = reply
    BY <1>4 DEF ItemDone, Send
  <2> HIDE DEF a, reply
  <2>2. /\ answer'[c].items = reply /\ \A d \in Conns \ {c} : answer'[d] = answer[d]
        /\ v.place = "idle" /\ \A d \in Conns \ {c} : worker'[d] = worker[d]
    BY <1>1, <2>1 DEF Idle
  <2>3. AnswersClean'
    BY <1>3, <2>2 DEF AnswersClean, OneUpdate, Clean, MemoryInv
  <2>4. RepliesClean'
    BY <2>2 DEF RepliesClean, OneUpdate, Clean, MemoryInv, Reading, InRequest
  <2>5. QED
    BY <2>3, <2>4
<1>5. CASE Len(reply) # Len(w.items)
  <2> DEFINE rest == IF w.fun = "read" THEN Remaining(Item(c), w.remainder) ELSE w.remainder
  <2>1. worker' = [worker EXCEPT ![c].reply = reply, ![c].place = "find", ![c].remainder = rest] /\ UNCHANGED answer
    BY <1>1, <1>5 DEF ItemDone
  <2> HIDE DEF rest, reply
  <2>2. v = [w EXCEPT !.reply = reply, !.place = "find", !.remainder = rest] /\ \A d \in Conns \ {c} : worker'[d] = worker[d]
    BY <1>1, <2>1
  <2> HIDE DEF v
  <2>3. v.reply = reply
    BY <1>1, <2>2
  <2>4. RepliesClean'
    <3>1. \A k \in DOMAIN v.reply : OneUpdate(v.reply[k].data)
      BY <1>3, <2>3
    <3> SUFFICES ASSUME NEW d \in Conns, Reading(d)', NEW k \in DOMAIN worker'[d].reply
                 PROVE  OneUpdate(worker'[d].reply[k].data)
      BY DEF RepliesClean, OneUpdate, Clean
    <3>2. CASE d = c
      BY <3>1, <3>2 DEF v
    <3>3. CASE d # c
      <4>1. worker'[d] = worker[d]
        BY <2>2, <3>3
      <4>2. Reading(d)
        BY <4>1 DEF Reading, InRequest
      <4>3. QED
        BY <4>1, <4>2 DEF MemoryInv, RepliesClean
    <3>4. QED
      BY <3>2, <3>3
  <2>5. AnswersClean'
    <3>1. answer' = answer
      BY <2>1
    <3>2. AnswersClean
      BY DEF MemoryInv
    <3>3. QED
      BY <3>1, <3>2 DEF AnswersClean, OneUpdate, Clean
  <2>6. QED
    BY <2>4, <2>5
<1>6. QED
  BY <1>4, <1>5

\* ReadArea keeps replies and answers: it enters only while nobody has the lock.
LEMMA ReadClean ==
  ASSUME MemoryInv, SessionInv', NEW c \in Conns, ReadAreaFind(c) \/ ReadAreaCopy(c)
  PROVE  RepliesClean' /\ AnswersClean'
<1>1. Reading(c)
  BY DEF ReadAreaFind, ReadAreaCopy, Reading, InRequest
<1>2. CASE ReadAreaFind(c)
  <2>1. CASE worker' = [worker EXCEPT ![c].place = "copy"] /\ UNCHANGED answer
    <3> DEFINE v == worker'[c]
    <3>1. DOMAIN worker = Conns /\ {"place", "fun", "reply"} \subseteq DOMAIN worker[c]
      BY <1>1, WorkerInRequest DEF MemoryInv, Reading
    <3>2. v = [worker[c] EXCEPT !.place = "copy"] /\ \A d \in Conns \ {c} : worker'[d] = worker[d]
      BY <2>1, <3>1
    <3> HIDE DEF v
    <3>3. v.reply = worker[c].reply
      BY <3>1, <3>2
    <3>4. AnswerStays(c) /\ RepliesStay(c)
      BY <1>1, <2>1, <3>3 DEF AnswerStays, RepliesStay, v
    <3>5. QuietForReads
      BY <2>1, <3>2, <3>4, QuietStep DEF MemoryInv
    <3>6. QED
      BY <3>5, QuietClean
  <2>2. ASSUME NEW code, ItemDone(c, ReadFailed(code)) PROVE RepliesClean' /\ AnswersClean'
    <3> DEFINE r == ReadFailed(code)
    <3>1. r.data = <<>>
      BY DEF ReadFailed
    <3> HIDE DEF r
    <3>2. OneUpdate(r.data)
      BY <3>1 DEF OneUpdate
    <3>3. ItemDone(c, r)
      BY <2>2 DEF r
    <3>4. QED
      BY <1>1, <3>2, <3>3, ItemDoneClean
  <2>3. QED
    BY <1>2, <2>1, <2>2 DEF ReadAreaFind
<1>3. CASE ReadAreaCopy(c)
  <2> DEFINE it == Item(c)
             at == StartByte(it)
             n == SizeOfItem(it)
             data == [k \in 1..n |-> mem[it.area][at + k - 1]]
             r == [ret |-> "ok", ts |-> TransportSize(it.wl), dlen |-> DataLength(TransportSize(it.wl), n), data |-> data]
  <2>1. it.area \in Areas /\ at \in Nat /\ n \in Int /\ at + n <= AreaSize[it.area] /\ lock[it.area] = "none"
    <3>1. worker[c].place \in {"copy", "store"} /\ lock[Item(c).area] = "none"
      BY <1>3 DEF ReadAreaCopy, Enter
    <3>2. QED
      BY <3>1, ItemInHand DEF MemoryInv
  <2>2. ItemDone(c, r)
    BY <1>3 DEF ReadAreaCopy
  <2>3. r.data = data
    OBVIOUS
  <2> HIDE DEF r
  <2>4. OneUpdate(data)
    <3> HIDE DEF it, at, n
    <3>1. data = [k \in 1..n |-> mem[it.area][at + k - 1]]
      OBVIOUS
    <3> DEFINE a == it.area
    <3>2. a \in Areas /\ lock[a] = "none" /\ at + n <= AreaSize[a] /\ data = [k \in 1..n |-> mem[a][at + k - 1]]
      BY <2>1
    <3> HIDE DEF data, a
    <3>3. QED
      BY <2>1, <3>2, CopiedClean DEF MemoryInv
  <2> HIDE DEF data
  <2>5. QED
    BY <1>1, <2>2, <2>3, <2>4, ItemDoneClean
<1>4. QED
  BY <1>2, <1>3

\* Every step keeps the invariant of the memory.
LEMMA MemoryInvNext == MemoryInv /\ [Next]_vars => MemoryInv'
<1> SUFFICES ASSUME MemoryInv, [Next]_vars PROVE MemoryInv'
  OBVIOUS
<1>1. SessionInv' /\ MemClean'
  BY NextSession, MemCleanNext DEF MemoryInv
<1>2. RepliesClean' /\ AnswersClean'
  BY <1>1, QuietNext, QuietClean, ReadClean DEF MemoryInv
<1>3. QED
  BY <1>1, <1>2 DEF MemoryInv

\* The invariant of the memory holds in the beginning.
LEMMA InitMemory == Init => MemoryInv
<1> SUFFICES ASSUME Init PROVE MemoryInv
  OBVIOUS
<1>1. SessionInv
  BY InitSession
<1>2. /\ mem = [a \in Areas |-> [i \in 0..AreaSize[a] - 1 |-> [by |-> "init", n |-> 0, at |-> i, bit |-> NoBit]]]
      /\ app.place = "idle"
  BY DEF Init, InitServer, AppIdle
<1>3. MemClean
  <2> SUFFICES ASSUME NEW a \in Areas PROVE AreaClean(a)
    BY DEF MemClean
  <2>1. Pending(a) = {} /\ ~Updating(a)
    BY <1>2 DEF Pending, Updating
  <2>2. \A i \in DOMAIN mem[a] : mem[a][i].at = i /\ mem[a][i].by = "init" /\ mem[a][i].n = 0
    BY <1>2
  <2>3. QED
    BY <2>1, <2>2 DEF AreaClean
<1>4. RepliesClean /\ AnswersClean
  BY DEF Init, InitServer, Idle, Nothing, RepliesClean, AnswersClean, Reading, InRequest
<1>5. QED
  BY <1>1, <1>3, <1>4 DEF MemoryInv

\* Outside of an update the bytes of an area that the application updates together
\* and nobody has written have one stamp, and so have those of every reply and answer.
THEOREM MemoryInvHolds == Spec => []MemoryInv
<1>1. QED
  BY InitMemory, MemoryInvNext, PTL DEF Spec

\* The invariant of the memory has NoTornItem.
LEMMA CleanAnswers == MemoryInv => NoTornItem
BY DEF MemoryInv, AnswersClean, NoTornItem, OneUpdate, Clean

\* NoTornItem holds always: what LockArea and UnlockArea surround is seen as a whole
\* by ReadArea, for every number of connections, areas, updates and requests, and
\* although bits are written without the lock (WriteArea).
THEOREM NoTornItemHolds == Spec => []NoTornItem
<1>1. QED
  BY MemoryInvHolds, CleanAnswers, PTL

-----------------------------------------------------------------------------
(* Locked updates and items are single steps.                              *)

Seen == [a \in Guarded |-> Committed(a)]

\* One stamp on several bytes of one area, as AreaMemory has it.
LEMMA SeenStamped ==
  ASSUME NEW a \in Guarded, NEW places, NEW stamp,
         \A b \in Guarded \ {a} : Committed(b)' = Committed(b),
         Committed(a)' = [i \in DOMAIN Committed(a) |-> IF i \in places THEN stamp ELSE Committed(a)[i]]
  PROVE  AreaMemory!Stamped(a, places, stamp)
<1>1. Seen' = [Seen EXCEPT ![a] = [i \in DOMAIN @ |-> IF i \in places THEN stamp ELSE @[i]]]
  BY DEF Seen
<1>2. QED
  BY <1>1 DEF AreaMemory!Stamped, Seen

\* Areas that all stay as they are.
LEMMA SeenSame ==
  ASSUME \A a \in Guarded : Committed(a)' = Committed(a)
  PROVE  UNCHANGED Seen
BY DEF Seen

\* An update or a store is a step of AreaMemory, or changes nothing.
LEMMA StepSeen ==
  ASSUME NEW a \in Guarded, AreaMemory!Update(a) \/ AreaMemory!Store(a),
         \A b \in Guarded \ {a} : Committed(b)' = Committed(b)
  PROVE  AreaMemory!Next \/ UNCHANGED Seen
<1>1. CASE Committed(a)' = Committed(a)
  BY <1>1, SeenSame
<1>2. CASE Committed(a)' # Committed(a)
  <2>1. Seen'[a] # Seen[a]
    BY <1>2 DEF Seen
  <2>2. QED
    BY <2>1 DEF AreaMemory!Next, Seen
<1>3. QED
  BY <1>1, <1>2

\* Steps that do not touch the areas are not seen.
LEMMA StaysSeen ==
  ASSUME SessionInv, MemoryStays
  PROVE  UNCHANGED Seen
<1>1. \A a \in Guarded : Committed(a)' = Committed(a)
  BY DEF Committed, MemoryStays
<1>2. QED
  BY <1>1, SeenSame

\* LockArea is the step in which an update is made.
LEMMA LockSeen ==
  ASSUME SessionInv, NEW o, LockArea(o)
  PROVE  AreaMemory!Next \/ UNCHANGED Seen
<1>1. /\ app.place = "idle" /\ UNCHANGED mem /\ updates' = updates + 1
      /\ app'.place = "update" /\ app'.area = o.area /\ app'.left = Shared
  BY DEF LockArea, Calls
<1>2. \A b \in Guarded \ {o.area} : Committed(b)' = Committed(b)
  BY <1>1 DEF Committed
<1>3. CASE o.area \in Guarded
  <2> DEFINE a == o.area
             stamp == [by |-> "app", n |-> updates + 1]
  <2>1. /\ Committed(a) = [i \in DOMAIN mem[a] |-> [by |-> mem[a][i].by, n |-> mem[a][i].n]]
        /\ Committed(a)' = [i \in DOMAIN mem[a] |-> IF i \in Shared THEN stamp ELSE [by |-> mem[a][i].by, n |-> mem[a][i].n]]
    BY <1>1 DEF Committed
  <2>2. updates + 1 \in Numbers
    <3>1. updates \in Nat /\ appOps \in Nat /\ updates + appOps <= MaxAppOps /\ appOps > 0
      BY DEF LockArea, Calls, SessionInv, AppTypes
    <3>2. QED
      BY <3>1, SessionConstants DEF Numbers
  <2> HIDE DEF stamp
  <2>3. Committed(a)' = [i \in DOMAIN Committed(a) |-> IF i \in Shared THEN stamp ELSE Committed(a)[i]]
    BY <2>1
  <2>4. AreaMemory!Stamped(a, Shared, stamp)
    BY <1>2, <1>3, <2>3, SeenStamped
  <2>5. AreaMemory!Update(a)
    BY <2>2, <2>4 DEF AreaMemory!Update, stamp
  <2>6. QED
    BY <1>2, <1>3, <2>5, StepSeen
<1>4. CASE o.area \notin Guarded
  BY <1>2, <1>4, SeenSame
<1>5. QED
  BY <1>3, <1>4

\* The bytes of an update have been seen when the lock was taken.
LEMMA UpdateSeen ==
  ASSUME SessionInv, UpdateByte
  PROVE  UNCHANGED Seen
<1>1. app.place = "update" /\ app = [place |-> "update", area |-> app.area, left |-> app.left] /\ app.area \in Areas
  BY DEF UpdateByte, SessionInv, AppTypes
<1>2. PICK i \in app.left :
        /\ mem' = [mem EXCEPT ![app.area][i] = [by |-> "app", n |-> updates, at |-> i, bit |-> NoBit]]
        /\ app' = [app EXCEPT !.left = @ \ {i}]
  BY DEF UpdateByte
<1> DEFINE x == [by |-> "app", n |-> updates, at |-> i, bit |-> NoBit]
<1>3. mem' = [mem EXCEPT ![app.area][i] = x] /\ x.by = "app" /\ x.n = updates
  BY <1>2
<1> HIDE DEF x
<1>4. updates' = updates /\ DOMAIN mem = Areas
  BY DEF UpdateByte, SessionInv, AreaTypes
<1>5. app' = [place |-> "update", area |-> app.area, left |-> app.left \ {i}]
  BY <1>1, <1>2
<1>6. ASSUME NEW a \in Guarded PROVE Committed(a)' = Committed(a)
  <2>1. CASE a # app.area
    <3>1. mem'[a] = mem[a]
      BY <1>3, <1>4, <2>1 DEF Guarded
    <3>2. app'.area # a
      BY <1>5, <2>1
    <3>3. QED
      BY <2>1, <3>1, <3>2 DEF Committed
  <2>2. CASE a = app.area
    <3>1. mem'[a] = [mem[a] EXCEPT ![i] = x]
      BY <1>1, <1>3, <1>4, <2>2
    <3>2. /\ DOMAIN mem'[a] = DOMAIN mem[a]
          /\ \A k \in DOMAIN mem[a] : mem'[a][k] = IF k = i THEN x ELSE mem[a][k]
      BY <3>1
    <3> DEFINE stamp == [by |-> "app", n |-> updates]
               old(k) == [by |-> mem[a][k].by, n |-> mem[a][k].n]
               new(k) == [by |-> mem'[a][k].by, n |-> mem'[a][k].n]
    <3>3. Committed(a) = [k \in DOMAIN mem[a] |-> IF k \in app.left THEN stamp ELSE old(k)]
      BY <1>1, <2>2 DEF Committed
    <3>4. Committed(a)' = [k \in DOMAIN mem[a] |-> IF k \in app.left \ {i} THEN stamp ELSE new(k)]
      BY <1>4, <1>5, <2>2, <3>2 DEF Committed
    <3>5. \A k \in DOMAIN mem[a] : new(k) = IF k = i THEN stamp ELSE old(k)
      BY <1>3, <3>2
    <3> HIDE DEF stamp, old, new
    <3>6. QED
      BY <1>2, <3>3, <3>4, <3>5
  <2>3. QED
    BY <2>1, <2>2
<1>7. QED
  BY <1>6, SeenSame

\* UnlockArea is not seen.
LEMMA UnlockSeen ==
  ASSUME SessionInv, UnlockArea
  PROVE  UNCHANGED Seen
<1>1. app.place = "update" /\ app.left = {} /\ app'.place = "idle" /\ UNCHANGED mem
  BY DEF UnlockArea, AppIdle
<1>2. \A a \in Guarded : Committed(a)' = Committed(a)
  BY <1>1 DEF Committed
<1>3. QED
  BY <1>2, SeenSame

\* WriteArea is the step in which an item is stored: the area is not locked, so that
\* none of its bytes is pending.
LEMMA WriteSeen ==
  ASSUME SessionInv, UNCHANGED <<app, updates>>, NEW c \in Conns, WriteAreaCopy(c)
  PROVE  AreaMemory!Next \/ UNCHANGED Seen
<1>1. /\ IsItem("write", Item(c)) /\ Item(c).area \in Areas /\ lock[Item(c).area] = "none"
      /\ StartByte(Item(c)) \in Nat /\ SizeOfItem(Item(c)) \in Int /\ AreaSize[Item(c).area] \in Nat
      /\ StartByte(Item(c)) + SizeOfItem(Item(c)) <= AreaSize[Item(c).area]
  <2>1. worker[c].place = "copy" /\ worker[c].fun = "write" /\ lock[Item(c).area] = "none"
    BY DEF WriteAreaCopy, Enter
  <2>2. QED
    BY <2>1, ItemInHand
<1>2. \E a \in Areas, at \in Nat, n \in Int : a = Item(c).area /\ at = StartByte(Item(c)) /\ n = SizeOfItem(Item(c))
  BY <1>1
<1>3. PICK a \in Areas, at \in Nat, n \in Int : a = Item(c).area /\ at = StartByte(Item(c)) /\ n = SizeOfItem(Item(c))
  BY <1>2, Zenon
<1> DEFINE it == Item(c)
           to == at + n - 1
           x(i) == it.data[i - at + 1]
<1>4. PICK who \in Writers, num \in Numbers : \A k \in DOMAIN it.data : IsByte(it.data[k]) /\ it.data[k].by = who /\ it.data[k].n = num
  BY <1>1, Zenon DEF IsItem, OneWriter
<1>5. DOMAIN it.data = 1..n /\ AreaSize[a] \in Nat /\ at + n <= AreaSize[a]
  BY <1>1, <1>3 DEF IsItem
<1>6. DOMAIN mem = Areas /\ DOMAIN mem[a] = 0..AreaSize[a] - 1
  BY DEF SessionInv, AreaTypes
<1>7. ~(app.place = "update" /\ app.area = a)
  BY <1>1, <1>3 DEF SessionInv, AppTypes
<1>8. \A i \in at..to : x(i).by = who /\ x(i).n = num
  <2> HIDE DEF it
  <2>1. \A i \in at..to : i - at + 1 \in DOMAIN it.data
    BY <1>5
  <2>2. QED
    BY <1>4, <2>1
<1>9. mem' = [mem EXCEPT ![a] = [i \in DOMAIN @ |-> IF i \in at..to THEN x(i) ELSE @[i]]]
  BY <1>3 DEF WriteAreaCopy
<1>10. n >= 1 => at \in DOMAIN mem[a] /\ to \in DOMAIN mem[a]
  BY <1>5, <1>6
<1>11. n < 1 => at..to = {}
  OBVIOUS
<1> HIDE DEF it, to, x
<1>12. \A b \in Areas \ {a} : mem'[b] = mem[b]
  BY <1>6, <1>9
<1>13. \A b \in Guarded \ {a} : Committed(b)' = Committed(b)
  BY <1>12 DEF Committed, Guarded
<1>14. CASE a \in Guarded
  <2> DEFINE stamp == [by |-> who, n |-> num]
             old(i) == [by |-> mem[a][i].by, n |-> mem[a][i].n]
             new(i) == [by |-> mem'[a][i].by, n |-> mem'[a][i].n]
  <2>1. mem'[a] = [i \in DOMAIN mem[a] |-> IF i \in at..to THEN x(i) ELSE mem[a][i]]
    BY <1>6, <1>9
  <2>2. Committed(a) = [i \in DOMAIN mem[a] |-> old(i)]
    BY <1>7 DEF Committed
  <2>3. Committed(a)' = [i \in DOMAIN mem[a] |-> new(i)]
    BY <1>7, <2>1 DEF Committed
  <2>4. \A i \in DOMAIN mem[a] : new(i) = IF i \in at..to THEN stamp ELSE old(i)
    BY <1>8, <2>1
  <2> HIDE DEF stamp, old, new
  <2>5. Committed(a)' = [i \in DOMAIN Committed(a) |-> IF i \in at..to THEN stamp ELSE Committed(a)[i]]
    BY <2>2, <2>3, <2>4
  <2>6. CASE n >= 1
    <3>1. at \in DOMAIN Seen[a] /\ to \in DOMAIN Seen[a]
      BY <1>10, <1>14, <2>2, <2>6 DEF Seen
    <3>2. AreaMemory!Stamped(a, at..to, stamp)
      BY <1>13, <1>14, <2>5, SeenStamped
    <3>3. AreaMemory!Store(a)
      BY <1>4, <3>1, <3>2 DEF AreaMemory!Store, stamp, Seen
    <3>4. QED
      BY <1>13, <1>14, <3>3, StepSeen
  <2>7. CASE n < 1
    <3>1. Committed(a)' = Committed(a)
      BY <1>11, <2>2, <2>5, <2>7
    <3>2. QED
      BY <1>13, <3>1, SeenSame
  <2>8. QED
    BY <2>6, <2>7
<1>15. CASE a \notin Guarded
  BY <1>13, <1>15, SeenSame
<1>16. QED
  BY <1>14, <1>15

\* Bits are written in areas AreaMemory does not speak of.
LEMMA BitSeen ==
  ASSUME SessionInv, UNCHANGED <<app, updates>>, NEW c \in Conns, WriteBitStore(c)
  PROVE  UNCHANGED Seen
<1>1. worker[c].place = "store"
  BY DEF WriteBitStore
<1>2. Item(c).area \in BitAreas
  <2>1. IsItem(worker[c].fun, Item(c)) /\ WorkerOK(worker[c])
    BY <1>1, ItemInHand DEF SessionInv, WorkerTypes
  <2>2. worker[c].fun = "write" /\ Item(c).wl = "Bit"
    BY <1>1, <2>1 DEF WorkerOK, Item
  <2>3. QED
    BY <2>1, <2>2, BitItem
<1>3. \A b \in Guarded : mem'[b] = mem[b]
  <2> DEFINE x == mem'[Item(c).area]
  <2>1. DOMAIN mem = Areas
    BY DEF SessionInv, AreaTypes
  <2>2. \A b \in Areas : b # Item(c).area => mem'[b] = mem[b]
    BY <2>1 DEF WriteBitStore
  <2>3. QED
    BY <1>2, <2>2 DEF Guarded
<1>4. \A a \in Guarded : Committed(a)' = Committed(a)
  BY <1>3 DEF Committed
<1>5. QED
  BY <1>4, SeenSame

\* Seen through what is committed, an S7 server is a memory in which an update of
\* the application and the data of an item reach an area in a single step: LockArea,
\* UnlockArea, ReadArea and WriteArea implement AreaMemory, but for areas in which
\* bits are written.
THEOREM ServerImplementsAreaMemory == Spec => MemorySpec
<1>1. Init => AreaMemory!Init
  <2> SUFFICES ASSUME Init PROVE AreaMemory!Init
    OBVIOUS
  <2>1. /\ mem = [a \in Areas |-> [i \in 0..AreaSize[a] - 1 |-> [by |-> "init", n |-> 0, at |-> i, bit |-> NoBit]]]
        /\ app.place = "idle"
    BY DEF Init, InitServer, AppIdle
  <2>2. \A a \in Guarded : Committed(a) = [i \in 0..AreaSize[a] - 1 |-> [by |-> "init", n |-> 0]]
    BY <2>1 DEF Committed, Guarded
  <2>3. QED
    BY <2>2 DEF AreaMemory!Init
<1>2. SessionInv /\ [Next]_vars => [AreaMemory!Next]_Seen
  <2> SUFFICES ASSUME SessionInv, [Next]_vars PROVE AreaMemory!Next \/ UNCHANGED Seen
    OBVIOUS
  <2>1. QED
    BY MemoryNext, StaysSeen, LockSeen, UpdateSeen, UnlockSeen, WriteSeen, BitSeen
<1>3. SessionInv /\ [Next]_vars => [AreaMemory!Next]_([a \in Guarded |-> Committed(a)])
  BY <1>2 DEF Seen
<1>4. QED
  BY <1>1, <1>3, SessionInvHolds, PTL DEF Spec, MemorySpec, AreaMemory!Spec

-----------------------------------------------------------------------------
(* Blocks and status lists that move in slices.                            *)

\* Exchanges of the jobs that move a block.
UploadRuns == {"startupload", "upload", "endupload"}
DownloadRuns == {"reqdownload", "serve", "ended", "insert", "inserted"}

\* The other jobs, and their exchanges.
Moving == {"upload", "download", "szl"}
OtherRuns == Waits \ (UploadRuns \cup DownloadRuns \cup NoJobRuns \cup {"szl"})

\* n numbers behind the first pos.
SliceAt(pos, n) == [k \in 1..n |-> pos + k]

\* The first pos bytes of the PLC's block, with or without the header.
Loaded(j, pos) == IF j.full THEN FirstOnes(pos) ELSE SliceAt(BlockHead, pos - BlockHead)

\* What the client waits for belongs to its job, which is pending.
JobInHand ==
  run \notin NoJobRuns =>
    /\ result = "pending"
    /\ job.op = "upload" => run \in UploadRuns
    /\ job.op = "download" => run \in DownloadRuns
    /\ job.op = "szl" => run = "szl"

\* What the client knows when pos bytes of a block have come.
Came(pos) ==
  /\ opData = Loaded(job, pos)
  /\ first <=> pos = 0
  /\ pos > 0 => pos >= BlockHead /\ left \in {0, MC7}

\* An upload has what the PLC has sent, but for the slice in an answer.
UploadInv ==
  /\ run = "startupload" => opData = <<>> /\ first /\ (request[Me] = Nothing => plc.pos = 0)
  /\ run = "upload" =>
       \/ answer[Me] # Nothing /\ answer[Me].error # "ok"
       \/ answer[Me] = Nothing /\ plc.pos \in 0..LoadSize /\ Came(plc.pos)
       \/ /\ answer[Me] # Nothing /\ answer[Me].error = "ok"
          /\ \E pos \in Nat : \E n \in Nat \ {0} :
               /\ pos + n = plc.pos /\ plc.pos \in BlockHead..LoadSize
               /\ answer[Me].data = SliceAt(pos, n) /\ Came(pos)
          /\ answer[Me].mc7 \in {0, MC7} /\ (answer[Me].eou <=> plc.pos = LoadSize)
  /\ run = "endupload" => opData = Loaded(job, LoadSize) /\ left \in {0, MC7}

\* The PLC has what a download has sent, but for the slice in a request.
DownloadInv ==
  /\ run = "reqdownload" =>
       /\ left = job.amount /\ start = 0
       /\ answer[Me] # Nothing /\ answer[Me].error = "ok" => plc.got = <<>>
  /\ run \in {"serve", "ended"} =>
       /\ start + left = job.amount /\ (run = "ended" => left = 0)
       /\ request[Me] = Nothing => plc.got = FirstOnes(start)
       /\ request[Me] # Nothing =>
            \E pos \in Nat : \E n \in Nat :
              plc.got = FirstOnes(pos) /\ request[Me].data = SliceAt(pos, n) /\ pos + n = start
  /\ run \in {"insert", "inserted"} => plc.got = FirstOnes(job.amount)

\* An answer the client takes for an error.
RefusedSZL(a) == a.ret = "NotAvailable" \/ (a.ret = "ok" /\ a.error = "refused")

\* The client has what the PLC has sent of a status list, but for the slice in an
\* answer; the first request of a job starts anew and an empty answer brings nothing.
SZLInv ==
  run = "szl" =>
    \/ /\ request[Me] # Nothing /\ answer[Me] = Nothing
       /\ request[Me].first => opData = <<>>
       /\ ~request[Me].first => opData = FirstOnes(plc.pos) /\ plc.pos \in Nat
    \/ answer[Me] # Nothing /\ RefusedSZL(answer[Me])
    \/ answer[Me] # Nothing /\ answer[Me].ret = "zero" /\ opData = FirstOnes(plc.pos) /\ plc.pos \in Nat
    \/ /\ answer[Me] # Nothing /\ answer[Me].ret = "ok" /\ answer[Me].error = "ok"
       /\ \E pos \in Nat : \E n \in Nat :
            /\ opData = FirstOnes(pos) /\ answer[Me].data = SliceAt(pos, n)
            /\ plc.pos = pos + n /\ plc.pos <= PlcSZL
       /\ answer[Me].more <=> plc.pos < PlcSZL

\* What a job that has moved a block or a list has done.
Moved ==
  /\ job.op = "upload" => out = IF job.full THEN FirstOnes(LoadSize) ELSE SliceAt(BlockHead, MC7)
  /\ job.op = "download" => plc.got = FirstOnes(job.amount)
  /\ job.op = "szl" => out = FirstOnes(PlcSZL)

\* Between jobs nothing is under way that would move a block.
AfterJob ==
  run \in NoJobRuns /\ result = "ok" => Moved /\ request[Me].fun \in {"none", "connect", "negotiate"}

PlcShape == DOMAIN plc = {"phase", "pos", "got"}

PlcInv == peer = "plc" => PlcShape /\ JobInHand /\ UploadInv /\ DownloadInv /\ SZLInv /\ AfterJob

\* Inductive; BlockWhole follows.
BlockIInv == SessionInv /\ PlcInv

\* Sequences joined and cut, to speak of them without their elements.
Joined(s, t) == s \o t
Cut(s, m, n) == SubSeq(s, m, n)

\* Numbers in order, and their slices.
LEMMA SliceFacts ==
  /\ \A n : FirstOnes(n) = SliceAt(0, n)
  /\ \A pos, n \in Int : n <= 0 => SliceAt(pos, n) = <<>>
  /\ \A pos \in Int : \A n \in Nat : IsSeq(SliceAt(pos, n)) /\ Len(SliceAt(pos, n)) = n
<1>1. \A n : FirstOnes(n) = SliceAt(0, n)
  <2> TAKE n
  <2>1. \A k \in 1..n : 0 + k = k
    OBVIOUS
  <2>2. QED
    BY <2>1 DEF FirstOnes, SliceAt
<1>2. \A pos, n \in Int : n <= 0 => SliceAt(pos, n) = <<>>
  <2> SUFFICES ASSUME NEW pos \in Int, NEW n \in Int, n <= 0 PROVE SliceAt(pos, n) = <<>>
    OBVIOUS
  <2>1. 1..n = {}
    OBVIOUS
  <2>2. QED
    BY <2>1 DEF SliceAt
<1>3. ASSUME NEW pos \in Int, NEW n \in Nat PROVE IsSeq(SliceAt(pos, n)) /\ Len(SliceAt(pos, n)) = n
  <2> DEFINE t == SliceAt(pos, n)
  <2>1. t = [k \in 1..n |-> t[k]]
    BY DEF SliceAt
  <2> HIDE DEF t
  <2>2. IsSeq(t) /\ Len(t) = n
    BY <2>1, SeqFunction
  <2>3. QED
    BY <2>2 DEF t
<1>4. QED
  BY <1>1, <1>2, <1>3

\* A slice that starts where another ends goes on with it.
LEMMA SliceOn ==
  ASSUME NEW pos \in Int, NEW n \in Nat, NEW m \in Nat, NEW next \in Int, NEW all \in Nat, next = pos + n, all = n + m
  PROVE  Joined(SliceAt(pos, n), SliceAt(next, m)) = SliceAt(pos, all)
<1> DEFINE s == SliceAt(pos, n)
           t == SliceAt(next, m)
<1>1. s \in Seq(Int) /\ t \in Seq(Int) /\ Len(s) = n /\ Len(t) = m
  BY DEF SliceAt
<1>2. \A k \in 1..n : s[k] = pos + k
  BY DEF SliceAt
<1>3. \A k \in 1..m : t[k] = pos + n + k
  BY DEF SliceAt
<1> HIDE DEF s, t
<1>4. s \o t = [k \in 1..n + m |-> IF k <= n THEN s[k] ELSE t[k - n]]
  <2>1. /\ s \o t \in Seq(Int) /\ Len(s \o t) = n + m
        /\ \A k \in 1..n + m : (s \o t)[k] = IF k <= n THEN s[k] ELSE t[k - n]
    BY <1>1, ConcatProperties
  <2> DEFINE u == s \o t
  <2> HIDE DEF u
  <2>2. u \in Seq(Int) /\ Len(u) = n + m /\ \A k \in 1..n + m : u[k] = IF k <= n THEN s[k] ELSE t[k - n]
    BY <2>1 DEF u
  <2>3. u = [k \in 1..n + m |-> u[k]]
    BY <2>2
  <2>4. QED
    BY <2>2, <2>3 DEF u
<1>5. \A k \in 1..n + m : (IF k <= n THEN s[k] ELSE t[k - n]) = pos + k
  <2> SUFFICES ASSUME NEW k \in 1..n + m PROVE (IF k <= n THEN s[k] ELSE t[k - n]) = pos + k
    OBVIOUS
  <2>1. CASE k <= n
    BY <1>2, <2>1
  <2>2. CASE k > n
    <3>1. k - n \in 1..m
      BY <2>2
    <3>2. t[k - n] = pos + n + (k - n)
      BY <1>3, <3>1
    <3>3. QED
      BY <2>2, <3>2
  <2>3. QED
    BY <2>1, <2>2
<1>6. s \o t = [k \in 1..n + m |-> pos + k]
  BY <1>4, <1>5
<1>7. QED
  BY <1>6 DEF SliceAt, Joined, s, t

\* Part of a slice is a slice.
LEMMA SlicePart ==
  ASSUME NEW pos \in Int, NEW n \in Nat, NEW at \in Int, NEW m \in Nat, pos <= at, at + m <= pos + n,
         NEW from \in Int, NEW to \in Int, from = at - pos + 1, to = at - pos + m
  PROVE  Cut(SliceAt(pos, n), from, to) = SliceAt(at, m)
<1> DEFINE a == at - pos
<1>0. a \in Nat /\ a + m <= n /\ from = a + 1 /\ to = a + m /\ at = pos + a
  OBVIOUS
<1> HIDE DEF a
<1> DEFINE s == SliceAt(pos, n)
<1>1. s \in Seq(Int) /\ Len(s) = n
  BY DEF SliceAt
<1>2. \A k \in 1..n : s[k] = pos + k
  BY DEF SliceAt
<1> HIDE DEF s
<1>3. SubSeq(s, a + 1, a + m) = [k \in 1..m |-> s[k + a]]
  <2>1. SubSeq(s, a + 1, a + m) = [k \in 1..1 + (a + m) - (a + 1) |-> s[k + (a + 1) - 1]]
    BY <1>0, <1>1
  <2>2. 1 + (a + m) - (a + 1) = m /\ \A k \in Int : k + (a + 1) - 1 = k + a
    BY <1>0
  <2>3. QED
    BY <2>1, <2>2
<1>4. \A k \in 1..m : s[k + a] = pos + a + k
  <2> SUFFICES ASSUME NEW k \in 1..m PROVE s[k + a] = pos + a + k
    OBVIOUS
  <2>1. k + a \in 1..n
    BY <1>0
  <2>2. s[k + a] = pos + (k + a)
    BY <1>2, <2>1
  <2>3. QED
    BY <1>0, <2>2
<1>5. QED
  BY <1>0, <1>3, <1>4 DEF SliceAt, Cut, s

\* Jobs that move nothing.
LEMMA OtherKeeps ==
  ASSUME PlcShape', job'.op \notin Moving,
         \/ run' \in OtherRuns /\ result' = "pending"
         \/ run' = "idle" /\ request'[Me] = Nothing
  PROVE  PlcInv'
<1>1. CASE run' \in OtherRuns /\ result' = "pending"
  BY <1>1 DEF PlcInv, JobInHand, UploadInv, DownloadInv, SZLInv, AfterJob, OtherRuns, UploadRuns, DownloadRuns, NoJobRuns, Moving
<1>2. CASE run' = "idle" /\ request'[Me] = Nothing
  BY <1>2 DEF PlcInv, JobInHand, UploadInv, DownloadInv, SZLInv, AfterJob, Moved, UploadRuns, DownloadRuns, NoJobRuns, Moving, Nothing
<1>3. QED
  BY <1>1, <1>2

\* A job that ends has done what it reports.
LEMMA EndKeeps ==
  ASSUME PlcShape', run' \in NoJobRuns,
         result' = "ok" => Moved' /\ request'[Me].fun \in {"none", "connect", "negotiate"}
  PROVE  PlcInv'
BY DEF PlcInv, JobInHand, UploadInv, DownloadInv, SZLInv, AfterJob, UploadRuns, DownloadRuns, NoJobRuns

\* Nothing happens to a job that is not there.
LEMMA NoJobKeeps ==
  ASSUME PlcInv, peer = "plc", run \in NoJobRuns, run' \in NoJobRuns, UNCHANGED <<job, out, plc>>,
         result' = "ok" => result = "ok",
         request'[Me] # request[Me] => request'[Me].fun \in {"none", "connect", "negotiate"}
  PROVE  PlcInv'
<1>1. PlcShape'
  BY DEF PlcInv, PlcShape
<1>2. result' = "ok" => Moved' /\ request'[Me].fun \in {"none", "connect", "negotiate"}
  BY DEF PlcInv, AfterJob, Moved
<1>3. QED
  BY <1>1, <1>2, EndKeeps

\* Connecting, negotiating, disconnecting and losing the connection.
LEMMA ConnectionBlocks ==
  ASSUME BlockIInv, peer = "plc", plc' = plc,
         PeerConnect \/ NegotiatePDULength \/ Negotiated \/ PeerDisconnect \/ ExchangeFails
  PROVE  PlcInv'
<1> USE DEF BlockIInv
<1>1. CASE PeerConnect \/ NegotiatePDULength
  <2> DEFINE c == [fun |-> "connect"]
             n == [fun |-> "negotiate", length |-> PDURequest]
  <2>1. Ask("connect", c) \/ Ask("negotiate", n)
    BY <1>1 DEF PeerConnect, NegotiatePDULength
  <2>2. c.fun = "connect" /\ n.fun = "negotiate"
    OBVIOUS
  <2> HIDE DEF c, n
  <2>3. run' \in NoJobRuns /\ request'[Me].fun \in {"connect", "negotiate"}
    BY <2>1, <2>2, AskMe DEF NoJobRuns
  <2>4. run \in NoJobRuns /\ UNCHANGED <<job, out, result>>
    BY <1>1 DEF PeerConnect, NegotiatePDULength, Answered, NoJobRuns
  <2>5. QED
    BY <2>3, <2>4, NoJobKeeps
<1>2. CASE Negotiated \/ PeerDisconnect
  <2>1. run \in NoJobRuns /\ run' \in NoJobRuns /\ UNCHANGED <<job, out, result, request>>
    BY <1>2 DEF Negotiated, PeerDisconnect, Answered, NoJobRuns, pduVars
  <2>2. QED
    BY <2>1, NoJobKeeps
<1>3. CASE ExchangeFails
  <2>1. /\ run' = "off" /\ UNCHANGED <<job, out>>
        /\ result' = IF result = "pending" THEN "errIso" ELSE result
        /\ request' \in {request, [request EXCEPT ![Me] = Nothing]}
    BY <1>3 DEF ExchangeFails
  <2>2. request'[Me] = request[Me] \/ request'[Me].fun = "none"
    BY <2>1, MicroClientAssumption DEF SessionInv, PduTypes, Nothing
  <2>3. CASE run \in NoJobRuns
    BY <2>1, <2>2, <2>3, NoJobKeeps DEF NoJobRuns
  <2>4. CASE run \notin NoJobRuns
    <3>1. result' # "ok"
      BY <2>1, <2>4 DEF PlcInv, JobInHand
    <3>2. PlcShape' /\ run' \in NoJobRuns
      BY <2>1 DEF PlcInv, PlcShape, NoJobRuns
    <3>3. QED
      BY <3>1, <3>2, EndKeeps
  <2>5. QED
    BY <2>3, <2>4
<1>4. QED
  BY <1>1, <1>2, <1>3

-----------------------------------------------------------------------------
(* Jobs that begin.                                                        *)

\* A job that moves nothing begins, or is refused at once.
LEMMA BeginsOther ==
  ASSUME SessionInv, PlcShape', NEW j \in Jobs, NEW ops, Begins(j, ops), ops \cap Moving = {}, job' = j,
         \/ \E f \in OtherRuns : \E r : Ask(f, r) /\ result' = "pending"
         \/ \E res : Returns(res)
  PROVE  PlcInv'
<1>1. job'.op \notin Moving /\ request[Me] = Nothing
  BY JobBegins
<1>2. CASE \E f \in OtherRuns : \E r : Ask(f, r) /\ result' = "pending"
  BY <1>1, <1>2, AskMe, OtherKeeps
<1>3. CASE \E res : Returns(res)
  BY <1>1, <1>3, ReturnsMe, OtherKeeps
<1>4. QED
  BY <1>2, <1>3

\* Reads and writes begin.
LEMMA BeginsItems ==
  ASSUME SessionInv, PlcShape', opReadArea \/ opWriteArea \/ opReadMultiVars \/ opWriteMultiVars
  PROVE  PlcInv'
<1>1. {"read", "write", "readmulti", "writemulti"} \subseteq OtherRuns
  BY DEF OtherRuns, Waits, UploadRuns, DownloadRuns, NoJobRuns
<1>2. ASSUME opReadArea \/ opWriteArea PROVE PlcInv'
  <2>1. PICK j \in Jobs, op \in {"read", "write"} :
          /\ Begins(j, {op}) /\ job' = j
          /\ (\E r : Ask(op, r) /\ result' = "pending") \/ \E res : Returns(res)
    BY <1>2 DEF opReadArea, opWriteArea, ReadSlice, WriteSlice
  <2>2. {op} \cap Moving = {}
    BY DEF Moving
  <2>3. QED
    BY <1>1, <2>1, <2>2, BeginsOther
<1>3. ASSUME opReadMultiVars \/ opWriteMultiVars PROVE PlcInv'
  <2>1. PICK j \in Jobs, op \in {"readmulti", "writemulti"} : Begins(j, {op}) /\ job' = j /\ \E r : AskItems(j, op, r)
    BY <1>3 DEF opReadMultiVars, opWriteMultiVars
  <2>2. (\E r : Ask(op, r) /\ result' = "pending") \/ \E res : Returns(res)
    BY <2>1 DEF AskItems
  <2>3. {op} \cap Moving = {}
    BY DEF Moving
  <2>4. QED
    BY <1>1, <2>1, <2>2, <2>3, BeginsOther
<1>4. QED
  BY <1>2, <1>3

\* Jobs of one exchange begin, and those that ask for a block's information or a list.
LEMMA BeginsPlain ==
  ASSUME SessionInv, PlcShape',
         \/ opListBlocks \/ opListBlocksOfType \/ opAgBlockInfo
         \/ opPlcStop \/ opPlcHotStart \/ opPlcColdStart \/ opCopyRamToRom \/ opCompress \/ opDelete
         \/ opGetDateTime \/ opSetDateTime \/ opSetPassword \/ opClearPassword
  PROVE  PlcInv'
<1>1. {"listall", "listbot", "blkinfo", "control", "simple"} \subseteq OtherRuns
  BY DEF OtherRuns, Waits, UploadRuns, DownloadRuns, NoJobRuns
<1>2. CASE opListBlocks \/ opListBlocksOfType \/ opAgBlockInfo
  <2>1. PICK j \in Jobs, op \in {"listall", "listbot", "blkinfo"}, ops \in {{"listall"}, {"listbot"}, {"blkinfo", "dbget", "dbfill"}} :
          /\ Begins(j, ops) /\ job' = j
          /\ (\E r : Ask(op, r) /\ result' = "pending") \/ \E res : Returns(res)
    BY <1>2 DEF opListBlocks, opListBlocksOfType, opAgBlockInfo
  <2>2. ops \cap Moving = {}
    BY DEF Moving
  <2>3. QED
    BY <1>1, <2>1, <2>2, BeginsOther
<1>3. ASSUME NEW op \in {"stop", "hotstart", "coldstart", "copyram", "compress", "delete"}, NEW f, NEW code, AskControl(op, f, code)
      PROVE  PlcInv'
  <2>1. PICK j \in Jobs :
          /\ Begins(j, {op}) /\ job' = j
          /\ (\E r : Ask("control", r) /\ result' = "pending") \/ \E res : Returns(res)
    BY <1>3 DEF AskControl
  <2>2. {op} \cap Moving = {}
    BY DEF Moving
  <2>3. QED
    BY <1>1, <2>1, <2>2, BeginsOther
<1>4. ASSUME NEW op \in {"getclock", "setclock", "setpassword", "clearpassword"}, NEW f, AskSimple(op, f)
      PROVE  PlcInv'
  <2>1. PICK j \in Jobs :
          /\ Begins(j, {op}) /\ job' = j
          /\ (\E r : Ask("simple", r) /\ result' = "pending") \/ \E res : Returns(res)
    BY <1>4 DEF AskSimple
  <2>2. {op} \cap Moving = {}
    BY DEF Moving
  <2>3. QED
    BY <1>1, <2>1, <2>2, BeginsOther
<1>5. QED
  BY <1>2, <1>3, <1>4 DEF opPlcStop, opPlcHotStart, opPlcColdStart, opCopyRamToRom, opCompress, opDelete,
                          opGetDateTime, opSetDateTime, opSetPassword, opClearPassword

\* An upload, a download and a status list begin with nothing moved.
LEMMA BeginsUpload ==
  ASSUME SessionInv, PlcShape', opUpload
  PROVE  PlcInv'
<1> DEFINE r == [fun |-> "startupload"]
<1>1. PICK j \in Jobs :
        /\ Begins(j, {"upload"}) /\ job' = j /\ first' = TRUE
        /\ IF j.amount <= 0 THEN Returns("errCliInvalidBlockSize") ELSE Ask("startupload", r) /\ result' = "pending"
  BY DEF opUpload
<1>2. r # Nothing
  <2>1. r.fun # Nothing.fun
    BY DEF Nothing
  <2>2. QED
    BY <2>1
<1> HIDE DEF r
<1>3. job'.op = "upload" /\ request[Me] = Nothing /\ opData' = <<>>
  BY <1>1, JobBegins DEF Begins
<1>4. CASE Returns("errCliInvalidBlockSize")
  BY <1>3, <1>4, ReturnsMe, EndKeeps DEF NoJobRuns
<1>5. CASE Ask("startupload", r) /\ result' = "pending"
  <2>1. run' = "startupload" /\ request'[Me] = r
    BY <1>5, AskMe
  <2>2. QED
    BY <1>1, <1>2, <1>3, <1>5, <2>1
       DEF PlcInv, JobInHand, UploadInv, DownloadInv, SZLInv, AfterJob, UploadRuns, DownloadRuns, NoJobRuns
<1>6. QED
  BY <1>1, <1>4, <1>5

\* CheckBlock refuses a download, or it has all of the block left to send.
LEMMA BeginsDownload ==
  ASSUME SessionInv, PlcShape', opDownload
  PROVE  PlcInv'
<1> DEFINE r == [fun |-> "reqdownload"]
<1>1. PICK j \in Jobs :
        /\ Begins(j, {"download"}) /\ job' = j /\ left' = j.amount /\ start' = 0
        /\ IF CheckBlock(j) = "ok" THEN Ask("reqdownload", r) /\ result' = "pending" ELSE Returns(CheckBlock(j))
  BY DEF opDownload
<1>2. job'.op = "download" /\ request[Me] = Nothing
  BY <1>1, JobBegins
<1> HIDE DEF r
<1>3. CASE CheckBlock(j) # "ok"
  BY <1>1, <1>2, <1>3, ReturnsMe, EndKeeps DEF NoJobRuns
<1>4. CASE Ask("reqdownload", r) /\ result' = "pending"
  <2>1. run' = "reqdownload" /\ request'[Me] = r /\ answer'[Me] = Nothing
    BY <1>4, AskMe
  <2>2. QED
    BY <1>1, <1>2, <1>4, <2>1
       DEF PlcInv, JobInHand, UploadInv, DownloadInv, SZLInv, AfterJob, UploadRuns, DownloadRuns, NoJobRuns
<1>5. QED
  BY <1>1, <1>3, <1>4

\* The first request for a status list starts anew.
LEMMA BeginsSZL ==
  ASSUME SessionInv, PlcShape', NEW op, AskSZL(op), op \notin {"upload", "download"}
  PROVE  PlcInv'
<1>1. PICK j \in Jobs :
        /\ Begins(j, {op}) /\ job' = j
        /\ Ask("szl", [fun |-> "szl", id |-> j.id, first |-> TRUE]) /\ result' = "pending"
  BY DEF AskSZL
<1> DEFINE r == [fun |-> "szl", id |-> j.id, first |-> TRUE]
<1>2. r # Nothing /\ r.first
  <2>1. r.fun # Nothing.fun
    BY DEF Nothing
  <2>2. QED
    BY <2>1
<1>3. Ask("szl", r)
  BY <1>1
<1> HIDE DEF r
<1>4. job'.op = op /\ opData' = <<>>
  BY <1>1, JobBegins DEF Begins
<1>5. run' = "szl" /\ request'[Me] = r /\ answer'[Me] = Nothing
  BY <1>3, AskMe
<1>6. QED
  BY <1>1, <1>2, <1>4, <1>5
     DEF PlcInv, JobInHand, UploadInv, DownloadInv, SZLInv, AfterJob, UploadRuns, DownloadRuns, NoJobRuns

\* Every job begins well.
LEMMA SubmitBlocks ==
  ASSUME SessionInv, PlcShape', Submit
  PROVE  PlcInv'
<1>1. CASE opReadSZL \/ opReadSZLList \/ opGetOrderCode \/ opGetCpuInfo \/ opGetCpInfo \/ opGetPlcStatus \/ opGetProtection
  <2>1. PICK op \in {"szl", "szllist", "ordercode", "cpuinfo", "cpinfo", "status", "protection"} : AskSZL(op)
    BY <1>1 DEF opReadSZL, opReadSZLList, opGetOrderCode, opGetCpuInfo, opGetCpInfo, opGetPlcStatus, opGetProtection
  <2>2. QED
    BY <2>1, BeginsSZL
<1>2. QED
  BY <1>1, BeginsItems, BeginsPlain, BeginsUpload, BeginsDownload DEF Submit

-----------------------------------------------------------------------------
(* Answers.                                                                *)

\* Answers to the jobs that move nothing.
LEMMA OtherBlocks ==
  ASSUME BlockIInv, peer = "plc", plc' = plc,
         \/ ReadSliceDone \/ WriteSliceDone \/ MultiVarsDone
         \/ ListBlocksDone \/ ListSliceDone \/ AgBlockInfoDone \/ opDBGet \/ opDBFill
         \/ ControlDone \/ SimpleDone
  PROVE  PlcInv'
<1> USE DEF BlockIInv
<1>1. PICK f \in {"read", "write", "readmulti", "writemulti", "listall", "listbot", "blkinfo", "control", "simple"} : Answered(f)
  BY DEF ReadSliceDone, WriteSliceDone, MultiVarsDone, ListBlocksDone, ListSliceDone, AgBlockInfoDone,
         opDBGet, opDBFill, ControlDone, SimpleDone
<1>2. f \in OtherRuns /\ f \in Waits /\ f \notin NoJobRuns \cup UploadRuns \cup DownloadRuns \cup {"szl"}
  BY DEF OtherRuns, Waits, NoJobRuns, UploadRuns, DownloadRuns
<1>3. request[Me] = Nothing /\ run = f
  BY <1>1, <1>2, AnsweredAlone
<1>4. result = "pending" /\ job.op \notin Moving /\ PlcShape'
  BY <1>2, <1>3 DEF PlcInv, JobInHand, Moving, PlcShape
<1>5. \/ \E g \in OtherRuns : \E r : Ask(g, r) /\ result' = "pending"
      \/ \E res : Returns(res)
  <2>1. {"read", "write", "listbot"} \subseteq OtherRuns
    BY DEF OtherRuns, Waits, NoJobRuns, UploadRuns, DownloadRuns
  <2>2. CASE ReadSliceDone \/ WriteSliceDone \/ opDBGet \/ opDBFill
    BY <2>1, <2>2 DEF ReadSliceDone, WriteSliceDone, opDBGet, opDBFill, ReadSlice, WriteSlice
  <2>3. CASE MultiVarsDone \/ ListBlocksDone \/ AgBlockInfoDone \/ ControlDone \/ SimpleDone
    BY <2>3 DEF MultiVarsDone, ListBlocksDone, AgBlockInfoDone, ControlDone, SimpleDone
  <2>4. CASE ListSliceDone
    BY <1>4, <2>1, <2>4 DEF ListSliceDone
  <2>5. QED
    BY <2>2, <2>3, <2>4
<1>6. job'.op \notin Moving
  <2>1. CASE opDBGet
    <3>1. job'.op = "dbget"
      BY <2>1 DEF opDBGet
    <3>2. QED
      BY <3>1 DEF Moving
  <2>2. CASE opDBFill
    <3>1. job'.op = "dbfill"
      BY <2>2 DEF opDBFill
    <3>2. QED
      BY <3>1 DEF Moving
  <2>3. CASE ~opDBGet /\ ~opDBFill
    BY <1>4, <2>3 DEF ReadSliceDone, WriteSliceDone, MultiVarsDone, ListBlocksDone, ListSliceDone, AgBlockInfoDone,
                      ControlDone, SimpleDone
  <2>4. QED
    BY <2>1, <2>2, <2>3
<1>7. CASE \E g \in OtherRuns : \E r : Ask(g, r) /\ result' = "pending"
  BY <1>4, <1>6, <1>7, AskMe, OtherKeeps
<1>8. CASE \E res : Returns(res)
  BY <1>3, <1>4, <1>6, <1>8, ReturnsMe, OtherKeeps
<1>9. QED
  BY <1>5, <1>7, <1>8

\* What holds when an answer to a block or a list is there.
LEMMA MovingAnswered ==
  ASSUME BlockIInv, peer = "plc", NEW f \in UploadRuns \cup DownloadRuns \cup {"szl"}, Answered(f)
  PROVE  /\ run = f /\ request[Me] = Nothing /\ result = "pending" /\ answer[Me] # Nothing
         /\ answer[Me].fun \in AnsweredBy(f) /\ AnswerOK(answer[Me])
         /\ PlcShape /\ JobInHand /\ UploadInv /\ DownloadInv /\ SZLInv
<1>1. f \in Waits /\ f \notin NoJobRuns
  BY DEF Waits, NoJobRuns, UploadRuns, DownloadRuns
<1>2. QED
  BY <1>1, AnsweredAlone DEF BlockIInv, PlcInv, JobInHand, Answered

\* Only "ok" is no error.
LEMMA OkIsOk == \A code : code # "ok" => CpuError(code) # "ok"
BY DEF CpuError

\* A job that ends with an error has nothing to show.
LEMMA FailedKeeps ==
  ASSUME BlockIInv, peer = "plc", plc' = plc, NEW res, Returns(res), res # "ok", request[Me] = Nothing
  PROVE  PlcInv'
<1>1. PlcShape'
  BY DEF BlockIInv, PlcInv, PlcShape
<1>2. run' = "idle" /\ result' # "ok"
  BY ReturnsMe DEF BlockIInv
<1>3. QED
  BY <1>1, <1>2, EndKeeps DEF NoJobRuns

\* A job that waits on has its request under way.
LEMMA AsksOn ==
  ASSUME BlockIInv, peer = "plc", plc' = plc, job' = job, result' = result, run \notin NoJobRuns,
         NEW f \in Waits \ NoJobRuns, NEW r, Ask(f, r), r # Nothing, UploadInv', DownloadInv', SZLInv',
         \E runs \in {UploadRuns, DownloadRuns, {"szl"}} : run \in runs /\ f \in runs
  PROVE  PlcInv'
<1>1. run' = f
  BY AskMe DEF BlockIInv
<1>2. PlcShape' /\ AfterJob'
  BY <1>1 DEF BlockIInv, PlcInv, PlcShape, AfterJob
<1>3. JobInHand'
  BY <1>1 DEF BlockIInv, PlcInv, JobInHand, UploadRuns, DownloadRuns, NoJobRuns
<1>4. QED
  BY <1>2, <1>3 DEF PlcInv

\* The first slice of an upload is asked for with nothing received.
LEMMA StartUploadBlocks ==
  ASSUME BlockIInv, peer = "plc", plc' = plc, StartUploadDone
  PROVE  PlcInv'
<1> DEFINE r == [fun |-> "upload"]
<1>1. /\ Answered("startupload") /\ UNCHANGED <<job, first, left, opData>>
      /\ IF answer[Me].error = "ok" THEN Ask("upload", r) /\ UNCHANGED result ELSE Returns(CpuError(answer[Me].error))
  BY DEF StartUploadDone, loopVars
<1>2. r # Nothing
  <2>1. r.fun # Nothing.fun
    BY DEF Nothing
  <2>2. QED
    BY <2>1
<1> HIDE DEF r
<1>3. run = "startupload" /\ request[Me] = Nothing /\ opData = <<>> /\ first /\ plc.pos = 0
  BY <1>1, MovingAnswered DEF UploadInv, UploadRuns
<1>4. CASE answer[Me].error # "ok"
  BY <1>1, <1>3, <1>4, OkIsOk, FailedKeeps
<1>5. CASE answer[Me].error = "ok"
  <2>1. run' = "upload" /\ answer'[Me] = Nothing
    BY <1>1, <1>5, AskMe DEF BlockIInv
  <2>2. Loaded(job, 0) = <<>>
    <3>1. BlockHead \in Nat
      BY MicroClientAssumption
    <3>2. QED
      BY <3>1, SliceFacts DEF Loaded
  <2>3. Came(0)'
    BY <1>1, <1>3, <2>2 DEF Came
  <2>4. UploadInv'
    <3>1. 0 \in 0..LoadSize /\ plc'.pos = 0
      BY <1>3, S7SessionAssumption
    <3>2. Came(plc.pos)'
      BY <1>3, <2>3, <3>1 DEF Came
    <3>3. QED
      BY <2>1, <3>1, <3>2 DEF UploadInv
  <2>5. DownloadInv' /\ SZLInv'
    BY <2>1 DEF DownloadInv, SZLInv
  <2>6. "upload" \in Waits \ NoJobRuns /\ run \notin NoJobRuns /\ run \in UploadRuns /\ "upload" \in UploadRuns
    BY <1>3 DEF Waits, NoJobRuns, UploadRuns
  <2>7. QED
    BY <1>1, <1>2, <1>5, <2>4, <2>5, <2>6, AsksOn
<1>6. QED
  BY <1>4, <1>5

\* What a slice adds to the block.
LEMMA LoadedOn ==
  ASSUME NEW j, NEW pos \in Nat, NEW n \in Nat, pos > 0 => pos >= BlockHead, pos + n >= BlockHead
  PROVE  LET s == SliceAt(pos, n)
         IN Joined(Loaded(j, pos), IF pos = 0 /\ ~j.full THEN Cut(s, BlockHead + 1, Len(s)) ELSE s) = Loaded(j, pos + n)
<1> DEFINE s == SliceAt(pos, n)
<1>1. BlockHead \in Nat
  BY MicroClientAssumption
<1>2. Len(s) = n
  BY SliceFacts
<1>3. CASE j.full
  <2>1. Loaded(j, pos) = SliceAt(0, pos) /\ Loaded(j, pos + n) = SliceAt(0, pos + n)
    BY <1>3, SliceFacts DEF Loaded
  <2>2. Joined(SliceAt(0, pos), SliceAt(pos, n)) = SliceAt(0, pos + n)
    BY SliceOn
  <2>3. QED
    BY <1>3, <2>1, <2>2
<1>4. CASE ~j.full /\ pos = 0
  <2>1. Loaded(j, pos) = SliceAt(BlockHead, 0) /\ Loaded(j, pos + n) = SliceAt(BlockHead, n - BlockHead)
    <3>1. SliceAt(BlockHead, 0 - BlockHead) = <<>> /\ SliceAt(BlockHead, 0) = <<>>
      BY <1>1, SliceFacts
    <3>2. QED
      BY <1>4, <3>1 DEF Loaded
  <2> DEFINE m == n - BlockHead
  <2>2. m \in Nat /\ BlockHead + m = 0 + n /\ BlockHead + 1 = BlockHead - 0 + 1 /\ n = BlockHead - 0 + m
    BY <1>1, <1>4
  <2> HIDE DEF m
  <2>3. Cut(SliceAt(0, n), BlockHead + 1, n) = SliceAt(BlockHead, m)
    BY <1>1, <2>2, SlicePart
  <2>4. Cut(s, BlockHead + 1, Len(s)) = SliceAt(BlockHead, m)
    BY <1>2, <1>4, <2>2, <2>3
  <2>5. Joined(SliceAt(BlockHead, 0), SliceAt(BlockHead, m)) = SliceAt(BlockHead, m)
    BY <1>1, <2>2, SliceOn
  <2>6. QED
    BY <1>1, <1>4, <2>1, <2>2, <2>4, <2>5 DEF m
<1>5. CASE ~j.full /\ pos > 0
  <2> DEFINE k == pos - BlockHead
             all == (pos + n) - BlockHead
  <2>1. k \in Nat /\ all \in Nat /\ pos = BlockHead + k /\ all = k + n
    BY <1>1, <1>5
  <2>2. Loaded(j, pos) = SliceAt(BlockHead, k) /\ Loaded(j, pos + n) = SliceAt(BlockHead, all)
    BY <1>5 DEF Loaded
  <2> HIDE DEF k, all
  <2>3. Joined(SliceAt(BlockHead, k), SliceAt(pos, n)) = SliceAt(BlockHead, all)
    BY <1>1, <2>1, SliceOn
  <2>4. QED
    BY <1>5, <2>1, <2>2, <2>3
<1>6. QED
  BY <1>3, <1>4, <1>5

\* A slice goes behind what is there, and the last one is followed by the end.
LEMMA UploadSliceBlocks ==
  ASSUME BlockIInv, peer = "plc", plc' = plc, UploadSliceDone
  PROVE  PlcInv'
<1> DEFINE a == answer[Me]
           r(f) == [fun |-> f]
<1>1. /\ Answered("upload") /\ job' = job /\ first' = FALSE
      /\ a.error # "ok" => Returns("errCliUploadSequenceFailed")
      /\ a.error = "ok" =>
           /\ opData' = opData \o IF first /\ ~job.full THEN SubSeq(a.data, BlockHead + 1, Len(a.data)) ELSE a.data
           /\ left' = IF first THEN a.mc7 ELSE left
           /\ IF a.eou THEN Ask("endupload", r("endupload")) ELSE Ask("upload", r("upload"))
           /\ UNCHANGED result
  BY DEF UploadSliceDone
<1>2. \A f \in UploadRuns : r(f) # Nothing
  <2>1. \A f \in UploadRuns : r(f).fun # Nothing.fun
    BY DEF Nothing, UploadRuns
  <2>2. QED
    BY <2>1
<1> HIDE DEF r
<1>3. run = "upload" /\ request[Me] = Nothing /\ a # Nothing /\ UploadInv
  BY <1>1, MovingAnswered DEF UploadRuns
<1>4. CASE a.error # "ok"
  BY <1>1, <1>3, <1>4, FailedKeeps
<1>5. CASE a.error = "ok"
  <2>1. PICK pos \in Nat : \E n \in Nat \ {0} :
               /\ pos + n = plc.pos /\ plc.pos \in BlockHead..LoadSize
               /\ a.data = SliceAt(pos, n) /\ Came(pos)
    BY <1>3, <1>5 DEF UploadInv
  <2>2. PICK n \in Nat \ {0} :
               /\ pos + n = plc.pos /\ plc.pos \in BlockHead..LoadSize
               /\ a.data = SliceAt(pos, n) /\ Came(pos)
    BY <2>1
  <2>3. a.mc7 \in {0, MC7} /\ (a.eou <=> plc.pos = LoadSize)
    BY <1>3, <1>5 DEF UploadInv
  <2>4. opData' = Loaded(job, plc.pos)
    <3>1. pos > 0 => pos >= BlockHead
      BY <2>2 DEF Came
    <3>2. pos + n >= BlockHead
      BY <2>2, MicroClientAssumption, S7SessionAssumption
    <3>3. Joined(Loaded(job, pos), IF pos = 0 /\ ~job.full THEN Cut(a.data, BlockHead + 1, Len(a.data)) ELSE a.data)
            = Loaded(job, pos + n)
      BY <2>2, <3>1, <3>2, LoadedOn
    <3>4. opData = Loaded(job, pos) /\ (first <=> pos = 0)
      BY <2>2 DEF Came
    <3>5. opData' = Joined(Loaded(job, pos), IF pos = 0 /\ ~job.full THEN Cut(a.data, BlockHead + 1, Len(a.data)) ELSE a.data)
      BY <1>1, <1>5, <3>4 DEF Joined, Cut
    <3>6. QED
      BY <2>2, <3>3, <3>5
  <2>5. left' \in {0, MC7}
    BY <1>1, <1>5, <2>2, <2>3 DEF Came
  <2>6. BlockHead \in Nat /\ LoadSize \in Nat /\ plc.pos \in 0..LoadSize /\ plc.pos > 0 /\ plc.pos >= BlockHead
    BY <2>2, MicroClientAssumption, S7SessionAssumption
  <2>7. run \notin NoJobRuns /\ run \in UploadRuns
    BY <1>3 DEF NoJobRuns, UploadRuns
  <2>8. CASE a.eou
    <3>1. run' = "endupload"
      BY <1>1, <1>5, <2>8, AskMe DEF BlockIInv
    <3>2. opData' = Loaded(job, LoadSize)
      BY <2>3, <2>4, <2>8
    <3>3. UploadInv' /\ DownloadInv' /\ SZLInv'
      BY <1>1, <2>5, <3>1, <3>2 DEF UploadInv, DownloadInv, SZLInv
    <3>4. "endupload" \in Waits \ NoJobRuns /\ "endupload" \in UploadRuns
      BY DEF Waits, NoJobRuns, UploadRuns
    <3>5. QED
      BY <1>1, <1>2, <1>5, <2>7, <2>8, <3>3, <3>4, AsksOn
  <2>9. CASE ~a.eou
    <3>1. run' = "upload" /\ answer'[Me] = Nothing
      BY <1>1, <1>5, <2>9, AskMe DEF BlockIInv
    <3>2. Came(plc.pos)'
      BY <1>1, <2>4, <2>5, <2>6 DEF Came
    <3>3. UploadInv' /\ DownloadInv' /\ SZLInv'
      BY <2>6, <3>1, <3>2 DEF UploadInv, DownloadInv, SZLInv
    <3>4. "upload" \in Waits \ NoJobRuns /\ "upload" \in UploadRuns
      BY DEF Waits, NoJobRuns, UploadRuns
    <3>5. QED
      BY <1>1, <1>2, <1>5, <2>7, <2>9, <3>3, <3>4, AsksOn
  <2>10. QED
    BY <2>8, <2>9
<1>6. QED
  BY <1>4, <1>5

\* What the caller of an upload gets is the block: opSize is its length, or MC7.
LEMMA EndUploadBlocks ==
  ASSUME BlockIInv, peer = "plc", plc' = plc, EndUploadDone
  PROVE  PlcInv'
<1>1. Answered("endupload") /\ job' = job
  BY DEF EndUploadDone
<1>2. run = "endupload" /\ request[Me] = Nothing /\ UploadInv /\ JobInHand /\ PlcShape
  BY <1>1, MovingAnswered DEF UploadRuns
<1>3. opData = Loaded(job, LoadSize) /\ left \in {0, MC7}
  BY <1>2 DEF UploadInv
<1>4. \/ \E res : Returns(res) /\ res # "ok"
      \/ /\ ~(UploadedSize < IF job.full THEN FullMin ELSE 1) /\ ~(job.amount < UploadedSize)
         /\ out' = Upto(opData, Least(job.amount, UploadedSize)) /\ Returns("ok")
  BY DEF EndUploadDone
<1>5. CASE \E res : Returns(res) /\ res # "ok"
  BY <1>2, <1>5, FailedKeeps
<1>6. CASE /\ ~(UploadedSize < IF job.full THEN FullMin ELSE 1) /\ ~(job.amount < UploadedSize)
           /\ out' = Upto(opData, Least(job.amount, UploadedSize)) /\ Returns("ok")
  <2>1. out' = Upto(opData, UploadedSize)
    BY <1>6 DEF Least
  <2>2. BlockHead \in Nat /\ LoadSize \in Nat /\ MC7 \in Nat /\ BlockHead + MC7 <= LoadSize
    BY MicroClientAssumption, S7SessionAssumption
  <2>3. out' = IF job.full THEN FirstOnes(LoadSize) ELSE SliceAt(BlockHead, MC7)
    <3>1. CASE job.full
      <4>1. opData = SliceAt(0, LoadSize) /\ Len(opData) = LoadSize /\ FirstOnes(LoadSize) = SliceAt(0, LoadSize)
        BY <1>3, <2>2, <3>1, SliceFacts DEF Loaded
      <4>2. UploadedSize = LoadSize
        BY <3>1, <4>1 DEF UploadedSize
      <4>3. out' = Cut(SliceAt(0, LoadSize), 1, LoadSize)
        BY <2>1, <2>2, <4>1, <4>2 DEF Upto, Least, Cut
      <4>4. Cut(SliceAt(0, LoadSize), 1, LoadSize) = SliceAt(0, LoadSize)
        BY <2>2, SlicePart
      <4>5. QED
        BY <2>2, <3>1, <4>1, <4>3, <4>4
    <3>2. CASE ~job.full
      <4> DEFINE n == LoadSize - BlockHead
      <4>1. n \in Nat /\ MC7 <= n
        BY <2>2
      <4>2. opData = SliceAt(BlockHead, n)
        BY <1>3, <3>2 DEF Loaded
      <4>3. Len(opData) = n
        BY <2>2, <4>1, <4>2, SliceFacts
      <4> HIDE DEF n
      <4>4. UploadedSize = MC7
        BY <1>3, <1>6, <3>2 DEF UploadedSize
      <4>5. out' = Cut(SliceAt(BlockHead, n), 1, MC7)
        BY <2>1, <2>2, <4>1, <4>2, <4>3, <4>4 DEF Upto, Least, Cut
      <4>6. Cut(SliceAt(BlockHead, n), 1, MC7) = SliceAt(BlockHead, MC7)
        BY <2>2, <4>1, SlicePart
      <4>7. QED
        BY <3>2, <4>5, <4>6
    <3>3. QED
      BY <3>1, <3>2
  <2>4. run' = "idle" /\ request'[Me] = Nothing /\ PlcShape'
    BY <1>2, <1>6, ReturnsMe DEF BlockIInv, PlcShape
  <2>5. job.op \notin {"download", "szl"}
    BY <1>2 DEF JobInHand, NoJobRuns, DownloadRuns
  <2>6. Moved'
    BY <1>1, <2>3, <2>5 DEF Moved
  <2>7. QED
    BY <2>4, <2>6, EndKeeps DEF NoJobRuns, Nothing
<1>7. QED
  BY <1>4, <1>5, <1>6

\* After the start of a download the client waits for the PLC, which has nothing yet.
LEMMA StartDownloadBlocks ==
  ASSUME BlockIInv, peer = "plc", plc' = plc, StartDownloadDone
  PROVE  PlcInv'
<1>1. Answered("reqdownload") /\ UNCHANGED <<job, left, start>>
  BY DEF StartDownloadDone, loopVars
<1>2. /\ run = "reqdownload" /\ request[Me] = Nothing /\ result = "pending" /\ answer[Me] # Nothing
      /\ PlcShape /\ JobInHand /\ DownloadInv
  BY <1>1, MovingAnswered DEF DownloadRuns
<1>3. \/ \E res : Returns(res) /\ res # "ok"
      \/ answer[Me].error = "ok" /\ run' = "serve" /\ UNCHANGED <<request, result>>
  BY DEF StartDownloadDone
<1>4. CASE \E res : Returns(res) /\ res # "ok"
  BY <1>2, <1>4, FailedKeeps
<1>5. CASE answer[Me].error = "ok" /\ run' = "serve" /\ UNCHANGED <<request, result>>
  <2>1. left = job.amount /\ start = 0 /\ plc.got = <<>>
    BY <1>2, <1>5 DEF DownloadInv
  <2>2. left \in Nat
    BY DEF BlockIInv, SessionInv, ClientTypes
  <2>3. start' + left' = job'.amount /\ plc'.got = FirstOnes(start')
    BY <1>1, <2>1, <2>2, SliceFacts
  <2>4. DownloadInv'
    BY <1>2, <1>5, <2>3 DEF DownloadInv
  <2>5. JobInHand'
    BY <1>1, <1>2, <1>5 DEF JobInHand, NoJobRuns, UploadRuns, DownloadRuns
  <2>6. PlcShape' /\ UploadInv' /\ SZLInv' /\ AfterJob'
    BY <1>2, <1>5 DEF PlcShape, UploadInv, SZLInv, AfterJob, NoJobRuns
  <2>7. QED
    BY <2>4, <2>5, <2>6 DEF PlcInv
<1>6. QED
  BY <1>3, <1>4, <1>5

\* A slice is cut from where the last one ended; the one with EoS is the last.
LEMMA DownloadSliceBlocks ==
  ASSUME BlockIInv, peer = "plc", plc' = plc, DownloadSlice
  PROVE  PlcInv'
<1> DEFINE slice == Least(left, MaxSlice)
           f == IF LastSlice(slice) THEN "ended" ELSE "serve"
           r == [fun |-> "downloaded", data |-> [k \in 1..slice |-> start + k], eos |-> LastSlice(slice)]
<1>1. /\ Answered("serve") /\ job' = job
      /\ \/ left' = left - slice /\ start' = start + slice /\ Ask(f, r) /\ UNCHANGED result
         \/ \E res : Returns(res) /\ res # "ok"
  BY DEF DownloadSlice
<1>2. run = "serve" /\ request[Me] = Nothing /\ DownloadInv
  BY <1>1, MovingAnswered DEF DownloadRuns
<1>3. left \in Nat /\ start \in Nat /\ MaxSlice \in Nat
  <2>1. left \in Nat /\ start \in Nat /\ PDULength \in MinPduSize..IsoPayload_Size
    BY <1>2 DEF BlockIInv, SessionInv, ClientTypes
  <2>2. SliceHead \in Nat /\ MinPduSize \in Nat /\ IsoPayload_Size \in Nat /\ MinPduSize >= SliceHead
    BY SessionConstants
  <2>3. QED
    BY <2>1, <2>2 DEF MaxSlice
<1>4. slice \in Nat /\ slice <= left /\ (LastSlice(slice) => slice = left)
  BY <1>3 DEF Least, LastSlice
<1>5. r.data = SliceAt(start, slice) /\ r # Nothing
  <2>1. r.fun # Nothing.fun
    BY DEF Nothing
  <2>2. r # Nothing
    BY <2>1
  <2>3. QED
    BY <2>2 DEF SliceAt
<1> HIDE DEF slice, r
<1>6. CASE \E res : Returns(res) /\ res # "ok"
  BY <1>2, <1>6, FailedKeeps
<1>7. CASE left' = left - slice /\ start' = start + slice /\ Ask(f, r) /\ UNCHANGED result
  <2>1. start + left = job.amount /\ plc.got = FirstOnes(start)
    BY <1>2 DEF DownloadInv
  <2>2. run' = f /\ request'[Me] = r
    BY <1>7, AskMe DEF BlockIInv
  <2>3. start' + left' = job'.amount /\ (f = "ended" => left' = 0)
    BY <1>1, <1>3, <1>4, <1>7, <2>1
  <2>4. plc'.got = FirstOnes(start) /\ request'[Me].data = SliceAt(start, slice) /\ start + slice = start'
    BY <1>5, <1>7, <2>1, <2>2
  <2>5. request'[Me] # Nothing /\ f \in {"serve", "ended"}
    BY <1>5, <2>2
  <2>6. DownloadInv'
    BY <1>3, <1>4, <2>2, <2>3, <2>4, <2>5 DEF DownloadInv
  <2>7. UploadInv' /\ SZLInv'
    BY <2>2, <2>5 DEF UploadInv, SZLInv
  <2>8. f \in Waits \ NoJobRuns /\ run \notin NoJobRuns /\ run \in DownloadRuns /\ f \in DownloadRuns
    BY <1>2, <2>5 DEF Waits, NoJobRuns, DownloadRuns
  <2> HIDE DEF f
  <2>9. QED
    BY <1>1, <1>5, <1>7, <2>6, <2>7, <2>8, AsksOn
<1>8. QED
  BY <1>1, <1>6, <1>7

\* When the PLC has asked for the end and for the insertion it has all of the block.
LEMMA EndDownloadBlocks ==
  ASSUME BlockIInv, peer = "plc", plc' = plc, DownloadEnded \/ InsertBlock
  PROVE  PlcInv'
<1> DEFINE e == [fun |-> "ended"]
           s == [fun |-> "start", code |-> "insert"]
<1>1. e # Nothing /\ s # Nothing
  <2>1. e.fun # Nothing.fun /\ s.fun # Nothing.fun
    BY DEF Nothing
  <2>2. QED
    BY <2>1
<1>2. \/ Answered("ended") /\ Ask("insert", e) /\ UNCHANGED <<job, result>>
      \/ Answered("ended") /\ \E res : Returns(res) /\ res # "ok"
      \/ run = "insert" /\ Ask("inserted", s) /\ UNCHANGED <<job, result>>
  BY DEF DownloadEnded, InsertBlock
<1> HIDE DEF e, s
<1>3. ASSUME NEW f \in {"insert", "inserted"}, NEW r, r # Nothing, Ask(f, r), UNCHANGED <<job, result>>,
             run \in DownloadRuns, plc.got = FirstOnes(job.amount)
      PROVE  PlcInv'
  <2>1. run' = f
    BY <1>3, AskMe DEF BlockIInv
  <2>2. DownloadInv' /\ UploadInv' /\ SZLInv'
    BY <1>3, <2>1 DEF DownloadInv, UploadInv, SZLInv
  <2>3. f \in Waits \ NoJobRuns /\ run \notin NoJobRuns /\ f \in DownloadRuns
    BY <1>3 DEF Waits, NoJobRuns, DownloadRuns
  <2>4. QED
    BY <1>3, <2>2, <2>3, AsksOn
<1>4. CASE Answered("ended")
  <2>1. run = "ended" /\ request[Me] = Nothing /\ DownloadInv
    BY <1>4, MovingAnswered DEF DownloadRuns
  <2>2. start \in Nat
    BY DEF BlockIInv, SessionInv, ClientTypes
  <2>3. plc.got = FirstOnes(start) /\ start + 0 = job.amount
    BY <2>1 DEF DownloadInv
  <2>4. plc.got = FirstOnes(job.amount) /\ run \in DownloadRuns
    BY <2>1, <2>2, <2>3 DEF DownloadRuns
  <2>5. QED
    BY <1>1, <1>2, <1>3, <2>1, <2>4, FailedKeeps
<1>5. CASE run = "insert" /\ Ask("inserted", s) /\ UNCHANGED <<job, result>>
  <2>1. plc.got = FirstOnes(job.amount) /\ run \in DownloadRuns
    BY <1>5 DEF BlockIInv, PlcInv, DownloadInv, DownloadRuns
  <2>2. QED
    BY <1>1, <1>3, <1>5, <2>1
<1>6. QED
  BY <1>2, <1>4, <1>5

\* A good download leaves the PLC with the block.
LEMMA InsertDoneBlocks ==
  ASSUME BlockIInv, peer = "plc", plc' = plc, InsertDone
  PROVE  PlcInv'
<1>1. Answered("inserted") /\ UNCHANGED <<job, out>> /\ \E res : Returns(res)
  BY DEF InsertDone
<1>2. run = "inserted" /\ request[Me] = Nothing /\ DownloadInv /\ JobInHand /\ PlcShape
  BY <1>1, MovingAnswered DEF DownloadRuns
<1>3. run' = "idle" /\ request'[Me] = Nothing /\ PlcShape'
  BY <1>1, <1>2, ReturnsMe DEF BlockIInv, PlcShape
<1>4. plc.got = FirstOnes(job.amount) /\ job.op \notin {"upload", "szl"}
  BY <1>2 DEF DownloadInv, JobInHand, NoJobRuns, UploadRuns
<1>5. Moved'
  BY <1>1, <1>4 DEF Moved
<1>6. QED
  BY <1>3, <1>5, EndKeeps DEF NoJobRuns, Nothing

\* A slice of a status list goes behind what is there; the last one completes it.
LEMMA SZLSliceBlocks ==
  ASSUME BlockIInv, peer = "plc", plc' = plc, SZLSliceDone
  PROVE  PlcInv'
<1> DEFINE a == answer[Me]
           got == opData \o a.data
           r == [fun |-> "szl", id |-> job.id, first |-> FALSE]
<1>1. /\ Answered("szl") /\ job' = job
      /\ a.ret # "ok" \/ a.error # "ok" =>
           /\ ReturnError(a.ret) = "ok" => Ask("szl", r) /\ UNCHANGED <<result, opData>>
           /\ ReturnError(a.ret) # "ok" => Returns(ReturnError(a.ret))
      /\ a.ret = "ok" /\ a.error = "ok" =>
           /\ opData' = got
           /\ a.more => Ask("szl", r) /\ UNCHANGED result
           /\ ~a.more =>
                /\ out' = Upto(got, SZLRoom(got))
                /\ Returns(IF Len(got) > SZLRoom(got) THEN "errCliBufferTooSmall" ELSE "ok")
  BY DEF SZLSliceDone, MoreSZL
<1>2. r # Nothing /\ ~r.first
  <2>1. r.fun # Nothing.fun
    BY DEF Nothing
  <2>2. QED
    BY <2>1
<1> HIDE DEF r
<1>3. run = "szl" /\ request[Me] = Nothing /\ a # Nothing /\ SZLInv /\ JobInHand /\ PlcShape
  BY <1>1, MovingAnswered
<1>4. CASE a.ret # "ok" \/ a.error # "ok"
  <2>1. RefusedSZL(a) \/ (a.ret = "zero" /\ opData = FirstOnes(plc.pos) /\ plc.pos \in Nat)
    BY <1>3, <1>4 DEF SZLInv
  <2>2. CASE RefusedSZL(a)
    <3>1. ReturnError(a.ret) # "ok"
      BY <2>2 DEF RefusedSZL, ReturnError, CpuError
    <3>2. QED
      BY <1>1, <1>3, <1>4, <3>1, FailedKeeps
  <2>3. CASE a.ret = "zero" /\ opData = FirstOnes(plc.pos) /\ plc.pos \in Nat
    <3>1. ReturnError(a.ret) = "ok"
      BY <2>3 DEF ReturnError
    <3>2. Ask("szl", r) /\ result' = result /\ opData' = opData
      BY <1>1, <1>4, <3>1
    <3>3. run' = "szl" /\ request'[Me] = r /\ answer'[Me] = Nothing
      BY <3>2, AskMe DEF BlockIInv
    <3>4. SZLInv'
      BY <1>2, <2>3, <3>2, <3>3 DEF SZLInv
    <3>5. UploadInv' /\ DownloadInv'
      BY <3>3 DEF UploadInv, DownloadInv
    <3>6. "szl" \in Waits \ NoJobRuns /\ run \notin NoJobRuns
      BY <1>3 DEF Waits, NoJobRuns
    <3>7. QED
      BY <1>1, <1>2, <1>3, <3>2, <3>4, <3>5, <3>6, AsksOn
  <2>4. QED
    BY <2>1, <2>2, <2>3
<1>5. CASE a.ret = "ok" /\ a.error = "ok"
  <2>1. /\ \E pos \in Nat : \E n \in Nat :
              /\ opData = FirstOnes(pos) /\ a.data = SliceAt(pos, n)
              /\ plc.pos = pos + n /\ plc.pos <= PlcSZL
        /\ a.more <=> plc.pos < PlcSZL
    BY <1>3, <1>5 DEF SZLInv, RefusedSZL
  <2>2. PICK pos \in Nat : \E n \in Nat :
              /\ opData = FirstOnes(pos) /\ a.data = SliceAt(pos, n)
              /\ plc.pos = pos + n /\ plc.pos <= PlcSZL
    BY <2>1
  <2>3. PICK n \in Nat :
              /\ opData = FirstOnes(pos) /\ a.data = SliceAt(pos, n)
              /\ plc.pos = pos + n /\ plc.pos <= PlcSZL
    BY <2>2
  <2>4. got = FirstOnes(plc.pos) /\ plc.pos \in Nat
    <3>1. Joined(SliceAt(0, pos), SliceAt(pos, n)) = SliceAt(0, plc.pos)
      BY <2>3, SliceOn
    <3>2. got = Joined(FirstOnes(pos), SliceAt(pos, n))
      BY <2>3 DEF Joined
    <3>3. QED
      BY <2>3, <3>1, <3>2, SliceFacts
  <2> HIDE DEF got
  <2>5. CASE a.more
    <3>1. run' = "szl" /\ request'[Me] = r /\ answer'[Me] = Nothing
      BY <1>1, <1>5, <2>5, AskMe DEF BlockIInv
    <3>2. SZLInv'
      BY <1>1, <1>2, <1>5, <2>4, <3>1 DEF SZLInv
    <3>3. UploadInv' /\ DownloadInv'
      BY <3>1 DEF UploadInv, DownloadInv
    <3>4. "szl" \in Waits \ NoJobRuns /\ run \notin NoJobRuns
      BY <1>3 DEF Waits, NoJobRuns
    <3>5. QED
      BY <1>1, <1>2, <1>3, <1>5, <2>5, <3>2, <3>3, <3>4, AsksOn
  <2>6. CASE ~a.more
    <3>1. plc.pos = PlcSZL /\ Len(got) = PlcSZL /\ PlcSZL \in Nat
      BY <2>1, <2>3, <2>4, <2>6, SliceFacts, S7SessionAssumption
    <3>2. /\ run' = "idle" /\ request'[Me] = Nothing /\ PlcShape'
          /\ result' = IF Len(got) > SZLRoom(got) THEN "errCliBufferTooSmall" ELSE "ok"
      BY <1>1, <1>3, <1>5, <2>6, ReturnsMe DEF BlockIInv, PlcShape
    <3>3. ASSUME result' = "ok" PROVE Moved'
      <4>1. ~(SZLRoom(got) < Len(got))
        BY <1>3, <3>2, <3>3
      <4>2. out' = SubSeq(got, 1, PlcSZL)
        BY <1>1, <1>5, <2>6, <3>1, <4>1 DEF Upto, Least
      <4>3. Cut(SliceAt(0, PlcSZL), 1, PlcSZL) = SliceAt(0, PlcSZL)
        BY <3>1, SlicePart
      <4>4. out' = FirstOnes(PlcSZL)
        BY <2>4, <3>1, <4>2, <4>3, SliceFacts DEF Cut
      <4>5. job.op \notin {"upload", "download"}
        BY <1>3 DEF JobInHand, NoJobRuns, UploadRuns, DownloadRuns
      <4>6. QED
        BY <1>1, <4>4, <4>5 DEF Moved
    <3>4. QED
      BY <3>2, <3>3, EndKeeps DEF NoJobRuns, Nothing
  <2>7. QED
    BY <2>5, <2>6
<1>6. QED
  BY <1>4, <1>5

\* Every step of the client keeps what it and the PLC have of a block.
LEMMA ClientBlocks ==
  ASSUME BlockIInv, peer = "plc", plc' = plc, Submit \/ ClientStep \/ PeerDisconnect
  PROVE  PlcInv'
<1>1. PlcShape'
  BY DEF BlockIInv, PlcInv, PlcShape
<1>2. CASE Submit
  BY <1>1, <1>2, SubmitBlocks DEF BlockIInv
<1>3. CASE ClientStep
  BY <1>3, ConnectionBlocks, OtherBlocks, StartUploadBlocks, UploadSliceBlocks, EndUploadBlocks,
     StartDownloadBlocks, DownloadSliceBlocks, EndDownloadBlocks, InsertDoneBlocks, SZLSliceBlocks DEF ClientStep
<1>4. QED
  BY <1>2, <1>3, ConnectionBlocks

-----------------------------------------------------------------------------
(* The PLC.                                                                *)

\* The PLC takes a request of the exchange the client waits for, or one that was
\* left behind by a job whose connection was lost.
LEMMA PlcTook ==
  ASSUME BlockIInv, peer = "plc", UNCHANGED clientVars, PlcShape', NEW f, f # "none", PlcTakes(f)
  PROVE  /\ request[Me].fun = f /\ request[Me] # Nothing /\ request'[Me] = Nothing
         /\ run' = run /\ run \in Waits \cup {"off"}
         /\ run \in Waits => f \in AskedBy(run) /\ answer[Me] = Nothing
         /\ run = "off" /\ f \notin {"connect", "negotiate"} => PlcInv'
<1>1. /\ request'[Me] = Nothing /\ run # "idle"
      /\ run \in Waits => f \in AskedBy(run) /\ answer[Me] = Nothing
  BY PlcTakesAlone DEF BlockIInv
<1>2. request[Me].fun = f /\ request[Me] # Nothing
  BY DEF PlcTakes, Nothing
<1>3. run \in Waits \cup {"off"} /\ UNCHANGED <<run, result>>
  BY <1>1 DEF BlockIInv, SessionInv, ClientTypes, clientVars
<1>4. ASSUME run = "off", f \notin {"connect", "negotiate"} PROVE PlcInv'
  <2>1. result' # "ok"
    BY <1>2, <1>3, <1>4 DEF BlockIInv, PlcInv, AfterJob, NoJobRuns
  <2>2. QED
    BY <1>3, <1>4, <2>1, EndKeeps DEF NoJobRuns
<1>5. QED
  BY <1>1, <1>2, <1>3, <1>4

\* Answers of the PLC to jobs that move nothing.
LEMMA PlcOther ==
  ASSUME BlockIInv, peer = "plc", UNCHANGED clientVars, plc' = plc,
         NEW f \in {"stop", "password", "getclock", "setclock", "listall", "blkinfo", "read", "write"}, PlcTakes(f)
  PROVE  PlcInv'
<1>1. PlcShape'
  BY DEF BlockIInv, PlcInv, PlcShape
<1>2. /\ run' = run /\ run \in Waits \cup {"off"}
      /\ run \in Waits => f \in AskedBy(run)
      /\ run = "off" => PlcInv'
  BY <1>1, PlcTook
<1>3. CASE run \in Waits
  <2>1. run \in OtherRuns /\ run \notin NoJobRuns \cup UploadRuns \cup DownloadRuns \cup {"szl"}
    BY <1>2, <1>3 DEF OtherRuns, Waits, AskedBy, UploadRuns, DownloadRuns, NoJobRuns
  <2>2. result' = "pending" /\ job'.op \notin Moving
    BY <2>1 DEF BlockIInv, PlcInv, JobInHand, Moving, clientVars
  <2>3. QED
    BY <1>1, <1>2, <2>1, <2>2, OtherKeeps
<1>4. QED
  BY <1>2, <1>3

\* A client that has connected finds the PLC between two jobs.
LEMMA PlcConnectsBlocks ==
  ASSUME BlockIInv, peer = "plc", UNCHANGED clientVars, PlcConnects
  PROVE  PlcInv'
<1>1. PICK f \in {"connect", "negotiate"} : PlcTakes(f)
  BY DEF PlcConnects
<1>2. PlcShape' /\ plc'.got = plc.got
  BY DEF BlockIInv, PlcInv, PlcShape, PlcConnects
<1>3. /\ run' = run /\ run \in Waits \cup {"off"} /\ request'[Me] = Nothing
      /\ run \in Waits => f \in AskedBy(run)
  BY <1>1, <1>2, PlcTook
<1>4. run \in NoJobRuns
  BY <1>3 DEF Waits, AskedBy, NoJobRuns
<1>5. UNCHANGED <<job, out, result>>
  BY DEF clientVars
<1>6. result' = "ok" => Moved' /\ request'[Me].fun = "none"
  BY <1>2, <1>3, <1>4, <1>5 DEF BlockIInv, PlcInv, AfterJob, Moved, Nothing
<1>7. QED
  BY <1>2, <1>3, <1>4, <1>6, EndKeeps

\* The client waits on while the PLC serves it.
LEMMA PlcServes ==
  ASSUME BlockIInv, peer = "plc", UNCHANGED clientVars, PlcShape', run \notin NoJobRuns,
         UploadInv', DownloadInv', SZLInv'
  PROVE  PlcInv'
<1>1. JobInHand' /\ AfterJob'
  BY DEF BlockIInv, PlcInv, JobInHand, AfterJob, clientVars
<1>2. QED
  BY <1>1 DEF PlcInv

\* A slice of an upload goes on where the last one ended.
LEMMA PlcUploadsBlocks ==
  ASSUME BlockIInv, peer = "plc", UNCHANGED clientVars, PlcUploads
  PROVE  PlcInv'
<1>1. PlcShape'
  BY DEF BlockIInv, PlcInv, PlcShape, PlcUploads
<1>2. UNCHANGED <<job, run, first, left, opData>>
  BY DEF clientVars, loopVars
<1>3. UploadInv
  BY DEF BlockIInv, PlcInv
<1>4. ASSUME NEW f \in UploadRuns, PlcTakes(f), run \in Waits,
             run = f /\ run' = f /\ request'[Me] = Nothing /\ answer[Me] = Nothing /\ request[Me] # Nothing => UploadInv'
      PROVE  PlcInv'
  <2>1. run = f /\ run' = f /\ answer[Me] = Nothing /\ request[Me] # Nothing /\ request'[Me] = Nothing
    <3>1. f \in AskedBy(run) /\ run' = run /\ answer[Me] = Nothing /\ request[Me] # Nothing /\ request'[Me] = Nothing
      BY <1>1, <1>4, PlcTook DEF UploadRuns
    <3>2. run = f
      BY <1>4, <3>1 DEF UploadRuns, Waits, AskedBy
    <3>3. QED
      BY <3>1, <3>2
  <2>2. run \notin NoJobRuns /\ DownloadInv' /\ SZLInv'
    BY <2>1 DEF UploadRuns, NoJobRuns, DownloadInv, SZLInv
  <2>3. QED
    BY <1>1, <1>4, <2>1, <2>2, PlcServes
<1>5. ASSUME NEW f \in UploadRuns, PlcTakes(f), run \notin Waits PROVE PlcInv'
  BY <1>1, <1>5, PlcTook DEF UploadRuns
<1>6. CASE PlcTakes("startupload") /\ plc' = [plc EXCEPT !.pos = 0]
  <2>1. plc'.pos = 0
    BY <1>6 DEF BlockIInv, PlcInv, PlcShape
  <2>2. run' = "startupload" => UploadInv'
    BY <1>2, <1>3, <2>1 DEF UploadInv
  <2>3. QED
    BY <1>4, <1>5, <1>6, <2>2 DEF UploadRuns
<1>7. CASE PlcTakes("upload") /\ PlcSends([fun |-> "upload", error |-> "refused"])
  <2> DEFINE a == [fun |-> "upload", error |-> "refused"]
  <2>1. a.error = "refused" /\ a # Nothing
    <3>1. a.fun # Nothing.fun
      BY DEF Nothing
    <3>2. QED
      BY <3>1
  <2> HIDE DEF a
  <2>2. answer'[Me] = a
    <3>1. PlcSends(a)
      BY <1>7 DEF a
    <3>2. QED
      BY <3>1, MicroClientAssumption DEF PlcSends, BlockIInv, SessionInv, PduTypes
  <2>3. run' = "upload" => UploadInv'
    BY <2>1, <2>2 DEF UploadInv
  <2>4. QED
    BY <1>4, <1>5, <1>7, <2>3 DEF UploadRuns
<1>8. ASSUME PlcTakes("upload"), NEW n \in Slices, NEW mc7 \in {0, MC7},
             plc.pos + n <= LoadSize, plc.pos + n >= BlockHead, plc' = [plc EXCEPT !.pos = @ + n],
             PlcSends([fun |-> "upload", error |-> "ok", mc7 |-> mc7, eou |-> plc.pos + n = LoadSize,
                       data |-> [k \in 1..n |-> plc.pos + k]])
      PROVE  PlcInv'
  <2> DEFINE a == [fun |-> "upload", error |-> "ok", mc7 |-> mc7, eou |-> plc.pos + n = LoadSize,
                   data |-> [k \in 1..n |-> plc.pos + k]]
  <2>1. /\ a.error = "ok" /\ a.mc7 = mc7 /\ (a.eou <=> plc.pos + n = LoadSize) /\ a.data = SliceAt(plc.pos, n)
        /\ a.fun # Nothing.fun
    BY DEF SliceAt, Nothing
  <2>2. PlcSends(a)
    BY <1>8
  <2> HIDE DEF a
  <2>3. answer'[Me] = a /\ a # Nothing
    BY <2>1, <2>2, MicroClientAssumption DEF PlcSends, BlockIInv, SessionInv, PduTypes
  <2>4. plc'.pos = plc.pos + n
    BY <1>8 DEF BlockIInv, PlcInv, PlcShape
  <2>5. n \in Nat \ {0}
    BY DEF Slices
  <2>6. ASSUME run = "upload", run' = "upload", answer[Me] = Nothing PROVE UploadInv'
    <3>1. plc.pos \in 0..LoadSize /\ Came(plc.pos)
      BY <1>3, <2>6 DEF UploadInv
    <3>2. BlockHead \in Nat /\ LoadSize \in Nat
      BY MicroClientAssumption, S7SessionAssumption
    <3> DEFINE pos == plc.pos
    <3>3. pos \in Nat /\ pos + n = plc'.pos /\ plc'.pos \in BlockHead..LoadSize
      BY <1>8, <2>4, <2>5, <3>1, <3>2
    <3>4. answer'[Me].data = SliceAt(pos, n) /\ answer'[Me].mc7 \in {0, MC7} /\ answer'[Me].error = "ok"
      BY <2>1, <2>3
    <3>5. answer'[Me].eou <=> plc'.pos = LoadSize
      BY <2>1, <2>3, <2>4
    <3> HIDE DEF pos
    <3>6. PICK at \in Nat : at = pos
      BY <3>3
    <3>7. Came(at)'
      BY <1>2, <3>1, <3>6 DEF Came, pos, Loaded
    <3>8. \E p \in Nat : \E m \in Nat \ {0} :
               /\ p + m = plc'.pos /\ plc'.pos \in BlockHead..LoadSize
               /\ answer'[Me].data = SliceAt(p, m) /\ Came(p)'
      BY <2>5, <3>3, <3>4, <3>6, <3>7
    <3>9. QED
      BY <2>3, <2>6, <3>4, <3>5, <3>8 DEF UploadInv
  <2>7. QED
    BY <1>4, <1>5, <1>8, <2>6 DEF UploadRuns
<1>9. CASE PlcTakes("endupload") /\ plc' = plc
  <2>1. run = "endupload" /\ run' = "endupload" => UploadInv'
    BY <1>2, <1>3 DEF UploadInv, Loaded
  <2>2. QED
    BY <1>4, <1>5, <1>9, <2>1 DEF UploadRuns
<1>10. QED
  BY <1>6, <1>7, <1>8, <1>9 DEF PlcUploads

\* The PLC has what it has taken of a download, slice by slice.
LEMMA PlcDownloadsBlocks ==
  ASSUME BlockIInv, peer = "plc", UNCHANGED clientVars, PlcDownloads
  PROVE  PlcInv'
<1>1. PlcShape'
  BY DEF BlockIInv, PlcInv, PlcShape, PlcDownloads
<1>2. UNCHANGED <<job, run, left, start>>
  BY DEF clientVars, loopVars
<1>3. DownloadInv
  BY DEF BlockIInv, PlcInv
<1>4. ASSUME run' = run, run \in DownloadRuns, DownloadInv' PROVE PlcInv'
  <2>1. run \notin NoJobRuns /\ UploadInv' /\ SZLInv'
    BY <1>4 DEF DownloadRuns, NoJobRuns, UploadInv, SZLInv
  <2>2. QED
    BY <1>1, <1>4, <2>1, PlcServes
<1>5. ASSUME NEW f \in {"reqdownload", "downloaded", "ended"}, PlcTakes(f)
      PROVE  /\ run' = run /\ request[Me] # Nothing /\ request'[Me] = Nothing
             /\ PlcInv' \/ (run \in DownloadRuns /\ f \in AskedBy(run) /\ answer[Me] = Nothing)
  <2>1. /\ run' = run /\ run \in Waits \cup {"off"} /\ request[Me] # Nothing /\ request'[Me] = Nothing
        /\ run \in Waits => f \in AskedBy(run) /\ answer[Me] = Nothing
        /\ run = "off" => PlcInv'
    BY <1>1, <1>5, PlcTook
  <2>2. run \in Waits => run \in DownloadRuns
    BY <2>1 DEF Waits, AskedBy, DownloadRuns
  <2>3. QED
    BY <2>1, <2>2
<1>6. ASSUME PlcTakes("reqdownload"), NEW error, PlcSends([fun |-> "reqdownload", error |-> error]), plc'.got = <<>>
      PROVE  PlcInv'
  <2>1. "reqdownload" \in AskedBy(run) /\ run \in DownloadRuns => run = "reqdownload"
    BY DEF AskedBy, DownloadRuns
  <2>2. run = "reqdownload" => DownloadInv'
    BY <1>2, <1>3, <1>6 DEF DownloadInv
  <2>3. QED
    BY <1>4, <1>5, <1>6, <2>1, <2>2
<1>7. ASSUME run \in {"serve", "ended"}, UNCHANGED request, plc'.got = plc.got PROVE PlcInv'
  <2>1. DownloadInv'
    BY <1>2, <1>3, <1>7 DEF DownloadInv
  <2>2. QED
    BY <1>2, <1>4, <1>7, <2>1 DEF DownloadRuns
<1>8. ASSUME PlcTakes("downloaded"), plc'.got = plc.got \o request[Me].data
      PROVE  PlcInv'
  <2>1. "downloaded" \in AskedBy(run) /\ run \in DownloadRuns => run \in {"serve", "ended"}
    BY DEF AskedBy, DownloadRuns
  <2>2. ASSUME run \in {"serve", "ended"}, request[Me] # Nothing, request'[Me] = Nothing PROVE DownloadInv'
    <3>1. PICK pos \in Nat : \E n \in Nat : plc.got = FirstOnes(pos) /\ request[Me].data = SliceAt(pos, n) /\ pos + n = start
      BY <1>3, <2>2 DEF DownloadInv
    <3>2. PICK n \in Nat : plc.got = FirstOnes(pos) /\ request[Me].data = SliceAt(pos, n) /\ pos + n = start
      BY <3>1
    <3>3. Joined(SliceAt(0, pos), SliceAt(pos, n)) = SliceAt(0, start)
      BY <3>2, SliceOn
    <3>4. plc'.got = Joined(FirstOnes(pos), SliceAt(pos, n))
      BY <1>8, <3>2 DEF Joined
    <3>5. plc'.got = FirstOnes(start)
      BY <3>3, <3>4, SliceFacts
    <3>6. QED
      BY <1>2, <1>3, <2>2, <3>5 DEF DownloadInv
  <2>3. QED
    BY <1>4, <1>5, <1>8, <2>1, <2>2
<1>9. ASSUME PlcTakes("ended"), plc'.got = plc.got PROVE PlcInv'
  <2>1. "ended" \in AskedBy(run) /\ run \in DownloadRuns => run = "insert"
    BY DEF AskedBy, DownloadRuns
  <2>2. run = "insert" => DownloadInv'
    BY <1>2, <1>3, <1>9 DEF DownloadInv
  <2>3. QED
    BY <1>4, <1>5, <1>9, <2>1, <2>2
<1>10. \/ PlcTakes("reqdownload") /\ plc'.got = <<>> /\ \E error : PlcSends([fun |-> "reqdownload", error |-> error])
       \/ run \in {"serve", "ended"} /\ UNCHANGED request /\ plc'.got = plc.got
       \/ PlcTakes("downloaded") /\ plc'.got = plc.got \o request[Me].data
       \/ PlcTakes("ended") /\ plc'.got = plc.got
  BY DEF PlcDownloads, BlockIInv, PlcInv, PlcShape
<1>11. QED
  BY <1>6, <1>7, <1>8, <1>9, <1>10

\* Control requests leave the block alone, the one that inserts it too.
LEMMA PlcControlBlocks ==
  ASSUME BlockIInv, peer = "plc", UNCHANGED clientVars, PlcControl
  PROVE  PlcInv'
<1>1. PlcShape' /\ plc' = plc
  BY DEF BlockIInv, PlcInv, PlcShape, PlcControl
<1>2. CASE PlcTakes("stop")
  BY <1>1, <1>2, PlcOther
<1>3. CASE PlcTakes("start")
  <2>1. /\ run' = run /\ run \in Waits \cup {"off"}
        /\ run \in Waits => "start" \in AskedBy(run)
        /\ run = "off" => PlcInv'
    BY <1>1, <1>3, PlcTook
  <2>2. CASE run = "inserted"
    <3>1. DownloadInv' /\ UploadInv' /\ SZLInv' /\ run \notin NoJobRuns
      BY <1>1, <2>1, <2>2 DEF BlockIInv, PlcInv, DownloadInv, UploadInv, SZLInv, NoJobRuns, clientVars
    <3>2. QED
      BY <1>1, <3>1, PlcServes
  <2>3. CASE run \in Waits /\ run # "inserted"
    <3>1. run \in OtherRuns /\ run \notin NoJobRuns \cup UploadRuns \cup DownloadRuns \cup {"szl"}
      BY <2>1, <2>3 DEF OtherRuns, Waits, AskedBy, UploadRuns, DownloadRuns, NoJobRuns
    <3>2. result' = "pending" /\ job'.op \notin Moving
      BY <3>1 DEF BlockIInv, PlcInv, JobInHand, Moving, clientVars
    <3>3. QED
      BY <1>1, <2>1, <3>1, <3>2, OtherKeeps
  <2>4. QED
    BY <2>1, <2>2, <2>3
<1>4. QED
  BY <1>2, <1>3 DEF PlcControl

\* A list starts anew with a first request and goes on with the others.
LEMMA PlcSZLBlocks ==
  ASSUME BlockIInv, peer = "plc", UNCHANGED clientVars, PlcSZLSlices
  PROVE  PlcInv'
<1> DEFINE pos == IF request[Me].first THEN 0 ELSE plc.pos
<1>1. PlcShape' /\ PlcTakes("szl")
  BY DEF BlockIInv, PlcInv, PlcShape, PlcSZLSlices
<1>2. /\ run' = run /\ run \in Waits \cup {"off"} /\ request[Me] # Nothing
      /\ run \in Waits => "szl" \in AskedBy(run) /\ answer[Me] = Nothing
      /\ run = "off" => PlcInv'
  BY <1>1, PlcTook
<1>3. CASE run \in Waits
  <2>1. run = "szl" /\ answer[Me] = Nothing
    BY <1>2, <1>3 DEF Waits, AskedBy
  <2>2. pos \in Nat /\ opData = FirstOnes(pos)
    <3>1. /\ request[Me].first => opData = <<>>
          /\ ~request[Me].first => opData = FirstOnes(plc.pos) /\ plc.pos \in Nat
      BY <2>1 DEF BlockIInv, PlcInv, SZLInv
    <3>2. FirstOnes(0) = <<>>
      BY SliceFacts
    <3>3. QED
      BY <3>1, <3>2
  <2>3. opData' = opData
    BY DEF clientVars
  <2> HIDE DEF pos
  <2>4. SZLInv'
    <3>1. ASSUME NEW ret \in {"NotAvailable", "ok"}, PlcSends([fun |-> "szl", error |-> "refused", ret |-> ret])
          PROVE  SZLInv'
      <4> DEFINE a == [fun |-> "szl", error |-> "refused", ret |-> ret]
      <4>1. RefusedSZL(a) /\ a.fun # Nothing.fun
        BY DEF Nothing, RefusedSZL
      <4>2. PlcSends(a)
        BY <3>1
      <4> HIDE DEF a
      <4>3. answer'[Me] = a /\ a # Nothing
        BY <4>1, <4>2, MicroClientAssumption DEF PlcSends, BlockIInv, SessionInv, PduTypes
      <4>4. answer'[Me] # Nothing /\ RefusedSZL(answer[Me])'
        BY <4>1, <4>3
      <4>5. QED
        BY <4>4 DEF SZLInv
    <3>2. ASSUME NEW n \in Slices, pos + n <= PlcSZL, plc' = [plc EXCEPT !.pos = pos + n],
                 PlcSends([fun |-> "szl", error |-> "ok", ret |-> "ok", more |-> pos + n < PlcSZL,
                           data |-> [k \in 1..n |-> pos + k]])
          PROVE  SZLInv'
      <4> DEFINE a == [fun |-> "szl", error |-> "ok", ret |-> "ok", more |-> pos + n < PlcSZL,
                       data |-> [k \in 1..n |-> pos + k]]
      <4>1. /\ a.ret = "ok" /\ a.error = "ok" /\ (a.more <=> pos + n < PlcSZL) /\ a.data = SliceAt(pos, n)
            /\ a.fun # Nothing.fun
        BY DEF SliceAt, Nothing
      <4>2. PlcSends(a)
        BY <3>2
      <4> HIDE DEF a
      <4>3. answer'[Me] = a /\ a # Nothing
        BY <4>1, <4>2, MicroClientAssumption DEF PlcSends, BlockIInv, SessionInv, PduTypes
      <4>4. n \in Nat
        BY DEF Slices
      <4>5. plc'.pos = pos + n /\ plc'.pos <= PlcSZL
        BY <3>2 DEF BlockIInv, PlcInv, PlcShape
      <4>6. \E p \in Nat : \E m \in Nat :
              /\ opData' = FirstOnes(p) /\ answer'[Me].data = SliceAt(p, m)
              /\ plc'.pos = p + m /\ plc'.pos <= PlcSZL
        BY <2>2, <2>3, <4>1, <4>3, <4>4, <4>5
      <4>7. /\ answer'[Me] # Nothing /\ answer'[Me].ret = "ok" /\ answer'[Me].error = "ok"
            /\ answer'[Me].more <=> plc'.pos < PlcSZL
        BY <4>1, <4>3, <4>5
      <4>8. QED
        BY <4>6, <4>7 DEF SZLInv
    <3>3. ASSUME plc' = [plc EXCEPT !.phase = "empty", !.pos = pos],
                 NEW error, PlcSends([fun |-> "szl", error |-> error, ret |-> "zero"])
          PROVE  SZLInv'
      <4> DEFINE a == [fun |-> "szl", error |-> error, ret |-> "zero"]
      <4>1. a.ret = "zero" /\ a.fun # Nothing.fun
        BY DEF Nothing
      <4>2. PlcSends(a)
        BY <3>3
      <4> HIDE DEF a
      <4>3. answer'[Me] = a /\ a # Nothing
        BY <4>1, <4>2, MicroClientAssumption DEF PlcSends, BlockIInv, SessionInv, PduTypes
      <4>4. plc'.pos = pos
        BY <3>3 DEF BlockIInv, PlcInv, PlcShape
      <4>5. answer'[Me] # Nothing /\ answer'[Me].ret = "zero" /\ opData' = FirstOnes(plc'.pos) /\ plc'.pos \in Nat
        BY <2>2, <2>3, <4>1, <4>3, <4>4
      <4>6. QED
        BY <4>5 DEF SZLInv
    <3>4. QED
      BY <3>1, <3>2, <3>3 DEF PlcSZLSlices, pos
  <2>5. UploadInv' /\ DownloadInv' /\ run \notin NoJobRuns
    BY <1>2, <2>1 DEF UploadInv, DownloadInv, NoJobRuns
  <2>6. QED
    BY <1>1, <2>4, <2>5, PlcServes
<1>4. QED
  BY <1>2, <1>3

\* Every step of the PLC keeps what it and the client have of a block.
LEMMA PlcBlocks ==
  ASSUME BlockIInv, peer = "plc", UNCHANGED clientVars, PlcStep
  PROVE  PlcInv'
<1>1. CASE PlcRefuses
  <2>1. plc' = plc /\ \E f \in {"password", "getclock", "setclock", "listall", "blkinfo", "read", "write"} : PlcTakes(f)
    BY <1>1 DEF PlcRefuses
  <2>2. QED
    BY <2>1, PlcOther
<1>2. QED
  BY <1>1, PlcConnectsBlocks, PlcUploadsBlocks, PlcDownloadsBlocks, PlcControlBlocks, PlcSZLBlocks DEF PlcStep

-----------------------------------------------------------------------------
\* Nobody else has a part in it.
LEMMA OthersBlocks ==
  ASSUME BlockIInv, peer = "plc", UNCHANGED <<clientVars, plc>>, request'[Me] = request[Me], answer'[Me] = answer[Me]
  PROVE  PlcInv'
BY DEF BlockIInv, PlcInv, PlcShape, JobInHand, UploadInv, DownloadInv, SZLInv, AfterJob, Moved, Came, Loaded, clientVars, loopVars

\* A worker has the PDUs of its own connection only.
LEMMA OthersConnection ==
  ASSUME SessionInv, NEW c \in Conns \ {Me}, WorkerStep(c)
  PROVE  request'[Me] = request[Me] /\ answer'[Me] = answer[Me]
<1>0. /\ DOMAIN request = Conns /\ DOMAIN answer = Conns /\ Me \in Conns
  BY MicroClientAssumption DEF SessionInv, PduTypes
<1> SUFFICES /\ request' = request \/ request' = [request EXCEPT ![c] = Nothing]
             /\ answer' = answer \/ \E a : answer' = [answer EXCEPT ![c] = a]
  <2>1. request' = [request EXCEPT ![c] = Nothing] => request'[Me] = request[Me]
    BY <1>0
  <2>2. ASSUME NEW a, answer' = [answer EXCEPT ![c] = a] PROVE answer'[Me] = answer[Me]
    BY <1>0, <2>2
  <2>3. QED
    BY <2>1, <2>2
<1>1. CASE ExecuteRecv(c) \/ IsoPerformCommand(c) \/ PerformGroupProgrammer(c)
           \/ PerformFunctionNegotiate(c) \/ PerformFunctionControl(c) \/ SetCpuStatus(c)
  BY <1>1 DEF ExecuteRecv, IsoPerformCommand, PerformGroupProgrammer, PerformFunctionNegotiate,
              PerformFunctionControl, SetCpuStatus, Takes, Send, pduVars
<1>2. CASE PerformFunctionUpload(c) \/ PerformFunctionDownload(c) \/ PerformGroupSecurity(c)
           \/ PerformGetClock(c) \/ PerformSetClock(c) \/ PerformGroupSZL(c)
  BY <1>2 DEF PerformFunctionUpload, PerformFunctionDownload, PerformGroupSecurity, PerformGetClock,
              PerformSetClock, PerformGroupSZL, Takes, Send
<1>3. CASE BLK_ListAll(c) \/ BLK_GetBlkInfo(c)
  BY <1>3 DEF BLK_ListAll, BLK_GetBlkInfo, Takes, Send
<1>4. CASE BLK_ListBoT(c)
  BY <1>4 DEF BLK_ListBoT, Takes, Send
<1>5. CASE PerformFunctionRead(c) \/ PerformFunctionWrite(c)
  BY <1>5 DEF PerformFunctionRead, PerformFunctionWrite, Serving, Takes
<1>6. CASE ReadAreaFind(c) \/ WriteAreaFind(c)
  BY <1>6 DEF ReadAreaFind, WriteAreaFind, ItemDone, Send, pduVars
<1>7. CASE ReadAreaCopy(c) \/ WriteAreaCopy(c)
  BY <1>7 DEF ReadAreaCopy, WriteAreaCopy, ItemDone, Send, pduVars
<1>8. CASE WriteBitLoad(c) \/ WriteBitStore(c)
  BY <1>8 DEF WriteBitLoad, WriteBitStore, ItemDone, Send, pduVars
<1>9. QED
  BY <1>1, <1>2, <1>3, <1>4, <1>5, <1>6, <1>7, <1>8 DEF WorkerStep

\* At the start nothing is under way.
LEMMA InitBlocks == Init => BlockIInv
<1> SUFFICES ASSUME Init PROVE PlcInv
  BY InitSession DEF BlockIInv
<1>1. run = "off" /\ result = "none" /\ request[Me] = Nothing /\ answer[Me] = Nothing
  BY MicroClientAssumption DEF Init, InitClient
<1>2. PlcShape
  BY DEF Init, PlcShape
<1>3. QED
  BY <1>1, <1>2 DEF PlcInv, JobInHand, UploadInv, DownloadInv, SZLInv, AfterJob,
                    NoJobRuns, UploadRuns, DownloadRuns

\* Every step keeps it: the client's and the PLC's by the lemmas above, and no
\* other touches the client's connection.
LEMMA NextBlocks == BlockIInv /\ [Next]_vars => BlockIInv'
<1> SUFFICES ASSUME BlockIInv, [Next]_vars PROVE BlockIInv'
  OBVIOUS
<1>1. SessionInv'
  BY NextSession DEF BlockIInv
<1>2. peer' = peer
  BY DEF Next, Connect, Perform, Fails, Serve, Application, StationAsks, Plc, vars
<1>3. CASE peer # "plc"
  BY <1>1, <1>2, <1>3 DEF BlockIInv, PlcInv
<1>4. ASSUME peer = "plc" PROVE PlcInv'
  <2>1. CASE Connect \/ Fails
    <3>1. plc' = plc /\ (PeerConnect \/ ExchangeFails)
      BY <2>1 DEF Connect, Fails, plcVars
    <3>2. QED
      BY <1>4, <3>1, ConnectionBlocks
  <2>2. CASE Perform
    <3>1. plc' = plc /\ (Submit \/ ClientStep \/ PeerDisconnect)
      BY <2>2 DEF Perform, plcVars
    <3>2. QED
      BY <1>4, <3>1, ClientBlocks
  <2>3. ASSUME NEW c \in Conns, Serve(c) PROVE PlcInv'
    <3>1. c \in Conns \ {Me} /\ WorkerStep(c) /\ UNCHANGED <<clientVars, plc>>
      BY <1>4, <2>3 DEF Serve, plcVars
    <3>2. request'[Me] = request[Me] /\ answer'[Me] = answer[Me]
      BY <3>1, OthersConnection DEF BlockIInv
    <3>3. QED
      BY <1>4, <3>1, <3>2, OthersBlocks
  <2>4. CASE Application
    <3>1. UNCHANGED pduVars /\ UNCHANGED <<clientVars, plc>>
      BY <2>4, ApplicationPdu DEF Application, plcVars
    <3>2. QED
      BY <1>4, <3>1, OthersBlocks DEF pduVars
  <2>5. CASE StationAsks
    BY <1>4, <2>5 DEF StationAsks
  <2>6. CASE Plc
    <3>1. UNCHANGED clientVars /\ PlcStep
      BY <2>6 DEF Plc
    <3>2. QED
      BY <1>4, <3>1, PlcBlocks
  <2>7. CASE UNCHANGED vars
    <3>1. UNCHANGED <<clientVars, plc>> /\ UNCHANGED <<request, answer>>
      BY <2>7 DEF vars, plcVars, pduVars
    <3>2. QED
      BY <1>4, <3>1, OthersBlocks
  <2>8. QED
    BY <2>1, <2>2, <2>3, <2>4, <2>5, <2>6, <2>7 DEF Next
<1>5. QED
  BY <1>1, <1>3, <1>4 DEF BlockIInv

\* What the job that has ended moved, as the property says it.
LEMMA BlockStrong == BlockIInv => BlockWhole
<1> SUFFICES ASSUME BlockIInv, Ended, peer = "plc", result = "ok" PROVE BlockWhole
  BY DEF BlockWhole
<1>1. run \in NoJobRuns
  BY DEF Ended, NoJobRuns
<1>2. Moved
  BY <1>1 DEF BlockIInv, PlcInv, AfterJob
<1>3. QED
  BY <1>2 DEF BlockWhole, Moved, FirstOnes, SliceAt

\* Every upload, download and list that the client reports good is all of what
\* the peer has: after a good upload the caller has the whole block, or of it the
\* MC7 code, after a good download the PLC has every byte, and a directory read
\* in slices has them all, for every length of a block, a slice and a list.
THEOREM BlockWholeHolds == Spec => []BlockWhole
<1>1. Init => BlockIInv
  BY InitBlocks
<1>2. BlockIInv /\ [Next]_vars => BlockIInv'
  BY NextBlocks
<1>3. BlockIInv => BlockWhole
  BY BlockStrong
<1>4. QED
  BY <1>1, <1>2, <1>3, PTL DEF Spec

-----------------------------------------------------------------------------
(* The PDU length client and server agree on.                              *)

Unconnected == {"off", "connect", "negotiate"}

\* The client goes on with the length its worker has, which the answer tells.
LengthAgreed ==
  /\ run \notin Unconnected => PDULength = FPDULength[Me]
  /\ run = "negotiate" /\ answer[Me] # Nothing =>
       answer[Me].error = "ok" /\ answer[Me].whole /\ answer[Me].length = FPDULength[Me]

RequestFits ==
  run \notin Unconnected /\ request[Me].fun \in {"read", "write"} => RequestSize(request[Me]) <= PDULength

\* A slice is one item, and what it asks for fits the answer.
OneFits(items) == Len(items) = 1 /\ SizeOfItem(items[1]) <= PDULength - ReadHead

SliceFits ==
  run = "read" =>
    /\ request[Me] # Nothing => OneFits(request[Me].items)
    /\ InRequest(Me) => OneFits(worker[Me].items)
    /\ answer[Me] # Nothing => ReadHead + Len(answer[Me].items[1].data) <= PDULength

Fits == LengthAgreed /\ RequestFits /\ SliceFits

\* Inductive; PduFits follows.
FitIInv == SessionInv /\ (peer = "server" => Fits)

\* The data of a request to write has a size.
LEMMA DataSizeNat ==
  ASSUME NEW n \in Nat, NEW sizes, DOMAIN sizes = 1..n, Len(sizes) = n, \A k \in 1..n : sizes[k] \in Nat
  PROVE  DataSize(sizes) \in Nat
<1> DEFINE bytes == [k \in 1..n |-> {k} \X (1..DataHead + Filled(sizes, k))]
           S == {bytes[k] : k \in 1..n}
<1>1. IsFiniteSet(S)
  <2>1. IsFiniteSet(1..n)
    BY FS_Interval
  <2>2. bytes \in Surjection(1..n, S)
    BY DEF Surjection
  <2>3. QED
    BY <2>1, <2>2, FS_Surjection
<1>2. ASSUME NEW k \in 1..n PROVE IsFiniteSet(bytes[k])
  <2>1. sizes[k] \in Nat
    BY <1>2
  <2>2. sizes[k] % 2 \in Nat
    BY <2>1
  <2>3. Filled(sizes, k) \in Nat
    BY <2>1, <2>2 DEF Filled, Even
  <2> DEFINE top == DataHead + Filled(sizes, k)
  <2>4. top \in Int
    BY <2>3, S7PduAssumption
  <2> HIDE DEF top
  <2>5. IsFiniteSet(1..top)
    BY <2>4, FS_Interval
  <2>6. IsFiniteSet({k})
    BY FS_Singleton
  <2>7. QED
    BY <2>5, <2>6, FS_Product DEF top
<1>3. IsFiniteSet(UNION S)
  BY <1>1, <1>2, FS_UNION
<1>4. DataBytes(sizes) = UNION S
  BY DEF DataBytes
<1>5. QED
  BY <1>3, <1>4, FS_CardinalityType DEF DataSize

\* A slice of opWriteArea is as long as its headers and its data.
LEMMA OneWritten ==
  ASSUME NEW it, NEW n \in Nat, Len(it.data) = n
  PROVE  RequestSize([fun |-> "write", items |-> <<it>>]) = WriteHead + n
<1> DEFINE items == <<it>>
           sizes == [k \in DOMAIN items |-> Len(items[k].data)]
<1>1. DOMAIN items = 1..1 /\ Len(items) = 1 /\ items[1] = it
  OBVIOUS
<1>2. sizes = [k \in 1..1 |-> sizes[k]] /\ sizes[1] = n /\ DOMAIN sizes = {1}
  BY <1>1
<1> HIDE DEF sizes, items
<1>3. Len(sizes) = 1
  BY <1>2, SeqFunction
<1>4. DataBytes(sizes) = {1} \X (1..DataHead + n)
  BY <1>2, <1>3 DEF DataBytes, Filled
<1>5. DataSize(sizes) = DataHead + n
  <2>1. DataHead + n \in Nat
    BY S7PduAssumption
  <2>2. IsFiniteSet({1}) /\ Cardinality({1}) = 1
    BY FS_Singleton
  <2> DEFINE top == DataHead + n
             part == 1..top
  <2>3. top \in Nat
    BY <2>1
  <2> HIDE DEF top
  <2>4. IsFiniteSet(part) /\ Cardinality(part) = top
    BY <2>3, FS_Interval
  <2> HIDE DEF part
  <2>5. Cardinality({1} \X part) = 1 * top
    BY <2>2, <2>4, FS_Product
  <2>6. QED
    BY <1>4, <2>3, <2>5 DEF DataSize, part, top
<1>6. RequestSize([fun |-> "write", items |-> items]) = ReqHead + ItemHead + DataSize(sizes)
  <2> DEFINE r == [fun |-> "write", items |-> items]
  <2>1. r.fun # "read" /\ r.items = items
    OBVIOUS
  <2> HIDE DEF r
  <2>2. RequestSize(r) = ReqHead + Len(items) * ItemHead + DataSize([k \in DOMAIN r.items |-> Len(r.items[k].data)])
    BY <2>1 DEF RequestSize
  <2>3. [k \in DOMAIN r.items |-> Len(r.items[k].data)] = sizes
    BY <2>1 DEF sizes
  <2>4. QED
    BY <1>1, <2>2, <2>3, S7PduAssumption DEF r
<1>7. QED
  BY <1>5, <1>6, S7PduAssumption DEF items, WriteHead

\* A slice of opReadArea is as long as its headers.
LEMMA OneRead ==
  ASSUME NEW r, r.fun = "read", Len(r.items) = 1
  PROVE  RequestSize(r) = ReqHead + ItemHead
BY S7PduAssumption DEF RequestSize

\* A slice has room for its elements.
LEMMA RoomBytes ==
  ASSUME NEW n \in Nat, NEW room \in Nat, NEW d \in {1, 2, 4}, room = n \div d, NEW m \in Nat
  PROVE  NumElements(m, room) * d <= n /\ NumElements(m, room) \in Nat
<1>1. NumElements(m, room) \in Nat
  BY SliceElements
<1>2. NumElements(m, room) <= room
  <2>1. m % WordMod \in Nat
    BY MicroClientAssumption
  <2>2. QED
    BY <2>1 DEF NumElements, Least
<1>3. room * d <= n
  <2>1. CASE d = 1
    BY <2>1
  <2>2. CASE d = 2
    BY <2>2
  <2>3. CASE d = 4
    BY <2>3
  <2>4. QED
    BY <2>1, <2>2, <2>3
<1> DEFINE k == NumElements(m, room)
<1> HIDE DEF k
<1>4. k * d <= room * d
  <2>1. k \in Nat /\ k <= room
    BY <1>1, <1>2 DEF k
  <2>2. CASE d = 1
    BY <2>1, <2>2
  <2>3. CASE d = 2
    BY <2>1, <2>3
  <2>4. CASE d = 4
    BY <2>1, <2>4
  <2>5. QED
    BY <2>2, <2>3, <2>4
<1>5. k * d \in Int /\ room * d \in Int
  BY <1>1 DEF k
<1>6. QED
  BY <1>1, <1>3, <1>4, <1>5 DEF k

\* A slice that was asked for fits, and so will its answer.
LEMMA ReadSliceFits ==
  ASSUME SessionInv, UNCHANGED serverVars, UNCHANGED PDULength, run \notin Unconnected, LengthAgreed, ~InRequest(Me),
         NEW j, NEW at, NEW n \in Nat, ReadSlice(j, at, n), DataSizeByte(j.wl) # 0
  PROVE  Fits'
<1> DEFINE m == NumElements(n, RoomToRead(j))
           it == Reference(j, at, m)
           items == <<it>>
           r == [fun |-> "read", items |-> items]
<1>1. run' = "read" /\ request' = [request EXCEPT ![Me] = r] /\ answer' = [answer EXCEPT ![Me] = Nothing]
  BY DEF ReadSlice, Ask
<1>2. Me \in Conns /\ DOMAIN request = Conns /\ DOMAIN answer = Conns
  BY MicroClientAssumption DEF SessionInv, PduTypes
<1>3. request'[Me] = r /\ answer'[Me] = Nothing
  BY <1>1, <1>2
<1>4. FPDULength' = FPDULength /\ worker' = worker
  BY DEF serverVars, workerVars
<1>5. PDULength - ReadHead \in Nat /\ PDULength >= WriteHead /\ PDULength \in Nat
  BY SessionConstants DEF SessionInv, ClientTypes, Unconnected
<1>6. it.wl = j.wl /\ it.length = m
  BY DEF Reference
<1>7. items[1] = it /\ Len(items) = 1 /\ r.items = items /\ r.fun = "read"
  OBVIOUS
<1> HIDE DEF it
<1>8. SizeOfItem(it) <= PDULength - ReadHead
  <2> DEFINE d == DataSizeByte(j.wl)
             room == (PDULength - ReadHead) \div d
             top == PDULength - ReadHead
  <2>1. d \in {1, 2, 4} /\ top \in Nat
    BY <1>5, ElementBytes
  <2>2. room \in Nat
    BY <2>1
  <2> HIDE DEF d, top
  <2>3. NumElements(n, room) * d <= top /\ NumElements(n, room) \in Nat
    <3>1. room = top \div d
      BY DEF top
    <3> HIDE DEF room
    <3>2. QED
      BY <2>1, <2>2, <3>1, RoomBytes
  <2>4. m = NumElements(n, room)
    BY DEF RoomToRead, d
  <2> HIDE DEF room, m
  <2>5. SizeOfItem(it) = d * m
    BY <1>6 DEF SizeOfItem, d
  <2>6. d * m = m * d
    BY <2>1, <2>3, <2>4
  <2>7. QED
    BY <2>3, <2>4, <2>5, <2>6 DEF top
<1>9. RequestSize(r) <= PDULength
  <2> HIDE DEF items, r
  <2>1. r.fun = "read" /\ Len(r.items) = 1
    BY <1>7
  <2>2. RequestSize(r) = ReqHead + ItemHead
    BY <2>1, OneRead
  <2>3. QED
    BY <1>5, <2>1, <2>2, S7PduAssumption DEF WriteHead
<1> HIDE DEF r, items
<1>10. Nothing.fun = "none" /\ ~InRequest(Me)'
  BY <1>4 DEF Nothing, InRequest
<1>11. LengthAgreed' /\ RequestFits'
  BY <1>1, <1>3, <1>4, <1>9 DEF LengthAgreed, RequestFits
<1>12. SliceFits'
  <2>1. request'[Me].items = items /\ PDULength' = PDULength
    BY <1>3, <1>7
  <2>2. Len(request'[Me].items) = 1 /\ SizeOfItem(request'[Me].items[1]) <= PDULength' - ReadHead
    BY <1>7, <1>8, <2>1
  <2>3. QED
    BY <1>3, <1>10, <2>2 DEF SliceFits, OneFits
<1>13. QED
  BY <1>11, <1>12 DEF Fits

\* A slice that is written fits.
LEMMA WriteSliceFits ==
  ASSUME SessionInv, UNCHANGED serverVars, UNCHANGED PDULength, run \notin Unconnected, LengthAgreed,
         NEW j, NEW id, NEW at, NEW n \in Nat, WriteSlice(j, id, at, n), DataSizeByte(j.wl) # 0
  PROVE  Fits'
<1> DEFINE m == NumElements(n, RoomToWrite(j))
           k == at - j.start
           it == Data(j, id, k, m)
           r == [fun |-> "write", items |-> <<it>>]
           bytes == m * DataSizeByte(j.wl)
<1>1. run' = "write" /\ request' = [request EXCEPT ![Me] = r]
  BY DEF WriteSlice, Ask
<1>2. request'[Me] = r
  BY <1>1, MicroClientAssumption DEF SessionInv, PduTypes
<1>3. FPDULength' = FPDULength
  BY DEF serverVars, workerVars
<1>4. PDULength - WriteHead \in Nat /\ PDULength \in Nat
  BY SessionConstants DEF SessionInv, ClientTypes, Unconnected
<1>5. bytes <= PDULength - WriteHead /\ bytes \in Nat
  <2> DEFINE d == DataSizeByte(j.wl)
             room == (PDULength - WriteHead) \div d
             top == PDULength - WriteHead
  <2>1. d \in {1, 2, 4} /\ top \in Nat
    BY <1>4, ElementBytes
  <2>2. room \in Nat
    BY <2>1
  <2>3. m = NumElements(n, room)
    BY DEF RoomToWrite
  <2> HIDE DEF d, top
  <2>4. NumElements(n, room) * d <= top /\ NumElements(n, room) \in Nat
    <3>1. room = top \div d
      BY DEF top
    <3> HIDE DEF room
    <3>2. QED
      BY <2>1, <2>2, <3>1, RoomBytes
  <2> HIDE DEF room, m
  <2>5. bytes = m * d
    BY DEF d
  <2>6. QED
    BY <2>1, <2>3, <2>4, <2>5 DEF top
<1> HIDE DEF m, k
<1>6. Len(it.data) = bytes
  <2> DEFINE data == Buffer(j, id, k, bytes)
  <2>1. it.data = data
    BY DEF Data, Reference
  <2>2. data = [i \in 1..bytes |-> data[i]]
    BY DEF Buffer
  <2> HIDE DEF data, it, bytes
  <2>3. QED
    BY <1>5, <2>1, <2>2, SeqFunction
<1> HIDE DEF it, bytes
<1>7. RequestSize(r) <= PDULength
  <2>1. RequestSize(r) = WriteHead + bytes
    BY <1>5, <1>6, OneWritten
  <2>2. QED
    BY <1>4, <1>5, <2>1, SessionConstants
<1> HIDE DEF r
<1>8. QED
  BY <1>1, <1>2, <1>3, <1>7 DEF Fits, LengthAgreed, RequestFits, SliceFits

\* Several items are asked for or written if the request fits: opReadMultiVars and
\* opWriteMultiVars compute the size it really has.
LEMMA ItemsFit ==
  ASSUME SessionInv, UNCHANGED serverVars, UNCHANGED PDULength, run \notin Unconnected, LengthAgreed, RequestFits,
         NEW j, NEW f \in {"readmulti", "writemulti"}, NEW r, AskItems(j, f, r),
         RequestSize(r) = MultiSize(AdjustedItems(j), f = "writemulti"), RequestSize(r) \in Int
  PROVE  Fits'
<1> DEFINE long == MultiSize(AdjustedItems(j), f = "writemulti")
<1>1. Me \in Conns /\ DOMAIN request = Conns /\ DOMAIN answer = Conns
  BY MicroClientAssumption DEF SessionInv, PduTypes
<1>2. FPDULength' = FPDULength
  BY DEF serverVars, workerVars
<1>3. PDULength \in Int
  BY SessionConstants DEF SessionInv, ClientTypes
<1>4. \/ Ask(f, r) /\ ~(long > PDULength)
      \/ \E res : Returns(res)
  BY DEF AskItems
<1> HIDE DEF long
<1>5. CASE Ask(f, r) /\ ~(long > PDULength)
  <2>1. run' = f /\ request'[Me] = r
    BY <1>1, <1>5 DEF Ask
  <2>2. RequestSize(r) <= PDULength
    BY <1>3, <1>5 DEF long
  <2>3. QED
    BY <1>2, <2>1, <2>2 DEF Fits, LengthAgreed, RequestFits, SliceFits
<1>6. CASE \E res : Returns(res)
  <2>1. run' = "idle" /\ request' = request
    BY <1>6 DEF Returns
  <2>2. QED
    BY <1>2, <2>1 DEF Fits, LengthAgreed, RequestFits, SliceFits
<1>7. QED
  BY <1>4, <1>5, <1>6

\* opReadMultiVars: every item has a reference in the request.
LEMMA ReadMultiFits ==
  ASSUME SessionInv, UNCHANGED serverVars, run \notin Unconnected => Fits, opReadMultiVars
  PROVE  Fits'
<1> DEFINE R(j, k) == LET it == Adjusted(j.items[k]) IN Reference(it, it.start, it.amount)
<1>1. PICK j \in Jobs : /\ Begins(j, {"readmulti"})
                        /\ AskItems(j, "readmulti", [fun |-> "read", items |-> [k \in DOMAIN j.items |-> R(j, k)]])
  BY DEF opReadMultiVars, ReadItem
<1> DEFINE items == [k \in DOMAIN j.items |-> R(j, k)]
           n == Len(j.items)
           r == [fun |-> "read", items |-> items]
           adjusted == AdjustedItems(j)
<1>2. j.op = "readmulti" /\ IsJob(j) /\ run = "idle" /\ PDULength' = PDULength
  BY <1>1, JobBegins
<1>3. n \in Nat \ {0} /\ DOMAIN j.items = 1..n
  BY <1>2, Parts
<1>4. items = [k \in 1..n |-> items[k]] /\ adjusted = [k \in 1..n |-> adjusted[k]]
  BY <1>3 DEF AdjustedItems
<1>5. r.fun = "read" /\ r.items = items /\ AskItems(j, "readmulti", r)
  BY <1>1
<1> HIDE DEF items, n, adjusted, r
<1>6. Len(items) = n /\ Len(adjusted) = n
  BY <1>3, <1>4, SeqFunction
<1>7. n * ItemHead \in Int
  BY <1>3, S7PduAssumption
<1>8. RequestSize(r) = ReqHead + n * ItemHead
  BY <1>5, <1>6, <1>7, S7PduAssumption DEF RequestSize
<1>9. MultiSize(adjusted, FALSE) = ReqHead + n * ItemHead
  BY <1>6, <1>7, S7PduAssumption DEF MultiSize
<1>10. RequestSize(r) \in Int
  BY <1>7, <1>8, S7PduAssumption
<1>11. LengthAgreed /\ RequestFits /\ run \notin Unconnected
  BY <1>2 DEF Fits, Unconnected
<1>12. RequestSize(r) = MultiSize(AdjustedItems(j), "readmulti" = "writemulti")
  BY <1>8, <1>9 DEF adjusted
<1>13. QED
  BY <1>2, <1>5, <1>10, <1>11, <1>12, ItemsFit

\* Data to write is as long as its item says, so that the size opWriteMultiVars
\* computes is the size of the request.
LEMMA WriteMultiFits ==
  ASSUME SessionInv, UNCHANGED serverVars, run \notin Unconnected => Fits, opWriteMultiVars
  PROVE  Fits'
<1>1. PICK j \in Jobs : /\ Begins(j, {"writemulti"})
                        /\ AskItems(j, "writemulti", [fun |-> "write", items |-> [k \in DOMAIN j.items |->
                             Data(Adjusted(j.items[k]), jobs + 1, 0, Adjusted(j.items[k]).amount)]])
  BY DEF opWriteMultiVars, WriteItem
<1> DEFINE items == [k \in DOMAIN j.items |-> Data(Adjusted(j.items[k]), jobs + 1, 0, Adjusted(j.items[k]).amount)]
           n == Len(j.items)
           r == [fun |-> "write", items |-> items]
           adjusted == AdjustedItems(j)
           sizes == [k \in 1..n |-> adjusted[k].amount * DataSizeByte(adjusted[k].wl)]
<1>2. j.op = "writemulti" /\ IsJob(j) /\ run = "idle" /\ PDULength' = PDULength
  BY <1>1, JobBegins
<1>3. n \in Nat \ {0} /\ DOMAIN j.items = 1..n
      /\ \A k \in 1..n : Adjusted(j.items[k]).amount \in Nat
  BY <1>2, Parts
<1>4. /\ items = [k \in 1..n |-> items[k]] /\ DOMAIN items = 1..n
      /\ adjusted = [k \in 1..n |-> adjusted[k]] /\ DOMAIN adjusted = 1..n
      /\ \A k \in 1..n : /\ adjusted[k] = Adjusted(j.items[k])
                         /\ items[k] = Data(adjusted[k], jobs + 1, 0, adjusted[k].amount)
  BY <1>3 DEF AdjustedItems
<1>5. r.fun = "write" /\ r.items = items /\ AskItems(j, "writemulti", r)
  BY <1>1
<1> HIDE DEF items, n, adjusted, r
<1>6. Len(items) = n /\ Len(adjusted) = n
  BY <1>3, <1>4, SeqFunction
<1>7. \A k \in 1..n : adjusted[k].amount * DataSizeByte(adjusted[k].wl) \in Nat
  BY <1>3, <1>4, ElementBytes
<1>8. \A k \in 1..n : Len(items[k].data) = adjusted[k].amount * DataSizeByte(adjusted[k].wl)
  <2> SUFFICES ASSUME NEW k \in 1..n PROVE Len(items[k].data) = adjusted[k].amount * DataSizeByte(adjusted[k].wl)
    OBVIOUS
  <2> DEFINE it == adjusted[k]
             bytes == it.amount * DataSizeByte(it.wl)
             data == Buffer(it, jobs + 1, 0, bytes)
  <2>1. items[k].data = data
    BY <1>4 DEF Data, Reference
  <2>2. data = [i \in 1..bytes |-> data[i]]
    BY DEF Buffer
  <2>3. bytes \in Nat
    BY <1>7
  <2> HIDE DEF data, bytes
  <2>4. Len(data) = bytes
    BY <2>2, <2>3, SeqFunction
  <2>5. QED
    BY <2>1, <2>4 DEF bytes, it
<1>9. [k \in DOMAIN r.items |-> Len(r.items[k].data)] = sizes
  BY <1>4, <1>5, <1>8
<1>10. [k \in DOMAIN adjusted |-> adjusted[k].amount * DataSizeByte(adjusted[k].wl)] = sizes
  BY <1>4
<1>11. sizes = [k \in 1..n |-> sizes[k]] /\ \A k \in 1..n : sizes[k] \in Nat
  BY <1>7
<1> HIDE DEF sizes
<1>12. DataSize(sizes) \in Nat
  <2>1. Len(sizes) = n /\ DOMAIN sizes = 1..n
    BY <1>3, <1>11, SeqFunction
  <2>2. QED
    BY <1>3, <1>11, <2>1, DataSizeNat
<1>13. RequestSize(r) = ReqHead + n * ItemHead + DataSize(sizes)
  BY <1>5, <1>6, <1>9 DEF RequestSize
<1>14. MultiSize(adjusted, TRUE) = ReqHead + n * ItemHead + DataSize(sizes)
  BY <1>6, <1>10 DEF MultiSize
<1>15. RequestSize(r) \in Int
  <2>1. n * ItemHead \in Int
    BY <1>3, S7PduAssumption
  <2>2. QED
    BY <1>12, <1>13, <2>1, S7PduAssumption
<1>16. LengthAgreed /\ RequestFits /\ run \notin Unconnected
  BY <1>2 DEF Fits, Unconnected
<1>17. RequestSize(r) = MultiSize(AdjustedItems(j), "writemulti" = "writemulti")
  BY <1>13, <1>14 DEF adjusted
<1>18. QED
  BY <1>2, <1>5, <1>15, <1>16, <1>17, ItemsFit

\* Steps after which nothing is read or written keep to the length.
LEMMA QuietFits ==
  ASSUME Fits, UNCHANGED serverVars, run' # "read", run' = "negotiate" => answer'[Me] = Nothing,
         run' \notin Unconnected =>
           run \notin Unconnected /\ PDULength' = PDULength /\ request'[Me].fun \notin {"read", "write"}
  PROVE  Fits'
<1>1. FPDULength' = FPDULength
  BY DEF serverVars, workerVars
<1>2. LengthAgreed'
  BY <1>1 DEF Fits, LengthAgreed
<1>3. RequestFits' /\ SliceFits'
  BY DEF RequestFits, SliceFits
<1>4. QED
  BY <1>2, <1>3 DEF Fits

\* A client that asks for something else than a read or write keeps to it.
LEMMA AskFits ==
  ASSUME SessionInv, Fits, UNCHANGED serverVars, run \notin Unconnected, PDULength' = PDULength,
         NEW f, f \notin {"read", "negotiate"}, NEW r, Ask(f, r), r.fun \notin {"read", "write"}
  PROVE  Fits'
<1>1. run' = f /\ request'[Me] = r
  BY MicroClientAssumption DEF Ask, SessionInv, PduTypes
<1>2. QED
  BY <1>1, QuietFits

\* A client that returns keeps to it.
LEMMA ReturnFits ==
  ASSUME Fits, UNCHANGED serverVars, run \notin Unconnected, PDULength' = PDULength,
         request[Me] = Nothing, \E res : Returns(res)
  PROVE  Fits'
<1>1. run' = "idle" /\ request'[Me] = Nothing
  BY DEF Returns
<1>2. Nothing.fun = "none"
  BY DEF Nothing
<1>3. QED
  BY <1>1, <1>2, QuietFits

\* Both, for the steps that ask without items.
LEMMA GoesFits ==
  ASSUME SessionInv, Fits, UNCHANGED serverVars, run \notin Unconnected, PDULength' = PDULength,
         request[Me] = Nothing, Goes
  PROVE  Fits'
<1>1. ASSUME NEW f \in Plain, NEW r, Ask(f, r), r.fun \in AskedBy(f) \ {"read", "write", "negotiate"}
      PROVE  Fits'
  <2>1. f \notin {"read", "negotiate"} /\ r.fun \notin {"read", "write"}
    BY <1>1 DEF Plain
  <2>2. QED
    BY <1>1, <2>1, AskFits
<1>2. CASE \E res : Returns(res)
  BY <1>2, ReturnFits
<1>3. QED
  BY <1>1, <1>2 DEF Goes

\* opReadArea: its first slice.
LEMMA ReadAreaFits ==
  ASSUME SessionInv, Fits, UNCHANGED serverVars, opReadArea
  PROVE  Fits'
<1>1. PICK j \in Jobs : /\ Begins(j, {"read"})
                        /\ IF BadParams(j) = "ok"
                             THEN ReadSlice(j, j.start, j.amount)
                             ELSE Returns(BadParams(j))
  BY DEF opReadArea
<1>2. /\ run = "idle" /\ request[Me] = Nothing /\ ~InRequest(Me) /\ j.op = "read" /\ IsJob(j) /\ PDULength' = PDULength
  BY <1>1, JobBegins
<1>3. run \notin Unconnected /\ LengthAgreed
  BY <1>2 DEF Unconnected, Fits
<1>4. j.start \in Int /\ j.amount \in Int
  BY <1>2 DEF IsJob
<1>5. CASE BadParams(j) = "ok"
  BY <1>1, <1>2, <1>3, <1>4, <1>5, GoodParams, ReadSliceFits
<1>6. CASE BadParams(j) # "ok"
  BY <1>1, <1>2, <1>3, <1>6, ReturnFits
<1>7. QED
  BY <1>5, <1>6

\* opWriteArea: its first slice.
LEMMA WriteAreaFits ==
  ASSUME SessionInv, Fits, UNCHANGED serverVars, opWriteArea
  PROVE  Fits'
<1>1. PICK j \in Jobs : /\ Begins(j, {"write"})
                        /\ IF BadParams(j) = "ok"
                             THEN WriteSlice(j, jobs + 1, j.start, j.amount)
                             ELSE Returns(BadParams(j))
  BY DEF opWriteArea
<1>2. /\ run = "idle" /\ request[Me] = Nothing /\ j.op = "write" /\ IsJob(j) /\ PDULength' = PDULength
  BY <1>1, JobBegins
<1>3. run \notin Unconnected /\ LengthAgreed
  BY <1>2 DEF Unconnected, Fits
<1>4. j.start \in Int /\ j.amount \in Int
  BY <1>2 DEF IsJob
<1>5. CASE BadParams(j) = "ok"
  <2>1. DataSizeByte(j.wl) # 0 /\ j.amount \in Nat
    BY <1>4, <1>5, GoodParams
  <2>2. WriteSlice(j, jobs + 1, j.start, j.amount)
    BY <1>1, <1>5
  <2> DEFINE id == jobs + 1
  <2> HIDE DEF id
  <2>3. WriteSlice(j, id, j.start, j.amount)
    BY <2>2 DEF id
  <2>4. QED
    BY <1>2, <1>3, <2>1, <2>3, WriteSliceFits
<1>6. CASE BadParams(j) # "ok"
  BY <1>1, <1>2, <1>3, <1>6, ReturnFits
<1>7. QED
  BY <1>5, <1>6

\* The next slice of opReadArea.
LEMMA ReadSliceDoneFits ==
  ASSUME SessionInv, Fits, UNCHANGED serverVars, ReadSliceDone
  PROVE  Fits'
<1> DEFINE n == NumElements(left, RoomToRead(job))
           at == start + Advance(job, n)
           more == left - n
<1>1. run = "read" /\ request[Me] = Nothing /\ ~InRequest(Me) /\ run \notin Unconnected /\ LengthAgreed
  BY AnsweredAlone DEF ReadSliceDone, Waits, Unconnected, Fits
<1>2. left \in Nat /\ PDULength' = PDULength /\ DataSizeByte(job.wl) # 0
  BY <1>1 DEF SessionInv, ClientTypes, ReadSliceDone
<1>3. \/ more > 0 /\ ReadSlice(job, at, more)
      \/ \E res : Returns(res)
  BY DEF ReadSliceDone
<1>4. CASE more > 0 /\ ReadSlice(job, at, more)
  <2>1. n \in Nat
    <3>1. RoomToRead(job) \in Nat
      BY <1>1, <1>2, RoomNat DEF SessionInv, Unconnected
    <3>2. QED
      BY <1>2, <3>1, SliceElements
  <2>2. more \in Nat
    BY <1>2, <1>4, <2>1
  <2> HIDE DEF at, more
  <2>3. QED
    BY <1>1, <1>2, <1>4, <2>2, ReadSliceFits
<1>5. CASE \E res : Returns(res)
  BY <1>1, <1>2, <1>5, ReturnFits
<1>6. QED
  BY <1>3, <1>4, <1>5

\* The next slice of opWriteArea.
LEMMA WriteSliceDoneFits ==
  ASSUME SessionInv, Fits, UNCHANGED serverVars, WriteSliceDone
  PROVE  Fits'
<1> DEFINE n == NumElements(left, RoomToWrite(job))
           at == start + Advance(job, n)
           more == left - n
<1>1. run = "write" /\ request[Me] = Nothing /\ run \notin Unconnected /\ LengthAgreed
  BY AnsweredAlone DEF WriteSliceDone, Waits, Unconnected, Fits
<1>2. left \in Nat /\ PDULength' = PDULength /\ DataSizeByte(job.wl) # 0
  BY <1>1 DEF SessionInv, ClientTypes, WriteSliceDone
<1>3. \/ more > 0 /\ WriteSlice(job, jobs, at, more)
      \/ \E res : Returns(res)
  BY DEF WriteSliceDone
<1>4. CASE more > 0 /\ WriteSlice(job, jobs, at, more)
  <2>1. n \in Nat
    <3>1. RoomToWrite(job) \in Nat
      BY <1>1, <1>2, RoomNat DEF SessionInv, Unconnected
    <3>2. QED
      BY <1>2, <3>1, SliceElements
  <2>2. more \in Nat
    BY <1>2, <1>4, <2>1
  <2> HIDE DEF at, more
  <2>3. QED
    BY <1>1, <1>2, <1>4, <2>2, WriteSliceFits
<1>5. CASE \E res : Returns(res)
  BY <1>1, <1>2, <1>5, ReturnFits
<1>6. QED
  BY <1>3, <1>4, <1>5

\* opAgBlockInfo asks for no item.
LEMMA BlockInfoFits ==
  ASSUME SessionInv, Fits, UNCHANGED serverVars, opAgBlockInfo
  PROVE  Fits'
<1>1. PICK j \in Jobs : /\ Begins(j, {"blkinfo", "dbget", "dbfill"})
                        /\ \/ \E res : Returns(res)
                           \/ Ask("blkinfo", [fun |-> "blkinfo", type |-> j.type, area |-> j.area])
  BY DEF opAgBlockInfo
<1> DEFINE r == [fun |-> "blkinfo", type |-> j.type, area |-> j.area]
<1>2. run = "idle" /\ request[Me] = Nothing /\ PDULength' = PDULength
  BY <1>1, JobBegins
<1>3. run \notin Unconnected
  BY <1>2 DEF Unconnected
<1>4. r.fun = "blkinfo"
  OBVIOUS
<1>5. (\E res : Returns(res)) \/ Ask("blkinfo", r)
  BY <1>1
<1> HIDE DEF r
<1>6. QED
  BY <1>2, <1>3, <1>4, <1>5, AskFits, ReturnFits

\* opDBGet reads its first slice.
LEMMA DBGetFits ==
  ASSUME SessionInv, Fits, UNCHANGED serverVars, opDBGet
  PROVE  Fits'
<1> USE DEF opDBGet
<1>1. run = "blkinfo" /\ request[Me] = Nothing /\ ~InRequest(Me) /\ answer[Me].mc7 \in Nat
      /\ run \notin Unconnected /\ LengthAgreed
  BY AnsweredAlone DEF Waits, AnsweredBy, AskedBy, AnswerOK, Unconnected, Fits
<1>2. job.amount \in Int
  BY <1>1 DEF SessionInv, ClientTypes
<1>3. job'.wl = "Byte" /\ job'.start = 0 /\ job'.amount \in Int /\ PDULength' = PDULength
  BY <1>1, <1>2 DEF Least
<1>4. CASE BadParams(job') = "ok"
  <2>1. DataSizeByte(job'.wl) # 0 /\ job'.amount \in Nat
    BY <1>3, <1>4, GoodParams
  <2> DEFINE j == job'
  <2>2. ReadSlice(j, 0, j.amount) /\ DataSizeByte(j.wl) # 0 /\ j.amount \in Nat
    BY <1>4, <2>1
  <2> HIDE DEF j
  <2>3. QED
    BY <1>1, <1>3, <2>2, ReadSliceFits
<1>5. CASE BadParams(job') # "ok"
  <2>1. \E res : Returns(res)
    BY <1>5
  <2>2. QED
    BY <1>1, <1>3, <2>1, ReturnFits
<1>6. QED
  BY <1>4, <1>5

\* opDBFill writes its first slice.
LEMMA DBFillFits ==
  ASSUME SessionInv, Fits, UNCHANGED serverVars, opDBFill
  PROVE  Fits'
<1> USE DEF opDBFill
<1>1. run = "blkinfo" /\ request[Me] = Nothing /\ answer[Me].mc7 \in Nat
      /\ run \notin Unconnected /\ LengthAgreed
  BY AnsweredAlone DEF Waits, AnsweredBy, AskedBy, AnswerOK, Unconnected, Fits
<1>2. job'.wl = "Byte" /\ job'.start = 0 /\ job'.amount \in Int /\ PDULength' = PDULength
  BY <1>1
<1>3. CASE BadParams(job') = "ok"
  <2>1. DataSizeByte(job'.wl) # 0 /\ job'.amount \in Nat
    BY <1>2, <1>3, GoodParams
  <2> DEFINE j == job'
  <2>2. WriteSlice(j, jobs, 0, j.amount) /\ DataSizeByte(j.wl) # 0 /\ j.amount \in Nat
    BY <1>3, <2>1
  <2> HIDE DEF j
  <2>3. QED
    BY <1>1, <1>2, <2>2, WriteSliceFits
<1>4. CASE BadParams(job') # "ok"
  <2>1. \E res : Returns(res)
    BY <1>4
  <2>2. QED
    BY <1>1, <1>2, <2>1, ReturnFits
<1>5. QED
  BY <1>3, <1>4

\* Uploads and downloads do neither.
LEMMA BlockStepsFit ==
  ASSUME SessionInv, Fits, UNCHANGED serverVars, UploadSliceDone \/ StartDownloadDone \/ DownloadSlice \/ InsertBlock
  PROVE  Fits'
<1>1. PDULength' = PDULength
  BY DEF UploadSliceDone, StartDownloadDone, DownloadSlice, InsertBlock
<1>2. request[Me] = Nothing /\ run \notin Unconnected
  BY AnsweredAlone DEF UploadSliceDone, StartDownloadDone, DownloadSlice, InsertBlock, Waits, Unconnected
<1>3. ASSUME UploadSliceDone PROVE Fits'
  <2>1. \/ \E res : Returns(res)
        \/ Ask("endupload", [fun |-> "endupload"])
        \/ Ask("upload", [fun |-> "upload"])
    BY <1>3 DEF UploadSliceDone
  <2>2. QED
    BY <1>1, <1>2, <2>1, AskFits, ReturnFits
<1>4. ASSUME StartDownloadDone PROVE Fits'
  <2>1. \/ \E res : Returns(res)
        \/ run' = "serve" /\ request' = request
    BY <1>4 DEF StartDownloadDone
  <2>2. CASE run' = "serve" /\ request' = request
    BY <1>1, <1>2, <2>2, QuietFits DEF Nothing
  <2>3. QED
    BY <1>1, <1>2, <2>1, <2>2, ReturnFits
<1>5. ASSUME DownloadSlice PROVE Fits'
  <2> DEFINE slice == Least(left, MaxSlice)
             r == [fun |-> "downloaded", data |-> [k \in 1..slice |-> start + k], eos |-> LastSlice(slice)]
             f == IF LastSlice(slice) THEN "ended" ELSE "serve"
  <2>1. Ask(f, r) \/ \E res : Returns(res)
    BY <1>5 DEF DownloadSlice
  <2>2. f \in {"ended", "serve"} /\ r.fun = "downloaded"
    OBVIOUS
  <2> HIDE DEF f, r
  <2>3. QED
    BY <1>1, <1>2, <2>1, <2>2, AskFits, ReturnFits
<1>6. ASSUME InsertBlock PROVE Fits'
  <2>1. Ask("inserted", [fun |-> "start", code |-> "insert"])
    BY <1>6 DEF InsertBlock
  <2>2. QED
    BY <1>1, <1>2, <2>1, AskFits
<1>7. QED
  BY <1>3, <1>4, <1>5, <1>6

\* The client takes the length its worker has told it.
LEMMA NegotiationFits ==
  ASSUME SessionInv, Fits, UNCHANGED serverVars, NegotiatePDULength \/ Negotiated
  PROVE  Fits'
<1>1. CASE NegotiatePDULength
  <2>1. run' = "negotiate" /\ answer'[Me] = Nothing
    BY <1>1, MicroClientAssumption DEF NegotiatePDULength, Ask, SessionInv, PduTypes
  <2>2. QED
    BY <2>1, QuietFits DEF Unconnected
<1>2. CASE Negotiated
  <2>1. run = "negotiate" /\ answer[Me] # Nothing /\ request[Me] = Nothing
    BY <1>2, AnsweredAlone DEF Negotiated, Answered, Waits
  <2>2. answer[Me].error = "ok" /\ answer[Me].whole /\ answer[Me].length = FPDULength[Me]
    BY <2>1 DEF Fits, LengthAgreed
  <2>3. run' = "idle" /\ PDULength' = FPDULength[Me] /\ request' = request
    BY <1>2, <2>2 DEF Negotiated, Granted
  <2>4. FPDULength' = FPDULength /\ Nothing.fun = "none"
    BY DEF serverVars, workerVars, Nothing
  <2>5. QED
    BY <2>1, <2>3, <2>4 DEF Fits, LengthAgreed, RequestFits, SliceFits
<1>3. QED
  BY <1>1, <1>2

\* Without a connection nothing is agreed.
LEMMA ApartFits == run' \in {"off", "connect"} => Fits'
BY DEF Fits, LengthAgreed, RequestFits, SliceFits, Unconnected

\* The client keeps to the length in everything it does.
LEMMA ClientFits ==
  ASSUME SessionInv, Fits, UNCHANGED serverVars, Submit \/ ClientStep \/ PeerDisconnect
  PROVE  Fits'
<1>1. ASSUME Submit PROVE Fits'
  <2>1. CASE opReadArea \/ opWriteArea \/ opReadMultiVars \/ opWriteMultiVars \/ opAgBlockInfo
    BY <2>1, ReadAreaFits, WriteAreaFits, ReadMultiFits, WriteMultiFits, BlockInfoFits
  <2>2. ASSUME run = "idle", PDULength' = PDULength, Goes PROVE Fits'
    BY <2>2, IdleAlone, GoesFits DEF Unconnected
  <2>3. QED
    BY <1>1, <2>1, <2>2, OtherJobs DEF Submit
<1>2. ASSUME ClientStep PROVE Fits'
  <2>1. CASE NegotiatePDULength \/ Negotiated
    BY <2>1, NegotiationFits
  <2>2. CASE ReadSliceDone \/ WriteSliceDone \/ opDBGet \/ opDBFill
    BY <2>2, ReadSliceDoneFits, WriteSliceDoneFits, DBGetFits, DBFillFits
  <2>3. CASE UploadSliceDone \/ StartDownloadDone \/ DownloadSlice \/ InsertBlock
    BY <2>3, BlockStepsFit
  <2>4. ASSUME NEW f \in Plain \cup {"blkinfo"}, Answered(f), UNCHANGED <<jobs, PDULength, left, start>>, Goes
        PROVE  Fits'
    <3>1. f \in Waits /\ f \notin Unconnected
      BY <2>4 DEF Plain, Waits, Unconnected
    <3>2. request[Me] = Nothing /\ run = f
      BY <2>4, <3>1, AnsweredAlone
    <3>3. QED
      BY <2>4, <3>1, <3>2, GoesFits
  <2>5. QED
    BY <1>2, <2>1, <2>2, <2>3, <2>4, OtherReplies DEF ClientStep
<1>3. ASSUME PeerDisconnect PROVE Fits'
  BY <1>3, ApartFits DEF PeerDisconnect
<1>4. QED
  BY <1>1, <1>2, <1>3

\* What leaves the connection and its worker alone.
LEMMA StayFits ==
  ASSUME Fits, UNCHANGED clientVars, FPDULength'[Me] = FPDULength[Me],
         request'[Me] = request[Me], answer'[Me] = answer[Me],
         InRequest(Me)' => worker'[Me] = worker[Me]
  PROVE  Fits'
<1>1. run' = run /\ PDULength' = PDULength
  BY DEF clientVars
<1>2. InRequest(Me)' => InRequest(Me) /\ worker'[Me] = worker[Me]
  BY DEF InRequest
<1>3. LengthAgreed' /\ RequestFits'
  <2>1. RequestSize(request'[Me]) = RequestSize(request[Me])
    OBVIOUS
  <2>2. QED
    BY <1>1, <2>1 DEF Fits, LengthAgreed, RequestFits
<1>4. SliceFits'
  BY <1>1, <1>2 DEF Fits, SliceFits, OneFits
<1>5. QED
  BY <1>3, <1>4 DEF Fits

\* A worker has its own place and PDU length only.
LEMMA OthersWorker ==
  ASSUME SessionInv, NEW c \in Conns \ {Me}, WorkerStep(c)
  PROVE  worker'[Me] = worker[Me] /\ FPDULength'[Me] = FPDULength[Me]
<1>0. DOMAIN worker = Conns /\ FPDULength \in [Conns -> MinPduSize..IsoPayload_Size] /\ Me \in Conns
  BY MicroClientAssumption DEF SessionInv, WorkerTypes
<1>1. ASSUME UNCHANGED serverVars PROVE worker'[Me] = worker[Me] /\ FPDULength'[Me] = FPDULength[Me]
  BY <1>1 DEF serverVars, workerVars
<1>2. ASSUME NEW r, ItemDone(c, r) PROVE worker'[Me] = worker[Me]
  BY <1>0, <1>2 DEF ItemDone
<1>3. CASE ExecuteRecv(c) \/ PerformGroupProgrammer(c) \/ PerformFunctionUpload(c) \/ PerformFunctionDownload(c)
           \/ PerformGroupSecurity(c) \/ PerformGetClock(c) \/ PerformSetClock(c) \/ PerformGroupSZL(c)
           \/ BLK_ListAll(c) \/ BLK_GetBlkInfo(c)
  BY <1>1, <1>3 DEF ExecuteRecv, PerformGroupProgrammer, PerformFunctionUpload, PerformFunctionDownload, PerformGroupSecurity,
                    PerformGetClock, PerformSetClock, PerformGroupSZL, BLK_ListAll, BLK_GetBlkInfo
<1>4. CASE IsoPerformCommand(c) \/ PerformFunctionNegotiate(c) \/ PerformFunctionControl(c) \/ SetCpuStatus(c)
  BY <1>0, <1>4 DEF IsoPerformCommand, PerformFunctionNegotiate, PerformFunctionControl, SetCpuStatus
<1>5. CASE BLK_ListBoT(c)
  BY <1>5 DEF BLK_ListBoT
<1>6. CASE PerformFunctionRead(c) \/ PerformFunctionWrite(c)
  BY <1>0, <1>6 DEF PerformFunctionRead, PerformFunctionWrite, Serving
<1>7. CASE ReadAreaFind(c) \/ WriteAreaFind(c)
  BY <1>0, <1>2, <1>7 DEF ReadAreaFind, WriteAreaFind
<1>8. CASE ReadAreaCopy(c) \/ WriteAreaCopy(c)
  BY <1>2, <1>8 DEF ReadAreaCopy, WriteAreaCopy
<1>9. CASE WriteBitLoad(c) \/ WriteBitStore(c)
  BY <1>0, <1>2, <1>9 DEF WriteBitLoad, WriteBitStore
<1>10. QED
  BY <1>3, <1>4, <1>5, <1>6, <1>7, <1>8, <1>9 DEF WorkerStep

\* The worker takes a request that is neither a slice nor the negotiation.
LEMMA TookFits ==
  ASSUME SessionInv, Fits, UNCHANGED clientVars, FPDULength' = FPDULength,
         NEW f, f \notin {"none", "negotiate", "read"}, Takes(Me, f)
  PROVE  Fits'
<1>1. request[Me].fun = f /\ request'[Me] = Nothing
  BY MicroClientAssumption DEF Takes, SessionInv, PduTypes
<1>2. Nothing.fun = "none"
  BY DEF Nothing
<1>3. run \in Waits => f \in AskedBy(run)
  BY <1>1, <1>2 DEF SessionInv, Paired
<1>4. run \notin {"negotiate", "read"}
  BY <1>3 DEF Waits, AskedBy
<1>5. run' = run /\ PDULength' = PDULength
  BY DEF clientVars
<1>6. QED
  BY <1>1, <1>2, <1>4, <1>5 DEF Fits, LengthAgreed, RequestFits, SliceFits

\* PerformFunctionNegotiate tells the length it has set.
LEMMA NegotiateFits ==
  ASSUME SessionInv, Fits, UNCHANGED clientVars, PerformFunctionNegotiate(Me)
  PROVE  Fits'
<1> DEFINE n == Agreed(request[Me].length)
           a == [fun |-> "negotiate", error |-> "ok", whole |-> TRUE, length |-> n]
<1>1. request[Me].fun = "negotiate" /\ FPDULength' = [FPDULength EXCEPT ![Me] = n] /\ answer' = [answer EXCEPT ![Me] = a]
  BY DEF PerformFunctionNegotiate, Takes, Send
<1>2. FPDULength'[Me] = n /\ answer'[Me] = a
  BY <1>1, MicroClientAssumption DEF SessionInv, PduTypes, WorkerTypes
<1>3. run \in Waits => "negotiate" \in AskedBy(run)
  BY <1>1 DEF SessionInv, Paired, Nothing
<1>4. run \in {"negotiate", "off"}
  <2>1. run \in Waits \cup {"idle", "off"} /\ run # "idle"
    BY <1>1 DEF SessionInv, ClientTypes, Paired, Nothing
  <2>2. QED
    BY <1>3, <2>1 DEF Waits, AskedBy
<1>5. run' = run
  BY DEF clientVars
<1>6. a.error = "ok" /\ a.whole /\ a.length = n
  OBVIOUS
<1> HIDE DEF a, n
<1>7. QED
  BY <1>2, <1>4, <1>5, <1>6 DEF Fits, LengthAgreed, RequestFits, SliceFits, Unconnected

\* PerformFunctionRead takes the one item of a slice.
LEMMA ServeReadFits ==
  ASSUME SessionInv, Fits, UNCHANGED clientVars, PerformFunctionRead(Me)
  PROVE  Fits'
<1> DEFINE s == request[Me].items
           items == Items(Me)
           w == [place |-> "find", fun |-> "read", reply |-> <<>>, remainder |-> FPDULength[Me], items |-> items]
<1>1. /\ request[Me].fun = "read" /\ request' = [request EXCEPT ![Me] = Nothing] /\ answer' = answer
      /\ worker' = [worker EXCEPT ![Me] = w] /\ FPDULength' = FPDULength
  BY DEF PerformFunctionRead, Serving, Takes
<1>2. request'[Me] = Nothing /\ worker'[Me] = w /\ Nothing.fun = "none"
  BY <1>1, MicroClientAssumption DEF SessionInv, PduTypes, WorkerTypes, Nothing
<1>3. run' = run /\ PDULength' = PDULength
  BY DEF clientVars
<1>4. run \in Waits => "read" \in AskedBy(run) /\ answer[Me] = Nothing
  BY <1>1, <1>2 DEF SessionInv, Paired
<1>5. w.items = items
  OBVIOUS
<1>6. LengthAgreed' /\ RequestFits'
  <2>1. run # "negotiate"
    BY <1>4 DEF Waits, AskedBy
  <2>2. QED
    BY <1>1, <1>2, <1>3, <2>1 DEF Fits, LengthAgreed, RequestFits
<1>7. ASSUME run = "read" PROVE OneFits(items)
  <2>a. OneFits(s)
    BY <1>1, <1>2, <1>7 DEF Fits, SliceFits
  <2>1. Len(s) = 1
    BY <2>a DEF OneFits
  <2>2. IsSeq(s) /\ s # <<>>
    BY <1>1, MicroClientAssumption DEF SessionInv, PduTypes, IsRequest
  <2>3. MaxVars \in Nat \ {0}
    BY S7PduAssumption
  <2>4. items = SubSeq(s, 1, 1)
    BY <2>1, <2>3 DEF Items
  <2> HIDE DEF items, s
  <2>5. Len(items) = 1 /\ items[1] = s[1]
    BY <2>1, <2>2, <2>4, SeqFront
  <2>6. QED
    BY <2>5, <2>a DEF OneFits
<1> HIDE DEF items, w
<1>8. SliceFits'
  <2>1. ASSUME run = "read" PROVE answer'[Me] = Nothing /\ Len(worker'[Me].items) = 1 /\ SizeOfItem(worker'[Me].items[1]) <= PDULength' - ReadHead
    BY <1>1, <1>2, <1>3, <1>4, <1>5, <1>7, <2>1 DEF Waits, OneFits
  <2>2. QED
    BY <1>2, <1>3, <2>1 DEF SliceFits, OneFits
<1>9. QED
  BY <1>6, <1>8 DEF Fits

\* A worker goes on with a request: a slice is answered by what it asks for.
LEMMA RequestStepFits ==
  ASSUME SessionInv, Fits, UNCHANGED clientVars, UNCHANGED request, FPDULength' = FPDULength, InRequest(Me),
         run = "read" => /\ InRequest(Me)' => worker'[Me].items = worker[Me].items
                         /\ answer' = answer \/ ReadHead + Len(answer'[Me].items[1].data) <= PDULength
  PROVE  Fits'
<1>1. run' = run /\ PDULength' = PDULength
  BY DEF clientVars
<1>2. worker[Me].fun \in {"read", "write"}
  BY MicroClientAssumption, WorkerInRequest
<1>3. run # "negotiate"
  BY <1>2 DEF SessionInv, Paired, Waits, AskedBy
<1>4. LengthAgreed' /\ RequestFits'
  <2>1. RequestSize(request'[Me]) = RequestSize(request[Me])
    OBVIOUS
  <2>2. QED
    BY <1>1, <1>3, <2>1 DEF Fits, LengthAgreed, RequestFits
<1>5. SliceFits'
  <2>1. CASE run # "read"
    BY <1>1, <2>1 DEF SliceFits
  <2>2. ASSUME run = "read" PROVE SliceFits'
    <3>1. request'[Me] # Nothing => Len(request'[Me].items) = 1 /\ SizeOfItem(request'[Me].items[1]) <= PDULength' - ReadHead
      BY <1>1, <2>2 DEF Fits, SliceFits, OneFits
    <3>2. InRequest(Me)' => Len(worker'[Me].items) = 1 /\ SizeOfItem(worker'[Me].items[1]) <= PDULength' - ReadHead
      BY <1>1, <2>2 DEF Fits, SliceFits, OneFits
    <3>3. answer'[Me] # Nothing => ReadHead + Len(answer'[Me].items[1].data) <= PDULength'
      BY <1>1, <2>2 DEF Fits, SliceFits
    <3>4. QED
      BY <3>1, <3>2, <3>3 DEF SliceFits, OneFits
  <2>3. QED
    BY <2>1, <2>2
<1>6. QED
  BY <1>4, <1>5 DEF Fits

\* The reply to the one item of a slice is the answer.
LEMMA ItemDoneFits ==
  ASSUME SessionInv, Fits, UNCHANGED clientVars, UNCHANGED request, FPDULength' = FPDULength, InRequest(Me),
         NEW r, ItemDone(Me, r), run = "read" => ReadHead + Len(r.data) <= PDULength
  PROVE  Fits'
<1> DEFINE w == worker[Me]
           reply == Append(w.reply, r)
<1>1. /\ DOMAIN worker = Conns /\ DOMAIN answer = Conns /\ Me \in Conns
      /\ IsSeq(w.items) /\ IsSeq(w.reply)
      /\ Len(w.items) \in Nat /\ Len(w.reply) \in Nat /\ Len(w.reply) < Len(w.items)
  BY MicroClientAssumption, WorkerInRequest
<1>2. ASSUME run = "read"
      PROVE  /\ InRequest(Me)' => worker'[Me].items = worker[Me].items
             /\ answer' = answer \/ ReadHead + Len(answer'[Me].items[1].data) <= PDULength
  <2>a. OneFits(worker[Me].items)
    BY <1>2 DEF Fits, SliceFits
  <2>b. Len(w.items) = 1
    BY <2>a DEF OneFits
  <2>1. Len(w.items) = 1 /\ Len(w.reply) = 0
    BY <1>1, <2>b
  <2>2. Len(reply) = 1 /\ reply[1] = r
    BY <1>1, <2>1, SeqAppend
  <2> DEFINE a == [fun |-> w.fun, error |-> "ok", items |-> reply]
  <2>3. worker' = [worker EXCEPT ![Me] = Idle] /\ answer' = [answer EXCEPT ![Me] = a]
    BY <2>1, <2>2 DEF ItemDone, Send
  <2>4. a.items = reply
    OBVIOUS
  <2> HIDE DEF a, reply
  <2>5. answer'[Me] = a /\ worker'[Me] = Idle
    BY <1>1, <2>3
  <2>6. ~InRequest(Me)'
    BY <2>5 DEF InRequest, Idle
  <2>7. QED
    BY <1>2, <2>2, <2>4, <2>5, <2>6
<1>3. QED
  BY <1>2, RequestStepFits

\* Read: what is copied is what the item asks for.
LEMMA ReadItemFits ==
  ASSUME SessionInv, Fits, UNCHANGED clientVars, ReadAreaFind(Me) \/ ReadAreaCopy(Me)
  PROVE  Fits'
<1>1. InRequest(Me) /\ UNCHANGED request /\ FPDULength' = FPDULength
  BY DEF ReadAreaFind, ReadAreaCopy, InRequest
<1>2. ReadHead \in Nat /\ (run = "read" => PDULength \in Nat /\ ReadHead <= PDULength)
  BY SessionConstants, S7PduAssumption DEF SessionInv, ClientTypes, ReadHead
<1>3. CASE ReadAreaFind(Me)
  <2>1. \/ worker' = [worker EXCEPT ![Me].place = "copy"] /\ UNCHANGED answer
        \/ \E code : ItemDone(Me, ReadFailed(code))
    BY <1>3 DEF ReadAreaFind
  <2>2. CASE worker' = [worker EXCEPT ![Me].place = "copy"] /\ UNCHANGED answer
    <3>1. Me \in Conns /\ DOMAIN worker = Conns
      BY MicroClientAssumption DEF SessionInv, WorkerTypes
    <3>2. worker'[Me].items = worker[Me].items
      BY <2>2, <3>1
    <3>3. QED
      BY <1>1, <2>2, <3>2, RequestStepFits
  <2>3. ASSUME NEW code, ItemDone(Me, ReadFailed(code)) PROVE Fits'
    <3> DEFINE r == ReadFailed(code)
    <3>1. r.data = <<>>
      BY DEF ReadFailed
    <3> HIDE DEF r
    <3>2. run = "read" => ReadHead + Len(r.data) <= PDULength
      <4>1. Len(r.data) = 0
        BY <3>1
      <4>2. QED
        BY <1>2, <4>1
    <3>3. ItemDone(Me, r)
      BY <2>3 DEF r
    <3>4. QED
      BY <1>1, <3>2, <3>3, ItemDoneFits
  <2>4. QED
    BY <2>1, <2>2, <2>3
<1>4. CASE ReadAreaCopy(Me)
  <2> DEFINE it == Item(Me)
             n == SizeOfItem(it)
             data == [k \in 1..n |-> mem[it.area][StartByte(it) + k - 1]]
             r == [ret |-> "ok", ts |-> TransportSize(it.wl), dlen |-> DataLength(TransportSize(it.wl), n), data |-> data]
  <2>1. ItemDone(Me, r) /\ r.data = data
    BY <1>4 DEF ReadAreaCopy
  <2>2. n \in Int
    BY <1>4, MicroClientAssumption, ItemInHand DEF ReadAreaCopy
  <2>3. data = [k \in 1..n |-> data[k]]
    OBVIOUS
  <2>4. run = "read" => n <= PDULength - ReadHead
    <3>1. IsSeq(worker[Me].reply) /\ Len(worker[Me].reply) \in Nat /\ Len(worker[Me].reply) < Len(worker[Me].items)
      BY <1>1, MicroClientAssumption, WorkerInRequest
    <3>2. run = "read" => Len(worker[Me].items) = 1 /\ SizeOfItem(worker[Me].items[1]) <= PDULength - ReadHead
      BY <1>1 DEF Fits, SliceFits, OneFits
    <3>3. run = "read" => it = worker[Me].items[1]
      BY <3>1, <3>2 DEF Item
    <3>4. QED
      BY <3>2, <3>3
  <2> HIDE DEF n, data, r, it
  <2>5. run = "read" => ReadHead + Len(r.data) <= PDULength
    <3>1. CASE n \in Nat
      <4>1. Len(data) = n
        BY <2>3, <3>1, SeqFunction
      <4>2. QED
        BY <1>2, <2>1, <2>4, <3>1, <4>1
    <3>2. CASE n \notin Nat
      <4>1. 1..n = {}
        BY <2>2, <3>2
      <4>2. data = <<>>
        BY <2>3, <4>1
      <4>3. Len(data) = 0
        BY <4>2
      <4>4. QED
        BY <1>2, <2>1, <4>3
    <3>3. QED
      BY <3>1, <3>2
  <2>6. QED
    BY <1>1, <2>1, <2>5, ItemDoneFits
<1>5. QED
  BY <1>3, <1>4

\* Write: no slice that is read.
LEMMA WriteItemFits ==
  ASSUME SessionInv, Fits, UNCHANGED clientVars,
         WriteAreaFind(Me) \/ WriteAreaCopy(Me) \/ WriteBitLoad(Me) \/ WriteBitStore(Me)
  PROVE  Fits'
<1>1. InRequest(Me) /\ UNCHANGED request /\ FPDULength' = FPDULength
  BY DEF WriteAreaFind, WriteAreaCopy, WriteBitLoad, WriteBitStore, InRequest, pduVars
<1>2. worker[Me].fun = "write"
  BY MicroClientAssumption DEF WriteAreaFind, WriteAreaCopy, WriteBitLoad, WriteBitStore, SessionInv, WorkerTypes, WorkerOK
<1>3. run # "read"
  BY <1>1, <1>2 DEF SessionInv, Paired, Waits, AskedBy
<1>4. QED
  BY <1>1, <1>3, RequestStepFits

\* The worker keeps to the length it has agreed to.
LEMMA WorkerFits ==
  ASSUME SessionInv, Fits, UNCHANGED clientVars, WorkerStep(Me)
  PROVE  Fits'
<1>1. CASE PerformFunctionNegotiate(Me) \/ PerformFunctionRead(Me)
  BY <1>1, NegotiateFits, ServeReadFits
<1>2. CASE ReadAreaFind(Me) \/ ReadAreaCopy(Me) \/ WriteAreaFind(Me) \/ WriteAreaCopy(Me) \/ WriteBitLoad(Me) \/ WriteBitStore(Me)
  BY <1>2, ReadItemFits, WriteItemFits
<1>3. CASE SetCpuStatus(Me)
  <2>1. worker'[Me] = Idle /\ FPDULength' = FPDULength /\ UNCHANGED <<request, answer>>
    BY <1>3, MicroClientAssumption DEF SetCpuStatus, pduVars, SessionInv, WorkerTypes
  <2>2. ~InRequest(Me)'
    BY <2>1 DEF InRequest, Idle
  <2>3. QED
    BY <2>1, <2>2, StayFits
<1>4. ASSUME NEW f \in {"connect", "malformed", "programmer", "start", "stop", "startupload", "upload", "endupload",
                        "reqdownload", "password", "getclock", "setclock", "szl", "listall", "listbot", "blkinfo", "write"},
             Takes(Me, f), FPDULength' = FPDULength
      PROVE  Fits'
  BY <1>4, TookFits
<1>5. CASE \/ ExecuteRecv(Me) \/ IsoPerformCommand(Me) \/ PerformGroupProgrammer(Me) \/ PerformFunctionControl(Me)
           \/ PerformFunctionUpload(Me) \/ PerformFunctionDownload(Me)
  BY <1>4, <1>5 DEF ExecuteRecv, IsoPerformCommand, PerformGroupProgrammer, PerformFunctionControl,
                    PerformFunctionUpload, PerformFunctionDownload, serverVars, workerVars
<1>6. CASE PerformGroupSecurity(Me) \/ PerformGetClock(Me) \/ PerformSetClock(Me) \/ PerformGroupSZL(Me)
           \/ BLK_ListAll(Me) \/ BLK_GetBlkInfo(Me)
  BY <1>4, <1>6 DEF PerformGroupSecurity, PerformGetClock, PerformSetClock, PerformGroupSZL, BLK_ListAll, BLK_GetBlkInfo,
                    serverVars, workerVars
<1>7. CASE BLK_ListBoT(Me)
  BY <1>4, <1>7 DEF BLK_ListBoT
<1>8. CASE PerformFunctionWrite(Me)
  BY <1>4, <1>8 DEF PerformFunctionWrite, Serving
<1>9. QED
  BY <1>1, <1>2, <1>3, <1>5, <1>6, <1>7, <1>8 DEF WorkerStep

\* At the start there is no connection.
LEMMA InitFits == Init => FitIInv
<1> SUFFICES ASSUME Init PROVE Fits
  BY InitSession DEF FitIInv
<1>1. run = "off"
  BY DEF Init, InitClient
<1>2. QED
  BY <1>1 DEF Fits, LengthAgreed, RequestFits, SliceFits, Unconnected

\* Every step keeps it.
LEMMA NextFits == FitIInv /\ [Next]_vars => FitIInv'
<1> SUFFICES ASSUME FitIInv, [Next]_vars PROVE FitIInv'
  OBVIOUS
<1>1. SessionInv /\ SessionInv'
  BY NextSession DEF FitIInv
<1>2. peer' = peer
  BY DEF Next, Connect, Perform, Fails, Serve, Application, StationAsks, Plc, vars
<1>3. ASSUME peer = "server" PROVE Fits'
  <2>0. Fits
    BY <1>3 DEF FitIInv
  <2>1. CASE Connect \/ Fails
    BY <2>1, ApartFits DEF Connect, PeerConnect, Ask, Fails, ExchangeFails
  <2>2. CASE Perform
    BY <1>1, <2>0, <2>2, ClientFits DEF Perform
  <2>3. ASSUME NEW c \in Conns, Serve(c) PROVE Fits'
    <3>1. WorkerStep(c) /\ UNCHANGED clientVars
      BY <2>3 DEF Serve
    <3>2. CASE c = Me
      BY <1>1, <2>0, <3>1, <3>2, WorkerFits
    <3>3. CASE c # Me
      BY <1>1, <2>0, <3>1, <3>3, OthersConnection, OthersWorker, StayFits
    <3>4. QED
      BY <3>2, <3>3
  <2>4. CASE Application
    <3>1. UNCHANGED pduVars /\ UNCHANGED clientVars /\ AppStep
      BY <2>4, ApplicationPdu DEF Application
    <3>2. UNCHANGED workerVars
      <4>1. ASSUME NEW o, RegisterDB(o) \/ RegisterSys(o) \/ UnregisterDB(o) \/ UnregisterSys(o) \/ LockArea(o)
            PROVE  UNCHANGED workerVars
        BY <4>1 DEF RegisterDB, RegisterSys, UnregisterDB, UnregisterSys, LockArea
      <4>2. ASSUME CountDB \/ LimitDB \/ UncountDB \/ UpdateByte \/ UnlockArea
            PROVE  UNCHANGED workerVars
        BY <4>2 DEF CountDB, LimitDB, UncountDB, UpdateByte, UnlockArea
      <4>3. QED
        BY <3>1, <4>1, <4>2 DEF AppStep
    <3>3. QED
      BY <2>0, <3>1, <3>2, StayFits DEF pduVars, workerVars
  <2>5. CASE StationAsks
    <3>1. /\ \E r : request' = [request EXCEPT ![Station] = r]
          /\ UNCHANGED <<answer, clientVars, FPDULength, worker>>
      BY <2>5 DEF StationAsks, serverVars, workerVars
    <3>2. request'[Me] = request[Me]
      BY <1>1, <3>1, S7SessionAssumption, MicroClientAssumption DEF SessionInv, PduTypes
    <3>3. QED
      BY <2>0, <3>1, <3>2, StayFits
  <2>6. CASE Plc
    BY <1>3, <2>6 DEF Plc, PlcStep, PlcTakes, PlcConnects, PlcUploads, PlcDownloads, PlcControl, PlcSZLSlices, PlcRefuses
  <2>7. CASE UNCHANGED vars
    BY <2>0, <2>7, StayFits DEF vars, pduVars, serverVars, workerVars
  <2>8. QED
    BY <2>1, <2>2, <2>3, <2>4, <2>5, <2>6, <2>7 DEF Next
<1>4. QED
  BY <1>1, <1>2, <1>3 DEF FitIInv

\* Client and worker have the same length, so that what fits one fits the other.
LEMMA FitStrong == FitIInv => PduFits
<1> SUFFICES ASSUME FitIInv, peer = "server", run \notin Unconnected
             PROVE  /\ request[Me].fun \in {"read", "write"} => RequestSize(request[Me]) <= FPDULength[Me]
                    /\ answer[Me].fun = "read" /\ run = "read" => ReadHead + Len(answer[Me].items[1].data) <= FPDULength[Me]
  BY DEF PduFits, Unconnected
<1>1. PDULength = FPDULength[Me]
  BY DEF FitIInv, Fits, LengthAgreed
<1>2. Nothing.fun = "none"
  BY DEF Nothing
<1>3. QED
  BY <1>1, <1>2 DEF FitIInv, Fits, RequestFits, SliceFits

\* Every request to read or write and the answer to every slice fit the PDU length
\* client and server have agreed on (opReadArea, opWriteArea, PerformFunctionNegotiate).
THEOREM PduFitsHolds == Spec => []PduFits
<1>1. Init => FitIInv
  BY InitFits
<1>2. FitIInv /\ [Next]_vars => FitIInv'
  BY NextFits
<1>3. FitIInv => PduFits
  BY FitStrong
<1>4. QED
  BY <1>1, <1>2, <1>3, PTL DEF Spec

-----------------------------------------------------------------------------
(* Reads.                                                                  *)

\* The client's connection and the worker at its other end stay as they are.
MeStays == request'[Me] = request[Me] /\ answer'[Me] = answer[Me] /\ worker'[Me] = worker[Me]

\* What a step can be, seen from the client's connection.
LEMMA NextForMe ==
  ASSUME SessionInv, [Next]_vars
  PROVE  \/ ConnectionStep
         \/ ExchangeFails
         \/ UNCHANGED serverVars /\ JobStep
         \/ UNCHANGED clientVars /\ (MeStays \/ WorkerStep(Me) \/ (PlcStep /\ UNCHANGED serverVars))
<1>1. /\ DOMAIN request = Conns /\ DOMAIN answer = Conns /\ DOMAIN worker = Conns
      /\ Me \in Conns /\ Station \in Conns \ {Me}
  BY MicroClientAssumption, S7SessionAssumption DEF SessionInv, PduTypes, WorkerTypes
<1>2. CASE Connect \/ Perform \/ Fails \/ Plc
  BY <1>2 DEF Connect, Perform, Fails, Plc, ClientStep, ConnectionStep, JobStep, OtherClientStep
<1>3. ASSUME NEW c \in Conns, Serve(c) PROVE UNCHANGED clientVars /\ (MeStays \/ WorkerStep(Me))
  BY <1>1, <1>3, WorkerKinds DEF Serve, Alone, MeStays
<1>4. ASSUME Application PROVE UNCHANGED clientVars /\ MeStays
  <2>1. ASSUME NEW o, RegisterDB(o) \/ RegisterSys(o) \/ UnregisterDB(o) \/ UnregisterSys(o) \/ LockArea(o)
        PROVE  UNCHANGED workerVars
    BY <2>1 DEF RegisterDB, RegisterSys, UnregisterDB, UnregisterSys, LockArea
  <2>2. ASSUME CountDB \/ LimitDB \/ UncountDB \/ UpdateByte \/ UnlockArea
        PROVE  UNCHANGED workerVars
    BY <2>2 DEF CountDB, LimitDB, UncountDB, UpdateByte, UnlockArea
  <2>3. QED
    BY <1>4, <2>1, <2>2, ApplicationPdu DEF Application, AppStep, workerVars, pduVars, MeStays
<1>5. CASE StationAsks
  BY <1>1, <1>5 DEF StationAsks, MeStays, serverVars, workerVars
<1>6. CASE UNCHANGED vars
  BY <1>6 DEF vars, MeStays, serverVars, workerVars, pduVars
<1>7. QED
  BY <1>2, <1>3, <1>4, <1>5, <1>6 DEF Next

\* Answers of the PLC to a read and to a write: what it stores it can store.
PlcReadAnswer(error) == [fun |-> "read", error |-> error, items |-> IF OneItem THEN <<ReadFailed("refused")>> ELSE <<>>]
PlcWriteAnswer(error, item) == [fun |-> "write", error |-> error, items |-> IF OneItem THEN <<item>> ELSE <<>>]
MayStore(error, item) == item = "ok" => error = "ok" /\ CanStore(request[Me].items[1])

\* Of the PLC's steps a job that is at stake meets its answers to reads and writes only.
LEMMA PlcForMe ==
  ASSUME SessionInv, PlcStep, run \in Reported
  PROVE  /\ request[Me] # Nothing /\ request'[Me] = Nothing /\ peer = "plc"
         /\ \/ /\ run \in {"read", "readmulti"} /\ request[Me].fun = "read"
               /\ \E error : answer'[Me] = PlcReadAnswer(error)
            \/ /\ run \in {"write", "writemulti"} /\ request[Me].fun = "write"
               /\ \E error, item \in {"ok", "refused"} :
                    MayStore(error, item) /\ answer'[Me] = PlcWriteAnswer(error, item)
<1>1. run \in Waits /\ "read" # "none" /\ DOMAIN answer = Conns /\ Me \in Conns
  BY MicroClientAssumption DEF Reported, Waits, SessionInv, PduTypes
<1>2. ASSUME NEW f, f # "none", PlcTakes(f) PROVE f \in AskedBy(run)
  BY <1>1, <1>2, PlcTakesAlone
<1>3. /\ ~PlcConnects /\ ~PlcControl /\ ~PlcSZLSlices
      /\ ~(\E f \in {"startupload", "upload", "endupload", "reqdownload", "downloaded", "ended"} : PlcTakes(f))
  BY <1>2 DEF PlcConnects, PlcControl, PlcSZLSlices, AskedBy, Reported
<1>4. ~PlcUploads
  BY <1>3 DEF PlcUploads
<1>5. ~PlcDownloads
  BY <1>3 DEF PlcDownloads, Reported
<1>6. ~(\E f \in {"password", "getclock", "setclock", "listall", "blkinfo"} : PlcTakes(f))
  BY <1>2 DEF AskedBy, Reported
<1>7. \/ PlcTakes("read") /\ \E error : PlcSends(PlcReadAnswer(error))
      \/ /\ PlcTakes("write")
         /\ \E error, item \in {"ok", "refused"} : MayStore(error, item) /\ PlcSends(PlcWriteAnswer(error, item))
  <2>1. PlcRefuses
    BY <1>3, <1>4, <1>5 DEF PlcStep
  <2>2. QED
    BY <1>6, <2>1 DEF PlcRefuses, PlcReadAnswer, PlcWriteAnswer, MayStore
<1>8. ASSUME NEW a, PlcSends(a) PROVE answer'[Me] = a
  BY <1>1, <1>8 DEF PlcSends
<1>9. ASSUME NEW f, f # "none", PlcTakes(f)
      PROVE  request[Me] # Nothing /\ request'[Me] = Nothing /\ request[Me].fun = f /\ peer = "plc"
  BY <1>9, PlcTakesAlone DEF PlcTakes, Nothing
<1>10. ASSUME PlcTakes("read"), NEW error, PlcSends(PlcReadAnswer(error)) PROVE answer'[Me] = PlcReadAnswer(error)
  BY <1>8, <1>10
<1>11. ASSUME PlcTakes("write"), NEW error, NEW item, PlcSends(PlcWriteAnswer(error, item))
       PROVE  answer'[Me] = PlcWriteAnswer(error, item)
  BY <1>8, <1>11
<1>12. CASE PlcTakes("read") /\ \E error : PlcSends(PlcReadAnswer(error))
  <2>1. run \in {"read", "readmulti"}
    BY <1>2, <1>12 DEF AskedBy, Reported
  <2>2. QED
    BY <1>9, <1>10, <1>12, <2>1
<1>13. CASE /\ PlcTakes("write")
            /\ \E error, item \in {"ok", "refused"} : MayStore(error, item) /\ PlcSends(PlcWriteAnswer(error, item))
  <2>1. run \in {"write", "writemulti"}
    BY <1>2, <1>13 DEF AskedBy, Reported
  <2>2. QED
    BY <1>9, <1>11, <1>13, <2>1
<1>14. QED
  BY <1>7, <1>12, <1>13

\* s has the n bytes of an area from byte f on.
Covers(s, f, n) == s = [k \in 1..n |-> s[k]] /\ \A k \in 1..n : s[k].at = f + k - 1

\* A good reply to a read has all of its item; of timers the size only.
GoodReply(it, r) ==
  r.ret = "ok" =>
    /\ it.area \in Areas /\ ~Incoherent(it) /\ SizeOf(r.ts, r.dlen) = SizeOfItem(it)
    /\ it.area # "TM" => Covers(r.data, StartByte(it), SizeOfItem(it))
GoodReplies(items, replies) == \A k \in DOMAIN replies : GoodReply(items[k], replies[k])

\* The request of a read is on its way, in the worker, or answered.
ReadExchange ==
  run \in {"read", "readmulti"} =>
    /\ IsSeq(Wanted) /\ Len(Wanted) <= MaxVars
    /\ run = "readmulti" => IsJob(job)
    /\ request[Me] # Nothing => request[Me].items = Wanted
    /\ InRequest(Me) => worker[Me].items = Wanted /\ GoodReplies(Wanted, worker[Me].reply)
    /\ answer[Me] # Nothing =>
         /\ IsSeq(answer[Me].items) /\ Len(answer[Me].items) \in {0, Len(Wanted)}
         /\ run = "read" => Len(answer[Me].items) = 1
         /\ GoodReplies(Wanted, answer[Me].items)

\* The caller's buffer has the bytes of the slices so far, and in the end of all.
ReadResult ==
  /\ OneArea /\ job.op \in {"read", "dbget"}
       /\ result \in {"ok", "errCliBufferTooSmall"} /\ job.wl \notin {"Timer", "Counter"}
     => Len(out) = Bytes /\ \A k \in DOMAIN out : out[k].at = Place(job.wl, job.start) + k - 1
  /\ job.op = "readmulti" /\ result = "ok" =>
       \A k \in DOMAIN out :
         LET it == job.items[k]
         IN out[k].result = "ok" /\ it.area # "TM" =>
              /\ Len(out[k].data) = it.amount * DataSizeByte(it.wl)
              /\ \A i \in DOMAIN out[k].data : out[k].data[i].at = Place(it.wl, it.start) + i - 1
ReadOut ==
  /\ run = "read" /\ job.wl \notin {"Timer", "Counter"} => Covers(out, Place(job.wl, job.start), MovedBytes)
  /\ run = "blkinfo" => out = <<>>
  /\ ReadResult

\* Bytes in order are a sequence, none of which is cut off.
LEMMA CoversAll ==
  ASSUME NEW s, NEW f, NEW n \in Nat, Covers(s, f, n)
  PROVE  IsSeq(s) /\ Len(s) = n /\ DOMAIN s = 1..n /\ Upto(s, n) = s
<1>1. IsSeq(s) /\ Len(s) = n /\ DOMAIN s = 1..n
  BY SeqFunction DEF Covers
<1>2. s \in Seq({s[i] : i \in DOMAIN s})
  BY <1>1 DEF IsSeq
<1>3. SubSeq(s, 1, Len(s)) = s
  BY <1>2, SubSeqFull
<1>4. QED
  BY <1>1, <1>3 DEF Upto, Least

\* Bytes that go on where others end.
LEMMA CoversOn ==
  ASSUME NEW s, NEW t, NEW f \in Int, NEW g \in Int, NEW n \in Nat, NEW m \in Nat, NEW all \in Nat,
         Covers(s, f, n), Covers(t, g, m), g = f + n, all = n + m
  PROVE  Covers(s \o t, f, all)
<1> DEFINE S == {s[i] : i \in DOMAIN s} \cup {t[i] : i \in DOMAIN t}
           u == s \o t
<1>1. s \in Seq(S) /\ t \in Seq(S) /\ Len(s) = n /\ Len(t) = m
  <2>1. DOMAIN s = 1..n /\ Len(s) = n /\ DOMAIN t = 1..m /\ Len(t) = m /\ IsSeq(s) /\ IsSeq(t)
    BY CoversAll
  <2>2. QED
    BY <2>1 DEF IsSeq
<1>2. /\ u \in Seq(S) /\ Len(u) = n + m
      /\ \A k \in 1..n + m : u[k] = IF k <= n THEN s[k] ELSE t[k - n]
  BY <1>1, ConcatProperties
<1> HIDE DEF u, S
<1>3. u = [k \in 1..all |-> u[k]]
  BY <1>2
<1>4. ASSUME NEW k \in 1..all PROVE u[k].at = f + k - 1
  <2>1. CASE k <= n
    <3>1. k \in 1..n /\ u[k] = s[k]
      BY <1>2, <2>1
    <3>2. QED
      BY <3>1 DEF Covers
  <2>2. CASE k > n
    <3>1. k - n \in 1..m /\ u[k] = t[k - n]
      BY <1>2, <2>2
    <3>2. t[k - n].at = g + (k - n) - 1
      BY <3>1 DEF Covers
    <3>3. QED
      BY <3>1, <3>2
  <2>3. QED
    BY <2>1, <2>2
<1>5. QED
  BY <1>3, <1>4 DEF Covers, u

\* What is asked for starts where its elements start.
LEMMA ReferencePlace ==
  ASSUME NEW j, NEW at \in Nat, NEW n, j.wl \notin {"Timer", "Counter"}
  PROVE  StartByte(Reference(j, at, n)) = Place(j.wl, at)
<1> DEFINE it == Reference(j, at, n)
<1>1. it.wl = j.wl /\ it.address = Address(j.wl, at)
  BY DEF Reference
<1> HIDE DEF it
<1>2. CASE j.wl = "Bit"
  BY <1>1, <1>2 DEF StartByte, Address, ByIndex, Place, it
<1>3. CASE j.wl # "Bit"
  <2>1. StartByte(it) = (8 * at) \div 8
    BY <1>1, <1>3 DEF StartByte, Address, ByIndex
  <2>2. Place(j.wl, at) = at
    BY <1>3 DEF Place
  <2>3. QED
    BY <2>1, <2>2 DEF it
<1>4. QED
  BY <1>2, <1>3

\* The length field of data tells its size.
LEMMA LengthTells == \A wl : \A n \in Int : SizeOf(TransportSize(wl), DataLength(TransportSize(wl), n)) = n
BY DEF SizeOf, DataLength

\* A job that ends or is refused at the start has nothing to show for a read.
LEMMA NoReadResult ==
  ASSUME result' \notin {"ok", "errCliBufferTooSmall"} \/ job'.op \notin {"read", "dbget", "readmulti"}
  PROVE  ReadResult'
BY DEF ReadResult

\* A slice that is received goes on with the caller's buffer where the last one ended.
LEMMA ReadSliceOut ==
  ASSUME BaseInv, RunOfJob', ReadExchange, ReadOut, ReadSliceDone
  PROVE  ReadOut'
<1> DEFINE d == DataSizeByte(job.wl)
           n == NumElements(left, RoomToRead(job))
           ref == Reference(job, start, n)
           r == answer[Me].items[1]
<1>1. run = "read" /\ job' = job /\ answer[Me] # Nothing
  BY DEF ReadSliceDone, Answered
<1>2. CASE r.ret # "ok"
  <2>1. run' = "idle" /\ result' = CpuError(r.ret)
    BY <1>2 DEF ReadSliceDone, Returns
  <2>2. result' \notin {"ok", "errCliBufferTooSmall"}
    BY <1>2, <2>1 DEF CpuError
  <2>3. QED
    BY <2>1, <2>2, NoReadResult DEF ReadOut
<1>3. CASE r.ret = "ok"
  <2>1. /\ out' = out \o Upto(r.data, SizeOf(r.ts, r.dlen))
        /\ \/ run' = "read" /\ result' = "pending" /\ left' = left - n
           \/ run' = "idle" /\ ~(left - n > 0)
    BY <1>3 DEF ReadSliceDone, ReadSlice, Ask, Returns
  <2>2. CASE job.wl \in {"Timer", "Counter"}
    <3>1. ReadResult'
      BY <1>1, <2>2 DEF ReadResult, RunOfJob, RunsOf, NoJobRuns, BaseInv, Reported
    <3>2. QED
      BY <1>1, <2>1, <2>2, <3>1 DEF ReadOut
  <2>3. CASE job.wl \notin {"Timer", "Counter"}
    <3>1. GoodReply(ref, r)
      <4>1. Wanted = <<ref>> /\ IsSeq(answer[Me].items) /\ Len(answer[Me].items) = 1 /\ GoodReplies(Wanted, answer[Me].items)
        BY <1>1 DEF ReadExchange, Wanted
      <4>2. 1 \in DOMAIN answer[Me].items
        BY <4>1, SeqFacts
      <4> DEFINE x == ref
      <4>3. Wanted[1] = x
        BY <4>1
      <4> HIDE DEF x
      <4>4. GoodReply(x, r)
        BY <4>1, <4>2, <4>3 DEF GoodReplies
      <4>5. QED
        BY <4>4 DEF x
    <3>2. ref.area = job.area /\ ref.wl = job.wl /\ ref.length = n
      BY DEF Reference
    <3>3. /\ n \in Nat /\ d \in {1, 2, 4} /\ left \in 1..job.amount /\ job.start \in Nat /\ job.amount \in Nat
          /\ start = job.start + d * (job.amount - left) /\ start \in Nat /\ (job.wl = "Bit" => job.amount = 1)
      <4>1. n \in Nat /\ d \in {1, 2, 4} /\ start \in Nat
        BY <1>1, SliceNat DEF BaseInv
      <4>2. QED
        BY <1>1, <4>1, GoodParams DEF BaseInv, LoopInv, MovedBytes
    <3>4. StartByte(ref) = Place(job.wl, start)
      BY <2>3, <3>3, ReferencePlace
    <3> HIDE DEF n, r, ref, d
    <3>5. SizeOfItem(ref) = d * n
      BY <3>2 DEF SizeOfItem, d
    <3>6. SizeOf(r.ts, r.dlen) = d * n /\ Covers(r.data, StartByte(ref), d * n)
      BY <1>3, <2>3, <3>1, <3>2, <3>5 DEF GoodReply, Incoherent
    <3> DEFINE p == Place(job.wl, job.start)
               m == d * (job.amount - left)
               k == d * n
               all == d * (job.amount - (left - n))
    <3>7. m \in Nat /\ k \in Nat /\ all = m + k /\ all \in Nat
      <4>1. d = 1 \/ d = 2 \/ d = 4
        BY <3>3
      <4>2. QED
        BY <3>3, <4>1
    <3>8. p \in Nat /\ Place(job.wl, start) = p + m
      <4>1. start = job.start + m
        BY <3>3
      <4> HIDE DEF m
      <4>2. CASE job.wl = "Bit"
        <5>1. job.amount = 1 /\ left = 1
          BY <3>3, <4>2
        <5>2. m = 0
          BY <3>3, <5>1 DEF m
        <5>3. job.start \div 8 \in Nat
          BY <3>3
        <5>4. QED
          BY <3>3, <4>1, <4>2, <5>2, <5>3 DEF Place
      <4>3. CASE job.wl # "Bit"
        BY <2>3, <3>3, <3>7, <4>1, <4>3 DEF Place
      <4>4. QED
        BY <4>2, <4>3
    <3>9. Covers(out, p, m)
      BY <1>1, <2>3 DEF ReadOut, MovedBytes, d
    <3>10. Upto(r.data, SizeOf(r.ts, r.dlen)) = r.data
      <4> HIDE DEF k
      <4>1. SizeOf(r.ts, r.dlen) = k /\ Covers(r.data, StartByte(ref), k) /\ k \in Nat
        BY <3>6, <3>7 DEF k
      <4>2. QED
        BY <4>1, CoversAll
    <3>11. Covers(out', p, all)
      <4>1. Covers(r.data, p + m, k) /\ out' = out \o r.data
        BY <2>1, <3>4, <3>6, <3>8, <3>10
      <4> HIDE DEF p, m, k, all
      <4>2. p \in Int /\ p + m \in Int
        BY <3>7, <3>8
      <4>3. QED
        BY <3>7, <3>9, <4>1, <4>2, CoversOn
    <3>12. CASE run' = "read" /\ result' = "pending" /\ left' = left - n
      <4>1. MovedBytes' = all
        BY <1>1, <3>12 DEF MovedBytes, d
      <4>2. ReadResult'
        BY <3>12, NoReadResult
      <4>3. QED
        BY <1>1, <3>11, <3>12, <4>1, <4>2 DEF ReadOut
    <3>13. CASE run' = "idle" /\ ~(left - n > 0)
      <4>1. n = left
        <5>1. WordMod \in Nat /\ WordMod > 0 /\ RoomToRead(job) \in Nat
          <6>1. ClientTypes /\ DataSizeByte(job.wl) # 0
            BY <1>1 DEF BaseInv, SessionInv, ClientTypes
          <6>2. QED
            BY <1>1, <6>1, RoomNat, MicroClientAssumption
        <5>2. left % WordMod <= left
          BY <3>3, <5>1
        <5>3. n <= left % WordMod /\ left % WordMod \in Nat
          BY <3>3, <5>1 DEF n, NumElements, Least
        <5>4. QED
          BY <3>3, <3>13, <5>2, <5>3
      <4>2. all = Bytes
        <5>1. d = 1 \/ d = 2 \/ d = 4
          BY <3>3
        <5>2. QED
          BY <3>3, <4>1, <5>1 DEF Bytes, d
      <4>3. Bytes' = Bytes
        BY <1>1 DEF Bytes
      <4> HIDE DEF all, p
      <4>4. Len(out') = all /\ DOMAIN out' = 1..all
        BY <3>7, <3>11, CoversAll
      <4>5. \A i \in 1..all : out'[i].at = p + i - 1
        BY <3>11 DEF Covers
      <4>6. job.op # "readmulti"
        BY <1>1 DEF BaseInv, RunOfJob, RunsOf, NoJobRuns, Reported
      <4>7. ReadResult'
        BY <1>1, <4>2, <4>3, <4>4, <4>5, <4>6 DEF ReadResult, p
      <4>8. QED
        BY <3>13, <4>7 DEF ReadOut
    <3>14. QED
      BY <2>1, <3>12, <3>13
  <2>4. QED
    BY <2>2, <2>3
<1>4. QED
  BY <1>2, <1>3

\* Every item of a multiple read that is reported good has all of its bytes.
LEMMA ReadMultiOut ==
  ASSUME BaseInv, ReadExchange, MultiVarsDone, run = "readmulti"
  PROVE  ReadOut'
<1> DEFINE items == answer[Me].items
<1>1. run' = "idle" /\ job' = job /\ job.op = "readmulti" /\ answer[Me] # Nothing
  BY DEF MultiVarsDone, Returns, Answered, BaseInv, RunOfJob, RunsOf, NoJobRuns, Reported
<1>2. CASE result' # "ok"
  BY <1>1, <1>2 DEF ReadOut, ReadResult
<1>3. CASE result' = "ok"
  <2>0. answer[Me].error = "ok" /\ Len(items) = Len(job.items)
    BY <1>3, OkIsOk DEF MultiVarsDone, Returns
  <2>1. out' = [k \in DOMAIN items |->
                  [result |-> CpuError(items[k].ret),
                   data |-> IF items[k].ret = "ok" THEN Upto(items[k].data, SizeOf(items[k].ts, items[k].dlen)) ELSE <<>>]]
    BY <2>0 DEF MultiVarsDone
  <2>2. /\ Wanted = [k \in DOMAIN job.items |-> ReadItem(job, k)] /\ IsJob(job)
        /\ GoodReplies(Wanted, items) /\ IsSeq(items)
    BY <1>1 DEF ReadExchange, Wanted
  <2>3. Len(items) = Len(job.items)
    BY <2>0
  <2>4. job.items \in Seq({job.items[i] : i \in DOMAIN job.items})
    <3>1. job.items \in Seq({it \in {job.items[k] : k \in DOMAIN job.items} : IsPart(it)})
      BY <1>1, <2>2 DEF IsJob
    <3>2. {it \in {job.items[k] : k \in DOMAIN job.items} : IsPart(it)} \subseteq {job.items[i] : i \in DOMAIN job.items}
      OBVIOUS
    <3>3. QED
      BY <3>1, <3>2, SeqMonotonic
  <2>5. DOMAIN items = DOMAIN job.items
    BY <2>2, <2>3, <2>4, SeqFacts DEF IsSeq
  <2>6. ASSUME NEW k \in DOMAIN out', out'[k].result = "ok", job.items[k].area # "TM"
        PROVE  /\ Len(out'[k].data) = job.items[k].amount * DataSizeByte(job.items[k].wl)
               /\ \A i \in DOMAIN out'[k].data :
                    out'[k].data[i].at = Place(job.items[k].wl, job.items[k].start) + i - 1
    <3> DEFINE part == job.items[k]
               it == Adjusted(part)
               ref == Reference(it, it.start, it.amount)
               r == items[k]
               n == DataSizeByte(part.wl) * part.amount
    <3>1. k \in DOMAIN items /\ k \in DOMAIN job.items
      BY <2>1, <2>5
    <3>2. r.ret = "ok"
      <4>1. out'[k].result = CpuError(r.ret)
        BY <2>1, <3>1
      <4>2. QED
        BY <2>6, <4>1, OkIsOk
    <3>3. out'[k].data = Upto(r.data, SizeOf(r.ts, r.dlen))
      BY <2>1, <3>1, <3>2
    <3>4. IsPart(part) /\ it.area = part.area /\ it.start = part.start /\ it.amount = part.amount
      <4>1. IsPart(part)
        <5>1. job.items \in Seq({i \in {job.items[l] : l \in DOMAIN job.items} : IsPart(i)})
          BY <1>1, <2>2 DEF IsJob
        <5> DEFINE S == {i \in {job.items[l] : l \in DOMAIN job.items} : IsPart(i)}
        <5>2. job.items[k] \in S
          BY <3>1, <5>1, SeqFacts
        <5>3. QED
          BY <5>2
      <4>2. QED
        BY <4>1 DEF Adjusted, IsPart
    <3>5. GoodReply(ref, r)
      BY <2>2, <3>1 DEF GoodReplies, ReadItem
    <3>6. ref.area = part.area /\ ref.wl = it.wl /\ ref.length = part.amount
      BY <3>4 DEF Reference
    <3> HIDE DEF r, ref, it, items
    <3>7. part.area \in Areas /\ part.area # "CT" /\ part.area # "TM"
      BY <2>6, <3>2, <3>5, <3>6, S7ServerAssumption DEF GoodReply, Areas, SysAreas
    <3>8. it.wl = part.wl
      BY <3>4, <3>7 DEF Adjusted, IsPart, it
    <3>9. part.wl \notin {"Timer", "Counter"}
      BY <3>2, <3>5, <3>6, <3>7, <3>8 DEF GoodReply, Incoherent
    <3>10. StartByte(ref) = Place(part.wl, part.start)
      <4>1. it.start \in Nat
        BY <3>4 DEF IsPart
      <4>2. QED
        BY <3>4, <3>8, <3>9, <4>1, ReferencePlace DEF ref
    <3>11. SizeOfItem(ref) = n
      BY <3>6, <3>8 DEF SizeOfItem
    <3>12. n \in Nat /\ n = part.amount * DataSizeByte(part.wl)
      <4> DEFINE d == DataSizeByte(part.wl)
      <4>1. d \in {0, 1, 2, 4} /\ part.amount \in Nat
        BY <3>4, ElementBytes DEF IsPart
      <4>2. d = 0 \/ d = 1 \/ d = 2 \/ d = 4
        BY <4>1
      <4> HIDE DEF d
      <4>3. d * part.amount \in Nat /\ d * part.amount = part.amount * d
        BY <4>1, <4>2
      <4>4. QED
        BY <4>3 DEF d
    <3>13. SizeOf(r.ts, r.dlen) = n /\ Covers(r.data, Place(part.wl, part.start), n)
      BY <3>2, <3>5, <3>6, <3>7, <3>10, <3>11 DEF GoodReply
    <3> HIDE DEF n
    <3>14. Upto(r.data, n) = r.data /\ Len(r.data) = n /\ DOMAIN r.data = 1..n
      BY <3>12, <3>13, CoversAll
    <3>15. out'[k].data = r.data
      BY <3>3, <3>13, <3>14
    <3>16. QED
      BY <3>12, <3>13, <3>14, <3>15 DEF Covers
  <2>7. ReadResult'
    BY <1>1, <2>6 DEF ReadResult
  <2>8. QED
    BY <1>1, <2>7 DEF ReadOut
<1>4. QED
  BY <1>2, <1>3

\* No bytes are what was moved of a job at its beginning.
LEMMA NothingMoved ==
  ASSUME BaseInv', run' = "read", left' = job'.amount, out' = <<>>
  PROVE  Covers(out', Place(job'.wl, job'.start), MovedBytes')
<1>1. job'.amount \in Nat /\ BadParams(job') = "ok" /\ job'.start \in Nat
  BY DEF BaseInv, LoopInv
<1>2. DataSizeByte(job'.wl) \in {1, 2, 4}
  BY <1>1, GoodParams, ElementBytes
<1>3. MovedBytes' = 0
  <2> DEFINE d == DataSizeByte(job'.wl)
  <2>1. job'.amount - left' = 0
    BY <1>1
  <2>2. d = 1 \/ d = 2 \/ d = 4
    BY <1>2
  <2>3. MovedBytes' = d * (job'.amount - left')
    BY DEF MovedBytes
  <2> HIDE DEF d
  <2>4. QED
    BY <2>1, <2>2, <2>3
<1>4. Covers(<<>>, Place(job'.wl, job'.start), 0)
  BY DEF Covers
<1>5. QED
  BY <1>3, <1>4

\* The caller's buffer goes on to have what was moved.
LEMMA ReadOutNext ==
  ASSUME BaseInv, BaseInv', ReadExchange, ReadOut, [Next]_vars
  PROVE  ReadOut'
<1>1. CASE UNCHANGED clientVars
  BY <1>1 DEF ReadOut, ReadResult, MovedBytes, Bytes, OneArea, clientVars, loopVars
<1>2. CASE ConnectionStep
  BY <1>2, ConnectionStays DEF ReadOut, ReadResult, Bytes, OneArea, NoJobRuns, BaseInv
<1>3. CASE ExchangeFails
  BY <1>3 DEF ExchangeFails, ReadOut, ReadResult, Bytes, OneArea
<1>4. CASE Submit
  <2>1. result' \notin {"ok", "errCliBufferTooSmall"} /\ out' = <<>>
    BY <1>4, JobStarts DEF StartErrors, BaseInv
  <2>2. run' = "read" => left' = job'.amount
    <3>1. ASSUME run' = "read" PROVE opReadArea
      BY <1>4, <3>1, RunAfter, JobStarts DEF JobStep, ReadSliceDone, opDBGet, Answered, BaseInv
    <3>2. QED
      BY <3>1 DEF opReadArea, ReadSlice, Returns
  <2>3. QED
    BY <2>1, <2>2, NothingMoved, NoReadResult DEF ReadOut
<1>5. CASE ReadSliceDone
  BY <1>5, ReadSliceOut DEF BaseInv
<1>6. CASE opDBGet
  <2>1. out' = <<>> /\ job'.op = "dbget"
    BY <1>6 DEF opDBGet, Answered, ReadOut
  <2>2. CASE BadParams(job') = "ok"
    BY <1>6, <2>1, <2>2, NothingMoved, NoReadResult DEF opDBGet, ReadSlice, Ask, ReadOut
  <2>3. CASE BadParams(job') # "ok"
    <3>1. run' = "idle" /\ result' \notin {"ok", "errCliBufferTooSmall"}
      BY <1>6, <2>3, BadParamsCodes DEF opDBGet, Returns, StartErrors
    <3>2. QED
      BY <3>1, NoReadResult DEF ReadOut
  <2>4. QED
    BY <2>2, <2>3
<1>7. CASE WriteSliceDone \/ opDBFill \/ ListSliceDone \/ (MultiVarsDone /\ run # "readmulti")
  <2>1. job'.op \in {"write", "dbfill", "listbot", "writemulti"} /\ run' \notin {"read", "blkinfo"}
    BY <1>7 DEF WriteSliceDone, opDBFill, ListSliceDone, MultiVarsDone, Answered, WriteSlice, Ask, Returns,
                BaseInv, RunOfJob, RunsOf, NoJobRuns, Reported
  <2>2. QED
    BY <2>1, NoReadResult DEF ReadOut
<1>8. CASE MultiVarsDone /\ run = "readmulti"
  BY <1>8, ReadMultiOut
<1>9. CASE AgBlockInfoDone
  <2>1. run' = "idle" /\ job' = job /\ (job.op # "blkinfo" => ~OneArea) /\ job.op \notin Reported
    BY <1>9 DEF AgBlockInfoDone, Answered, Returns, BaseInv, RunOfJob, RunsOf, NoJobRuns, Reported
  <2>2. QED
    BY <2>1 DEF ReadOut, ReadResult, OneArea, Reported
<1>10. CASE OtherClientStep
  <2>1. job' = job /\ job.op \notin Claimed /\ run' \notin {"read", "blkinfo"}
    BY <1>10, OtherRunsStay DEF BaseInv, RunOfJob, RunsOf, Claimed, Reported, Waits, NoJobRuns
  <2>2. QED
    BY <2>1, NoReadResult DEF ReadOut, Claimed, Reported
<1>11. QED
  BY <1>1, <1>2, <1>3, <1>4, <1>5, <1>6, <1>7, <1>8, <1>9, <1>10, NextForMe DEF JobStep, BaseInv

\* What is asked for is a sequence of items one request can have.
LEMMA WantedFits ==
  ASSUME SessionInv, opReadArea \/ ReadSliceDone \/ opDBGet \/ opReadMultiVars, run' \in {"read", "readmulti"}
  PROVE  IsSeq(Wanted') /\ Len(Wanted') <= MaxVars /\ (run' = "readmulti" => IsJob(job'))
<1>1. CASE run' = "read"
  <2> DEFINE ref == Reference(job', start', NumElements(left', RoomToRead(job)'))
  <2>1. Wanted' = <<ref>>
    BY <1>1 DEF Wanted
  <2> HIDE DEF ref
  <2>2. IsSeq(Wanted') /\ Len(Wanted') = 1
    BY <2>1 DEF IsSeq
  <2>3. QED
    BY <1>1, <2>2, S7PduAssumption
<1>2. CASE run' = "readmulti"
  <2>1. opReadMultiVars
    BY <1>2 DEF opReadArea, ReadSliceDone, opDBGet, ReadSlice, Ask, Returns
  <2>2. PICK j \in Jobs : Begins(j, {"readmulti"}) /\ job' = j /\ \E r : AskItems(j, "readmulti", r)
    BY <2>1 DEF opReadMultiVars
  <2>3. j.op = "readmulti" /\ IsJob(j)
    BY <2>2, JobBegins
  <2>4. Len(j.items) <= MaxVars
    <3>1. Len(j.items) \in Nat /\ MaxVars \in Nat
      BY <2>3, Parts, S7PduAssumption
    <3>2. ~(Len(j.items) > MaxVars)
      BY <1>2, <2>2 DEF AskItems, Returns
    <3>3. QED
      BY <3>1, <3>2
  <2>5. Len(j.items) \in Nat /\ DOMAIN j.items = 1..Len(j.items)
    BY <2>3, Parts
  <2> DEFINE n == Len(j.items)
             W == [k \in 1..n |-> ReadItem(j, k)]
  <2>6. Wanted' = W
    BY <1>2, <2>2, <2>5 DEF Wanted
  <2>7. W = [k \in 1..n |-> W[k]]
    OBVIOUS
  <2> HIDE DEF n, W
  <2>8. IsSeq(W) /\ Len(W) = n
    BY <2>5, <2>7, SeqFunction DEF n
  <2>9. QED
    BY <2>2, <2>3, <2>4, <2>6, <2>8 DEF n
<1>3. QED
  BY <1>1, <1>2

\* A reply that was copied from the memory has all of the item.
LEMMA CopiedGood ==
  ASSUME BaseInv, NEW c \in Conns, worker[c].place = "copy"
  PROVE  GoodReply(Item(c), Copied(c))
<1> DEFINE it == Item(c)
           n == SizeOfItem(it)
           f == StartByte(it)
           data == [k \in 1..n |-> mem[it.area][f + k - 1]]
           r == Copied(c)
<1>1. /\ it.area \in Areas /\ f \in Nat /\ n \in Int /\ AreaSize[it.area] \in Nat /\ f + n <= AreaSize[it.area]
      /\ ~Incoherent(it) /\ DOMAIN mem[it.area] = 0..AreaSize[it.area] - 1
  <2>1. AreaTypes /\ WorkerPlaced(c)
    <3>1. SessionInv /\ PlaceInv
      BY DEF BaseInv
    <3>2. AreaTypes
      BY <3>1 DEF SessionInv
    <3>3. \A d \in Conns : WorkerPlaced(d)
      BY <3>1 DEF PlaceInv
    <3>4. QED
      BY <3>2, <3>3
  <2>2. it.area \in Areas
    BY ItemInHand DEF BaseInv
  <2>3. DOMAIN mem[it.area] = 0..AreaSize[it.area] - 1
    BY <2>1, <2>2 DEF AreaTypes
  <2>4. QED
    BY <2>1, <2>2, <2>3, ItemInHand DEF BaseInv, WorkerPlaced
<1>2. r.data = data /\ r.ts = TransportSize(it.wl) /\ r.dlen = DataLength(TransportSize(it.wl), n)
  BY DEF Copied
<1> HIDE DEF r
<1>3. SizeOf(r.ts, r.dlen) = n
  BY <1>1, <1>2, LengthTells
<1>4. ASSUME it.area # "TM" PROVE Covers(data, f, n)
  <2>1. ASSUME NEW k \in 1..n PROVE data[k].at = f + k - 1
    <3> DEFINE a == it.area
    <3>1. a \in Areas \ {"TM"} /\ f + k - 1 \in DOMAIN mem[a]
      BY <1>1, <1>4
    <3>2. mem[a][f + k - 1].at = f + k - 1
      BY <3>1 DEF BaseInv, PlaceInv, MemPlaced
    <3>3. QED
      BY <3>2
  <2>2. data = [k \in 1..n |-> data[k]]
    OBVIOUS
  <2> HIDE DEF data, f, n
  <2>3. QED
    BY <2>1, <2>2 DEF Covers
<1> HIDE DEF data, f, n
<1>5. QED
  BY <1>1, <1>2, <1>3, <1>4 DEF GoodReply, r, f, n

\* One more good reply.
LEMMA GoodOnMore ==
  ASSUME NEW items, NEW replies, IsSeq(replies), GoodReplies(items, replies), NEW r, GoodReply(items[Len(replies) + 1], r)
  PROVE  GoodReplies(items, Append(replies, r))
<1> DEFINE s == Append(replies, r)
<1>1. /\ Len(replies) \in Nat /\ DOMAIN replies = 1..Len(replies) /\ DOMAIN s = 1..Len(replies) + 1
      /\ \A i \in 1..Len(replies) : s[i] = replies[i]
      /\ s[Len(replies) + 1] = r
  BY SeqFacts, SeqAppend
<1> HIDE DEF s
<1>2. ASSUME NEW k \in DOMAIN s PROVE GoodReply(items[k], s[k])
  <2>1. k \in 1..Len(replies) \/ k = Len(replies) + 1
    BY <1>1
  <2>2. QED
    BY <1>1, <2>1 DEF GoodReplies
<1>3. QED
  BY <1>2 DEF GoodReplies, s

\* The worker takes, serves and answers a read.
LEMMA WorkerReads ==
  ASSUME BaseInv, BaseInv', ReadExchange, run \in {"read", "readmulti"}, UNCHANGED clientVars, WorkerStep(Me)
  PROVE  ReadExchange'
<1> DEFINE W == Wanted
<1>1. /\ run' = run /\ job' = job /\ Wanted' = W
      /\ IsSeq(W) /\ Len(W) <= MaxVars /\ (run = "readmulti" => IsJob(job))
  BY DEF ReadExchange, Wanted, clientVars, loopVars, RoomToRead
<1>2. /\ request[Me] # Nothing => request[Me].items = W
      /\ InRequest(Me) => worker[Me].items = W /\ GoodReplies(W, worker[Me].reply)
      /\ answer[Me] # Nothing =>
           /\ IsSeq(answer[Me].items) /\ Len(answer[Me].items) \in {0, Len(W)}
           /\ run = "read" => Len(answer[Me].items) = 1
           /\ GoodReplies(W, answer[Me].items)
  BY DEF ReadExchange
<1>3. run = "read" => Len(W) = 1
  BY DEF Wanted
<1> HIDE DEF W
<1>4. /\ Me \in Conns /\ run \in Waits /\ AskedBy(run) = {"read"} /\ AnsweredBy(run) = {"read"}
      /\ SessionInv /\ Paired /\ Paired' /\ Nothing.fun = "none"
  BY MicroClientAssumption DEF Waits, AskedBy, AnsweredBy, BaseInv, SessionInv, Nothing
<1> DEFINE Answer == answer'[Me] # Nothing =>
                       /\ IsSeq(answer'[Me].items) /\ Len(answer'[Me].items) \in {0, Len(W)}
                       /\ run = "read" => Len(answer'[Me].items) = 1
                       /\ GoodReplies(W, answer'[Me].items)
           Work == InRequest(Me)' => worker'[Me].items = W /\ GoodReplies(W, worker'[Me].reply)
<1>5. SUFFICES Answer /\ Work
  <2>1. request'[Me] # Nothing => request'[Me].items = W
    BY <1>2, <1>4, WorkerKinds DEF Alone
  <2>2. QED
    BY <1>1, <1>5, <2>1 DEF ReadExchange
<1>6. CASE Elsewhere(Me)
  <2>1. answer'[Me] # Nothing => answer'[Me].fun = "read"
    BY <1>1, <1>4 DEF Paired
  <2>2. QED
    BY <1>2, <1>6, <2>1 DEF Elsewhere
<1>7. CASE TakesUp(Me)
  <2>1. request[Me] # Nothing /\ request[Me].fun = "read" /\ answer[Me] = Nothing
    BY <1>4, <1>7 DEF TakesUp, Paired
  <2>2. worker'[Me].items = Items(Me) /\ worker'[Me].reply = <<>> /\ answer'[Me] = Nothing
    BY <1>7, <2>1 DEF TakesUp
  <2>3. Items(Me) = W
    <3>1. request[Me].items = W
      BY <1>2, <2>1
    <3>2. Len(W) \in Nat /\ MaxVars \in Nat /\ Len(W) <= MaxVars
      BY <1>1, SeqFacts, S7PduAssumption
    <3>3. Items(Me) = SubSeq(W, 1, Len(W))
      BY <3>1, <3>2 DEF Items
    <3>4. QED
      BY <1>1, <3>3, SubSeqFull DEF IsSeq
  <2>4. GoodReplies(W, <<>>)
    BY DEF GoodReplies
  <2>5. QED
    BY <2>2, <2>3, <2>4
<1>8. CASE GoesOn(Me)
  BY <1>2, <1>8 DEF GoesOn
<1>9. ASSUME NEW r, Replies(Me, r) PROVE Answer /\ Work
  <2> DEFINE replies == worker[Me].reply
             s == Append(replies, r)
  <2>1. InRequest(Me) /\ worker[Me].fun = "read" /\ answer[Me] = Nothing
    BY <1>4, <1>9 DEF Replies, Paired
  <2>2. worker[Me].items = W /\ GoodReplies(W, replies) /\ IsSeq(replies)
    BY <1>2, <1>4, <2>1, WorkerInRequest
  <2>3. Item(Me) = W[Len(replies) + 1]
    BY <2>2 DEF Item
  <2>4. GoodReply(W[Len(replies) + 1], r)
    BY <1>4, <1>9, <2>1, <2>3, CopiedGood DEF Replies, GoodReply
  <2>5. GoodReplies(W, s) /\ IsSeq(s) /\ Len(s) = Len(replies) + 1
    BY <2>2, <2>4, GoodOnMore, SeqAppend
  <2> HIDE DEF s
  <2>6. \/ answer'[Me] = [fun |-> worker[Me].fun, error |-> "ok", items |-> s] /\ ~InRequest(Me)' /\ Len(s) = Len(W)
        \/ answer'[Me] = Nothing /\ worker'[Me].items = W /\ worker'[Me].reply = s
    BY <1>9, <2>1, <2>2, <2>5 DEF Replies, s
  <2>7. CASE answer'[Me] = [fun |-> worker[Me].fun, error |-> "ok", items |-> s] /\ ~InRequest(Me)' /\ Len(s) = Len(W)
    <3>1. answer'[Me].items = s
      BY <2>7
    <3>2. QED
      BY <1>3, <2>5, <2>7, <3>1
  <2>8. QED
    BY <2>5, <2>6, <2>7
<1>10. QED
  BY <1>4, <1>6, <1>7, <1>8, <1>9, WorkerKinds

\* The PLC refuses a read.
LEMMA PlcReads ==
  ASSUME BaseInv, ReadExchange, run \in {"read", "readmulti"}, UNCHANGED clientVars, PlcStep, UNCHANGED serverVars
  PROVE  ReadExchange'
<1> DEFINE W == Wanted
           few == <<ReadFailed("refused")>>
<1>1. /\ run' = run /\ job' = job /\ Wanted' = W
      /\ IsSeq(W) /\ Len(W) <= MaxVars /\ (run = "readmulti" => IsJob(job)) /\ (run = "read" => Len(W) = 1)
  BY DEF ReadExchange, Wanted, clientVars, loopVars, RoomToRead
<1>2. /\ request[Me] # Nothing /\ request'[Me] = Nothing
      /\ answer'[Me].items = IF OneItem THEN few ELSE <<>>
  <2>1. PICK error : answer'[Me] = PlcReadAnswer(error)
    BY PlcForMe DEF BaseInv, Reported
  <2>2. QED
    BY <2>1, PlcForMe DEF BaseInv, Reported, PlcReadAnswer
<1>3. request[Me].items = W /\ ~InRequest(Me)
  <2>1. Paired /\ run \in Waits
    BY DEF BaseInv, SessionInv, Waits
  <2>2. QED
    BY <1>2, <2>1 DEF Paired, ReadExchange
<1>4. ~InRequest(Me)'
  BY <1>3 DEF InRequest, serverVars, workerVars
<1>5. answer'[Me].items = IF Len(W) = 1 THEN few ELSE <<>>
  BY <1>2, <1>3 DEF OneItem
<1>6. IsSeq(few) /\ Len(few) = 1 /\ GoodReplies(W, few)
  BY DEF IsSeq, GoodReplies, GoodReply, ReadFailed
<1>7. IsSeq(<<>>) /\ Len(<<>>) = 0 /\ GoodReplies(W, <<>>)
  BY DEF IsSeq, GoodReplies
<1> HIDE DEF W, few
<1>8. QED
  BY <1>1, <1>2, <1>4, <1>5, <1>6, <1>7 DEF ReadExchange

\* The request of a read and its answer stay what the job wants.
LEMMA ReadExchangeNext ==
  ASSUME BaseInv, BaseInv', ReadExchange, [Next]_vars
  PROVE  ReadExchange'
<1>1. SUFFICES ASSUME run' \in {"read", "readmulti"} PROVE ReadExchange'
  BY DEF ReadExchange
<1>2. CASE ConnectionStep \/ ExchangeFails
  BY <1>1, <1>2, ConnectionStays DEF ExchangeFails, NoJobRuns, BaseInv
<1>3. CASE UNCHANGED serverVars /\ JobStep
  <2>1. opReadArea \/ ReadSliceDone \/ opDBGet \/ opReadMultiVars
    BY <1>1, <1>3, RunAfter DEF BaseInv
  <2>2. request'[Me] = [fun |-> "read", items |-> Wanted'] /\ answer'[Me] = Nothing
    BY <1>1, <2>1, ReadAsked DEF BaseInv
  <2>3. IsSeq(Wanted') /\ Len(Wanted') <= MaxVars /\ (run' = "readmulti" => IsJob(job'))
    BY <1>1, <2>1, WantedFits DEF BaseInv
  <2>4. request'[Me].items = Wanted' /\ request'[Me] # Nothing
    BY <2>2 DEF Nothing
  <2>5. ~InRequest(Me)'
    BY <1>1, <2>4 DEF BaseInv, SessionInv, Paired, Waits
  <2>6. QED
    BY <2>2, <2>3, <2>4, <2>5 DEF ReadExchange
<1>4. CASE UNCHANGED clientVars /\ MeStays
  <2>1. run' = run /\ job' = job /\ Wanted' = Wanted
    BY <1>4 DEF Wanted, clientVars, loopVars, RoomToRead
  <2>2. QED
    BY <1>4, <2>1 DEF MeStays, ReadExchange, InRequest
<1>5. CASE UNCHANGED clientVars /\ WorkerStep(Me)
  BY <1>1, <1>5, WorkerReads DEF clientVars
<1>6. CASE UNCHANGED clientVars /\ PlcStep /\ UNCHANGED serverVars
  BY <1>1, <1>6, PlcReads DEF clientVars
<1>7. QED
  BY <1>2, <1>3, <1>4, <1>5, <1>6, NextForMe DEF BaseInv

\* ReadExact rests on what was asked, answered and received so far.
ReadInv == BaseInv /\ ReadExchange /\ ReadOut

\* Initially nothing is read.
LEMMA InitRead == Init => ReadInv
<1> SUFFICES ASSUME Init PROVE ReadExchange /\ ReadOut
  BY InitBase DEF ReadInv
<1>1. run = "off" /\ result = "none" /\ job = [op |-> "none"]
  BY DEF Init, InitClient
<1>2. QED
  BY <1>1 DEF ReadExchange, ReadOut, ReadResult

\* Every step keeps it.
LEMMA NextRead == ReadInv /\ [Next]_vars => ReadInv'
BY NextBase, ReadExchangeNext, ReadOutNext DEF ReadInv

\* For any jobs, any PDU length and whatever the other station and the application
\* do meanwhile: a read that is reported good gave the caller every byte asked for,
\* each from its place.
THEOREM ReadExactHolds == Spec => []ReadExact
<1>1. ReadInv => ReadExact
  BY DEF ReadInv, ReadOut, ReadResult, ReadExact
<1>2. QED
  BY <1>1, InitRead, NextRead, PTL DEF Spec

-----------------------------------------------------------------------------
(* Lists of data blocks: the scan of the table and its order.              *)

\* How many of S are not behind i.
Rank(S, i) == Cardinality({j \in S : j <= i})

\* The members of a finite set of numbers are numbered by their rank.
LEMMA Ranks ==
  ASSUME NEW S, S \subseteq Nat, IsFiniteSet(S)
  PROVE  /\ Cardinality(S) \in Nat
         /\ \A i \in S : Rank(S, i) \in 1..Cardinality(S) /\ Cardinality({j \in S : j < i}) = Rank(S, i) - 1
         /\ \A i, j \in S : i < j => Rank(S, i) < Rank(S, j)
         /\ \A i, j \in S : Rank(S, i) = Rank(S, j) => i = j
         /\ \A k \in 1..Cardinality(S) : \E i \in S : Rank(S, i) = k
<1> DEFINE n == Cardinality(S)
<1>1. n \in Nat /\ \A i \in S : i \in Nat
  BY FS_CardinalityType
<1>2. ASSUME NEW i \in S
      PROVE  Rank(S, i) \in 1..n /\ Cardinality({j \in S : j < i}) = Rank(S, i) - 1
  <2> DEFINE L == {j \in S : j <= i}
  <2>1. IsFiniteSet(L) /\ Cardinality(L) <= n /\ Cardinality(L) \in Nat
    <3>1. L \in SUBSET S
      OBVIOUS
    <3>2. QED
      BY <3>1, FS_Subset, FS_CardinalityType
  <2>2. Cardinality(L \ {i}) = Cardinality(L) - 1 /\ Cardinality(L \ {i}) \in Nat
    <3>1. i \in L
      OBVIOUS
    <3>2. QED
      BY <2>1, <3>1, FS_RemoveElement, FS_CardinalityType
  <2>3. L \ {i} = {j \in S : j < i}
    <3>1. \A j \in S : j <= i /\ j # i <=> j < i
      BY <1>1
    <3>2. QED
      BY <3>1
  <2>4. Cardinality({j \in S : j < i}) = Cardinality(L) - 1
    BY <2>2, <2>3
  <2>5. QED
    BY <1>1, <2>1, <2>2, <2>4 DEF Rank
<1>3. ASSUME NEW i \in S, NEW j \in S, i < j PROVE Rank(S, i) < Rank(S, j)
  <2> DEFINE L == {k \in S : k <= i}
             M == {k \in S : k <= j}
  <2>1. IsFiniteSet(M) /\ L \in SUBSET M /\ j \in M /\ j \notin L
    <3>1. M \in SUBSET S
      OBVIOUS
    <3>2. IsFiniteSet(M)
      BY <3>1, FS_Subset
    <3>3. (\A k \in S : k <= i => k <= j) /\ ~(j <= i) /\ j <= j
      BY <1>1, <1>3
    <3>4. QED
      BY <3>2, <3>3
  <2>2. Cardinality(L) <= Cardinality(M) /\ Cardinality(L) # Cardinality(M)
    BY <2>1, FS_Subset
  <2>3. Cardinality(L) \in Nat /\ Cardinality(M) \in Nat
    BY <2>1, FS_Subset, FS_CardinalityType
  <2>4. QED
    BY <2>2, <2>3 DEF Rank
<1>4. ASSUME NEW i \in S, NEW j \in S, Rank(S, i) = Rank(S, j) PROVE i = j
  <2>1. i \in Nat /\ j \in Nat /\ Rank(S, i) \in Nat
    <3>1. Rank(S, i) \in 1..n
      BY <1>2
    <3>2. QED
      BY <1>1, <3>1
  <2>2. ~(i < j) /\ ~(j < i)
    BY <1>3, <1>4, <2>1
  <2>3. QED
    BY <2>1, <2>2
<1>5. \A k \in 1..n : \E i \in S : Rank(S, i) = k
  <2> DEFINE f == [i \in S |-> Rank(S, i)]
  <2>1. f \in Injection(S, 1..n)
    BY <1>2, <1>4 DEF Injection, IsInjective
  <2>2. IsFiniteSet(1..n) /\ Cardinality(1..n) = n
    BY <1>1, FS_Interval
  <2>3. f \in Surjection(S, 1..n)
    <3> HIDE DEF f
    <3>1. QED
      BY <2>1, <2>2, FS_Injection
  <2>4. QED
    BY <2>3 DEF Surjection
<1>6. QED
  BY <1>1, <1>2, <1>3, <1>4, <1>5

\* InOrder has every member of a set once, in ascending order.
LEMMA InOrderAll ==
  ASSUME NEW S, S \subseteq Nat, IsFiniteSet(S)
  PROVE  LET s == InOrder(S)
             n == Cardinality(S)
         IN /\ IsSeq(s) /\ Len(s) = n /\ DOMAIN s = 1..n /\ n \in Nat
            /\ \A k \in 1..n : s[k] \in S
            /\ \A i \in S : \E k \in 1..n : s[k] = i
            /\ \A k, l \in 1..n : s[k] = s[l] => k = l
            /\ n > 0 => \A i \in S : i <= s[n]
            /\ s # <<>> <=> S # {}
<1> DEFINE s == InOrder(S)
           n == Cardinality(S)
<1>1. n \in Nat /\ s = [k \in 1..n |-> CHOOSE i \in S : Rank(S, i) = k]
  BY Ranks DEF InOrder, Rank
<1>2. ASSUME NEW k \in 1..n PROVE s[k] \in S /\ Rank(S, s[k]) = k
  <2>1. \E i \in S : Rank(S, i) = k
    BY Ranks
  <2>2. s[k] = CHOOSE i \in S : Rank(S, i) = k
    BY <1>1
  <2>3. QED
    BY <2>1, <2>2
<1> HIDE DEF s
<1>3. IsSeq(s) /\ Len(s) = n /\ DOMAIN s = 1..n /\ (s # <<>> <=> n > 0)
  <2>1. s = [k \in 1..n |-> s[k]]
    BY <1>1
  <2>2. IsSeq(s) /\ Len(s) = n
    BY <1>1, <2>1, SeqFunction
  <2>3. DOMAIN s = 1..n
    BY <1>1
  <2>4. s # <<>> <=> n > 0
    BY <1>1, <2>2, EmptySeq DEF IsSeq
  <2>5. QED
    BY <2>2, <2>3, <2>4
<1>4. ASSUME NEW i \in S PROVE \E k \in 1..n : s[k] = i
  <2>1. Rank(S, i) \in 1..n /\ Rank(S, s[Rank(S, i)]) = Rank(S, i) /\ s[Rank(S, i)] \in S
    BY <1>2, Ranks
  <2>2. s[Rank(S, i)] = i
    BY <2>1, Ranks
  <2>3. QED
    BY <2>1, <2>2
<1>5. \A k, l \in 1..n : s[k] = s[l] => k = l
  BY <1>2
<1>6. ASSUME n > 0, NEW i \in S PROVE i <= s[n]
  <2>1. n \in 1..n
    BY <1>1, <1>6
  <2>2. s[n] \in S /\ Rank(S, s[n]) = n /\ Rank(S, i) \in 1..n
    BY <1>2, <2>1, Ranks
  <2>3. s[n] < i => Rank(S, s[n]) < Rank(S, i)
    BY <2>2, Ranks
  <2>4. ~(s[n] < i) /\ s[n] \in Nat /\ i \in Nat
    <3>1. s[n] \in Nat /\ i \in Nat
      BY <2>2
    <3>2. ~(n < Rank(S, i))
      BY <1>1, <2>2
    <3>3. QED
      BY <2>2, <2>3, <3>1, <3>2
  <2>5. QED
    BY <2>4
<1>7. S # {} <=> n > 0
  BY <1>1, FS_EmptySet
<1>8. QED
  BY <1>1, <1>2, <1>3, <1>4, <1>5, <1>6, <1>7 DEF s

\* The used places behind "from" that a scan can find.
Used(from) == {i \in from + 1..DBLimit + 1 : TableAt(i) # "none"}

\* A scan finds the first max of them: all, if it finds fewer than max; with a place
\* also all before it.
LEMMA ScanFinds ==
  ASSUME TableIInv, NEW from \in Nat \cup {-1}, NEW max \in Int
  PROVE  LET found == Scanned(from, max)
         IN /\ found \subseteq Used(from) /\ Used(from) \subseteq Nat /\ IsFiniteSet(found)
            /\ Cardinality(found) < max => found = Used(from)
            /\ found # {} => Cardinality(found) <= max
            /\ \A i \in Used(from), j \in found : i <= j => i \in found
<1> DEFINE U == Used(from)
           found == Scanned(from, max)
<1>1. DBLimit \in Nat
  BY DEF TableIInv, TableTypes
<1>2. U \subseteq from + 1..DBLimit + 1 /\ from + 1..DBLimit + 1 \subseteq Nat
  BY <1>1 DEF Used
<1>3. IsFiniteSet(U) /\ U \subseteq Nat
  <2>1. IsFiniteSet(from + 1..DBLimit + 1)
    BY <1>1, FS_Interval
  <2>2. QED
    BY <1>2, <2>1, FS_Subset
<1>4. found = {i \in U : Cardinality({j \in U : j < i}) < max}
  BY DEF Scanned, Used
<1> HIDE DEF U, found
<1>5. Cardinality(U) \in Nat /\ \A i \in U : Rank(U, i) \in 1..Cardinality(U) /\ (i \in found <=> Rank(U, i) <= max)
  <2>1. /\ Cardinality(U) \in Nat
        /\ \A i \in U : Rank(U, i) \in 1..Cardinality(U) /\ Cardinality({j \in U : j < i}) = Rank(U, i) - 1
    BY <1>3, Ranks
  <2>2. ASSUME NEW i \in U PROVE i \in found <=> Rank(U, i) <= max
    <3>1. Rank(U, i) \in Int /\ Cardinality({j \in U : j < i}) = Rank(U, i) - 1
      BY <2>1
    <3>2. i \in found <=> Cardinality({j \in U : j < i}) < max
      BY <1>4
    <3>3. QED
      BY <3>1, <3>2
  <2>3. QED
    BY <2>1, <2>2
<1>6. found \subseteq U /\ IsFiniteSet(found)
  <2>1. found \in SUBSET U
    BY <1>4
  <2>2. QED
    BY <1>3, <2>1, FS_Subset
<1>7. ASSUME Cardinality(found) < max PROVE found = U
  <2>1. Cardinality(U) <= max
    <3>1. SUFFICES ASSUME Cardinality(U) > max PROVE FALSE
      BY <1>5
    <3> DEFINE f == [i \in found |-> Rank(U, i)]
    <3>2. f \in Surjection(found, 1..max)
      <4>1. \A i \in found : Rank(U, i) \in 1..max
        BY <1>5, <1>6
      <4>2. ASSUME NEW k \in 1..max PROVE \E i \in found : f[i] = k
        <5>1. k \in 1..Cardinality(U)
          BY <1>5, <3>1
        <5>2. PICK i \in U : Rank(U, i) = k
          BY <1>3, <5>1, Ranks
        <5>3. i \in found
          BY <1>5, <5>2
        <5>4. QED
          BY <5>2, <5>3
      <4>3. QED
        BY <4>1, <4>2 DEF Surjection
    <3> HIDE DEF f
    <3>3. Cardinality(1..max) <= Cardinality(found)
      BY <1>6, <3>2, FS_Surjection
    <3>4. Cardinality(1..max) = max /\ Cardinality(found) \in Nat
      BY <1>6, <1>7, FS_Interval, FS_CardinalityType
    <3>5. QED
      BY <1>7, <3>3, <3>4
  <2>2. QED
    BY <1>5, <1>6, <2>1
<1>8. ASSUME NEW i \in U, NEW j \in found, i <= j PROVE i \in found
  <2>1. j \in U /\ Rank(U, j) <= max
    BY <1>5, <1>6
  <2>2. i = j \/ Rank(U, i) < Rank(U, j)
    <3>1. i \in Nat /\ j \in Nat
      BY <1>3, <2>1
    <3>2. i = j \/ i < j
      BY <1>8, <3>1
    <3>3. QED
      BY <1>3, <2>1, <3>2, Ranks
  <2>3. QED
    BY <1>5, <2>1, <2>2
<1>9. ASSUME found # {} PROVE Cardinality(found) <= max
  <2>1. PICK j \in found : TRUE
    BY <1>9
  <2>2. max \in Nat
    BY <1>5, <1>6, <2>1
  <2> DEFINE f == [i \in found |-> Rank(U, i)]
  <2>3. f \in Injection(found, 1..max)
    <3>1. \A i \in found : Rank(U, i) \in 1..max
      BY <1>5, <1>6
    <3>2. \A i, j_1 \in found : Rank(U, i) = Rank(U, j_1) => i = j_1
      BY <1>3, <1>6, Ranks
    <3>3. QED
      BY <3>1, <3>2 DEF Injection, IsInjective
  <2> HIDE DEF f
  <2>4. IsFiniteSet(1..max) /\ Cardinality(1..max) = max
    BY <2>2, FS_Interval
  <2>5. QED
    BY <2>3, <2>4, FS_Injection
<1>10. QED
  BY <1>3, <1>6, <1>7, <1>8, <1>9 DEF U, found

-----------------------------------------------------------------------------
(* Lists of data blocks: what the entries so far say of the table.         *)

\* The list so far has every lasting block up to place p; its entries were in the
\* table, once unless one left it meanwhile, and are still in places up to p.
Listed(got) == {got[k] : k \in DOMAIN got}
Reached(got, p) == \A i \in Slots : i <= p /\ DB[i] \in stable => DB[i] \in Listed(got)
Once(got) ==
  /\ IsSeq(got) /\ Listed(got) \subseteq seen \cup {"PE"}
  /\ \A k, l \in DOMAIN got : got[k] = got[l] /\ got[k] \notin gone => k = l
  /\ "PE" \in Listed(got) => DBLimit = MaxDB - 1
InTable(got, p) ==
  \A k \in DOMAIN got : got[k] \in DBNumbers \ gone => \E i \in Slots : i <= p /\ DB[i] = got[k]
SoFar(got, p) == p \in -1..MaxDB /\ Reached(got, p) /\ Once(got) /\ InTable(got, p)

\* The history of the job in hand is one of blocks the table has or had.
StableInv == stable \subseteq RegisteredDBs /\ DBLimit \in Slots

\* What a step that submits no job does to the table and to the history: a block
\* comes that was not there, a block goes and is marked as gone.
TableGoesOn ==
  /\ \A i \in Slots :
       \/ DB'[i] = DB[i]
       \/ DB[i] = "none" /\ ~Registered(DB'[i])
       \/ DB'[i] = "none" /\ DB[i] \in gone'
  /\ stable' \subseteq stable /\ seen \subseteq seen' /\ gone \subseteq gone'
  /\ DBLimit <= DBLimit' /\ DBLimit' \in Slots

\* The table changes by the application only, one place at a time.
LEMMA TableMoves ==
  ASSUME TableIInv, DBLimit \in Slots, [Next]_vars
  PROVE  /\ DBLimit' \in Slots /\ DBLimit <= DBLimit'
         /\ \A i \in Slots :
              \/ DB'[i] = DB[i]
              \/ DB[i] = "none" /\ ~Registered(DB'[i])
              \/ DB'[i] = "none" /\ DB[i] \in TableDBs \ TableDBs'
<1> DEFINE Moves ==
         /\ DBLimit' \in Slots /\ DBLimit <= DBLimit'
         /\ \A i \in Slots :
              \/ DB'[i] = DB[i]
              \/ DB[i] = "none" /\ ~Registered(DB'[i])
              \/ DB'[i] = "none" /\ DB[i] \in TableDBs \ TableDBs'
<1>1. DBLimit \in Nat /\ DB \in [Slots -> DBNumbers \cup {"none"}] /\ TableOnce
  BY DEF TableIInv, TableTypes
<1>2. ASSUME UNCHANGED <<DB, DBLimit>> PROVE Moves
  BY <1>1, <1>2
<1>3. ASSUME NEW o, RegisterDB(o) PROVE Moves
  <2>1. ~Registered(o.area) /\ DBLimit' = DBLimit
    BY <1>3 DEF RegisterDB, MayRegister
  <2>2. PICK index \in Slots : DB[index] = "none" /\ DB' = [DB EXCEPT ![index] = o.area]
    BY <1>3 DEF RegisterDB, FreeSlots
  <2>3. \A i \in Slots : DB'[i] = IF i = index THEN o.area ELSE DB[i]
    BY <1>1, <2>2
  <2>4. QED
    BY <1>1, <2>1, <2>2, <2>3
<1>4. ASSUME NEW o, UnregisterDB(o) PROVE Moves
  <2>1. DBLimit' = DBLimit /\ o.area \in DBNumbers
    BY <1>4 DEF UnregisterDB
  <2>2. PICK index \in Slots : DB[index] = o.area /\ DB' = [DB EXCEPT ![index] = "none"]
    BY <1>4 DEF UnregisterDB, IndexOfDB
  <2>3. \A i \in Slots : DB'[i] = IF i = index THEN "none" ELSE DB[i]
    BY <1>1, <2>2
  <2>4. o.area # "none"
    BY <2>1, S7ServerAssumption
  <2>5. o.area \in TableDBs
    BY <2>1, <2>2 DEF TableDBs
  <2>6. \A i \in Slots : DB'[i] # o.area
    BY <1>1, <2>2, <2>3, <2>4 DEF TableOnce
  <2>7. o.area \notin TableDBs'
    BY <2>6 DEF TableDBs
  <2>8. QED
    BY <1>1, <2>1, <2>2, <2>3, <2>5, <2>7
<1>5. ASSUME LimitDB PROVE Moves
  <2>1. app.index \in Slots /\ DBLimit' = NewLimit(app.index) /\ DB' = DB
    BY <1>5 DEF LimitDB, TableIInv, TableTypes
  <2>2. DBLimit' \in Slots /\ DBLimit <= DBLimit'
    BY <2>1, S7ServerAssumption DEF NewLimit, Slots
  <2>3. QED
    BY <2>1, <2>2
<1> HIDE DEF Moves
<1>6. ASSUME NEW o, RegisterSys(o) \/ UnregisterSys(o) \/ LockArea(o) PROVE Moves
  BY <1>2, <1>6 DEF RegisterSys, UnregisterSys, LockArea, tableVars
<1>7. ASSUME CountDB \/ UncountDB \/ UpdateByte \/ UnlockArea PROVE Moves
  BY <1>2, <1>7 DEF CountDB, UncountDB, UpdateByte, UnlockArea, tableVars
<1>8. ASSUME Application PROVE Moves
  <2>1. \/ \E o \in AppOps : RegisterDB(o) \/ RegisterSys(o) \/ UnregisterDB(o) \/ UnregisterSys(o) \/ LockArea(o)
        \/ CountDB \/ LimitDB \/ UncountDB \/ UpdateByte \/ UnlockArea
    BY <1>8 DEF Application, AppStep
  <2>2. QED
    BY <1>3, <1>4, <1>5, <1>6, <1>7, <2>1
<1>9. ASSUME NEW c \in Conns, Serve(c) PROVE Moves
  BY <1>2, <1>9, WorkerKeepsTable DEF Serve
<1>10. ASSUME Connect \/ Perform \/ Fails \/ StationAsks \/ Plc \/ UNCHANGED vars PROVE Moves
  <2>1. UNCHANGED <<DB, DBLimit>>
    BY <1>10 DEF Connect, Perform, Fails, StationAsks, Plc, vars, serverVars, tableVars
  <2>2. QED
    BY <1>2, <2>1
<1>11. QED
  BY <1>8, <1>9, <1>10 DEF Next, Moves

\* While a job is under way, its history goes on with the table.
LEMMA TableGoesOnNext ==
  ASSUME TableIInv, DBLimit \in Slots, [Next]_vars, jobs' = jobs
  PROVE  TableGoesOn
<1>1. CASE Next
  <2>1. stable' \subseteq stable /\ seen \subseteq seen' /\ gone' = gone \cup (TableDBs \ TableDBs')
    BY <1>1 DEF Next, Record
  <2>2. QED
    BY <1>1, <2>1, TableMoves DEF TableGoesOn
<1>2. CASE UNCHANGED vars
  BY <1>2, TableMoves DEF TableGoesOn, vars, history, serverVars, tableVars
<1>3. QED
  BY <1>1, <1>2

\* Blocks are numbers, no block twice; "registered" means a place in the table.
LEMMA TablePlaces ==
  ASSUME TableIInv, DBLimit \in Slots
  PROVE  /\ \A i \in Slots : DB[i] \in DBNumbers \cup {"none"}
         /\ "none" \notin DBNumbers /\ "PE" \notin DBNumbers
         /\ \A i, j \in Slots : DB[i] = DB[j] /\ DB[i] # "none" => i = j
         /\ \A a \in RegisteredDBs : a \in DBNumbers /\ \E i \in Slots : i <= DBLimit /\ DB[i] = a
         /\ DBLimit \in Nat /\ DBLimit <= MaxDB - 1 /\ MaxDB \in Nat \ {0}
<1>1. MaxDB \in Nat \ {0} /\ "none" \notin DBNumbers /\ "PE" \notin DBNumbers
  BY S7ServerAssumption DEF SysAreas
<1>2. \A a \in RegisteredDBs : a \in DBNumbers /\ \E i \in Slots : i <= DBLimit /\ DB[i] = a
  BY DEF RegisteredDBs, Registered, IndexOfDB
<1>3. DBLimit \in Nat /\ DBLimit <= MaxDB - 1
  BY <1>1 DEF Slots
<1>4. QED
  BY <1>1, <1>2, <1>3 DEF TableIInv, TableTypes, TableOnce

\* What is said of entries stays true while blocks come and go.
LEMMA OnceStays ==
  ASSUME TableIInv, StableInv, TableGoesOn, NEW got, Once(got)
  PROVE  Once(got)'
<1>1. DBLimit \in Nat /\ DBLimit <= DBLimit' /\ DBLimit' \in Nat /\ DBLimit' <= MaxDB - 1 /\ MaxDB \in Nat
  <2>1. MaxDB \in Nat /\ DBLimit' \in Slots /\ DBLimit <= DBLimit'
    BY TablePlaces DEF TableGoesOn, StableInv
  <2>2. QED
    BY <2>1, TablePlaces DEF StableInv, Slots
<1>2. DBLimit = MaxDB - 1 => DBLimit' = MaxDB - 1
  BY <1>1
<1>3. seen \subseteq seen' /\ gone \subseteq gone'
  BY DEF TableGoesOn
<1>4. QED
  BY <1>2, <1>3 DEF Once, Listed

\* What is listed so far stays right while blocks come and go.
LEMMA SoFarStays ==
  ASSUME TableIInv, StableInv, TableGoesOn, NEW got, NEW p, SoFar(got, p)
  PROVE  SoFar(got, p)'
<1>1. /\ \A i \in Slots :
           \/ DB'[i] = DB[i]
           \/ DB[i] = "none" /\ ~Registered(DB'[i])
           \/ DB'[i] = "none" /\ DB[i] \in gone'
      /\ stable' \subseteq stable /\ gone \subseteq gone'
  BY DEF TableGoesOn
<1>2. \A i \in Slots : DB'[i] \in stable' => Registered(DB'[i]) /\ DB'[i] \in DBNumbers
  BY <1>1 DEF StableInv, RegisteredDBs
<1>3. Reached(got, p)'
  <2> SUFFICES ASSUME NEW i \in Slots, i <= p, DB'[i] \in stable' PROVE DB'[i] \in Listed(got)
    BY DEF Reached, Listed
  <2>1. DB'[i] # "none" /\ Registered(DB'[i]) /\ DB'[i] \in stable
    BY <1>1, <1>2, TablePlaces DEF StableInv
  <2>2. DB'[i] = DB[i]
    BY <1>1, <2>1
  <2>3. QED
    BY <2>1, <2>2 DEF SoFar, Reached
<1>4. InTable(got, p)'
  <2> SUFFICES ASSUME NEW k \in DOMAIN got, got[k] \in DBNumbers \ gone' PROVE \E i \in Slots : i <= p /\ DB'[i] = got[k]
    BY DEF InTable
  <2>1. PICK i \in Slots : i <= p /\ DB[i] = got[k]
    BY <1>1 DEF SoFar, InTable
  <2>2. DB'[i] = DB[i]
    BY <1>1, <2>1, TablePlaces DEF StableInv
  <2>3. QED
    BY <2>1, <2>2
<1>5. QED
  BY <1>3, <1>4, OnceStays DEF SoFar

\* The elements of one sequence followed by another.
LEMMA SeqConcat ==
  ASSUME NEW s, NEW t, IsSeq(s), IsSeq(t)
  PROVE  /\ IsSeq(s \o t) /\ DOMAIN (s \o t) = 1..Len(s) + Len(t)
         /\ \A k \in 1..Len(s) : k \in 1..Len(s) + Len(t) /\ (s \o t)[k] = s[k]
         /\ \A k \in 1..Len(t) : Len(s) + k \in 1..Len(s) + Len(t) /\ (s \o t)[Len(s) + k] = t[k]
         /\ \A k \in 1..Len(s) + Len(t) : k \in 1..Len(s) \/ \E l \in 1..Len(t) : k = Len(s) + l
<1> DEFINE S == {s[i] : i \in DOMAIN s} \cup {t[i] : i \in DOMAIN t}
           u == s \o t
           m == Len(s)
           n == Len(t)
<1>1. s \in Seq(S) /\ t \in Seq(S) /\ m \in Nat /\ n \in Nat
  BY SeqFacts DEF IsSeq
<1>2. /\ u \in Seq(S) /\ Len(u) = m + n
      /\ \A k \in 1..m + n : u[k] = IF k <= m THEN s[k] ELSE t[k - m]
  BY <1>1, ConcatProperties
<1> HIDE DEF u, S, m, n
<1>3. IsSeq(u) /\ DOMAIN u = 1..m + n
  <2>1. DOMAIN u = 1..m + n /\ m + n \in Nat
    BY <1>1, <1>2
  <2>2. u = [k \in 1..m + n |-> u[k]]
    BY <1>2, <2>1
  <2>3. QED
    BY <2>1, <2>2, SeqFunction
<1>4. ASSUME NEW k \in 1..m PROVE k \in 1..m + n /\ u[k] = s[k]
  BY <1>1, <1>2
<1>5. ASSUME NEW k \in 1..n PROVE m + k \in 1..m + n /\ u[m + k] = t[k]
  <2>1. m + k \in 1..m + n /\ ~(m + k <= m) /\ (m + k) - m = k
    BY <1>1
  <2>2. QED
    BY <1>2, <2>1
<1>6. ASSUME NEW k \in 1..m + n, k \notin 1..m PROVE \E l \in 1..n : k = m + l
  <2>1. k - m \in 1..n /\ k = m + (k - m)
    BY <1>1, <1>6
  <2>2. QED
    BY <2>1
<1>7. QED
  BY <1>3, <1>4, <1>5, <1>6 DEF u, m, n

\* New entries come from used places behind p, as far as q, and have every lasting
\* block of these places.
NewEntries(p, n, items, place, q) ==
  /\ n \in Nat /\ items = [k \in 1..n |-> items[k]] /\ (\A k \in 1..n : place[k] \in Int)
  /\ q \in -1..MaxDB /\ p <= q
  /\ \A k, l \in 1..n : place[k] = place[l] => k = l
  /\ \A k \in 1..n : \/ items[k] = "PE" /\ place[k] = MaxDB /\ DBLimit = MaxDB - 1
                     \/ /\ place[k] \in Slots /\ items[k] \in DBNumbers /\ DB[place[k]] = items[k]
                        /\ p < place[k] /\ place[k] <= q
  /\ \A i \in Slots : p < i /\ i <= q /\ DB[i] \in stable => \E k \in 1..n : items[k] = DB[i]

\* No peripheral input is listed by two sequences that list none.
LEMMA ConcatLacks ==
  ASSUME NEW s, NEW t, IsSeq(s), IsSeq(t), "PE" \notin Listed(s), "PE" \notin Listed(t)
  PROVE  "PE" \notin Listed(s \o t)
<1> DEFINE u == s \o t
           m == Len(s)
           n == Len(t)
<1>1. DOMAIN s = 1..m /\ DOMAIN t = 1..n /\ m \in Nat /\ n \in Nat
  BY SeqFacts
<1>2. /\ DOMAIN u = 1..m + n
      /\ \A k \in 1..m : u[k] = s[k]
      /\ \A k \in 1..n : u[m + k] = t[k]
      /\ \A k \in 1..m + n : k \in 1..m \/ \E l \in 1..n : k = m + l
  BY SeqConcat
<1> HIDE DEF u, m, n
<1>3. ASSUME NEW k \in DOMAIN u PROVE u[k] # "PE"
  <2>1. CASE k \in 1..m
    BY <1>1, <1>2, <2>1 DEF Listed
  <2>2. CASE k \notin 1..m
    <3>1. PICK l \in 1..n : k = m + l
      BY <1>2, <2>2
    <3>2. QED
      BY <1>1, <1>2, <3>1 DEF Listed
  <2>3. QED
    BY <2>1, <2>2
<1>4. QED
  BY <1>3 DEF Listed, u

\* They go on with the list.
LEMMA ListGrows ==
  ASSUME TableIInv, StableInv, TableDBs \subseteq seen,
         NEW got, NEW p, SoFar(got, p), "PE" \notin Listed(got),
         NEW n, NEW items, NEW place, NEW q, NewEntries(p, n, items, place, q)
  PROVE  SoFar(got \o items, q)
<1> DEFINE all == got \o items
           m == Len(got)
<1> USE DEF NewEntries
<1>1. IsSeq(got) /\ m \in Nat /\ DOMAIN got = 1..m
  BY SeqFacts DEF SoFar, Once
<1>2. IsSeq(items) /\ Len(items) = n /\ DOMAIN items = 1..n
  BY SeqFunction
<1>3. /\ IsSeq(all) /\ DOMAIN all = 1..m + n
      /\ \A k \in 1..m : k \in 1..m + n /\ all[k] = got[k]
      /\ \A k \in 1..n : m + k \in 1..m + n /\ all[m + k] = items[k]
      /\ \A k \in 1..m + n : k \in 1..m \/ \E l \in 1..n : k = m + l
  <2>1. /\ IsSeq(all) /\ DOMAIN all = 1..m + Len(items)
        /\ \A k \in 1..m : k \in 1..m + Len(items) /\ all[k] = got[k]
        /\ \A k \in 1..Len(items) : m + k \in 1..m + Len(items) /\ all[m + k] = items[k]
        /\ \A k \in 1..m + Len(items) : k \in 1..m \/ \E l \in 1..Len(items) : k = m + l
    BY <1>1, <1>2, SeqConcat
  <2> HIDE DEF all, m
  <2>2. QED
    BY <1>2, <2>1
<1> HIDE DEF all, m
<1>5. DOMAIN all = 1..m + n /\ IsSeq(all)
  BY <1>3
<1>6. (\A k \in 1..m : k \in DOMAIN all /\ all[k] = got[k]) /\ \A k \in 1..n : m + k \in DOMAIN all /\ all[m + k] = items[k]
  BY <1>3
<1>7. \A k \in DOMAIN all : (k \in 1..m /\ all[k] = got[k]) \/ \E l \in 1..n : k = m + l /\ all[k] = items[l]
  BY <1>3
<1>8. Listed(all) = Listed(got) \cup {items[k] : k \in 1..n}
  BY <1>1, <1>6, <1>7 DEF Listed
<1>9. Reached(all, q)
  <2> SUFFICES ASSUME NEW i \in Slots, i <= q, DB[i] \in stable PROVE DB[i] \in Listed(all)
    BY DEF Reached
  <2>1. CASE i <= p
    BY <1>8, <2>1 DEF SoFar, Reached
  <2>2. CASE p < i
    BY <1>8, <2>2
  <2>3. QED
    BY <2>1, <2>2 DEF SoFar, Slots
<1>10. \A k \in 1..n : items[k] \in seen \cup {"PE"}
  BY DEF TableDBs
<1>11. ASSUME NEW k \in 1..m, NEW l \in 1..n, got[k] = items[l], items[l] \notin gone PROVE FALSE
  <2>1. got[k] \in Listed(got)
    BY <1>1 DEF Listed
  <2>2. place[l] \in Slots /\ items[l] \in DBNumbers /\ DB[place[l]] = items[l] /\ p < place[l]
    BY <1>11, <2>1
  <2>3. PICK i \in Slots : i <= p /\ DB[i] = got[k]
    BY <1>1, <1>11, <2>2 DEF SoFar, InTable
  <2>4. i = place[l]
    BY <1>11, <2>2, <2>3, TablePlaces DEF StableInv
  <2>5. QED
    BY <2>2, <2>3, <2>4 DEF SoFar, Slots
<1>12. ASSUME NEW k \in 1..n, NEW l \in 1..n, items[k] = items[l] PROVE k = l
  <2>1. "PE" \notin DBNumbers /\ "none" \notin DBNumbers /\ \A i, j \in Slots : DB[i] = DB[j] /\ DB[i] # "none" => i = j
    BY TablePlaces DEF StableInv
  <2>2. place[k] = place[l]
    BY <1>12, <2>1
  <2>3. QED
    BY <2>2
<1>13. Once(all)
  <2>1. Listed(all) \subseteq seen \cup {"PE"}
    BY <1>8, <1>10 DEF SoFar, Once
  <2>2. "PE" \in Listed(all) => DBLimit = MaxDB - 1
    <3>1. "PE" \notin DBNumbers
      BY TablePlaces DEF StableInv
    <3>2. QED
      BY <1>8, <3>1
  <2>3. ASSUME NEW k \in DOMAIN all, NEW l \in DOMAIN all, all[k] = all[l], all[k] \notin gone PROVE k = l
    <3>1. CASE k \in 1..m /\ l \in 1..m
      BY <1>1, <1>6, <2>3, <3>1 DEF SoFar, Once
    <3>2. CASE k \notin 1..m /\ l \notin 1..m
      BY <1>7, <1>12, <2>3, <3>2
    <3>3. CASE k \in 1..m /\ l \notin 1..m
      BY <1>6, <1>7, <1>11, <2>3, <3>3
    <3>4. CASE k \notin 1..m /\ l \in 1..m
      <4>1. PICK x \in 1..n : all[k] = items[x]
        BY <1>7, <3>4
      <4>2. got[l] = items[x] /\ items[x] \notin gone
        BY <1>6, <2>3, <3>4, <4>1
      <4>3. QED
        BY <1>11, <3>4, <4>2
    <3>5. QED
      BY <3>1, <3>2, <3>3, <3>4
  <2>4. QED
    BY <1>5, <2>1, <2>2, <2>3 DEF Once
<1>14. InTable(all, q)
  <2> SUFFICES ASSUME NEW k \in DOMAIN all, all[k] \in DBNumbers \ gone PROVE \E i \in Slots : i <= q /\ DB[i] = all[k]
    BY DEF InTable
  <2>1. CASE k \in 1..m
    <3>1. PICK i \in Slots : i <= p /\ DB[i] = got[k]
      BY <1>1, <1>6, <2>1 DEF SoFar, InTable
    <3>2. i <= q
      BY <3>1 DEF SoFar, Slots
    <3>3. QED
      BY <1>6, <2>1, <3>1, <3>2
  <2>2. CASE k \notin 1..m
    <3>1. PICK l \in 1..n : all[k] = items[l]
      BY <1>7, <2>2
    <3>2. items[l] # "PE"
      BY <3>1, TablePlaces DEF StableInv
    <3>3. QED
      BY <3>1, <3>2
  <2>3. QED
    BY <2>1, <2>2
<1>15. QED
  BY <1>9, <1>13, <1>14 DEF SoFar, all

\* The places a scan finds, and what stands in them.
LEMMA ScanItems ==
  ASSUME TableIInv, DBLimit \in Slots, NEW p \in -1..MaxDB, NEW max \in Int
  PROVE  \A i \in Scanned(p, max) :
           /\ i \in Int /\ p < i /\ i <= DBLimit + 1
           /\ \/ TableAt(i) = "PE" /\ i = MaxDB /\ DBLimit = MaxDB - 1
              \/ i \in Slots /\ TableAt(i) \in DBNumbers /\ DB[i] = TableAt(i)
<1> SUFFICES ASSUME NEW i \in Scanned(p, max)
             PROVE  /\ i \in Int /\ p < i /\ i <= DBLimit + 1
                    /\ \/ TableAt(i) = "PE" /\ i = MaxDB /\ DBLimit = MaxDB - 1
                       \/ i \in Slots /\ TableAt(i) \in DBNumbers /\ DB[i] = TableAt(i)
  OBVIOUS
<1>1. i \in p + 1..DBLimit + 1 /\ TableAt(i) # "none"
  BY DEF Scanned
<1>2. p \in Int /\ MaxDB \in Nat /\ DBLimit \in Nat /\ DBLimit <= MaxDB - 1
  BY TablePlaces
<1>3. i \in Nat /\ p < i /\ i <= DBLimit + 1 /\ i <= MaxDB
  BY <1>1, <1>2
<1>4. CASE i \in Slots
  BY <1>1, <1>3, <1>4, TablePlaces DEF TableAt
<1>5. CASE i \notin Slots
  <2>1. i = MaxDB /\ DBLimit = MaxDB - 1
    BY <1>2, <1>3, <1>5 DEF Slots
  <2>2. TableAt(i) = "PE"
    BY <1>1, <1>5 DEF TableAt
  <2>3. QED
    BY <1>3, <2>1, <2>2
<1>6. QED
  BY <1>4, <1>5

\* A scan from the place the list has reached goes on with it as far as its last
\* entry, or to the end of the table.
LEMMA ScanGoesOn ==
  ASSUME TableIInv, StableInv, TableDBs \subseteq seen,
         NEW got, NEW p, SoFar(got, p), "PE" \notin Listed(got),
         NEW max \in Int, NEW found, found = Scanned(p, max), found # {},
         NEW s, s = InOrder(found), NEW items, items = [k \in DOMAIN s |-> TableAt(s[k])],
         NEW last, last = IF Len(s) = max THEN s[max] ELSE DBLimit + 1
  PROVE  /\ IsSeq(items) /\ items # <<>>
         /\ IF Len(s) < max \/ last = DBLimit + 1
              THEN SoFar(got \o items, MaxDB)
              ELSE SoFar(got \o items, last) /\ "PE" \notin Listed(got \o items)
<1> DEFINE n == Cardinality(found)
           U == Used(p)
<1>1. p \in -1..MaxDB /\ p \in Nat \cup {-1} /\ DBLimit \in Nat /\ DBLimit <= MaxDB - 1 /\ MaxDB \in Nat
  BY TablePlaces DEF SoFar, StableInv
<1>2. /\ found \subseteq U /\ U \subseteq Nat /\ IsFiniteSet(found)
      /\ (n < max => found = U) /\ n <= max
      /\ \A i \in U, j \in found : i <= j => i \in found
  BY <1>1, ScanFinds
<1>3. /\ Len(s) = n /\ DOMAIN s = 1..n /\ n \in Nat
      /\ \A k \in 1..n : s[k] \in found
      /\ \A i \in found : \E k \in 1..n : s[k] = i
      /\ \A k, l \in 1..n : s[k] = s[l] => k = l
      /\ n > 0 => \A i \in found : i <= s[n]
      /\ s # <<>>
  <2>1. found \subseteq Nat /\ IsFiniteSet(found)
    BY <1>2
  <2> DEFINE f == InOrder(found)
  <2>2. /\ Len(f) = n /\ DOMAIN f = 1..n /\ n \in Nat
        /\ \A k \in 1..n : f[k] \in found
        /\ \A i \in found : \E k \in 1..n : f[k] = i
        /\ \A k, l \in 1..n : f[k] = f[l] => k = l
        /\ n > 0 => \A i \in found : i <= f[n]
        /\ f # <<>> <=> found # {}
    BY <2>1, InOrderAll
  <2>3. s = f
    OBVIOUS
  <2> HIDE DEF f
  <2>4. QED
    BY <2>2, <2>3
<1>4. n > 0
  BY <1>3
<1> HIDE DEF n, U
<1>5. items = [k \in 1..n |-> items[k]] /\ IsSeq(items) /\ items # <<>> /\ \A k \in 1..n : items[k] = TableAt(s[k])
  <2>1. items = [k \in 1..n |-> items[k]] /\ \A k \in 1..n : items[k] = TableAt(s[k])
    BY <1>3
  <2>2. QED
    BY <1>3, <1>4, <2>1, SeqFunction
<1>6. \A k \in 1..n : /\ s[k] \in Int /\ p < s[k] /\ s[k] <= DBLimit + 1
                      /\ \/ items[k] = "PE" /\ s[k] = MaxDB /\ DBLimit = MaxDB - 1
                         \/ s[k] \in Slots /\ items[k] \in DBNumbers /\ DB[s[k]] = items[k]
  <2> SUFFICES ASSUME NEW k \in 1..n
               PROVE  /\ s[k] \in Int /\ p < s[k] /\ s[k] <= DBLimit + 1
                      /\ \/ items[k] = "PE" /\ s[k] = MaxDB /\ DBLimit = MaxDB - 1
                         \/ s[k] \in Slots /\ items[k] \in DBNumbers /\ DB[s[k]] = items[k]
    OBVIOUS
  <2>1. s[k] \in Scanned(p, max)
    BY <1>3
  <2>2. QED
    BY <1>1, <1>5, <2>1, ScanItems DEF StableInv
<1>7. ASSUME NEW i \in Slots, p < i, DB[i] \in stable PROVE i \in U /\ i <= DBLimit /\ DB[i] = TableAt(i) /\ DB[i] \in DBNumbers
  <2>1. DB[i] \in RegisteredDBs
    BY <1>7 DEF StableInv
  <2>2. DB[i] \in DBNumbers /\ DB[i] # "none"
    BY <2>1, TablePlaces DEF StableInv
  <2>3. PICK j \in Slots : j <= DBLimit /\ DB[j] = DB[i]
    BY <2>1, TablePlaces DEF StableInv
  <2>4. i = j
    BY <2>2, <2>3, TablePlaces DEF StableInv
  <2>5. TableAt(i) = DB[i]
    BY DEF TableAt
  <2>6. i \in p + 1..DBLimit + 1
    BY <1>1, <1>7, <2>3, <2>4 DEF Slots
  <2>7. QED
    BY <2>2, <2>3, <2>4, <2>5, <2>6 DEF U, Used
<1>8. ASSUME NEW i \in Slots, DB[i] = TableAt(i), i \in found PROVE \E k \in 1..n : items[k] = DB[i]
  <2>1. PICK k \in 1..n : s[k] = i
    BY <1>3, <1>8
  <2>2. QED
    BY <1>5, <1>8, <2>1
<1>9. CASE n < max \/ last = DBLimit + 1
  <2>1. \A i \in U : i \in found
    <3>1. CASE n < max
      BY <1>2, <3>1
    <3>2. CASE ~(n < max)
      <4>1. n = max /\ s[n] = DBLimit + 1
        BY <1>2, <1>3, <1>9, <3>2
      <4>2. s[n] \in found /\ \A i \in U : i <= s[n]
        <5>1. n \in 1..n
          BY <1>3, <1>4
        <5>2. \A i \in U : i <= DBLimit + 1
          BY <1>1 DEF U, Used
        <5>3. QED
          BY <1>3, <4>1, <5>1, <5>2
      <4>3. QED
        BY <1>2, <4>2
    <3>3. QED
      BY <3>1, <3>2
  <2>2. MaxDB \in -1..MaxDB /\ p <= MaxDB
    BY <1>1
  <2>3. \A i \in Slots : p < i /\ i <= MaxDB /\ DB[i] \in stable => \E k \in 1..n : items[k] = DB[i]
    BY <1>7, <1>8, <2>1
  <2>4. \A k \in 1..n : s[k] \in Slots => s[k] <= MaxDB
    BY <1>1 DEF Slots
  <2>5. SoFar(got \o items, MaxDB)
    <3>1. \A k \in 1..n : \/ items[k] = "PE" /\ s[k] = MaxDB /\ DBLimit = MaxDB - 1
                          \/ /\ s[k] \in Slots /\ items[k] \in DBNumbers /\ DB[s[k]] = items[k]
                             /\ p < s[k] /\ s[k] <= MaxDB
      BY <1>6, <2>4
    <3>2. (\A k \in 1..n : s[k] \in Int) /\ n \in Nat /\ items = [k \in 1..n |-> items[k]]
      BY <1>3, <1>5, <1>6
    <3>3. \A k, l \in 1..n : s[k] = s[l] => k = l
      BY <1>3
    <3>4. NewEntries(p, n, items, s, MaxDB)
      BY <2>2, <2>3, <3>1, <3>2, <3>3 DEF NewEntries
    <3>5. QED
      BY <3>4, ListGrows
  <2>6. QED
    BY <1>3, <1>5, <1>9, <2>5
<1>10. CASE ~(n < max \/ last = DBLimit + 1)
  <2>1. n = max /\ last = s[n] /\ n \in 1..n
    BY <1>2, <1>3, <1>4, <1>10
  <2>2. last \in Int /\ p < last /\ last <= DBLimit /\ last \in found /\ \A i \in found : i <= last
    <3>1. last \in Int /\ p < last /\ last <= DBLimit + 1 /\ last # DBLimit + 1
      BY <1>6, <1>10, <2>1
    <3>2. last \in found /\ \A i \in found : i <= last
      BY <1>3, <1>4, <2>1
    <3>3. QED
      BY <1>1, <3>1, <3>2
  <2>3. \A k \in 1..n : s[k] <= last
    BY <1>3, <2>2
  <2>4. \A k \in 1..n : items[k] # "PE"
    <3> SUFFICES ASSUME NEW k \in 1..n, items[k] = "PE" PROVE FALSE
      OBVIOUS
    <3>1. s[k] = MaxDB
      BY <1>6, TablePlaces DEF StableInv
    <3>2. QED
      BY <1>1, <2>2, <2>3, <3>1
  <2>5. \A i \in Slots : p < i /\ i <= last /\ DB[i] \in stable => \E k \in 1..n : items[k] = DB[i]
    BY <1>2, <1>7, <1>8, <2>2
  <2>6. last \in -1..MaxDB /\ p <= last
    BY <1>1, <2>2
  <2>7. SoFar(got \o items, last)
    <3>1. \A k \in 1..n : \/ items[k] = "PE" /\ s[k] = MaxDB /\ DBLimit = MaxDB - 1
                          \/ /\ s[k] \in Slots /\ items[k] \in DBNumbers /\ DB[s[k]] = items[k]
                             /\ p < s[k] /\ s[k] <= last
      BY <1>6, <2>3
    <3>2. (\A k \in 1..n : s[k] \in Int) /\ n \in Nat /\ items = [k \in 1..n |-> items[k]]
      BY <1>3, <1>5, <1>6
    <3>3. \A k, l \in 1..n : s[k] = s[l] => k = l
      BY <1>3
    <3>4. NewEntries(p, n, items, s, last)
      BY <2>5, <2>6, <3>1, <3>2, <3>3 DEF NewEntries
    <3>5. QED
      BY <3>4, ListGrows
  <2>8. "PE" \notin Listed(got \o items)
    <3>1. IsSeq(got) /\ DOMAIN items = 1..n
      BY <1>3, <1>5, SeqFacts DEF SoFar, Once
    <3>2. "PE" \notin Listed(items)
      BY <2>4, <3>1 DEF Listed
    <3> DEFINE t == items
    <3>3. IsSeq(t) /\ "PE" \notin Listed(t)
      BY <1>5, <3>2
    <3> HIDE DEF t
    <3>4. "PE" \notin Listed(got \o t)
      BY <3>1, <3>3, ConcatLacks
    <3>5. QED
      BY <3>4 DEF t
  <2>9. QED
    BY <1>3, <1>5, <1>10, <2>7, <2>8
<1>11. QED
  BY <1>9, <1>10

-----------------------------------------------------------------------------
(* Lists of data blocks: requests, answers and what the caller gets.       *)

\* What an answer adds to the entries so far, with the place reached by the worker.
ListGoes(got, a, cnt) ==
  a.error = "ok" =>
    /\ IsSeq(a.items)
    /\ IF a.more THEN SoFar(got \o a.items, cnt) /\ "PE" \notin Listed(got \o a.items)
       ELSE SoFar(got \o a.items, MaxDB)
Asks(got, r, cnt) ==
  r.first \in BOOLEAN /\ IF r.first THEN got = <<>> ELSE SoFar(got, cnt) /\ "PE" \notin Listed(got)

\* The request of a list is on its way or answered; the entries so far are in the
\* internal buffer, the place they reach is in the worker.
ListExchange ==
  run = "listbot" =>
    /\ job.amount \in Nat \ {0} /\ out = <<>> /\ IsSeq(opData) /\ TableDBs \subseteq seen
    /\ request[Me] # Nothing => Asks(opData, request[Me], DBCnt[Me])
    /\ answer[Me] # Nothing => ListGoes(opData, answer[Me], DBCnt[Me])

\* What the caller has got of a list.
ListKept ==
  job.op = "listbot" /\ run # "listbot" => Once(out) /\ (result = "ok" => stable \subseteq Listed(out))

\* A list starts with nothing.
LEMMA NothingListed == "PE" \notin Listed(<<>>) /\ Once(<<>>) /\ SoFar(<<>>, -1)
<1>1. MaxDB \in Nat
  BY S7ServerAssumption
<1>2. IsSeq(<<>>) /\ DOMAIN <<>> = {}
  BY DEF IsSeq
<1>3. Once(<<>>) /\ "PE" \notin Listed(<<>>)
  BY <1>2 DEF Once, Listed
<1>4. Reached(<<>>, -1)
  BY <1>1 DEF Reached, Slots
<1>5. QED
  BY <1>1, <1>2, <1>3, <1>4 DEF SoFar, InTable

\* The worker's answer goes on with the list, for any PDU length.
LEMMA ListBotAnswers ==
  ASSUME SessionInv, TableIInv, StableInv, DOMAIN DBCnt = Conns, TableDBs \subseteq seen,
         BLK_ListBoT(Me), NEW got, Asks(got, request[Me], DBCnt[Me])
  PROVE  request'[Me] = Nothing /\ ListGoes(got, answer'[Me], DBCnt'[Me])
<1> DEFINE first_ == request[Me].first
           type  == IF first_ THEN request[Me].type ELSE LastBlk[Me]
           max   == (FPDULength[Me] - ListHead) \div ListEntry
           p     == ScanFrom(Me, first_)
           found == IF type = "DB" /\ DBCount > 0 THEN Scanned(p, max) ELSE {}
           s     == InOrder(found)
           items == [k \in DOMAIN s |-> TableAt(s[k])]
           last  == IF Len(s) = max THEN s[max] ELSE DBLimit + 1
           done  == Len(s) < max \/ last = DBLimit + 1
           good  == [fun |-> "listbot", error |-> "ok", more |-> ~done, items |-> items]
           bad   == [fun |-> "listbot", error |-> "NoResource", more |-> FALSE, items |-> <<>>]
           cnt   == IF type # "DB" THEN DBCnt[Me] ELSE IF DBCount <= 0 THEN p ELSE IF done THEN 0 ELSE last
<1>1. /\ request' = [request EXCEPT ![Me] = Nothing]
      /\ answer' = [answer EXCEPT ![Me] = IF s # <<>> THEN good ELSE bad]
      /\ DBCnt' = [DBCnt EXCEPT ![Me] = cnt]
  BY DEF BLK_ListBoT, Takes, Send
<1>2. DOMAIN request = Conns /\ DOMAIN answer = Conns /\ Me \in Conns /\ FPDULength[Me] \in Int
  BY MicroClientAssumption, SessionConstants DEF SessionInv, PduTypes, WorkerTypes
<1>3. max \in Int
  <2>1. ListHead \in Int /\ ListEntry \in Nat \ {0}
    BY S7PduAssumption
  <2>2. QED
    BY <1>2, <2>1
<1>4. /\ good.error = "ok" /\ good.more = ~done /\ good.items = items
      /\ bad.error # "ok"
  OBVIOUS
<1>5. DBCnt'[Me] = cnt /\ request'[Me] = Nothing /\ answer'[Me] = IF s # <<>> THEN good ELSE bad
  BY <1>1, <1>2
<1>6. SoFar(got, p) /\ "PE" \notin Listed(got)
  <2>1. CASE first_
    BY <2>1, NothingListed DEF Asks, ScanFrom
  <2>2. CASE ~first_
    BY <2>2 DEF Asks, ScanFrom
  <2>3. QED
    BY <2>1, <2>2
<1> HIDE DEF good, bad, max, p, first_
<1>7. CASE s = <<>>
  BY <1>4, <1>5, <1>7 DEF ListGoes
<1>8. CASE s # <<>>
  <2>1. found # {}
    <3>1. {} \subseteq Nat /\ IsFiniteSet({})
      BY FS_EmptySet
    <3>2. InOrder({}) = <<>>
      BY <3>1, InOrderAll
    <3>3. QED
      BY <1>8, <3>2
  <2>2. type = "DB" /\ DBCount > 0 /\ found = Scanned(p, max)
    BY <2>1
  <2>3. cnt = IF done THEN 0 ELSE last
    <3>1. DBCount \in Int
      BY DEF TableIInv, TableTypes
    <3>2. QED
      BY <2>2, <3>1
  <2> HIDE DEF found, s, items, last
  <2>4. /\ IsSeq(items)
        /\ IF done THEN SoFar(got \o items, MaxDB)
           ELSE SoFar(got \o items, last) /\ "PE" \notin Listed(got \o items)
    BY <1>3, <1>6, <2>1, <2>2, ScanGoesOn DEF s, items, last
  <2>5. answer'[Me].items = items /\ answer'[Me].more = ~done /\ DBCnt'[Me] = cnt
    BY <1>4, <1>5, <1>8
  <2> HIDE DEF done, cnt
  <2>6. QED
    BY <1>5, <2>3, <2>4, <2>5 DEF ListGoes
<1>9. QED
  BY <1>7, <1>8

\* Of the worker's steps a list meets the one that answers it.
LEMMA WorkerLists ==
  ASSUME SessionInv, run = "listbot", WorkerStep(Me)
  PROVE  BLK_ListBoT(Me) \/ UNCHANGED <<pduVars, DBCnt>>
<1>1. ~InRequest(Me)
  <2>1. InRequest(Me) => worker[Me].fun \in AskedBy("listbot")
    BY DEF SessionInv, Paired, Waits
  <2>2. InRequest(Me) => worker[Me].fun \in {"read", "write"}
    BY MicroClientAssumption DEF SessionInv, WorkerTypes, WorkerOK, InRequest
  <2>3. QED
    BY <2>1, <2>2 DEF AskedBy
<1>2. request[Me].fun \in {"none", "listbot"}
  BY DEF SessionInv, Paired, Waits, AskedBy, Nothing
<1>3. \A f : Takes(Me, f) => f \in {"none", "listbot"}
  BY <1>2 DEF Takes
<1>4. BLK_ListBoT(Me) \/ SetCpuStatus(Me)
  <2>1. ~ExecuteRecv(Me) /\ ~IsoPerformCommand(Me) /\ ~PerformGroupProgrammer(Me)
        /\ ~PerformFunctionNegotiate(Me) /\ ~PerformFunctionControl(Me)
    BY <1>3 DEF ExecuteRecv, IsoPerformCommand, PerformGroupProgrammer, PerformFunctionNegotiate, PerformFunctionControl
  <2>2. ~PerformFunctionUpload(Me) /\ ~PerformFunctionDownload(Me) /\ ~PerformGroupSecurity(Me)
        /\ ~PerformGetClock(Me) /\ ~PerformSetClock(Me) /\ ~PerformGroupSZL(Me) /\ ~BLK_ListAll(Me) /\ ~BLK_GetBlkInfo(Me)
    BY <1>3 DEF PerformFunctionUpload, PerformFunctionDownload, PerformGroupSecurity, PerformGetClock,
                PerformSetClock, PerformGroupSZL, BLK_ListAll, BLK_GetBlkInfo
  <2>3. ~PerformFunctionRead(Me) /\ ~PerformFunctionWrite(Me)
    BY <1>3 DEF PerformFunctionRead, PerformFunctionWrite, Serving
  <2>4. ~ReadAreaFind(Me) /\ ~ReadAreaCopy(Me) /\ ~WriteAreaFind(Me) /\ ~WriteAreaCopy(Me)
        /\ ~WriteBitLoad(Me) /\ ~WriteBitStore(Me)
    BY <1>1 DEF InRequest, ReadAreaFind, ReadAreaCopy, WriteAreaFind, WriteAreaCopy, WriteBitLoad, WriteBitStore
  <2>5. QED
    BY <2>1, <2>2, <2>3, <2>4 DEF WorkerStep
<1>5. QED
  BY <1>4 DEF SetCpuStatus

\* The place a list has reached is touched by a new connection and by the answer to it.
LEMMA PlaceReached ==
  ASSUME SessionInv, DOMAIN DBCnt = Conns, [Next]_vars
  PROVE  /\ DOMAIN DBCnt' = Conns
         /\ DBCnt'[Me] = DBCnt[Me] \/ run = "off" \/ (BLK_ListBoT(Me) /\ UNCHANGED clientVars)
<1> DEFINE Kept == DOMAIN DBCnt' = Conns /\ DBCnt'[Me] = DBCnt[Me]
<1>1. ASSUME UNCHANGED DBCnt PROVE Kept
  BY <1>1
<1>2. Me \in Conns
  BY MicroClientAssumption
<1>3. ASSUME Connect PROVE DOMAIN DBCnt' = Conns /\ run = "off"
  BY <1>3 DEF Connect, PeerConnect, NewWorker
<1>4. ASSUME NEW c \in Conns, BLK_ListBoT(c) PROVE DOMAIN DBCnt' = Conns /\ (c # Me => DBCnt'[Me] = DBCnt[Me])
  <2>1. PICK cnt : DBCnt' = [DBCnt EXCEPT ![c] = cnt]
    BY <1>4 DEF BLK_ListBoT
  <2>2. QED
    BY <1>2, <2>1
<1>5. ASSUME NEW c \in Conns, WorkerStep(c), ~BLK_ListBoT(c) PROVE UNCHANGED DBCnt
  <2>1. CASE ExecuteRecv(c) \/ IsoPerformCommand(c) \/ PerformGroupProgrammer(c)
             \/ PerformFunctionNegotiate(c) \/ PerformFunctionControl(c) \/ SetCpuStatus(c)
    BY <2>1 DEF ExecuteRecv, IsoPerformCommand, PerformGroupProgrammer, PerformFunctionNegotiate,
                PerformFunctionControl, SetCpuStatus, serverVars, workerVars
  <2>2. CASE PerformFunctionUpload(c) \/ PerformFunctionDownload(c) \/ PerformGroupSecurity(c) \/ PerformGetClock(c)
             \/ PerformSetClock(c) \/ PerformGroupSZL(c) \/ BLK_ListAll(c) \/ BLK_GetBlkInfo(c)
    BY <2>2 DEF PerformFunctionUpload, PerformFunctionDownload, PerformGroupSecurity, PerformGetClock,
                PerformSetClock, PerformGroupSZL, BLK_ListAll, BLK_GetBlkInfo, serverVars, workerVars
  <2>3. CASE PerformFunctionRead(c) \/ PerformFunctionWrite(c)
    BY <2>3 DEF PerformFunctionRead, PerformFunctionWrite, Serving
  <2>4. CASE ReadAreaFind(c) \/ ReadAreaCopy(c) \/ WriteAreaFind(c)
    BY <2>4 DEF ReadAreaFind, ReadAreaCopy, WriteAreaFind
  <2>5. CASE WriteAreaCopy(c) \/ WriteBitLoad(c) \/ WriteBitStore(c)
    BY <2>5 DEF WriteAreaCopy, WriteBitLoad, WriteBitStore
  <2>6. QED
    BY <1>5, <2>1, <2>2, <2>3, <2>4, <2>5 DEF WorkerStep
<1>6. ASSUME NEW o, RegisterDB(o) \/ RegisterSys(o) \/ UnregisterDB(o) \/ UnregisterSys(o) \/ LockArea(o)
      PROVE  UNCHANGED DBCnt
  BY <1>6 DEF RegisterDB, RegisterSys, UnregisterDB, UnregisterSys, LockArea, workerVars
<1>7. ASSUME CountDB \/ LimitDB \/ UncountDB \/ UpdateByte \/ UnlockArea PROVE UNCHANGED DBCnt
  BY <1>7 DEF CountDB, LimitDB, UncountDB, UpdateByte, UnlockArea, workerVars
<1>8. ASSUME Application PROVE UNCHANGED DBCnt
  <2>1. \/ \E o \in AppOps : RegisterDB(o) \/ RegisterSys(o) \/ UnregisterDB(o) \/ UnregisterSys(o) \/ LockArea(o)
        \/ CountDB \/ LimitDB \/ UncountDB \/ UpdateByte \/ UnlockArea
    BY <1>8 DEF Application, AppStep
  <2>2. QED
    BY <1>6, <1>7, <2>1
<1>9. ASSUME Perform \/ Fails \/ StationAsks \/ Plc \/ UNCHANGED vars PROVE UNCHANGED DBCnt
  BY <1>9 DEF Perform, Fails, StationAsks, Plc, vars, serverVars, workerVars
<1>10. ASSUME NEW c \in Conns, Serve(c) PROVE Kept \/ (DOMAIN DBCnt' = Conns /\ BLK_ListBoT(Me) /\ UNCHANGED clientVars)
  <2>1. WorkerStep(c) /\ UNCHANGED clientVars
    BY <1>10 DEF Serve
  <2>2. CASE BLK_ListBoT(c)
    BY <1>4, <2>1, <2>2
  <2>3. CASE ~BLK_ListBoT(c)
    BY <1>1, <1>5, <2>1, <2>3
  <2>4. QED
    BY <2>2, <2>3
<1>11. QED
  BY <1>1, <1>3, <1>8, <1>9, <1>10 DEF Next

\* What is said of an answer stays true while blocks come and go.
LEMMA GoesStays ==
  ASSUME TableIInv, StableInv, TableGoesOn, NEW got, NEW a, NEW cnt, ListGoes(got, a, cnt)
  PROVE  ListGoes(got, a, cnt)'
BY SoFarStays DEF ListGoes, Listed

\* So does what is said of a request.
LEMMA AsksStays ==
  ASSUME TableIInv, StableInv, TableGoesOn, NEW got, NEW r, NEW cnt, Asks(got, r, cnt)
  PROVE  Asks(got, r, cnt)'
BY SoFarStays DEF Asks, Listed

\* A list that has reached the end has every lasting block; what the caller has room
\* for is said rightly too.
LEMMA ListEnds ==
  ASSUME TableIInv, StableInv, NEW got, SoFar(got, MaxDB), NEW n \in Nat
  PROVE  /\ Once(Upto(got, n))
         /\ ~(Len(got) > n) => stable \subseteq Listed(Upto(got, n))
<1> DEFINE m == Least(n, Len(got))
           u == SubSeq(got, 1, m)
<1>1. IsSeq(got) /\ Once(got) /\ Len(got) \in Nat /\ DOMAIN got = 1..Len(got)
  BY SeqFacts DEF SoFar, Once
<1>2. m \in Nat /\ m <= Len(got)
  BY <1>1 DEF Least
<1>3. DOMAIN u = 1..m /\ IsSeq(u) /\ \A k \in 1..m : k \in DOMAIN got /\ u[k] = got[k]
  <2>1. u = [k \in 1..m |-> got[k]]
    BY <1>1, <1>2
  <2>2. \A k \in 1..m : k \in DOMAIN got
    BY <1>1, <1>2
  <2> HIDE DEF u, m
  <2>3. DOMAIN u = 1..m /\ u = [k \in 1..m |-> u[k]]
    BY <2>1
  <2>4. QED
    BY <1>2, <2>1, <2>2, <2>3, SeqFunction
<1>4. Upto(got, n) = u
  BY DEF Upto
<1> HIDE DEF u, m
<1>5. Once(u)
  <2>1. Listed(u) \subseteq Listed(got)
    BY <1>3 DEF Listed
  <2>2. \A k, l \in DOMAIN u : u[k] = u[l] /\ u[k] \notin gone => k = l
    BY <1>1, <1>3 DEF Once
  <2>3. QED
    BY <1>1, <1>3, <2>1, <2>2 DEF Once
<1>6. ASSUME ~(Len(got) > n) PROVE stable \subseteq Listed(u)
  <2>1. m = Len(got)
    BY <1>1, <1>6 DEF m, Least
  <2>2. Listed(u) = Listed(got)
    BY <1>1, <1>3, <2>1 DEF Listed
  <2>3. ASSUME NEW a \in stable PROVE a \in Listed(got)
    <3>1. PICK i \in Slots : DB[i] = a
      BY TablePlaces DEF StableInv
    <3>2. i <= MaxDB
      BY <3>1, S7ServerAssumption DEF Slots
    <3>3. QED
      BY <3>1, <3>2 DEF SoFar, Reached
  <2>4. QED
    BY <2>2, <2>3
<1>7. QED
  BY <1>4, <1>5, <1>6

\* What the proof about lists starts from, and adds.
ListBase == BaseInv /\ TableIInv /\ StableInv /\ DOMAIN DBCnt = Conns
ListInv == ListBase /\ ListExchange /\ ListKept

\* Initially nothing is listed.
LEMMA InitList == Init => ListInv
<1> SUFFICES ASSUME Init PROVE StableInv /\ DOMAIN DBCnt = Conns /\ ListExchange /\ ListKept
  BY InitBase, InitTable DEF ListInv, ListBase
<1>1. run = "off" /\ job = [op |-> "none"] /\ stable = {} /\ DBCnt = [c \in Conns |-> 0]
  BY DEF Init, InitClient, InitServer
<1>2. DBLimit \in Slots
  <2>1. PICK t \in InitialDBs : DBLimit = IF t = <<>> THEN 0 ELSE Len(t) - 1
    BY DEF Init, InitServer
  <2>2. Len(t) \in Nat /\ Len(t) <= MaxDB /\ MaxDB \in Nat \ {0} /\ (t # <<>> => Len(t) > 0)
    <3>1. t \in Seq(DBNumbers \cup {"none"})
      BY S7ServerAssumption
    <3>2. QED
      BY <3>1, EmptySeq, S7ServerAssumption
  <2>3. QED
    BY <2>1, <2>2 DEF Slots
<1>3. QED
  BY <1>1, <1>2 DEF StableInv, ListExchange, ListKept

\* The history is one of the table's blocks.
LEMMA StableNext ==
  ASSUME TableIInv, StableInv, [Next]_vars
  PROVE  StableInv'
<1>1. DBLimit' \in Slots
  BY TableMoves DEF StableInv
<1>2. stable' \subseteq RegisteredDBs'
  <2>1. CASE Next
    BY <2>1 DEF Next, Record
  <2>2. CASE UNCHANGED vars
    BY <2>2 DEF vars, history, serverVars, tableVars, StableInv, RegisteredDBs, Registered, IndexOfDB
  <2>3. QED
    BY <2>1, <2>2
<1>3. QED
  BY <1>1, <1>2 DEF StableInv

\* Every block of the table has been seen by the job in hand.
LEMMA SeenNext ==
  ASSUME [Next]_vars, TableDBs \subseteq seen
  PROVE  TableDBs' \subseteq seen'
<1>1. CASE Next
  BY <1>1 DEF Next, Record
<1>2. CASE UNCHANGED vars
  <2>1. DB' = DB /\ seen' = seen /\ TableDBs \subseteq seen
    BY <1>2 DEF vars, history, serverVars, tableVars, Next
  <2>2. QED
    BY <2>1 DEF TableDBs
<1>3. QED
  BY <1>1, <1>2

\* What is to be shown of the exchange after a step.
LEMMA ListExchangeAfter ==
  ASSUME NEW got, NEW r, NEW a, NEW cnt, got = opData', r = request'[Me], a = answer'[Me], cnt = DBCnt'[Me],
         job'.amount \in Nat \ {0}, out' = <<>>, IsSeq(got), TableDBs' \subseteq seen',
         r # Nothing => Asks(got, r, cnt)',
         a # Nothing => ListGoes(got, a, cnt)'
  PROVE  ListExchange'
<1>1. request'[Me] # Nothing => Asks(opData, request[Me], DBCnt[Me])'
  BY DEF Asks, SoFar, Reached, Once, InTable, Listed, TableDBs
<1>2. answer'[Me] # Nothing => ListGoes(opData, answer[Me], DBCnt[Me])'
  <2> SUFFICES ASSUME a # Nothing, a.error = "ok"
               PROVE  /\ IsSeq(answer'[Me].items)
                      /\ IF answer'[Me].more THEN SoFar(opData \o answer[Me].items, DBCnt[Me])' /\ "PE" \notin Listed(opData \o answer[Me].items)'
                         ELSE SoFar(opData \o answer[Me].items, MaxDB)'
    BY DEF ListGoes
  <2> DEFINE all == got \o a.items
  <2>1. all = (opData \o answer[Me].items)'
    OBVIOUS
  <2>2. IsSeq(a.items) /\ IF a.more THEN SoFar(all, cnt)' /\ "PE" \notin Listed(all)' ELSE SoFar(all, MaxDB)'
    BY DEF ListGoes
  <2> HIDE DEF all
  <2>3. CASE a.more
    <3>1. SoFar(all, cnt)' /\ "PE" \notin Listed(all)'
      BY <2>2, <2>3
    <3>2. SoFar(opData \o answer[Me].items, DBCnt[Me])'
      BY <2>1, <3>1 DEF SoFar, Reached, Once, InTable, Listed
    <3>3. "PE" \notin Listed(opData \o answer[Me].items)'
      BY <2>1, <3>1 DEF Listed
    <3>4. QED
      BY <2>2, <2>3, <3>2, <3>3
  <2>4. CASE ~a.more
    <3>1. SoFar(all, MaxDB)'
      BY <2>2, <2>4
    <3>2. SoFar(opData \o answer[Me].items, MaxDB)'
      BY <2>1, <3>1 DEF SoFar, Reached, Once, InTable, Listed
    <3>3. QED
      BY <2>2, <2>4, <3>2
  <2>5. QED
    BY <2>3, <2>4
<1>3. QED
  BY <1>1, <1>2 DEF ListExchange, TableDBs

\* The exchange of a list after a step that leaves the job alone.
LEMMA ListServed ==
  ASSUME ListBase, ListExchange, run = "listbot", UNCHANGED clientVars, [Next]_vars,
         MeStays \/ WorkerStep(Me) \/ PlcStep
  PROVE  ListExchange'
<1>1. /\ UNCHANGED <<job, run, out, opData, jobs>>
      /\ job.amount \in Nat \ {0} /\ out = <<>> /\ IsSeq(opData) /\ TableDBs \subseteq seen
  BY DEF clientVars, ListExchange
<1>2. TableGoesOn /\ TableDBs' \subseteq seen'
  BY <1>1, TableGoesOnNext, SeenNext DEF ListBase, StableInv
<1>3. /\ request'[Me] # Nothing => Asks(opData, request'[Me], DBCnt'[Me])
      /\ answer'[Me] # Nothing => ListGoes(opData, answer'[Me], DBCnt'[Me])
  <2>1. CASE BLK_ListBoT(Me)
    <3>1. request[Me] # Nothing
      BY <2>1 DEF BLK_ListBoT, Takes, Nothing
    <3>2. Asks(opData, request[Me], DBCnt[Me])
      BY <3>1 DEF ListExchange
    <3>3. request'[Me] = Nothing /\ ListGoes(opData, answer'[Me], DBCnt'[Me])
      BY <1>1, <2>1, <3>2, ListBotAnswers DEF ListBase, BaseInv
    <3>4. QED
      BY <3>3
  <2>2. CASE ~BLK_ListBoT(Me)
    <3>1. DBCnt'[Me] = DBCnt[Me]
      BY <2>2, PlaceReached DEF ListBase, BaseInv
    <3>2. request'[Me] = request[Me] /\ answer'[Me] = answer[Me]
      <4>1. ~PlcStep
        BY PlcForMe DEF ListBase, BaseInv, Reported
      <4>2. WorkerStep(Me) => UNCHANGED pduVars
        BY <2>2, WorkerLists DEF ListBase, BaseInv
      <4>3. QED
        BY <4>1, <4>2 DEF MeStays, pduVars
    <3>3. QED
      BY <3>1, <3>2 DEF ListExchange
  <2>3. QED
    BY <2>1, <2>2
<1>4. PICK got, r, a, cnt : got = opData /\ r = request'[Me] /\ a = answer'[Me] /\ cnt = DBCnt'[Me]
  OBVIOUS
<1>5. r # Nothing => Asks(got, r, cnt)'
  <2>1. r # Nothing => Asks(got, r, cnt)
    BY <1>3, <1>4
  <2>2. QED
    BY <1>2, <2>1, AsksStays DEF ListBase
<1>6. a # Nothing => ListGoes(got, a, cnt)'
  <2>1. a # Nothing => ListGoes(got, a, cnt)
    BY <1>3, <1>4
  <2>2. QED
    BY <1>2, <2>1, GoesStays DEF ListBase
<1>7. QED
  BY <1>1, <1>2, <1>4, <1>5, <1>6, ListExchangeAfter

\* What the caller has been told stays true while blocks come and go.
LEMMA KeptStays ==
  ASSUME ListBase, TableGoesOn, job'.op = "listbot" /\ run' # "listbot" => Once(out') /\ (result' = "ok" => stable \subseteq Listed(out'))
  PROVE  ListKept'
<1>1. PICK got : got = out'
  OBVIOUS
<1>2. Once(got) => Once(got)'
  BY OnceStays DEF ListBase
<1>3. stable' \subseteq stable
  BY DEF TableGoesOn
<1>4. SUFFICES ASSUME job'.op = "listbot", run' # "listbot" PROVE Once(out)' /\ (result' = "ok" => stable' \subseteq Listed(out'))
  BY DEF ListKept, Listed
<1>5. Once(got)' /\ (result' = "ok" => stable' \subseteq Listed(got))
  BY <1>1, <1>2, <1>3, <1>4
<1>6. Once(out)'
  BY <1>1, <1>5 DEF Once, Listed
<1>7. QED
  BY <1>1, <1>5, <1>6

\* An answer to a list arrives: the list goes on, or the job ends.
LEMMA ListSlice ==
  ASSUME ListBase, ListExchange, UNCHANGED serverVars, ListSliceDone, [Next]_vars
  PROVE  ListExchange' /\ ListKept'
<1> DEFINE a0 == answer[Me]
           more0 == [fun |-> "listbot", first |-> FALSE]
<1>1. /\ run = "listbot" /\ answer[Me] # Nothing /\ UNCHANGED <<job, jobs>> /\ DBCnt' = DBCnt
      /\ job.amount \in Nat \ {0} /\ out = <<>> /\ TableDBs \subseteq seen /\ IsSeq(opData)
      /\ ListGoes(opData, a0, DBCnt[Me])
  BY DEF ListSliceDone, Answered, ListExchange, serverVars, workerVars
<1>2. TableGoesOn /\ TableDBs' \subseteq seen'
  BY <1>1, TableGoesOnNext, SeenNext DEF ListBase, StableInv
<1>3. TableIInv /\ StableInv /\ SessionInv /\ request[Me] = Nothing
  BY <1>1 DEF ListBase, BaseInv, SessionInv, Paired, Waits
<1>4. CASE a0.error # "ok"
  <2>1. Returns("errCliItemNotAvailable") /\ out' = out
    BY <1>4 DEF ListSliceDone
  <2>2. run' = "idle" /\ result' = "errCliItemNotAvailable"
    BY <1>3, <2>1, ReturnsMe
  <2>3. ListExchange'
    BY <2>2 DEF ListExchange
  <2>4. QED
    BY <1>1, <1>2, <2>1, <2>2, <2>3, KeptStays, NothingListed
<1>5. CASE a0.error = "ok" /\ a0.more
  <2>1. opData' = opData \o a0.items /\ out' = out /\ Ask("listbot", more0)
    BY <1>5 DEF ListSliceDone
  <2>2. run' = "listbot" /\ request'[Me] = more0 /\ answer'[Me] = Nothing
    BY <1>3, <2>1, AskMe
  <2>3. SoFar(opData', DBCnt[Me]) /\ "PE" \notin Listed(opData') /\ more0.first = FALSE
    BY <1>1, <1>5, <2>1 DEF ListGoes
  <2> HIDE DEF more0, a0
  <2>4. PICK got, cnt : got = opData' /\ cnt = DBCnt'[Me]
    OBVIOUS
  <2>5. SoFar(got, cnt) /\ "PE" \notin Listed(got) /\ IsSeq(got)
    BY <1>1, <2>3, <2>4 DEF SoFar, Once
  <2>6. Asks(got, more0, cnt)
    BY <2>3, <2>5 DEF Asks
  <2>7. Asks(got, more0, cnt)'
    BY <1>2, <1>3, <2>6, AsksStays
  <2>8. ListExchange'
    BY <1>1, <1>2, <2>1, <2>2, <2>4, <2>5, <2>7, ListExchangeAfter
  <2>9. QED
    BY <2>2, <2>8 DEF ListKept
<1>6. CASE a0.error = "ok" /\ ~a0.more
  <2> DEFINE all == opData \o a0.items
             res == IF Len(all) > job.amount THEN "errCliPartialDataRead" ELSE "ok"
  <2>1. Returns(res) /\ out' = Upto(all, job.amount)
    BY <1>6 DEF ListSliceDone
  <2>2. run' = "idle" /\ result' = res
    BY <1>3, <2>1, ReturnsMe
  <2>3. SoFar(all, MaxDB)
    BY <1>1, <1>6 DEF ListGoes
  <2> HIDE DEF all
  <2>4. Once(out') /\ (~(Len(all) > job.amount) => stable \subseteq Listed(out'))
    BY <1>1, <1>3, <2>1, <2>3, ListEnds
  <2>5. result' = "ok" => ~(Len(all) > job.amount)
    BY <2>2
  <2>6. ListExchange'
    BY <2>2 DEF ListExchange
  <2>7. QED
    BY <1>2, <2>4, <2>5, <2>6, KeptStays
<1>7. QED
  BY <1>4, <1>5, <1>6

\* A job is submitted: a list starts with nothing.
LEMMA ListBegins ==
  ASSUME ListBase, UNCHANGED serverVars, Submit, [Next]_vars
  PROVE  ListExchange' /\ ListKept'
<1>1. SessionInv /\ jobs \in Nat
  BY DEF ListBase, BaseInv, SessionInv, ClientTypes
<1>2. jobs' = jobs + 1 /\ out' = <<>> /\ opData' = <<>> /\ IsJob(job')
  BY <1>1, JobStarts
<1>3. job'.op = "listbot" => run' = "listbot" \/ result' \in StartErrors
  BY <1>1, JobStarts DEF RunsOf, Reported
<1>4. ListKept'
  <2>1. Once(out)'
    BY <1>2 DEF Once, Listed, IsSeq
  <2>2. QED
    BY <1>3, <2>1 DEF ListKept, StartErrors
<1>5. CASE run' = "listbot"
  <2>1. opListBlocksOfType
    <3>1. opListBlocksOfType \/ ListSliceDone
      BY <1>1, <1>5, RunAfter DEF JobStep
    <3>2. ~ListSliceDone
      BY <1>1, JobStarts DEF ListSliceDone, Answered
    <3>3. QED
      BY <3>1, <3>2
  <2>2. PICK j \in Jobs : /\ Begins(j, {"listbot"}) /\ job' = j
                          /\ IF j.amount < 1
                               THEN Returns("errCliInvalidBlockSize")
                               ELSE Ask("listbot", [fun |-> "listbot", first |-> TRUE, type |-> j.type])
    BY <2>1 DEF opListBlocksOfType
  <2> DEFINE r0 == [fun |-> "listbot", first |-> TRUE, type |-> j.type]
  <2>3. ~(j.amount < 1) /\ Ask("listbot", r0)
    BY <1>5, <2>2 DEF Returns
  <2>4. r0.first = TRUE
    OBVIOUS
  <2> HIDE DEF r0
  <2>5. request'[Me] = r0 /\ answer'[Me] = Nothing
    BY <1>1, <2>3, AskMe
  <2>6. j.op = "listbot"
    BY <2>2 DEF Begins
  <2>7. job'.amount \in Nat \ {0}
    BY <1>2, <2>2, <2>3, <2>6 DEF IsJob
  <2>8. TableDBs' \subseteq seen'
    <3>1. Next
      BY <1>1, <1>2 DEF vars, clientVars
    <3>2. QED
      BY <3>1 DEF Next, Record
  <2>9. PICK got, cnt : got = opData' /\ cnt = DBCnt'[Me]
    OBVIOUS
  <2>10. got = <<>> /\ IsSeq(got)
    BY <1>2, <2>9 DEF IsSeq
  <2>11. Asks(got, r0, cnt)'
    BY <2>4, <2>10 DEF Asks
  <2>12. ListExchange'
    BY <1>2, <2>5, <2>7, <2>8, <2>9, <2>10, <2>11, ListExchangeAfter
  <2>13. QED
    BY <1>4, <2>12
<1>6. CASE run' # "listbot"
  BY <1>4, <1>6 DEF ListExchange
<1>7. QED
  BY <1>5, <1>6

\* Of the client's other steps none begins, goes on with or ends a list.
LEMMA OtherJobSteps ==
  ASSUME SessionInv, RunOfJob,
         ReadSliceDone \/ WriteSliceDone \/ MultiVarsDone \/ AgBlockInfoDone \/ opDBGet \/ opDBFill \/ OtherClientStep
  PROVE  jobs' = jobs /\ run' # "listbot" /\ job'.op # "listbot"
<1>1. ASSUME run \in {"read", "write", "readmulti", "writemulti", "blkinfo"}
      PROVE  job.op # "listbot"
  BY <1>1 DEF RunOfJob, RunsOf, Reported, NoJobRuns
<1>2. CASE ReadSliceDone \/ WriteSliceDone \/ MultiVarsDone \/ AgBlockInfoDone
  BY <1>1, <1>2 DEF ReadSliceDone, WriteSliceDone, MultiVarsDone, AgBlockInfoDone, Answered, Ask, Returns, ReadSlice, WriteSlice
<1>3. CASE opDBGet
  <2>1. jobs' = jobs /\ run' \in {"read", "idle"}
    BY <1>3 DEF opDBGet, ReadSlice, Ask, Returns
  <2>2. job'.op = "dbget"
    BY <1>3 DEF opDBGet
  <2>3. QED
    BY <2>1, <2>2
<1>4. CASE opDBFill
  <2>1. jobs' = jobs /\ run' \in {"write", "idle"}
    BY <1>4 DEF opDBFill, WriteSlice, Ask, Returns
  <2>2. job'.op = "dbfill"
    BY <1>4 DEF opDBFill
  <2>3. QED
    BY <2>1, <2>2
<1>5. CASE OtherClientStep
  <2>1. /\ UNCHANGED <<job, jobs>> /\ run \notin NoJobRuns /\ run \notin Reported
        /\ run' \notin Reported
    BY <1>5, OtherRunsStay DEF Claimed, Reported
  <2>2. job.op # "listbot"
    BY <2>1 DEF RunOfJob, RunsOf, Reported
  <2>3. QED
    BY <2>1, <2>2 DEF Reported
<1>6. QED
  BY <1>2, <1>3, <1>4, <1>5

\* What is under way in a list is kept by every step.
LEMMA ListNext == ListBase /\ ListExchange /\ ListKept /\ [Next]_vars => ListExchange' /\ ListKept'
<1> SUFFICES ASSUME ListBase, ListExchange, ListKept, [Next]_vars PROVE ListExchange' /\ ListKept'
  OBVIOUS
<1>1. SessionInv /\ RunOfJob /\ TableIInv /\ DBLimit \in Slots
  BY DEF ListBase, BaseInv, StableInv
<1>2. jobs' = jobs => TableGoesOn
  BY <1>1, TableGoesOnNext
<1>3. CASE ConnectionStep
  <2>1. /\ run \in NoJobRuns /\ run' \in NoJobRuns
        /\ UNCHANGED <<job, jobs, result, out>>
    BY <1>1, <1>3, ConnectionStays
  <2>2. run # "listbot" /\ run' # "listbot"
    BY <2>1 DEF NoJobRuns
  <2>3. QED
    BY <1>2, <2>1, <2>2, KeptStays DEF ListExchange, ListKept
<1>4. CASE ExchangeFails
  <2>1. /\ UNCHANGED <<job, jobs, out>> /\ run' = "off" /\ run \notin {"off", "idle"}
        /\ result' = IF result = "pending" THEN "errIso" ELSE result
    BY <1>4 DEF ExchangeFails
  <2>2. job'.op = "listbot" => Once(out') /\ (result' = "ok" => stable \subseteq Listed(out'))
    <3>1. CASE run = "listbot"
      <4>1. result' # "ok" /\ out' = <<>>
        BY <1>1, <2>1, <3>1 DEF RunOfJob, NoJobRuns, ListExchange
      <4>2. QED
        BY <4>1, NothingListed
    <3>2. CASE run # "listbot"
      BY <2>1, <3>2 DEF ListKept
    <3>3. QED
      BY <3>1, <3>2
  <2>3. QED
    BY <1>2, <2>1, <2>2, KeptStays DEF ListExchange
<1>5. CASE UNCHANGED serverVars /\ JobStep
  <2>1. CASE Submit
    BY <1>5, <2>1, ListBegins
  <2>2. CASE ListSliceDone
    BY <1>5, <2>2, ListSlice
  <2>3. CASE ReadSliceDone \/ WriteSliceDone \/ MultiVarsDone \/ AgBlockInfoDone \/ opDBGet \/ opDBFill \/ OtherClientStep
    <3>1. run' # "listbot" /\ job'.op # "listbot"
      BY <1>1, <2>3, OtherJobSteps
    <3>2. QED
      BY <3>1 DEF ListExchange, ListKept
  <2>4. QED
    BY <1>5, <2>1, <2>2, <2>3 DEF JobStep
<1>6. CASE UNCHANGED clientVars /\ (MeStays \/ WorkerStep(Me) \/ PlcStep)
  <2>1. UNCHANGED <<job, jobs, run, out, result>>
    BY <1>6 DEF clientVars
  <2>2. ListExchange'
    <3>1. CASE run = "listbot"
      BY <1>6, <3>1, ListServed
    <3>2. CASE run # "listbot"
      BY <2>1, <3>2 DEF ListExchange
    <3>3. QED
      BY <3>1, <3>2
  <2>3. ListKept'
    BY <1>2, <2>1, KeptStays DEF ListKept
  <2>4. QED
    BY <2>2, <2>3
<1>7. QED
  BY <1>1, <1>3, <1>4, <1>5, <1>6, NextForMe

\* ListInv is inductive.
LEMMA NextList == ListInv /\ [Next]_vars => ListInv'
<1> SUFFICES ASSUME ListInv, [Next]_vars PROVE ListInv'
  OBVIOUS
<1>1. DOMAIN DBCnt' = Conns
  BY PlaceReached DEF ListInv, ListBase, BaseInv
<1>2. ListBase'
  BY <1>1, NextBase, NextTable, StableNext DEF ListInv, ListBase
<1>3. QED
  BY <1>2, ListNext DEF ListInv

\* Whatever the application registers and unregisters between the slices of a list, and
\* however long the PDUs: what the caller gets has the blocks that lasted, if it is
\* reported good, no block that never was there, and none twice that stayed.
THEOREM ListCompleteHolds == Spec => []ListComplete
<1>1. ListInv => ListComplete
  <2> SUFFICES ASSUME ListInv, Ended, job.op = "listbot"
               PROVE  LET listed == {out[k] : k \in DOMAIN out}
                      IN /\ result = "ok" => stable \subseteq listed
                         /\ listed \subseteq seen \cup {"PE"}
                         /\ "PE" \in listed => DBLimit = MaxDB - 1
                         /\ \A k, l \in DOMAIN out : out[k] = out[l] /\ out[k] \notin gone => k = l
    BY DEF ListComplete
  <2>1. run # "listbot"
    BY DEF Ended
  <2>2. Once(out) /\ (result = "ok" => stable \subseteq Listed(out))
    BY <2>1 DEF ListInv, ListKept
  <2>3. QED
    BY <2>2 DEF Once, Listed
<1>2. QED
  BY <1>1, InitList, NextList, PTL DEF Spec

-----------------------------------------------------------------------------
(* Writes.  The history knows a job's bytes by the marks they carry.       *)

\* The marks in a byte, those of the job in hand at their places, and what is known
\* of a byte of the memory: the history has its marks.
Stamps(cell) == {cell.bit, [by |-> cell.by, n |-> cell.n, at |-> cell.at]}
Marks(a, i, cell) == {<<a, i, s.at>> : s \in {s \in Stamps(cell) : ByJob(s)}}
Marked(a, i, cell) ==
  /\ Marks(a, i, cell) \subseteq written
  /\ \A s \in Stamps(cell) : s.by = "client" => s.n \in Nat /\ s.n <= jobs

\* Data on its way: the client's is the job's in hand.
StampedFor(c, it, id) ==
  \A i \in DOMAIN it.data :
    it.data[i].bit = NoBit /\ (it.data[i].by = "client" => c = Me /\ it.data[i].n = id)
Stamped(c, it) == StampedFor(c, it, jobs)

MemStamped == \A a \in Areas : \A i \in DOMAIN mem[a] : Marked(a, i, mem[a][i])
RequestStamped(c) == request[c].fun = "write" => \A k \in DOMAIN request[c].items : Stamped(c, request[c].items[k])
WorkerStamped(c) ==
  /\ InRequest(c) /\ worker[c].fun = "write" => \A k \in DOMAIN worker[c].items : Stamped(c, worker[c].items[k])
  /\ worker[c].place = "store" => Marked(Item(c).area, StartByte(Item(c)), worker[c].byte)
StampInv == MemStamped /\ \A c \in Conns : RequestStamped(c) /\ WorkerStamped(c)

\* The marks an item of the client leaves when it is stored.
Mine(it) ==
  {<<it.area, StartByte(it) + i - 1, it.data[i].at>> : i \in {i \in 1..SizeOfItem(it) : it.data[i].by = "client"}}

\* What the marks of a byte are.
LEMMA MarkFacts ==
  ASSUME NEW a, NEW i, NEW cell
  PROVE  \A w : w \in Marks(a, i, cell) <=>
           \/ cell.bit.by = "client" /\ cell.bit.n = jobs /\ w = <<a, i, cell.bit.at>>
           \/ cell.by = "client" /\ cell.n = jobs /\ w = <<a, i, cell.at>>
<1> DEFINE s == [by |-> cell.by, n |-> cell.n, at |-> cell.at]
<1>1. s.by = cell.by /\ s.n = cell.n /\ s.at = cell.at
  OBVIOUS
<1>2. Stamps(cell) = {cell.bit, s}
  BY DEF Stamps
<1> HIDE DEF s
<1>3. QED
  BY <1>1, <1>2 DEF Marks, ByJob

\* A byte is marked as its two stamps are.
LEMMA MarkedFacts ==
  ASSUME NEW a, NEW i, NEW cell
  PROVE  Marked(a, i, cell) <=>
           /\ Marks(a, i, cell) \subseteq written
           /\ cell.bit.by = "client" => cell.bit.n \in Nat /\ cell.bit.n <= jobs
           /\ cell.by = "client" => cell.n \in Nat /\ cell.n <= jobs
<1> DEFINE s == [by |-> cell.by, n |-> cell.n, at |-> cell.at]
<1>1. s.by = cell.by /\ s.n = cell.n
  OBVIOUS
<1>2. Stamps(cell) = {cell.bit, s}
  BY DEF Stamps
<1> HIDE DEF s
<1>3. QED
  BY <1>1, <1>2 DEF Marked

\* The PLC answers that it has stored the item it was given.
PlcWrote ==
  /\ peer = "plc" /\ request[Me].fun = "write" /\ request'[Me] = Nothing
  /\ answer'[Me].fun = "write" /\ answer'[Me].items = <<"ok">>

\* Nobody else adds to the history without the memory.
LEMMA NothingStored == ~PlcWrote => PlcStored = {}
BY DEF PlcWrote, PlcStored

\* A request that stays is not taken.
LEMMA NotTaken == request'[Me] = request[Me] => ~PlcWrote
BY DEF PlcWrote, Nothing

\* No step of the client is an answer.
LEMMA ClientStoresNot ==
  ASSUME SessionInv, ConnectionStep \/ ExchangeFails \/ JobStep
  PROVE  ~PlcWrote
<1> SUFFICES ASSUME PlcWrote PROVE FALSE
  OBVIOUS
<1>1. request[Me] # Nothing /\ answer'[Me] # Nothing /\ DOMAIN answer = Conns /\ Me \in Conns /\ Paired
      /\ run \in Waits \cup {"off", "idle"}
  BY MicroClientAssumption DEF PlcWrote, Nothing, SessionInv, PduTypes, ClientTypes, Waits
<1>2. answer' = answer \/ answer' = [answer EXCEPT ![Me] = Nothing]
  BY ClientAnswers DEF ConnectionStep, JobStep, OtherClientStep, ClientStep
<1>3. answer[Me] # Nothing
  BY <1>1, <1>2
<1>4. run = "off"
  BY <1>1, <1>3 DEF Paired
<1>5. CASE ConnectionStep \/ ExchangeFails
  BY <1>1, <1>4, <1>5 DEF ConnectionStep, ExchangeFails, PeerConnect, NegotiatePDULength, Negotiated, PeerDisconnect, Answered
<1>6. CASE Submit
  BY <1>4, <1>6, JobStarts
<1>7. CASE OtherClientStep
  BY <1>4, <1>7, OtherRunsStay DEF NoJobRuns
<1>8. CASE ReadSliceDone \/ WriteSliceDone \/ MultiVarsDone \/ ListSliceDone \/ AgBlockInfoDone \/ opDBGet \/ opDBFill
  BY <1>4, <1>8 DEF ReadSliceDone, WriteSliceDone, MultiVarsDone, ListSliceDone, AgBlockInfoDone, opDBGet, opDBFill, Answered
<1>9. QED
  BY <1>5, <1>6, <1>7, <1>8 DEF JobStep

\* What the client is connected to is fixed.
LEMMA PeerStays == [Next]_vars => peer' = peer
BY DEF Next, Connect, Perform, Fails, Serve, Application, StationAsks, Plc, vars

\* What the PLC answers "ok" to, it can store.
LEMMA PlcWrites ==
  ASSUME SessionInv, [Next]_vars, PlcWrote
  PROVE  /\ UNCHANGED clientVars /\ UNCHANGED serverVars /\ PlcStep
         /\ Len(request[Me].items) = 1 /\ CanStore(request[Me].items[1]) /\ answer'[Me].error = "ok"
<1>1. /\ request[Me].fun = "write" /\ request[Me] # Nothing /\ request'[Me] # request[Me] /\ peer = "plc"
      /\ answer'[Me].items = <<"ok">> /\ DOMAIN answer = Conns /\ Me \in Conns
  BY NotTaken, MicroClientAssumption DEF PlcWrote, Nothing, SessionInv, PduTypes
<1>2. CASE Connect \/ Perform \/ Fails
  <2>1. ConnectionStep \/ ExchangeFails \/ JobStep
    BY <1>2 DEF Connect, Perform, Fails, ClientStep, ConnectionStep, JobStep, OtherClientStep
  <2>2. QED
    BY <2>1, ClientStoresNot
<1>3. CASE (\E c \in Conns : Serve(c)) \/ Application \/ StationAsks
  BY <1>1, <1>3, OthersConnection, ApplicationPdu DEF Serve, Application, StationAsks, pduVars
<1>4. CASE Plc
  <2>1. PlcStep /\ UNCHANGED clientVars /\ UNCHANGED serverVars
    BY <1>4 DEF Plc
  <2>2. ASSUME NEW f, PlcTakes(f) PROVE f = "write"
    BY <1>1, <2>2 DEF PlcTakes
  <2>3. ~PlcConnects /\ ~PlcUploads /\ ~PlcDownloads /\ ~PlcControl /\ ~PlcSZLSlices
    BY <1>1, <2>2 DEF PlcConnects, PlcUploads, PlcDownloads, PlcControl, PlcSZLSlices
  <2>4. PlcRefuses
    BY <2>1, <2>3 DEF PlcStep
  <2>5. PICK error, item \in {"ok", "refused"} : MayStore(error, item) /\ PlcSends(PlcWriteAnswer(error, item))
    BY <2>2, <2>4 DEF PlcRefuses, PlcWriteAnswer, MayStore
  <2>6. answer'[Me] = PlcWriteAnswer(error, item)
    BY <1>1, <2>5 DEF PlcSends
  <2>7. <<"ok">> = IF OneItem THEN <<item>> ELSE <<>>
    BY <1>1, <2>6 DEF PlcWriteAnswer
  <2>8. <<"ok">> # <<>> /\ (<<"ok">> = <<item>> => item = "ok")
    OBVIOUS
  <2>9. OneItem /\ item = "ok"
    BY <2>7, <2>8
  <2>10. answer'[Me].error = error
    BY <2>6 DEF PlcWriteAnswer
  <2>11. QED
    BY <2>1, <2>5, <2>9, <2>10 DEF MayStore, OneItem
<1>5. CASE UNCHANGED vars
  BY <1>1, <1>5 DEF vars, pduVars
<1>6. QED
  BY <1>2, <1>3, <1>4, <1>5 DEF Next

\* While a job is in hand the history takes up the marks of the bytes that change.
LEMMA RecordMarks ==
  ASSUME MemStamped, [Next]_vars, jobs' = jobs
  PROVE  /\ written \subseteq written' /\ (mem' = mem => written' = written \cup PlcStored)
         /\ \A a \in Areas : \A i \in DOMAIN mem[a] : Marks(a, i, mem'[a][i]) \subseteq written'
         /\ \A w \in written' :
              \/ w \in written
              \/ mem' = mem /\ w \in PlcStored
              \/ \E a \in Areas : \E i \in DOMAIN mem[a] : mem'[a][i] # mem[a][i] /\ w \in Marks(a, i, mem'[a][i])
<1>1. ASSUME NEW a \in Areas, NEW i \in DOMAIN mem[a] PROVE Marks(a, i, mem[a][i]) \subseteq written
  BY <1>1 DEF MemStamped, Marked
<1>2. mem' = mem => written' = written \cup PlcStored
  <2>1. CASE Next
    BY <2>1 DEF Next, Record
  <2>2. CASE UNCHANGED vars
    <3>1. written' = written /\ request' = request
      BY <2>2 DEF vars, history, pduVars
    <3>2. QED
      BY <3>1, NotTaken, NothingStored
  <2>3. QED
    BY <2>1, <2>2
<1>3. CASE mem' = mem
  BY <1>1, <1>2, <1>3
<1>4. CASE mem' # mem
  <2>1. Next
    BY <1>4 DEF vars, serverVars
  <2>2. written' = written \cup UNION {UNION {Got(a, i) : i \in DOMAIN mem[a]} : a \in Areas}
    BY <1>4, <2>1 DEF Next, Record
  <2>3. ASSUME NEW a, NEW i PROVE Got(a, i) = IF mem'[a][i] = mem[a][i] THEN {} ELSE Marks(a, i, mem'[a][i])
    BY DEF Got, Marks, Stamps
  <2>4. \A w : w \in written' <=> w \in written \/ \E a \in Areas : \E i \in DOMAIN mem[a] : w \in Got(a, i)
    BY <2>2
  <2>5. ASSUME NEW a \in Areas, NEW i \in DOMAIN mem[a] PROVE Marks(a, i, mem'[a][i]) \subseteq written'
    <3>1. CASE mem'[a][i] = mem[a][i]
      BY <1>1, <2>4, <3>1
    <3>2. CASE mem'[a][i] # mem[a][i]
      BY <2>3, <2>4, <3>2
    <3>3. QED
      BY <3>1, <3>2
  <2>6. ASSUME NEW w \in written', w \notin written
        PROVE  \E a \in Areas : \E i \in DOMAIN mem[a] : mem'[a][i] # mem[a][i] /\ w \in Marks(a, i, mem'[a][i])
    <3>1. PICK a \in Areas : \E i \in DOMAIN mem[a] : w \in Got(a, i)
      BY <2>4, <2>6
    <3>2. PICK i \in DOMAIN mem[a] : w \in Got(a, i)
      BY <3>1
    <3>3. mem'[a][i] # mem[a][i] /\ w \in Marks(a, i, mem'[a][i])
      BY <2>3, <3>2
    <3>4. QED
      BY <3>3
  <2>7. QED
    BY <1>4, <2>4, <2>5, <2>6
<1>5. QED
  BY <1>3, <1>4

\* A byte whose marks the history has taken up is marked after the step.
LEMMA MarkedAfter ==
  ASSUME NEW a, NEW i, NEW cell, jobs' = jobs, Marks(a, i, cell) \subseteq written',
         cell.bit.by = "client" => cell.bit.n \in Nat /\ cell.bit.n <= jobs,
         cell.by = "client" => cell.n \in Nat /\ cell.n <= jobs
  PROVE  Marked(a, i, cell)'
<1> DEFINE s == [by |-> cell.by, n |-> cell.n, at |-> cell.at]
<1>1. s.by = cell.by /\ s.n = cell.n
  OBVIOUS
<1>2. Stamps(cell) = {cell.bit, s}
  BY DEF Stamps
<1> HIDE DEF s
<1>3. \A t \in Stamps(cell) : t.by = "client" => t.n \in Nat /\ t.n <= jobs'
  BY <1>1, <1>2
<1>4. {<<a, i, t.at>> : t \in {t \in Stamps(cell) : t.by = "client" /\ t.n = jobs'}} \subseteq written'
  BY DEF Marks, ByJob
<1>5. QED
  BY <1>3, <1>4 DEF Marked, Marks, ByJob, Stamps

\* A byte that was marked stays marked.
LEMMA MarkedStays ==
  ASSUME NEW a, NEW i, NEW cell, Marked(a, i, cell), jobs' = jobs, written \subseteq written'
  PROVE  Marked(a, i, cell)'
<1>1. Marks(a, i, cell) \subseteq written'
  BY DEF Marked
<1>2. QED
  BY <1>1, MarkedAfter, MarkedFacts

\* When a job is submitted no byte has its marks.
LEMMA MarkedAnew ==
  ASSUME NEW a, NEW i, NEW cell, Marked(a, i, cell), jobs \in Nat, jobs' = jobs + 1
  PROVE  Marked(a, i, cell)'
<1>1. \A s \in Stamps(cell) : s.by = "client" => s.n \in Nat /\ s.n <= jobs' /\ s.n # jobs'
  BY DEF Marked
<1>2. {<<a, i, s.at>> : s \in {s \in Stamps(cell) : s.by = "client" /\ s.n = jobs'}} = {}
  BY <1>1
<1>3. QED
  BY <1>1, <1>2 DEF Marked, Marks, ByJob, Stamps

\* The item of a worker that stores: its data is all there, and marked for the job
\* if it is the client's.
LEMMA StoredItem ==
  ASSUME SessionInv, PlaceInv, StampInv, NEW c \in Conns, WriteAreaCopy(c) \/ WriteBitStore(c)
  PROVE  /\ InRequest(c) /\ worker[c].fun = "write" /\ worker[c].place \in {"copy", "store"}
         /\ Item(c).area \in Areas /\ StartByte(Item(c)) \in Nat /\ SizeOfItem(Item(c)) \in Int
         /\ StartByte(Item(c)) + SizeOfItem(Item(c)) <= AreaSize[Item(c).area] /\ AreaSize[Item(c).area] \in Nat
         /\ DOMAIN Item(c).data = 1..SizeOfItem(Item(c)) /\ IsItem("write", Item(c)) /\ Stamped(c, Item(c))
         /\ ~Incoherent(Item(c)) /\ ~BadAddress(Item(c))
         /\ DOMAIN mem = Areas /\ DOMAIN mem[Item(c).area] = 0..AreaSize[Item(c).area] - 1
<1> DEFINE it == Item(c)
<1>1. worker[c].place \in {"copy", "store"} /\ InRequest(c) /\ worker[c].fun = "write"
  BY DEF WriteAreaCopy, WriteBitStore, InRequest, SessionInv, WorkerTypes, WorkerOK
<1>2. /\ it.area \in Areas /\ StartByte(it) \in Nat /\ SizeOfItem(it) \in Int /\ IsItem("write", it)
      /\ StartByte(it) + SizeOfItem(it) <= AreaSize[it.area] /\ AreaSize[it.area] \in Nat
  BY <1>1, ItemInHand
<1>3. Len(worker[c].reply) + 1 \in DOMAIN worker[c].items
  BY <1>1, WorkerInRequest, SeqFacts
<1>4. Stamped(c, it)
  BY <1>1, <1>3 DEF StampInv, WorkerStamped, Item
<1>5. ~Incoherent(it) /\ ~BadAddress(it)
  BY <1>1 DEF PlaceInv, WorkerPlaced
<1>6. DOMAIN it.data = 1..SizeOfItem(it)
  BY <1>2 DEF IsItem
<1>7. DOMAIN mem = Areas /\ DOMAIN mem[it.area] = 0..AreaSize[it.area] - 1
  BY <1>2 DEF SessionInv, AreaTypes
<1>8. QED
  BY <1>1, <1>2, <1>4, <1>5, <1>6, <1>7

\* What a step of a worker does to the marks in the memory when it stores item it.
StoresMarks(it) ==
  /\ \A a \in Areas : DOMAIN mem'[a] = DOMAIN mem[a]
  /\ \A a \in Areas : \A i \in DOMAIN mem[a] :
       mem'[a][i] # mem[a][i] =>
         LET cell == mem'[a][i]
         IN /\ Marks(a, i, cell) \subseteq written \cup Mine(it)
            /\ cell.bit.by = "client" => cell.bit.n \in Nat /\ cell.bit.n <= jobs
            /\ cell.by = "client" => cell.n \in Nat /\ cell.n <= jobs
  /\ \A w \in Mine(it) : \E i \in DOMAIN mem[it.area] : w \in Marks(it.area, i, mem'[it.area][i])

\* An item is copied: its bytes have its marks.
LEMMA CopyMarks ==
  ASSUME SessionInv, PlaceInv, StampInv, NEW c \in Conns, WriteAreaCopy(c)
  PROVE  StoresMarks(Item(c))
<1> DEFINE it == Item(c)
           f == StartByte(it)
           n == SizeOfItem(it)
<1>1. /\ it.area \in Areas /\ f \in Nat /\ n \in Int /\ f + n <= AreaSize[it.area] /\ AreaSize[it.area] \in Nat
      /\ DOMAIN it.data = 1..n /\ Stamped(c, it)
      /\ DOMAIN mem = Areas /\ DOMAIN mem[it.area] = 0..AreaSize[it.area] - 1
  BY StoredItem
<1>2. mem' = [mem EXCEPT ![it.area] = [i \in DOMAIN @ |-> IF i \in f..f + n - 1 THEN it.data[i - f + 1] ELSE @[i]]]
  BY DEF WriteAreaCopy
<1>3. jobs \in Nat
  BY SessionConstants DEF SessionInv, ClientTypes
<1>4. Mine(it) = {<<it.area, f + i - 1, it.data[i].at>> : i \in {i \in 1..n : it.data[i].by = "client"}}
  BY DEF Mine
<1> HIDE DEF f, n, it
<1>5. \A a \in Areas \ {it.area} : mem'[a] = mem[a]
  BY <1>1, <1>2
<1>6. mem'[it.area] = [i \in DOMAIN mem[it.area] |->
                         IF i \in f..f + n - 1 THEN it.data[i - f + 1] ELSE mem[it.area][i]]
  BY <1>1, <1>2
<1>7. \A a \in Areas : DOMAIN mem'[a] = DOMAIN mem[a]
  BY <1>5, <1>6
<1>8. ASSUME NEW k \in 1..n
      PROVE  /\ f + k - 1 \in DOMAIN mem[it.area] /\ mem'[it.area][f + k - 1] = it.data[k]
             /\ it.data[k].bit.by # "client"
             /\ it.data[k].by = "client" => it.data[k].n = jobs
  <2>1. k \in Int /\ 1 <= k /\ k <= n
    BY <1>1
  <2>2. f + k - 1 \in f..f + n - 1 /\ (f + k - 1) - f + 1 = k /\ f + k - 1 \in 0..AreaSize[it.area] - 1
    BY <1>1, <2>1
  <2>3. it.data[k].bit = NoBit /\ (it.data[k].by = "client" => it.data[k].n = jobs)
    BY <1>1 DEF Stamped, StampedFor
  <2>4. QED
    BY <1>1, <1>6, <2>2, <2>3 DEF NoBit
<1>9. ASSUME NEW a \in Areas, NEW i \in DOMAIN mem[a], mem'[a][i] # mem[a][i]
      PROVE  /\ Marks(a, i, mem'[a][i]) \subseteq written \cup Mine(it)
             /\ mem'[a][i].bit.by = "client" => mem'[a][i].bit.n \in Nat /\ mem'[a][i].bit.n <= jobs
             /\ mem'[a][i].by = "client" => mem'[a][i].n \in Nat /\ mem'[a][i].n <= jobs
  <2>1. a = it.area /\ i \in f..f + n - 1
    BY <1>5, <1>6, <1>9
  <2>2. PICK k \in 1..n : i = f + k - 1
    <3>1. i - f + 1 \in 1..n /\ i = f + (i - f + 1) - 1
      BY <1>1, <2>1
    <3>2. QED
      BY <3>1
  <2>3. PICK cell : cell = mem'[a][i]
    OBVIOUS
  <2>4. cell = it.data[k] /\ cell.bit.by # "client" /\ (cell.by = "client" => cell.n = jobs)
    BY <1>8, <2>1, <2>2, <2>3
  <2>5. ASSUME NEW w \in Marks(a, i, cell) PROVE w \in Mine(it)
    <3>1. cell.by = "client" /\ w = <<a, i, cell.at>>
      BY <2>4, <2>5, MarkFacts
    <3>2. w = <<it.area, f + k - 1, it.data[k].at>> /\ k \in {j \in 1..n : it.data[j].by = "client"}
      BY <2>1, <2>2, <2>4, <3>1
    <3>3. QED
      BY <1>4, <3>2
  <2>6. QED
    BY <1>3, <2>3, <2>4, <2>5
<1>10. ASSUME NEW w \in Mine(it)
       PROVE  \E i \in DOMAIN mem[it.area] : w \in Marks(it.area, i, mem'[it.area][i])
  <2>1. PICK k \in 1..n : it.data[k].by = "client" /\ w = <<it.area, f + k - 1, it.data[k].at>>
    BY <1>4, <1>10
  <2>2. PICK i, cell : i = f + k - 1 /\ cell = mem'[it.area][i]
    OBVIOUS
  <2>3. i \in DOMAIN mem[it.area] /\ cell = it.data[k] /\ cell.by = "client" /\ cell.n = jobs
    BY <1>8, <2>1, <2>2
  <2>4. w \in Marks(it.area, i, cell)
    BY <2>1, <2>2, <2>3, MarkFacts
  <2>5. QED
    BY <2>2, <2>3, <2>4
<1>11. QED
  BY <1>7, <1>9, <1>10 DEF StoresMarks, it

\* A bit is stored: its byte has its mark, beside those of the byte that was loaded.
LEMMA BitMarks ==
  ASSUME SessionInv, PlaceInv, StampInv, NEW c \in Conns, WriteBitStore(c)
  PROVE  StoresMarks(Item(c))
<1> DEFINE it == Item(c)
           f == StartByte(it)
           byte == worker[c].byte
           x == it.data[1]
           b == [byte EXCEPT !.bit = [by |-> x.by, n |-> x.n, at |-> x.at]]
<1>1. /\ it.area \in Areas /\ f \in Nat /\ DOMAIN it.data = 1..SizeOfItem(it) /\ Stamped(c, it) /\ IsItem("write", it)
      /\ f + SizeOfItem(it) <= AreaSize[it.area] /\ AreaSize[it.area] \in Nat /\ ~BadAddress(it)
      /\ DOMAIN mem = Areas /\ DOMAIN mem[it.area] = 0..AreaSize[it.area] - 1
  BY StoredItem
<1>2. mem' = [mem EXCEPT ![it.area][f] = b] /\ worker[c].place = "store"
  BY DEF WriteBitStore
<1>3. it.wl = "Bit" /\ IsByte(byte) /\ Marked(it.area, f, byte)
  BY <1>2 DEF SessionInv, WorkerTypes, WorkerOK, Item, StampInv, WorkerStamped
<1>4. SizeOfItem(it) = 1 /\ 1 \in DOMAIN it.data
  <2>1. SizeOfItem(it) >= 1 /\ SizeOfItem(it) \in Int /\ 1 \in DOMAIN it.data
    BY <1>1, <1>3, BitItem DEF IsItem
  <2>2. ~(SizeOfItem(it) > 1)
    BY <1>1, <1>3 DEF BadAddress
  <2>3. QED
    BY <2>1, <2>2
<1>5. Mine(it) = {<<it.area, f + i - 1, it.data[i].at>> : i \in {i \in 1..1 : it.data[i].by = "client"}}
  BY <1>4 DEF Mine
<1>6. /\ b.bit.by = x.by /\ b.bit.n = x.n /\ b.bit.at = x.at
      /\ b.by = byte.by /\ b.n = byte.n /\ b.at = byte.at
  BY <1>3 DEF IsByte
<1>7. jobs \in Nat
  BY SessionConstants DEF SessionInv, ClientTypes
<1>8. x.by = "client" => x.n = jobs
  BY <1>1, <1>4 DEF Stamped, StampedFor
<1>9. /\ Marks(it.area, f, byte) \subseteq written
      /\ byte.by = "client" => byte.n \in Nat /\ byte.n <= jobs
  BY <1>3, MarkedFacts
<1> HIDE DEF f, b, it, byte
<1>10. f \in DOMAIN mem[it.area]
  BY <1>1, <1>4
<1>11. /\ \A a \in Areas : DOMAIN mem'[a] = DOMAIN mem[a]
       /\ \A a \in Areas : \A i \in DOMAIN mem[a] : mem'[a][i] = IF a = it.area /\ i = f THEN b ELSE mem[a][i]
  BY <1>1, <1>2
<1>12. \A w \in Mine(it) : x.by = "client" /\ w = <<it.area, f, x.at>>
  BY <1>1, <1>5
<1>13. x.by = "client" => <<it.area, f, x.at>> \in Mine(it)
  <2>1. ASSUME x.by = "client" PROVE <<it.area, f + 1 - 1, it.data[1].at>> \in Mine(it)
    BY <1>5, <2>1
  <2>2. f + 1 - 1 = f
    BY <1>1
  <2>3. QED
    BY <2>1, <2>2
<1> HIDE DEF x
<1>14. ASSUME NEW w \in Marks(it.area, f, b) PROVE w \in written \cup Mine(it)
  <2>1. CASE x.by = "client" /\ x.n = jobs /\ w = <<it.area, f, x.at>>
    BY <1>13, <2>1
  <2>2. CASE byte.by = "client" /\ byte.n = jobs /\ w = <<it.area, f, byte.at>>
    BY <1>9, <2>2, MarkFacts
  <2>3. QED
    BY <1>6, <1>14, <2>1, <2>2, MarkFacts
<1>15. ASSUME NEW w \in Mine(it) PROVE w \in Marks(it.area, f, b)
  BY <1>6, <1>8, <1>12, <1>15, MarkFacts
<1>16. ASSUME NEW a \in Areas, NEW i \in DOMAIN mem[a], mem'[a][i] # mem[a][i]
       PROVE  /\ Marks(a, i, mem'[a][i]) \subseteq written \cup Mine(it)
              /\ mem'[a][i].bit.by = "client" => mem'[a][i].bit.n \in Nat /\ mem'[a][i].bit.n <= jobs
              /\ mem'[a][i].by = "client" => mem'[a][i].n \in Nat /\ mem'[a][i].n <= jobs
  <2>1. a = it.area /\ i = f /\ mem'[a][i] = b
    BY <1>11, <1>16
  <2>2. QED
    BY <1>6, <1>7, <1>8, <1>9, <1>14, <2>1
<1>17. \A w \in Mine(it) : f \in DOMAIN mem[it.area] /\ w \in Marks(it.area, f, mem'[it.area][f])
  BY <1>1, <1>10, <1>11, <1>15
<1>18. QED
  BY <1>11, <1>16, <1>17 DEF StoresMarks, it

\* What is stored is what the history takes up.
LEMMA StoreTaken ==
  ASSUME SessionInv, PlaceInv, StampInv, [Next]_vars, jobs' = jobs,
         NEW c \in Conns, WriteAreaCopy(c) \/ WriteBitStore(c)
  PROVE  written' = written \cup Mine(Item(c)) /\ MemStamped'
<1> DEFINE it == Item(c)
<1>1. StoresMarks(it)
  BY CopyMarks, BitMarks
<1>2. it.area \in Areas /\ MemStamped
  BY StoredItem DEF StampInv
<1>0. PlcStored = {}
  <2>1. request' = request
    BY DEF WriteAreaCopy, WriteBitStore
  <2>2. QED
    BY <2>1, NotTaken, NothingStored
<1> HIDE DEF it
<1>3. /\ written \subseteq written'
      /\ \A a \in Areas : \A i \in DOMAIN mem[a] : Marks(a, i, mem'[a][i]) \subseteq written'
      /\ \A w \in written' :
           \/ w \in written
           \/ \E a \in Areas : \E i \in DOMAIN mem[a] : mem'[a][i] # mem[a][i] /\ w \in Marks(a, i, mem'[a][i])
  BY <1>0, <1>2, RecordMarks
<1>4. written' = written \cup Mine(it)
  <2>1. ASSUME NEW w \in written', w \notin written PROVE w \in Mine(it)
    <3>1. PICK a \in Areas : \E i \in DOMAIN mem[a] : mem'[a][i] # mem[a][i] /\ w \in Marks(a, i, mem'[a][i])
      BY <1>3, <2>1
    <3>2. PICK i \in DOMAIN mem[a] : mem'[a][i] # mem[a][i] /\ w \in Marks(a, i, mem'[a][i])
      BY <3>1
    <3>3. Marks(a, i, mem'[a][i]) \subseteq written \cup Mine(it)
      BY <1>1, <3>2 DEF StoresMarks
    <3>4. QED
      BY <2>1, <3>2, <3>3
  <2>2. ASSUME NEW w \in Mine(it) PROVE w \in written'
    <3>1. PICK i \in DOMAIN mem[it.area] : w \in Marks(it.area, i, mem'[it.area][i])
      BY <1>1, <2>2 DEF StoresMarks
    <3>2. QED
      BY <1>2, <1>3, <3>1
  <2>3. QED
    BY <1>3, <2>1, <2>2
<1>5. ASSUME NEW a \in Areas, NEW i \in DOMAIN mem'[a] PROVE Marked(a, i, mem[a][i])'
  <2>1. PICK cell : cell = mem'[a][i]
    OBVIOUS
  <2>2. i \in DOMAIN mem[a]
    BY <1>1 DEF StoresMarks
  <2>3. /\ cell.bit.by = "client" => cell.bit.n \in Nat /\ cell.bit.n <= jobs
        /\ cell.by = "client" => cell.n \in Nat /\ cell.n <= jobs
    <3>1. CASE cell = mem[a][i]
      BY <1>2, <2>2, <3>1, MarkedFacts DEF MemStamped
    <3>2. CASE cell # mem[a][i]
      BY <1>1, <2>1, <2>2, <3>2 DEF StoresMarks
    <3>3. QED
      BY <3>1, <3>2
  <2>4. Marks(a, i, cell) \subseteq written'
    BY <1>3, <2>1, <2>2
  <2>5. Marked(a, i, cell)'
    BY <2>3, <2>4, MarkedAfter
  <2>6. QED
    BY <2>1, <2>5 DEF Marked, Marks, Stamps, ByJob
<1>6. MemStamped'
  BY <1>5 DEF MemStamped
<1>7. QED
  BY <1>4, <1>6 DEF it

\* Whoever writes the memory, the history takes up what the client's worker stores
\* or the PLC, and nothing else.
LEMMA WrittenNext ==
  ASSUME SessionInv, PlaceInv, StampInv, [Next]_vars, jobs' = jobs
  PROVE  /\ MemStamped' /\ written \subseteq written'
         /\ WriteAreaCopy(Me) \/ WriteBitStore(Me) => written' = written \cup Mine(Item(Me))
         /\ ~(WriteAreaCopy(Me) \/ WriteBitStore(Me)) => written' = written \cup PlcStored
<1> DEFINE Stays == MemStamped' /\ written' = written \cup PlcStored
<1>1. Me \in Conns /\ MemStamped /\ DOMAIN mem = Areas
  BY MicroClientAssumption DEF StampInv, SessionInv, AreaTypes
<1>2. CASE WriteAreaCopy(Me) \/ WriteBitStore(Me)
  BY <1>1, <1>2, StoreTaken
<1>3. ASSUME mem' = mem PROVE Stays
  <2>1. written' = written \cup PlcStored /\ written \subseteq written'
    BY <1>1, <1>3, RecordMarks
  <2>2. ASSUME NEW a \in Areas, NEW i \in DOMAIN mem'[a] PROVE Marked(a, i, mem[a][i])'
    <3>1. PICK cell : cell = mem[a][i]
      OBVIOUS
    <3>2. Marked(a, i, cell)
      BY <1>1, <1>3, <3>1 DEF MemStamped
    <3>3. Marked(a, i, cell)'
      BY <2>1, <3>2, MarkedStays
    <3>4. QED
      BY <1>3, <3>1, <3>3 DEF Marked, Marks, Stamps, ByJob
  <2>3. QED
    BY <2>1, <2>2 DEF MemStamped
<1> HIDE DEF Stays
<1>4. ASSUME MemoryStays \/ UnlockArea \/ \E o \in AppOps : LockArea(o) PROVE Stays
  <2>1. mem' = mem
    BY <1>4 DEF MemoryStays, UnlockArea, LockArea
  <2>2. QED
    BY <1>3, <2>1
<1>5. ASSUME UpdateByte PROVE Stays
  <2>1. PICK i0 : mem' = [mem EXCEPT ![app.area][i0] = [by |-> "app", n |-> updates, at |-> i0, bit |-> NoBit]]
    BY <1>5 DEF UpdateByte
  <2> DEFINE b == [by |-> "app", n |-> updates, at |-> i0, bit |-> NoBit]
  <2>2. b.by = "app" /\ b.bit.by = "none"
    BY DEF NoBit
  <2>3. mem' = [mem EXCEPT ![app.area][i0] = b]
    BY <2>1
  <2> HIDE DEF b
  <2>4. \A a \in Areas : DOMAIN mem'[a] = DOMAIN mem[a] /\ \A i \in DOMAIN mem[a] : mem'[a][i] = mem[a][i] \/ mem'[a][i] = b
    BY <1>1, <2>3
  <2>5. \A a, i : Marks(a, i, b) = {}
    <3>1. ASSUME NEW a, NEW i PROVE Marks(a, i, b) = {}
      BY <2>2, MarkFacts
    <3>2. QED
      BY <3>1
  <2>0. PlcStored = {}
    <3>1. request' = request
      BY <1>5 DEF UpdateByte, pduVars
    <3>2. QED
      BY <3>1, NotTaken, NothingStored
  <2>6. written' = written
    <3>1. /\ written \subseteq written'
          /\ \A w \in written' :
              \/ w \in written
              \/ mem' = mem /\ w \in PlcStored
              \/ \E a \in Areas : \E i \in DOMAIN mem[a] : mem'[a][i] # mem[a][i] /\ w \in Marks(a, i, mem'[a][i])
      BY <1>1, RecordMarks
    <3>2. ASSUME NEW a \in Areas, NEW i \in DOMAIN mem[a], mem'[a][i] # mem[a][i] PROVE Marks(a, i, mem'[a][i]) = {}
      BY <2>4, <2>5, <3>2
    <3>3. QED
      BY <2>0, <3>1, <3>2
  <2>7. ASSUME NEW a \in Areas, NEW i \in DOMAIN mem'[a] PROVE Marked(a, i, mem[a][i])'
    <3>1. PICK cell : cell = mem'[a][i]
      OBVIOUS
    <3>2. i \in DOMAIN mem[a] /\ (cell = mem[a][i] \/ cell = b)
      BY <2>4, <3>1
    <3>3. ASSUME cell = b PROVE Marked(a, i, cell)'
      <4>1. Marks(a, i, cell) \subseteq written' /\ cell.by # "client" /\ cell.bit.by # "client"
        BY <2>2, <2>5, <3>3
      <4>2. QED
        BY <4>1, MarkedAfter
    <3>4. ASSUME cell = mem[a][i] PROVE Marked(a, i, cell)'
      <4>1. Marked(a, i, cell)
        BY <1>1, <3>2, <3>4 DEF MemStamped
      <4>2. written \subseteq written'
        BY <2>6
      <4>3. QED
        BY <4>1, <4>2, MarkedStays
    <3>5. Marked(a, i, cell)'
      BY <3>2, <3>3, <3>4
    <3>6. QED
      BY <3>1, <3>5 DEF Marked, Marks, Stamps, ByJob
  <2>8. MemStamped'
    BY <2>7 DEF MemStamped
  <2>9. QED
    BY <2>0, <2>6, <2>8 DEF Stays
<1>6. ASSUME NEW c \in Conns, WriteAreaCopy(c) \/ WriteBitStore(c), c # Me PROVE Stays
  <2>1. DOMAIN Item(c).data = 1..SizeOfItem(Item(c)) /\ Stamped(c, Item(c))
    BY <1>6, StoredItem
  <2>2. Mine(Item(c)) = {}
    BY <1>6, <2>1 DEF Mine, Stamped, StampedFor
  <2>3. PlcStored = {}
    <3>1. request' = request
      BY <1>6 DEF WriteAreaCopy, WriteBitStore
    <3>2. QED
      BY <3>1, NotTaken, NothingStored
  <2>4. QED
    BY <1>6, <2>2, <2>3, StoreTaken DEF Stays
<1>7. QED
  BY <1>1, <1>2, <1>3, <1>4, <1>5, <1>6, MemoryNext DEF Stays

\* A job is submitted, or the one in hand stays.
LEMMA JobsNext ==
  ASSUME SessionInv, RunOfJob, [Next]_vars
  PROVE  \/ jobs' = jobs
         \/ Submit /\ UNCHANGED serverVars /\ jobs' = jobs + 1 /\ jobs \in Nat /\ written' = {}
<1>1. CASE ConnectionStep
  BY <1>1, ConnectionStays
<1>2. CASE ExchangeFails \/ UNCHANGED clientVars
  BY <1>2 DEF ExchangeFails, clientVars
<1>3. CASE UNCHANGED serverVars /\ Submit
  <2>1. jobs' = jobs + 1 /\ jobs \in Nat
    BY <1>3, JobStarts, SessionConstants DEF SessionInv, ClientTypes
  <2>2. jobs' # jobs
    BY <2>1
  <2>3. Record
    BY <2>2 DEF Next, vars, clientVars
  <2>4. written' = {}
    BY <2>2, <2>3 DEF Record
  <2>5. QED
    BY <1>3, <2>1, <2>4
<1>4. CASE ReadSliceDone \/ WriteSliceDone \/ MultiVarsDone \/ AgBlockInfoDone \/ opDBGet \/ opDBFill \/ OtherClientStep
  BY <1>4, OtherJobSteps
<1>5. CASE ListSliceDone
  BY <1>5 DEF ListSliceDone
<1>6. QED
  BY <1>1, <1>2, <1>3, <1>4, <1>5, NextForMe DEF JobStep

\* The data of an item of the client.
LEMMA DataStamped ==
  ASSUME NEW j, NEW id, NEW k, NEW n
  PROVE  LET data == Data(j, id, k, n).data
         IN /\ DOMAIN data = 1..n * DataSizeByte(j.wl)
            /\ \A i \in DOMAIN data :
                 /\ data[i].by = "client" /\ data[i].n = id /\ data[i].bit = NoBit
                 /\ data[i].at = Place(j.wl, j.start) + k + i - 1
<1>1. Data(j, id, k, n).data = Buffer(j, id, k, n * DataSizeByte(j.wl))
  BY DEF Data, Reference
<1>2. QED
  BY <1>1 DEF Buffer, NoBit

\* What the client asks to write has the stamp of its job.
LEMMA GivenStamped == \A k \in DOMAIN Given' : StampedFor(Me, Given'[k], jobs')
<1>1. ASSUME NEW k \in DOMAIN Given', job'.op = "writemulti" PROVE StampedFor(Me, Given'[k], jobs')
  <2> DEFINE it == Adjusted(job'.items[k])
  <2>1. Given'[k] = Data(it, jobs', 0, it.amount)
    BY <1>1 DEF Given, WriteItem, RoomToWrite
  <2> HIDE DEF it
  <2>2. QED
    BY <2>1, DataStamped DEF Stamped, StampedFor
<1>2. ASSUME NEW k \in DOMAIN Given', job'.op # "writemulti" PROVE StampedFor(Me, Given'[k], jobs')
  <2> DEFINE m == start' - job'.start
             n == NumElements(left', (PDULength' - WriteHead) \div DataSizeByte(job'.wl))
  <2>1. Given' = <<Data(job', jobs', m, n)>> /\ k \in DOMAIN Given'
    BY <1>2 DEF Given, RoomToWrite, NumElements
  <2> HIDE DEF m, n
  <2>2. Given'[k] = Data(job', jobs', m, n)
    BY <2>1 DEF RoomToWrite
  <2>3. QED
    BY <2>2, DataStamped DEF Stamped, StampedFor
<1>3. QED
  BY <1>1, <1>2

\* Requests stay stamped, the client's as its own.
LEMMA RequestsStayStamped ==
  ASSUME SessionInv, RunOfJob, SessionInv', StampInv, [Next]_vars, NEW c \in Conns
  PROVE  RequestStamped(c)'
<1>1. RequestStamped(c)
  BY DEF StampInv
<1>2. CASE request'[c] = request[c] /\ jobs' = jobs
  BY <1>1, <1>2 DEF RequestStamped, Stamped, StampedFor
<1>3. CASE request'[c] = request[c] /\ jobs' # jobs
  <2>1. request[Me] = Nothing
    BY <1>3, JobsNext, JobStarts
  <2>2. QED
    BY <1>1, <1>3, <2>1 DEF RequestStamped, Stamped, StampedFor, Nothing
<1>4. CASE request'[c].fun # "write"
  BY <1>4 DEF RequestStamped
<1>5. CASE c = Me /\ request'[Me].items = Given'
  BY <1>5, GivenStamped DEF RequestStamped, Stamped
<1>6. CASE c = Station /\ request'[c] \in StationRequests
  BY <1>6, S7SessionAssumption DEF RequestStamped, Stamped, StampedFor
<1>7. QED
  BY <1>2, <1>3, <1>4, <1>5, <1>6, RequestNext

\* What a worker has in hand stays stamped.
LEMMA WorkerStaysStamped ==
  ASSUME SessionInv, PlaceInv, StampInv, [Next]_vars, jobs' = jobs, NEW c \in Conns, WorkerStep(c)
  PROVE  WorkerStamped(c)'
<1> USE DEF WorkerStamped, InRequest, Stamped
<1>1. WorkerStamped(c) /\ RequestStamped(c) /\ MemStamped /\ written \subseteq written'
  BY WrittenNext DEF StampInv
<1>2. CASE Elsewhere(c)
  BY <1>2 DEF Elsewhere
<1>3. CASE TakesUp(c)
  <2>1. worker'[c].place = "find"
    BY <1>3 DEF TakesUp
  <2>2. ASSUME NEW fits \in BOOLEAN, request[c].fun = "write",
               worker'[c].items = [k \in DOMAIN request[c].items |->
                 IF Placed(request[c].items, k) THEN request[c].items[k] ELSE Stray(request[c].items[k], fits)],
               NEW k \in DOMAIN worker'[c].items
        PROVE  StampedFor(c, worker'[c].items[k], jobs')
    <3>1. CASE worker'[c].items[k] = request[c].items[k]
      <4>1. k \in DOMAIN request[c].items
        BY <2>2
      <4>2. StampedFor(c, request[c].items[k], jobs)
        BY <1>1, <2>2, <4>1 DEF RequestStamped
      <4>3. QED
        BY <3>1, <4>2
    <3>2. CASE worker'[c].items[k] = Stray(request[c].items[k], fits)
      <4>1. IsItem("write", request[c].items[k])
        BY <2>2 DEF SessionInv, PduTypes, IsRequest
      <4>2. \A i \in DOMAIN worker'[c].items[k].data :
              worker'[c].items[k].data[i].by = "stray" /\ worker'[c].items[k].data[i].bit = NoBit
        BY <3>2, <4>1 DEF Stray, IsItem
      <4>3. QED
        BY <4>2 DEF Stamped, StampedFor
    <3>3. QED
      BY <2>2, <3>1, <3>2
  <2>3. QED
    BY <1>3, <2>1, <2>2 DEF TakesUp
<1>4. CASE GoesOn(c)
  <2>1. Item(c)' = Item(c)
    BY <1>4 DEF GoesOn, Item
  <2>2. worker'[c].fun = "write" => \A k \in DOMAIN worker'[c].items : StampedFor(c, worker'[c].items[k], jobs')
    BY <1>1, <1>4 DEF GoesOn, Stamped, StampedFor
  <2>3. ASSUME worker'[c].place = "store"
        PROVE  Marked(Item(c).area, StartByte(Item(c)), worker[c].byte)'
    <3> DEFINE it == Item(c)
    <3>1. /\ worker[c].place = "copy" /\ worker[c].fun = "write" /\ it.wl = "Bit"
          /\ worker'[c].byte = mem[it.area][StartByte(it)]
      BY <1>4, <2>3 DEF GoesOn
    <3>2. /\ it.area \in Areas /\ StartByte(it) \in Nat /\ SizeOfItem(it) \in Int /\ AreaSize[it.area] \in Nat
          /\ StartByte(it) + SizeOfItem(it) <= AreaSize[it.area] /\ IsItem("write", it)
      BY <3>1, ItemInHand
    <3>3. SizeOfItem(it) >= 1
      BY <3>1, <3>2, BitItem
    <3>5. DOMAIN mem[it.area] = 0..AreaSize[it.area] - 1
      BY <3>2 DEF SessionInv, AreaTypes
    <3>6. PICK a, i, cell : a = it.area /\ i = StartByte(it) /\ cell = worker'[c].byte
      OBVIOUS
    <3>7. a = Item(c)'.area /\ i = StartByte(Item(c)')
      BY <2>1, <3>6
    <3> HIDE DEF it
    <3>8. i \in DOMAIN mem[a] /\ a \in Areas /\ cell = mem[a][i]
      BY <3>1, <3>2, <3>3, <3>5, <3>6
    <3>9. Marked(a, i, cell)
      BY <1>1, <3>8 DEF MemStamped
    <3>10. Marked(a, i, cell)'
      BY <1>1, <3>9, MarkedStays
    <3>11. QED
      BY <3>6, <3>7, <3>10 DEF Marked, Marks, Stamps, ByJob, StartByte
  <2>4. QED
    BY <2>2, <2>3
<1>5. ASSUME NEW r, Replies(c, r) PROVE WorkerStamped(c)'
  <2>1. CASE ~InRequest(c)'
    BY <2>1
  <2>2. CASE worker'[c].place = "find" /\ worker'[c].fun = worker[c].fun /\ worker'[c].items = worker[c].items
    BY <1>1, <1>5, <2>2 DEF Replies, Stamped, StampedFor
  <2>3. QED
    BY <1>5, <2>1, <2>2 DEF Replies
<1>6. QED
  BY <1>2, <1>3, <1>4, <1>5, WorkerKinds

\* Every byte is stamped with the job it belongs to, and the history has the marks of
\* the job in hand.
LEMMA StampInvNext ==
  ASSUME SessionInv, RunOfJob, PlaceInv, SessionInv', StampInv, [Next]_vars
  PROVE  StampInv'
<1>1. MemStamped'
  <2>1. CASE jobs' = jobs
    BY <2>1, WrittenNext
  <2>2. CASE jobs' # jobs
    <3>1. mem' = mem /\ jobs \in Nat /\ jobs' = jobs + 1 /\ MemStamped /\ DOMAIN mem = Areas
      BY <2>2, JobsNext DEF serverVars, StampInv, SessionInv, AreaTypes
    <3>2. ASSUME NEW a \in Areas, NEW i \in DOMAIN mem'[a] PROVE Marked(a, i, mem[a][i])'
      <4>1. PICK cell : cell = mem[a][i]
        OBVIOUS
      <4>2. Marked(a, i, cell)
        BY <3>1, <3>2, <4>1 DEF MemStamped
      <4>3. Marked(a, i, cell)'
        BY <3>1, <4>2, MarkedAnew
      <4>4. QED
        BY <3>1, <4>1, <4>3 DEF Marked, Marks, Stamps, ByJob
    <3>3. QED
      BY <3>2 DEF MemStamped
  <2>3. QED
    BY <2>1, <2>2
<1>2. ASSUME NEW c \in Conns PROVE WorkerStamped(c)'
  <2> USE DEF WorkerStamped, InRequest, Stamped
  <2>1. WorkerStamped(c)
    BY DEF StampInv
  <2>2. CASE worker'[c] = worker[c]
    <3>1. Item(c)' = Item(c)
      BY <2>2 DEF Item
    <3>2. InRequest(c)' /\ worker'[c].fun = "write" => \A k \in DOMAIN worker'[c].items : StampedFor(c, worker'[c].items[k], jobs')
      <4>1. CASE jobs' = jobs
        BY <2>1, <2>2, <4>1 DEF Stamped, StampedFor
      <4>2. CASE jobs' # jobs
        <5>1. ~InRequest(Me)
          BY <4>2, JobsNext, JobStarts
        <5>2. QED
          BY <2>1, <2>2, <5>1 DEF Stamped, StampedFor
      <4>3. QED
        BY <4>1, <4>2
    <3>3. ASSUME worker'[c].place = "store"
          PROVE  Marked(Item(c).area, StartByte(Item(c)), worker[c].byte)'
      <4>1. PICK a, i, cell : a = Item(c).area /\ i = StartByte(Item(c)) /\ cell = worker[c].byte
        OBVIOUS
      <4>2. Marked(a, i, cell)
        BY <2>1, <2>2, <3>3, <4>1
      <4>3. CASE jobs' = jobs
        <5>1. written \subseteq written'
          BY <4>3, WrittenNext
        <5>2. Marked(a, i, cell)'
          BY <4>2, <4>3, <5>1, MarkedStays
        <5>3. QED
          BY <2>2, <3>1, <4>1, <5>2 DEF Marked, Marks, Stamps, ByJob, StartByte
      <4>4. CASE jobs' # jobs
        <5>1. Marked(a, i, cell)'
          BY <4>2, <4>4, JobsNext, MarkedAnew
        <5>2. QED
          BY <2>2, <3>1, <4>1, <5>1 DEF Marked, Marks, Stamps, ByJob, StartByte
      <4>5. QED
        BY <4>3, <4>4
    <3>4. QED
      BY <3>2, <3>3
  <2>3. CASE worker'[c] = Idle
    BY <2>3 DEF Idle
  <2>4. CASE WorkerStep(c) /\ jobs' = jobs
    BY <2>4, WorkerStaysStamped
  <2>5. CASE WorkerStep(c) /\ jobs' # jobs
    BY <2>2, <2>5, JobsNext DEF serverVars, workerVars
  <2>6. QED
    BY <2>2, <2>3, <2>4, <2>5, WorkersNext
<1>3. QED
  BY <1>1, <1>2, RequestsStayStamped DEF StampInv

\* Initially nothing is stamped by the client.
LEMMA InitStamp == Init => StampInv
<1> SUFFICES ASSUME Init PROVE StampInv
  OBVIOUS
<1>1. /\ request = [c \in Conns |-> Nothing] /\ worker = [c \in Conns |-> Idle]
      /\ mem = [a \in Areas |-> [i \in 0..AreaSize[a] - 1 |-> [by |-> "init", n |-> 0, at |-> i, bit |-> NoBit]]]
  BY DEF Init, InitServer
<1>2. ASSUME NEW a \in Areas, NEW i \in DOMAIN mem[a] PROVE Marked(a, i, mem[a][i])
  <2>1. mem[a][i].by = "init" /\ mem[a][i].bit = NoBit
    BY <1>1
  <2>2. NoBit.by # "client"
    BY DEF NoBit
  <2>3. Marks(a, i, mem[a][i]) = {}
    BY <2>1, <2>2, MarkFacts
  <2>4. QED
    BY <2>1, <2>2, <2>3, MarkedFacts
<1>3. \A c \in Conns : RequestStamped(c) /\ WorkerStamped(c)
  BY <1>1 DEF RequestStamped, WorkerStamped, InRequest, Idle, Nothing
<1>4. QED
  BY <1>2, <1>3 DEF StampInv, MemStamped

-----------------------------------------------------------------------------
(* Writes: what was given, what has landed and what is reported.           *)

\* Places of which something is known: a write of timers or counters has no claim.
Counted == job.op = "writemulti" \/ job.wl \notin {"Timer", "Counter"}
\* What earlier slices of the job have written.
Before == IF job.op = "writemulti" THEN {} ELSE Stretch(job.area, Place(job.wl, job.start), MovedBytes)

\* Items that were stored as they were given, the marks they left, and that they are
\* items of the server's areas.
Stored(items, replies) == {k \in DOMAIN replies : replies[k] = "ok" /\ Placed(items, k)}
Lands(items, replies) == UNION {Mine(items[k]) : k \in Stored(items, replies)}
Landed(items, replies) ==
  /\ Counted => written = Before \cup Lands(items, replies)
  /\ \A k \in Stored(items, replies) : ~Incoherent(items[k]) /\ items[k].area \in Areas

\* The worker has the items as they were given, as far as it finds them.
AsGiven(items, given) ==
  /\ DOMAIN items = DOMAIN given
  /\ \A k \in DOMAIN items :
       IF Placed(given, k) THEN items[k] = given[k]
       ELSE \A i \in DOMAIN items[k].data : items[k].data[i].by = "stray"

\* An answer to a write that is refused as a whole is a PLC's (p is the peer) and
\* reports no item as stored.
RefusedWhole(a, p) == a.error # "ok" => p = "plc" /\ \A k \in DOMAIN a.items : a.items[k] # "ok"

\* The request of a write is on its way, in the worker, or answered.
WriteExchange ==
  run \in {"write", "writemulti"} \/ Lost =>
    /\ run = "writemulti" => IsJob(job)
    /\ request[Me].fun = "write" => ~InRequest(Me) /\ request[Me].items = Given /\ Landed(Given, <<>>)
    /\ InRequest(Me) /\ worker[Me].fun = "write" =>
         AsGiven(worker[Me].items, Given) /\ Landed(Given, worker[Me].reply)
    /\ run \in {"write", "writemulti"} /\ answer[Me] # Nothing =>
         /\ IsSeq(answer[Me].items) /\ Len(answer[Me].items) \in {0, Len(Given)}
         /\ run = "write" => Len(answer[Me].items) = 1
         /\ RefusedWhole(answer[Me], peer)
         /\ Landed(Given, answer[Me].items)

\* A write has written from its first byte on.
Prefix == \E n \in 0..Bytes : written = Stretch(job.area, Place(job.wl, job.start), n)
WriteSoFar ==
  /\ run = "blkinfo" => written = {}
  /\ (run = "write" \/ Lost) /\ job.wl \notin {"Timer", "Counter"} => Prefix
  /\ run = "write" =>
       /\ WriteHead + DataSizeByte(job.wl) <= MinPduSize
       /\ IF first THEN left = job.amount ELSE left < job.amount \/ job.amount % WordMod = 0

\* Only a write whose exchange failed can still be at the server when its job has ended.
LeftBehind ==
  run \in NoJobRuns /\ (request[Me].fun = "write" \/ (InRequest(Me) /\ worker[Me].fun = "write")) => result = "errIso"

AreaReport ==
  OneArea /\ job.op \in {"write", "dbfill"} /\ job.wl \notin {"Timer", "Counter"} =>
    LET from == Place(job.wl, job.start)
    IN CASE result = "ok" -> written = Stretch(job.area, from, Bytes)
         [] result = "errCliPartialDataWritten" ->
              \E n \in 0..Bytes - 1 :
                /\ written = Stretch(job.area, from, n)
                /\ n = 0 => job.amount % WordMod = 0
         [] result = "errIso" -> \E n \in 0..Bytes : written = Stretch(job.area, from, n)
         [] OTHER -> \/ written = {}
                     \/ peer = "plc" /\ \E n \in 0..Bytes - 1 : written = Stretch(job.area, from, n)
MultiReport ==
  job.op = "writemulti" /\ result = "ok" =>
    LET found == {k \in DOMAIN out : Placed([i \in DOMAIN job.items |-> WriteItem(job, jobs, i)], k)}
    IN {w \in written : w[1] # "TM"} =
         UNION {Stretch(job.items[k].area, Place(job.items[k].wl, job.items[k].start),
                        job.items[k].amount * DataSizeByte(job.items[k].wl)) :
                  k \in {k \in found : out[k].result = "ok" /\ job.items[k].area # "TM"}}
WriteResult == run \in NoJobRuns => AreaReport /\ MultiReport

\* Stretches that go on where others end.
LEMMA StretchOn ==
  ASSUME NEW a, NEW f \in Int, NEW m \in Nat, NEW g \in Int, NEW n \in Int, NEW all \in Int,
         f + m <= g, g <= f + m, m + n <= all, all <= m + n
  PROVE  /\ n >= 0 => Stretch(a, f, m) \cup Stretch(a, g, n) = Stretch(a, f, all)
         /\ n <= 0 => Stretch(a, f, m) \cup Stretch(a, g, n) = Stretch(a, f, m)
<1>1. f..f + m - 1 \cup g..g + n - 1 = IF n >= 0 THEN f..f + all - 1 ELSE f..f + m - 1
  OBVIOUS
<1>2. \A x : \E s : s = <<a, x, x>>
  OBVIOUS
<1>3. Stretch(a, f, m) \cup Stretch(a, g, n) = {<<a, i, i>> : i \in (f..f + m - 1 \cup g..g + n - 1)}
  BY DEF Stretch
<1>4. n <= 0 => f..f + m - 1 \cup g..g + n - 1 = f..f + m - 1
  OBVIOUS
<1>5. QED
  BY <1>1, <1>3, <1>4 DEF Stretch

\* An element's bytes, counted.
LEMMA Products ==
  ASSUME NEW wl, NEW n \in Int
  PROVE  /\ DataSizeByte(wl) * n \in Int /\ n * DataSizeByte(wl) = DataSizeByte(wl) * n
         /\ DataSizeByte(wl) # 0 => (DataSizeByte(wl) * n >= 0 <=> n >= 0) /\ (DataSizeByte(wl) * n <= 0 <=> n <= 0)
         /\ \A m \in Int : /\ DataSizeByte(wl) * (m + n) = DataSizeByte(wl) * m + DataSizeByte(wl) * n
                           /\ DataSizeByte(wl) # 0 /\ m < n => DataSizeByte(wl) * m < DataSizeByte(wl) * n
<1> DEFINE d == DataSizeByte(wl)
<1>1. d = 0 \/ d = 1 \/ d = 2 \/ d = 4
  BY ElementBytes
<1> HIDE DEF d
<1>2. /\ d * n \in Int /\ n * d = d * n
      /\ d # 0 => (d * n >= 0 <=> n >= 0) /\ (d * n <= 0 <=> n <= 0)
      /\ \A m \in Int : d * (m + n) = d * m + d * n /\ (d # 0 /\ m < n => d * m < d * n)
  BY <1>1
<1>3. QED
  BY <1>2 DEF d

\* Data of the client that is stored leaves the marks of its place.
LEMMA DataMarks ==
  ASSUME NEW j, NEW id, NEW k \in Nat, NEW n \in Int, j.start \in Nat, j.wl \notin {"Timer", "Counter"},
         j.wl = "Bit" => k = 0, NEW f, f = Place(j.wl, j.start) + k, NEW bytes, bytes = DataSizeByte(j.wl) * n
  PROVE  Mine(Data(j, id, k, n)) = Stretch(j.area, f, bytes) /\ f \in Nat
<1> DEFINE it == Data(j, id, k, n)
<1>1. it.area = j.area /\ it.wl = j.wl /\ it.address = Address(j.wl, j.start + k) /\ it.length = n
  BY DEF Data, Reference
<1>2. StartByte(it) = f /\ f \in Nat
  <2>1. CASE j.wl = "Bit"
    <3>1. StartByte(it) = (j.start + k) \div 8 /\ Place(j.wl, j.start) = j.start \div 8 /\ k = 0
      BY <1>1, <2>1 DEF StartByte, Address, ByIndex, Place
    <3>2. j.start \div 8 \in Nat /\ j.start + 0 = j.start
      OBVIOUS
    <3>3. QED
      BY <3>1, <3>2
  <2>2. CASE j.wl # "Bit"
    <3>1. StartByte(it) = (8 * (j.start + k)) \div 8
      BY <1>1, <2>2 DEF StartByte, Address, ByIndex
    <3>2. Place(j.wl, j.start) = j.start
      BY <2>2 DEF Place
    <3>3. QED
      BY <3>1, <3>2
  <2>3. QED
    BY <2>1, <2>2
<1>3. SizeOfItem(it) = bytes /\ bytes \in Int
  BY <1>1, Products DEF SizeOfItem
<1>4. \A i \in 1..bytes : it.data[i].by = "client" /\ it.data[i].at = f + i - 1
  <2>1. n * DataSizeByte(j.wl) = bytes
    BY Products
  <2>2. /\ DOMAIN it.data = 1..bytes
        /\ \A i \in DOMAIN it.data : it.data[i].by = "client" /\ it.data[i].at = Place(j.wl, j.start) + k + i - 1
    BY <2>1, DataStamped
  <2>3. QED
    BY <2>2
<1> HIDE DEF it
<1>5. Mine(it) = {<<j.area, f + i - 1, it.data[i].at>> : i \in {i \in 1..bytes : it.data[i].by = "client"}}
  BY <1>1, <1>2, <1>3 DEF Mine
<1>6. Mine(it) = {<<j.area, f + i - 1, f + i - 1>> : i \in 1..bytes}
  <2>1. ASSUME NEW w \in Mine(it) PROVE w \in {<<j.area, f + i - 1, f + i - 1>> : i \in 1..bytes}
    BY <1>4, <1>5, <2>1
  <2>2. ASSUME NEW i \in 1..bytes PROVE <<j.area, f + i - 1, f + i - 1>> \in Mine(it)
    <3>1. <<j.area, f + i - 1, it.data[i].at>> \in Mine(it)
      BY <1>4, <1>5, <2>2
    <3>2. QED
      BY <1>4, <2>2, <3>1
  <2>3. QED
    BY <2>1, <2>2
<1>7. ASSUME NEW i \in 1..bytes PROVE <<j.area, f + i - 1, f + i - 1>> \in Stretch(j.area, f, bytes)
  <2>1. f + i - 1 \in f..f + bytes - 1
    BY <1>2, <1>3, <1>7
  <2>2. QED
    BY <2>1 DEF Stretch
<1>8. ASSUME NEW x \in f..f + bytes - 1 PROVE <<j.area, x, x>> \in Mine(it)
  <2>1. x - f + 1 \in 1..bytes /\ f + (x - f + 1) - 1 = x
    BY <1>2, <1>3, <1>8
  <2>2. QED
    BY <1>6, <2>1
<1>9. Mine(it) = Stretch(j.area, f, bytes)
  BY <1>6, <1>7, <1>8 DEF Stretch
<1>10. QED
  BY <1>2, <1>9 DEF it

\* One more reply.
LEMMA LandsMore ==
  ASSUME NEW items, NEW s, IsSeq(s), NEW r
  PROVE  /\ Stored(items, Append(s, r)) =
              Stored(items, s) \cup IF r = "ok" /\ Placed(items, Len(s) + 1) THEN {Len(s) + 1} ELSE {}
         /\ Lands(items, Append(s, r)) =
              Lands(items, s) \cup IF r = "ok" /\ Placed(items, Len(s) + 1) THEN Mine(items[Len(s) + 1]) ELSE {}
<1> DEFINE t == Append(s, r)
           n == Len(s)
<1>1. DOMAIN s = 1..n /\ n \in Nat
  BY SeqFacts
<1>2. DOMAIN t = 1..n + 1 /\ t[n + 1] = r /\ \A i \in 1..n : t[i] = s[i]
  BY <1>1, SeqAppend, SeqFacts
<1> HIDE DEF t, n
<1>3. DOMAIN t = DOMAIN s \cup {n + 1} /\ n + 1 \notin DOMAIN s
  BY <1>1, <1>2
<1>4. Stored(items, t) = Stored(items, s) \cup IF r = "ok" /\ Placed(items, n + 1) THEN {n + 1} ELSE {}
  BY <1>1, <1>2, <1>3 DEF Stored
<1>5. Lands(items, t) = Lands(items, s) \cup IF r = "ok" /\ Placed(items, n + 1) THEN Mine(items[n + 1]) ELSE {}
  BY <1>4 DEF Lands
<1>6. QED
  BY <1>4, <1>5 DEF t, n

\* Nothing has landed without a good reply.
LEMMA NothingLands ==
  ASSUME NEW items, NEW s, \A k \in DOMAIN s : s[k] # "ok"
  PROVE  Stored(items, s) = {} /\ Lands(items, s) = {}
<1>1. Stored(items, s) = {}
  BY DEF Stored
<1>2. QED
  BY <1>1 DEF Lands

\* What a write of one area has asked for: the elements that come next.
LEMMA SliceGiven ==
  ASSUME BaseInv, run = "write" \/ Lost
  PROVE  /\ job.op \in {"write", "dbfill"} /\ Len(Given) = 1 /\ DOMAIN Given = {1} /\ IsSeq(Given)
         /\ Given[1] = Data(job, jobs, MovedBytes, NumElements(left, RoomToWrite(job)))
         /\ MovedBytes \in Nat /\ job.start \in Nat /\ left \in 1..job.amount /\ job.amount \in Nat
         /\ DataSizeByte(job.wl) \in {1, 2, 4} /\ (job.wl = "Bit" => MovedBytes = 0)
         /\ NumElements(left, RoomToWrite(job)) \in Int /\ NumElements(left, RoomToWrite(job)) <= left
<1>1. job.op \in {"write", "dbfill"}
  BY DEF BaseInv, RunOfJob, RunsOf, Reported, NoJobRuns, Lost
<1>2. /\ BadParams(job) = "ok" /\ job.start \in Nat /\ job.amount \in Nat
      /\ left \in 1..job.amount /\ start = job.start + MovedBytes
  BY DEF BaseInv, LoopInv
<1>3. DataSizeByte(job.wl) \in {1, 2, 4} /\ (job.wl = "Bit" => job.amount = 1)
  BY <1>2, GoodParams, ElementBytes
<1>4. MovedBytes \in Nat /\ (job.wl = "Bit" => MovedBytes = 0)
  <2> DEFINE d == DataSizeByte(job.wl)
             x == job.amount - left
  <2>1. x \in Nat /\ (job.wl = "Bit" => x = 0)
    BY <1>2, <1>3
  <2>2. (d = 1 \/ d = 2 \/ d = 4) /\ MovedBytes = d * x
    BY <1>3 DEF MovedBytes
  <2> HIDE DEF d, x
  <2>3. QED
    BY <2>1, <2>2
<1>5. start - job.start = MovedBytes
  BY <1>2, <1>4
<1> DEFINE n == NumElements(left, RoomToWrite(job))
           it == Data(job, jobs, MovedBytes, n)
<1>6. Given = <<it>>
  BY <1>1, <1>5 DEF Given
<1>7. n \in Int /\ n <= left
  <2>1. WordMod \in Nat /\ WordMod > 0
    BY MicroClientAssumption
  <2>2. left % WordMod <= left /\ left % WordMod \in Nat
    BY <1>2, <2>1
  <2>3. PDULength - WriteHead \in Int
    BY SessionConstants DEF BaseInv, SessionInv, ClientTypes
  <2>4. RoomToWrite(job) \in Int
    <3> DEFINE d == DataSizeByte(job.wl)
               m == PDULength - WriteHead
    <3>1. (d = 1 \/ d = 2 \/ d = 4) /\ m \in Int
      BY <1>3, <2>3
    <3>2. RoomToWrite(job) = m \div d
      BY DEF RoomToWrite
    <3> HIDE DEF d, m
    <3>3. QED
      BY <3>1, <3>2
  <2>5. QED
    BY <1>2, <2>2, <2>4 DEF NumElements, Least
<1> HIDE DEF it
<1>8. Len(Given) = 1 /\ DOMAIN Given = {1} /\ IsSeq(Given) /\ Given[1] = it
  BY <1>6 DEF IsSeq
<1>9. QED
  BY <1>1, <1>2, <1>3, <1>4, <1>7, <1>8 DEF it

\* The next n elements of a write go to place p of their area.
NextSlice(n, p) ==
  /\ run = "write" \/ Lost
  /\ job.wl \notin {"Timer", "Counter"}
  /\ n = NumElements(left, RoomToWrite(job)) /\ p = Place(job.wl, job.start)

\* Where it lands: right behind what was written before.
LEMMA SliceLands ==
  ASSUME BaseInv, NEW n, NEW p, NextSlice(n, p)
  PROVE  /\ Before = Stretch(job.area, p, MovedBytes) /\ MovedBytes \in 0..Bytes - 1 /\ Bytes \in Nat
         /\ MovedBytes = 0 => left = job.amount
         /\ n >= 0 => Before \cup Mine(Given[1]) = Stretch(job.area, p, DataSizeByte(job.wl) * (job.amount - (left - n)))
         /\ \E k \in 0..Bytes : Before \cup Mine(Given[1]) = Stretch(job.area, p, k)
<1> DEFINE d == DataSizeByte(job.wl)
           bytes == d * n
           m == MovedBytes
           f == p + m
<1>1. /\ job.op \in {"write", "dbfill"} /\ Given[1] = Data(job, jobs, m, n)
      /\ m \in Nat /\ job.start \in Nat /\ left \in 1..job.amount /\ job.amount \in Nat
      /\ d # 0 /\ (job.wl = "Bit" => m = 0) /\ n \in Int /\ n <= left /\ left \in Int
  BY SliceGiven DEF NextSlice
<1>2. Before = Stretch(job.area, p, m)
  BY <1>1 DEF Before, NextSlice
<1>3. Mine(Given[1]) = Stretch(job.area, f, bytes) /\ f \in Nat
  BY <1>1, DataMarks DEF NextSlice
<1>4. p \in Int
  <2>1. job.start \div 8 \in Nat
    BY <1>1
  <2>2. QED
    BY <1>1, <2>1 DEF Place, NextSlice
<1>5. /\ m = d * (job.amount - left) /\ Bytes = d * job.amount
      /\ m < Bytes /\ m + bytes <= Bytes /\ (m = 0 => left = job.amount)
      /\ m + bytes = d * (job.amount - (left - n)) /\ bytes \in Int /\ Bytes \in Nat
      /\ (bytes >= 0 <=> n >= 0)
  <2>1. d = 1 \/ d = 2 \/ d = 4
    BY SliceGiven DEF NextSlice
  <2>2. m = d * (job.amount - left) /\ Bytes = d * job.amount
    <3>1. m = d * (job.amount - left) /\ Bytes = job.amount * d
      BY DEF MovedBytes, Bytes
    <3> HIDE DEF m, d
    <3>2. QED
      BY <1>1, <2>1, <3>1
  <2> HIDE DEF m, d
  <2>3. QED
    BY <1>1, <2>1, <2>2
<1> HIDE DEF bytes, m, d, f
<1> DEFINE all == m + bytes
<1>6. /\ n >= 0 => Before \cup Mine(Given[1]) = Stretch(job.area, p, all)
      /\ ~(n >= 0) => Before \cup Mine(Given[1]) = Before
  <2>1. f = p + m /\ f \in Int
    BY <1>3 DEF f
  <2> HIDE DEF all
  <2>2. all = m + bytes
    BY DEF all
  <2>3. QED
    <3> DEFINE a == job.area
               new == Mine(Given[1])
    <3>1. Before = Stretch(a, p, m) /\ new = Stretch(a, f, bytes)
      BY <1>2, <1>3
    <3> HIDE DEF a, new
    <3>0. p \in Int /\ f \in Int /\ m \in Nat /\ bytes \in Int /\ all \in Int /\ f <= p + m /\ p + m <= f /\ all <= m + bytes /\ m + bytes <= all
      BY <1>1, <1>4, <1>5, <2>1, <2>2
    <3>2. /\ bytes >= 0 => Stretch(a, p, m) \cup Stretch(a, f, bytes) = Stretch(a, p, all)
          /\ bytes <= 0 => Stretch(a, p, m) \cup Stretch(a, f, bytes) = Stretch(a, p, m)
      BY <3>0, StretchOn
    <3>3. ~(n >= 0) => bytes <= 0
      BY <1>1, <1>5
    <3>4. /\ n >= 0 => Before \cup new = Stretch(a, p, all)
          /\ ~(n >= 0) => Before \cup new = Before
      BY <1>5, <3>1, <3>2, <3>3
    <3>5. QED
      BY <3>4 DEF a, new
<1>7. \E k \in 0..Bytes : Before \cup Mine(Given[1]) = Stretch(job.area, p, k)
  <2>1. CASE n >= 0
    <3>1. all \in 0..Bytes
      BY <1>1, <1>5, <2>1
    <3>2. QED
      BY <1>6, <2>1, <3>1
  <2>2. CASE ~(n >= 0)
    <3>1. m \in 0..Bytes
      BY <1>1, <1>5
    <3>2. QED
      BY <1>2, <1>6, <2>2, <3>1
  <2>3. QED
    BY <2>1, <2>2
<1>8. m \in 0..Bytes - 1
  BY <1>1, <1>5
<1>9. QED
  BY <1>1, <1>2, <1>5, <1>6, <1>7, <1>8 DEF d, m

\* What several items ask to write.
LEMMA ItemsGiven ==
  ASSUME BaseInv, run = "writemulti", IsJob(job)
  PROVE  /\ job.op = "writemulti" /\ Given = [k \in DOMAIN job.items |-> WriteItem(job, jobs, k)]
         /\ IsSeq(Given) /\ Len(Given) = Len(job.items) /\ Len(Given) \in Nat \ {0} /\ DOMAIN Given = DOMAIN job.items
<1>1. job.op = "writemulti"
  BY DEF BaseInv, RunOfJob, RunsOf, Reported, NoJobRuns
<1>2. Given = [k \in DOMAIN job.items |-> WriteItem(job, jobs, k)]
  BY <1>1 DEF Given
<1>3. Len(job.items) \in Nat \ {0} /\ DOMAIN job.items = 1..Len(job.items)
  BY <1>1, Parts
<1> DEFINE G == Given
           n == Len(job.items)
<1>4. G = [k \in 1..n |-> G[k]] /\ n \in Nat
  BY <1>2, <1>3
<1> HIDE DEF G, n
<1>5. IsSeq(G) /\ Len(G) = n
  BY <1>4, SeqFunction
<1>6. QED
  BY <1>1, <1>2, <1>3, <1>5 DEF G, n

\* A step that changes the memory leaves the client as it is.
LEMMA ClientOrMem ==
  ASSUME [Next]_vars
  PROVE  /\ mem' = mem \/ UNCHANGED clientVars
         /\ ExchangeFails => UNCHANGED serverVars
         /\ ConnectionStep => UNCHANGED serverVars \/ run' = "connect"
<1>1. CASE Connect
  BY <1>1 DEF Connect, PeerConnect, Ask, ExchangeFails, ConnectionStep
<1>2. CASE Perform \/ Fails
  BY <1>2 DEF Perform, Fails, serverVars
<1>3. CASE UNCHANGED clientVars
  <2>1. run' = run
    BY <1>3 DEF clientVars
  <2>2. ~ExchangeFails
    BY <2>1 DEF ExchangeFails
  <2>3. ~ConnectionStep
    BY <2>1 DEF ConnectionStep, PeerConnect, NegotiatePDULength, Negotiated, PeerDisconnect, Ask, Answered
  <2>4. QED
    BY <1>3, <2>2, <2>3
<1>4. (\E c \in Conns : Serve(c)) \/ Application \/ StationAsks \/ Plc \/ UNCHANGED vars => UNCHANGED clientVars
  BY DEF Serve, Application, StationAsks, Plc, vars
<1>5. QED
  BY <1>1, <1>2, <1>3, <1>4 DEF Next

\* Only a step of the client's worker, or of a PLC, adds to the history of a job.
LEMMA WrittenStays ==
  ASSUME SessionInv, PlaceInv, StampInv, [Next]_vars, jobs' = jobs, mem' = mem \/ ~WorkerStep(Me), ~PlcWrote
  PROVE  written' = written
<1>0. PlcStored = {}
  BY NothingStored
<1>1. WriteAreaCopy(Me) \/ WriteBitStore(Me) => WorkerStep(Me)
  BY DEF WorkerStep
<1>2. CASE mem' = mem
  BY <1>0, <1>2, RecordMarks DEF StampInv
<1>3. CASE ~WorkerStep(Me)
  BY <1>0, <1>1, <1>3, WrittenNext
<1>4. QED
  BY <1>2, <1>3

\* A connection that comes or goes leaves no write behind.
LEMMA NothingLeft ==
  ASSUME BaseInv, BaseInv', ConnectionStep, [Next]_vars
  PROVE  request'[Me].fun # "write" /\ ~(InRequest(Me)' /\ worker'[Me].fun = "write")
<1>1. SessionInv /\ SessionInv' /\ Paired /\ Paired' /\ Nothing.fun = "none"
  BY DEF BaseInv, SessionInv, Nothing
<1>2. run' \in NoJobRuns
  BY <1>1, ConnectionStays
<1>3. CASE run' \in {"idle", "connect", "negotiate"}
  BY <1>1, <1>3 DEF Paired, Waits, AskedBy
<1>4. CASE run' = "off"
  <2>1. worker' = worker
    BY <1>4, ClientOrMem DEF serverVars, workerVars
  <2>2. request[Me] = Nothing /\ request' = request /\ ~InRequest(Me)
    BY <1>1, <1>4 DEF ConnectionStep, PeerConnect, NegotiatePDULength, Negotiated, PeerDisconnect, Ask, Answered,
                      Paired, Waits, AskedBy, pduVars
  <2>3. QED
    BY <1>1, <2>1, <2>2 DEF InRequest
<1>5. QED
  BY <1>2, <1>3, <1>4 DEF NoJobRuns

\* Items and data the worker has.
LEMMA GivenFacts ==
  ASSUME BaseInv, WriteExchange, run \in {"write", "writemulti"} \/ Lost
  PROVE  IsSeq(Given) /\ Len(Given) \in Nat /\ DOMAIN Given = 1..Len(Given) /\ (run # "writemulti" => Len(Given) = 1)
<1>1. CASE run = "write" \/ Lost
  <2>1. Len(Given) = 1 /\ IsSeq(Given)
    BY <1>1, SliceGiven
  <2>2. QED
    BY <2>1, SeqFacts
<1>2. CASE run = "writemulti"
  <2>1. IsSeq(Given) /\ Len(Given) \in Nat
    BY <1>2, ItemsGiven DEF WriteExchange
  <2>2. QED
    BY <1>2, <2>1, SeqFacts
<1>3. QED
  BY <1>1, <1>2

\* What a step that leaves the client as it is leaves of a write.
LEMMA ClientStays ==
  ASSUME UNCHANGED clientVars
  PROVE  /\ run' = run /\ job' = job /\ jobs' = jobs /\ result' = result /\ out' = out
         /\ left' = left /\ first' = first /\ Given' = Given /\ Before' = Before /\ (Counted' <=> Counted) /\ (Lost' <=> Lost)
         /\ Bytes' = Bytes
<1>1. /\ run' = run /\ job' = job /\ jobs' = jobs /\ result' = result /\ left' = left /\ start' = start /\ PDULength' = PDULength
      /\ out' = out /\ first' = first
  BY DEF clientVars, loopVars
<1>2. Given' = Given
  BY <1>1 DEF Given, RoomToWrite
<1>3. Before' = Before
  BY <1>1 DEF Before, MovedBytes
<1>4. (Counted' <=> Counted) /\ (Lost' <=> Lost) /\ Bytes' = Bytes
  BY <1>1 DEF Counted, Lost, OneArea, Bytes
<1>5. QED
  BY <1>1, <1>2, <1>3, <1>4

\* Stray data leaves no mark of the client.
LEMMA StrayLands ==
  ASSUME NEW it, DOMAIN it.data = 1..SizeOfItem(it), \A i \in DOMAIN it.data : it.data[i].by = "stray"
  PROVE  Mine(it) = {}
BY DEF Mine

\* Sequences with the same domain are equally long.
LEMMA SameLength ==
  ASSUME NEW s, NEW t, IsSeq(s), IsSeq(t), DOMAIN s = DOMAIN t
  PROVE  Len(s) = Len(t)
<1>1. Len(s) \in Nat /\ Len(t) \in Nat /\ 1..Len(s) = 1..Len(t)
  BY SeqFacts
<1>2. ASSUME NEW m \in Nat, NEW n \in Nat, 1..m = 1..n PROVE m = n
  <2>1. m # 0 => m \in 1..n
    BY <1>2
  <2>2. n # 0 => n \in 1..m
    BY <1>2
  <2>3. QED
    BY <2>1, <2>2
<1>3. QED
  BY <1>1, <1>2

\* A reply of the client's worker: what is stored now has landed, too.
LEMMA ReplyLands ==
  ASSUME BaseInv, StampInv, [Next]_vars, jobs' = jobs, NEW given, IsSeq(given),
         NEW r, Replies(Me, r), worker[Me].fun = "write", AsGiven(worker[Me].items, given), ~PlcWrote
  PROVE  LET replies == worker[Me].reply
             s == Append(replies, r)
             k == Len(replies) + 1
         IN /\ IsSeq(s) /\ Len(s) = k /\ Len(worker[Me].items) = Len(given)
            /\ written' = written \cup (IF k \in Stored(given, s) THEN Mine(given[k]) ELSE {})
            /\ Stored(given, s) = Stored(given, replies) \cup (IF k \in Stored(given, s) THEN {k} ELSE {})
            /\ k \in Stored(given, s) => ~Incoherent(given[k]) /\ given[k].area \in Areas
<1> DEFINE replies == worker[Me].reply
           items == worker[Me].items
           s == Append(replies, r)
           k == Len(replies) + 1
<1>1. /\ Me \in Conns /\ SessionInv /\ PlaceInv /\ InRequest(Me)
  BY MicroClientAssumption DEF BaseInv, Replies
<1>2. IsSeq(replies) /\ IsSeq(items) /\ k \in DOMAIN items
  BY <1>1, WorkerInRequest, SeqFacts
<1>3. IsSeq(s) /\ Len(s) = k
  BY <1>2, SeqAppend
<1>4. DOMAIN items = DOMAIN given /\ (IF Placed(given, k) THEN items[k] = given[k]
                                      ELSE \A i \in DOMAIN items[k].data : items[k].data[i].by = "stray")
  BY <1>2 DEF AsGiven
<1>5. Len(items) = Len(given)
  BY <1>2, <1>4, SameLength
<1>6. Stored(given, s) = Stored(given, replies) \cup IF r = "ok" /\ Placed(given, k) THEN {k} ELSE {}
  BY <1>2, LandsMore
<1>7. k \in Stored(given, s) <=> r = "ok" /\ Placed(given, k)
  <2>1. k \notin DOMAIN replies
    BY <1>2, SeqFacts
  <2>2. k \notin Stored(given, replies)
    BY <2>1 DEF Stored
  <2>3. QED
    BY <1>6, <2>2
<1>8. CASE r # "ok"
  <2>1. mem' = mem
    BY <1>8 DEF Replies
  <2>2. written' = written
    BY <1>1, <2>1, WrittenStays
  <2>3. QED
    BY <1>3, <1>5, <1>6, <1>7, <1>8, <2>2
<1>9. CASE r = "ok"
  <2>1. WriteAreaCopy(Me) \/ WriteBitStore(Me)
    BY <1>9 DEF Replies
  <2>2. written' = written \cup Mine(Item(Me))
    BY <1>1, <2>1, WrittenNext
  <2>3. /\ Item(Me) = items[k] /\ items[k].area \in Areas /\ ~Incoherent(items[k])
        /\ DOMAIN items[k].data = 1..SizeOfItem(items[k])
    BY <1>1, <2>1, StoredItem DEF Item
  <2>4. CASE Placed(given, k)
    BY <1>3, <1>4, <1>5, <1>6, <1>7, <1>9, <2>2, <2>3, <2>4
  <2>5. CASE ~Placed(given, k)
    <3>1. Mine(items[k]) = {}
      BY <1>4, <2>3, <2>5, StrayLands
    <3>2. QED
      BY <1>3, <1>5, <1>6, <1>7, <2>2, <2>3, <2>5, <3>1
  <2>6. QED
    BY <2>4, <2>5
<1>10. QED
  BY <1>8, <1>9

\* The worker takes, serves and answers a write.
LEMMA WorkerWrites ==
  ASSUME BaseInv, BaseInv', StampInv, WriteExchange, run \in {"write", "writemulti"} \/ Lost,
         [Next]_vars, UNCHANGED clientVars, WorkerStep(Me), ~PlcWrote
  PROVE  WriteExchange'
<1> DEFINE G == Given
           Good(s) == \A k \in Stored(G, s) : ~Incoherent(G[k]) /\ G[k].area \in Areas
           Was(s) == (Counted => written = Before \cup Lands(G, s)) /\ Good(s)
           Is(s) == (Counted => written' = Before \cup Lands(G, s)) /\ Good(s)
           Request == request'[Me].fun = "write" => ~InRequest(Me)' /\ request'[Me].items = G /\ Is(<<>>)
           Work == InRequest(Me)' /\ worker'[Me].fun = "write" => AsGiven(worker'[Me].items, G) /\ Is(worker'[Me].reply)
           Answer == run \in {"write", "writemulti"} /\ answer'[Me] # Nothing =>
                       /\ IsSeq(answer'[Me].items) /\ Len(answer'[Me].items) \in {0, Len(G)}
                       /\ run = "write" => Len(answer'[Me].items) = 1
                       /\ RefusedWhole(answer'[Me], peer)
                       /\ Is(answer'[Me].items)
<1>0. peer' = peer
  BY PeerStays
<1>1. /\ run' = run /\ job' = job /\ jobs' = jobs /\ Given' = G /\ Before' = Before /\ (Counted' <=> Counted) /\ (Lost' <=> Lost)
      /\ (run = "writemulti" => IsJob(job))
  BY ClientStays DEF WriteExchange
<1>2. IsSeq(G) /\ Len(G) \in Nat /\ DOMAIN G = 1..Len(G) /\ (run # "writemulti" => Len(G) = 1)
  BY GivenFacts
<1>3. /\ request[Me].fun = "write" => ~InRequest(Me) /\ request[Me].items = G /\ Was(<<>>)
      /\ InRequest(Me) /\ worker[Me].fun = "write" => AsGiven(worker[Me].items, G) /\ Was(worker[Me].reply)
      /\ run \in {"write", "writemulti"} /\ answer[Me] # Nothing =>
           /\ IsSeq(answer[Me].items) /\ Len(answer[Me].items) \in {0, Len(G)}
           /\ run = "write" => Len(answer[Me].items) = 1
           /\ RefusedWhole(answer[Me], peer)
           /\ Was(answer[Me].items)
  BY DEF WriteExchange, Landed
<1>4. /\ Me \in Conns /\ SessionInv /\ PlaceInv /\ Paired /\ Paired' /\ Nothing.fun = "none"
      /\ run \in {"write", "writemulti"} => run \in Waits /\ AskedBy(run) = {"write"} /\ AnsweredBy(run) = {"write"}
  BY MicroClientAssumption DEF Waits, AskedBy, AnsweredBy, BaseInv, SessionInv, Nothing
<1>5. Request /\ Work /\ Answer => WriteExchange'
  <2>1. Landed(Given, <<>>)' <=> Is(<<>>)
    BY <1>1 DEF Landed
  <2>2. Landed(Given, worker[Me].reply)' <=> Is(worker'[Me].reply)
    BY <1>1 DEF Landed
  <2>3. Landed(Given, answer[Me].items)' <=> Is(answer'[Me].items)
    BY <1>1 DEF Landed
  <2> HIDE DEF G, Is
  <2>4. QED
    BY <1>0, <1>1, <2>1, <2>2, <2>3 DEF WriteExchange
<1>6. ASSUME written' = written, NEW s, Was(s) PROVE Is(s)
  BY <1>6
<1>7. request'[Me] = request[Me] \/ request'[Me].fun = "none"
  BY <1>4, WorkerKinds DEF Alone
<1> HIDE DEF Is, Was, Good, G
<1>8. ASSUME Elsewhere(Me) PROVE Request /\ Work /\ Answer
  <2>1. written' = written /\ ~InRequest(Me)'
    BY <1>1, <1>4, <1>8, WrittenStays DEF Elsewhere
  <2>2. run \in {"write", "writemulti"} /\ answer'[Me] # Nothing => answer'[Me] = answer[Me]
    BY <1>1, <1>4, <1>8 DEF Elsewhere, Paired
  <2>3. QED
    BY <1>3, <1>6, <1>7, <2>1, <2>2
<1>9. ASSUME TakesUp(Me) PROVE Request /\ Work /\ Answer
  <2>1. written' = written /\ request'[Me] = Nothing /\ answer'[Me] = answer[Me]
    BY <1>1, <1>4, <1>9, WrittenStays DEF TakesUp
  <2>2. ASSUME worker'[Me].fun = "write" PROVE AsGiven(worker'[Me].items, G) /\ Is(worker'[Me].reply)
    <3>1. request[Me].fun = "write" /\ worker'[Me].reply = <<>>
      BY <1>9, <2>2 DEF TakesUp
    <3>2. request[Me].items = G /\ Was(<<>>)
      BY <1>3, <3>1
    <3>3. PICK fits \in BOOLEAN :
            worker'[Me].items = [k \in DOMAIN G |-> IF Placed(G, k) THEN G[k] ELSE Stray(G[k], fits)]
      BY <1>9, <2>2, <3>2 DEF TakesUp
    <3>4. ASSUME NEW k \in DOMAIN G PROVE \A i \in DOMAIN Stray(G[k], fits).data : Stray(G[k], fits).data[i].by = "stray"
      BY DEF Stray
    <3> DEFINE items == [k \in DOMAIN G |-> IF Placed(G, k) THEN G[k] ELSE Stray(G[k], fits)]
    <3>5. /\ DOMAIN items = DOMAIN G
          /\ \A k \in DOMAIN G : IF Placed(G, k) THEN items[k] = G[k] ELSE items[k] = Stray(G[k], fits)
      OBVIOUS
    <3> HIDE DEF items
    <3>6. AsGiven(items, G)
      BY <3>4, <3>5 DEF AsGiven
    <3>7. QED
      BY <1>6, <2>1, <3>1, <3>2, <3>3, <3>6 DEF items
  <2>3. QED
    BY <1>3, <1>4, <1>6, <2>1, <2>2
<1>10. ASSUME GoesOn(Me) PROVE Request /\ Work /\ Answer
  <2>1. written' = written
    BY <1>1, <1>4, <1>10, WrittenStays DEF GoesOn
  <2>2. QED
    BY <1>3, <1>6, <1>10, <2>1 DEF GoesOn
<1>11. ASSUME NEW r, Replies(Me, r) PROVE Request /\ Work /\ Answer
  <2>1. InRequest(Me) /\ (run \in {"write", "writemulti"} => worker[Me].fun = "write" /\ answer[Me] = Nothing)
    BY <1>4, <1>11 DEF Replies, Paired
  <2>2. Request
    BY <1>3, <1>4, <1>7, <2>1
  <2>3. CASE worker[Me].fun = "read"
    <3>1. run \notin {"write", "writemulti"}
      BY <2>1, <2>3
    <3>2. InRequest(Me)' => worker'[Me].fun = "read"
      BY <1>11, <2>3 DEF Replies
    <3>3. QED
      BY <2>2, <3>1, <3>2
  <2>4. CASE worker[Me].fun = "write"
    <3> DEFINE replies == worker[Me].reply
               s == Append(replies, r)
               k == Len(replies) + 1
    <3>1. AsGiven(worker[Me].items, G) /\ Was(replies)
      BY <1>3, <2>1, <2>4
    <3>2. /\ IsSeq(s) /\ Len(s) = k /\ Len(worker[Me].items) = Len(G)
          /\ written' = written \cup (IF k \in Stored(G, s) THEN Mine(G[k]) ELSE {})
          /\ Stored(G, s) = Stored(G, replies) \cup (IF k \in Stored(G, s) THEN {k} ELSE {})
          /\ k \in Stored(G, s) => ~Incoherent(G[k]) /\ G[k].area \in Areas
      BY <1>1, <1>2, <1>11, <2>4, <3>1, ReplyLands
    <3> HIDE DEF s, k, replies
    <3>3. Is(s)
      <4>1. Good(s)
        BY <3>1, <3>2 DEF Was, Good
      <4>2. Lands(G, s) = Lands(G, replies) \cup (IF k \in Stored(G, s) THEN Mine(G[k]) ELSE {})
        BY <3>2 DEF Lands
      <4>3. QED
        BY <3>1, <3>2, <4>1, <4>2 DEF Is, Was
    <3>4. \/ answer'[Me] = [fun |-> worker[Me].fun, error |-> "ok", items |-> s] /\ ~InRequest(Me)' /\ Len(s) = Len(G)
          \/ answer'[Me] = answer[Me] /\ worker'[Me].items = worker[Me].items /\ worker'[Me].reply = s
      BY <1>11, <3>2 DEF Replies, s, k, replies
    <3>5. CASE answer'[Me] = [fun |-> worker[Me].fun, error |-> "ok", items |-> s] /\ ~InRequest(Me)' /\ Len(s) = Len(G)
      <4>1. answer'[Me].items = s /\ RefusedWhole(answer'[Me], peer)
        BY <3>5 DEF RefusedWhole
      <4>2. QED
        BY <1>2, <2>2, <3>2, <3>3, <3>5, <4>1
    <3>6. CASE answer'[Me] = answer[Me] /\ worker'[Me].items = worker[Me].items /\ worker'[Me].reply = s
      BY <2>1, <2>2, <3>1, <3>3, <3>6
    <3>7. QED
      BY <3>4, <3>5, <3>6
  <2>5. QED
    BY <1>4, <2>1, <2>3, <2>4, WorkerInRequest
<1>12. QED
  BY <1>4, <1>5, <1>8, <1>9, <1>10, <1>11, WorkerKinds

\* The PLC takes a request or leaves it.
LEMMA PlcRequest ==
  ASSUME SessionInv, PlcStep
  PROVE  request'[Me] = request[Me] \/ request'[Me] = Nothing
<1>1. ASSUME NEW f, PlcTakes(f) PROVE request'[Me] = Nothing
  BY <1>1, MicroClientAssumption DEF PlcTakes, SessionInv, PduTypes
<1>2. QED
  BY <1>1 DEF PlcStep, PlcConnects, PlcUploads, PlcDownloads, PlcControl, PlcSZLSlices, PlcRefuses

\* What the PLC stores has the marks of the item it was given.
LEMMA PlcMarks ==
  ASSUME SessionInv, StampInv, [Next]_vars, PlcWrote
  PROVE  written' = written \cup Mine(request[Me].items[1])
<1> DEFINE it == request[Me].items[1]
<1>1. UNCHANGED clientVars /\ UNCHANGED serverVars /\ Len(request[Me].items) = 1 /\ Me \in Conns
  BY PlcWrites, MicroClientAssumption
<1>2. mem' = mem /\ jobs' = jobs
  BY <1>1 DEF serverVars, clientVars
<1>3. written' = written \cup PlcStored
  BY <1>2, RecordMarks DEF StampInv
<1>4. IsSeq(request[Me].items) /\ \A k \in DOMAIN request[Me].items : IsItem("write", request[Me].items[k])
  BY <1>1 DEF PlcWrote, SessionInv, PduTypes, IsRequest
<1>5. 1 \in DOMAIN request[Me].items
  BY <1>1, <1>4, SeqFacts
<1>6. DOMAIN it.data = 1..SizeOfItem(it)
  BY <1>4, <1>5 DEF IsItem
<1>7. Stamped(Me, it)
  BY <1>1, <1>5 DEF PlcWrote, StampInv, RequestStamped
<1> HIDE DEF it
<1>8. \A k \in DOMAIN it.data : ByJob(it.data[k]) <=> it.data[k].by = "client"
  BY <1>7 DEF ByJob, Stamped, StampedFor
<1>9. PlcStored = {<<it.area, StartByte(it) + k - 1, it.data[k].at>> : k \in {k \in DOMAIN it.data : ByJob(it.data[k])}}
  BY DEF PlcStored, PlcWrote, it
<1>10. PlcStored = Mine(it)
  BY <1>6, <1>8, <1>9 DEF Mine
<1>11. QED
  BY <1>3, <1>10 DEF it

\* A write the PLC has stored has landed.
LEMMA PlcLands ==
  ASSUME BaseInv, StampInv, WriteExchange, run \in {"write", "writemulti"} \/ Lost, [Next]_vars, PlcWrote
  PROVE  /\ Len(Given) = 1 /\ ~Incoherent(Given[1]) /\ Given[1].area \in Areas
         /\ written' = written \cup Mine(Given[1])
         /\ Counted => written = Before
<1>1. SessionInv /\ request[Me].fun = "write"
  BY DEF BaseInv, PlcWrote
<1>2. request[Me].items = Given /\ Landed(Given, <<>>)
  BY <1>1 DEF WriteExchange
<1>3. Len(Given) = 1 /\ CanStore(Given[1])
  BY <1>1, <1>2, PlcWrites
<1>4. written' = written \cup Mine(Given[1])
  BY <1>1, <1>2, PlcMarks
<1>5. Lands(Given, <<>>) = {}
  BY NothingLands
<1>6. Counted => written = Before
  BY <1>2, <1>5 DEF Landed
<1>7. QED
  BY <1>3, <1>4, <1>6 DEF CanStore

\* A write goes on while the client waits and its worker has no part in the step.
LEMMA WriteWaits ==
  ASSUME BaseInv, BaseInv', StampInv, WriteExchange, run \in {"write", "writemulti"} \/ Lost,
         [Next]_vars, UNCHANGED clientVars,
         (MeStays /\ ~WorkerStep(Me)) \/ (PlcStep /\ UNCHANGED serverVars), ~PlcWrote
  PROVE  WriteExchange'
<1> DEFINE G == Given
           Is(s) == (Counted => written = Before \cup Lands(G, s)) /\ \A k \in Stored(G, s) : ~Incoherent(G[k]) /\ G[k].area \in Areas
<1>1. /\ run' = run /\ job' = job /\ jobs' = jobs /\ Given' = G /\ Before' = Before /\ (Counted' <=> Counted) /\ (Lost' <=> Lost)
      /\ (run = "writemulti" => IsJob(job))
  BY ClientStays DEF WriteExchange
<1>2. written' = written /\ peer' = peer
  BY <1>1, WrittenStays, PeerStays DEF BaseInv, serverVars
<1>3. worker'[Me] = worker[Me]
  BY DEF MeStays, serverVars, workerVars
<1>4. /\ request[Me].fun = "write" => ~InRequest(Me) /\ request[Me].items = G /\ Is(<<>>)
      /\ InRequest(Me) /\ worker[Me].fun = "write" => AsGiven(worker[Me].items, G) /\ Is(worker[Me].reply)
      /\ run \in {"write", "writemulti"} /\ answer[Me] # Nothing =>
           /\ IsSeq(answer[Me].items) /\ Len(answer[Me].items) \in {0, Len(G)}
           /\ run = "write" => Len(answer[Me].items) = 1
           /\ RefusedWhole(answer[Me], peer)
           /\ Is(answer[Me].items)
  BY DEF WriteExchange, Landed
<1>5. /\ Landed(Given, <<>>)' <=> Is(<<>>)
      /\ Landed(Given, worker[Me].reply)' <=> Is(worker'[Me].reply)
      /\ Landed(Given, answer[Me].items)' <=> Is(answer'[Me].items)
  BY <1>1, <1>2 DEF Landed
<1>6. IsSeq(G) /\ Len(G) \in Nat /\ (run # "writemulti" => Len(G) = 1)
  BY GivenFacts
<1> HIDE DEF G, Is
<1>7. SUFFICES /\ request'[Me] = request[Me] \/ request'[Me] = Nothing
               /\ run \in {"write", "writemulti"} /\ answer'[Me] # Nothing =>
                    /\ IsSeq(answer'[Me].items) /\ Len(answer'[Me].items) \in {0, Len(G)}
                    /\ run = "write" => Len(answer'[Me].items) = 1
                    /\ RefusedWhole(answer'[Me], peer)
                    /\ Is(answer'[Me].items)
  BY <1>1, <1>2, <1>3, <1>4, <1>5 DEF WriteExchange, InRequest, Nothing
<1>8. CASE MeStays
  BY <1>4, <1>8 DEF MeStays
<1>9. CASE PlcStep /\ run \in {"write", "writemulti"}
  <2> DEFINE few == <<"refused">>
  <2>0. PICK error, item \in {"ok", "refused"} : MayStore(error, item) /\ answer'[Me] = PlcWriteAnswer(error, item)
    BY <1>9, PlcForMe DEF BaseInv, Reported
  <2>1. /\ request[Me] # Nothing /\ request'[Me] = Nothing /\ request[Me].fun = "write" /\ peer = "plc"
        /\ answer'[Me].fun = "write" /\ answer'[Me].items = IF OneItem THEN <<item>> ELSE <<>>
    BY <1>9, <2>0, PlcForMe DEF BaseInv, Reported, PlcWriteAnswer
  <2>10. answer'[Me].items = IF OneItem THEN few ELSE <<>>
    BY <2>1 DEF PlcWrote
  <2>2. answer'[Me].items = IF Len(G) = 1 THEN few ELSE <<>>
    BY <1>4, <2>1, <2>10 DEF OneItem
  <2>11. RefusedWhole(answer'[Me], peer)
    BY <2>1, <2>10 DEF RefusedWhole
  <2>3. IsSeq(few) /\ Len(few) = 1 /\ IsSeq(<<>>) /\ Len(<<>>) = 0
    BY DEF IsSeq
  <2>4. Is(<<>>)
    BY <1>4, <2>1
  <2>5. Is(few)
    <3>1. Stored(G, few) = {} /\ Lands(G, few) = {}
      BY NothingLands
    <3>2. Stored(G, <<>>) = {} /\ Lands(G, <<>>) = {}
      BY NothingLands
    <3> HIDE DEF few
    <3>3. QED
      BY <2>4, <3>1, <3>2 DEF Is
  <2> HIDE DEF few
  <2>6. QED
    BY <1>6, <2>1, <2>2, <2>3, <2>4, <2>5, <2>11
<1>10. CASE PlcStep /\ ~(run \in {"write", "writemulti"})
  BY <1>10, PlcRequest DEF BaseInv
<1>11. QED
  BY <1>8, <1>9, <1>10

\* The PLC stores what it was given and answers "ok".
LEMMA WriteStored ==
  ASSUME BaseInv, BaseInv', StampInv, WriteExchange, run \in {"write", "writemulti"} \/ Lost,
         [Next]_vars, PlcWrote
  PROVE  WriteExchange'
<1> DEFINE G == Given
           few == <<"ok">>
<1>1. UNCHANGED clientVars /\ UNCHANGED serverVars /\ SessionInv' /\ request[Me].fun = "write"
  BY PlcWrites DEF BaseInv, PlcWrote
<1>2. /\ run' = run /\ job' = job /\ jobs' = jobs /\ Given' = G /\ Before' = Before /\ (Counted' <=> Counted) /\ (Lost' <=> Lost)
      /\ (run = "writemulti" => IsJob(job))
  BY <1>1, ClientStays DEF WriteExchange
<1>3. request'[Me] = Nothing /\ answer'[Me].items = few /\ ~InRequest(Me) /\ worker' = worker /\ peer = "plc"
  BY <1>1 DEF PlcWrote, WriteExchange, serverVars, workerVars
<1>4. ~InRequest(Me)' /\ Nothing.fun = "none"
  BY <1>3 DEF InRequest, Nothing
<1>5. /\ Len(G) = 1 /\ ~Incoherent(G[1]) /\ G[1].area \in Areas
      /\ written' = written \cup Mine(G[1]) /\ (Counted => written = Before)
  BY PlcLands
<1>6. Placed(G, 1) /\ DOMAIN few = {1} /\ few[1] = "ok" /\ IsSeq(few) /\ Len(few) = 1
  BY DEF Placed, IsSeq
<1>7. RefusedWhole(answer'[Me], peer')
  BY PlcWrites DEF RefusedWhole, BaseInv
<1> HIDE DEF G, few
<1>8. Stored(G, few) = {1} /\ Lands(G, few) = Mine(G[1])
  <2>1. Stored(G, few) = {1}
    BY <1>6 DEF Stored
  <2>2. QED
    BY <2>1 DEF Lands
<1>9. Landed(Given, answer[Me].items)' <=>
        /\ Counted => written' = Before \cup Lands(G, few)
        /\ \A k \in Stored(G, few) : ~Incoherent(G[k]) /\ G[k].area \in Areas
  BY <1>2, <1>3 DEF Landed
<1>10. Landed(Given, answer[Me].items)'
  BY <1>5, <1>8, <1>9
<1>11. QED
  BY <1>2, <1>3, <1>4, <1>5, <1>6, <1>7, <1>10 DEF WriteExchange

\* What is written of a write of one area when its answer is there.
LEMMA SliceWritten ==
  ASSUME BaseInv, WriteExchange, Answered("write")
  PROVE  /\ run = "write" /\ DOMAIN answer[Me].items = {1}
         /\ job.wl \notin {"Timer", "Counter"} =>
              written = Before \cup (IF answer[Me].items[1] = "ok" THEN Mine(Given[1]) ELSE {})
<1> DEFINE s == answer[Me].items
<1>1. run = "write" /\ IsSeq(s) /\ Len(s) = 1 /\ Landed(Given, s)
  BY DEF WriteExchange, Answered
<1>2. DOMAIN s = {1}
  BY <1>1, SeqFacts
<1> HIDE DEF s
<1>3. Placed(Given, 1)
  BY DEF Placed
<1>4. Stored(Given, s) = IF s[1] = "ok" THEN {1} ELSE {}
  BY <1>2, <1>3 DEF Stored
<1>5. Lands(Given, s) = IF s[1] = "ok" THEN Mine(Given[1]) ELSE {}
  BY <1>4 DEF Lands
<1>6. QED
  BY <1>1, <1>2, <1>5 DEF Landed, Counted, s

\* Nothing is before the first element.
LEMMA NothingBefore ==
  ASSUME NEW a, NEW wl, NEW at \in Nat, NEW n \in Int
  PROVE  Stretch(a, Place(wl, at), DataSizeByte(wl) * (n - n)) = {}
<1> DEFINE p == Place(wl, at)
           d == DataSizeByte(wl)
<1>1. p \in Int
  <2>1. at \div 8 \in Nat
    OBVIOUS
  <2>2. QED
    BY <2>1 DEF Place
<1>2. d = 0 \/ d = 1 \/ d = 2 \/ d = 4
  BY ElementBytes
<1> HIDE DEF p, d
<1>3. d * (n - n) = 0
  BY <1>2
<1>4. p..p + 0 - 1 = {}
  BY <1>1
<1>5. Stretch(a, p, 0) = {}
  BY <1>4 DEF Stretch
<1>6. QED
  BY <1>3, <1>5 DEF p, d

\* A write that asks has written what comes before what it asks to write.
LEMMA WriteBegins ==
  ASSUME BaseInv, BaseInv', StampInv, WriteExchange, WriteSoFar, [Next]_vars, UNCHANGED serverVars,
         opWriteArea \/ WriteSliceDone \/ opDBFill \/ opWriteMultiVars, run' \in {"write", "writemulti"}
  PROVE  Counted' => written' = Before'
<1>1. mem' = mem /\ SessionInv /\ RunOfJob /\ PlaceInv /\ jobs \in Nat /\ ~PlcWrote
  BY SessionConstants, ClientStoresNot DEF serverVars, BaseInv, SessionInv, ClientTypes, JobStep, Submit
<1>2. jobs' = jobs => written' = written
  BY <1>1, WrittenStays
<1>3. jobs' # jobs => written' = {}
  BY <1>1, JobsNext
<1>4. ASSUME run' = "write", written' = {}, left' = job'.amount, job'.op # "writemulti" PROVE written' = Before'
  <2>1. job'.start \in Nat /\ job'.amount \in Nat
    BY <1>4 DEF BaseInv, LoopInv
  <2>2. Before' = Stretch(job'.area, Place(job'.wl, job'.start), DataSizeByte(job'.wl) * (job'.amount - job'.amount))
    BY <1>4 DEF Before, MovedBytes
  <2>3. QED
    BY <1>4, <2>1, <2>2, NothingBefore
<1>5. CASE opWriteArea
  <2>1. jobs' = jobs + 1 /\ job'.op = "write" /\ run' = "write" /\ left' = job'.amount
    BY <1>5 DEF opWriteArea, Begins, WriteSlice, Ask, Returns
  <2>2. QED
    BY <1>1, <1>3, <1>4, <2>1
<1>6. CASE opWriteMultiVars
  <2>1. jobs' = jobs + 1 /\ job'.op = "writemulti"
    BY <1>6 DEF opWriteMultiVars, Begins
  <2>2. QED
    BY <1>1, <1>3, <2>1 DEF Before
<1>7. CASE opDBFill
  <2>1. jobs' = jobs /\ job'.op = "dbfill" /\ run' = "write" /\ run = "blkinfo" /\ left' = job'.amount
    BY <1>7 DEF opDBFill, Answered, WriteSlice, Ask, Returns
  <2>2. QED
    BY <1>2, <1>4, <2>1 DEF WriteSoFar
<1>8. CASE WriteSliceDone
  <2> DEFINE n == NumElements(left, RoomToWrite(job))
             p == Place(job.wl, job.start)
             d == DataSizeByte(job.wl)
  <2>0. WriteError(answer[Me]) = "ok" /\ run' = "write" /\ Answered("write") /\ jobs' = jobs /\ job' = job /\ left' = left - n
    BY <1>8 DEF WriteSliceDone, WriteSlice, Ask, Returns
  <2>1. /\ Answered("write") /\ jobs' = jobs /\ job' = job /\ run' = "write" /\ left' = left - n /\ answer[Me].items[1] = "ok"
    BY <2>0, OkIsOk DEF WriteError, Refused
  <2>2. run = "write" /\ job.op # "writemulti" /\ n \in Nat
    BY <1>1, <2>1, SliceWritten, SliceNat DEF BaseInv, RunOfJob, RunsOf, NoJobRuns, Reported
  <2>3. Before' = Stretch(job.area, p, d * (job.amount - (left - n)))
    BY <2>1, <2>2 DEF Before, MovedBytes
  <2>4. Counted' => job.wl \notin {"Timer", "Counter"}
    BY <2>1, <2>2 DEF Counted
  <2>5. ASSUME job.wl \notin {"Timer", "Counter"} PROVE Before \cup Mine(Given[1]) = Stretch(job.area, p, d * (job.amount - (left - n)))
    <3>1. NextSlice(n, p)
      BY <2>2, <2>5 DEF NextSlice
    <3>2. n >= 0
      BY <2>2
    <3> HIDE DEF n, p
    <3>3. QED
      BY <3>1, <3>2, SliceLands
  <2>6. job.wl \notin {"Timer", "Counter"} => written = Before \cup Mine(Given[1])
    BY <2>1, SliceWritten
  <2> HIDE DEF n, p, d
  <2>7. QED
    BY <1>2, <2>1, <2>3, <2>4, <2>5, <2>6
<1>9. QED
  BY <1>5, <1>6, <1>7, <1>8

\* A lost write was a write.
LEMMA FailsLost ==
  ASSUME RunOfJob, ExchangeFails, Lost'
  PROVE  run = "write" \/ Lost
<1>1. run' = "off" /\ job' = job /\ result' = IF result = "pending" THEN "errIso" ELSE result
  BY DEF ExchangeFails
<1>2. job.op \in {"write", "dbfill"} /\ OneArea /\ result' = "errIso"
  BY <1>1 DEF Lost, OneArea
<1>3. CASE run \in NoJobRuns
  BY <1>1, <1>2, <1>3 DEF Lost, RunOfJob, Claimed, Reported
<1>4. CASE run \notin NoJobRuns
  BY <1>2, <1>4 DEF RunOfJob, RunsOf, Reported
<1>5. QED
  BY <1>3, <1>4

\* The request of a write and its answer stay what the job has given.
LEMMA WriteExchangeNext ==
  ASSUME BaseInv, BaseInv', StampInv, WriteExchange, WriteSoFar, [Next]_vars
  PROVE  WriteExchange'
<1>1. SUFFICES ASSUME run' \in {"write", "writemulti"} \/ Lost' PROVE WriteExchange'
  BY DEF WriteExchange
<1>2. SessionInv /\ RunOfJob /\ Paired /\ Paired' /\ SessionInv'
  BY DEF BaseInv, SessionInv
<1>3. CASE ConnectionStep
  <2>1. run' \notin {"write", "writemulti"}
    BY <1>2, <1>3, ConnectionStays DEF NoJobRuns
  <2>2. QED
    BY <1>3, <2>1, NothingLeft DEF WriteExchange
<1>4. CASE ExchangeFails
  <2>1. /\ UNCHANGED serverVars /\ run' = "off" /\ job' = job /\ jobs' = jobs /\ left' = left /\ start' = start /\ PDULength' = PDULength
    BY <1>4, ClientOrMem DEF ExchangeFails, loopVars
  <2>2. run = "write" \/ Lost
    BY <1>1, <1>2, <1>4, <2>1, FailsLost
  <2>3. written' = written /\ worker' = worker
    BY <1>2, <1>4, <2>1, WrittenStays, ClientStoresNot DEF serverVars, workerVars, BaseInv
  <2>4. request'[Me] = request[Me] \/ request'[Me].fun = "none"
    BY <1>2, <1>4, MicroClientAssumption DEF ExchangeFails, SessionInv, PduTypes, Nothing
  <2>5. Given' = Given /\ Before' = Before /\ (Counted' <=> Counted)
    BY <2>1 DEF Given, RoomToWrite, Before, MovedBytes, Counted
  <2> DEFINE Is(s) == /\ Counted => written = Before \cup Lands(Given, s)
                      /\ \A k \in Stored(Given, s) : ~Incoherent(Given[k]) /\ Given[k].area \in Areas
  <2>6. /\ request[Me].fun = "write" => ~InRequest(Me) /\ request[Me].items = Given /\ Is(<<>>)
        /\ InRequest(Me) /\ worker[Me].fun = "write" => AsGiven(worker[Me].items, Given) /\ Is(worker[Me].reply)
    BY <2>2 DEF WriteExchange, Landed
  <2>7. /\ Landed(Given, <<>>)' <=> Is(<<>>)
        /\ Landed(Given, worker[Me].reply)' <=> Is(worker'[Me].reply)
    BY <2>3, <2>5 DEF Landed
  <2> HIDE DEF Is
  <2>8. QED
    BY <2>1, <2>3, <2>4, <2>5, <2>6, <2>7 DEF WriteExchange, InRequest
<1>5. CASE UNCHANGED serverVars /\ JobStep
  <2>1. ~Lost'
    BY <1>2, <1>5, JobStepEnds
  <2>2. opWriteArea \/ WriteSliceDone \/ opDBFill \/ opWriteMultiVars
    BY <1>1, <1>2, <1>5, <2>1, RunAfter
  <2>3. run' \in {"write", "writemulti"}
    BY <1>1, <2>1
  <2>4. request'[Me] = [fun |-> "write", items |-> Given'] /\ answer'[Me] = Nothing
    BY <1>2, <2>2, <2>3, WriteAsked
  <2>5. request'[Me].items = Given' /\ request'[Me] # Nothing
    BY <2>4 DEF Nothing
  <2>6. ~InRequest(Me)'
    BY <1>2, <2>3, <2>5 DEF Paired, Waits
  <2>7. Counted' => written' = Before'
    BY <1>5, <2>2, <2>3, WriteBegins
  <2>8. run' = "writemulti" => IsJob(job')
    <3>1. run' = "writemulti" => opWriteMultiVars
      BY <1>2, <1>5, RunAfter
    <3>2. opWriteMultiVars => IsJob(job')
      <4>1. SUFFICES ASSUME opWriteMultiVars PROVE IsJob(job')
        OBVIOUS
      <4>2. PICK j \in Jobs : Begins(j, {"writemulti"}) /\ job' = j
        BY <4>1 DEF opWriteMultiVars
      <4>3. IsJob(j)
        BY <1>2, <4>2, JobBegins
      <4>4. QED
        BY <4>2, <4>3
    <3>3. QED
      BY <3>1, <3>2
  <2>9. Landed(Given, <<>>)'
    <3> DEFINE G == Given'
    <3>1. Stored(G, <<>>) = {} /\ Lands(G, <<>>) = {}
      BY NothingLands
    <3>2. Landed(Given, <<>>)' <=> /\ Counted' => written' = Before' \cup Lands(G, <<>>)
                                   /\ \A k \in Stored(G, <<>>) : ~Incoherent(G[k]) /\ G[k].area \in Areas
      BY DEF Landed
    <3> HIDE DEF G
    <3>3. QED
      BY <2>7, <3>1, <3>2
  <2>10. QED
    BY <2>1, <2>4, <2>5, <2>6, <2>8, <2>9 DEF WriteExchange
<1>6. CASE UNCHANGED clientVars /\ (MeStays \/ WorkerStep(Me) \/ (PlcStep /\ UNCHANGED serverVars))
  <2>1. run \in {"write", "writemulti"} \/ Lost
    BY <1>1, <1>6, ClientStays
  <2>2. CASE WorkerStep(Me) /\ ~PlcWrote
    BY <1>6, <2>1, <2>2, WorkerWrites
  <2>3. CASE ~WorkerStep(Me) /\ ~PlcWrote
    BY <1>6, <2>1, <2>3, WriteWaits
  <2>4. CASE PlcWrote
    BY <2>1, <2>4, WriteStored
  <2>5. QED
    BY <2>2, <2>3, <2>4
<1>7. QED
  BY <1>2, <1>3, <1>4, <1>5, <1>6, NextForMe

\* A job that ends returns to its caller.
LEMMA ReturnsIdle ==
  ASSUME SessionInv, JobStep, run' \in NoJobRuns
  PROVE  run' = "idle"
<1>1. CASE Submit
  BY <1>1, JobStarts
<1>2. CASE OtherClientStep
  BY <1>2, OtherRunsStay
<1>3. CASE ReadSliceDone \/ WriteSliceDone \/ MultiVarsDone
  BY <1>3 DEF ReadSliceDone, WriteSliceDone, MultiVarsDone, ReadSlice, WriteSlice, Ask, Returns, NoJobRuns
<1>4. CASE AgBlockInfoDone \/ ListSliceDone
  BY <1>4 DEF AgBlockInfoDone, ListSliceDone, Ask, Returns, NoJobRuns
<1>5. CASE opDBGet \/ opDBFill
  BY <1>5 DEF opDBGet, opDBFill, ReadSlice, WriteSlice, Ask, Returns, NoJobRuns
<1>6. QED
  BY <1>1, <1>2, <1>3, <1>4, <1>5 DEF JobStep

\* A write is left at the server by nothing but a failed exchange.
LEMMA LeftBehindNext ==
  ASSUME BaseInv, BaseInv', LeftBehind, [Next]_vars
  PROVE  LeftBehind'
<1> DEFINE There == request[Me].fun = "write" \/ (InRequest(Me) /\ worker[Me].fun = "write")
<1>1. /\ LeftBehind <=> (run \in NoJobRuns /\ There => result = "errIso")
      /\ LeftBehind' <=> (run' \in NoJobRuns /\ There' => result' = "errIso")
  BY DEF LeftBehind
<1>2. SessionInv /\ SessionInv' /\ RunOfJob /\ Nothing.fun = "none"
  BY DEF BaseInv, Nothing
<1>3. CASE ConnectionStep
  BY <1>1, <1>3, NothingLeft
<1>4. CASE ExchangeFails
  <2>1. result' = IF result = "pending" THEN "errIso" ELSE result
    BY <1>4 DEF ExchangeFails
  <2>2. CASE run \notin NoJobRuns
    BY <1>1, <1>2, <2>1, <2>2 DEF RunOfJob
  <2>3. CASE run \in NoJobRuns
    <3>1. worker' = worker
      BY <1>4, ClientOrMem DEF serverVars, workerVars
    <3>2. request'[Me] = request[Me] \/ request'[Me].fun = "none"
      BY <1>2, <1>4, MicroClientAssumption DEF ExchangeFails, SessionInv, PduTypes, Nothing
    <3>3. There' => There
      BY <3>1, <3>2 DEF InRequest
    <3>4. QED
      BY <1>1, <2>1, <2>3, <3>3
  <2>4. QED
    BY <2>2, <2>3
<1>5. CASE UNCHANGED serverVars /\ JobStep
  <2>1. run' \in NoJobRuns => run' = "idle"
    BY <1>2, <1>5, ReturnsIdle
  <2>2. run' = "idle" => ~There'
    BY <1>2 DEF SessionInv, Paired
  <2>3. QED
    BY <1>1, <2>1, <2>2
<1>6. CASE UNCHANGED clientVars /\ (MeStays \/ WorkerStep(Me) \/ (PlcStep /\ UNCHANGED serverVars))
  <2>1. run' = run /\ result' = result
    BY <1>6, ClientStays
  <2>2. CASE MeStays
    BY <1>1, <2>1, <2>2 DEF MeStays, InRequest
  <2>3. CASE WorkerStep(Me)
    <3>1. Me \in Conns
      BY MicroClientAssumption
    <3>2. request'[Me] = request[Me] \/ request'[Me] = Nothing
      BY <1>2, <2>3, <3>1, WorkerKinds DEF Alone
    <3>3. InRequest(Me)' /\ worker'[Me].fun = "write" => There
      BY <1>2, <2>3, <3>1, WorkerKinds DEF Elsewhere, TakesUp, GoesOn, Replies
    <3>4. QED
      BY <1>1, <1>2, <2>1, <3>2, <3>3
  <2>4. CASE PlcStep /\ UNCHANGED serverVars
    <3>1. request'[Me] = request[Me] \/ request'[Me] = Nothing
      BY <1>2, <2>4, PlcRequest
    <3>2. worker' = worker
      BY <2>4 DEF serverVars, workerVars
    <3>3. There' => There
      BY <1>2, <3>1, <3>2 DEF InRequest
    <3>4. QED
      BY <1>1, <2>1, <3>3
  <2>5. QED
    BY <1>6, <2>2, <2>3, <2>4
<1>7. QED
  BY <1>2, <1>3, <1>4, <1>5, <1>6, NextForMe

\* A slice moves some elements, unless it is the first of a multiple of WordMod.
LEMMA SliceMoves ==
  ASSUME BaseInv, WriteSoFar, run = "write"
  PROVE  LET n == NumElements(left, RoomToWrite(job))
         IN n \in Nat /\ n <= left /\ (n > 0 \/ left % WordMod = 0) /\ left \in Nat
<1> DEFINE d == DataSizeByte(job.wl)
           m == PDULength - WriteHead
           x == left % WordMod
<1>1. (d = 1 \/ d = 2 \/ d = 4) /\ left \in Nat
  BY SliceGiven
<1>2. m \in Int /\ m >= d
  <2>1. PDULength \in Int /\ PDULength >= MinPduSize
    BY SessionConstants DEF BaseInv, SessionInv, ClientTypes
  <2>2. WriteHead + d <= MinPduSize
    BY DEF WriteSoFar
  <2> HIDE DEF d
  <2>3. QED
    BY <1>1, <2>1, <2>2, SessionConstants
<1>3. RoomToWrite(job) = m \div d
  BY DEF RoomToWrite
<1>4. x \in Nat /\ x <= left
  BY <1>1, MicroClientAssumption
<1> HIDE DEF d, m
<1>5. m \div d \in Int /\ m \div d >= 1
  BY <1>1, <1>2
<1>6. NumElements(left, RoomToWrite(job)) = Least(x, m \div d)
  BY <1>3 DEF NumElements
<1> HIDE DEF x
<1>7. Least(x, m \div d) \in Nat /\ Least(x, m \div d) <= left /\ (Least(x, m \div d) > 0 \/ x = 0)
  BY <1>1, <1>4, <1>5 DEF Least
<1>8. QED
  BY <1>1, <1>6, <1>7 DEF x

\* What is written of a write stays a prefix, whatever the worker does.
LEMMA PrefixStays ==
  ASSUME BaseInv, StampInv, WriteExchange, run = "write" \/ Lost, job.wl \notin {"Timer", "Counter"}, Prefix,
         [Next]_vars, UNCHANGED clientVars
  PROVE  Prefix'
<1>1. /\ job' = job /\ jobs' = jobs /\ Bytes' = Bytes /\ SessionInv /\ PlaceInv /\ Me \in Conns
      /\ Counted /\ run # "writemulti"
  BY ClientStays, MicroClientAssumption DEF BaseInv, Counted, Lost, NoJobRuns
<1>2. ASSUME written' = written PROVE Prefix'
  BY <1>1, <1>2 DEF Prefix
<1>7. CASE PlcWrote
  <2> DEFINE n == NumElements(left, RoomToWrite(job))
             p == Place(job.wl, job.start)
  <2>1. written' = Before \cup Mine(Given[1])
    BY <1>1, <1>7, PlcLands
  <2>2. NextSlice(n, p)
    BY DEF NextSlice
  <2>3. \E k \in 0..Bytes : Before \cup Mine(Given[1]) = Stretch(job.area, p, k)
    <3> HIDE DEF n, p
    <3>1. QED
      BY <2>2, SliceLands
  <2>4. \E k \in 0..Bytes : written' = Stretch(job.area, p, k)
    BY <2>1, <2>3
  <2>5. QED
    BY <1>1, <2>4 DEF Prefix
<1>3. ASSUME NEW r, Replies(Me, r), worker[Me].fun = "write", ~PlcWrote PROVE Prefix'
  <2> DEFINE n == NumElements(left, RoomToWrite(job))
             p == Place(job.wl, job.start)
             G == Given
             replies == worker[Me].reply
             S == Stored(G, Append(replies, r))
  <2>1. IsSeq(G) /\ Len(G) = 1
    BY <1>1, GivenFacts
  <2>2. InRequest(Me)
    BY <1>3 DEF Replies
  <2>3. AsGiven(worker[Me].items, G) /\ Landed(G, replies)
    BY <1>3, <2>2 DEF WriteExchange
  <2>4. Len(worker[Me].items) = Len(G) /\ written' = written \cup (IF Len(replies) + 1 \in S THEN Mine(G[Len(replies) + 1]) ELSE {})
    <3> HIDE DEF G
    <3>1. QED
      BY <1>1, <1>3, <2>1, <2>3, ReplyLands
  <2>5. replies = <<>> /\ Len(replies) = 0
    <3>1. IsSeq(replies) /\ Len(replies) \in Nat /\ Len(replies) < Len(worker[Me].items)
      BY <1>1, <2>2, WorkerInRequest
    <3>2. QED
      BY <2>1, <2>4, <3>1, SeqFacts
  <2>6. written = Before
    <3> HIDE DEF G
    <3>1. written = Before \cup Lands(G, <<>>)
      BY <1>1, <2>3, <2>5 DEF Landed
    <3>2. QED
      BY <3>1, NothingLands
  <2>7. written' = Before \/ written' = Before \cup Mine(Given[1])
    <3> HIDE DEF S
    <3>1. QED
      BY <2>4, <2>5, <2>6
  <2>8. NextSlice(n, p)
    BY DEF NextSlice
  <2>9. /\ \E k \in 0..Bytes : Before = Stretch(job.area, p, k)
        /\ \E k \in 0..Bytes : Before \cup Mine(Given[1]) = Stretch(job.area, p, k)
    <3> HIDE DEF n, p
    <3>1. MovedBytes \in 0..Bytes - 1 /\ Bytes \in Nat /\ Before = Stretch(job.area, p, MovedBytes)
      BY <2>8, SliceLands
    <3>2. MovedBytes \in 0..Bytes
      BY <3>1
    <3>3. QED
      BY <2>8, <3>1, <3>2, SliceLands
  <2>10. \E k \in 0..Bytes : written' = Stretch(job.area, p, k)
    BY <2>7, <2>9
  <2>11. QED
    BY <1>1, <2>10 DEF Prefix
<1>4. CASE ~WorkerStep(Me) /\ ~PlcWrote
  BY <1>1, <1>2, <1>4, WrittenStays
<1>5. CASE WorkerStep(Me) /\ ~PlcWrote
  <2>1. CASE mem' = mem
    BY <1>1, <1>2, <1>5, <2>1, WrittenStays
  <2>2. CASE mem' # mem
    <3>1. \E r : Replies(Me, r)
      BY <1>1, <1>5, <2>2, WorkerKinds DEF Elsewhere, TakesUp, GoesOn
    <3>2. PICK r : Replies(Me, r)
      BY <3>1
    <3>3. worker[Me].fun = "write"
      BY <2>2, <3>2 DEF Replies
    <3>4. QED
      BY <1>3, <1>5, <3>2, <3>3
  <2>3. QED
    BY <2>1, <2>2
<1>6. QED
  BY <1>4, <1>5, <1>7

\* The connection comes and goes without the memory.
LEMMA ConnectionMem ==
  ASSUME [Next]_vars, ConnectionStep
  PROVE  mem' = mem
<1>1. run' # run
  BY DEF ConnectionStep, PeerConnect, NegotiatePDULength, Negotiated, PeerDisconnect, Ask, Answered
<1>2. ~UNCHANGED clientVars
  BY <1>1 DEF clientVars
<1>3. QED
  BY <1>2, ClientOrMem

\* A write that asks has written a prefix, from its first slice on.
LEMMA WriteAsksOn ==
  ASSUME BaseInv, BaseInv', StampInv, WriteSoFar, [Next]_vars, UNCHANGED serverVars,
         opWriteArea \/ WriteSliceDone \/ opDBFill, run' = "write"
  PROVE  WriteSoFar'
<1>1. mem' = mem /\ SessionInv /\ RunOfJob /\ PlaceInv /\ jobs \in Nat /\ "write" \notin NoJobRuns /\ ~PlcWrote
  BY SessionConstants, ClientStoresNot DEF serverVars, BaseInv, SessionInv, ClientTypes, NoJobRuns, JobStep, Submit
<1>2. jobs' = jobs => written' = written
  BY <1>1, WrittenStays
<1>3. jobs' # jobs => written' = {}
  BY <1>1, JobsNext
<1>4. ASSUME written' = {} PROVE Prefix'
  <2> DEFINE f == Place(job'.wl, job'.start)
  <2>1. job'.amount \in Nat /\ job'.start \in Nat /\ DataSizeByte(job'.wl) \in {1, 2, 4}
    <3>1. job'.amount \in Nat /\ job'.start \in Nat /\ BadParams(job') = "ok"
      BY DEF BaseInv, LoopInv
    <3>2. QED
      BY <3>1, GoodParams, ElementBytes
  <2>2. Bytes' \in Nat
    <3> DEFINE d == DataSizeByte(job'.wl)
    <3>1. (d = 1 \/ d = 2 \/ d = 4) /\ Bytes' = job'.amount * d
      BY <2>1 DEF Bytes
    <3> HIDE DEF d
    <3>2. QED
      BY <2>1, <3>1
  <2>3. f \in Int
    BY <2>1 DEF Place
  <2> HIDE DEF f
  <2>4. Stretch(job'.area, f, 0) = {}
    BY <2>3 DEF Stretch
  <2>5. \E n \in 0..Bytes' : written' = Stretch(job'.area, f, n)
    BY <1>4, <2>2, <2>4
  <2>6. QED
    BY <2>5 DEF Prefix, f
<1>5. CASE opWriteArea
  <2>1. PICK j \in Jobs : Begins(j, {"write"}) /\ job' = j /\ left' = j.amount /\ first' = TRUE
    BY <1>5 DEF opWriteArea, WriteSlice, Returns
  <2>2. j.op = "write" /\ jobs' = jobs + 1
    BY <1>1, <2>1, JobBegins
  <2>3. WriteHead + DataSizeByte(j.wl) <= MinPduSize
    BY <2>2, S7SessionAssumption
  <2>4. Prefix'
    BY <1>1, <1>3, <1>4, <2>2
  <2>5. QED
    BY <2>1, <2>3, <2>4 DEF WriteSoFar
<1>6. CASE opDBFill
  <2>1. run = "blkinfo" /\ jobs' = jobs /\ job'.wl = "Byte" /\ first' = TRUE /\ left' = job'.amount
    BY <1>6 DEF opDBFill, Answered, WriteSlice, Returns
  <2>2. Prefix'
    BY <1>2, <1>4, <2>1 DEF WriteSoFar
  <2>3. WriteHead + DataSizeByte("Byte") <= MinPduSize
    <3>1. DataSizeByte("Byte") = 1
      BY DEF DataSizeByte
    <3>2. QED
      BY <3>1, SessionConstants
  <2>4. QED
    BY <2>1, <2>2, <2>3 DEF WriteSoFar
<1>7. CASE WriteSliceDone
  <2> DEFINE n == NumElements(left, RoomToWrite(job))
  <2>1. run = "write" /\ job' = job /\ jobs' = jobs /\ first' = FALSE /\ left' = left - n
    BY <1>7 DEF WriteSliceDone, Answered, WriteSlice, Ask, Returns
  <2>2. n \in Nat /\ n <= left /\ (n > 0 \/ left % WordMod = 0) /\ left \in 1..job.amount /\ job.amount \in Nat
    BY <2>1, SliceMoves, SliceGiven
  <2> HIDE DEF n
  <2>3. left' < job.amount \/ job.amount % WordMod = 0
    <3>1. CASE n > 0
      BY <2>1, <2>2, <3>1
    <3>2. CASE left % WordMod = 0 /\ left = job.amount
      BY <3>2
    <3>3. CASE left < job.amount
      BY <2>1, <2>2, <3>3
    <3>4. QED
      BY <2>2, <3>1, <3>2, <3>3
  <2>4. job.wl \notin {"Timer", "Counter"} => Prefix'
    BY <1>2, <2>1 DEF WriteSoFar, Prefix, Bytes
  <2>5. QED
    BY <2>1, <2>3, <2>4 DEF WriteSoFar
<1>8. QED
  BY <1>5, <1>6, <1>7

\* Every step keeps what is known of a write that goes on or was lost.
LEMMA WriteSoFarNext ==
  ASSUME BaseInv, BaseInv', StampInv, WriteExchange, WriteSoFar, [Next]_vars
  PROVE  WriteSoFar'
<1>1. SessionInv /\ RunOfJob /\ PlaceInv
  BY DEF BaseInv
<1>2. ASSUME written' = written, job' = job, left' = left, first' = first,
             run' \in {"blkinfo", "write"} => run' = run, Lost' => run = "write" \/ Lost
      PROVE  WriteSoFar'
  <2>1. Prefix' <=> Prefix
    BY <1>2 DEF Prefix, Bytes
  <2>2. QED
    BY <1>2, <2>1 DEF WriteSoFar
<1>3. CASE ConnectionStep
  <2>1. /\ run \in NoJobRuns /\ run' \in NoJobRuns
        /\ UNCHANGED <<job, jobs, result, left, first>>
    BY <1>1, <1>3, ConnectionStays
  <2>2. written' = written
    BY <1>1, <1>3, <2>1, ConnectionMem, WrittenStays, ClientStoresNot
  <2>3. Lost' => Lost
    BY <2>1 DEF Lost, OneArea
  <2>4. run' \notin {"blkinfo", "write"}
    BY <2>1 DEF NoJobRuns
  <2>5. QED
    BY <1>2, <2>1, <2>2, <2>3, <2>4
<1>4. CASE ExchangeFails
  <2>1. UNCHANGED serverVars /\ run' = "off" /\ job' = job /\ jobs' = jobs /\ left' = left /\ first' = first
    BY <1>4, ClientOrMem DEF ExchangeFails, loopVars
  <2>2. written' = written
    BY <1>1, <1>4, <2>1, WrittenStays, ClientStoresNot DEF serverVars
  <2>3. Lost' => run = "write" \/ Lost
    BY <1>1, <1>4, FailsLost
  <2>4. QED
    BY <1>2, <2>1, <2>2, <2>3
<1>5. CASE UNCHANGED serverVars /\ JobStep
  <2>1. ~Lost'
    BY <1>1, <1>5, JobStepEnds
  <2>2. CASE run' = "write"
    <3>1. opWriteArea \/ WriteSliceDone \/ opDBFill
      BY <1>1, <1>5, <2>2, RunAfter
    <3>2. QED
      BY <1>5, <2>2, <3>1, WriteAsksOn
  <2>3. CASE run' = "blkinfo"
    <3>1. opAgBlockInfo
      BY <1>1, <1>5, <2>3, RunAfter
    <3>2. jobs' # jobs
      BY <1>1, <3>1, JobStarts, SessionConstants DEF Submit, SessionInv, ClientTypes
    <3>3. written' = {}
      BY <1>1, <3>2, JobsNext
    <3>4. QED
      BY <2>1, <2>3, <3>3 DEF WriteSoFar
  <2>4. QED
    BY <2>1, <2>2, <2>3 DEF WriteSoFar
<1>6. CASE UNCHANGED clientVars
  <2>1. run' = run /\ job' = job /\ jobs' = jobs /\ left' = left /\ first' = first /\ (Lost' <=> Lost)
    BY <1>6, ClientStays
  <2>2. (run = "write" \/ Lost) /\ job.wl \notin {"Timer", "Counter"} => Prefix'
    BY <1>6, PrefixStays DEF WriteSoFar
  <2>3. run = "blkinfo" => written' = {}
    <3>0. run = "blkinfo" => ~PlcWrote
      BY <1>1 DEF PlcWrote, SessionInv, Paired, Waits, AskedBy, Nothing
    <3>1. CASE mem' = mem \/ ~WorkerStep(Me)
      BY <1>1, <2>1, <3>0, <3>1, WrittenStays DEF WriteSoFar
    <3>2. CASE mem' # mem /\ WorkerStep(Me) /\ run = "blkinfo"
      <4>1. PICK r : Replies(Me, r)
        BY <1>1, <3>2, WorkerKinds, MicroClientAssumption DEF Elsewhere, TakesUp, GoesOn
      <4>2. InRequest(Me) /\ worker[Me].fun = "write"
        BY <3>2, <4>1 DEF Replies
      <4>3. QED
        BY <1>1, <3>2, <4>2 DEF SessionInv, Paired, Waits, AskedBy
    <3>3. QED
      BY <3>1, <3>2
  <2>4. QED
    BY <2>1, <2>2, <2>3 DEF WriteSoFar
<1>7. QED
  BY <1>1, <1>3, <1>4, <1>5, <1>6, NextForMe

\* A job that writes nothing, or that is lost, has nothing else to report.
LEMMA NoWriteResult ==
  ASSUME job'.op \notin {"write", "dbfill", "writemulti"} \/ (~OneArea' /\ job'.op # "writemulti")
         \/ (result' \in StartErrors /\ written' = {})
  PROVE  WriteResult'
<1>1. MultiReport'
  BY DEF MultiReport, StartErrors
<1>2. CASE job'.op \notin {"write", "dbfill"} \/ ~OneArea'
  BY <1>1, <1>2 DEF WriteResult, AreaReport
<1>3. CASE result' \in StartErrors /\ written' = {}
  <2>1. result' \notin {"ok", "errCliPartialDataWritten", "errIso"}
    BY <1>3 DEF StartErrors
  <2>2. AreaReport'
    BY <1>3, <2>1 DEF AreaReport
  <2>3. QED
    BY <1>1, <2>2 DEF WriteResult
<1>4. QED
  BY <1>2, <1>3

\* A write of one area is answered: what is reported is what was written.
LEMMA AreaReported ==
  ASSUME BaseInv, StampInv, WriteExchange, WriteSoFar, [Next]_vars, UNCHANGED serverVars, WriteSliceDone, run' \in NoJobRuns
  PROVE  WriteResult'
<1> DEFINE n == NumElements(left, RoomToWrite(job))
           p == Place(job.wl, job.start)
           d == DataSizeByte(job.wl)
           code == answer[Me].items[1]
<1>1. /\ Answered("write") /\ job' = job /\ jobs' = jobs
      /\ \/ answer[Me].error # "ok" /\ result' = CpuError(answer[Me].error)
         \/ code # "ok" /\ result' = Refused(code)
         \/ code = "ok" /\ ~(left - n > 0) /\ result' = "ok"
  <2>1. Answered("write") /\ job' = job /\ jobs' = jobs
    BY DEF WriteSliceDone
  <2>2. \/ WriteError(answer[Me]) # "ok" /\ result' = WriteError(answer[Me])
        \/ WriteError(answer[Me]) = "ok" /\ ~(left - n > 0) /\ result' = "ok"
    BY DEF WriteSliceDone, WriteSlice, Ask, Returns, NoJobRuns
  <2>3. \/ answer[Me].error # "ok" /\ WriteError(answer[Me]) = CpuError(answer[Me].error)
        \/ code # "ok" /\ WriteError(answer[Me]) = Refused(code)
        \/ code = "ok" /\ WriteError(answer[Me]) = "ok"
    BY DEF WriteError
  <2>4. CpuError(answer[Me].error) = "ok" => answer[Me].error = "ok"
    BY OkIsOk
  <2>5. Refused(code) = "ok" => code = "ok"
    BY OkIsOk DEF Refused
  <2> HIDE DEF code
  <2>6. QED
    BY <2>1, <2>2, <2>3, <2>4, <2>5
<1>2. run = "write" /\ (job.wl \notin {"Timer", "Counter"} => written = Before \cup (IF code = "ok" THEN Mine(Given[1]) ELSE {}))
  BY <1>1, SliceWritten
<1>3. job.op \in {"write", "dbfill"} /\ MultiReport'
  BY <1>1, <1>2, SliceGiven DEF MultiReport
<1>4. written' = written /\ peer' = peer
  BY <1>1, WrittenStays, PeerStays, ClientStoresNot DEF serverVars, BaseInv, JobStep
<1>5. CASE job.wl \in {"Timer", "Counter"}
  BY <1>1, <1>3, <1>5 DEF WriteResult, AreaReport
<1>6. CASE job.wl \notin {"Timer", "Counter"}
  <2>1. NextSlice(n, p)
    BY <1>2, <1>6 DEF NextSlice
  <2>2. n \in Nat /\ n <= left /\ left \in 1..job.amount /\ job.amount \in Nat
    BY <1>2, SliceMoves, SliceGiven
  <2>3. /\ Before = Stretch(job.area, p, MovedBytes) /\ MovedBytes \in 0..Bytes - 1 /\ Bytes \in Nat
        /\ MovedBytes = 0 => left = job.amount
        /\ Before \cup Mine(Given[1]) = Stretch(job.area, p, d * (job.amount - (left - n)))
    <3> HIDE DEF n, p
    <3>1. n >= 0
      BY <2>2
    <3>2. QED
      BY <2>1, <3>1, SliceLands
  <2> HIDE DEF n, p
  <2>4. Bytes' = Bytes /\ p = Place(job'.wl, job'.start)
    BY <1>1 DEF Bytes, p
  <2>5. CASE code = "ok" /\ ~(left - n > 0) /\ result' = "ok"
    <3>1. d * (job.amount - (left - n)) = Bytes
      <4>1. job.amount - (left - n) = job.amount
        BY <2>2, <2>5
      <4>2. (d = 1 \/ d = 2 \/ d = 4) /\ Bytes = job.amount * d
        BY <1>2, SliceGiven DEF Bytes
      <4> HIDE DEF d
      <4>3. d * job.amount = job.amount * d
        BY <2>2, <4>2
      <4>4. QED
        BY <4>1, <4>2, <4>3
    <3>2. written' = Stretch(job.area, p, Bytes)
      BY <1>2, <1>4, <1>6, <2>3, <2>5, <3>1
    <3>3. AreaReport'
      BY <1>1, <2>4, <2>5, <3>2 DEF AreaReport
    <3>4. QED
      BY <1>3, <3>3 DEF WriteResult
  <2>8. CASE answer[Me].error # "ok" /\ result' = CpuError(answer[Me].error)
    <3>1. RefusedWhole(answer[Me], peer) /\ 1 \in DOMAIN answer[Me].items
      BY <1>1, <1>2, SliceWritten DEF WriteExchange, Answered
    <3>2. peer = "plc" /\ code # "ok"
      BY <2>8, <3>1 DEF RefusedWhole
    <3>3. written' = Stretch(job.area, p, MovedBytes)
      BY <1>2, <1>4, <1>6, <2>3, <3>2
    <3>4. result' \notin {"ok", "errCliPartialDataWritten", "errIso"}
      BY <2>8, OkIsOk DEF CpuError
    <3>5. peer' = "plc" /\ \E m \in 0..Bytes' - 1 : written' = Stretch(job'.area, p, m)
      BY <1>1, <1>4, <2>3, <2>4, <3>2, <3>3
    <3>6. AreaReport'
      BY <2>4, <3>4, <3>5 DEF AreaReport
    <3>7. QED
      BY <1>3, <3>6 DEF WriteResult
  <2>6. CASE code # "ok" /\ result' = Refused(code)
    <3>1. written' = Stretch(job.area, p, MovedBytes)
      BY <1>2, <1>4, <1>6, <2>3, <2>6
    <3>2. CASE first
      <4>1. left = job.amount
        BY <1>2, <3>2 DEF WriteSoFar
      <4>2. Before = {}
        <5>1. job.start \in Nat /\ job.op # "writemulti"
          BY <1>2, SliceGiven
        <5>2. Before = Stretch(job.area, Place(job.wl, job.start), DataSizeByte(job.wl) * (job.amount - job.amount))
          BY <4>1, <5>1 DEF Before, MovedBytes
        <5>3. QED
          BY <2>2, <5>1, <5>2, NothingBefore
      <4>3. result' \notin {"ok", "errCliPartialDataWritten", "errIso"}
        BY <2>6, <3>2 DEF Refused, CpuError
      <4>4. written' = {}
        BY <2>3, <3>1, <4>2
      <4>5. AreaReport'
        BY <4>3, <4>4 DEF AreaReport
      <4>6. QED
        BY <1>3, <4>5 DEF WriteResult
    <3>3. CASE ~first
      <4>1. result' = "errCliPartialDataWritten"
        BY <2>6, <3>3 DEF Refused
      <4>2. MovedBytes = 0 => job.amount % WordMod = 0
        BY <1>2, <2>2, <2>3, <3>3 DEF WriteSoFar
      <4>3. \E m \in 0..Bytes' - 1 : written' = Stretch(job'.area, p, m) /\ (m = 0 => job'.amount % WordMod = 0)
        BY <1>1, <2>3, <2>4, <3>1, <4>2
      <4>4. AreaReport'
        BY <2>4, <4>1, <4>3 DEF AreaReport
      <4>5. QED
        BY <1>3, <4>4 DEF WriteResult
    <3>4. QED
      BY <3>2, <3>3
  <2>7. QED
    BY <1>1, <2>5, <2>6, <2>8
<1>7. QED
  BY <1>5, <1>6

\* An item of a multiple write that was stored.
LEMMA ItemMarks ==
  ASSUME IsJob(job), job.op = "writemulti", NEW k \in DOMAIN job.items,
         ~Incoherent(WriteItem(job, jobs, k)), WriteItem(job, jobs, k).area \in Areas
  PROVE  LET part == job.items[k]
             mine == Mine(WriteItem(job, jobs, k))
         IN /\ part.area = "TM" => \A w \in mine : w[1] = "TM"
            /\ part.area # "TM" =>
                 mine = Stretch(part.area, Place(part.wl, part.start), part.amount * DataSizeByte(part.wl))
            /\ \A f, m : part.area # "TM" => \A w \in Stretch(part.area, f, m) : w[1] # "TM"
<1> DEFINE part == job.items[k]
           it == Adjusted(part)
           given == WriteItem(job, jobs, k)
<1>1. IsPart(part)
  <2>1. job.items \in Seq({i \in {job.items[l] : l \in DOMAIN job.items} : IsPart(i)})
    BY DEF IsJob
  <2> DEFINE S == {i \in {job.items[l] : l \in DOMAIN job.items} : IsPart(i)}
  <2>2. job.items[k] \in S
    BY <2>1, SeqFacts
  <2>3. QED
    BY <2>2
<1>2. it.area = part.area /\ it.start = part.start /\ it.amount = part.amount /\ part.start \in Nat /\ part.amount \in Nat
  BY <1>1 DEF Adjusted, IsPart
<1>3. given = Data(it, jobs, 0, it.amount)
  BY DEF WriteItem
<1>4. given.area = part.area /\ given.wl = it.wl
  BY <1>2, <1>3 DEF Data, Reference
<1>5. CASE part.area = "TM"
  <2>1. \A w \in Mine(given) : w[1] = "TM"
    <3> HIDE DEF given
    <3>1. QED
      BY <1>4, <1>5 DEF Mine
  <2>2. QED
    BY <1>5, <2>1
<1>6. CASE part.area # "TM"
  <2>1. part.area # "CT"
    BY <1>4, S7ServerAssumption DEF Areas, SysAreas
  <2>2. it.wl = part.wl
    BY <1>1, <1>6, <2>1 DEF Adjusted, IsPart
  <2>3. part.wl \notin {"Timer", "Counter"}
    BY <1>4, <1>6, <2>1, <2>2 DEF Incoherent
  <2> DEFINE f == Place(it.wl, it.start) + 0
             bytes == DataSizeByte(it.wl) * it.amount
  <2>4. Mine(Data(it, jobs, 0, it.amount)) = Stretch(it.area, f, bytes)
    <3> HIDE DEF it, part, given
    <3>1. 0 \in Nat /\ it.amount \in Int /\ it.start \in Nat /\ it.wl \notin {"Timer", "Counter"}
      BY <1>2, <2>2, <2>3
    <3>2. QED
      BY <3>1, DataMarks
  <2>5. bytes = part.amount * DataSizeByte(part.wl)
    <3> DEFINE d == DataSizeByte(part.wl)
    <3>1. (d = 0 \/ d = 1 \/ d = 2 \/ d = 4) /\ bytes = d * part.amount
      BY <1>2, <2>2, ElementBytes
    <3> HIDE DEF d, bytes, it, part
    <3>2. d * part.amount = part.amount * d
      BY <1>2, <3>1
    <3>3. QED
      BY <3>1, <3>2 DEF d
  <2>6. f = Place(part.wl, part.start)
    <3>1. Place(part.wl, part.start) \in Int
      <4>1. part.start \div 8 \in Nat
        BY <1>2
      <4>2. QED
        BY <1>2, <4>1 DEF Place
    <3>2. QED
      BY <1>2, <2>2, <3>1
  <2>7. Mine(given) = Stretch(part.area, Place(part.wl, part.start), part.amount * DataSizeByte(part.wl))
    <3> HIDE DEF f, bytes
    <3>1. QED
      BY <1>2, <1>3, <2>4, <2>5, <2>6
  <2>8. \A g, m : \A w \in Stretch(part.area, g, m) : w[1] # "TM"
    BY <1>6 DEF Stretch
  <2>9. QED
    BY <1>6, <2>7, <2>8
<1>7. QED
  BY <1>5, <1>6

\* Several items are answered: those that are reported good were written.
LEMMA ItemsReported ==
  ASSUME BaseInv, StampInv, WriteExchange, [Next]_vars, UNCHANGED serverVars, MultiVarsDone, run = "writemulti"
  PROVE  WriteResult'
<1> DEFINE items == answer[Me].items
           G == [k \in DOMAIN job.items |-> WriteItem(job, jobs, k)]
<1>1. job' = job /\ jobs' = jobs /\ answer[Me] # Nothing
  BY DEF MultiVarsDone, Answered
<1>2. IsJob(job)
  BY DEF WriteExchange
<1>3. job.op = "writemulti" /\ Given = G /\ Len(Given) = Len(job.items) /\ DOMAIN G = DOMAIN job.items
      /\ DOMAIN job.items = 1..Len(job.items)
  BY <1>2, ItemsGiven, Parts
<1>4. AreaReport'
  BY <1>1, <1>3 DEF AreaReport
<1>5. CASE result' # "ok"
  BY <1>4, <1>5 DEF WriteResult, MultiReport
<1>6. CASE result' = "ok"
  <2>0. answer[Me].error = "ok" /\ Len(items) = Len(job.items)
    BY <1>6, OkIsOk DEF MultiVarsDone, Returns
  <2>1. Len(items) = Len(job.items) /\ out' = [k \in DOMAIN items |-> [result |-> CpuError(items[k]), data |-> <<>>]]
    BY <2>0 DEF MultiVarsDone
  <2>2. IsSeq(items) /\ Landed(Given, items)
    BY <1>1 DEF WriteExchange
  <2>3. DOMAIN items = DOMAIN job.items
    BY <1>3, <2>1, <2>2, SeqFacts
  <2>4. written' = written
    BY <1>1, WrittenStays, ClientStoresNot DEF serverVars, BaseInv, JobStep
  <2> DEFINE S == Stored(G, items)
             Part(k) == job.items[k]
             Whole(k) == Stretch(Part(k).area, Place(Part(k).wl, Part(k).start), Part(k).amount * DataSizeByte(Part(k).wl))
             found == {k \in DOMAIN out' : Placed(G, k)}
             Told == {k \in found : out'[k].result = "ok" /\ Part(k).area # "TM"}
  <2>5. written' = UNION {Mine(G[k]) : k \in S} /\ \A k \in S : ~Incoherent(G[k]) /\ G[k].area \in Areas
    <3>1. Counted /\ Before = {}
      BY <1>3 DEF Counted, Before
    <3> HIDE DEF G, items
    <3>2. QED
      BY <1>3, <2>2, <2>4, <3>1 DEF Landed, Lands
  <2>6. ASSUME NEW k \in S
        PROVE  /\ Part(k).area = "TM" => \A w \in Mine(G[k]) : w[1] = "TM"
               /\ Part(k).area # "TM" => Mine(G[k]) = Whole(k) /\ \A w \in Whole(k) : w[1] # "TM"
    <3>1. k \in DOMAIN job.items /\ G[k] = WriteItem(job, jobs, k)
      BY <2>3 DEF Stored
    <3>2. ~Incoherent(WriteItem(job, jobs, k)) /\ WriteItem(job, jobs, k).area \in Areas
      <4> HIDE DEF S, G
      <4>1. QED
        BY <2>5, <3>1
    <3> HIDE DEF G, S
    <3>3. QED
      BY <1>2, <1>3, <3>1, <3>2, ItemMarks
  <2>7. Told = {k \in S : Part(k).area # "TM"}
    <3>1. DOMAIN out' = DOMAIN items /\ \A k \in DOMAIN items : (out'[k].result = "ok" <=> items[k] = "ok")
      <4>1. DOMAIN out' = DOMAIN items /\ \A k \in DOMAIN items : out'[k].result = CpuError(items[k])
        BY <2>1
      <4>2. CpuError("ok") = "ok"
        BY DEF CpuError
      <4>3. QED
        BY <4>1, <4>2, OkIsOk
    <3> HIDE DEF G, items
    <3>2. S = {k \in DOMAIN items : items[k] = "ok" /\ Placed(G, k)}
      BY DEF Stored
    <3>3. QED
      BY <3>1, <3>2
  <2>8. {w \in written' : w[1] # "TM"} = UNION {Whole(k) : k \in Told}
    <3> HIDE DEF S, G, items, Whole, Told, Part
    <3>1. ASSUME NEW w, w \in written', w[1] # "TM" PROVE w \in UNION {Whole(k) : k \in Told}
      BY <2>5, <2>6, <2>7, <3>1
    <3>2. ASSUME NEW k \in Told, NEW w \in Whole(k) PROVE w \in written' /\ w[1] # "TM"
      BY <2>5, <2>6, <2>7, <3>2
    <3>3. QED
      BY <3>1, <3>2
  <2>9. MultiReport'
    <3>1. MultiReport' <=>
            (job'.op = "writemulti" /\ result' = "ok" => {w \in written' : w[1] # "TM"} = UNION {Whole(k) : k \in Told})
      BY <1>1 DEF MultiReport
    <3>2. QED
      BY <2>8, <3>1
  <2>10. QED
    BY <1>4, <2>9 DEF WriteResult
<1>7. QED
  BY <1>5, <1>6

\* A job that has ended reports what it has done, and a job that is lost as much as is known.
LEMMA WriteResultNext ==
  ASSUME BaseInv, BaseInv', StampInv, WriteExchange, WriteSoFar, WriteSoFar', LeftBehind, WriteResult, [Next]_vars
  PROVE  WriteResult'
<1>1. SUFFICES ASSUME run' \in NoJobRuns PROVE WriteResult'
  BY DEF WriteResult
<1>2. SessionInv /\ RunOfJob /\ PlaceInv
  BY DEF BaseInv
<1>3. ASSUME written' = written, job' = job, jobs' = jobs, out' = out, result' = result, run \in NoJobRuns
      PROVE  WriteResult'
  <2>1. AreaReport' <=> AreaReport
    <3>1. Bytes' = Bytes /\ (OneArea' <=> OneArea) /\ peer' = peer
      BY <1>3, PeerStays DEF Bytes, OneArea
    <3>2. QED
      BY <1>3, <3>1 DEF AreaReport
  <2>2. MultiReport' <=> MultiReport
    BY <1>3 DEF MultiReport
  <2>3. QED
    BY <1>3, <2>1, <2>2 DEF WriteResult
<1>4. ASSUME result' = "errIso" PROVE WriteResult'
  <2>1. MultiReport'
    BY <1>4 DEF MultiReport
  <2>2. OneArea' /\ job'.op \in {"write", "dbfill"} => Lost'
    BY <1>1, <1>4 DEF Lost
  <2>3. AreaReport'
    BY <1>4, <2>2 DEF AreaReport, WriteSoFar, Prefix
  <2>4. QED
    BY <2>1, <2>3 DEF WriteResult
<1>5. CASE ConnectionStep
  <2>1. run \in NoJobRuns /\ job' = job /\ jobs' = jobs /\ result' = result /\ out' = out
    BY <1>2, <1>5, ConnectionStays
  <2>2. written' = written
    BY <1>2, <1>5, <2>1, ConnectionMem, WrittenStays, ClientStoresNot
  <2>3. QED
    BY <1>3, <2>1, <2>2
<1>6. CASE ExchangeFails
  <2>1. UNCHANGED serverVars /\ job' = job /\ jobs' = jobs /\ out' = out
        /\ result' = IF result = "pending" THEN "errIso" ELSE result
    BY <1>6, ClientOrMem DEF ExchangeFails
  <2>2. written' = written
    BY <1>2, <1>6, <2>1, WrittenStays, ClientStoresNot DEF serverVars
  <2>3. CASE result = "pending"
    BY <1>4, <2>1, <2>3
  <2>4. CASE result # "pending"
    BY <1>2, <1>3, <2>1, <2>2, <2>4 DEF RunOfJob
  <2>5. QED
    BY <2>3, <2>4
<1>7. CASE UNCHANGED serverVars /\ JobStep
  <2>1. mem' = mem
    BY <1>7 DEF serverVars
  <2>2. CASE Submit
    <3>1. result' \in StartErrors /\ jobs' = jobs + 1 /\ jobs \in Nat
      BY <1>1, <1>2, <2>2, JobStarts, SessionConstants DEF SessionInv, ClientTypes
    <3>2. written' = {}
      BY <1>2, <3>1, JobsNext
    <3>3. QED
      BY <3>1, <3>2, NoWriteResult
  <2>3. CASE OtherClientStep
    <3>1. job' = job /\ run \in Waits \ (Claimed \cup NoJobRuns \cup {"blkinfo"})
      BY <2>3, OtherRunsStay
    <3>2. job.op \notin {"write", "dbfill", "writemulti"}
      BY <1>2, <3>1 DEF RunOfJob, RunsOf, Claimed, Reported
    <3>3. QED
      BY <3>1, <3>2, NoWriteResult
  <2>4. CASE ReadSliceDone \/ ListSliceDone \/ (MultiVarsDone /\ run # "writemulti")
    <3>1. job' = job /\ run \in {"read", "listbot", "readmulti"}
      BY <2>4 DEF ReadSliceDone, ListSliceDone, MultiVarsDone, Answered
    <3>2. job.op \notin {"write", "dbfill", "writemulti"}
      BY <1>2, <3>1 DEF RunOfJob, RunsOf, Reported, NoJobRuns
    <3>3. QED
      BY <3>1, <3>2, NoWriteResult
  <2>5. CASE AgBlockInfoDone
    <3>1. job' = job /\ run = "blkinfo"
      BY <2>5 DEF AgBlockInfoDone, Answered
    <3>2. job.op \notin {"write", "writemulti"} /\ (job.op = "dbfill" => ~OneArea)
      BY <1>2, <3>1 DEF RunOfJob, RunsOf, Reported, NoJobRuns
    <3>3. OneArea' <=> OneArea
      BY <3>1 DEF OneArea
    <3>4. QED
      BY <3>1, <3>2, <3>3, NoWriteResult
  <2>6. CASE opDBGet
    <3>1. job'.op = "dbget"
      BY <2>6 DEF opDBGet
    <3>2. QED
      BY <3>1, NoWriteResult
  <2>7. CASE opDBFill
    <3>1. run = "blkinfo" /\ jobs' = jobs /\ BadParams(job') # "ok" /\ result' = BadParams(job')
      BY <1>1, <2>7 DEF opDBFill, Answered, WriteSlice, Ask, Returns, NoJobRuns
    <3>2. written' = {}
      BY <1>2, <1>7, <2>1, <3>1, WrittenStays, ClientStoresNot DEF WriteSoFar
    <3>3. result' \in StartErrors
      BY <3>1, BadParamsCodes
    <3>4. QED
      BY <3>2, <3>3, NoWriteResult
  <2>8. CASE WriteSliceDone
    BY <1>1, <1>7, <2>8, AreaReported
  <2>9. CASE MultiVarsDone /\ run = "writemulti"
    BY <1>7, <2>9, ItemsReported
  <2>10. QED
    BY <1>7, <2>2, <2>3, <2>4, <2>5, <2>6, <2>7, <2>8, <2>9 DEF JobStep
<1>8. CASE UNCHANGED clientVars
  <2>1. run' = run /\ job' = job /\ jobs' = jobs /\ out' = out /\ result' = result
    BY <1>8, ClientStays
  <2>5. CASE PlcWrote
    <3>1. result = "errIso"
      BY <1>1, <2>1, <2>5 DEF LeftBehind, PlcWrote
    <3>2. QED
      BY <1>4, <2>1, <3>1
  <2>2. CASE (mem' = mem \/ ~WorkerStep(Me)) /\ ~PlcWrote
    <3>1. written' = written
      BY <1>2, <2>1, <2>2, WrittenStays
    <3>2. QED
      BY <1>1, <1>3, <2>1, <3>1
  <2>3. CASE mem' # mem /\ WorkerStep(Me)
    <3>1. PICK r : Replies(Me, r)
      BY <1>2, <2>3, WorkerKinds, MicroClientAssumption DEF Elsewhere, TakesUp, GoesOn
    <3>2. InRequest(Me) /\ worker[Me].fun = "write"
      BY <2>3, <3>1 DEF Replies
    <3>3. result = "errIso"
      BY <1>1, <2>1, <3>2 DEF LeftBehind
    <3>4. QED
      BY <1>4, <2>1, <3>3
  <2>4. QED
    BY <2>2, <2>3, <2>5
<1>9. QED
  BY <1>2, <1>5, <1>6, <1>7, <1>8, NextForMe

\* WriteReported rests on the marks of the bytes, on what is on its way to the server
\* and on what is written so far.
WriteInv == BaseInv /\ StampInv /\ WriteExchange /\ WriteSoFar /\ LeftBehind /\ WriteResult

\* Initially nothing is written.
LEMMA InitWrite == Init => WriteInv
<1> SUFFICES ASSUME Init PROVE WriteExchange /\ WriteSoFar /\ LeftBehind /\ WriteResult
  BY InitBase, InitStamp DEF WriteInv
<1>1. /\ run = "off" /\ result = "none" /\ job = [op |-> "none"] /\ request[Me] = Nothing /\ ~InRequest(Me)
  BY MicroClientAssumption DEF Init, InitClient, InitServer, InRequest, Idle
<1>2. Nothing.fun = "none" /\ ~Lost
  BY <1>1 DEF Nothing, Lost
<1>3. WriteExchange /\ WriteSoFar /\ LeftBehind
  BY <1>1, <1>2 DEF WriteExchange, WriteSoFar, LeftBehind
<1>4. WriteResult
  BY <1>1 DEF WriteResult, AreaReport, MultiReport
<1>5. QED
  BY <1>3, <1>4

\* Every step keeps it.
LEMMA NextWrite == WriteInv /\ [Next]_vars => WriteInv'
<1> SUFFICES ASSUME WriteInv, [Next]_vars PROVE WriteInv'
  OBVIOUS
<1>1. BaseInv /\ StampInv /\ WriteExchange /\ WriteSoFar /\ LeftBehind /\ WriteResult
  BY DEF WriteInv
<1>2. BaseInv'
  BY <1>1, NextBase
<1>3. StampInv'
  BY <1>1, <1>2, StampInvNext DEF BaseInv
<1>4. WriteExchange'
  BY <1>1, <1>2, WriteExchangeNext
<1>5. WriteSoFar'
  BY <1>1, <1>2, WriteSoFarNext
<1>6. LeftBehind'
  BY <1>1, <1>2, LeftBehindNext
<1>7. WriteResult'
  BY <1>1, <1>2, <1>5, WriteResultNext
<1>8. QED
  BY <1>2, <1>3, <1>4, <1>5, <1>6, <1>7 DEF WriteInv

\* For any jobs, any PDU length and whatever the other station and the application
\* do meanwhile: what a write reports to its caller is what it has done in the areas.
THEOREM WriteReportedHolds == Spec => []WriteReported
<1>1. WriteInv => WriteReported
  <2>1. Ended => run \in NoJobRuns
    BY DEF Ended, NoJobRuns
  <2>2. QED
    BY <2>1 DEF WriteInv, WriteResult, AreaReport, MultiReport, WriteReported
<1>2. QED
  BY <1>1, InitWrite, NextWrite, PTL DEF Spec
=============================================================================
