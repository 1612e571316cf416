SPECIFICATION Spec
CONSTANTS
  Conns = {c1, c2}
  Me = c1
  Station = c2
  ReqHead = 1
  ItemHead = 1
  ResHead = 1
  DataHead = 1
  ListHead = 2
  ListEntry = 2
  MaxVars = 5
  PDURequest = 6
  BlockHead = 2
  FullMin = 3
  SliceHead = 2
  WordMod = 16
  Jobs <- MCJobs
  MaxJobs = 1
  DBNumbers = {"DB1", "DB2", "DB3", "DB4"}
  MaxDB = 4
  AreaSize <- MCAreaSize
  MinPduSize = 5
  IsoPayload_Size = 8
  DefaultPdu = 7
  SZLSize <- MCSZLSize
  SZLHead = 2
  ForcePDUs = {0, 5}
  InitialDBs <- MCInitialDBs
  Shared = {0, 1}
  AppOps <- MCAppOps
  MaxAppOps = 1
  Peers = {"server", "plc"}
  StationRequests <- MCStationRequests
  ServerJobs <- MCServerJobs
  PlcJobs <- MCPlcJobs
  LoadSize = 6
  MC7 = 3
  PlcSZL = 4
  BitAreas = {"MK"}
INVARIANT TypeOK
INVARIANT TableInv
INVARIANT PduFits
INVARIANT NoTornItem
INVARIANT ReadExact
INVARIANT WriteReported
INVARIANT ListComplete
INVARIANT BlockWhole
PROPERTY MemorySpec
PROPERTY JobEnds
CHECK_DEADLOCK FALSE
