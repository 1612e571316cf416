------------------------------ MODULE MCSession ------------------------------
(***************************************************************************)
(* Constants for checking S7Session: PDUs of 5 to 8 bytes with headers of  *)
(* 1 byte, so that a request of six bytes takes two or three slices.       *)
(***************************************************************************)
EXTENDS S7Session, TLC

MCAreaSize == "DB1" :> 6 @@ "DB2" :> 2 @@ "DB3" :> 2 @@ "DB4" :> 0 @@ "PE" :> 0 @@ "MK" :> 2 @@ "TM" :> 4
MCSZLSize == "cpuinfo" :> 2 @@ "long" :> 7

Read(area, wl, start0, amount) == [op |-> "read", area |-> area, wl |-> wl, start |-> start0, amount |-> amount]
Write(area, wl, start0, amount) == [op |-> "write", area |-> area, wl |-> wl, start |-> start0, amount |-> amount]
Part(area, wl, start0, amount) == [area |-> area, wl |-> wl, start |-> start0, amount |-> amount]
Multi(op, items) == [op |-> op, items |-> items]
Plain(op) == [op |-> op]

ReadJobs == {
  Read("DB1", "Byte", 0, 6), Read("DB1", "Word", 0, 3), Read("DB1", "Byte", 1, 6), Read("DB1", "Bit", 9, 1),
  Read("DB1", "Byte", 0, 0), Read("DB1", "Bit", 0, 2), Read("DB1", "none", 0, 1), Read("TM", "Timer", 0, 1),
  Read("DB4", "Byte", 0, 1), Read("DB2", "Int", 0, 1), Read("TM", "Byte", 0, 1),
  Multi("readmulti", <<Part("DB1", "Byte", 0, 2), Part("DB1", "Byte", 3, 3)>>),
  Multi("readmulti", [k \in 1..5 |-> Part("DB1", "Byte", k, 1)]), Multi("readmulti", [k \in 1..6 |-> Part("DB1", "Byte", k, 1)]),
  Multi("readmulti", <<Part("DB1", "Byte", 0, 5), Part("TM", "Byte", 0, 1)>>),
  Multi("readmulti", <<Part("DB3", "Byte", 0, 1), Part("DB1", "Int", 0, 1), Part("DB1", "Bit", 3, 1)>>),
  [op |-> "dbget", type |-> "DB", area |-> "DB1", amount |-> 6], [op |-> "dbget", type |-> "DB", area |-> "DB1", amount |-> 5],
  [op |-> "dbget", type |-> "DB", area |-> "DB2", amount |-> 0],
  [op |-> "dbget", type |-> "DB", area |-> "DB4", amount |-> 5]}

WriteJobs == {
  Write("DB1", "Byte", 0, 6), Write("DB1", "Word", 2, 2), Write("DB1", "Byte", 2, 6), Write("MK", "Bit", 0, 1),
  Write("MK", "Byte", 0, 2), Write("DB1", "none", 0, 1), Write("TM", "Timer", 0, 1), Write("DB1", "Char", 0, 4),
  Multi("writemulti", <<Part("DB1", "Byte", 0, 1), Part("DB1", "Byte", 4, 1)>>),
  Multi("writemulti", <<Part("DB1", "Char", 0, 1), Part("DB1", "Byte", 4, 1)>>),
  Multi("writemulti", <<Part("DB1", "Byte", 0, 3), Part("DB1", "Byte", 4, 2)>>),
  Multi("writemulti", <<Part("DB1", "Byte", 5, 2)>>), Multi("writemulti", <<Part("MK", "Bit", 3, 1), Part("DB1", "Byte", 4, 1)>>),
  Multi("writemulti", [k \in 1..6 |-> Part("DB1", "Byte", 1, 1)]),
  [op |-> "dbfill", type |-> "DB", area |-> "DB1"], [op |-> "dbfill", type |-> "DB", area |-> "DB3"],
  [op |-> "dbfill", type |-> "DB", area |-> "DB4"]}

Upload(full, amount) == [op |-> "upload", full |-> full, amount |-> amount]
Download(amount, load, mc7) == [op |-> "download", amount |-> amount, load |-> load, mc7 |-> mc7]
List(type, amount) == [op |-> "listbot", type |-> type, amount |-> amount]
SZL(op, id) == [op |-> op, id |-> id]

MCServerJobs == ReadJobs \cup WriteJobs \cup {
  Plain("listall"), List("DB", 4), List("DB", 1), List("OB", 4), List("DB", 0),
  [op |-> "blkinfo", type |-> "DB", area |-> "DB2"],
  SZL("status", "status"), SZL("cpuinfo", "cpuinfo"), SZL("cpinfo", "none"), SZL("ordercode", "cpuinfo"), [op |-> "szllist", id |-> "long", amount |-> 4], SZL("protection", "none"),
  Plain("stop"), Plain("hotstart"), Plain("coldstart"), Plain("delete"),
  [op |-> "copyram", timeout |-> 0], [op |-> "compress", timeout |-> 1],
  Plain("getclock"), Plain("setclock"), [op |-> "setpassword", length |-> 3],
  Upload(TRUE, 6), Download(6, 6, 3)}

\* What a server always refuses or answers in one way.
MCPlcJobs == {
  Upload(TRUE, 6), Upload(FALSE, 6), Upload(FALSE, 2), Upload(TRUE, 0), Download(6, 6, 3), Download(6, 6, 4),
  [op |-> "szl", id |-> "any", amount |-> 4], [op |-> "szl", id |-> "any", amount |-> 2],
  Plain("stop"), Plain("hotstart"), [op |-> "copyram", timeout |-> 1], [op |-> "compress", timeout |-> 1], Plain("delete"),
  Plain("getclock"), Plain("setclock"), Plain("clearpassword"), [op |-> "setpassword", length |-> 0],
  Plain("listall"), [op |-> "blkinfo", type |-> "DB", area |-> "DB2"],
  Read("DB1", "Byte", 0, 6), Write("DB1", "Byte", 0, 6),
  Multi("readmulti", <<Part("DB1", "Byte", 0, 2), Part("DB1", "Byte", 3, 1)>>),
  Multi("writemulti", <<Part("DB1", "Byte", 0, 1), Part("DB1", "Byte", 3, 1)>>)}

MCJobs == MCServerJobs \cup MCPlcJobs

MCAppOps == {
  [op |-> "register", area |-> "DB3", size |-> 2], [op |-> "register", area |-> "DB1", size |-> 6],
  [op |-> "register", area |-> "MK", size |-> 2], [op |-> "register", area |-> "PE", size |-> 0], [op |-> "unregister", area |-> "DB1"], [op |-> "unregister", area |-> "TM"],
  [op |-> "update", area |-> "DB1"], [op |-> "update", area |-> "MK"]}

Byte(n, at) == [by |-> "station", n |-> 0, at |-> at, bit |-> NoBit]
MCStationRequests == {
  [fun |-> "negotiate", length |-> 3], [fun |-> "malformed"], [fun |-> "programmer"], [fun |-> "upload"], [fun |-> "endupload"],
  [fun |-> "listbot", first |-> FALSE],
  [fun |-> "read", items |-> <<[area |-> "DB1", wl |-> "Byte", address |-> 0, length |-> 2, ts |-> "none", dlen |-> 0, data |-> <<>>]>>],
  [fun |-> "write", items |-> <<[area |-> "MK", wl |-> "Bit", address |-> 0, length |-> 1, ts |-> "Bit", dlen |-> 1,
                                 data |-> <<Byte(0, 0)>>]>>]}

MCInitialDBs == {<<"DB1">>, <<"DB2", "none", "DB4", "DB1">>}
=============================================================================
