----------------------------- MODULE SnapshotScan -----------------------------
(***************************************************************************)
(* TableClient.SnapshotScanRows (client/row.go, internal/snapshot): the    *)
(* table's info is looked at twice, the latest snapshot of a bucket and    *)
(* its files are asked for, the files are downloaded into a directory, and *)
(* each row is decoded as of the schema whose ID it carries and projected  *)
(* by name onto the columns asked for.  Schemas are asked for by the       *)
(* table's path, one by one, while the rows are read.  Files come from the *)
(* local disk or, if it is configured, from an S3 store.                   *)
(*                                                                         *)
(* Other goroutines of the client call the coordinator and fill the cache, *)
(* as in TableCalls.  A row stands for the names of its columns.  Removing *)
(* a directory and closing the local database are taken to succeed.  A     *)
(* fetcher of the caller's own (ClientConfig.SnapshotFetcher) is left out. *)
(***************************************************************************)
EXTENDS TableCalls

CONSTANTS
  Storages,         \* configurations of the S3 store: the fields that are not empty
  RemotePaths,      \* URLs of files: their scheme, and whether they have a host
                    \* and a path below the root
  FileBound         \* the files of a snapshot, at most

VARIABLE scan       \* each caller's scan

scanVars == <<vars, scan>>

Garbage == "garbage"
Nil == "nil"

NoPlans == [s \in {} |-> <<>>]

StorageConfig == [endpoint : BOOLEAN, accessKey : BOOLEAN, secretKey : BOOLEAN,
                  bucketOverride : BOOLEAN]
NoStorage == [endpoint |-> FALSE, accessKey |-> FALSE, secretKey |-> FALSE,
              bucketOverride |-> FALSE]

RemotePath == [scheme : {"", "file", "s3", "hdfs"}, host : BOOLEAN, path : BOOLEAN]

ASSUME SnapshotScanAssumption ==
  /\ Storages \subseteq StorageConfig /\ RemotePaths \subseteq RemotePath
  /\ FileBound \in Nat
  /\ \A i \in DOMAIN Schemas : Schemas[i] \in Seq({Schemas[i][j] : j \in DOMAIN Schemas[i]})

(* at: where the scan is; info: the first look at the table's info;        *)
(* layout, table: the tables that the second look and the snapshot are of; *)
(* storage: the S3 store it was configured with; files: the remote paths   *)
(* of the snapshot's files; fetched: how many are in the directory;        *)
(* target: the caller's schema; names: the columns asked for; rows: the    *)
(* schema IDs of the snapshot's rows, left: those not read yet; read: the  *)
(* rows that were; deferred: the calls that are deferred.                  *)
NoScan == [at |-> "none", info |-> NoInfo, layout |-> 0, table |-> 0, target |-> <<>>,
           storage |-> NoStorage, files |-> <<>>, fetched |-> 0,
           names |-> <<>>, rows |-> {}, left |-> {}, plans |-> NoPlans, read |-> {},
           directory |-> FALSE, open |-> FALSE, deferred |-> <<>>, failed |-> FALSE]

ScanInit == Init /\ scan = [t \in Callers |-> NoScan]

ScanAt(t, step) == scan[t].at = step
ScanMove(t, c) == scan' = [scan EXCEPT ![t] = c]

StartScan(t) ==
  /\ Begin(t, "snapshot", {}, "scan")
  /\ scan' = [scan EXCEPT ![t] = [NoScan EXCEPT !.at = "fetcher"]]

(* An error at any step, and the end: the deferred calls are next. *)
Return(t, failed, c) ==
  ScanMove(t, [c EXCEPT !.at = "return", !.failed = failed, !.left = {}])

(* A step of the scan, with the answer to the request it waited for, if    *)
(* there was one.                                                          *)
ScanProceeds(t) == UNCHANGED call /\ Proceed(t)

NewS3FetcherFails(storage) == ~storage.endpoint \/ ~storage.accessKey \/ ~storage.secretKey

(* The configuration is the client's; nothing relates two scans of one.    *)
NewDefaultFetcher(t) ==
  /\ ScanAt(t, "fetcher")
  /\ \E storage \in Storages :
       IF storage # NoStorage /\ NewS3FetcherFails(storage) THEN Return(t, TRUE, scan[t])
       ELSE ScanMove(t, [scan[t] EXCEPT !.at = "info", !.storage = storage])
  /\ ScanProceeds(t)

(* The call to ensureTableInfo, and kvEncoding's. *)
AsksInfo(t) == ScanAt(t, "info") \/ ScanAt(t, "layout")

AskScanInfo(t) == AsksInfo(t) /\ info = NoInfo /\ Ask(t, None) /\ UNCHANGED scan
StoreScanInfo(t) == AsksInfo(t) /\ GetTableInfo(t) /\ UNCHANGED scan

ScanInfo(t) ==
  /\ ScanAt(t, "info") /\ InfoThere(t)
  /\ ScanMove(t, [scan[t] EXCEPT !.at = "layout", !.info = TableInfo(t)])
  /\ ScanProceeds(t)

ScanLayout(t) ==
  /\ ScanAt(t, "layout") /\ InfoThere(t)
  /\ ScanMove(t, [scan[t] EXCEPT !.at = "snapshots", !.layout = TableInfo(t).id])
  /\ ScanProceeds(t)

(* GetLatestKvSnapshots answers for the table that has the path. *)
LatestSnapshot(t) ==
  /\ ScanAt(t, "snapshots") /\ Answers(Address) /\ exists
  /\ \E rows \in SUBSET (1 .. Len(tables[Current])) :
       ScanMove(t, [scan[t] EXCEPT !.at = "metadata", !.table = Current,
                                   !.rows = rows, !.left = rows])
  /\ ScanProceeds(t)

(* GetKvSnapshotMetadata answers for the table's ID. *)
SnapshotMetadata(t) ==
  /\ ScanAt(t, "metadata") /\ Answers(Address) /\ exists /\ scan[t].table = Current
  /\ \E n \in 0 .. FileBound : \E files \in [1 .. n -> RemotePaths] :
       ScanMove(t, [scan[t] EXCEPT !.at = "fetch", !.files = files])
  /\ ScanProceeds(t)

-------------------------------------------------------------------------------
(* MultiFetcher.FetchAll *)

MakeDirectory(t) ==
  /\ ScanAt(t, "fetch") /\ scan[t].files # <<>>
  /\ ScanMove(t, [scan[t] EXCEPT !.at = "files", !.directory = TRUE])
  /\ ScanProceeds(t)

(* Without a scheme the whole path is the name of the local file. *)
CopiedFile(remote) == remote.path \/ (remote.scheme = "" /\ remote.host)

RemoteObject(storage, remote) == (remote.host \/ storage.bucketOverride) /\ remote.path

(* What can be fetched from where the scheme says. *)
Fetchable(storage, remote) ==
  \/ remote.scheme \in {"", "file"} /\ CopiedFile(remote)
  \/ remote.scheme = "s3" /\ storage # NoStorage /\ RemoteObject(storage, remote)

FetchFile(t) ==
  /\ ScanAt(t, "files") /\ scan[t].fetched < Len(scan[t].files)
  /\ Fetchable(scan[t].storage, scan[t].files[scan[t].fetched + 1])
  /\ ScanMove(t, [scan[t] EXCEPT !.fetched = @ + 1])
  /\ ScanProceeds(t)

(* Faulty variant: what was downloaded stays. *)
FetchFailsLeaving(t) ==
  /\ ScanAt(t, "files") /\ scan[t].fetched < Len(scan[t].files)
  /\ Return(t, TRUE, scan[t])
  /\ ScanProceeds(t)

(* A path that names nothing, a scheme without a fetcher, an object that   *)
(* is not there, a connection that breaks: the files before it go too.     *)
FetchFails(t) ==
  /\ ScanAt(t, "files") /\ scan[t].fetched < Len(scan[t].files)
  /\ Return(t, TRUE, [scan[t] EXCEPT !.directory = FALSE, !.fetched = 0])
  /\ ScanProceeds(t)

(* After the last of the files the caller takes over the directory. *)
FetchedAll(t) ==
  /\ ScanAt(t, "files") /\ scan[t].fetched = Len(scan[t].files)
  /\ ScanMove(t, [scan[t] EXCEPT !.at = "plans", !.deferred = <<"remove">>])
  /\ ScanProceeds(t)

-------------------------------------------------------------------------------
(* snapshotDecodePlans *)

Plan(table, decode, source) == [table |-> table, decode |-> decode, source |-> source]

(* GetTableSchema for the path and a schema ID *)
SchemaAnswered(id) == Answers(Address) /\ exists /\ id \in DOMAIN tables[Current]

(* Rows of the schema that is cached are decoded as of the caller's, which *)
(* must have as many columns as are asked for: the caller's, or those of   *)
(* the schema that is cached.                                              *)
DecodePlans(t) ==
  /\ ScanAt(t, "plans")
  /\ \E i \in DOMAIN Schemas :
       LET c == scan[t]
           target == Schemas[i]
           first(table, names) ==
             [c EXCEPT !.at = "open", !.target = target, !.names = names,
                       !.plans = [s \in {c.info.schema} |-> Plan(table, target, names)]] IN
       \/ ScanMove(t, first(c.info.id, target))
       \/ /\ SchemaAnswered(c.info.schema)
          /\ LET names == tables[Current][c.info.schema] IN
             IF Len(names) = Len(target) THEN ScanMove(t, first(Current, names))
             ELSE Return(t, TRUE, scan[t])
  /\ ScanProceeds(t)

OpenSnapshot(t) ==
  /\ ScanAt(t, "open")
  /\ ScanMove(t, [scan[t] EXCEPT !.at = "read", !.open = TRUE,
                                 !.deferred = <<"remove", "close">>])
  /\ ScanProceeds(t)

(* lookupPlan for a schema ID that has none yet.  Faulty variant: decoded  *)
(* as of the caller's schema.                                              *)
LoadedPlanTarget(c, s) == Plan(Current, c.target, tables[Current][s])
LoadedPlan(c, s) == Plan(Current, tables[Current][s], tables[Current][s])

LookupPlan(t, s) ==
  /\ ScanAt(t, "read") /\ s \in scan[t].left \ DOMAIN scan[t].plans
  /\ SchemaAnswered(s)
  /\ LET c == scan[t] IN
     ScanMove(t, [c EXCEPT !.plans = [r \in DOMAIN c.plans \cup {s} |->
                                        IF r = s THEN LoadedPlan(c, s) ELSE c.plans[r]]])
  /\ ScanProceeds(t)

-------------------------------------------------------------------------------
(* Reader.ReadAll *)

(* What a row of some columns is decoded to as of others, or in the layout *)
(* of another table, if that gives no error.                               *)
Decoded(columns, decode, sameTable) ==
  IF columns = decode /\ sameTable THEN {columns}
  ELSE {[i \in DOMAIN decode |-> Garbage]}
       \cup (IF Len(columns) = Len(decode) THEN {columns} ELSE {})

ValueOf(row, source, name) ==
  IF \E j \in DOMAIN source : source[j] = name /\ j <= Len(row)
  THEN row[CHOOSE j \in DOMAIN source : source[j] = name /\ j <= Len(row)] ELSE Nil

ProjectRow(row, source, names) == [i \in DOMAIN names |-> ValueOf(row, source, names[i])]

(* decodeValue *)
Projected(row, source, names) ==
  IF source = names THEN row ELSE ProjectRow(row, source, names)

ReadRow(t) ==
  /\ ScanAt(t, "read")
  /\ LET c == scan[t] IN
     \E s \in c.left \cap DOMAIN c.plans :
       LET plan == c.plans[s]
           columns == tables[c.table][s] IN
       \/ \E row \in Decoded(columns, plan.decode, c.layout = c.table) :
            ScanMove(t, [c EXCEPT !.left = @ \ {s},
                           !.read = @ \cup {<<s, Projected(row, plan.source, c.names)>>}])
       \/ /\ columns # plan.decode \/ c.layout # c.table
          /\ Return(t, TRUE, [scan[t] EXCEPT !.read = {}])
  /\ ScanProceeds(t)

ReadAll(t) ==
  /\ ScanAt(t, "read") /\ scan[t].left = {}
  /\ Return(t, FALSE, scan[t])
  /\ ScanProceeds(t)

(* An answer that is lost or refused, no snapshot or no files, a disk that *)
(* is full.                                                                *)
ScanFails(t) ==
  /\ scan[t].at \in {"info", "layout", "snapshots", "metadata", "fetch", "plans", "open",
                     "read"}
  /\ AsksInfo(t) => \/ Requested(t, "sent")
                    \/ Requested(t, "over") /\ request[t].answer.info = NoInfo
  /\ Return(t, TRUE, [scan[t] EXCEPT !.read = {}])
  /\ ScanProceeds(t)

(* Deferred calls run last in, first out. *)
Deferred(t) ==
  /\ ScanAt(t, "return") /\ scan[t].deferred # <<>>
  /\ LET deferred == scan[t].deferred
         rest == [scan[t] EXCEPT !.deferred = SubSeq(deferred, 1, Len(deferred) - 1)] IN
     IF deferred[Len(deferred)] = "remove"
     THEN ScanMove(t, [rest EXCEPT !.directory = FALSE, !.fetched = 0])
     ELSE ScanMove(t, [rest EXCEPT !.open = FALSE])
  /\ ScanProceeds(t)

ScanReturns(t) ==
  /\ ScanAt(t, "return") /\ scan[t].deferred = <<>>
  /\ ScanMove(t, [scan[t] EXCEPT !.at = "done", !.storage = NoStorage, !.files = <<>>])
  /\ call' = [call EXCEPT ![t] = Idle]
  /\ Proceed(t)

-------------------------------------------------------------------------------
ScanStep(t) ==
  \/ StartScan(t) \/ NewDefaultFetcher(t) \/ AskScanInfo(t) \/ StoreScanInfo(t)
  \/ ScanInfo(t) \/ ScanLayout(t) \/ LatestSnapshot(t)
  \/ SnapshotMetadata(t) \/ MakeDirectory(t) \/ FetchFile(t) \/ FetchFails(t) \/ FetchedAll(t)
  \/ DecodePlans(t) \/ OpenSnapshot(t) \/ (\E s \in scan[t].left : LookupPlan(t, s))
  \/ ReadRow(t) \/ ReadAll(t) \/ ScanFails(t) \/ Deferred(t) \/ ScanReturns(t)

ScanNext ==
  \/ \E t \in Callers : ScanStep(t)
  \/ ClusterStep /\ UNCHANGED scan
  \/ \E t \in Admins : AdminStep(t) /\ UNCHANGED scan

ScanSpec == ScanInit /\ [][ScanNext]_scanVars

-------------------------------------------------------------------------------
(* Safety *)

(* What the caller is promised of a row of schema s. *)
RowAsWritten(c, s) ==
  LET columns == tables[c.table][s] IN
  [i \in DOMAIN c.names |->
     IF \E j \in DOMAIN columns : columns[j] = c.names[i] THEN c.names[i] ELSE Nil]

(* The info, the layout, the snapshot and the row's schema were asked for  *)
(* one by one: they are of one table, unless it was replaced meanwhile or  *)
(* is not the one that is cached.  Rows of the schema that is cached are   *)
(* read as the caller's, whose columns must be these.                      *)
Consistent(c, s) ==
  /\ c.info.id = c.table /\ c.layout = c.table /\ c.plans[s].table = c.table
  /\ s = c.info.schema => c.target = tables[c.table][s]

(* A scan that succeeds has every row of the snapshot once, each with its  *)
(* values under the names asked for and nothing under names that its       *)
(* schema did not have yet or no longer has, although schemas came and     *)
(* went; one that fails has none.                                          *)
ScanAsWritten ==
  \A t \in Callers : ScanAt(t, "done") =>
    LET c == scan[t] IN
    /\ {r[1] : r \in c.read} = IF c.failed THEN {} ELSE c.rows
    /\ \A r \in c.read : Consistent(c, r[1]) => r[2] = RowAsWritten(c, r[1])

(* Whatever step fails, a scan that returned has left no directory and no  *)
(* database open; a database is open only in a directory that has all of   *)
(* the snapshot's files, and never outlives it.                            *)
NoDirectoryLeft ==
  \A t \in Callers :
    /\ scan[t].open => scan[t].directory /\ scan[t].fetched = Len(scan[t].files)
    /\ ScanAt(t, "done") => ~scan[t].directory /\ ~scan[t].open
===============================================================================
