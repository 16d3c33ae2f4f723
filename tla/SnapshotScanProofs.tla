-------------------------- MODULE SnapshotScanProofs --------------------------
(***************************************************************************)
(* Proofs about SnapshotScan, for any callers, configurations of the       *)
(* store, files and schemas: a scan leaves no directory and no database    *)
(* open whatever step fails (client/row.go, internal/snapshot), and one    *)
(* that succeeds has every row of the snapshot with its values under the   *)
(* names asked for, although schemas came and went.                        *)
(*                                                                         *)
(* To the cache and the cluster a scan's step is one of those that         *)
(* TableCallsProofs names (EnvStep): tables keep their types and no schema *)
(* is taken back, so what was right of a row stays right.  For the scan    *)
(* itself, DirectoryInv says what is deferred at each step, and ReadInv    *)
(* what has been read, of which schema each plan decodes, and what the     *)
(* rows that were read are worth.                                          *)
(***************************************************************************)
EXTENDS SnapshotScan, TableCallsProofs

-------------------------------------------------------------------------------
(* Scans *)

(* The fields that a scan's record has. *)
IsScan(c) ==
  c \in [at : {c.at}, info : {c.info}, layout : {c.layout}, table : {c.table},
         target : {c.target}, storage : {c.storage}, files : {c.files},
         fetched : {c.fetched}, names : {c.names}, rows : {c.rows}, left : {c.left},
         plans : {c.plans}, read : {c.read}, directory : {c.directory}, open : {c.open},
         deferred : {c.deferred}, failed : {c.failed}]

(* A scan that has not begun has the fields of one. *)
LEMMA NoScanIs == IsScan(NoScan)
BY DEF IsScan, NoScan

(* The tasks' steps besides the callers' scans are those of TableCalls. *)
LEMMA ScanEnvSteps == [ScanNext]_scanVars => EnvStep
<1> SUFFICES ASSUME [ScanNext]_scanVars PROVE EnvStep
  OBVIOUS
<1>1. [Next]_vars => EnvStep
  BY EnvSteps
<1>2. CASE ClusterStep \/ \E t \in Admins : AdminStep(t)
  BY <1>1, <1>2 DEF Next
<1>3. CASE UNCHANGED scanVars
  BY <1>1, <1>3 DEF scanVars
<1>4. ASSUME NEW t \in Callers, ScanStep(t) PROVE EnvStep
  <2>1. t \in Goroutines
    BY DEF Goroutines, Tasks
  <2>2. CASE StoreScanInfo(t)
    BY <2>1, <2>2 DEF StoreScanInfo, GetTableInfo, StoreStep, EnvStep
  <2>3. CASE ~StoreScanInfo(t)
    <3>1. UNCHANGED <<clusterVars, cacheVars>>
      BY <1>4, <2>3
         DEF ScanStep, StartScan, Begin, AskScanInfo, Ask, NewDefaultFetcher, ScanInfo,
             ScanLayout, LatestSnapshot, SnapshotMetadata, MakeDirectory, FetchFile, FetchFails,
             FetchedAll, DecodePlans, OpenSnapshot, LookupPlan, ReadRow, ReadAll,
             ScanFails, Deferred, ScanReturns, ScanProceeds, Proceed
    <3>2. QED
      BY <3>1 DEF EnvStep
  <2>4. QED
    BY <2>2, <2>3
<1>5. QED
  BY <1>2, <1>3, <1>4 DEF ScanNext

-------------------------------------------------------------------------------
(* The directory and the database *)

Clean(c) == c.directory = FALSE /\ c.open = FALSE /\ c.deferred = <<>>

(* The local database is open, in the directory with all files, and both   *)
(* calls are deferred.                                                     *)
Reading(c) ==
  /\ c.directory = TRUE /\ c.open = TRUE /\ c.deferred = <<"remove", "close">>
  /\ c.fetched = Len(c.files)

(* What is deferred names what is left to clear at every step. *)
DirectoryOK(c) ==
  /\ c.at \in {"none", "fetcher", "info", "layout", "snapshots", "metadata", "fetch"} =>
       Clean(c)
  /\ c.at = "files" => c.directory = TRUE /\ c.open = FALSE /\ c.deferred = <<>>
  /\ c.at \in {"plans", "open"} =>
       /\ c.directory = TRUE /\ c.open = FALSE /\ c.deferred = <<"remove">>
       /\ c.fetched = Len(c.files)
  /\ c.at = "read" => Reading(c)
  /\ c.at = "return" => Clean(c) \/ (c.open = FALSE /\ c.deferred = <<"remove">>) \/ Reading(c)
  /\ c.at = "done" => Clean(c)
  /\ c.at \in {"none", "fetcher", "info", "layout", "snapshots", "metadata", "fetch", "files",
               "plans", "open", "read", "return", "done"}

DirectoryInv ==
  /\ DOMAIN scan = Callers
  /\ \A t \in Callers : IsScan(scan[t]) /\ DirectoryOK(scan[t])

(* The scan's next record. *)
ScansTo(t) == \E d : ScanMove(t, d) /\ IsScan(d) /\ DirectoryOK(d)

(* A step that moves one caller's scan to a record in order keeps all in   *)
(* order.                                                                  *)
LEMMA ScansToKept ==
  ASSUME DirectoryInv, NEW t \in Callers, ScansTo(t)
  PROVE  DirectoryInv'
BY DEF DirectoryInv, ScansTo, ScanMove

(* Return keeps what is deferred. *)
LEMMA ReturnDirectory ==
  ASSUME DirectoryInv, NEW t \in Callers, NEW failed, NEW c, Return(t, failed, c), IsScan(c),
         Clean(c) \/ (c.open = FALSE /\ c.deferred = <<"remove">>) \/ Reading(c)
  PROVE  ScansTo(t)
<1> DEFINE d == [c EXCEPT !.at = "return", !.failed = failed, !.left = {}]
<1>1. ScanMove(t, d)
  BY DEF Return
<1>2. IsScan(d) /\ d.at = "return" /\ d.directory = c.directory /\ d.open = c.open
      /\ d.deferred = c.deferred /\ d.fetched = c.fetched /\ d.files = c.files
  BY DEF IsScan
<1> HIDE DEF d
<1>3. DirectoryOK(d)
  BY <1>2 DEF DirectoryOK, Clean, Reading
<1>4. QED
  BY <1>1, <1>2, <1>3 DEF ScansTo

(* Before the files are fetched there is no directory, and no call is      *)
(* deferred.                                                               *)
LEMMA EarlyDirectory ==
  ASSUME DirectoryInv, NEW t \in Callers,
         NewDefaultFetcher(t) \/ ScanInfo(t) \/ ScanLayout(t) \/ LatestSnapshot(t)
           \/ SnapshotMetadata(t)
  PROVE  ScansTo(t)
<1> DEFINE c == scan[t]
<1>1. IsScan(c) /\ DirectoryOK(c)
  BY DEF DirectoryInv
<1>2. ASSUME NEW d, ScanMove(t, d), IsScan(d), Clean(d),
             d.at \in {"info", "layout", "snapshots", "metadata", "fetch"}
      PROVE  ScansTo(t)
  BY <1>2 DEF ScansTo, DirectoryOK
<1>3. CASE NewDefaultFetcher(t)
  <2>1. Clean(c)
    BY <1>1, <1>3 DEF NewDefaultFetcher, ScanAt, DirectoryOK
  <2>2. PICK storage \in Storages :
          \/ Return(t, TRUE, c)
          \/ ScanMove(t, [c EXCEPT !.at = "info", !.storage = storage])
    BY <1>3 DEF NewDefaultFetcher
  <2> DEFINE d == [c EXCEPT !.at = "info", !.storage = storage]
  <2> HIDE DEF c
  <2>3. IsScan(d) /\ d.at = "info" /\ Clean(d)
    BY <1>1, <2>1 DEF IsScan, Clean
  <2> HIDE DEF d
  <2>4. QED
    BY <1>1, <1>2, <2>1, <2>2, <2>3, ReturnDirectory DEF c, d
<1>4. CASE ScanInfo(t)
  <2> DEFINE d == [c EXCEPT !.at = "layout", !.info = TableInfo(t)]
  <2>1. Clean(c) /\ ScanMove(t, d)
    BY <1>1, <1>4 DEF ScanInfo, ScanAt, DirectoryOK
  <2> HIDE DEF c
  <2>2. IsScan(d) /\ d.at = "layout" /\ Clean(d)
    BY <1>1, <2>1 DEF IsScan, Clean
  <2> HIDE DEF d
  <2>3. QED
    BY <1>2, <2>1, <2>2
<1>5. CASE ScanLayout(t)
  <2> DEFINE d == [c EXCEPT !.at = "snapshots", !.layout = TableInfo(t).id]
  <2>1. Clean(c) /\ ScanMove(t, d)
    BY <1>1, <1>5 DEF ScanLayout, ScanAt, DirectoryOK
  <2> HIDE DEF c
  <2>2. IsScan(d) /\ d.at = "snapshots" /\ Clean(d)
    BY <1>1, <2>1 DEF IsScan, Clean
  <2> HIDE DEF d
  <2>3. QED
    BY <1>2, <2>1, <2>2
<1>6. CASE LatestSnapshot(t)
  <2>1. PICK rows :
          ScanMove(t, [c EXCEPT !.at = "metadata", !.table = Current,
                                !.rows = rows, !.left = rows])
    BY <1>6 DEF LatestSnapshot
  <2> DEFINE d == [c EXCEPT !.at = "metadata", !.table = Current, !.rows = rows,
                            !.left = rows]
  <2>2. Clean(c)
    BY <1>1, <1>6 DEF LatestSnapshot, ScanAt, DirectoryOK
  <2> HIDE DEF c
  <2>3. IsScan(d) /\ d.at = "metadata" /\ Clean(d)
    BY <1>1, <2>2 DEF IsScan, Clean
  <2> HIDE DEF d
  <2>4. QED
    BY <1>2, <2>1, <2>3 DEF d
<1>7. CASE SnapshotMetadata(t)
  <2>1. PICK files : ScanMove(t, [c EXCEPT !.at = "fetch", !.files = files])
    BY <1>7 DEF SnapshotMetadata
  <2> DEFINE d == [c EXCEPT !.at = "fetch", !.files = files]
  <2>2. Clean(c)
    BY <1>1, <1>7 DEF SnapshotMetadata, ScanAt, DirectoryOK
  <2> HIDE DEF c
  <2>3. IsScan(d) /\ d.at = "fetch" /\ Clean(d)
    BY <1>1, <2>2 DEF IsScan, Clean
  <2> HIDE DEF d
  <2>4. QED
    BY <1>2, <2>1, <2>3 DEF d
<1>8. QED
  BY <1>3, <1>4, <1>5, <1>6, <1>7

(* FetchAll makes the directory, removes it if a file fails, and hands it  *)
(* over with all files in it.                                              *)
LEMMA FetchDirectory ==
  ASSUME DirectoryInv, NEW t \in Callers,
         MakeDirectory(t) \/ FetchFile(t) \/ FetchFails(t) \/ FetchedAll(t)
  PROVE  ScansTo(t)
<1> DEFINE c == scan[t]
<1>1. IsScan(c) /\ DirectoryOK(c)
  BY DEF DirectoryInv
<1>2. CASE MakeDirectory(t)
  <2> DEFINE d == [c EXCEPT !.at = "files", !.directory = TRUE]
  <2>1. Clean(c) /\ ScanMove(t, d)
    BY <1>1, <1>2 DEF MakeDirectory, ScanAt, DirectoryOK
  <2> HIDE DEF c
  <2>2. IsScan(d) /\ d.at = "files" /\ d.directory = TRUE /\ d.open = FALSE
        /\ d.deferred = <<>>
    BY <1>1, <2>1 DEF IsScan, Clean
  <2> HIDE DEF d
  <2>3. QED
    BY <2>1, <2>2 DEF ScansTo, DirectoryOK
<1>3. CASE FetchFile(t)
  <2> DEFINE d == [c EXCEPT !.fetched = @ + 1]
  <2>1. c.at = "files" /\ c.directory = TRUE /\ c.open = FALSE /\ c.deferred = <<>>
        /\ ScanMove(t, d)
    BY <1>1, <1>3 DEF FetchFile, ScanAt, DirectoryOK
  <2> HIDE DEF c
  <2>2. IsScan(d) /\ d.at = "files" /\ d.directory = TRUE /\ d.open = FALSE
        /\ d.deferred = <<>>
    BY <1>1, <2>1 DEF IsScan
  <2> HIDE DEF d
  <2>3. QED
    BY <2>1, <2>2 DEF ScansTo, DirectoryOK
<1>4. CASE FetchFails(t)
  <2> DEFINE d == [c EXCEPT !.directory = FALSE, !.fetched = 0]
  <2>1. c.open = FALSE /\ c.deferred = <<>> /\ Return(t, TRUE, d)
    BY <1>1, <1>4 DEF FetchFails, ScanAt, DirectoryOK
  <2> HIDE DEF c
  <2>2. IsScan(d) /\ Clean(d)
    BY <1>1, <2>1 DEF IsScan, Clean
  <2> HIDE DEF d
  <2>3. QED
    BY <2>1, <2>2, ReturnDirectory
<1>5. CASE FetchedAll(t)
  <2> DEFINE d == [c EXCEPT !.at = "plans", !.deferred = <<"remove">>]
  <2>1. c.at = "files" /\ c.fetched = Len(c.files) /\ ScanMove(t, d)
    BY <1>5 DEF FetchedAll, ScanAt
  <2>2. c.directory = TRUE /\ c.open = FALSE
    BY <1>1, <2>1 DEF DirectoryOK
  <2> HIDE DEF c
  <2>3. IsScan(d) /\ d.at = "plans" /\ d.open = FALSE /\ d.deferred = <<"remove">>
        /\ d.directory = TRUE /\ d.fetched = Len(d.files)
    BY <1>1, <2>1, <2>2 DEF IsScan
  <2> HIDE DEF d
  <2>4. QED
    BY <2>1, <2>3 DEF ScansTo, DirectoryOK
<1>6. QED
  BY <1>2, <1>3, <1>4, <1>5

(* The database is opened in the directory with all files, and an error    *)
(* leaves both to the deferred calls.                                      *)
LEMMA ReadDirectory ==
  ASSUME DirectoryInv, NEW t \in Callers,
         \/ DecodePlans(t) \/ OpenSnapshot(t) \/ (\E s \in scan[t].left : LookupPlan(t, s))
         \/ ReadRow(t) \/ ReadAll(t)
  PROVE  ScansTo(t)
<1> DEFINE c == scan[t]
<1>1. IsScan(c) /\ DirectoryOK(c)
  BY DEF DirectoryInv
<1>2. CASE DecodePlans(t)
  <2>1. c.at = "plans"
    BY <1>2 DEF DecodePlans, ScanAt
  <2>2. c.directory = TRUE /\ c.open = FALSE /\ c.deferred = <<"remove">>
        /\ c.fetched = Len(c.files)
    BY <1>1, <2>1 DEF DirectoryOK
  <2>3. \/ \E target, names, plans :
             ScanMove(t, [c EXCEPT !.at = "open", !.target = target, !.names = names,
                                   !.plans = plans])
        \/ Return(t, TRUE, c)
    BY <1>2 DEF DecodePlans
  <2>4. ASSUME NEW target, NEW names, NEW plans,
               ScanMove(t, [c EXCEPT !.at = "open", !.target = target, !.names = names,
                                     !.plans = plans])
        PROVE  ScansTo(t)
    <3> DEFINE d == [c EXCEPT !.at = "open", !.target = target, !.names = names,
                              !.plans = plans]
    <3> HIDE DEF c
    <3>1. IsScan(d) /\ d.at = "open" /\ d.open = FALSE /\ d.deferred = <<"remove">>
          /\ d.directory = TRUE /\ d.fetched = Len(d.files)
      BY <1>1, <2>2 DEF IsScan
    <3>2. ScanMove(t, d)
      BY <2>4
    <3> HIDE DEF d
    <3>3. QED
      BY <3>1, <3>2 DEF ScansTo, DirectoryOK
  <2>5. QED
    BY <1>1, <2>2, <2>3, <2>4, ReturnDirectory
<1>3. CASE OpenSnapshot(t)
  <2> DEFINE d == [c EXCEPT !.at = "read", !.open = TRUE, !.deferred = <<"remove", "close">>]
  <2>1. c.at = "open" /\ ScanMove(t, d)
    BY <1>3 DEF OpenSnapshot, ScanAt
  <2>2. c.directory = TRUE /\ c.fetched = Len(c.files)
    BY <1>1, <2>1 DEF DirectoryOK
  <2> HIDE DEF c
  <2>3. IsScan(d) /\ d.at = "read" /\ Reading(d)
    BY <1>1, <2>2 DEF IsScan, Reading
  <2> HIDE DEF d
  <2>4. QED
    BY <2>1, <2>3 DEF ScansTo, DirectoryOK
<1>4. ASSUME NEW s \in c.left, LookupPlan(t, s) PROVE ScansTo(t)
  <2>1. PICK plans : ScanMove(t, [c EXCEPT !.plans = plans])
    BY <1>4 DEF LookupPlan
  <2> DEFINE d == [c EXCEPT !.plans = plans]
  <2>2. c.at = "read" /\ Reading(c)
    BY <1>1, <1>4 DEF LookupPlan, ScanAt, DirectoryOK
  <2> HIDE DEF c
  <2>3. IsScan(d) /\ d.at = "read" /\ Reading(d)
    BY <1>1, <2>2 DEF IsScan, Reading
  <2> HIDE DEF d
  <2>4. QED
    BY <2>1, <2>3 DEF ScansTo, DirectoryOK, d
<1>5. CASE ReadRow(t)
  <2>1. c.at = "read" /\ Reading(c)
    BY <1>1, <1>5 DEF ReadRow, ScanAt, DirectoryOK
  <2>2. \/ \E s, new : ScanMove(t, [c EXCEPT !.left = @ \ {s}, !.read = @ \cup new])
        \/ Return(t, TRUE, [c EXCEPT !.read = {}])
    BY <1>5 DEF ReadRow
  <2>3. ASSUME NEW s, NEW new,
               ScanMove(t, [c EXCEPT !.left = @ \ {s}, !.read = @ \cup new])
        PROVE  ScansTo(t)
    <3> DEFINE d == [c EXCEPT !.left = @ \ {s}, !.read = @ \cup new]
    <3> HIDE DEF c
    <3>1. IsScan(d) /\ d.at = "read" /\ Reading(d)
      BY <1>1, <2>1 DEF IsScan, Reading
    <3>2. ScanMove(t, d)
      BY <2>3
    <3> HIDE DEF d
    <3>3. QED
      BY <3>1, <3>2 DEF ScansTo, DirectoryOK
  <2>4. CASE Return(t, TRUE, [c EXCEPT !.read = {}])
    <3> DEFINE d == [c EXCEPT !.read = {}]
    <3> HIDE DEF c
    <3>1. IsScan(d) /\ Reading(d)
      BY <1>1, <2>1 DEF IsScan, Reading
    <3>2. Return(t, TRUE, d)
      BY <2>4
    <3> HIDE DEF d
    <3>3. QED
      BY <3>1, <3>2, ReturnDirectory
  <2>5. QED
    BY <2>2, <2>3, <2>4
<1>6. CASE ReadAll(t)
  <2>1. Reading(c) /\ Return(t, FALSE, c)
    BY <1>1, <1>6 DEF ReadAll, ScanAt, DirectoryOK
  <2>2. QED
    BY <1>1, <2>1, ReturnDirectory
<1>7. QED
  BY <1>2, <1>3, <1>4, <1>5, <1>6

(* The deferred calls close the database before they remove the directory, *)
(* and nothing is left when they have run.                                 *)
LEMMA EndDirectory ==
  ASSUME DirectoryInv, NEW t \in Callers, ScanFails(t) \/ Deferred(t) \/ ScanReturns(t)
  PROVE  ScansTo(t)
<1> DEFINE c == scan[t]
<1>1. IsScan(c) /\ DirectoryOK(c)
  BY DEF DirectoryInv
<1>2. CASE ScanFails(t)
  <2> DEFINE d == [c EXCEPT !.read = {}]
  <2>1. Return(t, TRUE, d)
    BY <1>2 DEF ScanFails
  <2>2. Clean(c) \/ (c.open = FALSE /\ c.deferred = <<"remove">>) \/ Reading(c)
    BY <1>1, <1>2 DEF ScanFails, DirectoryOK
  <2> HIDE DEF c
  <2>3. IsScan(d) /\ d.open = c.open /\ d.deferred = c.deferred /\ d.directory = c.directory
        /\ d.fetched = c.fetched /\ d.files = c.files
    BY <1>1 DEF IsScan
  <2> HIDE DEF d
  <2>4. Clean(d) \/ (d.open = FALSE /\ d.deferred = <<"remove">>) \/ Reading(d)
    BY <2>2, <2>3 DEF Clean, Reading
  <2>5. QED
    BY <2>1, <2>3, <2>4, ReturnDirectory
<1>3. CASE Deferred(t)
  <2> DEFINE rest(x) == [c EXCEPT !.deferred = x]
             d(x) == [rest(x) EXCEPT !.directory = FALSE, !.fetched = 0]
             e(x) == [rest(x) EXCEPT !.open = FALSE]
             last == SubSeq(c.deferred, 1, Len(c.deferred) - 1)
  <2>1. c.at = "return" /\ c.deferred # <<>>
        /\ IF c.deferred[Len(c.deferred)] = "remove" THEN ScanMove(t, d(last))
           ELSE ScanMove(t, e(last))
    BY <1>3 DEF Deferred, ScanAt
  <2>2. (c.open = FALSE /\ c.deferred = <<"remove">>) \/ Reading(c)
    BY <1>1, <2>1 DEF DirectoryOK, Clean
  <2>3. CASE c.open = FALSE /\ c.deferred = <<"remove">>
    <3>1. last = <<>>
      <4>1. Len(<<"remove">>) = 1 /\ <<"remove">> \in Seq({"remove"})
        OBVIOUS
      <4>2. SubSeq(<<"remove">>, 1, 0) = <<>>
        BY <4>1, SubSeqEmpty
      <4>3. QED
        BY <2>3, <4>1, <4>2
    <3>2. ScanMove(t, d(last))
      BY <2>1, <2>3
    <3> HIDE DEF c, last
    <3>3. IsScan(d(last)) /\ d(last).at = "return" /\ Clean(d(last))
      BY <1>1, <2>1, <2>3, <3>1 DEF IsScan, Clean
    <3> HIDE DEF d
    <3>4. QED
      BY <3>2, <3>3 DEF ScansTo, DirectoryOK
  <2>4. CASE Reading(c)
    <3>1. c.deferred = <<"remove", "close">>
      BY <2>4 DEF Reading
    <3>2. last = <<"remove">>
      <4>1. Len(<<"remove", "close">>) = 2
            /\ <<"remove", "close">> \in Seq({"remove", "close"})
        OBVIOUS
      <4>2. SubSeq(<<"remove", "close">>, 1, 1) = <<"remove">>
        <5> DEFINE s == <<"remove", "close">>
        <5>1. s \in Seq({"remove", "close"}) /\ Len(s) = 2 /\ s[1] = "remove"
          BY <4>1
        <5> HIDE DEF s
        <5>2. SubSeq(s, 1, 1) = SubSeq(s, 1, 0) \o <<s[1]>>
          BY <5>1, SubSeqRecursiveSecond
        <5>3. SubSeq(s, 1, 0) = <<>>
          BY SubSeqEmpty
        <5>4. <<>> \o <<s[1]>> = <<s[1]>>
          BY <5>1, ConcatEmptySeq
        <5>5. QED
          BY <5>1, <5>2, <5>3, <5>4 DEF s
      <4>3. QED
        BY <3>1, <4>1, <4>2
    <3>3. ScanMove(t, e(last))
      BY <2>1, <3>1
    <3> HIDE DEF c, last
    <3>4. IsScan(e(last)) /\ e(last).at = "return" /\ e(last).open = FALSE
          /\ e(last).deferred = <<"remove">>
      BY <1>1, <2>1, <3>2 DEF IsScan
    <3> HIDE DEF e
    <3>5. QED
      BY <3>3, <3>4 DEF ScansTo, DirectoryOK
  <2>5. QED
    BY <2>2, <2>3, <2>4
<1>4. CASE ScanReturns(t)
  <2> DEFINE d == [c EXCEPT !.at = "done", !.storage = NoStorage, !.files = <<>>]
  <2>1. c.at = "return" /\ c.deferred = <<>> /\ ScanMove(t, d)
    BY <1>4 DEF ScanReturns, ScanAt
  <2>2. Clean(c)
    BY <1>1, <2>1 DEF DirectoryOK, Reading
  <2> HIDE DEF c
  <2>3. IsScan(d) /\ d.at = "done" /\ Clean(d)
    BY <1>1, <2>2 DEF IsScan, Clean
  <2> HIDE DEF d
  <2>4. QED
    BY <2>1, <2>3 DEF ScansTo, DirectoryOK
<1>5. QED
  BY <1>2, <1>3, <1>4

(* A new scan has no directory. *)
LEMMA StartDirectory ==
  ASSUME DirectoryInv, NEW t \in Callers, StartScan(t) PROVE ScansTo(t)
<1> DEFINE d == [NoScan EXCEPT !.at = "fetcher"]
<1>1. ScanMove(t, d)
  BY DEF StartScan, ScanMove
<1>2. IsScan(d) /\ d.at = "fetcher" /\ Clean(d)
  BY DEF IsScan, NoScan, Clean
<1> HIDE DEF d
<1>3. QED
  BY <1>1, <1>2 DEF ScansTo, DirectoryOK

(* DirectoryInv is inductive. *)
LEMMA DirectoryKept == DirectoryInv /\ [ScanNext]_scanVars => DirectoryInv'
<1> SUFFICES ASSUME DirectoryInv, [ScanNext]_scanVars PROVE DirectoryInv'
  OBVIOUS
<1>1. UNCHANGED scan => DirectoryInv'
  BY DEF DirectoryInv
<1>2. ASSUME NEW t \in Callers, ScanStep(t) PROVE DirectoryInv'
  <2>1. AskScanInfo(t) \/ StoreScanInfo(t) => UNCHANGED scan
    BY DEF AskScanInfo, StoreScanInfo
  <2>2. ScansTo(t) \/ UNCHANGED scan
    BY <1>2, <2>1, StartDirectory, EarlyDirectory, FetchDirectory, ReadDirectory, EndDirectory
       DEF ScanStep
  <2>3. QED
    BY <1>1, <2>2, ScansToKept
<1>3. QED
  BY <1>1, <1>2 DEF ScanNext, scanVars

(* NoDirectoryLeft: SnapshotScanRows returns, with its rows or an error,   *)
(* after the directory that FetchAll made is removed and the local         *)
(* database is closed, and the database is open only while the directory   *)
(* has every file of the snapshot.                                         *)
THEOREM SpecNoDirectoryLeft == ScanSpec => []NoDirectoryLeft
<1>1. ScanInit => DirectoryInv
  <2>1. IsScan(NoScan) /\ DirectoryOK(NoScan)
    BY NoScanIs DEF DirectoryOK, Clean, NoScan
  <2>2. QED
    BY <2>1 DEF ScanInit, DirectoryInv
<1>2. DirectoryInv => NoDirectoryLeft
  <2> SUFFICES ASSUME DirectoryInv, NEW t \in Callers
               PROVE  /\ scan[t].open => scan[t].directory /\ scan[t].fetched = Len(scan[t].files)
                      /\ ScanAt(t, "done") => ~scan[t].directory /\ ~scan[t].open
    BY DEF NoDirectoryLeft
  <2>1. DirectoryOK(scan[t])
    BY DEF DirectoryInv
  <2>2. QED
    BY <2>1 DEF DirectoryOK, Clean, Reading, ScanAt
<1>3. QED
  BY <1>1, <1>2, DirectoryKept, PTL DEF ScanSpec

-------------------------------------------------------------------------------
(* The rows that are read *)

(* Schema s of table i, of the tables T that there have been. *)
SchemaKnown(T, i, s) == i \in 1 .. Len(T) /\ s \in 1 .. Len(T[i])

(* A plan decodes as of what was known of its schema: of the schema that   *)
(* is cached the caller's, of others the server's.                         *)
PlanOK(c, s, T) ==
  LET plan == c.plans[s] IN
  IF s = c.info.schema
  THEN /\ plan.decode = c.target /\ plan.source = c.names
       /\ \/ c.names = c.target
          \/ SchemaKnown(T, plan.table, s) /\ c.names = T[plan.table][s]
  ELSE /\ SchemaKnown(T, plan.table, s)
       /\ plan.decode = T[plan.table][s] /\ plan.source = T[plan.table][s]

(* Consistent and RowAsWritten, for rows of some columns. *)
ConsistentAs(c, s, columns) ==
  /\ c.info.id = c.table /\ c.layout = c.table /\ c.plans[s].table = c.table
  /\ s = c.info.schema => c.target = columns

WrittenAs(c, columns) ==
  [i \in DOMAIN c.names |->
     IF \E j \in DOMAIN columns : columns[j] = c.names[i] THEN c.names[i] ELSE Nil]

RowsKnown(c, T) == \A s \in c.rows : SchemaKnown(T, c.table, s)

PlansOK(c, T) == \A s \in DOMAIN c.plans : PlanOK(c, s, T)

ReadRight(c, T) ==
  \A r \in c.read :
    /\ r[1] \in DOMAIN c.plans /\ r[1] \in c.rows
    /\ ConsistentAs(c, r[1], T[c.table][r[1]]) => r[2] = WrittenAs(c, T[c.table][r[1]])

(* The rows of the snapshot have been read or are left, until the scan     *)
(* returns with all of them or none.                                       *)
Progress(c) ==
  /\ c.at \notin {"open", "read", "return", "done"} => DOMAIN c.plans = {}
  /\ c.at \in {"open", "read"} => c.info.schema \in DOMAIN c.plans
  /\ c.at \notin {"read", "return", "done"} => c.read = {} /\ c.left = c.rows
  /\ c.at = "read" => /\ c.left \subseteq c.rows
                      /\ \A r \in c.read : r[1] \notin c.left
                      /\ \A s \in c.rows \ c.left : \E r \in c.read : r[1] = s
  /\ c.at \in {"return", "done"} =>
       IF c.failed THEN c.read = {} ELSE \A s \in c.rows : \E r \in c.read : r[1] = s

ReadOK(c, T) == RowsKnown(c, T) /\ PlansOK(c, T) /\ ReadRight(c, T) /\ Progress(c)

ReadInv ==
  /\ DOMAIN scan = Callers
  /\ \A t \in Callers : IsScan(scan[t]) /\ ReadOK(scan[t], tables)

(* Schemas are not taken back, so what was decoded stays right. *)
LEMMA ReadGrows ==
  ASSUME NEW c, NEW T, NEW U, ReadOK(c, T),
         \A i, s : SchemaKnown(T, i, s) => SchemaKnown(U, i, s) /\ U[i][s] = T[i][s]
  PROVE  ReadOK(c, U)
<1>1. RowsKnown(c, U)
  BY DEF ReadOK, RowsKnown
<1>2. PlansOK(c, U)
  <2> SUFFICES ASSUME NEW s \in DOMAIN c.plans PROVE PlanOK(c, s, U)
    BY DEF PlansOK
  <2>1. PlanOK(c, s, T)
    BY DEF ReadOK, PlansOK
  <2> DEFINE i == c.plans[s].table
  <2>2. SchemaKnown(T, i, s) => SchemaKnown(U, i, s) /\ U[i][s] = T[i][s]
    OBVIOUS
  <2>3. QED
    BY <2>1, <2>2 DEF PlanOK
<1>3. ReadRight(c, U)
  <2> SUFFICES ASSUME NEW r \in c.read
               PROVE  /\ r[1] \in DOMAIN c.plans /\ r[1] \in c.rows
                      /\ ConsistentAs(c, r[1], U[c.table][r[1]])
                           => r[2] = WrittenAs(c, U[c.table][r[1]])
    BY DEF ReadRight
  <2>1. /\ r[1] \in DOMAIN c.plans /\ r[1] \in c.rows
        /\ ConsistentAs(c, r[1], T[c.table][r[1]])
                           => r[2] = WrittenAs(c, T[c.table][r[1]])
    BY DEF ReadOK, ReadRight
  <2>2. U[c.table][r[1]] = T[c.table][r[1]]
    BY <2>1 DEF ReadOK, RowsKnown
  <2>3. QED
    BY <2>1, <2>2
<1>4. QED
  BY <1>1, <1>2, <1>3 DEF ReadOK

(* A schema that the server has stays what it is. *)
LEMMA KnownGrows ==
  ASSUME ClusterTypes, TablesGrow
  PROVE  \A i, s : SchemaKnown(tables, i, s) =>
           SchemaKnown(tables', i, s) /\ tables'[i][s] = tables[i][s]
<1> SUFFICES ASSUME NEW i, NEW s, SchemaKnown(tables, i, s)
             PROVE  SchemaKnown(tables', i, s) /\ tables'[i][s] = tables[i][s]
  OBVIOUS
<1> DEFINE m == Current
           n == Len(tables[i])
           k == Len(tables'[i])
<1>1. i \in 1 .. m /\ s \in 1 .. n
  BY DEF SchemaKnown, Current
<1>2. m \in Nat /\ n \in Nat /\ m' \in Nat /\ m' >= m
  BY <1>1, CurrentBound DEF TablesGrow
<1>3. k >= n /\ tables'[i][s] = tables[i][s]
  BY <1>1 DEF TablesGrow
<1>4. m' = Len(tables')
  BY DEF Current
<1> HIDE DEF m, n
<1>5. i \in 1 .. m' /\ s \in 1 .. k
  BY <1>1, <1>2, <1>3
<1>6. QED
  BY <1>3, <1>4, <1>5 DEF SchemaKnown

(* What of a scan the rows and plans are judged by. *)
Kin(d, c) ==
  /\ d.info = c.info /\ d.layout = c.layout /\ d.table = c.table
  /\ d.target = c.target /\ d.names = c.names /\ d.rows = c.rows

(* A plan and a row are judged by these fields and by the plan of their    *)
(* schema alone.                                                           *)
LEMMA KinJudged ==
  ASSUME NEW c, NEW d, NEW s, Kin(d, c), d.plans[s] = c.plans[s]
  PROVE  /\ \A T : PlanOK(c, s, T) => PlanOK(d, s, T)
         /\ \A columns : /\ ConsistentAs(d, s, columns) => ConsistentAs(c, s, columns)
                         /\ WrittenAs(d, columns) = WrittenAs(c, columns)
<1>1. \A T : PlanOK(c, s, T) => PlanOK(d, s, T)
  BY DEF Kin, PlanOK
<1>2. \A columns : ConsistentAs(d, s, columns) => ConsistentAs(c, s, columns)
  BY DEF Kin, ConsistentAs
<1>3. \A columns : WrittenAs(d, columns) = WrittenAs(c, columns)
  BY DEF Kin, WrittenAs
<1>4. QED
  BY <1>1, <1>2, <1>3

(* What was read stays right if only the progress of the scan changes. *)
LEMMA KinOK ==
  ASSUME NEW c, NEW d, NEW T, ReadOK(c, T), Kin(d, c), d.plans = c.plans,
         d.read \subseteq c.read, Progress(d)
  PROVE  ReadOK(d, T)
<1>1. RowsKnown(d, T)
  BY DEF ReadOK, RowsKnown, Kin
<1>2. PlansOK(d, T)
  BY KinJudged DEF ReadOK, PlansOK
<1>3. ReadRight(d, T)
  <2> SUFFICES ASSUME NEW r \in d.read
               PROVE  /\ r[1] \in DOMAIN d.plans /\ r[1] \in d.rows
                      /\ ConsistentAs(d, r[1], T[d.table][r[1]])
                           => r[2] = WrittenAs(d, T[d.table][r[1]])
    BY DEF ReadRight
  <2>1. /\ r[1] \in DOMAIN c.plans /\ r[1] \in c.rows
        /\ ConsistentAs(c, r[1], T[c.table][r[1]])
             => r[2] = WrittenAs(c, T[c.table][r[1]])
    BY DEF ReadOK, ReadRight
  <2>2. d.table = c.table /\ d.rows = c.rows /\ d.plans[r[1]] = c.plans[r[1]]
    BY DEF Kin
  <2>3. QED
    BY <2>1, <2>2, KinJudged
<1>4. QED
  BY <1>1, <1>2, <1>3 DEF ReadOK

(* Before the plans are made there is nothing to judge. *)
LEMMA EarlyOK ==
  ASSUME NEW d, NEW T, d.at \notin {"open", "read", "return", "done"},
         DOMAIN d.plans = {}, d.read = {}, d.left = d.rows, RowsKnown(d, T)
  PROVE  ReadOK(d, T)
BY DEF ReadOK, PlansOK, ReadRight, Progress

-------------------------------------------------------------------------------
(* A row, decoded and projected *)

(* The value under a name is the one that was written under it, or none if *)
(* the schema has no such column.                                          *)
LEMMA ValueIs ==
  ASSUME NEW columns, columns \in Seq(Range(columns)), NEW name
  PROVE  ValueOf(columns, columns, name) =
           IF \E j \in DOMAIN columns : columns[j] = name THEN name ELSE Nil
<1>1. \A j \in DOMAIN columns : j <= Len(columns)
  <2>1. DOMAIN columns = 1 .. Len(columns) /\ Len(columns) \in Nat
    OBVIOUS
  <2>2. QED
    BY <2>1
<1>2. CASE \E j \in DOMAIN columns : columns[j] = name
  <2> DEFINE k == CHOOSE j \in DOMAIN columns : columns[j] = name /\ j <= Len(columns)
  <2>1. columns[k] = name
    BY <1>1, <1>2
  <2>2. QED
    BY <1>1, <1>2, <2>1 DEF ValueOf
<1>3. CASE ~ \E j \in DOMAIN columns : columns[j] = name
  BY <1>3 DEF ValueOf
<1>4. QED
  BY <1>2, <1>3

(* A row of the columns that it is decoded as of has its values under the  *)
(* names asked for.                                                        *)
LEMMA ProjectedIs ==
  ASSUME NEW c, NEW columns, columns \in Seq(Range(columns)), NEW source,
         source = columns \/ (source = c.names /\ c.names = columns)
  PROVE  Projected(columns, source, c.names) = WrittenAs(c, columns)
<1>1. CASE source = c.names
  <2>1. c.names = columns
    BY <1>1
  <2>2. WrittenAs(c, columns) = [i \in DOMAIN columns |-> columns[i]]
    BY <2>1 DEF WrittenAs
  <2>3. [i \in DOMAIN columns |-> columns[i]] = columns
    OBVIOUS
  <2>4. Projected(columns, source, c.names) = columns
    BY <1>1 DEF Projected
  <2>5. QED
    BY <2>2, <2>3, <2>4
<1>2. CASE source # c.names
  <2>1. source = columns
    BY <1>2
  <2>2. Projected(columns, source, c.names)
          = [i \in DOMAIN c.names |-> ValueOf(columns, columns, c.names[i])]
    BY <1>2, <2>1 DEF Projected, ProjectRow
  <2>3. QED
    BY <2>2, ValueIs DEF WrittenAs
<1>3. QED
  BY <1>1, <1>2

(* ReadRow, of a consistent scan. *)
LEMMA RowRight ==
  ASSUME NEW c, NEW T, NEW s, PlanOK(c, s, T), ConsistentAs(c, s, T[c.table][s]),
         T[c.table][s] \in Seq(Range(T[c.table][s])),
         NEW row \in Decoded(T[c.table][s], c.plans[s].decode, c.layout = c.table)
  PROVE  Projected(row, c.plans[s].source, c.names) = WrittenAs(c, T[c.table][s])
<1> DEFINE columns == T[c.table][s]
           plan == c.plans[s]
<1>1. plan.decode = columns
      /\ (plan.source = columns \/ (plan.source = c.names /\ c.names = columns))
  BY DEF PlanOK, ConsistentAs
<1>2. row = columns
  BY <1>1 DEF Decoded, ConsistentAs
<1> HIDE DEF columns, plan
<1>3. Projected(columns, plan.source, c.names) = WrittenAs(c, columns)
  BY <1>1, ProjectedIs DEF columns
<1>4. QED
  BY <1>2, <1>3 DEF columns, plan

-------------------------------------------------------------------------------
(* The steps of a scan *)

ReadsTo(t) == \E d : ScanMove(t, d) /\ IsScan(d) /\ ReadOK(d, tables)

(* A scan that fails before it read a row returns none. *)
LEMMA FailedRead ==
  ASSUME NEW t, NEW c, IsScan(c), ReadOK(c, tables), c.read = {}, Return(t, TRUE, c)
  PROVE  ReadsTo(t)
<1> DEFINE d == [c EXCEPT !.at = "return", !.failed = TRUE, !.left = {}]
<1>1. ScanMove(t, d)
  BY DEF Return
<1>2. IsScan(d) /\ Kin(d, c) /\ d.plans = c.plans /\ d.read = c.read /\ d.at = "return"
      /\ d.failed = TRUE
  BY DEF IsScan, Kin
<1> HIDE DEF d
<1>3. Progress(d)
  BY <1>2 DEF Progress
<1>4. ReadOK(d, tables)
  BY <1>2, <1>3, KinOK
<1>5. QED
  BY <1>1, <1>2, <1>4 DEF ReadsTo

(* Up to the plans. *)
Early(c) == c.at \notin {"open", "read", "return", "done"}

(* A step before the plans that keeps the rows that are left. *)
LEMMA EarlyMove ==
  ASSUME NEW t, NEW c, NEW d, IsScan(d), Early(d), ScanMove(t, d), RowsKnown(c, tables),
         c.read = {}, DOMAIN c.plans = {}, c.left = c.rows, d.plans = c.plans,
         d.read = c.read, d.rows = c.rows, d.left = c.left, d.table = c.table
  PROVE  ReadsTo(t)
<1>1. RowsKnown(d, tables)
  BY DEF RowsKnown
<1>2. ReadOK(d, tables)
  BY <1>1, EarlyOK DEF Early
<1>3. QED
  BY <1>2 DEF ReadsTo

(* The looks at the cluster before the files are fetched. *)
LEMMA EarlyRead ==
  ASSUME ReadInv, ClusterTypes, NEW t \in Callers,
         NewDefaultFetcher(t) \/ ScanInfo(t) \/ ScanLayout(t) \/ LatestSnapshot(t)
           \/ SnapshotMetadata(t)
  PROVE  ReadsTo(t)
<1> DEFINE c == scan[t]
<1>1. IsScan(c) /\ ReadOK(c, tables)
  BY DEF ReadInv
<1>2. c.read = {} /\ DOMAIN c.plans = {} /\ c.left = c.rows /\ RowsKnown(c, tables)
  <2>1. c.at \in {"fetcher", "info", "layout", "snapshots", "metadata"}
    BY DEF NewDefaultFetcher, ScanInfo, ScanLayout, LatestSnapshot, SnapshotMetadata, ScanAt
  <2>2. QED
    BY <1>1, <2>1 DEF ReadOK, Progress
<1>3. ASSUME NEW d, IsScan(d), Early(d), ScanMove(t, d), d.plans = c.plans, d.read = c.read,
             d.rows = c.rows, d.left = c.left, d.table = c.table
      PROVE  ReadsTo(t)
  BY <1>2, <1>3, EarlyMove
<1>4. CASE NewDefaultFetcher(t)
  <2>1. PICK storage \in Storages :
          \/ Return(t, TRUE, c)
          \/ ScanMove(t, [c EXCEPT !.at = "info", !.storage = storage])
    BY <1>4 DEF NewDefaultFetcher
  <2> DEFINE d == [c EXCEPT !.at = "info", !.storage = storage]
  <2> HIDE DEF c
  <2>2. IsScan(d) /\ Early(d) /\ d.plans = c.plans /\ d.read = c.read
        /\ d.rows = c.rows /\ d.left = c.left /\ d.table = c.table
    BY <1>1 DEF IsScan, Early
  <2>3. CASE Return(t, TRUE, c)
    BY <1>1, <1>2, <2>3, FailedRead
  <2>4. CASE ScanMove(t, d)
    <3> HIDE DEF d
    <3>1. QED
      BY <1>3, <2>2, <2>4
  <2>5. QED
    BY <2>1, <2>3, <2>4
<1>5. CASE ScanInfo(t)
  <2> DEFINE d == [c EXCEPT !.at = "layout", !.info = TableInfo(t)]
  <2>1. ScanMove(t, d)
    BY <1>5 DEF ScanInfo
  <2> HIDE DEF c
  <2>2. IsScan(d) /\ Early(d) /\ d.plans = c.plans /\ d.read = c.read
        /\ d.rows = c.rows /\ d.left = c.left /\ d.table = c.table
    BY <1>1 DEF IsScan, Early
  <2> HIDE DEF d
  <2>3. QED
    BY <1>3, <2>1, <2>2
<1>6. CASE ScanLayout(t)
  <2> DEFINE d == [c EXCEPT !.at = "snapshots", !.layout = TableInfo(t).id]
  <2>1. ScanMove(t, d)
    BY <1>6 DEF ScanLayout
  <2> HIDE DEF c
  <2>2. IsScan(d) /\ Early(d) /\ d.plans = c.plans /\ d.read = c.read
        /\ d.rows = c.rows /\ d.left = c.left /\ d.table = c.table
    BY <1>1 DEF IsScan, Early
  <2> HIDE DEF d
  <2>3. QED
    BY <1>3, <2>1, <2>2
<1>7. CASE LatestSnapshot(t)
  <2>1. PICK rows \in SUBSET (1 .. Len(tables[Current])) :
          ScanMove(t, [c EXCEPT !.at = "metadata", !.table = Current,
                                !.rows = rows, !.left = rows])
    BY <1>7 DEF LatestSnapshot
  <2> DEFINE d == [c EXCEPT !.at = "metadata", !.table = Current, !.rows = rows,
                            !.left = rows]
  <2>2. ScanMove(t, d)
    BY <2>1
  <2> HIDE DEF c
  <2>3. IsScan(d) /\ Early(d) /\ d.plans = c.plans /\ d.read = c.read
        /\ d.rows = rows /\ d.left = rows /\ d.table = Current
    BY <1>1 DEF IsScan, Early
  <2> HIDE DEF d
  <2>4. Current \in 1 .. Len(tables)
    BY CurrentBound DEF ClusterTypes, Current
  <2>5. RowsKnown(d, tables)
    BY <2>1, <2>3, <2>4 DEF RowsKnown, SchemaKnown
  <2>6. ReadOK(d, tables)
    BY <1>2, <2>3, <2>5, EarlyOK DEF Early
  <2>7. QED
    BY <2>2, <2>3, <2>6 DEF ReadsTo
<1>8. CASE SnapshotMetadata(t)
  <2>1. PICK files : ScanMove(t, [c EXCEPT !.at = "fetch", !.files = files])
    BY <1>8 DEF SnapshotMetadata
  <2> DEFINE d == [c EXCEPT !.at = "fetch", !.files = files]
  <2>2. ScanMove(t, d)
    BY <2>1
  <2> HIDE DEF c
  <2>3. IsScan(d) /\ Early(d) /\ d.plans = c.plans /\ d.read = c.read
        /\ d.rows = c.rows /\ d.left = c.left /\ d.table = c.table
    BY <1>1 DEF IsScan, Early
  <2> HIDE DEF d
  <2>4. QED
    BY <1>3, <2>2, <2>3
<1>9. QED
  BY <1>4, <1>5, <1>6, <1>7, <1>8

(* FetchAll reads no row. *)
LEMMA FetchRead ==
  ASSUME ReadInv, NEW t \in Callers,
         MakeDirectory(t) \/ FetchFile(t) \/ FetchFails(t) \/ FetchedAll(t)
  PROVE  ReadsTo(t)
<1> DEFINE c == scan[t]
<1>1. IsScan(c) /\ ReadOK(c, tables)
  BY DEF ReadInv
<1>2. Early(c) /\ c.read = {} /\ DOMAIN c.plans = {} /\ c.left = c.rows
      /\ RowsKnown(c, tables)
  <2>1. c.at \in {"fetch", "files"}
    BY DEF MakeDirectory, FetchFile, FetchFails, FetchedAll, ScanAt
  <2>2. QED
    BY <1>1, <2>1 DEF ReadOK, Progress, Early
<1>3. ASSUME NEW d, IsScan(d), Early(d), ScanMove(t, d), d.plans = c.plans, d.read = c.read,
             d.rows = c.rows, d.left = c.left, d.table = c.table
      PROVE  ReadsTo(t)
  BY <1>2, <1>3, EarlyMove
<1>4. CASE MakeDirectory(t)
  <2> DEFINE d == [c EXCEPT !.at = "files", !.directory = TRUE]
  <2>1. ScanMove(t, d)
    BY <1>4 DEF MakeDirectory
  <2> HIDE DEF c
  <2>2. IsScan(d) /\ Early(d) /\ d.plans = c.plans /\ d.read = c.read
        /\ d.rows = c.rows /\ d.left = c.left /\ d.table = c.table
    BY <1>1 DEF IsScan, Early
  <2> HIDE DEF d
  <2>3. QED
    BY <1>3, <2>1, <2>2
<1>5. CASE FetchFile(t)
  <2> DEFINE d == [c EXCEPT !.fetched = @ + 1]
  <2>1. ScanMove(t, d)
    BY <1>5 DEF FetchFile
  <2> HIDE DEF c
  <2>2. IsScan(d) /\ Early(d) /\ d.plans = c.plans /\ d.read = c.read
        /\ d.rows = c.rows /\ d.left = c.left /\ d.table = c.table
    BY <1>1, <1>2 DEF IsScan, Early
  <2> HIDE DEF d
  <2>3. QED
    BY <1>3, <2>1, <2>2
<1>6. CASE FetchFails(t)
  <2> DEFINE d == [c EXCEPT !.directory = FALSE, !.fetched = 0]
  <2>1. Return(t, TRUE, d)
    BY <1>6 DEF FetchFails
  <2> HIDE DEF c
  <2>2. IsScan(d) /\ Early(d) /\ d.plans = c.plans /\ d.read = c.read
        /\ d.rows = c.rows /\ d.left = c.left /\ d.table = c.table
    BY <1>1, <1>2 DEF IsScan, Early
  <2> HIDE DEF d
  <2>3. RowsKnown(d, tables)
    BY <1>2, <2>2 DEF RowsKnown
  <2>4. ReadOK(d, tables)
    BY <1>2, <2>2, <2>3, EarlyOK DEF Early
  <2>5. QED
    BY <1>2, <2>1, <2>2, <2>4, FailedRead
<1>7. CASE FetchedAll(t)
  <2> DEFINE d == [c EXCEPT !.at = "plans", !.deferred = <<"remove">>]
  <2>1. ScanMove(t, d)
    BY <1>7 DEF FetchedAll
  <2> HIDE DEF c
  <2>2. IsScan(d) /\ Early(d) /\ d.plans = c.plans /\ d.read = c.read
        /\ d.rows = c.rows /\ d.left = c.left /\ d.table = c.table
    BY <1>1 DEF IsScan, Early
  <2> HIDE DEF d
  <2>3. QED
    BY <1>3, <2>1, <2>2
<1>8. QED
  BY <1>4, <1>5, <1>6, <1>7

(* snapshotDecodePlans makes one plan, for the schema that is cached: it   *)
(* decodes as of the caller's columns, under their names or those of the   *)
(* server's schema.                                                        *)
LEMMA PlansRead ==
  ASSUME ReadInv, ClusterTypes, NEW t \in Callers, DecodePlans(t)
  PROVE  ReadsTo(t)
<1> DEFINE c == scan[t]
<1>1. IsScan(c) /\ ReadOK(c, tables)
  BY DEF ReadInv
<1>2. c.read = {} /\ DOMAIN c.plans = {} /\ c.left = c.rows /\ RowsKnown(c, tables)
  <2>1. c.at = "plans"
    BY DEF DecodePlans, ScanAt
  <2>2. QED
    BY <1>1, <2>1 DEF ReadOK, Progress
<1> DEFINE made(table, target, names) ==
             [c EXCEPT !.at = "open", !.target = target, !.names = names,
                       !.plans = [s \in {c.info.schema} |-> Plan(table, target, names)]]
           latest == tables[Current][c.info.schema]
<1>3. ASSUME NEW table, NEW target, NEW names, ScanMove(t, made(table, target, names)),
             \/ names = target
             \/ SchemaKnown(tables, table, c.info.schema) /\ names = tables[table][c.info.schema]
      PROVE  ReadsTo(t)
  <2> DEFINE plans == [s \in {c.info.schema} |-> Plan(table, target, names)]
             d == [c EXCEPT !.at = "open", !.target = target, !.names = names,
                            !.plans = plans]
  <2>1. ScanMove(t, d)
    BY <1>3
  <2>2. DOMAIN plans = {c.info.schema} /\ plans[c.info.schema].table = table
        /\ plans[c.info.schema].decode = target /\ plans[c.info.schema].source = names
    BY DEF Plan
  <2> HIDE DEF c, plans
  <2>3. IsScan(d) /\ d.at = "open" /\ d.target = target /\ d.names = names
        /\ d.plans = plans /\ d.info = c.info /\ d.read = c.read /\ d.left = c.left
        /\ d.rows = c.rows /\ d.table = c.table
    BY <1>1 DEF IsScan
  <2> HIDE DEF d
  <2>4. PlansOK(d, tables)
    BY <1>3, <2>2, <2>3 DEF PlansOK, PlanOK
  <2>5. RowsKnown(d, tables)
    BY <1>2, <2>3 DEF RowsKnown
  <2>6. ReadRight(d, tables) /\ Progress(d)
    BY <1>2, <2>2, <2>3 DEF ReadRight, Progress
  <2>7. QED
    BY <2>1, <2>3, <2>4, <2>5, <2>6 DEF ReadsTo, ReadOK
<1>4. PICK i \in DOMAIN Schemas :
        \/ ScanMove(t, made(c.info.id, Schemas[i], Schemas[i]))
        \/ SchemaAnswered(c.info.schema) /\ ScanMove(t, made(Current, Schemas[i], latest))
        \/ Return(t, TRUE, c)
  BY DEF DecodePlans
<1>5. CASE Return(t, TRUE, c)
  BY <1>1, <1>2, <1>5, FailedRead
<1>6. ASSUME SchemaAnswered(c.info.schema) PROVE SchemaKnown(tables, Current, c.info.schema)
  <2>1. Current \in 1 .. Len(tables) /\ tables[Current] \in Seq(Columns)
    BY CurrentBound DEF ClusterTypes, Current
  <2>2. QED
    BY <1>6, <2>1 DEF SchemaAnswered, SchemaKnown
<1> HIDE DEF made
<1>7. QED
  BY <1>3, <1>4, <1>5, <1>6

(* lookupPlan adds the plan of a schema that is not the cached one, of the *)
(* server's columns.                                                       *)
LEMMA LookupRead ==
  ASSUME ReadInv, ClusterTypes, NEW t \in Callers, NEW s \in scan[t].left, LookupPlan(t, s)
  PROVE  ReadsTo(t)
<1> DEFINE c == scan[t]
           plans == [r \in DOMAIN c.plans \cup {s} |->
                       IF r = s THEN LoadedPlan(c, s) ELSE c.plans[r]]
           d == [c EXCEPT !.plans = plans]
<1>1. IsScan(c) /\ ReadOK(c, tables)
  BY DEF ReadInv
<1>2. c.at = "read" /\ s \notin DOMAIN c.plans /\ ScanMove(t, d)
  BY DEF LookupPlan, ScanAt
<1>3. s # c.info.schema
  BY <1>1, <1>2 DEF ReadOK, Progress
<1>4. SchemaKnown(tables, Current, s)
  <2>1. Current \in 1 .. Len(tables) /\ tables[Current] \in Seq(Columns)
    BY CurrentBound DEF ClusterTypes, Current
  <2>2. QED
    BY <2>1 DEF LookupPlan, SchemaAnswered, SchemaKnown
<1>5. /\ DOMAIN plans = DOMAIN c.plans \cup {s}
      /\ plans[s].table = Current /\ plans[s].decode = tables[Current][s]
      /\ plans[s].source = tables[Current][s]
      /\ \A r \in DOMAIN c.plans : plans[r] = c.plans[r]
  BY <1>2 DEF LoadedPlan, Plan
<1> HIDE DEF c, plans
<1>6. IsScan(d) /\ Kin(d, c) /\ d.at = "read" /\ d.plans = plans /\ d.read = c.read
      /\ d.left = c.left
  BY <1>1, <1>2 DEF IsScan, Kin
<1> HIDE DEF d
<1>7. RowsKnown(d, tables)
  BY <1>1, <1>6 DEF ReadOK, RowsKnown, Kin
<1>8. PlansOK(d, tables)
  <2> SUFFICES ASSUME NEW r \in DOMAIN d.plans PROVE PlanOK(d, r, tables)
    BY DEF PlansOK
  <2>1. CASE r = s
    BY <1>3, <1>4, <1>5, <1>6, <2>1 DEF PlanOK, Kin
  <2>2. CASE r # s
    <3>1. r \in DOMAIN c.plans /\ d.plans[r] = c.plans[r]
      BY <1>5, <1>6, <2>2
    <3>2. QED
      BY <1>1, <1>6, <3>1, KinJudged DEF ReadOK, PlansOK
  <2>3. QED
    BY <2>1, <2>2
<1>9. ReadRight(d, tables)
  <2> SUFFICES ASSUME NEW r \in d.read
               PROVE  /\ r[1] \in DOMAIN d.plans /\ r[1] \in d.rows
                      /\ ConsistentAs(d, r[1], tables[d.table][r[1]])
                           => r[2] = WrittenAs(d, tables[d.table][r[1]])
    BY DEF ReadRight
  <2>1. /\ r[1] \in DOMAIN c.plans /\ r[1] \in c.rows
        /\ ConsistentAs(c, r[1], tables[c.table][r[1]])
             => r[2] = WrittenAs(c, tables[c.table][r[1]])
    BY <1>1, <1>6 DEF ReadOK, ReadRight
  <2>2. d.table = c.table /\ d.rows = c.rows /\ d.plans[r[1]] = c.plans[r[1]]
        /\ r[1] \in DOMAIN d.plans
    BY <1>5, <1>6, <2>1 DEF Kin
  <2>3. QED
    BY <1>6, <2>1, <2>2, KinJudged
<1>10. Progress(d)
  BY <1>1, <1>2, <1>5, <1>6 DEF ReadOK, Progress, Kin
<1>11. QED
  BY <1>2, <1>6, <1>7, <1>8, <1>9, <1>10 DEF ReadsTo, ReadOK, d

(* The names of a schema's columns are a sequence. *)
LEMMA ColumnsSeq ==
  ASSUME ClusterTypes, NEW i, NEW s, SchemaKnown(tables, i, s)
  PROVE  tables[i][s] \in Seq(Range(tables[i][s]))
<1>1. tables[i] \in Seq(Columns)
  BY DEF ClusterTypes, SchemaKnown
<1>2. tables[i][s] \in Columns
  BY <1>1 DEF SchemaKnown
<1>3. PICK k \in DOMAIN Schemas : tables[i][s] = Schemas[k]
  BY <1>2 DEF Columns
<1>4. QED
  BY <1>3, SnapshotScanAssumption, SeqOfRange

(* ReadAll moves a row from those that are left to those that were read,   *)
(* or discards them all.                                                   *)
LEMMA RowRead ==
  ASSUME ReadInv, ClusterTypes, NEW t \in Callers, ReadRow(t)
  PROVE  ReadsTo(t)
<1> DEFINE c == scan[t]
<1>1. IsScan(c) /\ ReadOK(c, tables)
  BY DEF ReadInv
<1>2. c.at = "read"
  BY DEF ReadRow, ScanAt
<1>3. PICK s \in c.left \cap DOMAIN c.plans :
        \/ \E row \in Decoded(tables[c.table][s], c.plans[s].decode, c.layout = c.table) :
             ScanMove(t, [c EXCEPT !.left = @ \ {s},
                !.read = @ \cup {<<s, Projected(row, c.plans[s].source, c.names)>>}])
        \/ Return(t, TRUE, [c EXCEPT !.read = {}])
  BY DEF ReadRow
<1>4. CASE Return(t, TRUE, [c EXCEPT !.read = {}])
  <2> DEFINE d == [c EXCEPT !.read = {}]
             e == [d EXCEPT !.at = "return", !.failed = TRUE, !.left = {}]
  <2>1. ScanMove(t, e)
    BY <1>4 DEF Return
  <2> HIDE DEF c
  <2>2. IsScan(d) /\ Kin(d, c) /\ d.plans = c.plans /\ d.read = {}
    BY <1>1 DEF IsScan, Kin
  <2> HIDE DEF d
  <2>3. IsScan(e) /\ Kin(e, d) /\ e.plans = d.plans /\ e.read = {} /\ e.at = "return"
        /\ e.failed = TRUE
    BY <2>2 DEF IsScan, Kin
  <2> HIDE DEF e
  <2>4. Kin(e, c) /\ e.plans = c.plans /\ e.read \subseteq c.read
    BY <2>2, <2>3 DEF Kin
  <2>5. Progress(e)
    BY <2>3 DEF Progress
  <2>6. ReadOK(e, tables)
    BY <1>1, <2>4, <2>5, KinOK
  <2>7. QED
    BY <2>1, <2>3, <2>6 DEF ReadsTo
<1>5. ASSUME NEW row \in Decoded(tables[c.table][s], c.plans[s].decode, c.layout = c.table),
             ScanMove(t, [c EXCEPT !.left = @ \ {s},
                !.read = @ \cup {<<s, Projected(row, c.plans[s].source, c.names)>>}])
      PROVE  ReadsTo(t)
  <2> DEFINE new == <<s, Projected(row, c.plans[s].source, c.names)>>
             d == [c EXCEPT !.left = @ \ {s}, !.read = @ \cup {new}]
  <2>1. ScanMove(t, d)
    BY <1>5
  <2>2. new[1] = s /\ new[2] = Projected(row, c.plans[s].source, c.names)
    OBVIOUS
  <2> HIDE DEF new
  <2>3. s \in c.left /\ s \in DOMAIN c.plans /\ s \in c.rows
    BY <1>1, <1>2, <1>3 DEF ReadOK, Progress
  <2>4. PlanOK(c, s, tables) /\ SchemaKnown(tables, c.table, s)
    BY <1>1, <2>3 DEF ReadOK, PlansOK, RowsKnown
  <2> HIDE DEF c
  <2>5. ASSUME ConsistentAs(c, s, tables[c.table][s])
        PROVE  new[2] = WrittenAs(c, tables[c.table][s])
    <3>1. tables[c.table][s] \in Seq(Range(tables[c.table][s]))
      BY <2>4, ColumnsSeq
    <3>2. row \in Decoded(tables[c.table][s], c.plans[s].decode, c.layout = c.table)
      OBVIOUS
    <3>3. Projected(row, c.plans[s].source, c.names) = WrittenAs(c, tables[c.table][s])
      BY <2>4, <2>5, <3>1, <3>2, RowRight
    <3>4. QED
      BY <2>2, <3>3
  <2>6. IsScan(d) /\ Kin(d, c) /\ d.at = "read" /\ d.plans = c.plans
        /\ d.left = c.left \ {s} /\ d.read = c.read \cup {new}
    BY <1>1, <1>2 DEF IsScan, Kin
  <2> HIDE DEF d
  <2>7. RowsKnown(d, tables) /\ PlansOK(d, tables)
    BY <1>1, <2>6, KinJudged DEF ReadOK, RowsKnown, PlansOK, Kin
  <2>8. ReadRight(d, tables)
    <3> SUFFICES ASSUME NEW r \in d.read
                 PROVE  /\ r[1] \in DOMAIN d.plans /\ r[1] \in d.rows
                        /\ ConsistentAs(d, r[1], tables[d.table][r[1]])
                             => r[2] = WrittenAs(d, tables[d.table][r[1]])
      BY DEF ReadRight
    <3>1. /\ r[1] \in DOMAIN c.plans /\ r[1] \in c.rows
          /\ ConsistentAs(c, r[1], tables[c.table][r[1]])
               => r[2] = WrittenAs(c, tables[c.table][r[1]])
      <4>1. CASE r \in c.read
        BY <1>1, <4>1 DEF ReadOK, ReadRight
      <4>2. CASE r = new
        BY <2>2, <2>3, <2>5, <4>2
      <4>3. QED
        BY <2>6, <4>1, <4>2
    <3>2. d.table = c.table /\ d.rows = c.rows /\ d.plans[r[1]] = c.plans[r[1]]
          /\ r[1] \in DOMAIN d.plans
      BY <2>6, <3>1 DEF Kin
    <3>3. /\ ConsistentAs(d, r[1], tables[c.table][r[1]])
               => ConsistentAs(c, r[1], tables[c.table][r[1]])
          /\ WrittenAs(d, tables[c.table][r[1]]) = WrittenAs(c, tables[c.table][r[1]])
      BY <2>6, <3>2, KinJudged
    <3>4. QED
      BY <3>1, <3>2, <3>3
  <2>9. Progress(d)
    <3>1. d.info = c.info /\ d.rows = c.rows
      BY <2>6 DEF Kin
    <3>2. /\ c.left \subseteq c.rows /\ c.info.schema \in DOMAIN c.plans
          /\ \A r \in c.read : r[1] \notin c.left
          /\ \A x \in c.rows \ c.left : \E r \in c.read : r[1] = x
      BY <1>1, <1>2 DEF ReadOK, Progress
    <3>3. \A r \in d.read : r[1] \notin d.left
      BY <2>2, <2>6, <3>2
    <3>4. \A x \in d.rows \ d.left : \E r \in d.read : r[1] = x
      BY <2>2, <2>6, <3>1, <3>2
    <3>5. QED
      BY <2>6, <3>1, <3>2, <3>3, <3>4 DEF Progress
  <2>10. QED
    BY <2>1, <2>6, <2>7, <2>8, <2>9 DEF ReadsTo, ReadOK
<1>6. QED
  BY <1>3, <1>4, <1>5

(* The scan goes on to read, returns with all rows or none, and runs what  *)
(* is deferred.                                                            *)
LEMMA EndRead ==
  ASSUME ReadInv, NEW t \in Callers,
         \/ OpenSnapshot(t) \/ ReadAll(t) \/ ScanFails(t) \/ Deferred(t) \/ ScanReturns(t)
  PROVE  ReadsTo(t)
<1> DEFINE c == scan[t]
<1>1. IsScan(c) /\ ReadOK(c, tables)
  BY DEF ReadInv
<1>2. ASSUME NEW d, ScanMove(t, d), IsScan(d), Kin(d, c), d.plans = c.plans,
             d.read \subseteq c.read, Progress(d)
      PROVE  ReadsTo(t)
  BY <1>1, <1>2, KinOK DEF ReadsTo
<1>3. CASE OpenSnapshot(t)
  <2> DEFINE d == [c EXCEPT !.at = "read", !.open = TRUE, !.deferred = <<"remove", "close">>]
  <2>1. c.at = "open" /\ ScanMove(t, d)
    BY <1>3 DEF OpenSnapshot, ScanAt
  <2> HIDE DEF c
  <2>2. IsScan(d) /\ Kin(d, c) /\ d.at = "read" /\ d.plans = c.plans /\ d.read = c.read
        /\ d.left = c.left
    BY <1>1 DEF IsScan, Kin
  <2> HIDE DEF d
  <2>3. Progress(d)
    BY <1>1, <2>1, <2>2 DEF ReadOK, Progress, Kin
  <2>4. QED
    BY <1>2, <2>1, <2>2, <2>3
<1>4. CASE ReadAll(t)
  <2> DEFINE d == [c EXCEPT !.at = "return", !.failed = FALSE, !.left = {}]
  <2>1. c.at = "read" /\ c.left = {} /\ ScanMove(t, d)
    BY <1>4 DEF ReadAll, ScanAt, Return
  <2> HIDE DEF c
  <2>2. IsScan(d) /\ Kin(d, c) /\ d.at = "return" /\ d.plans = c.plans /\ d.read = c.read
        /\ d.failed = FALSE
    BY <1>1 DEF IsScan, Kin
  <2> HIDE DEF d
  <2>3. Progress(d)
    BY <1>1, <2>1, <2>2 DEF ReadOK, Progress, Kin
  <2>4. QED
    BY <1>2, <2>1, <2>2, <2>3
<1>5. CASE ScanFails(t)
  <2> DEFINE d == [c EXCEPT !.read = {}]
             e == [d EXCEPT !.at = "return", !.failed = TRUE, !.left = {}]
  <2>1. ScanMove(t, e)
    BY <1>5 DEF ScanFails, Return
  <2> HIDE DEF c
  <2>2. IsScan(d) /\ Kin(d, c) /\ d.plans = c.plans /\ d.read = {}
    BY <1>1 DEF IsScan, Kin
  <2> HIDE DEF d
  <2>3. IsScan(e) /\ Kin(e, d) /\ e.plans = d.plans /\ e.read = {} /\ e.at = "return"
        /\ e.failed = TRUE
    BY <2>2 DEF IsScan, Kin
  <2> HIDE DEF e
  <2>4. Kin(e, c) /\ e.plans = c.plans /\ Progress(e)
    BY <2>2, <2>3 DEF Kin, Progress
  <2>5. QED
    BY <1>2, <2>1, <2>3, <2>4
<1>6. CASE Deferred(t)
  <2> DEFINE rest(x) == [c EXCEPT !.deferred = x]
             d(x) == [rest(x) EXCEPT !.directory = FALSE, !.fetched = 0]
             e(x) == [rest(x) EXCEPT !.open = FALSE]
             last == SubSeq(c.deferred, 1, Len(c.deferred) - 1)
  <2>1. c.at = "return" /\ (ScanMove(t, d(last)) \/ ScanMove(t, e(last)))
    BY <1>6 DEF Deferred, ScanAt
  <2> HIDE DEF c, last
  <2>2. /\ IsScan(d(last)) /\ Kin(d(last), c) /\ d(last).at = c.at
        /\ d(last).plans = c.plans /\ d(last).read = c.read /\ d(last).failed = c.failed
    BY <1>1 DEF IsScan, Kin
  <2>3. /\ IsScan(e(last)) /\ Kin(e(last), c) /\ e(last).at = c.at
        /\ e(last).plans = c.plans /\ e(last).read = c.read /\ e(last).failed = c.failed
    BY <1>1 DEF IsScan, Kin
  <2> HIDE DEF d, e
  <2>4. ASSUME NEW f, Kin(f, c), f.at = c.at, f.read = c.read, f.failed = c.failed
        PROVE  Progress(f)
    BY <1>1, <2>1, <2>4 DEF ReadOK, Progress, Kin
  <2>5. QED
    BY <1>2, <2>1, <2>2, <2>3, <2>4
<1>7. CASE ScanReturns(t)
  <2> DEFINE d == [c EXCEPT !.at = "done", !.storage = NoStorage, !.files = <<>>]
  <2>1. c.at = "return" /\ ScanMove(t, d)
    BY <1>7 DEF ScanReturns, ScanAt
  <2> HIDE DEF c
  <2>2. IsScan(d) /\ Kin(d, c) /\ d.at = "done" /\ d.plans = c.plans /\ d.read = c.read
        /\ d.failed = c.failed
    BY <1>1 DEF IsScan, Kin
  <2> HIDE DEF d
  <2>3. Progress(d)
    BY <1>1, <2>1, <2>2 DEF ReadOK, Progress, Kin
  <2>4. QED
    BY <1>2, <2>1, <2>2, <2>3
<1>8. QED
  BY <1>3, <1>4, <1>5, <1>6, <1>7

(* A new scan has read nothing. *)
LEMMA BeginRead ==
  ASSUME NEW t \in Callers, StartScan(t) PROVE ReadsTo(t)
<1> DEFINE d == [NoScan EXCEPT !.at = "fetcher"]
<1>1. ScanMove(t, d)
  BY DEF StartScan, ScanMove
<1>2. IsScan(d) /\ Early(d) /\ DOMAIN d.plans = {} /\ d.read = {} /\ d.left = d.rows
      /\ d.rows = {}
  BY DEF IsScan, NoScan, NoPlans, Early
<1> HIDE DEF d
<1>3. ReadOK(d, tables)
  BY <1>2, EarlyOK DEF Early, RowsKnown
<1>4. QED
  BY <1>1, <1>2, <1>3 DEF ReadsTo

ScanInv == ClusterTypes /\ ReadInv

(* A scan's steps leave the tables alone. *)
LEMMA ScanStepsStay == ASSUME NEW t, ScanStep(t) PROVE tables' = tables
BY DEF ScanStep, StartScan, Begin, AskScanInfo, Ask, StoreScanInfo, GetTableInfo,
       NewDefaultFetcher, ScanInfo, ScanLayout, LatestSnapshot, SnapshotMetadata,
       MakeDirectory, FetchFile, FetchFails, FetchedAll, DecodePlans, OpenSnapshot,
       LookupPlan, ReadRow, ReadAll, ScanFails, Deferred, ScanReturns, ScanProceeds,
       Proceed, clusterVars

(* ScanInv is inductive. *)
LEMMA ReadKept == ScanInv /\ [ScanNext]_scanVars => ScanInv'
<1> SUFFICES ASSUME ScanInv, [ScanNext]_scanVars PROVE ScanInv'
  OBVIOUS
<1>1. ClusterTypes' /\ TablesGrow
  BY ScanEnvSteps, ClusterKept DEF ScanInv
<1>2. CASE UNCHANGED scan
  <2>1. \A c : ReadOK(c, tables) => ReadOK(c, tables')
    BY <1>1, KnownGrows, ReadGrows DEF ScanInv
  <2>2. ReadInv'
    BY <1>2, <2>1 DEF ScanInv, ReadInv
  <2>3. QED
    BY <1>1, <2>2 DEF ScanInv
<1>3. ASSUME NEW t \in Callers, ScanStep(t) PROVE ScanInv'
  <2>1. AskScanInfo(t) \/ StoreScanInfo(t) => UNCHANGED scan
    BY DEF AskScanInfo, StoreScanInfo
  <2>2. ReadsTo(t) \/ UNCHANGED scan
    BY <1>3, <2>1, BeginRead, EarlyRead, FetchRead, PlansRead, LookupRead, RowRead, EndRead
       DEF ScanStep, ScanInv
  <2>3. tables' = tables
    BY <1>3, ScanStepsStay
  <2>4. ReadsTo(t) => ReadInv'
    BY <2>3 DEF ScanInv, ReadInv, ReadsTo, ScanMove
  <2>5. QED
    BY <1>1, <1>2, <2>2, <2>4 DEF ScanInv
<1>4. QED
  BY <1>2, <1>3 DEF ScanNext, scanVars

(* ScanAsWritten: SnapshotScanRows returns every row of the snapshot with  *)
(* its values under the names asked for, and nothing under names that the  *)
(* row's schema lacks, if what it asked the cluster one by one is of one   *)
(* table, or it returns no rows at all.                                    *)
THEOREM SpecScanAsWritten == ScanSpec => []ScanAsWritten
<1>1. ScanInit => ScanInv
  <2>1. IsScan(NoScan) /\ Early(NoScan) /\ DOMAIN NoScan.plans = {} /\ NoScan.read = {}
        /\ NoScan.left = NoScan.rows /\ NoScan.rows = {}
    BY NoScanIs DEF NoScan, NoPlans, Early
  <2>2. ReadOK(NoScan, tables)
    BY <2>1, EarlyOK DEF Early, RowsKnown
  <2>3. QED
    BY <2>1, <2>2, InitTypes DEF Types, ScanInit, ScanInv, ReadInv
<1>2. ScanInv => ScanAsWritten
  <2> DEFINE c(t) == scan[t]
  <2> SUFFICES ASSUME ScanInv, NEW t \in Callers, c(t).at = "done"
               PROVE  /\ {r[1] : r \in c(t).read} = IF c(t).failed THEN {} ELSE c(t).rows
                      /\ \A r \in c(t).read : Consistent(c(t), r[1]) =>
                                                r[2] = RowAsWritten(c(t), r[1])
    BY DEF ScanAsWritten, ScanAt
  <2>1. ReadOK(c(t), tables)
    BY DEF ScanInv, ReadInv
  <2> HIDE DEF c
  <2>2. {r[1] : r \in c(t).read} = IF c(t).failed THEN {} ELSE c(t).rows
    <3>1. \A r \in c(t).read : r[1] \in c(t).rows
      BY <2>1 DEF ReadOK, ReadRight
    <3>2. IF c(t).failed THEN c(t).read = {}
          ELSE \A s \in c(t).rows : \E r \in c(t).read : r[1] = s
      BY <2>1 DEF ReadOK, Progress
    <3>3. QED
      BY <3>1, <3>2
  <2>3. ASSUME NEW r \in c(t).read, Consistent(c(t), r[1])
        PROVE  r[2] = RowAsWritten(c(t), r[1])
    <3>1. ConsistentAs(c(t), r[1], tables[c(t).table][r[1]])
      BY <2>3 DEF Consistent, ConsistentAs
    <3>2. r[2] = WrittenAs(c(t), tables[c(t).table][r[1]])
      BY <2>1, <3>1 DEF ReadOK, ReadRight
    <3>3. QED
      BY <3>2 DEF WrittenAs, RowAsWritten
  <2>4. QED
    BY <2>2, <2>3
<1>3. QED
  BY <1>1, <1>2, ReadKept, PTL DEF ScanSpec

===============================================================================
