# fluss-go-client in TLA+

TLA+ specifications of the Go client for Fluss, the TLC configurations that
check them and the proofs about them. Every definition is translated from the
code under `src/`; `PROJECT.json` names, for each, the lines it stands for.

## 1. The system

| Component | State | Operations | Interacts with |
|---|---|---|---|
| Buffered writers, `client/writer.go` | buffer and its byte count, closed flag, flush flag, linger timer, condition variable | Write, Flush, Close, CloseWithContext, linger callback | calls AppendLog/UpsertKV without its mutex; shared by goroutines |
| Write call, `client/table.go` | none between calls; per call: attempt, pending buckets, merged results | AppendLog, UpsertKV | looks leaders up in the metadata cache, refreshes it, calls Invoke once per address |
| Transport, `internal/transport/client.go` | pool of connections; per connection: pending calls, negotiated versions, read loop | Invoke, Close, the read loop | one goroutine per connection hands answers to callers over channels |
| Metadata, `client/client.go`, `internal/metadata/cache.go` | coordinator, servers, tables, routes | RefreshMetadata, routeFor | shared by all tasks of a client; refreshes call Invoke |
| KV scanner, `client/scanner.go`, `ScanRows` in `client/row.go` | scanner ID, call sequence number | Next, Close | a session on the tablet server |
| Table calls, `client/table.go`, `client/row.go` | none | Lookup, PrefixLookup, FetchLog, LimitScan, LookupRows, UpsertRow, DeleteRow | the cached table ID and routes, one request per server |
| Admin client, `client/admin.go` | none (the client caches the coordinator; GetTableInfo fills the table cache) | calls to any server, calls to the coordinator | metadata, transport |
| Snapshot scan, `client/row.go`, `internal/snapshot` | a temporary directory, a cache of decode plans | SnapshotScanRows | admin calls, object store, local snapshot |
| Row and Arrow codecs, `internal/codec` | none | encode, decode | used by all reads and writes |
| Descriptors, `internal/metadata` | none | parse the types and properties of a table | the coordinator's answers, row codec |
| Protocol glue, demo | none | constructors, error codes, generated messages | all of the above |

What is hard in this code: the writer's buffer is handed out of the mutex while
a flush is under way and comes back when it fails; CloseWithContext is two
critical sections; blocked Writes depend on broadcasts from five places; timer
callbacks run after their timer was stopped. A write call has four kinds of
failures (a route, a request, a bucket to be retried, a bucket refused) in two
attempts. The transport's read loop shares channels of capacity one with calls
that may have left. Refreshes of the metadata interleave, piece by piece. A
scanner and its session on the server count calls independently of each other.
The table's ID, its routes and the coordinator are cached and go stale one by
one, while a call reads them several times. A snapshot scan makes four kinds of
requests about a table that may be another one by the next, in a directory that
must not outlive it. The two row layouts and the Arrow format have one encoder
and one decoder each for a dozen types, which must agree on every width, sign,
length and precision.
`PROJECT.json` lists each as a hazard at its line, with the properties that
cover it.

## 2. The modules

| Module | Models | Runs |
|---|---|---|
| `WriteQueue` | what a writer promises: batches delivered in the order of acceptance, a closed queue discards from its end | through `BufferedWriter` |
| `BufferedWriter`, `MCBufferedWriter` | AppendWriter and UpsertWriter | `writer_*` |
| `BufferedWriterProofs` | theorems about `BufferedWriter` | proved |
| `WriteRetry` | calls of AppendLog or UpsertKV | through `WritePipeline` |
| `WritePipeline`, `MCWritePipeline` | a writer's flushes over these calls, the routes, the leaders and logs of the buckets | `write_pipeline*` |
| `WritePipelineProofs` | theorems about `WriteRetry` and `WritePipeline` | proved |
| `Transport` | connections and calls at one address | `transport_*` |
| `TransportProofs` | theorems about `Transport` | proved |
| `MetadataCache`, `MCMetadataCache` | lookups and refreshes | `metadata_cache` |
| `MetadataCacheProofs` | theorems about `MetadataCache` | proved |
| `KvScanner` | a scanner, ScanRows and the sessions of the servers | `kv_scan` |
| `KvScannerProofs` | theorems about `KvScanner` | proved |
| `TableCalls`, `MCTableCalls` | table and admin calls over a cache that goes stale | `table_calls` |
| `TableCallsProofs` | theorems about `TableCalls` | proved |
| `SnapshotScan`, `MCSnapshotScan` | a snapshot scan, beside the admin calls of `TableCalls` | `snapshot_scan` |
| `SnapshotScanProofs` | theorems about `SnapshotScan` | proved |
| `FieldCodec` | integers, fields that are not collections, keys, and rows as the bytes of their fields | through `TableRows` |
| `RowCodec` | schemas, collections, encoding and decoding of rows of them | through `TableRows` |
| `LogBatches` | batches and records of a log | through `TableRows` |
| `ArrowTimestamps` | timestamps in the Arrow format | through `TableRows` |
| `ArrowLog` | encoding and decoding of log batches in the Arrow format | through `TableRows` |
| `CodecProofs` | theorems about `FieldCodec`, `LogBatches` and `ArrowTimestamps` | proved |
| `SchemaDescriptor` | parsing of the types that the coordinator describes | through `TableRows` |
| `TableRows`, `MCTableRows` | rows written to a table or log, and read | `table_rows`, `decimals` |

Definitions named "Faulty variant" in a comment are not part of any
specification: each is a way the code could be wrong, and a property is only
kept if putting a variant in the place of the real definition makes TLC find
the property violated.

### BufferedWriter

Each critical section of the writer's mutex is one action, and what happens
outside it is a program counter: a caller is in `write` (about to run the loop
of Write), `waiting` and `woken` (in and after `cond.Wait`), `direct` (in the
write function of an unbuffered writer), `flush` (about to run beginFlush),
`sending` (in the write function of a flush) or `close` (CloseWithContext after
its flush). `helper` is the goroutine that waitOnAppendCond starts to turn the
end of a context into a broadcast. `timer` and `callbacks` split a linger timer
into "set" and "fired, callback not yet run": `Timer.Stop` has no effect on the
second. A callback makes its context when it runs, so a late one flushes like any
other; one that finds the writer closed or a flush under way does nothing
(`CallbackRefused`). `inflight` is Flush's local variable, what beginFlush took.
The history variables `accepted`, `delivered`, `dropped` and `failed` are not in
the code.

Options (`MaxBufferedBatches`, `MaxBufferedBytes`, `Linger`,
`BlockOnBufferFull`, `FlushOnClose`) are chosen in `Init`, so that one run
covers several kinds of writers. The write function succeeds or fails as a
whole: a partial failure puts back the same batches as a failure does
(writer.go:86-89), and what it stored before failing belongs to `WriteRetry`.

The two writers are the same statements on two types, so `BufferedWriter`
stands for both; the map gives AppendWriter's lines for the actions and
UpsertWriter's for the disjunctions of actions (`WriteStep`, `FlushStep`,
`EndOfFlush`, `Callback`).

`BytesCounted` relates the byte count, which Write, a flush and its failure
adjust, to the buffer it is meant to measure: one that runs ahead would hold up
or refuse Writes that fit.

`WriteQueue` is the abstract specification: a sequence of batches that is
appended to, whose front is delivered, and of which closing discards the rest.
`ImplementsQueue` states that the writer implements it under the refinement
mapping `queue <- inflight \o pending`: a flush that takes the buffer, fails
and puts it back is a stutter.

### WriteRetry

Calls, from their arguments to their return, one after the other. `step` is
where a call is: grouping (`route`), one request per address in any order
(`send`, the code ranges over a Go map), the decision after an attempt
(`decide`), and returned. The metadata is the environment: a lookup yields any
address or none. So are the servers: a request is answered batch by batch (`ok`,
`leaderless` for ErrLeaderNotAvailable, `refused` for any other error, stored or
not), or fails as a whole, with or without its effect. Abandoning an attempt
discards the answers of its other requests, as `appendLogOnce` does by returning
nil. A refresh of the metadata that fails is the choice between the two actions
enabled at a decision (`RetryAll` or `ReturnError`, `RetryLeaderless` or
`ReturnTerminal`).

A call may hold several batches of one bucket, as a writer makes them. The code
keys failures and results by bucket: the batches of a bucket are retried
together, and of their answers one stays in the merged results.

### WritePipeline

`WriteRetry` with its environment made definite: a writer's buffer and its
flushes, the cached routes, the leaders of the buckets, and each bucket's log.
The writer is reduced to what `BufferedWriter` shows of it: one flush at a time,
whose batches come back in front of the buffer if it fails. `Restore` and
`EndFlush` are the only links from a call's result to the buffer.

What it assumes of the servers: a request is served when it is sent or not at
all; only a bucket's leader stores its batches; whoever is not the leader answers
ErrLeaderNotAvailable; a bucket without a leader fails a refresh, and does not
stay so. Histories: `hidden` holds the batches that a flush dropped although
their last answer was that they have no leader, in a flush that was `disturbed`
by a failure, an election or a missing leader; `torn` the buckets whose batches
one attempt sent to two addresses, because their route changed while it looked
them up.

`NothingElseLost` makes the loss that `ReportedIsStored` finds precise: nothing
is lost in a flush that met only routes that were stale when it began. With the
second attempt's refresh every one of them is repaired. `LastWriteWins` says
that resending never leaves an older value as a bucket's last. `CopiesNeedFailures`
bounds duplicates by failures and, where a bucket's batches share its key,
elections.

### Transport

Calls and connections of one address. A call goes through getConn (`start`,
`dial` after the first look at the pool found nothing, `handshake` with the
mutex held), then `store`, `write` and `wait`. `mu` is the call that holds the
mutex through its handshake; the other sections under the mutex are single
actions that need it free. A read loop is `reading`, `failing` (in failAll) or
`done` (`connection.closed` is closed). failAll is modelled entry by entry:
it picks an entry of the map (`VisitEntry`), blocks on that call's channel
until it is empty (`FailEntry`), and may or may not see entries stored while it
ranges. The select of a waiting call takes any branch that is ready. A request
ID is the call itself, as `Client.requests` counts; the requests of the
handshake are one step, made on a connection nobody else knows. Each call is
made once. `OnlyStuckLoopsHoldCalls` says what holds a call on a lost connection,
if anything: a read loop that is `Stuck` in its send to a call that has left. A
frame that cannot be decoded ends the read loop like a lost connection, but leaves the socket open and in the pool.

### MetadataCache

Tasks that share the cache. A task looks its bucket's leader up in two steps
(`ReadRoute`, `ReadServer`, each a locked section of the cache). On a miss it
refreshes once and looks it up again, also when it began with a refresh as the
retry of a write does (`missed` holds the tasks that have refreshed for a miss).
A refresh is a request, an answer and stores one by one: the coordinator, which
SetCoordinator lists with the servers (`StoreCoordinator`), the servers, then, if every bucket
of the table has a leader, the routes; otherwise it fails with the servers
stored. The cluster elects leaders, or leaves a bucket without, at any time, and
answers with its state at the time of the answer and any list of servers. Each
route remembers, as history, whether its leader was among the servers that came
with it.

Refreshes that overlap may store in the order opposite to their answers, and the
older one wins: nothing in the code prevents it. So `RefreshSticks` is what a
refresh guarantees if no other overlapped it, and `RerouteReachesLeader` is what
is left if others did: a task that refreshed finds a leader the bucket had no
earlier than when its own refresh, or the first of those that were under way as
it began, was asked for (the histories `asked` and `since`).

A partition's bucket is a bucket with another key. To which address a refresh
is sent, and the cached TableInfo, are in `TableCalls`.

### TableCalls

The calls of `TableClient` and `AdminClient` against what the client caches of
the cluster: coordinator, table ID and schema, routes. There is one path, under
which a table is altered, dropped and created anew; a bucket's leader, and the
coordinator, may change. A table call goes through `encode` (row calls only,
`kvEncoding`), `info` (ensureTableInfo), `route` (routeFor, bucket by bucket),
`send` (one request per server) and, for an upsert, `decide` (the second
attempt, whose decision table is `WriteRetry`'s). An admin call acquires the
coordinator, if none is known by a refresh, and asks it, or the endpoint if the
refresh named none.

What is to be cached is asked for (`Ask`), answered with what is true then
(`Receive`) and stored later (`GetTableInfo`, `RefreshMetadata`): `request` says
where that stands for each goroutine. In between the coordinator may be gone, the
table be another one and others may have stored newer answers; the code stores
what it got all the same (client.go:62-109, admin.go:216). The storing itself is
one step, since `MetadataCache` has its pieces; it stops at a bucket without a
leader all the same. A request whose answer is not cached is one step with its
answer. `Fillers` are the other goroutines of the client that ask for what is
cached, by `TableClient.Info` or `RefreshMetadata`, with a partition or without.

What it assumes of the servers: the coordinator and the endpoint (`Seed`) answer
metadata, only the coordinator in office changes tables, a coordinator that was
replaced does not come back, a server serves the buckets it leads of the table
that exists, and routes of a partition are sent only when it is named.

`disturbed` holds the tasks whose call has a reason to fail: a request that was
lost or refused, or something stale or missing that it rests on (`Sound`).
`CallsAccountedFor` says that there is no other. It is thereby the list of what
the client does not repair by itself: a stale route, a stale table ID, a
partition's route that nobody asked for, a coordinator that is gone.
`RowsKeepTheirTable` relates the two or three reads of the cached table that a
row call makes. `replaced` holds the row calls during which another table was
cached by somebody else or by the call's own retry.

Admin calls are told apart by what they do to tables and to the cache; most do
nothing to either. Access control, whose answers carry an error per item,
configurations, tags and the rebalancing of servers are left out.

### SnapshotScan

`SnapshotScanRows` beside the admin calls and refreshes of `TableCalls`: two
looks at the cached info (`info`, `layout`), the snapshot by the table's path
(`snapshots`), its files by the table's ID (`metadata`), the files one by one
into a directory (`fetch`, `files`), the decode plans, the database and its
rows, with a schema asked for by the table's path whenever a row carries an ID
that has no plan. A look that finds no cached info waits for a request, its
answer and its storing, as in `TableCalls` (`AskScanInfo`, `StoreScanInfo`).
`deferred` is Go's stack of deferred calls. What the caller chooses (schema, columns) is chosen where it is first read, and the S3 store's
configuration when the scan starts, since nothing relates two scans of one
client. A row stands for the names of its columns, so that `ScanAsWritten` can
say that every value comes back under its own name.

`Consistent` is what it takes: info, layout, snapshot and the row's schema are
of one table. The code does not compare them, so the tables may be mixed if the
path's table is replaced during the scan. Also, rows of the schema that is
cached are decoded as of the caller's schema, which must have the same columns.

### KvScanner

One scanner of one bucket. In `Init` it is in the hands of ScanRows, or of a
caller who may call Next and Close at any time, also after an error (`direct`).
A call of Next or Close is one action, since nothing of the scanner changes
while it is under way; it is answered, fails before it is sent, or is given up,
in which case the server may serve it at once, later (`late`), or never.

The servers are not in this repository. The model assumes what the client's
`call_seq_id` implies: a server counts the calls of a session, answers the one
it expects and refuses others; any call may be refused; a Close of a session
the server has is answered. Sessions expire, and the bucket moves to another
leader, which does not have the session. A page holds any number of rows, also
none, and the last page says that it is the last.

### FieldCodec, RowCodec, LogBatches, ArrowTimestamps, ArrowLog, SchemaDescriptor, TableRows

`FieldCodec` translates the encoders and decoders as operators on sequences of
bytes. A byte has `Bits` bits and the integers have `W32` and `W64` bytes, so
that TLC meets every sign, every carry of a variable-length integer and every
boundary of the null flags at small values; the code is the case 8, 4, 8. Types
that the code encodes alike are one kind (strings and bytes; booleans, int8,
int16 and floats; int32, dates and times; the two kinds of timestamps; an array
is encoded as a collection of items, a map as one of alternating keys and
values). A decoder returns `Failed` where the code returns an error, and so does
an encoder given a schema that is not valid (`ValidSchema`) or a value of a Go
type that the field does not take (`Misfit`, `Accepted`). Integers of wider Go
types are cut (`Narrowed`), in keys as in rows; in the Arrow format they are
refused, like decimals of too many digits (`AcceptedByArrow`).

A row is translated in two halves. `JoinRow` and `SplitRow` put null flags, the
table of lengths and the fields' bytes together and find them again;
`EncodeField` and `DecodeFieldValue` say what is in a field's bytes. `RowCodec`
adds to them the collections, whose items may be collections again, and rows in
rows: `EncodeRow` and `DecodeRow` are the code's, and recursive. `LogBatches` is
independent of what a row is: `SplitLogBatches` finds the bytes of each row, and
`TableRows` decodes them. Where the code decodes as it goes, an error ends either
with nothing, so the order makes no difference.

`ArrowLog` translates `internal/codec/arrow`. The Arrow library is external: a
record batch is its cells, column by column, and a cell stands for its bytes.
What the repository adds is kept: timestamps become ticks of the unit their
precision has (`TimestampValueForField`; `Thousand` stands for 1000) and come
back as milliseconds and nanoseconds (`TimestampParts`), collections have a
column but only null can be put in it, a batch may carry a change type for each
record, and a projected batch keeps the checksum of the whole, for which reason
it is not checked. `DataTypeFromFieldType` is what other readers are told the
columns are; `ReadElsewhere` is such a reader.

`SchemaDescriptor` translates the parser of types: JSON objects or texts, as
sequences of tokens, into the types of `RowCodec`. `Described` is the other
direction, the coordinator's, and external.

`TableRows` sends rows through all of them: into log batches of either format,
one for each call or several rows in one, or as puts and deletes under the bytes
of their key, which a server keeps (`Kept`, `ValueBatch` are external); and back
in a batch, perhaps projected or cut short, by a lookup, from a snapshot as of
the types that the coordinator describes, or by another reader of an Arrow log.
The key's columns are found by their names and the layout by the table's
property, which a table need not have (`Indexed`). Rows that an encoder refuses
are not written, in the Arrow format with the other rows of their call.
Of the headers only the length, the magic byte, the checksum and the count are
left.

## 3. What is checked

Passing runs:

| Run | Bounds | Shows |
|---|---|---|
| `writer_safety` | 2 callers, 4 batches accepted, 2 failed flushes in a row, 2 late callbacks; four kinds of writers; Writes of one or two batches | the byte count is the buffer's (`BytesCounted`); nothing accepted is lost, duplicated or reordered (`Conservation`, `ImplementsQueue`); flushes exclude each other (`SingleFlush`) and nothing overtakes or escapes one (`FlushIsBarrier`); the backlog's limit (`BacklogBound`); no lost wake-up (`NoLostWakeup`); a closed writer starts no flush (`NoFlushAfterClose`) |
| `writer_linger` | 2 callers, 3 batches, 1 failed flush in a row, 2 late callbacks; a lingering and a blocking writer; Writes of one batch and of three, which never fit | a linger flush delivers without further calls (`LingerDelivers`); blocked Writes return, the ones that never fit too (`CancelledWriteReturns`, `CloseReleasesWriters`) |
| `write_pipeline` | 3 batches for 2 buckets, 2 servers, both attempts, 2 elections, 1 failure | results tell what is stored (`StoredAsReported`, `RefusalsReported`), acknowledged buckets are left alone (`AcknowledgedOnce`), what is lost (`NothingElseLost`) and duplicated (`CopiesNeedFailures`) and why, the last write wins (`LastWriteWins`), and what is accepted is stored in the end (`AcceptedIsStored`) |
| `transport_calls` | 2 calls, whose contexts may end, 2 connections | no connection is lost sight of (`NoLeakedConnection`) or used before its handshake (`HandshakeBeforeUse`), no entry stays (`NoStaleEntries`), no answer goes astray (`NoLostAnswer`), and only a stuck read loop holds a call on a lost connection (`OnlyStuckLoopsHoldCalls`) |
| `metadata_cache` | 2 tasks, 1 bucket, 2 servers, 1 election after any start | no route before its server (`ServersBeforeRoutes`); a refresh that met no other sticks (`RefreshSticks`); where refreshes overlap, how old a leader a task may be sent to (`RerouteReachesLeader`) |
| `kv_scan` | 2 servers, 2 rows, 2 sessions, 6 answered calls, 1 late request | rows come in order, none twice, none left out unless Next is repeated after an error (`RowsInOrder`); ScanRows returns all rows or an error (`ScanComplete`), closes its session (`NoSessionLeft`) and returns (`ScanRowsReturns`) |
| `table_calls` | 1 caller, 1 admin, 1 filler, 2 buckets, one of a partition, 2 servers, 2 coordinators, 1 change besides drops and elections after a loss | calls fail only for a reason and reads are whole (`CallsAccountedFor`); a row meets the layout of its own table (`RowsKeepTheirTable`); the type invariant, with each bucket of a call in one place (`TypeOK`) |
| `snapshot_scan` | 1 caller, 1 admin, 1 filler, 1 change besides drops, 2 files, 3 configurations of the store, 2 kinds of paths | every row comes back under the names of its columns (`ScanAsWritten`); no directory or database is left (`NoDirectoryLeft`) |
| `table_rows` | bytes of 2 bits; 8 schemas of 3 fields, all kinds of types, nulls, one schema that is not valid, one with values that do not fit; 1 row, or 2 changes to the same or to different keys; 4 formats | rows come back as written (`RowsSurvive`), keys do not collide (`KeysDistinct`), a payload cut short yields no part of a batch (`CutRefused`) |

Runs that find a violation:

| Run | What it shows |
|---|---|
| `write_pipeline_lost` | if all failures that remain are ErrLeaderNotAvailable, after the retry or a failed refresh, the call returns nil, Flush reports success and the batches are stored nowhere; `NothingElseLost` is what holds instead |
| `transport_stuck` | a call leaves by its context with the answer in its channel, failAll blocks on that channel, and another call on the lost connection waits for ever; `OnlyStuckLoopsHoldCalls`, which passes, says that this is the only way |
| `decimals` | decimals do not come back as written (`DecimalsSurvive`): compacted, those of up to 18 digits are written with a fixed width and read as varints, as the trace shows; in every layout, longer ones lose their sign (row.go:1035). `RowsSurvive` says what holds instead: it leaves out compacted short decimals, and timestamps and collections, which fail alike (`Compactable`), and with `KeysDistinct` the negative long ones (`LosesSign`) |

One more deviation is built into properties that pass. A batch accepted during
CloseWithContext's flush, or between it and the close (writer.go:126), is
discarded, and both calls return nil: `FlushIsBarrier` covers what was accepted
before CloseWithContext, `Conservation` counts the rest as dropped.

Why the bounds are enough. Two callers and the timer make every pair of Write,
Flush, Close and callback overlap, and a third caller adds no new pair; four
batches fill every buffer and leave some to arrive during a flush; two failures
in a row let restored batches be restored again. In `WritePipeline` two batches
share a bucket beside one that does not, so that there are partial failures,
batches retried because of their neighbour, and one left in the buffer while two
are in flight; two elections move a bucket away and back, or leave it without a
leader, in the first attempt and before the second. In `Transport` two
connections let a call race to dial again after a Close while calls of the first
still wait, and one call can leave while the other waits for what the read
loop does to both. In `MetadataCache` an answer is from before or after the one
election, which is what tells an older from a newer, and the first leader may be
missing; two tasks are two refreshes that overlap, one after the other, or one
that stores while the other looks up, over as many refreshes as they like. In
`KvScanner` two rows come in one page, in two, or with empty pages around them,
a second session can be opened after an opening answer was lost, and six calls
let a caller repeat one, have it refused and go on. In `TableCalls` a change is a leader or a coordinator
that is lost, a schema added or a table created; a table that is dropped, and
leaders and coordinators that come back, are not counted. So one change is
enough for each thing a call rests on to go stale in each of its steps and for
the table to be another one; that it goes stale twice, or two things do, is left
to the theorems. Two buckets are what a call's answers are put together of, and
refreshes and GetTableInfo by others come at any step, with answers as old as
they may be, so a second caller would only repeat them. The same holds of
`SnapshotScan`, which shares nothing between scans but the cache: a schema added
or a table replaced between any two of its requests is what can be mixed, and
with two files one can fail after another was fetched. In `TableRows` two bits
make a byte's null flags cover two fields of three, an integer of `W64` bytes
takes up to ten bytes as a varint, as in the code, and four in the place of a
thousand keeps every precision's ticks apart at both signs.
`AcceptBound`, `FailureBound`, `CallbackBound`, `ElectionBound`,
`ConnectionBound`, `SessionBound`, `CallBound`, `LateBound`, `ChangeBound` and
`FileBound` are the only bounds, all named in guards, besides the sets of inputs
in the MC modules. `MaxAttempts` is the code's constant.

Fairness. `BufferedWriter` assumes that goroutines which can run do run, that
timers fire and that write functions return (they run under a context with a
timeout, or the caller's); no caller has to call, cancel or close. A failing
server is bounded by `FailureBound` failures in a row, which is the assumption
that it eventually answers. Callbacks may run late in both runs: a callback makes
its context itself, so it flushes whenever it runs. `WritePipeline` assumes that
the writer flushes while it has batches (`BeginFlush`, as a lingering one does), that calls
go on and return (`CallStep`, `EndFlush`), and that a bucket gets a leader in the
end (`Recover`); elections and failures are bounded, as is any period of trouble
after which the promise is to hold. `Transport` assumes fairness of its own
goroutines and that the loss of a connection is noticed; nothing of the server,
which need not answer. `KvScanner` assumes only that ScanRows goes on while it
can: each of its calls returns, as requests under a context do; servers need not
answer. `TableCalls` and `SnapshotScan` state no liveness: each call is a
sequence of requests without a wait or a loop other than the two attempts.

The runs of `WritePipeline`, `Transport`, `KvScanner` and `TableRows` do not check
for deadlock: batches, calls, scans and rows end, and so may the system.

## 4. What is proved

TLAPS checks these theorems for all values of the constants that satisfy the
modules' assumptions, any number of callers, calls, tasks, buckets, nodes, rows
and sessions, and any width of bytes and integers:

| Theorem | States |
|---|---|
| `BufferedWriterProofs!Typing` | `Spec => []TypeOK` |
| `BufferedWriterProofs!SpecConserves` | `Spec => []Conservation` |
| `BufferedWriterProofs!SpecSingleFlush` | `Spec => []SingleFlush` |
| `BufferedWriterProofs!SpecNoFlushAfterClose` | `Spec => NoFlushAfterClose` |
| `BufferedWriterProofs!SpecFlushIsBarrier` | `Spec => []FlushIsBarrier` |
| `BufferedWriterProofs!SpecBacklogBound` | `Spec => []BacklogBound` |
| `BufferedWriterProofs!SpecNoLostWakeup` | `Spec => []NoLostWakeup` |
| `BufferedWriterProofs!SpecImplementsQueue` | `Spec => ImplementsQueue` |
| `WritePipelineProofs!SpecRetryTypeOK` | `Spec => []TypeOK` (of `WriteRetry`) |
| `WritePipelineProofs!SpecStoredAsReported` | `Spec => []StoredAsReported` |
| `WritePipelineProofs!SpecRefusalsReported` | `Spec => []RefusalsReported` |
| `WritePipelineProofs!SpecAcknowledgedOnce` | `Spec => AcknowledgedOnce` |
| `WritePipelineProofs!SpecNothingElseLost` | `Spec => []NothingElseLost` |
| `WritePipelineProofs!SpecCopiesNeedFailures` | `Spec => []CopiesNeedFailures` |
| `WritePipelineProofs!SpecLastWriteWins` | `Spec => []LastWriteWins` |
| `TransportProofs!Typing` | `Spec => []TypeOK` |
| `TransportProofs!SpecNoLeakedConnection` | `Spec => []NoLeakedConnection` |
| `TransportProofs!SpecHandshakeBeforeUse` | `Spec => []HandshakeBeforeUse` |
| `TransportProofs!SpecNoStaleEntries` | `Spec => []NoStaleEntries` |
| `TransportProofs!SpecNoLostAnswer` | `Spec => []NoLostAnswer` |
| `MetadataCacheProofs!Typing` | `Spec => []TypeOK` |
| `MetadataCacheProofs!SpecServersBeforeRoutes` | `Spec => []ServersBeforeRoutes` |
| `MetadataCacheProofs!SpecRefreshSticks` | `Spec => []RefreshSticks` |
| `MetadataCacheProofs!SpecRerouteReachesLeader` | `Spec => []RerouteReachesLeader` |
| `KvScannerProofs!Typing` | `Spec => []TypeOK` |
| `KvScannerProofs!SpecRowsInOrder` | `Spec => []RowsInOrder` |
| `KvScannerProofs!SpecScanComplete` | `Spec => []ScanComplete` |
| `KvScannerProofs!SpecNoSessionLeft` | `Spec => []NoSessionLeft` |
| `TableCallsProofs!SpecTableTypeOK` | `Spec => []TypeOK` |
| `TableCallsProofs!SpecRowsKeepTheirTable` | `Spec => []RowsKeepTheirTable` |
| `TableCallsProofs!SpecCallsAccountedFor` | `Spec => []CallsAccountedFor` |
| `SnapshotScanProofs!SpecNoDirectoryLeft` | `ScanSpec => []NoDirectoryLeft` |
| `SnapshotScanProofs!SpecScanAsWritten` | `ScanSpec => []ScanAsWritten` |
| `CodecProofs!KeysApart` | two keys have the same bytes exactly if they tell the same, column by column |
| `CodecProofs!RowsSplit` | a row is taken apart into the parts it was put together of |
| `CodecProofs!FlatRowsSurvive` | the fields of a row are decoded as they were encoded, but for collections, compacted short decimals and timestamps, and the sign of long decimals |
| `CodecProofs!LogsSurvive` | a log is decoded as the batches, and the rows in each, that were encoded |
| `CodecProofs!CutLogs` | a log that was cut off is refused, or decoded as its first batches |
| `CodecProofs!TimestampsSurvive` | a timestamp is read from an Arrow column as the start of its tick |

The argument for the writer. `Conservation` is not inductive: a flush that
ends appends `inflight` to `delivered`, which is right only if no other
goroutine holds a flush (`SingleFlush`), and `inflight` is empty when none does
(`FlightOwned`); an unbuffered Write appends to `delivered` behind whatever is
buffered, which is right only because an unbuffered writer buffers nothing
(`ImmediateUnbuffered`). `WriterInv` is their conjunction with `TypeOK`.
`StepKinds` sorts the actions by what they do to the flush: leave it alone,
take the buffer, or end a flush; the lemmas then treat kinds rather than
twenty actions.

`FlushIsBarrier` needs that a caller's mark was accepted (`BarrierInv`) and
that nothing of `accepted` and `delivered` is ever taken back
(`HistoryGrows`): by `Conservation` beginFlush then takes exactly what is
missing. `BacklogBound` and `NoLostWakeup` are inductive beside `WriterInv`.
`ImplementsQueue` follows kind by kind (`QueueStep`): a flush that succeeds
delivers, Close discards, a Write appends, and everything else is a stutter, a
flush that begins or fails among it.

The argument for the write call. To `WriteRetry` every step of the pipeline is
one of its own or a stutter (`RetrySteps`), so its invariant is shown once, for
these. Within an attempt a pending batch is in one place: without a route, in
the request to one server, or answered (`AttemptInv`). Between attempts, what is
not pending any more was stored and has a result (`ResultInv`), and a batch was
stored at most once per attempt, not at all before its request unless an attempt
was thrown away (`StoreInv`). These make `StoredAsReported` and
`RefusalsReported` inductive. A bucket with several batches is where care is
needed: `MergedResult` says only that the bucket's result is one of its answers.

The argument for the pipeline. In a flush that nothing disturbed every bucket
has kept its leader and no request failed, so at the second attempt every route
is that of the leader and no answer is `leaderless` (`Disturbances`). What a
call stored is in the logs, which only grow (`LogInv`). A batch that leaves the
call is then stored, put back, or among the hidden ones. `InOrder` is a
recursive function; what it holds is shown by descent on its argument
(`LeastNumber`).

`CopiesNeedFailures` is proved by an account. `Need(x)` is how many copies of x
the call under way, and the next one if this one will return an error, may still
store if nothing more fails; `Owed(x)` is one more while x shares its bucket and
the cached route is stale, since a refresh in the middle of an attempt then sends
the bucket's batches to two servers. The copies in the log, `Need` and `Owed`
together are at most one more than what failures and elections have paid for
(`CopiesInv`), because no step adds more than it pays (`Spends`). The delicate
step is an answer at the first attempt (`AnswerSpends`): a batch that is
acknowledged is sent again if one of its bucket's other batches finds no leader,
and that takes two answers for one bucket, from two servers (`Split`). That a
request stores a batch once rests on the flight having it once, which follows
from its order (`AcceptedInOrder`).

`LastWriteWins` compares last copies; the proof speaks of a copy of the later
batch that is behind all copies of the earlier one (`Behind`). What was reported was accepted
before what is in flight, and that before what is buffered (`AcceptedInOrder`),
since `Restore` puts a failed flush back in front; so a call appends in the order
of acceptance, and nothing that was reported before. Within the call the batches
of a bucket stay together: whole buckets are tried again (`WholeBuckets`), and
unless the bucket is torn they share a request and are answered by it at once
(`Together`). An answer that stores them all settles the bucket's order
(`Settled`), whatever a failed request left behind it, and it stays settled until
the call returns, because nothing more of the bucket is sent (`SettledInv`).

The argument for the transport. Two halves of the state hardly meet. The pool:
the handshake is made by the call that holds the mutex while the pool is empty
(`OneHandshake`), so a connection that is open is in one of the two places
`NoLeakedConnection` names; every step outside getConn and Close leaves this
half alone (`AwayFromPool`). The calls: a call with an empty channel still has
its entry (`EntryKept`), and on an open connection the server still owes it an
answer (`AnswerOwed`). The second holds during failAll as well, which is what
makes `NoLostAnswer` survive the read loop's return from it. A new connection
is nobody's yet, because connections are numbered as dialed (`DialedInOrder`).

The argument for the metadata. `ServersBeforeRoutes` needs the same of the
answers that are being stored (`NamedStored`). `RefreshSticks` says of a
refresh that is over what its last step must find true of the routes stored so
far (`StoredSoFar`), and of the refreshes that follow that their answers are as
recent (`LaterAnswers`): two that are under way together have both overlapped
(`OverlapSeen`), so one that is still storing began after a lone one had ended,
and was answered by a cluster whose epochs only grow. `RerouteReachesLeader`
adds that whatever is answered, cached or found was the cluster's leader at its
epoch (`FromCluster`), and, for refreshes that overlap, `SinceInv`: nothing is
answered before it was asked for (`AskedBefore`); whatever is under way at the
end of a task's refresh, or is asked for after it, was asked for no earlier than
one of the moments in `since`, and so were the routes it stored (`AskedSince`),
whoever stores others in their place; so is the route the task then reads
(`ReadSince`).

The argument for the scanner. What a server makes of a request is one of four
things (`OutcomeKinds`), and none takes a session back (`Grown`). The session
is never behind the rows that were returned (`RowsBehind`), so whatever page
comes next is above them; as long as no call of Next has failed it is exactly
at the last of them and no request that could move it is under way (`InStep`),
so the page leaves no row out. ScanRows goes on only while no call has failed
(`ErrorsEnd`), which makes `ScanComplete` follow. `NoSessionLeft` needs that
the server has no session but the one the scanner names, and has no late
request that would open one (`OnlySession`), and that the session is where
Close goes (`AtLeader`).

The argument for the calls. A step moves the call of one task (`CallMove`), is
one of a goroutine's request (`RequestMove`), which leaves all calls alone, or
is the cluster's (`ClusterMove`), which leaves requests alone too. To the cluster
and the cache it is one of five kinds (`EnvStep`). That what is stored may be old
is harmless to the types, since an answer is of a table and a coordinator that
there were (`Known`, `Past`) and neither is taken back (`TablesGrow`). An
invariant of calls is shown for the task that moves and for one that stays
while the cache changes under it. `RowKept`: while no other table was cached,
what kvEncoding read and the ID in the requests are of the cached table.
`CallsAccountedFor` needs more than that an undisturbed call is `Sound`: its
groups are those of the cached routes (`Led`), it has no failed attempt behind
it (`Held`), and the answer it waits to use is one it can use (`Met`, `Enough`).
Most of the work is that no step of others takes this away without marking the
call as disturbed (`OtherMet`, `RequestMet`), also when it stores an answer from
before, and that the step the call takes next succeeds or loses its own request
(`Goes`).

The argument for the snapshot scan rests on the kinds of steps of the calls.
`DirectoryInv` says at each step of a scan what is on the disk, what is open and
what is deferred. `ReadInv` says that the rows of the snapshot are left or read
(`Progress`), as of which schema each plan decodes (`PlanOK`), and that a row
that was read is right if the scan is consistent (`ReadRight`); it survives
changes of the tables, and schemas being asked for long after the info they are
compared with, because a schema that is known (`SchemaKnown`) stays what it is
(`KnownGrows`). `RowRight` is where decoding and projection meet.

The argument for the codecs. Everything is about what stands where:
`At(w, off, c)` says that `w` has the bytes `c` at `off`, whatever is around
them, and every decoder is shown to read what its encoder wrote wherever it
stands (`ReadUvarintAt`, `FieldCarried`, `RecordRead`, `BatchRead`). Under it lie
facts about digits: a number is its digits in a base (`NumberOfDigits`,
`DigitsOfNumber`), two's complement gives back what the width keeps (`WrapIs`),
and a variable-length integer ends at its first small byte (`UvarintBytes`).
`FlattenIs` gives the places of what was concatenated.

`KeysApart` has no decoder to rest on, since the client decodes no key. It goes
column by column: two values whose bytes stand at the same place tell the same
(`KeyValueApart`), so have the same bytes (`KeyValueTold`), so the next columns
stand at the same place as well. `Told` is what a key tells: not the sign of a
decimal of more than 18 digits, not the nanoseconds of a timestamp of at most
three digits, and of an integer what its field holds.

`RowsSplit` asks of the parts what `Fits` says: in the indexed layout the width
of the type or a length that 32 bits hold, in the compacted one that a part's
bytes tell its own length. `FlatRowsSurvive` shows that what is encoded of values
is of this kind, and that what comes back is `Preserved`, the value but for what
`Told` lacks too. Its assumptions name what it leaves out: in the compacted
layout short decimals, which the run `decimals` shows not to survive, and
timestamps (`Compactable`), and in either layout collections; and `Told` is silent on
the sign of a long decimal.

`CutLogs` fixes the boundaries of the batches (`Boundaries`) and takes the last
that is not after the cut. The batches up to there are read as if nothing were
cut, and what is left, if anything, is less than a batch, which `DecodeLogBatch`
refuses by its length. That makes the answer `Failed` unless the cut is at a
boundary (`CutRead`). The lengths are assumed to fit into 32 bits (`Batches`), as
the code's header has them.

`TimestampsSurvive` holds for instants whose ticks, and milliseconds when a tick
is a second, are integers of 64 bits (the others are what `Overflows` excludes in
`TableRows`). The ticks are counted downwards by `time.Unix` and taken apart by
Go's division, which rounds towards zero; that the parts add up to the ticks all
the same is the point.

A function that the model defines step by step is, to the prover, a choice of one
that satisfies its equation; that there is one is shown once (`Recursion`), and
what holds of its values by their least exception (`LeastNumber`).

The theorems `Typing` of `BufferedWriter`, `Transport`, `MetadataCache` and
`KvScanner` state type correctness, which no run repeats. The constants are
arbitrary but for the modules' assumptions: bounds are natural numbers, what is meant to be a sequence
is one, `None` is no server, the coordinators are not the endpoint, and there
are more schemas than changes that would need one.

Only model-checked: the properties of `TableRows` (`RowsSurvive`, `KeysDistinct`,
`CutRefused`), since it reaches the `RECURSIVE` operators of `RowCodec` and
`ArrowLog`, which the prover cannot take. `CodecProofs` shows for any values what
they rest on, but for rows with collections, Arrow batches as a whole and the
paths rows take through a table. Also only model-checked are `BytesCounted`,
whose sum of sizes is a fold, and every liveness
property (`CancelledWriteReturns`, `CloseReleasesWriters`, `LingerDelivers`,
`AcceptedIsStored`, `OnlyStuckLoopsHoldCalls`, `ScanRowsReturns`), since the
prover has no rules for fairness and ENABLED.

## 5. Not modelled

The Arrow library, the object store's and the local database's libraries (used
as external operators or choices); what requests and answers carry besides what
the models name, which `client/admin.go`, `client/types.go` and `client/pb.go`
copy from structure to structure; decimals given as strings; the target columns
of partial updates, which the client passes on to the server; compression; a caller's own snapshot fetcher; the
authentication hook, of which only the empty one is here; constructors and
configuration; the demo, a test program against a real cluster. The generated
messages (`internal/proto/gen/fluss/fluss.pb.go`, 8024 of the 16778 lines that
are counted) are data without behaviour of the program's own.

What the models leave out of the parts they cover, and is open to question in
the code: compacted collections can be written but not read, and compacted
timestamps are no better off than the decimals of the run `decimals`; integers
that do not fit their field are cut without an error, in keys too, so that a row
may take the place of another (`Cut` says of which); in an Arrow log
timestamps before 1970 come back as the instant they were, but with negative
nanoseconds of a millisecond, and those too far from 1970 for 64 bits of ticks
wrap (`Overflows`); buffered batches exceed MaxBufferedBatches after a failed
flush (`BacklogBound` says by how much); two refreshes that overlap may leave the
older answer cached (`RerouteReachesLeader` says how old); after a lost leader or
a coordinator that is gone calls fail until the caller refreshes or makes a new
client (`CallsAccountedFor`).

Values that the codecs' models do not have: a float64 for a field of 32 bits
loses precision (row.go:957-966), the unscaled part of a decimal of up to 18
digits is cut to 64 bits if the caller gives one that is longer (row.go:1033),
and an Arrow decimal beyond 128 bits panics in the library
(record_batch.go:277). On payloads that no encoder writes and no cut makes, the
models refuse what the code does not: a value record that declares less than two
bytes (row.go:162), a log record of length zero (row.go:261) and a batch shorter
than its header (row.go:621-626) panic. `RowsSurvive` and `CutRefused` are about
payloads that were written, whole or cut, where these do not occur.

Of `client/admin.go` lines 436 to 692 are left out: access control with its
errors per item, cluster configurations, server tags and rebalancing. They go
through `invokeCoordinator` as the modelled calls do and change nothing that the
client keeps.

## 6. Plan

Done: the writer and its queue, the write call and the pipeline over it, the
transport, the metadata cache, the scanner, table and admin calls, the snapshot
scan, rows, their encodings and their types; the proofs of section 4.

Left: collections, in `RowCodec`. Their types contain types, so a proof about
them is by induction over the depth of a type, with a function in place of
`EncodeValue` and `DecodeValue`; `RowsSplit` and `FlatRowsSurvive` are its base.
