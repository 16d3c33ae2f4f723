------------------------------ MODULE TableCalls ------------------------------
(***************************************************************************)
(* The calls of TableClient and AdminClient (client/table.go, row.go,      *)
(* admin.go) that rest on what client.go caches of the cluster: the        *)
(* coordinator, the table's ID and schema, the routes to its buckets.      *)
(* Meanwhile the table is altered, dropped and created anew, leaders       *)
(* change and the coordinator fails over.                                  *)
(*                                                                         *)
(* A request for what the cache stores is sent, answered and stored in     *)
(* steps of their own: what is stored was true when it was answered.       *)
(* Storing is one step (MetadataCache has its pieces), and so is a request *)
(* whose answer is not stored.  There is one path, under which tables are  *)
(* created one after the other.                                            *)
(*                                                                         *)
(* Of the servers: the coordinator and Seed answer metadata, only the      *)
(* coordinator changes tables, only a bucket's leader serves it, metadata  *)
(* of partitions is sent on request, and a coordinator that was replaced   *)
(* does not come back.                                                     *)
(***************************************************************************)
EXTENDS Naturals, Sequences

CONSTANTS
  Callers, Admins,  \* goroutines that use one client, for calls of the table
                    \* and of the coordinator
  Fillers,          \* goroutines that ask for what is cached, of their own
  Servers,          \* tablet servers
  Coordinators,     \* the coordinators, in the order of their terms
  Seed,             \* Client.endpoints[0]
  None,
  Buckets,          \* the buckets of a table
  Partitioned,      \* those of them that belong to its partition
  Schemas,          \* the schemas that tables get one after the other,
                    \* sequences of columns
  ChangeBound       \* bound of the instance: tables created, schemas added,
                    \* leaders and coordinators lost

ASSUME TableAssumption ==
  /\ Fillers \cap (Callers \cup Admins) = {}
  /\ Partitioned \subseteq Buckets /\ Coordinators # <<>>
  /\ None \notin Servers /\ Seed # None
  /\ Coordinators \in Seq({Coordinators[i] : i \in DOMAIN Coordinators})
  /\ \A i \in DOMAIN Coordinators : Coordinators[i] \notin {None, Seed}
  /\ Schemas \in Seq({Schemas[i] : i \in DOMAIN Schemas})
  /\ ChangeBound \in Nat /\ Len(Schemas) > ChangeBound

VARIABLES
  tables,           \* the tables there have been, by ID, and their schemas
  exists,           \* whether the last of them still exists
  leader,           \* each bucket's leader
  changes,          \* how many of these so far
  term,             \* Coordinators[term] is in office or was last
  vacant,           \* no coordinator is in office
  coordinator,      \* Cache.coordinator
  info,             \* Cache.tables[path]: ID and schema ID
  routes,           \* Cache.routes
  request,          \* each goroutine's request for what the cache stores
  call,             \* each task's call
  disturbed,        \* history: tasks whose call has a reason to fail
  replaced          \* history: tasks since the begin of whose call another
                    \* table was cached

clusterVars == <<tables, exists, leader, changes, term, vacant>>
cacheVars == <<coordinator, info, routes>>
vars == <<clusterVars, cacheVars, request, call, disturbed, replaced>>

Tasks == Callers \cup Admins
TableIds == 1 .. ChangeBound + 1

Current == Len(tables)
NoInfo == [id |-> 0, schema |-> 0]
Answer == [id |-> Current, schema |-> Len(tables[Current])]

(* What a server knows, of the partition too. *)
Metadata == [coordinator |-> IF vacant THEN None ELSE Coordinators[term],
             info |-> IF exists THEN Answer ELSE NoInfo, leader |-> leader]
NoMetadata == [coordinator |-> None, info |-> NoInfo, leader |-> [b \in Buckets |-> None]]

(* at: "none", "sent", "answered" or, when what is to be stored is,        *)
(* "over"; to: where it was sent; bucket: the one whose route it is for.   *)
NoRequest == [at |-> "none", to |-> None, bucket |-> None, answer |-> NoMetadata]

Requested(g, step) == request[g].at = step

(* at: where the call is; info: what kvEncoding read; id: the ID in the    *)
(* requests; grouped: the buckets found to be led by each server; lost, a  *)
(* history: a request that could have been answered was lost or refused.   *)
Nowhere == [s \in Servers |-> {}]
Idle == [op |-> "none", at |-> "done", buckets |-> {}, info |-> NoInfo, id |-> 0,
         unrouted |-> {}, grouped |-> Nowhere, answered |-> {}, attempt |-> 0,
         lost |-> FALSE]

Reads == {"read", "lookup rows"}
RowCalls == {"lookup rows", "upsert row"}
Steps == {"encode", "info", "route", "send", "decide", "coordinator", "ask",
          "done", "failed"}

Busy(t) == call[t].at \notin {"done", "failed"}
At(t, step) == call[t].at = step

(* A bucket of a call that is under way is in one place. *)
Placed(c, b) ==
  /\ b \in c.unrouted \cup c.answered <=> \A s \in Servers : b \notin c.grouped[s]
  /\ \A s, r \in Servers : b \in c.grouped[s] \cap c.grouped[r] => s = r

TypeOK ==
  /\ Current \in TableIds
  /\ \A i \in DOMAIN tables : tables[i] \in Seq({Schemas[j] : j \in DOMAIN Schemas})
  /\ exists \in BOOLEAN /\ vacant \in BOOLEAN /\ term \in DOMAIN Coordinators
  /\ leader \in [Buckets -> Servers \cup {None}] /\ changes \in 0 .. ChangeBound
  /\ coordinator \in {Coordinators[i] : i \in 1 .. term} \cup {None}
  /\ info # NoInfo => info.id \in 1 .. Current /\ info.schema \in DOMAIN tables[info.id]
  /\ routes \in [TableIds -> [Buckets -> Servers \cup {None}]]
  /\ \A g \in Tasks \cup Fillers :
       LET r == request[g] IN
       /\ r.at \in {"none", "sent", "answered", "over"}
       /\ r.answer.info # NoInfo =>
            /\ r.answer.info.id \in 1 .. Current
            /\ r.answer.info.schema \in DOMAIN tables[r.answer.info.id]
  /\ \A t \in Tasks : /\ call[t].at \in Steps /\ call[t].id \in 0 .. Current
                      /\ At(t, "route") \/ At(t, "send") =>
                           \A b \in call[t].buckets : Placed(call[t], b)
  /\ disturbed \in SUBSET Tasks /\ replaced \in SUBSET Tasks

(* A client that was dialed, of a table it has not used yet. *)
Init ==
  /\ tables = <<<<Schemas[1]>>>>
  /\ exists = TRUE /\ changes = 0 /\ term = 1 /\ vacant = FALSE
  /\ leader \in [Buckets -> Servers]
  /\ coordinator \in {Coordinators[1], None} /\ info = NoInfo
  /\ routes = [i \in TableIds |-> [b \in Buckets |-> None]]
  /\ request = [g \in Tasks \cup Fillers |-> NoRequest]
  /\ call = [t \in Tasks |-> Idle]
  /\ disturbed = {} /\ replaced = {}

Change == changes < ChangeBound /\ changes' = changes + 1

-------------------------------------------------------------------------------
(* Where requests go *)

(* RefreshMetadata's address, and invokeAny's: the endpoint is used only   *)
(* until a coordinator is known.                                           *)
Address == IF coordinator # None THEN coordinator ELSE Seed

InOffice(a) == a = Coordinators[term] /\ ~vacant
Answers(a) == a = Seed \/ InOffice(a)

AllLed(buckets) == \A b \in buckets : leader[b] # None

-------------------------------------------------------------------------------
(* The history: what may make a call fail *)

(* Nothing the call reads from the cache is stale, and what it has to ask  *)
(* for can be answered.  A partition's route must be cached already.       *)
Sound(t) ==
  LET c == call[t] IN
  /\ coordinator # None => InOffice(coordinator)
  /\ c.op = "admin" => ~vacant
  /\ c.buckets # {} =>
       /\ exists /\ AllLed(Buckets)
       /\ info.id \in {0, Current} /\ c.id \in {0, Current}
       /\ \A b \in c.buckets : \/ routes[Current][b] = leader[b]
                               \/ routes[Current][b] = None /\ b \notin Partitioned

Began(t) == ~Busy(t) /\ Busy(t)'
Looks(t) == (At(t, "encode") \/ At(t, "info")) /\ request'[t] # request[t]

(* A call that stores the table's info itself replaces nothing. *)
Observe ==
  /\ disturbed' = {t \in Tasks : /\ ~At(t, "done")'
                                 /\ \/ t \in disturbed /\ ~Began(t)
                                    \/ call'[t].lost \/ (Busy(t) /\ ~Sound(t))'}
  /\ replaced' = {t \in Tasks : /\ call'[t].op \in RowCalls
                                /\ \/ t \in replaced /\ ~Began(t)
                                   \/ Busy(t) /\ info'.id # info.id /\ ~Looks(t)}

-------------------------------------------------------------------------------
(* Requests for what is cached *)

Forget(g) == request' = [request EXCEPT ![g] = NoRequest]

Ask(g, bucket) ==
  /\ Requested(g, "none")
  /\ request' = [request EXCEPT ![g] = [NoRequest EXCEPT !.at = "sent", !.to = Address,
                                                       !.bucket = bucket]]
  /\ UNCHANGED <<clusterVars, cacheVars, call>> /\ Observe

Receive(g) ==
  /\ Requested(g, "sent") /\ Answers(request[g].to)
  /\ request' = [request EXCEPT ![g] = [NoRequest EXCEPT !.at = "answered", !.answer = Metadata,
                                                       !.bucket = request[g].bucket]]
  /\ UNCHANGED <<clusterVars, cacheVars, call>> /\ Observe

(* Stored, the answer is there for the call that asked. *)
Over(g) ==
  IF g \in Fillers THEN Forget(g) ELSE request' = [request EXCEPT ![g].at = "over"]

(* GetTableInfo of a table that there is stores its info. *)
GetTableInfo(g) ==
  LET m == request[g].answer IN
  /\ Requested(g, "answered") /\ Over(g)
  /\ info' = IF m.info = NoInfo THEN info ELSE m.info
  /\ UNCHANGED <<clusterVars, coordinator, routes, call>> /\ Observe

(* ingestMetadata stores what was asked for, of the path or not, of the    *)
(* partition or not, up to the first bucket without a leader.              *)
Whole(m, buckets) == \A b \in buckets : m.leader[b] # None

TableStored(m, path) == path /\ m.info # NoInfo /\ Whole(m, Buckets \ Partitioned)
PartitionStored(m, path, partition) ==
  /\ partition /\ m.info # NoInfo /\ Whole(m, Partitioned)
  /\ path => TableStored(m, path)

RefreshSucceeds(m, path, partition) ==
  /\ path => TableStored(m, path)
  /\ partition => PartitionStored(m, path, partition)

Learned(m, b, path, partition) ==
  IF b \in Partitioned THEN PartitionStored(m, path, partition) ELSE TableStored(m, path)

RefreshMetadata(g, path, partition) ==
  LET m == request[g].answer IN
  /\ Requested(g, "answered") /\ Over(g)
  /\ IF path \/ partition => m.info # NoInfo
     THEN /\ coordinator' = IF m.coordinator = None THEN coordinator ELSE m.coordinator
          /\ info' = IF TableStored(m, path) THEN m.info ELSE info
          /\ routes' = [i \in TableIds |-> [b \in Buckets |->
               IF i = m.info.id /\ Learned(m, b, path, partition) THEN m.leader[b]
               ELSE routes[i][b]]]
     ELSE UNCHANGED cacheVars
  /\ UNCHANGED <<clusterVars, call>> /\ Observe

(* TableClient.Info and Client.RefreshMetadata, called for themselves; a   *)
(* caller of RefreshMetadata may name the partition, which no call of the  *)
(* table does.  Which it was shows when the answer is stored, if it is.    *)
Fill(f) ==
  \/ Ask(f, None) \/ GetTableInfo(f)
  \/ \E path, partition \in BOOLEAN : RefreshMetadata(f, path, partition)
  \/ Requested(f, "sent") /\ Forget(f) /\ UNCHANGED <<clusterVars, cacheVars, call>> /\ Observe

-------------------------------------------------------------------------------
(* Calls of the table *)

(* A step of a call that leaves the cluster and the cache alone, with the  *)
(* answer to the request it waited for, if there was one.                  *)
Proceed(t) == Forget(t) /\ UNCHANGED <<clusterVars, cacheVars>> /\ Observe

Begin(t, op, buckets, step) ==
  /\ ~Busy(t)
  /\ call' = [call EXCEPT ![t] = [Idle EXCEPT !.op = op, !.at = step,
                                    !.buckets = buckets, !.unrouted = buckets]]
  /\ Proceed(t)

(* Lookup, PrefixLookup and FetchLog of several buckets, LimitScan of one. *)
StartRead(t) ==
  \E buckets \in (SUBSET Buckets) \ {{}} : Begin(t, "read", buckets, "info")

(* LookupRows, UpsertRow and DeleteRow have no argument for a partition. *)
StartRowCall(t) ==
  \E op \in RowCalls, b \in Buckets \ Partitioned : Begin(t, op, {b}, "encode")

(* The call is c next, of which nothing was lost. *)
Move(t, c) == call' = [call EXCEPT ![t] = [c EXCEPT !.lost = FALSE]]

End(t, c) ==
  Move(t, [c EXCEPT !.at = "done", !.unrouted = {}, !.grouped = Nowhere, !.attempt = 0])

Fail(t, lost) == call' = [call EXCEPT ![t] = [Idle EXCEPT !.at = "failed", !.lost = lost]]

(* ensureTableInfo: the cached TableInfo, else GetTableInfo's answer.      *)
(* Faulty variant: what the server has, each time.                         *)
AskInfo(t) == (At(t, "encode") \/ At(t, "info")) /\ info = NoInfo /\ Ask(t, None)
StoreInfo(t) == (At(t, "encode") \/ At(t, "info")) /\ GetTableInfo(t)

TableInfoAfresh(t) == IF exists THEN Answer ELSE info
TableInfo(t) == IF Requested(t, "over") THEN request[t].answer.info ELSE info

InfoThere(t) ==
  (Requested(t, "none") \/ Requested(t, "over")) /\ TableInfo(t) # NoInfo

(* kvEncoding: what the table's info says of the encoding of its rows. *)
Encode(t) ==
  /\ At(t, "encode") /\ InfoThere(t)
  /\ Move(t, [call[t] EXCEPT !.at = "info", !.info = TableInfo(t)])
  /\ Proceed(t)

TakeTableId(t) ==
  /\ At(t, "info") /\ InfoThere(t)
  /\ Move(t, [call[t] EXCEPT !.at = "route", !.id = TableInfo(t).id])
  /\ Proceed(t)

(* No answer, or the answer that there is no such table. *)
NoTableInfo(t) ==
  /\ At(t, "encode") \/ At(t, "info")
  /\ \/ Requested(t, "sent") /\ Fail(t, TRUE)
     \/ Requested(t, "over") /\ request[t].answer.info = NoInfo /\ Fail(t, FALSE)
  /\ Proceed(t)

Group(t, b, s) ==
  LET unrouted == call[t].unrouted \ {b} IN
  Move(t, [call[t] EXCEPT !.at = IF unrouted = {} THEN "send" ELSE "route",
                          !.unrouted = unrouted, !.grouped[s] = @ \cup {b}])

(* An upsert may try once more, other calls fail. *)
GiveUp(t, lost) ==
  IF call[t].op = "upsert row"
  THEN call' = [call EXCEPT ![t].at = "decide", ![t].lost = lost]
  ELSE Fail(t, lost)

(* routeFor: the cached route, else the one that is cached after a refresh *)
(* that does not ask for the partition.                                    *)
AskRoute(t) ==
  /\ At(t, "route")
  /\ \E b \in call[t].unrouted : routes[call[t].id][b] = None /\ Ask(t, b)

RouteFor(t, b) ==
  LET route == routes[call[t].id][b]
      r == request[t] IN
  \/ r.at = "none" /\ route # None /\ Group(t, b, route)
  \/ r.at = "over" /\ r.bucket = b
     /\ IF RefreshSucceeds(r.answer, TRUE, FALSE) /\ route # None
        THEN Group(t, b, route) ELSE GiveUp(t, FALSE)
  \/ r.at = "sent" /\ r.bucket = b /\ GiveUp(t, TRUE)

(* groupLookupsByLeader and its like *)
GroupByLeader(t) ==
  /\ At(t, "route")
  /\ \E b \in call[t].unrouted : RouteFor(t, b)
  /\ Proceed(t)

(* What the server has and leads. *)
Serves(s, id, b) == exists /\ id = Current /\ leader[b] = s

Answered(t, s, buckets) ==
  LET rest == [call[t].grouped EXCEPT ![s] = {}]
      answered == call[t].answered \cup buckets IN
  IF rest = Nowhere THEN End(t, [call[t] EXCEPT !.answered = answered])
  ELSE Move(t, [call[t] EXCEPT !.grouped = rest, !.answered = answered])

(* parseLookupResults and its like: an answer with a bucket in error is    *)
(* the error.                                                              *)
AnsweredWithoutError(t, s) == \A b \in call[t].grouped[s] : Serves(s, call[t].id, b)

(* One request: an error discards all answers of the call, and only an     *)
(* upsert may try again.  Faulty variant: buckets in error are left out.   *)
RequestLenient(t, s) ==
  Answered(t, s, {b \in call[t].grouped[s] : Serves(s, call[t].id, b)})

Request(t, s) ==
  LET served == AnsweredWithoutError(t, s) IN
  \/ served /\ Answered(t, s, call[t].grouped[s])
  \/ GiveUp(t, served) \/ Fail(t, served)

Send(t) ==
  /\ At(t, "send")
  /\ \E s \in Servers : call[t].grouped[s] # {} /\ Request(t, s)
  /\ Proceed(t)

(* The second attempt starts from the table's ID, with the payload as it   *)
(* is.  Faulty variant: with the groups of the first.                      *)
TryAgainGrouped(t) ==
  Move(t, [call[t] EXCEPT !.at = "info", !.attempt = 1, !.unrouted = call[t].buckets])

TryAgain(t) ==
  Move(t, [call[t] EXCEPT !.at = "info", !.attempt = 1, !.unrouted = call[t].buckets,
                          !.grouped = Nowhere])

(* With or without an error: WriteRetry says when. *)
Returns(t, lost) == End(t, call[t]) \/ Fail(t, lost)

(* UpsertKV after a failed attempt: an error that is not retryable is      *)
(* returned, after another the call tries once more if a refresh succeeds. *)
AskAgain(t) == At(t, "decide") /\ call[t].attempt = 0 /\ Ask(t, None)

Retry(t) ==
  /\ At(t, "decide") /\ call[t].attempt = 0
  /\ \/ Requested(t, "none") /\ Returns(t, FALSE)
     \/ Requested(t, "sent") /\ Returns(t, TRUE)
     \/ /\ Requested(t, "over")
        /\ IF RefreshSucceeds(request[t].answer, TRUE, FALSE) THEN TryAgain(t)
           ELSE Returns(t, FALSE)
  /\ Proceed(t)

NoMoreAttempts(t) ==
  /\ At(t, "decide") /\ call[t].attempt = 1
  /\ Returns(t, FALSE)
  /\ Proceed(t)

StoreRoutes(t) == (At(t, "route") \/ At(t, "decide")) /\ RefreshMetadata(t, TRUE, FALSE)

-------------------------------------------------------------------------------
(* Calls of AdminClient *)

(* What any server may answer (invokeAny), and what only the coordinator   *)
(* can do (invokeCoordinator).                                             *)
StartQuery(t) == Begin(t, "query", {}, "ask")
StartAdmin(t) == Begin(t, "admin", {}, "coordinator")

(* A refresh if no coordinator is known.  Its answer may name none, and    *)
(* the call goes to the endpoint.                                          *)
AskCoordinator(t) == At(t, "coordinator") /\ coordinator = None /\ Ask(t, None)
StoreCoordinator(t) == At(t, "coordinator") /\ RefreshMetadata(t, FALSE, FALSE)

AcquireCoordinator(t) ==
  /\ At(t, "coordinator")
  /\ \/ Requested(t, "none") /\ coordinator # None /\ Move(t, [call[t] EXCEPT !.at = "ask"])
     \/ Requested(t, "over") /\ Move(t, [call[t] EXCEPT !.at = "ask"])
     \/ Requested(t, "sent") /\ Fail(t, TRUE)
  /\ Proceed(t)

Executed(t) ==
  /\ At(t, "ask") /\ call[t].op = "admin" /\ InOffice(Address)
  /\ call' = [call EXCEPT ![t] = Idle]
  /\ Forget(t) /\ UNCHANGED <<leader, term, vacant, cacheVars>> /\ Observe

NewSchema == Schemas[Current + Len(tables[Current])]

CreateTable(t) ==
  /\ ~exists /\ exists' = TRUE
  /\ Change /\ tables' = Append(tables, <<NewSchema>>)
  /\ Executed(t)

AlterTable(t) ==
  /\ exists /\ UNCHANGED exists
  /\ Change /\ tables' = [tables EXCEPT ![Current] = Append(@, NewSchema)]
  /\ Executed(t)

(* The cache keeps what it has of the table. *)
DropTable(t) ==
  /\ exists /\ exists' = FALSE
  /\ UNCHANGED <<tables, changes>>
  /\ Executed(t)

(* With its tables, if the call says so; refused otherwise. *)
DropDatabase(t) == DropTable(t)

(* What leaves tables and schemas alone: databases, partitions, and what   *)
(* is ignored as done already, and writer IDs.  Access control, whose      *)
(* answers carry an error for each item, configurations, tags and the      *)
(* rebalancing of servers are left out.                                    *)
TablesStay(t) == UNCHANGED <<tables, exists, changes>> /\ Executed(t)
CreateDatabase(t) == TablesStay(t)
PartitionCall(t) == TablesStay(t)
InitWriter(t) == TablesStay(t)

(* Lists, descriptions and tests of existence: the cache learns nothing,   *)
(* not even that the table is gone.                                        *)
Query(t) ==
  /\ At(t, "ask") /\ call[t].op = "query" /\ Answers(Address)
  /\ call' = [call EXCEPT ![t] = Idle]
  /\ Proceed(t)

DatabaseQuery(t) == Query(t)
TableNames(t) == Query(t)
TableQuery(t) == exists /\ Query(t)
LakeSnapshot(t) == exists /\ Query(t)

AdminRefused(t) ==
  /\ At(t, "ask")
  /\ Fail(t, IF call[t].op = "query" THEN Answers(Address) ELSE InOffice(Address))
  /\ Proceed(t)

-------------------------------------------------------------------------------
(* The cluster *)

Elect(b) ==
  /\ \E s \in Servers \cup {None} :
       /\ s # leader[b] /\ leader' = [leader EXCEPT ![b] = s]
       /\ IF leader[b] = None THEN UNCHANGED changes ELSE Change
  /\ UNCHANGED <<tables, exists, term, vacant, cacheVars, request, call>> /\ Observe

CoordinatorFails ==
  /\ ~vacant /\ term < Len(Coordinators)
  /\ vacant' = TRUE /\ Change
  /\ UNCHANGED <<tables, exists, leader, term, cacheVars, request, call>> /\ Observe

CoordinatorElected ==
  /\ vacant
  /\ vacant' = FALSE /\ term' = term + 1
  /\ UNCHANGED <<tables, exists, leader, changes, cacheVars, request, call>> /\ Observe

-------------------------------------------------------------------------------
TableStep(t) ==
  \/ StartRead(t) \/ StartRowCall(t) \/ Encode(t) \/ TakeTableId(t) \/ NoTableInfo(t)
  \/ GroupByLeader(t) \/ Send(t) \/ Retry(t) \/ NoMoreAttempts(t)
  \/ AskInfo(t) \/ StoreInfo(t) \/ AskRoute(t) \/ AskAgain(t) \/ StoreRoutes(t)

AdminStep(t) ==
  \/ StartQuery(t) \/ StartAdmin(t)
  \/ AskCoordinator(t) \/ StoreCoordinator(t) \/ AcquireCoordinator(t)
  \/ CreateTable(t) \/ AlterTable(t) \/ DropTable(t) \/ DropDatabase(t)
  \/ CreateDatabase(t) \/ PartitionCall(t)
  \/ InitWriter(t) \/ DatabaseQuery(t) \/ TableNames(t) \/ TableQuery(t)
  \/ LakeSnapshot(t) \/ AdminRefused(t)

ClusterStep ==
  \/ CoordinatorFails \/ CoordinatorElected
  \/ \E b \in Buckets : Elect(b)
  \/ \E g \in Tasks \cup Fillers : Receive(g)
  \/ \E f \in Fillers : Fill(f)

Next ==
  \/ ClusterStep
  \/ \E t \in Callers : TableStep(t)
  \/ \E t \in Admins : AdminStep(t)

Spec == Init /\ [][Next]_vars

-------------------------------------------------------------------------------
(* Safety *)

(* A call fails only for a reason: a request was lost or refused, or while *)
(* it ran something it rests on was stale or missing, of which the client  *)
(* repairs only a route that is not cached at all.  A stale route, a stale *)
(* table ID, a partition that was not asked for and a coordinator that is  *)
(* gone stay as they are until the caller acts.  And a read that returns   *)
(* has every bucket's answer.                                              *)
CallsAccountedFor ==
  \A t \in Tasks :
    /\ At(t, "failed") => t \in disturbed
    /\ At(t, "done") /\ call[t].op \in Reads => call[t].answered = call[t].buckets

(* A row is stored in, or decoded as of, the table whose layout it was     *)
(* encoded for, unless another table was cached while the call was under   *)
(* way: a stale cache alone never mixes two tables, although the call      *)
(* looks at it twice or three times.  Its own retry does.                  *)
RowsKeepTheirTable ==
  \A t \in Tasks :
    call[t].op \in RowCalls /\ call[t].answered # {} /\ t \notin replaced
      => call[t].info.id = call[t].id
===============================================================================
