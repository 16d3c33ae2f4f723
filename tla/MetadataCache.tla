----------------------------- MODULE MetadataCache -----------------------------
(***************************************************************************)
(* client/client.go and internal/metadata/cache.go, as TableClient.routeFor*)
(* and the retry of a write use them.  Tasks look up the leader of a       *)
(* bucket, refresh the shared cache, and look the leader up once more.     *)
(* Each method of the cache locks it for itself: an answer is stored piece *)
(* by piece, and a lookup reads two maps, while other tasks do the same.   *)
(*                                                                         *)
(* The cluster is the environment: buckets change their leader or have     *)
(* none for a while, and a request is answered with what is true then, and *)
(* any list of servers, or fails.  Of a server only its ID is looked at.   *)
(* The coordinator is one too; where it is, and the TableInfo, which no    *)
(* lookup of a leader reads, are left out.                                 *)
(***************************************************************************)
EXTENDS Naturals

CONSTANTS
  Tasks,            \* goroutines that look up, or refresh and look up
  Buckets,          \* the buckets of one table
  Nodes,            \* the IDs of the servers
  NoNode,           \* not a node
  ElectionBound     \* bound of the instance: changes of one bucket's leader

ASSUME CacheAssumption == NoNode \notin Nodes /\ ElectionBound \in Nat

(* A BucketRoute: the leader and its epoch, and, as history, whether the   *)
(* answer it came with named the leader among the servers.                 *)
Route == [leader : Nodes, epoch : Nat, named : BOOLEAN]
NoRoute == [leader |-> NoNode, epoch |-> 0, named |-> FALSE]

(* A MetadataResponse, with or without a coordinator. *)
Epochs == [Buckets -> Nat]
Answer == [leader : [Buckets -> Nodes \cup {NoNode}], epoch : Epochs,
           coordinator : Nodes \cup {NoNode}, listed : SUBSET Nodes]
NoAnswer == [leader |-> [b \in Buckets |-> NoNode], epoch |-> [b \in Buckets |-> 0],
             coordinator |-> NoNode, listed |-> {}]

VARIABLES
  leader, epoch,    \* the cluster: each bucket's leader and its epoch
  servers,          \* Cache.servers
  routes,           \* Cache.routes
  pc,               \* where each task is
  bucket,           \* the bucket each task looks up
  missed,           \* the tasks that refresh, or have, since a lookup missed
  refreshed,        \* the tasks that have refreshed
  answer,           \* the answer each refresh got
  todo,             \* what ingestMetadata still has to store of it
  found,            \* the route a lookup read, before it reads the server
  overlapped,       \* history: refreshes during which there was another one
  asked,            \* history: the epochs when each refresh was asked for
  since             \* history: asked, of those that were under way then too

clusterVars == <<leader, epoch>>
cacheVars == <<servers, routes>>
historyVars == <<overlapped, asked, since>>
refreshVars == <<missed, refreshed, answer, todo, historyVars>>
vars == <<clusterVars, cacheVars, pc, bucket, refreshVars, found>>

Refreshing == {"asked", "coordinator", "servers", "routes"}

TypeOK ==
  /\ leader \in [Buckets -> Nodes \cup {NoNode}]
  /\ epoch \in [Buckets -> Nat]
  /\ servers \subseteq Nodes
  /\ routes \in [Buckets -> Route \cup {NoRoute}]
  /\ pc \in [Tasks -> Refreshing \cup {"start", "lookup", "server", "node"}]
  /\ bucket \in [Tasks -> Buckets]
  /\ missed \subseteq Tasks /\ refreshed \subseteq Tasks
  /\ answer \in [Tasks -> Answer]
  /\ todo \in [Tasks -> SUBSET (Nodes \cup Buckets)]
  /\ found \in [Tasks -> Route \cup {NoRoute}]
  /\ overlapped \subseteq Tasks
  /\ asked \in [Tasks -> Epochs] /\ since \in [Tasks -> SUBSET Epochs]

Init ==
  /\ leader \in [Buckets -> Nodes \cup {NoNode}] /\ epoch = [b \in Buckets |-> 0]
  /\ servers = {} /\ routes = [b \in Buckets |-> NoRoute]
  /\ pc = [t \in Tasks |-> "start"]
  /\ bucket \in [Tasks -> Buckets]
  /\ missed = {} /\ refreshed = {} /\ overlapped = {}
  /\ asked = [t \in Tasks |-> NoAnswer.epoch] /\ since = [t \in Tasks |-> {}]
  /\ answer = [t \in Tasks |-> NoAnswer]
  /\ todo = [t \in Tasks |-> {}]
  /\ found = [t \in Tasks |-> NoRoute]

Goto(t, place) == pc' = [pc EXCEPT ![t] = place]

-------------------------------------------------------------------------------
(* Client.routeFor *)

(* A task begins with a lookup, or a refresh before it. *)
Start(t) ==
  /\ pc[t] = "start"
  /\ \E b \in Buckets : bucket' = [bucket EXCEPT ![t] = b]

StartLookup(t) ==
  /\ Start(t)
  /\ Goto(t, "lookup")
  /\ UNCHANGED <<clusterVars, cacheVars, refreshVars, found>>

(* The task is done with its leader, or an error, and may begin anew. *)
Return(t) ==
  /\ Goto(t, "start")
  /\ missed' = missed \ {t} /\ refreshed' = refreshed \ {t}
  /\ overlapped' = overlapped \ {t}
  /\ answer' = [answer EXCEPT ![t] = NoAnswer]
  /\ asked' = [asked EXCEPT ![t] = NoAnswer.epoch]
  /\ since' = [since EXCEPT ![t] = {}]
  /\ todo' = [todo EXCEPT ![t] = {}]
  /\ found' = [found EXCEPT ![t] = NoRoute]
  /\ UNCHANGED <<clusterVars, cacheVars, bucket>>

(* RefreshMetadata sends its request. *)
Ask(t) ==
  /\ Goto(t, "asked")
  /\ refreshed' = refreshed \cup {t}
  /\ LET others == {s \in Tasks : pc[s] \in Refreshing} IN
       /\ overlapped' = IF others = {} THEN overlapped \ {t}
                        ELSE overlapped \cup others \cup {t}
       /\ since' = [since EXCEPT ![t] = {asked[s] : s \in others} \cup {epoch}]
  /\ asked' = [asked EXCEPT ![t] = epoch]
  /\ UNCHANGED <<clusterVars, cacheVars, answer, todo, found>>

(* To retry a write: the lookups come after. *)
StartRefresh(t) == Start(t) /\ Ask(t) /\ UNCHANGED missed

(* A miss: refresh once, then give up. *)
Miss(t) ==
  \/ t \notin missed /\ missed' = missed \cup {t} /\ Ask(t) /\ UNCHANGED bucket
  \/ t \in missed /\ Return(t)

ReadRoute(t) ==
  /\ pc[t] = "lookup" /\ routes[bucket[t]] # NoRoute
  /\ found' = [found EXCEPT ![t] = routes[bucket[t]]]
  /\ Goto(t, "server")
  /\ UNCHANGED <<clusterVars, cacheVars, bucket, refreshVars>>

MissRoute(t) == pc[t] = "lookup" /\ routes[bucket[t]] = NoRoute /\ Miss(t)

ReadServer(t) ==
  /\ pc[t] = "server" /\ found[t].leader \in servers
  /\ Goto(t, "node")
  /\ UNCHANGED <<clusterVars, cacheVars, bucket, refreshVars, found>>

MissServer(t) == pc[t] = "server" /\ found[t].leader \notin servers /\ Miss(t)

UseServer(t) == pc[t] = "node" /\ Return(t)

-------------------------------------------------------------------------------
(* RefreshMetadata and ingestMetadata *)

(* The answer is gone when the refresh is over, but for its epochs, which  *)
(* stay as history.                                                        *)
Forget(t) ==
  /\ answer' = [answer EXCEPT ![t] = [NoAnswer EXCEPT !.epoch = answer[t].epoch]]
  /\ asked' = [asked EXCEPT ![t] = NoAnswer.epoch]

(* The server answers with the state of the cluster. *)
Answered(t) ==
  /\ pc[t] = "asked"
  /\ \E listed \in SUBSET Nodes, coordinator \in Nodes \cup {NoNode} :
       /\ answer' = [answer EXCEPT ![t] =
                       [leader |-> leader, epoch |-> epoch,
                        coordinator |-> coordinator, listed |-> listed]]
       /\ todo' = [todo EXCEPT ![t] = listed]
       /\ Goto(t, IF coordinator = NoNode THEN "servers" ELSE "coordinator")
  /\ UNCHANGED <<clusterVars, cacheVars, bucket, missed, refreshed, found, historyVars>>

RefreshFails(t) == pc[t] = "asked" /\ Return(t)

(* SetCoordinator *)
StoreCoordinator(t) ==
  /\ pc[t] = "coordinator"
  /\ servers' = servers \cup {answer[t].coordinator}
  /\ Goto(t, "servers")
  /\ UNCHANGED <<clusterVars, routes, bucket, refreshVars, found>>

(* Faulty variant: a server is left alone if the cache has any. *)
StoreServerOnce(t, n) ==
  /\ pc[t] = "servers" /\ n \in todo[t]
  /\ servers' = IF servers = {} THEN {n} ELSE servers
  /\ todo' = [todo EXCEPT ![t] = @ \ {n}]
  /\ UNCHANGED <<clusterVars, routes, pc, bucket, missed, refreshed, answer, found,
                 historyVars>>

StoreServer(t, n) ==
  /\ pc[t] = "servers" /\ n \in todo[t]
  /\ servers' = servers \cup {n}
  /\ todo' = [todo EXCEPT ![t] = @ \ {n}]
  /\ UNCHANGED <<clusterVars, routes, pc, bucket, missed, refreshed, answer, found,
                 historyVars>>

(* parseTableMetadata: one bucket without a leader, and no route is stored *)
(* and the refresh fails, though the servers are stored already.           *)
Leaderless(t) == \E b \in Buckets : answer[t].leader[b] = NoNode

ParseTable(t) ==
  /\ pc[t] = "servers" /\ todo[t] = {} /\ ~Leaderless(t)
  /\ Goto(t, "routes")
  /\ todo' = [todo EXCEPT ![t] = Buckets]
  /\ UNCHANGED <<clusterVars, cacheVars, bucket, missed, refreshed, answer, found,
                 historyVars>>

ParseFails(t) ==
  /\ pc[t] = "servers" /\ todo[t] = {} /\ Leaderless(t)
  /\ Return(t)

RouteOf(a, b) ==
  [leader |-> a.leader[b], epoch |-> a.epoch[b],
   named |-> a.leader[b] \in a.listed \cup {a.coordinator}]

(* Faulty variant: a route that is cached stays. *)
StoreRouteOnce(t, b) ==
  /\ pc[t] = "routes" /\ b \in todo[t]
  /\ routes' = IF routes[b] = NoRoute
                 THEN [routes EXCEPT ![b] = RouteOf(answer[t], b)]
                 ELSE routes
  /\ todo' = [todo EXCEPT ![t] = @ \ {b}]
  /\ UNCHANGED <<clusterVars, servers, pc, bucket, missed, refreshed, answer, found,
                 historyVars>>

(* The last one stored stays: epochs are not compared. *)
StoreRoute(t, b) ==
  /\ pc[t] = "routes" /\ b \in todo[t]
  /\ routes' = [routes EXCEPT ![b] = RouteOf(answer[t], b)]
  /\ todo' = [todo EXCEPT ![t] = @ \ {b}]
  /\ UNCHANGED <<clusterVars, servers, pc, bucket, missed, refreshed, answer, found,
                 historyVars>>

(* Faulty variant: on with the route found before the refresh. *)
RefreshEndsKeeping(t) ==
  /\ pc[t] = "routes" /\ todo[t] = {}
  /\ Goto(t, IF found[t] # NoRoute THEN "server" ELSE "lookup")
  /\ Forget(t)
  /\ UNCHANGED <<clusterVars, cacheVars, bucket, missed, refreshed, todo, found,
                 overlapped, since>>

(* The refresh is over; the task looks its bucket up (again). *)
RefreshEnds(t) ==
  /\ pc[t] = "routes" /\ todo[t] = {}
  /\ Goto(t, "lookup")
  /\ Forget(t)
  /\ UNCHANGED <<clusterVars, cacheVars, bucket, missed, refreshed, todo, found,
                 overlapped, since>>

-------------------------------------------------------------------------------
(* The cluster *)

(* A bucket loses its leader, or gets one, another or the same. *)
Elect(b) ==
  /\ epoch[b] < ElectionBound
  /\ \E n \in Nodes \cup {NoNode} : leader' = [leader EXCEPT ![b] = n]
  /\ epoch' = [epoch EXCEPT ![b] = @ + 1]
  /\ UNCHANGED <<cacheVars, pc, bucket, refreshVars, found>>

Lookup(t) ==
  \/ StartLookup(t) \/ StartRefresh(t) \/ ReadRoute(t) \/ MissRoute(t)
  \/ ReadServer(t) \/ MissServer(t) \/ UseServer(t)

Refresh(t) ==
  \/ Answered(t) \/ RefreshFails(t) \/ StoreCoordinator(t) \/ ParseTable(t)
  \/ ParseFails(t) \/ RefreshEnds(t)
  \/ \E n \in Nodes : StoreServer(t, n)
  \/ \E b \in Buckets : StoreRoute(t, b)

Next ==
  \/ \E t \in Tasks : Lookup(t) \/ Refresh(t)
  \/ \E b \in Buckets : Elect(b)

Spec == Init /\ [][Next]_vars

-------------------------------------------------------------------------------
(* Safety *)

(* The two reads of a lookup are not atomic, and neither is a refresh, but *)
(* no route is ahead of its servers: a leader is found, unless the answer  *)
(* it came with did not name its server.                                   *)
ServersBeforeRoutes ==
  /\ \A b \in Buckets : routes[b].named => routes[b].leader \in servers
  /\ \A t \in Tasks :
       pc[t] = "server" /\ found[t].named => found[t].leader \in servers

(* What a refresh learned is not unlearned: once it is over the routes are *)
(* no older than its answer, unless another refresh was under way while it *)
(* was.  Two refreshes that overlap may leave the older answer behind.     *)
RefreshSticks ==
  \A t \in Tasks :
    t \in refreshed \ overlapped /\ pc[t] \in {"lookup", "server", "node"}
      => \A b \in Buckets : routes[b].epoch >= answer[t].epoch[b]

(* However refreshes overlap, a task that refreshed does not find a leader *)
(* from before its own refresh and all those under way when it began were  *)
(* asked for, for what any of them stores later was answered later.  If    *)
(* it refreshed alone, it finds the leader as of its answer or later; and  *)
(* with no election since the epoch it found, the leader.                  *)
RerouteReachesLeader ==
  \A t \in Tasks :
    LET b == bucket[t] IN
      t \in refreshed /\ pc[t] = "node"
        => /\ \E e \in since[t] : found[t].epoch >= e[b]
           /\ t \notin overlapped => found[t].epoch >= answer[t].epoch[b]
           /\ found[t].epoch = epoch[b] => found[t].leader = leader[b]
===============================================================================
