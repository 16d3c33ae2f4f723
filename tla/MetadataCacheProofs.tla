-------------------------- MODULE MetadataCacheProofs --------------------------
(***************************************************************************)
(* Theorems about MetadataCache, for any number of tasks, buckets and      *)
(* nodes and any number of elections.                                      *)
(***************************************************************************)
EXTENDS MetadataCache, TLAPS

(* An answer that is being stored. *)
Ingesting == {"coordinator", "servers", "routes"}

(* Only a coordinator that was named is stored, and parseTableMetadata     *)
(* lets no bucket without a leader through.                                *)
Parsed ==
  \A t \in Tasks :
    /\ pc[t] = "coordinator" => answer[t].coordinator \in Nodes
    /\ pc[t] = "routes" => \A b \in Buckets : answer[t].leader[b] \in Nodes

(* A refresh stores every server that is named before the first route. *)
Named(a) == a.listed \cup ({a.coordinator} \ {NoNode})

NamedStored ==
  \A t \in Tasks :
    /\ pc[t] = "coordinator" => answer[t].listed \subseteq servers \cup todo[t]
    /\ pc[t] = "servers" => Named(answer[t]) \subseteq servers \cup todo[t]
    /\ pc[t] = "routes" => Named(answer[t]) \subseteq servers

(* A leader n of epoch e is what the cluster had once, or has. *)
WasLeader(n, e, b) == e <= epoch[b] /\ (e = epoch[b] => n = leader[b])

(* What is answered, cached or found is from the cluster. *)
FromCluster ==
  /\ \A t \in Tasks, b \in Buckets :
       /\ answer[t].epoch[b] <= epoch[b]
       /\ pc[t] \in Ingesting
            => WasLeader(answer[t].leader[b], answer[t].epoch[b], b)
  /\ \A b \in Buckets :
       routes[b] # NoRoute => WasLeader(routes[b].leader, routes[b].epoch, b)
  /\ \A t \in Tasks :
       pc[t] \in {"server", "node"}
         => WasLeader(found[t].leader, found[t].epoch, bucket[t])

(* Two refreshes that are under way have overlapped. *)
OverlapSeen ==
  \A s, t \in Tasks :
    pc[s] \in Refreshing /\ pc[t] \in Refreshing /\ s # t => t \in overlapped

(* A task begins without having refreshed. *)
FreshAtStart == \A t \in Tasks : pc[t] = "start" => t \notin refreshed

(* The refreshes that overlapped no other so far. *)
Alone == refreshed \ overlapped

(* A route that a lone refresh has stored is still there. *)
StoredSoFar ==
  \A t \in Alone, b \in Buckets :
    pc[t] = "routes" /\ b \notin todo[t]
      => routes[b].epoch >= answer[t].epoch[b]

(* Refreshes under way that began after a lone one know no less. *)
LaterAnswers ==
  \A t \in Alone, s \in Tasks, b \in Buckets :
    pc[t] \in {"lookup", "server", "node"} /\ pc[s] \in Ingesting
      => answer[s].epoch[b] >= answer[t].epoch[b]

(* A lone refresh is followed by a lookup that finds no less. *)
FoundSince ==
  \A t \in Alone :
    pc[t] \in {"server", "node"} => found[t].epoch >= answer[t].epoch[bucket[t]]

SticksInv ==
  /\ FreshAtStart /\ OverlapSeen /\ RefreshSticks
  /\ StoredSoFar /\ LaterAnswers /\ FoundSince

(* An epoch of b that is no older than one of those that were asked for    *)
(* before or with t's refresh.                                             *)
Since(t, b, e) == \E old \in since[t] : old[b] <= e

(* No epoch was asked for before it was, nor answered before it was asked  *)
(* for.                                                                    *)
AskedBefore ==
  \A s \in Tasks, b \in Buckets :
    /\ asked[s][b] <= epoch[b]
    /\ pc[s] \in Ingesting => asked[s][b] <= answer[s].epoch[b]

(* What was asked for before t's refresh ended, or is asked for after it,  *)
(* is no older than that; so are the routes that t's refresh stored.       *)
AskedSince ==
  \A t \in refreshed, b \in Buckets :
    /\ Since(t, b, epoch[b])
    /\ \A s \in Tasks : pc[s] \in Refreshing => Since(t, b, asked[s][b])
    /\ pc[t] = "routes" /\ b \notin todo[t] => Since(t, b, routes[b].epoch)
    /\ pc[t] \in {"lookup", "server", "node"} => Since(t, b, routes[b].epoch)

ReadSince ==
  \A t \in refreshed :
    pc[t] \in {"server", "node"} => Since(t, bucket[t], found[t].epoch)

SinceInv == FreshAtStart /\ AskedBefore /\ AskedSince /\ ReadSince

CacheInv ==
  /\ TypeOK /\ Parsed
  /\ NamedStored /\ ServersBeforeRoutes
  /\ FromCluster /\ SticksInv /\ SinceInv

-------------------------------------------------------------------------------
(* The type invariant *)

LEMMA InitType == Init => TypeOK
BY CacheAssumption DEF Init, TypeOK, Answer, NoAnswer, Route, NoRoute, Epochs

LEMMA NoAnswerType == NoAnswer \in Answer /\ NoRoute \in Route \cup {NoRoute}
BY DEF NoAnswer, Answer, Epochs

(* An answer, by what it lists and whom it names as coordinator. *)
AnswerOf(t, listed, coordinator) ==
  /\ pc[t] = "asked"
  /\ answer' = [answer EXCEPT ![t] =
                  [leader |-> leader, epoch |-> epoch,
                   coordinator |-> coordinator, listed |-> listed]]
  /\ todo' = [todo EXCEPT ![t] = listed]
  /\ pc' = [pc EXCEPT ![t] = IF coordinator = NoNode THEN "servers" ELSE "coordinator"]
  /\ UNCHANGED <<clusterVars, cacheVars, bucket, missed, refreshed, found, historyVars>>

LEMMA AnswerSteps ==
  ASSUME NEW t \in Tasks, Answered(t)
  PROVE  \E listed \in SUBSET Nodes, coordinator \in Nodes \cup {NoNode} :
           AnswerOf(t, listed, coordinator)
BY DEF Answered, AnswerOf, Goto

LEMMA NextType == TypeOK /\ Parsed /\ [Next]_vars => TypeOK' /\ Parsed'
<1> SUFFICES ASSUME TypeOK, Parsed, [Next]_vars PROVE TypeOK' /\ Parsed'
  OBVIOUS
<1> USE DEF TypeOK, Parsed, Goto, clusterVars, cacheVars, refreshVars, historyVars
<1>1. ASSUME NEW t \in Tasks, StartLookup(t) PROVE TypeOK' /\ Parsed'
  BY <1>1 DEF StartLookup, Start
<1>2. ASSUME NEW t \in Tasks, Ask(t), bucket' \in [Tasks -> Buckets], missed' \subseteq Tasks
      PROVE  TypeOK' /\ Parsed'
  <2>1. epoch \in Epochs /\ \A s \in Tasks : asked[s] \in Epochs
    BY DEF Epochs
  <2>2. asked' \in [Tasks -> Epochs] /\ since' \in [Tasks -> SUBSET Epochs]
    BY <1>2, <2>1 DEF Ask
  <2>3. refreshed' \subseteq Tasks /\ overlapped' \subseteq Tasks
    BY <1>2 DEF Ask, Refreshing
  <2>4. QED
    BY <1>2, <2>2, <2>3 DEF Ask, Refreshing
<1>3. ASSUME NEW t \in Tasks, Return(t) PROVE TypeOK' /\ Parsed'
  BY <1>3, NoAnswerType DEF Return, Refreshing, Answer
<1>4. ASSUME NEW t \in Tasks, Miss(t) PROVE TypeOK' /\ Parsed'
  BY <1>2, <1>3, <1>4 DEF Miss
<1>5. ASSUME NEW t \in Tasks, StartRefresh(t) PROVE TypeOK' /\ Parsed'
  BY <1>2, <1>5 DEF StartRefresh, Start
<1>6. ASSUME NEW t \in Tasks, ReadRoute(t) PROVE TypeOK' /\ Parsed'
  BY <1>6 DEF ReadRoute
<1>7. ASSUME NEW t \in Tasks, ReadServer(t) PROVE TypeOK' /\ Parsed'
  BY <1>7 DEF ReadServer
<1>8. ASSUME NEW t \in Tasks, Answered(t) PROVE TypeOK' /\ Parsed'
  <2>1. PICK listed \in SUBSET Nodes, coordinator \in Nodes \cup {NoNode} :
          AnswerOf(t, listed, coordinator)
    BY <1>8, AnswerSteps
  <2>2. [leader |-> leader, epoch |-> epoch, coordinator |-> coordinator,
         listed |-> listed] \in Answer
    BY DEF Answer, Epochs
  <2>3. answer' \in [Tasks -> Answer] /\ todo' \in [Tasks -> SUBSET (Nodes \cup Buckets)]
    BY <2>1, <2>2 DEF AnswerOf
  <2>4. QED
    BY <2>1, <2>3, CacheAssumption DEF AnswerOf, Refreshing
<1>9. ASSUME NEW t \in Tasks, StoreCoordinator(t) PROVE TypeOK' /\ Parsed'
  BY <1>9 DEF StoreCoordinator, Refreshing
<1>10. ASSUME NEW t \in Tasks, NEW n \in Nodes, StoreServer(t, n)
       PROVE  TypeOK' /\ Parsed'
  BY <1>10 DEF StoreServer
<1>11. ASSUME NEW t \in Tasks, ParseTable(t) PROVE TypeOK' /\ Parsed'
  <2>1. \A b \in Buckets : answer[t].leader[b] \in Nodes \cup {NoNode}
    BY DEF Answer
  <2>2. QED
    BY <1>11, <2>1 DEF ParseTable, Leaderless, Refreshing
<1>12. ASSUME NEW t \in Tasks, NEW b \in Buckets, StoreRoute(t, b)
       PROVE  TypeOK' /\ Parsed'
  <2>1. RouteOf(answer[t], b) \in Route
    BY <1>12 DEF StoreRoute, RouteOf, Route, Answer, Epochs
  <2>2. QED
    BY <1>12, <2>1 DEF StoreRoute
<1>13. ASSUME NEW t \in Tasks, RefreshEnds(t) PROVE TypeOK' /\ Parsed'
  <2>1. [NoAnswer EXCEPT !.epoch = answer[t].epoch] \in Answer
    BY NoAnswerType DEF Answer
  <2>2. NoAnswer.epoch \in Epochs
    BY NoAnswerType DEF Answer
  <2>3. QED
    BY <1>13, <2>1, <2>2 DEF RefreshEnds, Forget
<1>14. ASSUME NEW b \in Buckets, Elect(b) PROVE TypeOK' /\ Parsed'
  BY <1>14 DEF Elect
<1>15. CASE UNCHANGED vars
  BY <1>15 DEF vars
<1>16. QED
  BY <1>1, <1>3, <1>4, <1>5, <1>6, <1>7, <1>8, <1>9, <1>10, <1>11, <1>12, <1>13,
     <1>14, <1>15
     DEF Next, Lookup, Refresh, MissRoute, MissServer, UseServer, RefreshFails, ParseFails

-------------------------------------------------------------------------------
(* Servers before routes *)

(* Steps of a lookup, the end of a refresh and those of the cluster leave  *)
(* the cache alone, and move a task neither into storing nor on in it.     *)
Stays(t) ==
  /\ pc'[t] = pc[t] /\ found'[t] = found[t] /\ bucket'[t] = bucket[t]
  /\ answer'[t] = answer[t] /\ todo'[t] = todo[t]

Leaves(t) ==
  /\ pc'[t] \in {"start", "lookup", "asked"}
  /\ \A b \in Buckets : answer'[t].epoch[b] \in {0, answer[t].epoch[b]}

Reads(t) ==
  /\ pc[t] = "lookup" /\ pc'[t] = "server" /\ UNCHANGED <<bucket, answer, todo>>
  /\ found'[t] = routes[bucket[t]] /\ routes[bucket[t]] # NoRoute

Finds(t) ==
  /\ pc[t] = "server" /\ pc'[t] = "node" /\ UNCHANGED <<bucket, answer, todo>>
  /\ found'[t] = found[t]

CacheQuiet ==
  /\ UNCHANGED cacheVars
  /\ \A t \in Tasks : Stays(t) \/ Leaves(t) \/ Reads(t) \/ Finds(t)
  /\ \A b \in Buckets :
       \/ epoch'[b] = epoch[b] /\ leader'[b] = leader[b]
       \/ epoch'[b] = epoch[b] + 1

LEMMA QuietSteps ==
  ASSUME TypeOK,
         \/ \E t \in Tasks : Lookup(t) \/ RefreshFails(t) \/ ParseFails(t) \/ RefreshEnds(t)
         \/ \E b \in Buckets : Elect(b)
         \/ UNCHANGED vars
  PROVE  CacheQuiet
<1> USE DEF CacheQuiet, Stays, Leaves, Reads, Finds, TypeOK, Goto, clusterVars,
            cacheVars, refreshVars, historyVars
<1>1. ASSUME NEW t \in Tasks, StartLookup(t) PROVE CacheQuiet
  BY <1>1 DEF StartLookup, Start
<1>2. ASSUME NEW t \in Tasks, Ask(t),
             \A s \in Tasks : s # t => bucket'[s] = bucket[s]
      PROVE  CacheQuiet
  BY <1>2 DEF Ask
<1>3. ASSUME NEW t \in Tasks, Return(t) PROVE CacheQuiet
  BY <1>3 DEF Return, NoAnswer
<1>4. ASSUME NEW t \in Tasks, Miss(t) PROVE CacheQuiet
  BY <1>2, <1>3, <1>4 DEF Miss
<1>5. ASSUME NEW t \in Tasks, StartRefresh(t) PROVE CacheQuiet
  BY <1>2, <1>5 DEF StartRefresh, Start
<1>6. ASSUME NEW t \in Tasks, ReadRoute(t) PROVE CacheQuiet
  BY <1>6 DEF ReadRoute
<1>7. ASSUME NEW t \in Tasks, ReadServer(t) PROVE CacheQuiet
  BY <1>7 DEF ReadServer
<1>8. ASSUME NEW t \in Tasks, RefreshEnds(t) PROVE CacheQuiet
  BY <1>8 DEF RefreshEnds, Forget, NoAnswer
<1>9. ASSUME NEW b \in Buckets, Elect(b) PROVE CacheQuiet
  BY <1>9 DEF Elect
<1>10. CASE UNCHANGED vars
  BY <1>10 DEF vars
<1>11. QED
  BY <1>1, <1>3, <1>4, <1>5, <1>6, <1>7, <1>8, <1>9, <1>10
     DEF Lookup, MissRoute, MissServer, UseServer, RefreshFails, ParseFails

LEMMA ServersKept ==
  ASSUME TypeOK, Parsed, NamedStored, ServersBeforeRoutes, [Next]_vars
  PROVE  NamedStored' /\ ServersBeforeRoutes'
<1> USE DEF NamedStored, Named, ServersBeforeRoutes, TypeOK, Goto, clusterVars, cacheVars
<1> DEFINE Goal == NamedStored' /\ ServersBeforeRoutes'
<1>1. CASE CacheQuiet
  BY <1>1 DEF CacheQuiet, Stays, Leaves, Reads, Finds
<1>2. ASSUME NEW t \in Tasks, Answered(t) PROVE Goal
  <2>1. PICK listed \in SUBSET Nodes, coordinator \in Nodes \cup {NoNode} :
          AnswerOf(t, listed, coordinator)
    BY <1>2, AnswerSteps
  <2>2. QED
    BY <2>1 DEF AnswerOf
<1>3. ASSUME NEW t \in Tasks, StoreCoordinator(t) PROVE Goal
  BY <1>3 DEF StoreCoordinator, refreshVars
<1>4. ASSUME NEW t \in Tasks, NEW n \in Nodes, StoreServer(t, n) PROVE Goal
  BY <1>4 DEF StoreServer
<1>5. ASSUME NEW t \in Tasks, ParseTable(t) PROVE Goal
  BY <1>5 DEF ParseTable
<1>6. ASSUME NEW t \in Tasks, NEW b \in Buckets, StoreRoute(t, b) PROVE Goal
  <2>1. answer[t].leader[b] \in Nodes /\ Named(answer[t]) \subseteq servers
    BY <1>6 DEF StoreRoute, Parsed
  <2>2. RouteOf(answer[t], b).named => RouteOf(answer[t], b).leader \in servers
    BY <2>1, CacheAssumption DEF RouteOf
  <2>3. QED
    BY <1>6, <2>2 DEF StoreRoute
<1>7. QED
  BY <1>1, <1>2, <1>3, <1>4, <1>5, <1>6, QuietSteps DEF Next, Refresh

-------------------------------------------------------------------------------
(* Routes come from the cluster *)

LEMMA FromClusterKept ==
  ASSUME TypeOK, FromCluster, [Next]_vars
  PROVE  FromCluster'
<1> USE DEF FromCluster, WasLeader, TypeOK, Goto, clusterVars, cacheVars
<1>1. CASE CacheQuiet
  <2> DEFINE WasNow(n, e, b) == e <= epoch'[b] /\ (e = epoch'[b] => n = leader'[b])
  <2>1. \A t \in Tasks, b \in Buckets :
          answer[t].epoch[b] \in Nat /\ epoch[b] \in Nat /\ epoch'[b] \in Nat
                /\ epoch[b] <= epoch'[b]
    <3>1. \A t \in Tasks, b \in Buckets : answer[t].epoch[b] \in Nat
      BY DEF Answer, Epochs
    <3>2. \A b \in Buckets : epoch[b] \in Nat
      OBVIOUS
    <3>3. \A b \in Buckets : epoch'[b] \in {epoch[b], epoch[b] + 1}
      BY <1>1 DEF CacheQuiet
    <3>4. QED
      BY <3>1, <3>2, <3>3
  <2>2. \A b \in Buckets : routes[b].epoch \in Nat
    BY DEF Route, NoRoute
  <2>3. \A t \in Tasks : found[t].epoch \in Nat
    BY DEF Route, NoRoute
  <2>4. ASSUME NEW n, NEW e \in Nat, NEW b \in Buckets, WasLeader(n, e, b)
        PROVE  WasNow(n, e, b)
    BY <1>1, <2>4, <2>1 DEF CacheQuiet
  <2>5. \A t \in Tasks, b \in Buckets : answer'[t].epoch[b] <= epoch'[b]
    <3> SUFFICES ASSUME NEW t \in Tasks, NEW b \in Buckets
                 PROVE  answer'[t].epoch[b] <= epoch'[b]
      OBVIOUS
    <3>1. answer'[t].epoch[b] \in {0, answer[t].epoch[b]}
      BY <1>1 DEF CacheQuiet, Stays, Leaves, Reads, Finds
    <3>2. answer[t].epoch[b] <= epoch[b]
      OBVIOUS
    <3>3. QED
      BY <2>1, <3>1, <3>2
  <2>6. \A t \in Tasks, b \in Buckets :
          pc'[t] \in Ingesting
            => WasNow(answer'[t].leader[b], answer'[t].epoch[b], b)
    <3>1. \A t \in Tasks : pc'[t] \in Ingesting => Stays(t)
      BY <1>1 DEF CacheQuiet, Leaves, Reads, Finds, Ingesting
    <3>2. ASSUME NEW t \in Tasks, NEW b \in Buckets, pc'[t] \in Ingesting
          PROVE  WasNow(answer'[t].leader[b], answer'[t].epoch[b], b)
      <4>1. answer'[t] = answer[t] /\ pc[t] \in Ingesting
        BY <3>1, <3>2 DEF Stays
      <4>2. WasLeader(answer[t].leader[b], answer[t].epoch[b], b)
        BY <4>1
      <4>3. WasNow(answer[t].leader[b], answer[t].epoch[b], b)
        BY <2>1, <2>4, <4>2
      <4>4. QED
        BY <4>1, <4>3
    <3>3. QED
      BY <3>2
  <2>7. ASSUME NEW b \in Buckets, routes[b] # NoRoute
        PROVE  WasNow(routes[b].leader, routes[b].epoch, b)
    BY <2>2, <2>4, <2>7
  <2>8. ASSUME NEW t \in Tasks, pc'[t] \in {"server", "node"}
        PROVE  WasNow(found'[t].leader, found'[t].epoch, bucket'[t])
    <3>1. bucket'[t] = bucket[t] /\ bucket[t] \in Buckets
      BY <1>1, <2>8 DEF CacheQuiet, Stays, Leaves, Reads, Finds
    <3>2. CASE pc[t] \in {"server", "node"} /\ found'[t] = found[t]
      <4>1. WasLeader(found[t].leader, found[t].epoch, bucket[t])
        BY <3>2
      <4>2. WasNow(found[t].leader, found[t].epoch, bucket[t])
        BY <2>3, <2>4, <3>1, <4>1
      <4>3. QED
        BY <3>1, <3>2, <4>2
    <3>3. CASE found'[t] = routes[bucket[t]] /\ routes[bucket[t]] # NoRoute
      <4> DEFINE r == routes[bucket[t]]
      <4>1. WasNow(r.leader, r.epoch, bucket[t])
        BY <2>7, <3>1, <3>3
      <4>2. QED
        BY <3>1, <3>3, <4>1
    <3>4. QED
      BY <1>1, <2>8, <3>2, <3>3 DEF CacheQuiet, Stays, Leaves, Reads, Finds
  <2>9. routes' = routes
    BY <1>1 DEF CacheQuiet
  <2>10. QED
    <3>1. \A b \in Buckets :
            routes'[b] # NoRoute => WasNow(routes'[b].leader, routes'[b].epoch, b)
      BY <2>7, <2>9
    <3>2. NoRoute' = NoRoute
      BY DEF NoRoute
    <3>3. QED
      BY <2>5, <2>6, <2>8, <3>1, <3>2
<1>2. ASSUME NEW t \in Tasks, Answered(t) PROVE FromCluster'
  <2>1. PICK listed \in SUBSET Nodes, coordinator \in Nodes \cup {NoNode} :
          AnswerOf(t, listed, coordinator)
    BY <1>2, AnswerSteps
  <2>2. QED
    BY <2>1 DEF AnswerOf, Ingesting
<1>3. ASSUME NEW t \in Tasks, StoreCoordinator(t) PROVE FromCluster'
  BY <1>3 DEF StoreCoordinator, refreshVars, Ingesting
<1>4. ASSUME NEW t \in Tasks, NEW n \in Nodes, StoreServer(t, n)
      PROVE  FromCluster'
  BY <1>4 DEF StoreServer
<1>5. ASSUME NEW t \in Tasks, ParseTable(t) PROVE FromCluster'
  BY <1>5 DEF ParseTable, Ingesting
<1>6. ASSUME NEW t \in Tasks, NEW b \in Buckets, StoreRoute(t, b)
      PROVE  FromCluster'
  BY <1>6 DEF StoreRoute, RouteOf, Ingesting
<1>7. QED
  BY <1>1, <1>2, <1>3, <1>4, <1>5, <1>6, QuietSteps DEF Next, Refresh

-------------------------------------------------------------------------------
(* A lone refresh sticks *)

(* Epochs are numbers. *)
LEMMA EpochsNat ==
  ASSUME TypeOK
  PROVE  /\ \A t \in Tasks, b \in Buckets :
              answer[t].epoch[b] \in Nat /\ asked[t][b] \in Nat
         /\ \A b \in Buckets : routes[b].epoch \in Nat /\ epoch[b] \in Nat
         /\ \A t \in Tasks : found[t].epoch \in Nat /\ bucket[t] \in Buckets
         /\ \A t \in Tasks : \A e \in since[t] : \A b \in Buckets : e[b] \in Nat
BY DEF TypeOK, Answer, Route, NoRoute, Epochs

LEMMA SticksKept ==
  ASSUME TypeOK, FromCluster, SticksInv, [Next]_vars
  PROVE  SticksInv'
<1> USE EpochsNat DEF SticksInv, FreshAtStart, OverlapSeen, RefreshSticks,
        StoredSoFar, LaterAnswers, FoundSince, Alone, Refreshing, Ingesting
<1> USE DEF TypeOK, Goto, clusterVars, cacheVars, refreshVars, historyVars
<1>1. ASSUME NEW t \in Tasks, StartLookup(t) PROVE SticksInv'
  BY <1>1 DEF StartLookup, Start
<1>2. ASSUME NEW t \in Tasks, pc[t] \notin Refreshing, Ask(t),
             \A s \in Tasks : s # t => bucket'[s] = bucket[s]
      PROVE  SticksInv'
  BY <1>2 DEF Ask
<1>3. ASSUME NEW t \in Tasks, Return(t) PROVE SticksInv'
  BY <1>3 DEF Return
<1>4. ASSUME NEW t \in Tasks, ReadRoute(t) PROVE SticksInv'
  BY <1>4 DEF ReadRoute
<1>5. ASSUME NEW t \in Tasks, ReadServer(t) PROVE SticksInv'
  BY <1>5 DEF ReadServer
<1>6. ASSUME NEW t \in Tasks, pc[t] \in {"lookup", "server"}, Miss(t)
      PROVE  SticksInv'
  BY <1>2, <1>3, <1>6 DEF Miss
<1>7. ASSUME NEW t \in Tasks, StartRefresh(t) PROVE SticksInv'
  BY <1>2, <1>7 DEF StartRefresh, Start
<1>8. ASSUME NEW t \in Tasks, Answered(t) PROVE SticksInv'
  <2>1. PICK listed \in SUBSET Nodes, coordinator \in Nodes \cup {NoNode} :
          AnswerOf(t, listed, coordinator)
    BY <1>8, AnswerSteps
  <2>2. QED
    BY <2>1 DEF AnswerOf, FromCluster
<1>9. ASSUME NEW t \in Tasks, StoreCoordinator(t) PROVE SticksInv'
  BY <1>9 DEF StoreCoordinator
<1>10. ASSUME NEW t \in Tasks, NEW n \in Nodes, StoreServer(t, n)
       PROVE  SticksInv'
  BY <1>10 DEF StoreServer
<1>11. ASSUME NEW t \in Tasks, ParseTable(t) PROVE SticksInv'
  BY <1>11 DEF ParseTable
<1>12. ASSUME NEW t \in Tasks, NEW b \in Buckets, StoreRoute(t, b)
       PROVE  SticksInv'
  BY <1>12 DEF StoreRoute, RouteOf
<1>13. ASSUME NEW t \in Tasks, RefreshEnds(t) PROVE SticksInv'
  <2>1. \A s \in Tasks : answer'[s].epoch = answer[s].epoch
    BY <1>13 DEF RefreshEnds, Forget, NoAnswer
  <2>2. /\ pc[t] = "routes" /\ todo[t] = {} /\ pc' = [pc EXCEPT ![t] = "lookup"]
        /\ UNCHANGED <<routes, refreshed, overlapped, todo, found, bucket>>
    BY <1>13 DEF RefreshEnds
  <2>3. FreshAtStart' /\ OverlapSeen'
    BY <2>2
  <2>4. RefreshSticks'
    <3>1. ASSUME t \in Alone PROVE \A b \in Buckets : routes[b].epoch >= answer[t].epoch[b]
      BY <2>2, <3>1
    <3>2. QED
      BY <2>1, <2>2, <3>1
  <2>5. StoredSoFar' /\ FoundSince'
    BY <2>1, <2>2
  <2>6. LaterAnswers'
    <3>1. t \in Alone => \A s \in Tasks : pc'[s] \notin Ingesting
      BY <2>2
    <3>2. QED
      BY <2>1, <2>2, <3>1
  <2>7. QED
    BY <2>3, <2>4, <2>5, <2>6
<1>14. ASSUME NEW b \in Buckets, Elect(b) PROVE SticksInv'
  BY <1>14 DEF Elect
<1>15. CASE UNCHANGED vars
  BY <1>15 DEF vars
<1>16. QED
  BY <1>1, <1>3, <1>4, <1>5, <1>6, <1>7, <1>8, <1>9, <1>10, <1>11, <1>12, <1>13,
     <1>14, <1>15
     DEF Next, Lookup, Refresh, MissRoute, MissServer, UseServer, RefreshFails, ParseFails

-------------------------------------------------------------------------------
(* No lookup goes behind its own refresh and those that overlapped it *)

LEMMA SinceKept ==
  ASSUME TypeOK, SinceInv, [Next]_vars
  PROVE  SinceInv'
<1> USE EpochsNat DEF SinceInv, FreshAtStart, AskedBefore, AskedSince, ReadSince, Since,
        Refreshing, Ingesting
<1> USE DEF TypeOK, Goto, clusterVars, cacheVars, refreshVars, historyVars
<1>1. ASSUME NEW t \in Tasks, StartLookup(t) PROVE SinceInv'
  BY <1>1 DEF StartLookup, Start
<1>2. ASSUME NEW t \in Tasks, pc[t] \notin Refreshing, Ask(t),
             \A s \in Tasks : s # t => bucket'[s] = bucket[s]
      PROVE  SinceInv'
  <2>1. /\ pc' = [pc EXCEPT ![t] = "asked"]
        /\ refreshed' = refreshed \cup {t}
        /\ asked' = [asked EXCEPT ![t] = epoch]
        /\ since' = [since EXCEPT ![t] = {asked[s] : s \in {r \in Tasks : pc[r] \in Refreshing}}
                                          \cup {epoch}]
        /\ UNCHANGED <<clusterVars, cacheVars, answer, todo, found>>
    BY <1>2 DEF Ask
  <2>2. AskedBefore'
    BY <2>1
  <2>3. ASSUME NEW r \in refreshed', NEW b \in Buckets
        PROVE  /\ Since(r, b, epoch[b])'
               /\ \A s \in Tasks : pc'[s] \in Refreshing => Since(r, b, asked[s][b])'
    <3>1. CASE r = t
      <4>1. since'[t] = {asked[s] : s \in {q \in Tasks : pc[q] \in Refreshing}} \cup {epoch}
        BY <2>1
      <4>2. Since(t, b, epoch[b])'
        BY <2>1, <4>1
      <4>3. ASSUME NEW s \in Tasks, s # t, pc'[s] \in Refreshing
            PROVE  Since(t, b, asked[s][b])'
        <5>1. pc[s] \in Refreshing /\ asked'[s] = asked[s] /\ asked[s][b] \in Nat
          BY <2>1, <4>3
        <5>2. asked[s] \in since'[t]
          BY <4>1, <5>1
        <5>3. asked[s][b] <= asked'[s][b]
          BY <5>1
        <5>4. QED
          BY <5>2, <5>3
      <4>4. QED
        BY <2>1, <3>1, <4>2, <4>3
    <3>2. CASE r # t
      BY <2>1, <2>3, <3>2
    <3>3. QED
      BY <3>1, <3>2
  <2>4. AskedSince'
    BY <2>1, <2>3
  <2>5. QED
    BY <1>2, <2>1, <2>2, <2>4
<1>3. ASSUME NEW t \in Tasks, Return(t) PROVE SinceInv'
  BY <1>3 DEF Return, NoAnswer
<1>4. ASSUME NEW t \in Tasks, ReadRoute(t) PROVE SinceInv'
  BY <1>4 DEF ReadRoute
<1>5. ASSUME NEW t \in Tasks, ReadServer(t) PROVE SinceInv'
  BY <1>5 DEF ReadServer
<1>6. ASSUME NEW t \in Tasks, pc[t] \in {"lookup", "server"}, Miss(t)
      PROVE  SinceInv'
  BY <1>2, <1>3, <1>6 DEF Miss
<1>7. ASSUME NEW t \in Tasks, StartRefresh(t) PROVE SinceInv'
  BY <1>2, <1>7 DEF StartRefresh, Start
<1>8. ASSUME NEW t \in Tasks, Answered(t) PROVE SinceInv'
  <2>1. PICK listed \in SUBSET Nodes, coordinator \in Nodes \cup {NoNode} :
          AnswerOf(t, listed, coordinator)
    BY <1>8, AnswerSteps
  <2>2. QED
    BY <2>1 DEF AnswerOf
<1>9. ASSUME NEW t \in Tasks, StoreCoordinator(t) PROVE SinceInv'
  BY <1>9 DEF StoreCoordinator
<1>10. ASSUME NEW t \in Tasks, NEW n \in Nodes, StoreServer(t, n)
       PROVE  SinceInv'
  BY <1>10 DEF StoreServer
<1>11. ASSUME NEW t \in Tasks, ParseTable(t) PROVE SinceInv'
  BY <1>11 DEF ParseTable
<1>12. ASSUME NEW t \in Tasks, NEW b \in Buckets, StoreRoute(t, b)
       PROVE  SinceInv'
  <2>1. routes' = [routes EXCEPT ![b] = RouteOf(answer[t], b)]
    BY <1>12 DEF StoreRoute
  <2>2. ASSUME NEW r \in refreshed PROVE Since(r, b, answer[t].epoch[b])
    <3>1. PICK old \in since[r] : old[b] <= asked[t][b]
      BY <1>12, <2>2 DEF StoreRoute
    <3>2. asked[t][b] <= answer[t].epoch[b]
      BY <1>12 DEF StoreRoute
    <3>3. QED
      BY <2>2, <3>1, <3>2
  <2>3. /\ pc[t] = "routes" /\ todo' = [todo EXCEPT ![t] = @ \ {b}]
        /\ UNCHANGED <<pc, epoch, asked, answer, since, refreshed, found, bucket>>
    BY <1>12 DEF StoreRoute
  <2>4. FreshAtStart' /\ AskedBefore' /\ ReadSince'
    BY <2>3
  <2>5. ASSUME NEW r \in refreshed, NEW c \in Buckets, c # b,
               Since(r, c, routes[c].epoch)
        PROVE  Since(r, c, routes[c].epoch)'
    BY <2>1, <2>3, <2>5
  <2>6. ASSUME NEW r \in refreshed PROVE Since(r, b, routes[b].epoch)'
    <3>1. routes'[b].epoch = answer[t].epoch[b]
      BY <2>1 DEF RouteOf
    <3>2. QED
      BY <2>2, <2>3, <2>6, <3>1
  <2>7. AskedSince'
    <3> SUFFICES ASSUME NEW r \in refreshed, NEW c \in Buckets
                 PROVE  /\ Since(r, c, epoch[c])
                        /\ \A s \in Tasks : pc[s] \in Refreshing => Since(r, c, asked[s][c])
                        /\ pc[r] = "routes" /\ c \notin todo'[r]
                             => Since(r, c, routes[c].epoch)'
                        /\ pc[r] \in {"lookup", "server", "node"}
                             => Since(r, c, routes[c].epoch)'
      BY <2>3
    <3>1. c # b /\ c \notin todo'[r] => c \notin todo[r]
      BY <2>3
    <3>2. QED
      BY <2>3, <2>5, <2>6, <3>1
  <2>8. QED
    BY <2>4, <2>7
<1>13. ASSUME NEW t \in Tasks, RefreshEnds(t) PROVE SinceInv'
  BY <1>13 DEF RefreshEnds, Forget, NoAnswer
<1>14. ASSUME NEW b \in Buckets, Elect(b) PROVE SinceInv'
  BY <1>14 DEF Elect
<1>15. CASE UNCHANGED vars
  BY <1>15 DEF vars
<1>16. QED
  BY <1>1, <1>3, <1>4, <1>5, <1>6, <1>7, <1>8, <1>9, <1>10, <1>11, <1>12, <1>13,
     <1>14, <1>15
     DEF Next, Lookup, Refresh, MissRoute, MissServer, UseServer, RefreshFails, ParseFails

-------------------------------------------------------------------------------
(* The theorems *)

LEMMA InitInv == Init => CacheInv
<1> SUFFICES ASSUME Init PROVE CacheInv
  OBVIOUS
<1>1. TypeOK
  BY InitType
<1>2. \A t \in Tasks, b \in Buckets : answer[t].epoch[b] = 0 /\ epoch[b] = 0
  BY DEF Init, NoAnswer
<1>3. Parsed /\ NamedStored /\ ServersBeforeRoutes
  BY DEF Init, Parsed, NamedStored, ServersBeforeRoutes, NoRoute
<1>4. FromCluster
  BY <1>2 DEF Init, FromCluster, Ingesting
<1>5. SticksInv
  BY DEF Init, SticksInv, FreshAtStart, OverlapSeen, RefreshSticks, StoredSoFar,
     LaterAnswers, FoundSince, Alone, Refreshing
<1>6. SinceInv
  BY <1>2 DEF Init, SinceInv, FreshAtStart, AskedBefore, AskedSince, ReadSince, NoAnswer,
     Ingesting
<1>7. QED
  BY <1>1, <1>3, <1>4, <1>5, <1>6 DEF CacheInv

LEMMA StepInv == CacheInv /\ [Next]_vars => CacheInv'
BY NextType, ServersKept, FromClusterKept, SticksKept, SinceKept DEF CacheInv

LEMMA Invariance == Spec => []CacheInv
BY InitInv, StepInv, PTL DEF Spec

(* Cache, cluster and tasks keep their types; no stored route lacks a      *)
(* leader.                                                                 *)
THEOREM Typing == Spec => []TypeOK
<1>1. CacheInv => TypeOK
  BY DEF CacheInv
<1>2. QED
  BY <1>1, Invariance, PTL

(* Whatever refreshes interleave, and whichever fail between the two loops *)
(* of ingestMetadata, no route is visible before its servers.              *)
THEOREM SpecServersBeforeRoutes == Spec => []ServersBeforeRoutes
<1>1. CacheInv => ServersBeforeRoutes
  BY DEF CacheInv
<1>2. QED
  BY <1>1, Invariance, PTL

(* A refresh that overlapped no other is not undone by later ones.         *)
THEOREM SpecRefreshSticks == Spec => []RefreshSticks
<1>1. CacheInv => RefreshSticks
  BY DEF CacheInv, SticksInv
<1>2. QED
  BY <1>1, Invariance, PTL

(* routeFor after a refresh, whatever refreshes overlapped it: no leader   *)
(* from before they were asked for; after a lone one the leader as of its  *)
(* answer or later.                                                        *)
THEOREM SpecRerouteReachesLeader == Spec => []RerouteReachesLeader
<1>1. CacheInv => RerouteReachesLeader
  <2> SUFFICES ASSUME CacheInv, NEW t \in Tasks, t \in refreshed, pc[t] = "node"
               PROVE  /\ \E e \in since[t] : found[t].epoch >= e[bucket[t]]
                      /\ t \notin overlapped => found[t].epoch >= answer[t].epoch[bucket[t]]
                      /\ found[t].epoch = epoch[bucket[t]]
                           => found[t].leader = leader[bucket[t]]
    BY DEF RerouteReachesLeader
  <2>1. \E e \in since[t] : found[t].epoch >= e[bucket[t]]
    <3>1. PICK e \in since[t] : e[bucket[t]] <= found[t].epoch
      BY DEF CacheInv, SinceInv, ReadSince, Since
    <3>2. e[bucket[t]] \in Nat /\ found[t].epoch \in Nat
      BY EpochsNat DEF CacheInv
    <3>3. QED
      BY <3>1, <3>2
  <2>2. t \notin overlapped => found[t].epoch >= answer[t].epoch[bucket[t]]
    BY DEF CacheInv, SticksInv, FoundSince, Alone
  <2>3. found[t].epoch = epoch[bucket[t]] => found[t].leader = leader[bucket[t]]
    BY DEF CacheInv, FromCluster, WasLeader
  <2>4. QED
    BY <2>1, <2>2, <2>3
<1>2. QED
  BY <1>1, Invariance, PTL
===============================================================================
