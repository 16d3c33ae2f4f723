-------------------------- MODULE TableCallsProofs --------------------------
(***************************************************************************)
(* Proofs about TableCalls, for any goroutines, servers, coordinators,     *)
(* buckets and schemas: a call of the table or of the coordinator fails    *)
(* only for a reason, although answers are stored after what they say has  *)
(* changed (client/client.go, client/table.go, client/admin.go), and a row *)
(* keeps to the table it was encoded for (client/row.go).                  *)
(*                                                                         *)
(* A step moves the call of one task (CallMove), is one of a goroutine's   *)
(* request for what is cached (RequestMove) or the cluster's own           *)
(* (ClusterMove).  To the cache and the cluster it is one of five kinds    *)
(* (EnvStep); their types, and that no schema is ever taken back, rest on  *)
(* these alone.  The invariants of the calls are shown for the task that   *)
(* moves and for one that is left alone.                                   *)
(***************************************************************************)
EXTENDS TableCalls, SequenceTheorems, TLAPS

-------------------------------------------------------------------------------
(* What a step does *)

Goroutines == Tasks \cup Fillers

(* What an admin call makes of the tables. *)
TablesStep ==
  /\ \/ /\ ~exists /\ exists' = TRUE /\ Change
        /\ tables' = Append(tables, <<NewSchema>>)
     \/ /\ exists /\ exists' = exists /\ Change
        /\ tables' = [tables EXCEPT ![Current] = Append(@, NewSchema)]
     \/ exists /\ exists' = FALSE /\ UNCHANGED <<tables, changes>>
     \/ UNCHANGED <<tables, exists, changes>>
  /\ UNCHANGED <<leader, term, vacant, cacheVars>>

(* A call of the coordinator or of any server has ended. *)
AdminEnds(t) ==
  /\ At(t, "ask") /\ call' = [call EXCEPT ![t] = Idle] /\ Forget(t) /\ Observe
  /\ TablesStep

TableMove(t) ==
  \/ StartRead(t) \/ StartRowCall(t) \/ Encode(t) \/ TakeTableId(t) \/ NoTableInfo(t)
  \/ GroupByLeader(t) \/ Send(t) \/ Retry(t) \/ NoMoreAttempts(t)

AdminMove(t) ==
  StartQuery(t) \/ StartAdmin(t) \/ AcquireCoordinator(t) \/ AdminEnds(t) \/ AdminRefused(t)

CallMove(t) == TableMove(t) \/ AdminMove(t)

(* A request for what is cached is sent, *)
TaskAsks(t) == AskInfo(t) \/ AskRoute(t) \/ AskAgain(t) \/ AskCoordinator(t)
Asks(g) == (g \in Tasks /\ TaskAsks(g)) \/ (g \in Fillers /\ Ask(g, None))

(* or answered, or the answer is stored, *)
StoreStep(g) ==
  GetTableInfo(g) \/ \E path, partition \in BOOLEAN : RefreshMetadata(g, path, partition)
Stores(g) ==
  StoreStep(g) /\ (g \in Tasks => StoreInfo(g) \/ StoreRoutes(g) \/ StoreCoordinator(g))

(* or the filler that sent it has no answer. *)
Drops(g) ==
  /\ g \in Fillers /\ Requested(g, "sent") /\ Forget(g)
  /\ UNCHANGED <<clusterVars, cacheVars, call>> /\ Observe

RequestMove(g) == Asks(g) \/ Receive(g) \/ Stores(g) \/ Drops(g)

(* What the cluster does by itself. *)
LeaderStep ==
  /\ \E b \in Buckets, s \in Servers \cup {None} : leader' = [leader EXCEPT ![b] = s]
  /\ changes' = changes \/ Change
  /\ UNCHANGED <<tables, exists, term, vacant, cacheVars>>

CoordinatorStep ==
  /\ \/ ~vacant /\ term < Len(Coordinators) /\ vacant' = TRUE /\ Change /\ UNCHANGED term
     \/ vacant /\ vacant' = FALSE /\ term' = term + 1 /\ UNCHANGED changes
  /\ UNCHANGED <<tables, exists, leader, cacheVars>>

ClusterMove == (LeaderStep \/ CoordinatorStep) /\ UNCHANGED <<request, call>> /\ Observe

(* An admin's step begins a call, goes on to ask, ends with an answer that *)
(* may change the tables, or is refused; or it is of the request for the   *)
(* coordinator.                                                            *)
LEMMA AdminSteps ==
  ASSUME NEW t, AdminStep(t)
  PROVE  AdminMove(t) \/ AskCoordinator(t) \/ StoreCoordinator(t)
<1>1. CASE CreateTable(t)
  BY <1>1 DEF CreateTable, Executed, AdminEnds, TablesStep, AdminMove
<1>2. CASE AlterTable(t)
  BY <1>2 DEF AlterTable, Executed, AdminEnds, TablesStep, AdminMove
<1>3. CASE DropTable(t) \/ DropDatabase(t)
  BY <1>3 DEF DropTable, DropDatabase, Executed, AdminEnds, TablesStep, AdminMove
<1>4. CASE TablesStay(t)
  BY <1>4 DEF TablesStay, Executed, AdminEnds, TablesStep, AdminMove
<1>5. CASE Query(t)
  BY <1>5 DEF Query, Proceed, AdminEnds, TablesStep, clusterVars, AdminMove
<1>6. QED
  BY <1>1, <1>2, <1>3, <1>4, <1>5
     DEF AdminStep, CreateDatabase, PartitionCall, InitWriter, AdminMove,
         DatabaseQuery, TableNames, TableQuery, LakeSnapshot

(* Every step is a call's, a request's or the cluster's. *)
LEMMA NextSteps ==
  ASSUME Next
  PROVE  \/ \E t \in Tasks : CallMove(t)
         \/ \E g \in Goroutines : RequestMove(g)
         \/ ClusterMove
<1>1. ASSUME NEW t \in Callers, TableStep(t) PROVE CallMove(t) \/ RequestMove(t)
  <2>1. t \in Tasks
    BY DEF Tasks
  <2>2. StoreInfo(t) \/ StoreRoutes(t) => Stores(t)
    BY DEF StoreInfo, StoreRoutes, Stores, StoreStep
  <2>3. AskInfo(t) \/ AskRoute(t) \/ AskAgain(t) => Asks(t)
    BY <2>1 DEF Asks, TaskAsks
  <2>4. QED
    BY <1>1, <2>2, <2>3 DEF TableStep, CallMove, TableMove, RequestMove
<1>2. ASSUME NEW t \in Admins, AdminStep(t) PROVE CallMove(t) \/ RequestMove(t)
  <2>1. t \in Tasks
    BY DEF Tasks
  <2>2. StoreCoordinator(t) => Stores(t)
    BY DEF StoreCoordinator, Stores, StoreStep
  <2>3. AskCoordinator(t) => Asks(t)
    BY <2>1 DEF Asks, TaskAsks
  <2>4. QED
    BY <1>2, <2>2, <2>3, AdminSteps DEF CallMove, RequestMove
<1>3. ASSUME NEW f \in Fillers, Fill(f) PROVE RequestMove(f)
  <2>1. f \notin Tasks
    BY TableAssumption DEF Tasks
  <2>2. QED
    BY <1>3, <2>1 DEF Fill, RequestMove, Asks, Stores, StoreStep, Drops
<1>4. ASSUME NEW b \in Buckets, Elect(b) PROVE ClusterMove
  BY <1>4 DEF Elect, ClusterMove, LeaderStep
<1>5. CASE CoordinatorFails \/ CoordinatorElected
  BY <1>5 DEF CoordinatorFails, CoordinatorElected, ClusterMove, CoordinatorStep
<1>6. QED
  BY <1>1, <1>2, <1>3, <1>4, <1>5 DEF Next, ClusterStep, Tasks, Goroutines, RequestMove

(* A call that moves leaves the cache alone, and its request is over. *)
LEMMA CallMoveIs ==
  ASSUME NEW t, CallMove(t)
  PROVE  /\ Forget(t) /\ Observe
         /\ UNCHANGED <<clusterVars, cacheVars>> \/ TablesStep
<1>1. CASE TableMove(t)
  BY <1>1 DEF TableMove, StartRead, StartRowCall, Begin, Encode, TakeTableId, NoTableInfo,
              GroupByLeader, Send, Retry, NoMoreAttempts, Proceed
<1>2. CASE AdminMove(t)
  BY <1>2 DEF AdminMove, StartQuery, StartAdmin, Begin, AcquireCoordinator, AdminEnds,
              AdminRefused, Proceed
<1>3. QED
  BY <1>1, <1>2 DEF CallMove

(* A step of a request leaves the calls and the cluster alone; one that    *)
(* changes the cache stores an answer.                                     *)
LEMMA RequestMoveIs ==
  ASSUME NEW g \in Goroutines, RequestMove(g)
  PROVE  /\ UNCHANGED <<clusterVars, call>> /\ Observe
         /\ UNCHANGED cacheVars \/ StoreStep(g)
<1>1. CASE Asks(g)
  BY <1>1 DEF Asks, TaskAsks, AskInfo, AskRoute, AskAgain, AskCoordinator, Ask
<1>2. CASE Receive(g)
  BY <1>2 DEF Receive
<1>3. CASE Stores(g)
  BY <1>3 DEF Stores, StoreStep, GetTableInfo, RefreshMetadata
<1>4. CASE Drops(g)
  BY <1>4 DEF Drops
<1>5. QED
  BY <1>1, <1>2, <1>3, <1>4 DEF RequestMove

EnvStep ==
  \/ UNCHANGED <<clusterVars, cacheVars>>
  \/ \E g \in Goroutines : StoreStep(g) /\ UNCHANGED clusterVars
  \/ TablesStep \/ LeaderStep \/ CoordinatorStep

(* Every step is of one of these kinds to the cache and the cluster, *)
LEMMA EnvSteps == [Next]_vars => EnvStep
<1>1. CASE UNCHANGED vars
  BY <1>1 DEF vars, EnvStep
<1>2. CASE Next
  BY <1>2, NextSteps, CallMoveIs, RequestMoveIs DEF ClusterMove, EnvStep
<1>3. QED
  BY <1>1, <1>2

(* and keeps the history. *)
LEMMA NextObserves == Next => Observe
BY NextSteps, CallMoveIs, RequestMoveIs DEF ClusterMove

-------------------------------------------------------------------------------
(* Types of the cluster, the cache and the requests *)

Columns == {Schemas[i] : i \in DOMAIN Schemas}

(* The schemas are used up one by one. *)
ClusterTypes ==
  /\ tables \in Seq(Seq(Columns)) /\ Current >= 1
  /\ \A i \in 1 .. Current : Len(tables[i]) >= 1
  /\ Current + Len(tables[Current]) <= changes + 2
  /\ exists \in BOOLEAN /\ vacant \in BOOLEAN
  /\ term \in 1 .. Len(Coordinators) /\ (vacant => term < Len(Coordinators))
  /\ leader \in [Buckets -> Servers \cup {None}] /\ changes \in 0 .. ChangeBound

(* A coordinator there was, and a table and a schema there were. *)
Past(c) == c # None => \E i \in 1 .. term : c = Coordinators[i]
Known(i) == i # NoInfo => i.id \in 1 .. Current /\ i.schema \in DOMAIN tables[i.id]

Infos == [id : Nat, schema : Nat]

CacheTypes ==
  /\ Past(coordinator) /\ info \in Infos /\ Known(info)
  /\ routes \in [TableIds -> [Buckets -> Servers \cup {None}]]

Addresses == {None, Seed} \cup {Coordinators[i] : i \in DOMAIN Coordinators}
Metadatas == [coordinator : Addresses, info : Infos, leader : [Buckets -> Servers \cup {None}]]
Requests == [at : {"none", "sent", "answered", "over"}, to : Addresses,
             bucket : Buckets \cup {None}, answer : Metadatas]

RequestTypes ==
  /\ request \in [Goroutines -> Requests]
  /\ \A g \in Goroutines : /\ Past(request[g].answer.coordinator)
                           /\ Known(request[g].answer.info)

(* No table's schema is ever taken back. *)
TablesGrow ==
  /\ Current' >= Current /\ Current' \in Nat
  /\ \A i \in 1 .. Current : /\ Len(tables'[i]) >= Len(tables[i])
                             /\ \A j \in 1 .. Len(tables[i]) : tables'[i][j] = tables[i][j]

(* There are at most as many tables as changes allow, each with schemas. *)
LEMMA CurrentBound ==
  ClusterTypes => /\ Current \in TableIds /\ Current \in Nat
                  /\ \A i \in 1 .. Current : tables[i] \in Seq(Columns)
                  /\ DOMAIN tables = 1 .. Current
<1> SUFFICES ASSUME ClusterTypes
             PROVE  /\ Current \in TableIds /\ Current \in Nat
                    /\ \A i \in 1 .. Current : tables[i] \in Seq(Columns)
                    /\ DOMAIN tables = 1 .. Current
  OBVIOUS
<1>1. /\ Current \in Nat /\ DOMAIN tables = 1 .. Current
      /\ \A i \in 1 .. Current : tables[i] \in Seq(Columns)
  BY DEF ClusterTypes, Current
<1>2. Current \in 1 .. Current
  BY <1>1 DEF ClusterTypes
<1>3. Len(tables[Current]) \in Nat /\ Len(tables[Current]) >= 1
  BY <1>1, <1>2 DEF ClusterTypes
<1> DEFINE n == Len(tables[Current])
           m == Current
<1>4. m \in Nat /\ n \in Nat /\ n >= 1 /\ m >= 1 /\ m + n <= changes + 2
      /\ changes \in 0 .. ChangeBound /\ ChangeBound \in Nat
  BY <1>1, <1>3, TableAssumption DEF ClusterTypes
<1> HIDE DEF n, m
<1>5. m \in 1 .. ChangeBound + 1
  BY <1>4
<1>6. QED
  BY <1>1, <1>5 DEF m, TableIds

(* A schema is left for every change that is. *)
LEMMA NewSchemaType ==
  ASSUME ClusterTypes, changes < ChangeBound
  PROVE  NewSchema \in Columns
<1> DEFINE n == Len(tables[Current])
           m == Current
           k == m + n
<1>1. m \in Nat /\ m \in 1 .. Current
  BY CurrentBound DEF ClusterTypes
<1>2. n \in Nat /\ n >= 1
  BY <1>1, CurrentBound DEF ClusterTypes
<1>3. m >= 1 /\ m + n <= changes + 2 /\ changes \in Nat
  BY TableAssumption DEF ClusterTypes
<1>4. Len(Schemas) > ChangeBound /\ ChangeBound \in Nat /\ Len(Schemas) \in Nat
      /\ DOMAIN Schemas = 1 .. Len(Schemas)
  BY TableAssumption
<1> HIDE DEF n, m
<1>5. k \in DOMAIN Schemas
  BY <1>1, <1>2, <1>3, <1>4
<1>6. NewSchema = Schemas[k]
  BY DEF NewSchema, n, m
<1> HIDE DEF k
<1>7. QED
  BY <1>5, <1>6 DEF Columns

(* CreateTable and AlterTable append, DropTable and the others leave the   *)
(* tables as they are.                                                     *)
LEMMA TablesStepGrows ==
  ASSUME ClusterTypes, TablesStep
  PROVE  /\ tables' \in Seq(Seq(Columns)) /\ TablesGrow
         /\ \A i \in 1 .. Current' : Len(tables'[i]) >= 1
         /\ Current' + Len(tables'[Current']) <= changes' + 2
         /\ exists' \in BOOLEAN /\ changes' \in 0 .. ChangeBound
<1>0. /\ Current \in Nat /\ Current \in 1 .. Current /\ DOMAIN tables = 1 .. Current
      /\ \A i \in 1 .. Current : tables[i] \in Seq(Columns)
      /\ changes \in Nat /\ ChangeBound \in Nat /\ changes \in 0 .. ChangeBound
      /\ tables \in Seq(Seq(Columns))
      /\ Current + Len(tables[Current]) <= changes + 2
      /\ \A i \in 1 .. Current : Len(tables[i]) >= 1
  BY CurrentBound, TableAssumption DEF ClusterTypes
<1>1. CASE UNCHANGED <<tables, changes>>
  <2>1. Current' = Current
    BY <1>1 DEF Current
  <2>2. exists' \in BOOLEAN
    BY DEF TablesStep, ClusterTypes
  <2>3. \A i \in 1 .. Current : Len(tables[i]) \in Nat
    BY <1>0
  <2>4. QED
    BY <1>0, <1>1, <2>1, <2>2, <2>3 DEF TablesGrow
<1>2. CASE exists' = TRUE /\ Change /\ tables' = Append(tables, <<NewSchema>>)
  <2> DEFINE new == <<NewSchema>>
             m == Current
  <2>1. new \in Seq(Columns) /\ Len(new) = 1
    BY <1>2, NewSchemaType DEF Change
  <2>2. changes' = changes + 1 /\ changes' \in 0 .. ChangeBound
    BY <1>0, <1>2 DEF Change
  <2>3. tables' = Append(tables, new)
    BY <1>2
  <2>4. m = Len(tables) /\ Current' = Len(tables')
    BY DEF Current
  <2> HIDE DEF new, m
  <2>5. /\ tables' \in Seq(Seq(Columns)) /\ Len(tables') = m + 1
        /\ \A i \in 1 .. m : tables'[i] = tables[i]
        /\ tables'[m + 1] = new
    BY <1>0, <2>1, <2>3, <2>4
  <2>6. Current' = m + 1 /\ m \in Nat /\ m >= 1
    BY <1>0, <2>4, <2>5 DEF m
  <2>7. Len(tables[m]) \in Nat /\ Len(tables[m]) >= 1 /\ m + Len(tables[m]) <= changes + 2
    BY <1>0 DEF m
  <2>8. Current' + Len(tables'[Current']) <= changes' + 2
    <3>1. Len(tables'[Current']) = 1
      BY <2>1, <2>5, <2>6
    <3>2. QED
      BY <1>0, <2>2, <2>6, <2>7, <3>1
  <2>9. \A i \in 1 .. m : Len(tables[i]) \in Nat /\ Len(tables[i]) >= 1
    BY <1>0 DEF m
  <2>10. ASSUME NEW i \in 1 .. Current' PROVE Len(tables'[i]) >= 1
    <3>1. i \in 1 .. m \/ i = m + 1
      BY <2>6
    <3>2. Len(tables'[m + 1]) = 1
      BY <2>1, <2>5
    <3>3. CASE i \in 1 .. m
      <4>1. tables'[i] = tables[i] /\ Len(tables[i]) >= 1
        BY <2>5, <2>9, <3>3
      <4>2. QED
        BY <4>1
    <3>4. CASE i = m + 1
      <4>1. Len(tables'[i]) = 1
        BY <3>2, <3>4
      <4>2. QED
        BY <4>1
    <3>5. QED
      BY <3>1, <3>3, <3>4
  <2>11. TablesGrow
    BY <2>5, <2>6, <2>9 DEF TablesGrow, m
  <2>12. QED
    BY <1>2, <2>2, <2>5, <2>8, <2>10, <2>11
<1>3. CASE exists' = exists /\ Change
           /\ tables' = [tables EXCEPT ![Current] = Append(@, NewSchema)]
  <2> DEFINE new == Append(tables[Current], NewSchema)
             m == Current
  <2>1. /\ new \in Seq(Columns) /\ Len(new) = Len(tables[m]) + 1
        /\ \A j \in 1 .. Len(tables[m]) : new[j] = tables[m][j]
    <3>1. NewSchema \in Columns /\ tables[m] \in Seq(Columns)
      BY <1>0, <1>3, NewSchemaType DEF Change
    <3>2. QED
      BY <3>1
  <2>2. changes' = changes + 1 /\ changes' \in 0 .. ChangeBound
    BY <1>0, <1>3 DEF Change
  <2>3. tables' = [tables EXCEPT ![m] = new]
    BY <1>3
  <2>4. m = Len(tables) /\ Current' = Len(tables')
    BY DEF Current
  <2>5. m \in Nat /\ m \in 1 .. m /\ DOMAIN tables = 1 .. m
    BY <1>0
  <2> HIDE DEF new, m
  <2>6. tables' \in Seq(Seq(Columns)) /\ Len(tables') = m
    BY <1>0, <2>1, <2>3, <2>4, <2>5
  <2>7. \A i \in 1 .. m : tables'[i] = IF i = m THEN new ELSE tables[i]
    BY <2>3, <2>5
  <2>8. Current' = m
    BY <2>4, <2>6
  <2>9. \A i \in 1 .. m : Len(tables[i]) \in Nat /\ Len(tables[i]) >= 1
    BY <1>0 DEF m
  <2>10. m + Len(tables[m]) <= changes + 2
    BY <1>0 DEF m
  <2>11. Current' + Len(tables'[Current']) <= changes' + 2
    <3>1. Len(tables'[Current']) = Len(tables[m]) + 1
      BY <2>1, <2>5, <2>7, <2>8
    <3>2. QED
      BY <1>0, <2>2, <2>5, <2>8, <2>9, <2>10, <3>1
  <2>12. \A i \in 1 .. Current' : Len(tables'[i]) >= 1
    BY <2>1, <2>5, <2>7, <2>8, <2>9
  <2>13. TablesGrow
    <3>1. ASSUME NEW i \in 1 .. m
          PROVE  /\ Len(tables'[i]) >= Len(tables[i])
                 /\ \A j \in 1 .. Len(tables[i]) : tables'[i][j] = tables[i][j]
      <4>1. CASE i = m
        <5>1. tables'[i] = new
          BY <2>7, <4>1
        <5>2. Len(new) >= Len(tables[i])
          BY <2>1, <2>9, <4>1
        <5>3. QED
          BY <2>1, <4>1, <5>1, <5>2
      <4>2. CASE i # m
        <5>1. tables'[i] = tables[i]
          BY <2>7, <4>2
        <5>2. Len(tables[i]) >= Len(tables[i])
          BY <2>9
        <5>3. QED
          BY <5>1, <5>2
      <4>3. QED
        BY <4>1, <4>2
    <3>2. QED
      BY <2>5, <2>8, <3>1 DEF TablesGrow, m
  <2>14. exists' \in BOOLEAN
    BY <1>3 DEF ClusterTypes
  <2>15. QED
    BY <2>2, <2>6, <2>11, <2>12, <2>13, <2>14
<1>4. QED
  BY <1>1, <1>2, <1>3 DEF TablesStep

(* Terms only grow too. *)
LEMMA ClusterKept ==
  ASSUME ClusterTypes, EnvStep
  PROVE  ClusterTypes' /\ TablesGrow /\ term' >= term
<1>0. /\ Current \in TableIds /\ Current \in Nat /\ Current >= 1
      /\ DOMAIN tables = 1 .. Current
      /\ \A i \in 1 .. Current : Len(tables[i]) \in Nat /\ Len(tables[i]) >= 1
      /\ term \in Nat /\ Len(Coordinators) \in Nat
      /\ changes \in Nat /\ ChangeBound \in Nat
  <2>1. /\ Current \in TableIds /\ Current \in Nat /\ DOMAIN tables = 1 .. Current
        /\ \A i \in 1 .. Current : tables[i] \in Seq(Columns)
    BY CurrentBound
  <2>2. \A i \in 1 .. Current : Len(tables[i]) \in Nat /\ Len(tables[i]) >= 1
    BY <2>1 DEF ClusterTypes
  <2>3. Len(Coordinators) \in Nat /\ ChangeBound \in Nat
    BY TableAssumption
  <2>4. term \in Nat /\ changes \in Nat /\ Current >= 1
    BY <2>3 DEF ClusterTypes
  <2>5. QED
    BY <2>1, <2>2, <2>3, <2>4
<1>1. CASE UNCHANGED clusterVars
  <2>1. ClusterTypes'
    BY <1>1 DEF ClusterTypes, clusterVars, Current
  <2>2. tables' = tables /\ Current' = Current /\ term' = term
    BY <1>1 DEF clusterVars, Current
  <2>3. QED
    BY <1>0, <2>1, <2>2 DEF TablesGrow
<1>2. CASE TablesStep
  <2>1. UNCHANGED <<leader, term, vacant>>
    BY <1>2 DEF TablesStep
  <2>2. TablesGrow
    BY <1>2, TablesStepGrows
  <2>3. Current' >= 1
    BY <1>0, <2>2 DEF TablesGrow
  <2>4. /\ tables' \in Seq(Seq(Columns)) /\ \A i \in 1 .. Current' : Len(tables'[i]) >= 1
        /\ Current' + Len(tables'[Current']) <= changes' + 2
        /\ exists' \in BOOLEAN /\ changes' \in 0 .. ChangeBound
    BY <1>2, TablesStepGrows
  <2>5. /\ vacant' \in BOOLEAN /\ term' \in 1 .. Len(Coordinators)
        /\ (vacant' => term' < Len(Coordinators))
        /\ leader' \in [Buckets -> Servers \cup {None}]
    BY <2>1 DEF ClusterTypes
  <2>6. QED
    BY <1>0, <2>1, <2>2, <2>3, <2>4, <2>5 DEF ClusterTypes
<1>3. ASSUME UNCHANGED <<tables, exists>>, term' \in 1 .. Len(Coordinators),
             term' >= term, (vacant => term < Len(Coordinators))', vacant' \in BOOLEAN,
             leader' \in [Buckets -> Servers \cup {None}],
             changes' = changes \/ Change
      PROVE  ClusterTypes' /\ TablesGrow
  <2>1. Current' = Current /\ exists' = exists /\ tables' = tables
    BY <1>3 DEF Current
  <2>2. changes' >= changes /\ changes' \in 0 .. ChangeBound
    BY <1>0, <1>3 DEF Change, ClusterTypes
  <2>3. TablesGrow
    BY <1>0, <2>1 DEF TablesGrow
  <2>4. Current' + Len(tables'[Current']) <= changes' + 2
    <3> DEFINE n == Len(tables[Current])
               m == Current
    <3>1. n \in Nat /\ m \in Nat /\ m + n <= changes + 2
      BY <1>0 DEF ClusterTypes
    <3>2. Current' + Len(tables'[Current']) = m + n
      BY <2>1
    <3> HIDE DEF n, m
    <3>3. QED
      BY <2>2, <1>0, <3>1, <3>2
  <2>5. ClusterTypes'
    BY <1>3, <2>1, <2>2, <2>4 DEF ClusterTypes
  <2>6. QED
    BY <2>3, <2>5
<1>4. CASE LeaderStep
  <2>1. leader' \in [Buckets -> Servers \cup {None}]
    BY <1>4 DEF LeaderStep, ClusterTypes
  <2>2. UNCHANGED <<tables, exists>> /\ term' = term /\ vacant' = vacant
        /\ (changes' = changes \/ Change)
    BY <1>4 DEF LeaderStep
  <2>3. QED
    BY <1>0, <1>3, <2>1, <2>2 DEF ClusterTypes
<1>5. CASE CoordinatorStep
  <2>1. UNCHANGED <<tables, exists>> /\ leader' = leader
        /\ (changes' = changes \/ Change) /\ vacant' \in BOOLEAN
    BY <1>5 DEF CoordinatorStep
  <2>2. CASE ~vacant /\ term < Len(Coordinators) /\ term' = term
    BY <1>0, <1>3, <2>1, <2>2 DEF ClusterTypes
  <2>3. CASE vacant /\ vacant' = FALSE /\ term' = term + 1
    BY <1>0, <1>3, <2>1, <2>3 DEF ClusterTypes
  <2>4. QED
    BY <1>5, <2>2, <2>3 DEF CoordinatorStep
<1>6. QED
  BY <1>1, <1>2, <1>4, <1>5 DEF EnvStep

(* What was true of the past stays true. *)
LEMMA PastStays ==
  ASSUME ClusterTypes, ClusterTypes', TablesGrow, term' >= term
  PROVE  /\ \A c : Past(c) => (c # None => \E i \in 1 .. term' : c = Coordinators[i])
         /\ \A i : Known(i) => (i # NoInfo => /\ i.id \in 1 .. Current'
                                              /\ i.schema \in DOMAIN tables'[i.id])
<1>1. term \in Nat /\ term' \in Nat
  BY TableAssumption DEF ClusterTypes
<1>2. ASSUME NEW c, Past(c), c # None PROVE \E i \in 1 .. term' : c = Coordinators[i]
  BY <1>1, <1>2 DEF Past
<1>3. /\ DOMAIN tables = 1 .. Current /\ Current \in Nat
      /\ \A i \in 1 .. Current : tables[i] \in Seq(Columns)
  BY CurrentBound
<1>4. \A i \in 1 .. Current' : tables'[i] \in Seq(Columns)
  BY DEF ClusterTypes, Current
<1>5. ASSUME NEW i, Known(i), i # NoInfo
      PROVE  i.id \in 1 .. Current' /\ i.schema \in DOMAIN tables'[i.id]
  <2> DEFINE n == i.id
  <2>1. n \in 1 .. Current /\ i.schema \in DOMAIN tables[n]
    BY <1>5 DEF Known
  <2>2. n \in 1 .. Current'
    BY <1>3, <2>1 DEF TablesGrow
  <2>3. DOMAIN tables[n] = 1 .. Len(tables[n]) /\ DOMAIN tables'[n] = 1 .. Len(tables'[n])
        /\ Len(tables[n]) \in Nat /\ Len(tables'[n]) \in Nat
    BY <1>3, <1>4, <2>1, <2>2
  <2>4. Len(tables'[n]) >= Len(tables[n])
    BY <2>1 DEF TablesGrow
  <2>5. QED
    BY <2>1, <2>2, <2>3, <2>4
<1>6. QED
  BY <1>2, <1>5

(* A server's answer is true when it is given. *)
LEMMA MetadataTrue ==
  ASSUME ClusterTypes
  PROVE  Metadata \in Metadatas /\ Past(Metadata.coordinator) /\ Known(Metadata.info)
<1>1. /\ Current \in Nat /\ Current >= 1 /\ tables[Current] \in Seq(Columns)
      /\ Len(tables[Current]) >= 1
  BY CurrentBound DEF ClusterTypes
<1>2. Answer \in Infos /\ Known(Answer)
  BY <1>1 DEF Answer, Infos, Known
<1>3. NoInfo \in Infos /\ Known(NoInfo)
  BY DEF NoInfo, Infos, Known
<1>4. Coordinators[term] \in Addresses /\ Past(Coordinators[term])
  BY TableAssumption DEF ClusterTypes, Addresses, Past
<1>5. None \in Addresses /\ Past(None)
  BY DEF Addresses, Past
<1>6. QED
  BY <1>2, <1>3, <1>4, <1>5 DEF Metadata, Metadatas, ClusterTypes

(* What is stored was answered, and stays true. *)
LEMMA CacheKept ==
  ASSUME ClusterTypes, CacheTypes, RequestTypes, EnvStep
  PROVE  CacheTypes'
<1>1. ClusterTypes' /\ TablesGrow /\ term' >= term
  BY ClusterKept
<1>2. ASSUME Past(coordinator'), info' \in Infos, Known(info'),
             routes' \in [TableIds -> [Buckets -> Servers \cup {None}]]
      PROVE  CacheTypes'
  <2>1. Past(coordinator)'
    BY <1>1, <1>2, PastStays DEF Past
  <2>2. Known(info)'
    BY <1>1, <1>2, PastStays DEF Known, NoInfo
  <2>3. QED
    BY <1>2, <2>1, <2>2 DEF CacheTypes, TableIds, Infos
<1>3. CASE UNCHANGED cacheVars
  BY <1>2, <1>3 DEF CacheTypes, cacheVars
<1>4. ASSUME NEW g \in Goroutines, StoreStep(g) PROVE CacheTypes'
  <2> DEFINE m == request[g].answer
  <2>1. m \in Metadatas /\ Past(m.coordinator) /\ Known(m.info)
    BY DEF RequestTypes, Requests
  <2>2. m.info \in Infos /\ m.leader \in [Buckets -> Servers \cup {None}]
    BY <2>1 DEF Metadatas
  <2>3. CASE GetTableInfo(g)
    BY <1>2, <2>1, <2>2, <2>3 DEF GetTableInfo, CacheTypes
  <2>4. ASSUME NEW path, NEW partition, RefreshMetadata(g, path, partition)
        PROVE  CacheTypes'
    <3>1. CASE UNCHANGED cacheVars
      BY <1>3, <3>1
    <3>2. CASE ~UNCHANGED cacheVars
      <4>1. /\ coordinator' = IF m.coordinator = None THEN coordinator ELSE m.coordinator
            /\ info' = IF TableStored(m, path) THEN m.info ELSE info
            /\ routes' = [i \in TableIds |-> [b \in Buckets |->
                 IF i = m.info.id /\ Learned(m, b, path, partition) THEN m.leader[b]
                 ELSE routes[i][b]]]
        BY <2>4, <3>2 DEF RefreshMetadata
      <4>2. routes' \in [TableIds -> [Buckets -> Servers \cup {None}]]
        BY <2>2, <4>1 DEF CacheTypes
      <4>3. Past(coordinator') /\ info' \in Infos /\ Known(info')
        BY <2>1, <2>2, <4>1 DEF CacheTypes
      <4>4. QED
        BY <1>2, <4>2, <4>3
    <3>3. QED
      BY <3>1, <3>2
  <2>5. QED
    BY <1>4, <2>3, <2>4 DEF StoreStep
<1>5. QED
  BY <1>3, <1>4 DEF EnvStep, TablesStep, LeaderStep, CoordinatorStep

(* A request that was not sent. *)
LEMMA NoRequestType ==
  NoRequest \in Requests /\ Past(NoRequest.answer.coordinator) /\ Known(NoRequest.answer.info)
BY DEF NoRequest, NoMetadata, NoInfo, Requests, Addresses, Metadatas, Infos, Past, Known

(* A goroutine's next request. *)
RequestIs(g, r) == request' = [request EXCEPT ![g] = r]

Asked(bucket) == [NoRequest EXCEPT !.at = "sent", !.to = Address, !.bucket = bucket]
Received(g) ==
  [NoRequest EXCEPT !.at = "answered", !.answer = Metadata, !.bucket = request[g].bucket]
Stored(g) == [request[g] EXCEPT !.at = "over"]

LEMMA RequestMoveTo ==
  ASSUME NEW g \in Goroutines, RequestMove(g)
  PROVE  \/ \E b : /\ RequestIs(g, Asked(b)) /\ Requested(g, "none") /\ UNCHANGED cacheVars
                   /\ b = None \/ (g \in Tasks /\ b \in call[g].unrouted)
         \/ RequestIs(g, Received(g)) /\ UNCHANGED cacheVars
         \/ RequestIs(g, Stored(g)) /\ g \in Tasks
         \/ RequestIs(g, NoRequest) /\ g \notin Tasks
<1>1. CASE Asks(g)
  BY <1>1 DEF Asks, TaskAsks, AskInfo, AskRoute, AskAgain, AskCoordinator, Ask, RequestIs,
              Asked
<1>2. CASE Receive(g)
  BY <1>2 DEF Receive, RequestIs, Received
<1>3. CASE Stores(g)
  <2>1. Over(g)
    BY <1>3 DEF Stores, StoreStep, GetTableInfo, RefreshMetadata
  <2>2. g \in Fillers <=> g \notin Tasks
    BY TableAssumption DEF Goroutines, Tasks
  <2>3. request' = [request EXCEPT ![g].at = "over"] <=> RequestIs(g, Stored(g))
    BY DEF RequestIs, Stored
  <2>4. QED
    BY <2>1, <2>2, <2>3 DEF Over, Forget, RequestIs
<1>4. CASE Drops(g)
  BY <1>4, TableAssumption DEF Drops, Forget, RequestIs, Tasks
<1>5. QED
  BY <1>1, <1>2, <1>3, <1>4 DEF RequestMove

Types == ClusterTypes /\ CacheTypes /\ RequestTypes

(* Each step keeps the requests' types. *)
LEMMA RequestsKept ==
  ASSUME Types, [Next]_vars, \A t \in Tasks : call[t].unrouted \subseteq Buckets
  PROVE  RequestTypes'
<1>1. /\ request \in [Goroutines -> Requests] /\ ClusterTypes /\ CacheTypes
      /\ \A g \in Goroutines : /\ Past(request[g].answer.coordinator)
                               /\ Known(request[g].answer.info)
  BY DEF Types, RequestTypes
<1>2. ClusterTypes' /\ TablesGrow /\ term' >= term
  BY <1>1, EnvSteps, ClusterKept
<1>3. ASSUME \A g \in Goroutines :
               /\ request'[g] \in Requests
               /\ Past(request'[g].answer.coordinator) /\ Known(request'[g].answer.info),
             request' \in [Goroutines -> Requests]
      PROVE  RequestTypes'
  <2>1. ASSUME NEW g \in Goroutines
        PROVE  (Past(request[g].answer.coordinator))' /\ (Known(request[g].answer.info))'
    <3>1. Past(request'[g].answer.coordinator) /\ Known(request'[g].answer.info)
      BY <1>3
    <3>2. QED
      BY <3>1, <1>1, <1>2, PastStays DEF Past, Known, NoInfo
  <2>2. QED
    BY <1>3, <2>1 DEF RequestTypes, Goroutines, Tasks, Requests, Metadatas, Addresses, Infos
<1>4. ASSUME NEW g \in Goroutines, NEW r \in Requests, RequestIs(g, r),
             Past(r.answer.coordinator), Known(r.answer.info)
      PROVE  RequestTypes'
  <2>1. request' \in [Goroutines -> Requests]
    BY <1>1, <1>4 DEF RequestIs
  <2>2. \A h \in Goroutines : request'[h] = IF h = g THEN r ELSE request[h]
    BY <1>1, <1>4 DEF RequestIs
  <2>3. QED
    BY <1>1, <1>3, <1>4, <2>1, <2>2
<1>5. CASE UNCHANGED request
  BY <1>1, <1>3, <1>5
<1>6. ASSUME NEW t \in Tasks, CallMove(t) PROVE RequestTypes'
  <2>1. RequestIs(t, NoRequest) /\ t \in Goroutines
    BY <1>6, CallMoveIs DEF Forget, RequestIs, Goroutines
  <2>2. QED
    BY <2>1, <1>4, NoRequestType
<1>7. ASSUME NEW g \in Goroutines, RequestMove(g) PROVE RequestTypes'
  <2>1. ASSUME NEW b \in Buckets \cup {None}, RequestIs(g, Asked(b)) PROVE RequestTypes'
    <3>1. Address \in Addresses
      BY <1>1, TableAssumption DEF Address, CacheTypes, ClusterTypes, Past, Addresses
    <3>2. Asked(b) \in Requests /\ Asked(b).answer = NoRequest.answer
      BY <3>1, NoRequestType DEF Asked, Requests
    <3>3. QED
      BY <2>1, <3>2, <1>4, NoRequestType
  <2>2. ASSUME RequestIs(g, Received(g)) PROVE RequestTypes'
    <3>1. Metadata \in Metadatas /\ request[g].bucket \in Buckets \cup {None}
      BY <1>1, MetadataTrue DEF Requests
    <3>2. Received(g) \in Requests /\ Received(g).answer = Metadata
      BY <3>1, NoRequestType DEF Received, Requests
    <3>3. QED
      BY <2>2, <3>2, <1>1, <1>4, MetadataTrue
  <2>3. ASSUME RequestIs(g, Stored(g)) PROVE RequestTypes'
    <3>1. Stored(g) \in Requests /\ Stored(g).answer = request[g].answer
      BY <1>1 DEF Stored, Requests
    <3>2. QED
      BY <2>3, <3>1, <1>1, <1>4
  <2>4. \A b : b = None \/ (g \in Tasks /\ b \in call[g].unrouted) => b \in Buckets \cup {None}
    OBVIOUS
  <2>5. QED
    BY <1>7, <2>1, <2>2, <2>3, <2>4, <1>4, NoRequestType, RequestMoveTo
<1>8. QED
  BY <1>5, <1>6, <1>7, NextSteps DEF ClusterMove, vars

(* A client that was dialed. *)
LEMMA InitTypes == Init => Types
<1> SUFFICES ASSUME Init PROVE Types
  OBVIOUS
<1>1. tables = <<<<Schemas[1]>>>> /\ changes = 0
  BY DEF Init
<1>2. Len(Schemas) \in Nat /\ 1 \in DOMAIN Schemas /\ ChangeBound \in Nat
      /\ Len(Coordinators) \in Nat /\ Coordinators # <<>>
  BY TableAssumption
<1>3. <<Schemas[1]>> \in Seq(Columns)
  BY <1>2 DEF Columns
<1>4. tables \in Seq(Seq(Columns)) /\ Len(tables) = 1 /\ Len(tables[1]) = 1
  BY <1>1, <1>3
<1>5. Len(Coordinators) >= 1
  BY <1>2, TableAssumption
<1>6. Current = 1
  BY <1>4 DEF Current
<1>7. ClusterTypes
  <2>1. exists = TRUE /\ changes = 0 /\ term = 1 /\ vacant = FALSE
        /\ leader \in [Buckets -> Servers]
    BY DEF Init
  <2>2. leader \in [Buckets -> Servers \cup {None}]
    BY <2>1
  <2>3. Current + Len(tables[Current]) <= changes + 2
    BY <1>1, <1>4, <1>6
  <2>4. \A i \in 1 .. Current : Len(tables[i]) >= 1
    BY <1>4, <1>6
  <2>5. term \in 1 .. Len(Coordinators) /\ changes \in 0 .. ChangeBound
    BY <1>2, <1>5, <2>1
  <2>6. exists \in BOOLEAN /\ vacant \in BOOLEAN /\ (vacant => term < Len(Coordinators))
    BY <2>1
  <2>7. tables \in Seq(Seq(Columns)) /\ Current >= 1
    BY <1>4, <1>6
  <2>8. QED
    BY <2>2, <2>3, <2>4, <2>5, <2>6, <2>7 DEF ClusterTypes
<1>8. CacheTypes
  <2>1. Past(coordinator)
    <3>1. coordinator # None => coordinator = Coordinators[1]
      BY DEF Init
    <3>2. 1 \in 1 .. term
      BY DEF Init
    <3>3. QED
      BY <3>1, <3>2 DEF Past
  <2>2. info = NoInfo /\ routes = [i \in TableIds |-> [b \in Buckets |-> None]]
    BY DEF Init
  <2>3. routes \in [TableIds -> [Buckets -> Servers \cup {None}]]
    BY <2>2
  <2>4. NoInfo \in Infos /\ Known(NoInfo)
    BY DEF NoInfo, Infos, Known
  <2>5. QED
    BY <2>1, <2>2, <2>3, <2>4 DEF CacheTypes
<1>9. RequestTypes
  <2>1. request = [g \in Goroutines |-> NoRequest]
    BY DEF Init, Goroutines
  <2>2. QED
    BY <2>1, NoRequestType DEF RequestTypes
<1>10. QED
  BY <1>7, <1>8, <1>9 DEF Types

-------------------------------------------------------------------------------
(* The calls *)

TableOps == Reads \cup RowCalls
Calls ==
  [op : TableOps \cup {"none", "query", "admin"}, at : Steps, buckets : SUBSET Buckets,
   info : [id : Nat, schema : Nat], id : Nat, unrouted : SUBSET Buckets,
   grouped : [Servers -> SUBSET Buckets], answered : SUBSET Buckets,
   attempt : {0, 1}, lost : BOOLEAN]

(* What a call of the table holds at each of its steps.  A call of one row *)
(* has one bucket, and no answer before it returns.                        *)
TableCallOK(c) ==
  /\ c.op \in RowCalls => \E b \in Buckets : c.buckets = {b}
  /\ c.op \in RowCalls /\ c.at # "done" => c.answered = {}
  /\ c.at \in {"encode", "info"} =>
       c.unrouted = c.buckets /\ c.grouped = Nowhere /\ c.answered = {}
  /\ c.at \in {"route", "send"} => c.id >= 1 /\ \A b \in c.buckets : Placed(c, b)
  /\ c.at = "route" => c.answered = {}
  /\ c.at = "send" => c.unrouted = {}
  /\ c.at = "decide" => c.op = "upsert row"
  /\ c.at = "done" /\ c.op \in Reads => c.answered = c.buckets

CallOK(c) ==
  /\ c.unrouted \subseteq c.buckets /\ c.answered \subseteq c.buckets
  /\ \A s \in Servers : c.grouped[s] \subseteq c.buckets
  /\ c.at \in {"encode", "info", "route", "send", "decide"} =>
       c.op \in TableOps /\ c.buckets # {}
  /\ c.at = "encode" => c.op \in RowCalls
  /\ c.at \in {"coordinator", "ask"} => c.op \in {"query", "admin"} /\ c.buckets = {}
  /\ c.at = "coordinator" => c.op = "admin"
  /\ TableCallOK(c)

CallsOK ==
  /\ call \in [Tasks -> Calls]
  /\ \A t \in Tasks : CallOK(call[t]) /\ call[t].id <= Current

(* No groups. *)
LEMMA NowhereType == Nowhere \in [Servers -> SUBSET Buckets]
BY DEF Nowhere

(* A call that has ended without buckets, *)
LEMMA IdleOK == Idle \in Calls /\ CallOK(Idle) /\ Idle.id = 0
<1>1. Idle \in Calls
  BY NowhereType DEF Idle, Calls, Steps, TableOps, Reads, RowCalls, NoInfo
<1>2. QED
  BY <1>1 DEF Idle, CallOK, TableCallOK, RowCalls, Reads, Nowhere, NoInfo

(* and one that has failed. *)
LEMMA FailedOK ==
  ASSUME NEW lost \in BOOLEAN
  PROVE  LET d == [Idle EXCEPT !.at = "failed", !.lost = lost] IN
         d \in Calls /\ CallOK(d) /\ d.id = 0
<1> DEFINE d == [Idle EXCEPT !.at = "failed", !.lost = lost]
<1>1. d \in Calls
  BY NowhereType DEF Idle, Calls, Steps, TableOps, Reads, RowCalls, NoInfo
<1>2. d.id = 0 /\ d.at = "failed" /\ d.op = "none" /\ d.buckets = {} /\ d.unrouted = {}
      /\ d.answered = {} /\ d.grouped = Nowhere
  BY DEF Idle
<1> HIDE DEF d
<1>3. CallOK(d)
  BY <1>2 DEF CallOK, TableCallOK, RowCalls, Reads, Nowhere
<1>4. QED
  BY <1>1, <1>2, <1>3 DEF d

(* A call begins with its buckets all without a route. *)
LEMMA BegunOK ==
  ASSUME NEW op \in TableOps \cup {"query", "admin"}, NEW buckets \in SUBSET Buckets,
         NEW step \in {"encode", "info", "coordinator", "ask"},
         op \in RowCalls => \E b \in Buckets : buckets = {b},
         step \in {"encode", "info"} => op \in TableOps /\ buckets # {},
         step = "encode" => op \in RowCalls,
         step \in {"coordinator", "ask"} => op \in {"query", "admin"} /\ buckets = {},
         step = "coordinator" => op = "admin"
  PROVE  LET d == [Idle EXCEPT !.op = op, !.at = step, !.buckets = buckets,
                               !.unrouted = buckets] IN
         d \in Calls /\ CallOK(d) /\ d.id = 0
<1> DEFINE d == [Idle EXCEPT !.op = op, !.at = step, !.buckets = buckets,
                             !.unrouted = buckets]
<1>1. d \in Calls
  BY NowhereType DEF Idle, Calls, Steps, TableOps, Reads, RowCalls, NoInfo
<1>2. d.id = 0 /\ d.at = step /\ d.op = op /\ d.buckets = buckets /\ d.unrouted = buckets
      /\ d.answered = {} /\ d.grouped = Nowhere
  BY DEF Idle
<1>3. \A s \in Servers : Nowhere[s] = {}
  BY DEF Nowhere
<1> HIDE DEF d
<1>4. TableCallOK(d)
  BY <1>2 DEF TableCallOK
<1>5. CallOK(d)
  BY <1>2, <1>3, <1>4 DEF CallOK
<1>6. QED
  BY <1>1, <1>2, <1>5 DEF d

(* A bucket whose route is known leaves the unrouted ones for its leader's *)
(* group.                                                                  *)
LEMMA GroupedOK ==
  ASSUME NEW c \in Calls, CallOK(c), c.at = "route", NEW b \in c.unrouted, NEW s \in Servers
  PROVE  LET unrouted == c.unrouted \ {b}
             d == [[c EXCEPT !.at = IF unrouted = {} THEN "send" ELSE "route",
                             !.unrouted = unrouted, !.grouped[s] = @ \cup {b}]
                     EXCEPT !.lost = FALSE] IN
         d \in Calls /\ CallOK(d) /\ d.id = c.id
<1> DEFINE unrouted == c.unrouted \ {b}
           d == [[c EXCEPT !.at = IF unrouted = {} THEN "send" ELSE "route",
                           !.unrouted = unrouted, !.grouped[s] = @ \cup {b}]
                   EXCEPT !.lost = FALSE]
<1>1. c.grouped \in [Servers -> SUBSET Buckets] /\ b \in c.buckets
      /\ c.buckets \subseteq Buckets
  BY DEF Calls, CallOK
<1>2. d \in Calls
  BY <1>1 DEF Calls, Steps
<1>3. /\ d.id = c.id /\ d.op = c.op /\ d.buckets = c.buckets /\ d.unrouted = unrouted
      /\ d.answered = c.answered /\ d.at = (IF unrouted = {} THEN "send" ELSE "route")
      /\ d.grouped = [c.grouped EXCEPT ![s] = @ \cup {b}]
  BY DEF Calls
<1> HIDE DEF d
<1>4. \A r \in Servers : d.grouped[r] = IF r = s THEN c.grouped[r] \cup {b} ELSE c.grouped[r]
  BY <1>1, <1>3
<1>5. c.answered = {} /\ c.id >= 1 /\ c.op \in TableOps /\ c.buckets # {}
      /\ \A x \in c.buckets : Placed(c, x)
  BY DEF CallOK, TableCallOK
<1>6. ASSUME NEW x \in c.buckets PROVE Placed(d, x)
  <2>1. CASE x = b
    <3>1. \A r \in Servers : b \notin c.grouped[r]
      BY <1>1, <1>5 DEF Placed
    <3>2. x \notin d.unrouted \cup d.answered
      BY <2>1, <1>3, <1>5
    <3>3. x \in d.grouped[s]
      BY <2>1, <1>4
    <3>4. \A r \in Servers : x \in d.grouped[r] => r = s
      BY <2>1, <1>4, <3>1
    <3>5. QED
      BY <3>2, <3>3, <3>4 DEF Placed
  <2>2. CASE x # b
    <3>1. \A r \in Servers : x \in d.grouped[r] <=> x \in c.grouped[r]
      BY <2>2, <1>4
    <3>2. x \in d.unrouted \cup d.answered <=> x \in c.unrouted \cup c.answered
      BY <2>2, <1>3
    <3>3. QED
      BY <3>1, <3>2, <1>5 DEF Placed
  <2>3. QED
    BY <2>1, <2>2
<1>7. TableCallOK(d)
  <2>1. d.at \in {"route", "send"} /\ (d.at = "send" => d.unrouted = {}) /\ d.answered = {}
    BY <1>3, <1>5
  <2>2. d.op \in RowCalls => \E x \in Buckets : d.buckets = {x}
    BY <1>3 DEF CallOK, TableCallOK
  <2>3. d.id >= 1 /\ \A x \in d.buckets : Placed(d, x)
    BY <1>3, <1>5, <1>6
  <2>4. QED
    BY <2>1, <2>2, <2>3 DEF TableCallOK
<1>8. \A r \in Servers : d.grouped[r] \subseteq d.buckets
  BY <1>1, <1>3, <1>4 DEF CallOK
<1>9. CallOK(d)
  BY <1>3, <1>5, <1>7, <1>8 DEF CallOK
<1>10. QED
  BY <1>2, <1>3, <1>9 DEF d

(* An answer accounts for the buckets of its request: when no request is   *)
(* left, every bucket is answered.                                         *)
LEMMA AnsweredOK ==
  ASSUME NEW c \in Calls, CallOK(c), c.at = "send", NEW s \in Servers, c.grouped[s] # {}
  PROVE  LET rest == [c.grouped EXCEPT ![s] = {}]
             answered == c.answered \cup c.grouped[s]
             e == [[[c EXCEPT !.answered = answered]
                      EXCEPT !.at = "done", !.unrouted = {}, !.grouped = Nowhere, !.attempt = 0]
                     EXCEPT !.lost = FALSE]
             d == [[c EXCEPT !.grouped = rest, !.answered = answered] EXCEPT !.lost = FALSE] IN
         IF rest = Nowhere THEN e \in Calls /\ CallOK(e) /\ e.id = c.id
                           ELSE d \in Calls /\ CallOK(d) /\ d.id = c.id
<1> DEFINE rest == [c.grouped EXCEPT ![s] = {}]
           answered == c.answered \cup c.grouped[s]
           e == [[[c EXCEPT !.answered = answered]
                    EXCEPT !.at = "done", !.unrouted = {}, !.grouped = Nowhere, !.attempt = 0]
                   EXCEPT !.lost = FALSE]
           d == [[c EXCEPT !.grouped = rest, !.answered = answered] EXCEPT !.lost = FALSE]
<1>1. c.grouped \in [Servers -> SUBSET Buckets] /\ c.buckets \subseteq Buckets
      /\ c.answered \subseteq c.buckets /\ c.grouped[s] \subseteq c.buckets
      /\ c.unrouted = {} /\ c.op \in TableOps /\ c.buckets # {} /\ c.id >= 1
      /\ \A x \in c.buckets : Placed(c, x)
  BY DEF Calls, CallOK, TableCallOK
<1>2. e \in Calls /\ d \in Calls
  BY <1>1, NowhereType DEF Calls, Steps
<1>3. /\ e.id = c.id /\ e.op = c.op /\ e.buckets = c.buckets /\ e.unrouted = {}
      /\ e.answered = answered /\ e.at = "done" /\ e.grouped = Nowhere
  BY DEF Calls
<1>4. /\ d.id = c.id /\ d.op = c.op /\ d.buckets = c.buckets /\ d.unrouted = c.unrouted
      /\ d.answered = answered /\ d.at = "send" /\ d.grouped = rest
  BY DEF Calls
<1>5. \A r \in Servers : rest[r] = IF r = s THEN {} ELSE c.grouped[r]
  BY <1>1
<1>6. rest \in [Servers -> SUBSET Buckets]
  BY <1>1
<1> HIDE DEF e, d, rest, answered
<1>7. answered \subseteq c.buckets
  BY <1>1 DEF answered
<1>8. CASE rest = Nowhere
  <2>1. \A r \in Servers : r # s => c.grouped[r] = {}
    BY <1>5, <1>8 DEF Nowhere
  <2>2. answered = c.buckets
    BY <1>1, <2>1 DEF answered, Placed
  <2>3. TableCallOK(e)
    BY <1>3, <2>2 DEF TableCallOK, CallOK
  <2>4. \A r \in Servers : Nowhere[r] = {}
    BY DEF Nowhere
  <2>5. CallOK(e)
    BY <1>3, <1>7, <2>3, <2>4 DEF CallOK
  <2>6. QED
    BY <1>2, <1>3, <1>8, <2>5 DEF e, rest, answered
<1>9. CASE rest # Nowhere
  <2>1. PICK r \in Servers : rest[r] # {}
    BY <1>6, <1>9 DEF Nowhere
  <2>2. c.op \notin RowCalls
    <3>1. r # s /\ c.grouped[r] # {} /\ c.grouped[r] \subseteq c.buckets
      BY <2>1, <1>5 DEF CallOK
    <3>2. ASSUME c.op \in RowCalls PROVE FALSE
      <4>1. PICK b : c.buckets = {b}
        BY <3>2 DEF CallOK, TableCallOK
      <4>2. b \in c.grouped[r] /\ b \in c.grouped[s]
        BY <4>1, <3>1, <1>1
      <4>3. QED
        BY <4>1, <4>2, <3>1, <1>1 DEF Placed
    <3>3. QED
      BY <3>2
  <2>3. ASSUME NEW x \in c.buckets PROVE Placed(d, x)
    <3>1. CASE x \in c.grouped[s]
      BY <1>1, <1>4, <1>5, <3>1 DEF Placed, answered
    <3>2. CASE x \notin c.grouped[s]
      <4>1. x \in d.unrouted \cup d.answered <=> x \in c.unrouted \cup c.answered
        BY <1>4, <3>2 DEF answered
      <4>2. \A q \in Servers : x \in d.grouped[q] <=> x \in c.grouped[q]
        BY <1>4, <1>5, <3>2
      <4>3. QED
        BY <1>1, <4>1, <4>2 DEF Placed
    <3>3. QED
      BY <3>1, <3>2
  <2>4. TableCallOK(d)
    BY <1>1, <1>4, <2>2, <2>3 DEF TableCallOK, CallOK
  <2>5. \A q \in Servers : d.grouped[q] \subseteq d.buckets
    BY <1>1, <1>4, <1>5 DEF CallOK
  <2>6. CallOK(d)
    BY <1>1, <1>4, <1>7, <2>4, <2>5 DEF CallOK
  <2>7. QED
    BY <1>2, <1>4, <1>9, <2>6 DEF d, rest, answered
<1>10. QED
  BY <1>8, <1>9

(* An upsert ends without an answer, or begins again with nothing grouped. *)
LEMMA DecidedOK ==
  ASSUME NEW c \in Calls, CallOK(c), c.at = "decide"
  PROVE  LET e == [[c EXCEPT !.at = "done", !.unrouted = {}, !.grouped = Nowhere, !.attempt = 0]
                     EXCEPT !.lost = FALSE]
             d == [[c EXCEPT !.at = "info", !.attempt = 1, !.unrouted = c.buckets,
                             !.grouped = Nowhere] EXCEPT !.lost = FALSE] IN
         /\ e \in Calls /\ CallOK(e) /\ e.id = c.id
         /\ d \in Calls /\ CallOK(d) /\ d.id = c.id
<1> DEFINE e == [[c EXCEPT !.at = "done", !.unrouted = {}, !.grouped = Nowhere, !.attempt = 0]
                   EXCEPT !.lost = FALSE]
           d == [[c EXCEPT !.at = "info", !.attempt = 1, !.unrouted = c.buckets,
                           !.grouped = Nowhere] EXCEPT !.lost = FALSE]
<1>1. e \in Calls /\ d \in Calls
  BY NowhereType DEF Calls, Steps
<1>2. c.op = "upsert row" /\ c.answered = {} /\ (\E b \in Buckets : c.buckets = {b})
  BY DEF CallOK, TableCallOK, RowCalls
<1>3. /\ e.id = c.id /\ e.op = c.op /\ e.buckets = c.buckets /\ e.unrouted = {}
      /\ e.answered = c.answered /\ e.at = "done" /\ e.grouped = Nowhere
  BY DEF Calls
<1>4. /\ d.id = c.id /\ d.op = c.op /\ d.buckets = c.buckets /\ d.unrouted = c.buckets
      /\ d.answered = c.answered /\ d.at = "info" /\ d.grouped = Nowhere
  BY DEF Calls
<1>5. \A r \in Servers : Nowhere[r] = {}
  BY DEF Nowhere
<1> HIDE DEF e, d
<1>6. TableCallOK(e) /\ TableCallOK(d)
  BY <1>2, <1>3, <1>4 DEF TableCallOK, Reads
<1>7. CallOK(e) /\ CallOK(d)
  BY <1>2, <1>3, <1>4, <1>5, <1>6 DEF CallOK, TableOps, RowCalls
<1>8. QED
  BY <1>1, <1>3, <1>4, <1>7 DEF e, d


(* The next call of a task. *)
MovesTo(t, d) ==
  /\ call' = [call EXCEPT ![t] = d]
  /\ d \in Calls /\ CallOK(d) /\ d.id <= Current'
Moves(t) == \E d \in Calls : MovesTo(t, d)

(* A step that moves one task's call to a sound record keeps all calls     *)
(* sound.                                                                  *)
LEMMA MovesOK ==
  ASSUME CallsOK, NEW t \in Tasks, Moves(t), Current' >= Current,
         Current \in Nat, Current' \in Nat
  PROVE  CallsOK'
<1>1. PICK d \in Calls : MovesTo(t, d)
  BY DEF Moves
<1>2. call' \in [Tasks -> Calls]
  BY <1>1 DEF MovesTo, CallsOK
<1>3. ASSUME NEW u \in Tasks PROVE CallOK(call'[u]) /\ call'[u].id <= Current'
  <2>1. CASE u = t
    BY <1>1, <2>1 DEF MovesTo, CallsOK
  <2>2. CASE u # t
    <3>1. call'[u] = call[u]
      BY <1>1, <2>2 DEF MovesTo, CallsOK
    <3>2. call[u].id \in Nat
      BY DEF CallsOK, Calls
    <3>3. QED
      BY <3>1, <3>2 DEF CallsOK
  <2>3. QED
    BY <2>1, <2>2
<1>4. QED
  BY <1>2, <1>3 DEF CallsOK

(* An error ends any call, *)
LEMMA FailMoves ==
  ASSUME NEW t \in Tasks, NEW lost \in BOOLEAN, Fail(t, lost), Current' >= 0
  PROVE  Moves(t)
BY FailedOK DEF Fail, Moves, MovesTo

(* or sends an upsert to its decision. *)
LEMMA GiveUpMoves ==
  ASSUME CallsOK, NEW t \in Tasks, NEW lost \in BOOLEAN, GiveUp(t, lost),
         call[t].at \in {"route", "send"}, Current' >= Current,
         Current \in Nat, Current' \in Nat
  PROVE  Moves(t)
<1>1. CASE call[t].op = "upsert row"
  <2> DEFINE c == call[t]
             d == [c EXCEPT !.at = "decide", !.lost = lost]
  <2>1. call' = [call EXCEPT ![t] = d]
    BY <1>1 DEF GiveUp, CallsOK
  <2>2. c \in Calls /\ CallOK(c) /\ c.id \in Nat /\ c.id <= Current
    BY DEF CallsOK, Calls
  <2>3. c.at \in {"route", "send"} /\ c.op = "upsert row"
    BY <1>1
  <2> HIDE DEF c
  <2>4. d \in Calls /\ d.id = c.id /\ d.op = c.op /\ d.buckets = c.buckets
        /\ d.unrouted = c.unrouted /\ d.answered = c.answered /\ d.at = "decide"
        /\ d.grouped = c.grouped
    BY <2>2 DEF Calls, Steps
  <2> HIDE DEF d
  <2>5. TableCallOK(d)
    BY <2>2, <2>3, <2>4 DEF CallOK, TableCallOK, RowCalls
  <2>6. CallOK(d)
    BY <2>2, <2>3, <2>4, <2>5 DEF CallOK
  <2>7. d.id <= Current'
    BY <2>2, <2>4
  <2>8. QED
    BY <2>1, <2>4, <2>6, <2>7 DEF Moves, MovesTo
<1>2. CASE call[t].op # "upsert row"
  <2>1. Fail(t, lost)
    BY <1>2, Zenon DEF GiveUp
  <2>2. Current' >= 0
    OBVIOUS
  <2>3. QED
    BY <2>1, <2>2, FailMoves
<1>3. QED
  BY <1>1, <1>2

(* groupLookupsByLeader and its like, one bucket at a time. *)
LEMMA RouteMoves ==
  ASSUME Types, CallsOK, NEW t \in Tasks, GroupByLeader(t)
  PROVE  Moves(t)
<1> DEFINE c == call[t]
<1>1. Current' = Current /\ Current \in Nat
  BY CurrentBound DEF GroupByLeader, Proceed, clusterVars, Current, Types
<1>2. c \in Calls /\ CallOK(c) /\ c.id \in Nat /\ c.id <= Current /\ c.at = "route"
      /\ c.id >= 1 /\ c.unrouted \subseteq Buckets
  BY DEF GroupByLeader, At, CallsOK, Calls, CallOK, TableCallOK
<1>3. PICK b \in c.unrouted : RouteFor(t, b)
  BY DEF GroupByLeader
<1>4. c.id \in TableIds /\ b \in Buckets
  <2>1. Current <= ChangeBound + 1 /\ ChangeBound \in Nat
    BY <1>1, CurrentBound, TableAssumption DEF Types, TableIds
  <2>2. QED
    BY <1>1, <1>2, <1>3, <2>1 DEF TableIds
<1>5. routes[c.id][b] \in Servers \cup {None}
  BY <1>4 DEF Types, CacheTypes
<1>6. ASSUME NEW s \in Servers, Group(t, b, s) PROVE Moves(t)
  <2> DEFINE unrouted == c.unrouted \ {b}
             d == [[c EXCEPT !.at = IF unrouted = {} THEN "send" ELSE "route",
                             !.unrouted = unrouted, !.grouped[s] = @ \cup {b}]
                     EXCEPT !.lost = FALSE]
  <2>1. call' = [call EXCEPT ![t] = d]
    BY <1>6 DEF Group, Move
  <2>2. d \in Calls /\ CallOK(d) /\ d.id = c.id
    BY <1>2, <1>3, GroupedOK
  <2> HIDE DEF d, c
  <2>3. QED
    BY <2>1, <2>2, <1>1, <1>2 DEF Moves, MovesTo
<1>7. ASSUME NEW lost \in BOOLEAN, GiveUp(t, lost) PROVE Moves(t)
  BY <1>1, <1>2, <1>7, GiveUpMoves
<1>8. QED
  BY <1>3, <1>5, <1>6, <1>7 DEF RouteFor

(* One request of the call, answered or not. *)
LEMMA SendMoves ==
  ASSUME Types, CallsOK, NEW t \in Tasks, Send(t)
  PROVE  Moves(t)
<1> DEFINE c == call[t]
<1>1. Current' = Current /\ Current \in Nat
  BY CurrentBound DEF Send, Proceed, clusterVars, Current, Types
<1>2. c \in Calls /\ CallOK(c) /\ c.id \in Nat /\ c.id <= Current /\ c.at = "send"
  BY DEF Send, At, CallsOK, Calls
<1>3. PICK s \in Servers : c.grouped[s] # {} /\ Request(t, s)
  BY DEF Send
<1>4. AnsweredWithoutError(t, s) \in BOOLEAN
  BY DEF AnsweredWithoutError
<1>5. CASE Answered(t, s, c.grouped[s])
  <2> DEFINE rest == [c.grouped EXCEPT ![s] = {}]
             answered == c.answered \cup c.grouped[s]
             e == [[[c EXCEPT !.answered = answered]
                      EXCEPT !.at = "done", !.unrouted = {}, !.grouped = Nowhere, !.attempt = 0]
                     EXCEPT !.lost = FALSE]
             d == [[c EXCEPT !.grouped = rest, !.answered = answered] EXCEPT !.lost = FALSE]
  <2>1. IF rest = Nowhere THEN e \in Calls /\ CallOK(e) /\ e.id = c.id
                          ELSE d \in Calls /\ CallOK(d) /\ d.id = c.id
    BY <1>2, <1>3, AnsweredOK
  <2>2. call' = [call EXCEPT ![t] = IF rest = Nowhere THEN e ELSE d]
    BY <1>5 DEF Answered, End, Move
  <2> HIDE DEF e, d, rest, c
  <2>3. QED
    BY <2>1, <2>2, <1>1, <1>2 DEF Moves, MovesTo
<1>6. CASE \E lost \in BOOLEAN : GiveUp(t, lost) \/ Fail(t, lost)
  BY <1>1, <1>2, <1>6, GiveUpMoves, FailMoves
<1>7. QED
  BY <1>3, <1>4, <1>5, <1>6 DEF Request

(* The begin of any call. *)
LEMMA BeginMoves ==
  ASSUME Types', NEW t \in Tasks, StartRead(t) \/ StartRowCall(t) \/ StartQuery(t) \/ StartAdmin(t)
  PROVE  Moves(t)
<1>1. ASSUME NEW op \in TableOps \cup {"query", "admin"}, NEW buckets \in SUBSET Buckets,
             NEW step \in {"encode", "info", "coordinator", "ask"},
             op \in RowCalls => \E b \in Buckets : buckets = {b},
             step \in {"encode", "info"} => op \in TableOps /\ buckets # {},
             step = "encode" => op \in RowCalls,
             step \in {"coordinator", "ask"} => op \in {"query", "admin"} /\ buckets = {},
             step = "coordinator" => op = "admin",
             Begin(t, op, buckets, step)
      PROVE  Moves(t)
  <2> DEFINE d == [Idle EXCEPT !.op = op, !.at = step, !.buckets = buckets,
                               !.unrouted = buckets]
  <2>1. d \in Calls /\ CallOK(d) /\ d.id = 0
    BY <1>1, BegunOK
  <2>2. call' = [call EXCEPT ![t] = d]
    BY <1>1 DEF Begin
  <2>3. 0 <= Current'
    BY DEF Types, ClusterTypes, Current
  <2> HIDE DEF d
  <2>4. QED
    BY <2>1, <2>2, <2>3 DEF Moves, MovesTo
<1>2. CASE StartRead(t)
  <2>1. PICK buckets \in (SUBSET Buckets) \ {{}} : Begin(t, "read", buckets, "info")
    BY <1>2 DEF StartRead
  <2>2. buckets \in SUBSET Buckets /\ buckets # {}
    BY <2>1
  <2>3. QED
    BY <1>1, <2>1, <2>2 DEF TableOps, Reads, RowCalls
<1>3. CASE StartRowCall(t)
  <2>1. PICK op \in RowCalls, b \in Buckets : Begin(t, op, {b}, "encode")
    BY <1>3 DEF StartRowCall
  <2>2. QED
    BY <1>1, <2>1 DEF TableOps, Reads, RowCalls
<1>4. CASE StartQuery(t) \/ StartAdmin(t)
  BY <1>1, <1>4 DEF StartQuery, StartAdmin, TableOps, Reads, RowCalls
<1>5. QED
  BY <1>2, <1>3, <1>4

(* The table's info, once it is there. *)
LEMMA TableInfoIs ==
  ASSUME Types, NEW t \in Tasks, InfoThere(t)
  PROVE  TableInfo(t) \in Infos /\ TableInfo(t).id \in 1 .. Current /\ TableInfo(t).id # 0
         /\ Current \in Nat
<1>1. Current \in Nat
  BY CurrentBound DEF Types
<1>2. TableInfo(t) \in Infos /\ Known(TableInfo(t))
  <2>1. request[t].answer.info \in Infos /\ Known(request[t].answer.info)
    BY DEF Types, RequestTypes, Goroutines, Requests, Metadatas
  <2>2. QED
    BY <2>1 DEF TableInfo, Types, CacheTypes
<1>3. TableInfo(t).id \in 1 .. Current
  BY <1>2 DEF InfoThere, Known
<1>4. QED
  BY <1>1, <1>2, <1>3

(* kvEncoding and the table's ID, from the cache or asked for. *)
LEMMA LookMoves ==
  ASSUME Types, CallsOK, NEW t \in Tasks, Encode(t) \/ TakeTableId(t) \/ NoTableInfo(t)
  PROVE  Moves(t)
<1> DEFINE c == call[t]
           i == TableInfo(t)
<1>1. c \in Calls /\ CallOK(c) /\ c.id \in Nat /\ c.id <= Current
      /\ (c.at = "encode" => c.op \in RowCalls)
  BY DEF CallsOK, Calls, CallOK
<1>2. Current' = Current /\ Current \in Nat
  BY CurrentBound
     DEF Encode, TakeTableId, NoTableInfo, Proceed, clusterVars, Current, Types
<1>3. CASE Encode(t)
  <2> DEFINE d == [[c EXCEPT !.at = "info", !.info = i] EXCEPT !.lost = FALSE]
  <2>1. c.at = "encode" /\ call' = [call EXCEPT ![t] = d] /\ InfoThere(t)
    BY <1>3 DEF Encode, At, Move
  <2>2. i \in [id : Nat, schema : Nat]
    BY <2>1, TableInfoIs DEF Infos
  <2> HIDE DEF c, i
  <2>3. d \in Calls /\ d.id = c.id /\ d.op = c.op /\ d.buckets = c.buckets
        /\ d.unrouted = c.unrouted /\ d.answered = c.answered /\ d.at = "info"
        /\ d.grouped = c.grouped
    BY <1>1, <2>2 DEF Calls, Steps
  <2> HIDE DEF d
  <2>4. TableCallOK(d)
    BY <1>1, <2>1, <2>3 DEF CallOK, TableCallOK
  <2>5. CallOK(d)
    BY <1>1, <2>1, <2>3, <2>4 DEF CallOK
  <2>6. QED
    BY <1>1, <1>2, <2>1, <2>3, <2>5 DEF Moves, MovesTo
<1>4. CASE TakeTableId(t)
  <2> DEFINE d == [[c EXCEPT !.at = "route", !.id = i.id] EXCEPT !.lost = FALSE]
  <2>1. c.at = "info" /\ call' = [call EXCEPT ![t] = d] /\ InfoThere(t)
    BY <1>4 DEF TakeTableId, At, Move
  <2>2. i.id \in Nat /\ i.id <= Current' /\ i.id >= 1
    BY <2>1, <1>2, TableInfoIs
  <2> HIDE DEF c, i
  <2>3. d \in Calls /\ d.id = i.id /\ d.op = c.op /\ d.buckets = c.buckets
        /\ d.unrouted = c.unrouted /\ d.answered = c.answered /\ d.at = "route"
        /\ d.grouped = c.grouped
    BY <1>1, <2>2 DEF Calls, Steps
  <2> HIDE DEF d
  <2>4. c.unrouted = c.buckets /\ c.grouped = Nowhere /\ c.answered = {}
        /\ c.op \in TableOps /\ c.buckets # {}
    BY <1>1, <2>1 DEF CallOK, TableCallOK
  <2>5. \A b \in d.buckets : Placed(d, b)
    BY <2>3, <2>4 DEF Placed, Nowhere
  <2>6. TableCallOK(d)
    <3>1. d.op \in RowCalls => \E b \in Buckets : d.buckets = {b}
      BY <1>1, <2>3 DEF CallOK, TableCallOK
    <3>2. d.answered = {} /\ d.at = "route" /\ d.id >= 1
      BY <2>2, <2>3, <2>4
    <3>3. QED
      BY <2>5, <3>1, <3>2 DEF TableCallOK
  <2>7. CallOK(d)
    BY <1>1, <2>3, <2>4, <2>6 DEF CallOK
  <2>8. QED
    BY <2>1, <2>2, <2>3, <2>7 DEF Moves, MovesTo
<1>5. CASE NoTableInfo(t)
  <2>1. Fail(t, TRUE) \/ Fail(t, FALSE)
    BY <1>5 DEF NoTableInfo
  <2>2. Current' >= 0
    BY <1>2
  <2>3. QED
    BY <2>1, <2>2, FailMoves
<1>6. QED
  BY <1>3, <1>4, <1>5


(* UpsertKV after a failed attempt. *)
LEMMA DecideMoves ==
  ASSUME Types, CallsOK, NEW t \in Tasks, Retry(t) \/ NoMoreAttempts(t)
  PROVE  Moves(t)
<1> DEFINE c == call[t]
           e == [[c EXCEPT !.at = "done", !.unrouted = {}, !.grouped = Nowhere, !.attempt = 0]
                   EXCEPT !.lost = FALSE]
           d == [[c EXCEPT !.at = "info", !.attempt = 1, !.unrouted = c.buckets,
                           !.grouped = Nowhere] EXCEPT !.lost = FALSE]
<1>1. Current' = Current /\ Current \in Nat /\ At(t, "decide")
  BY CurrentBound DEF Retry, NoMoreAttempts, Proceed, clusterVars, Current, Types
<1>2. c \in Calls /\ CallOK(c) /\ c.id \in Nat /\ c.id <= Current /\ c.at = "decide"
  BY <1>1 DEF At, CallsOK, Calls
<1>3. /\ e \in Calls /\ CallOK(e) /\ e.id = c.id
      /\ d \in Calls /\ CallOK(d) /\ d.id = c.id
  BY <1>2, DecidedOK
<1>4. ASSUME NEW lost \in BOOLEAN, Returns(t, lost) PROVE Moves(t)
  <2>1. call' = [call EXCEPT ![t] = e] \/ Fail(t, lost)
    BY <1>4 DEF Returns, End, Move
  <2> HIDE DEF c, d, e
  <2>2. QED
    BY <2>1, <1>1, <1>2, <1>3, FailMoves DEF Moves, MovesTo
<1>5. ASSUME TryAgain(t) PROVE Moves(t)
  <2>1. call' = [call EXCEPT ![t] = d]
    BY <1>5 DEF TryAgain, Move
  <2> HIDE DEF c, d, e
  <2>2. QED
    BY <2>1, <1>1, <1>2, <1>3 DEF Moves, MovesTo
<1>6. TryAgain(t) \/ Returns(t, FALSE) \/ Returns(t, TRUE)
  BY DEF Retry, NoMoreAttempts
<1>7. QED
  BY <1>4, <1>5, <1>6

(* The steps of a call of AdminClient. *)
LEMMA AdminMoves ==
  ASSUME Types, Types', CallsOK, NEW t \in Tasks,
         AcquireCoordinator(t) \/ AdminEnds(t) \/ AdminRefused(t)
  PROVE  Moves(t)
<1> DEFINE c == call[t]
<1>1. c \in Calls /\ CallOK(c) /\ c.id \in Nat /\ c.id <= Current
  BY DEF CallsOK, Calls
<1>2. Current' \in Nat /\ Current' >= 0
  BY DEF Types, ClusterTypes, Current
<1>3. CASE AdminEnds(t)
  BY <1>2, <1>3, IdleOK DEF AdminEnds, Moves, MovesTo
<1>4. CASE AdminRefused(t)
  <2>1. PICK lost : lost \in BOOLEAN /\ Fail(t, lost)
    BY <1>4 DEF AdminRefused, Answers, InOffice
  <2>2. QED
    BY <1>2, <2>1, FailMoves
<1>5. CASE AcquireCoordinator(t) /\ Fail(t, TRUE)
  BY <1>2, <1>5, FailMoves
<1>6. CASE AcquireCoordinator(t) /\ ~Fail(t, TRUE)
  <2> DEFINE d == [[c EXCEPT !.at = "ask"] EXCEPT !.lost = FALSE]
  <2>1. c.at = "coordinator" /\ call' = [call EXCEPT ![t] = d] /\ Current' = Current
    BY <1>6 DEF AcquireCoordinator, At, Move, Proceed, clusterVars, Current
  <2> HIDE DEF c
  <2>2. d \in Calls /\ d.id = c.id /\ d.op = c.op /\ d.buckets = c.buckets
        /\ d.unrouted = c.unrouted /\ d.answered = c.answered /\ d.at = "ask"
        /\ d.grouped = c.grouped
    BY <1>1 DEF Calls, Steps
  <2> HIDE DEF d
  <2>3. CallOK(d)
    BY <1>1, <2>1, <2>2 DEF CallOK, TableCallOK, RowCalls, Reads
  <2>4. QED
    BY <1>1, <2>1, <2>2, <2>3 DEF Moves, MovesTo
<1>7. QED
  BY <1>3, <1>4, <1>5, <1>6
(* A call that moves is sound again, *)
LEMMA CallMoves ==
  ASSUME Types, Types', CallsOK, NEW t \in Tasks, CallMove(t)
  PROVE  Moves(t)
BY BeginMoves, LookMoves, RouteMoves, SendMoves, DecideMoves, AdminMoves
   DEF CallMove, TableMove, AdminMove

(* and every step keeps the types and the calls sound. *)
LEMMA CallsKept ==
  ASSUME Types, CallsOK, [Next]_vars
  PROVE  Types' /\ CallsOK'
<1>1. Types' /\ TablesGrow
  <2>1. \A t \in Tasks : call[t].unrouted \subseteq Buckets
    BY DEF CallsOK, Calls
  <2>2. RequestTypes'
    BY <2>1, RequestsKept
  <2>3. QED
    BY <2>2, EnvSteps, ClusterKept, CacheKept DEF Types
<1>2. Current' >= Current /\ Current \in Nat /\ Current' \in Nat
  BY <1>1, CurrentBound DEF TablesGrow, Types
<1>3. call' = call => CallsOK'
  <2>1. \A t \in Tasks : call[t].id \in Nat /\ call[t].id <= Current
    BY DEF CallsOK, Calls
  <2>2. \A t \in Tasks : call[t].id <= Current'
    BY <1>2, <2>1
  <2>3. QED
    BY <2>2 DEF CallsOK
<1>4. call' = call \/ \E t \in Tasks : Moves(t)
  BY <1>1, NextSteps, RequestMoveIs, CallMoves DEF vars, ClusterMove
<1>5. QED
  BY <1>1, <1>2, <1>3, <1>4, MovesOK

(* All calls are idle at first. *)
LEMMA InitCalls == Init => Types /\ CallsOK
<1> SUFFICES ASSUME Init PROVE Types /\ CallsOK
  OBVIOUS
<1>1. Types
  BY InitTypes
<1>2. call = [t \in Tasks |-> Idle] /\ Current \in Nat
  BY <1>1, CurrentBound DEF Init, Types
<1>3. QED
  BY <1>1, <1>2, IdleOK DEF CallsOK

(* The calls stay sound. *)
LEMMA SpecCalls == Spec => [](Types /\ CallsOK)
<1>1. QED
  BY InitCalls, CallsKept, PTL DEF Spec

(* The marks of the history are of tasks. *)
Marks == disturbed \in SUBSET Tasks /\ replaced \in SUBSET Tasks

(* TableClient and AdminClient, whatever happens to the cluster and        *)
(* however late an answer is stored: the cache names a coordinator there   *)
(* was, a table and a schema there were, an answer that is not stored yet  *)
(* too, and a bucket of a call that is under way is in one place.          *)
THEOREM SpecTableTypeOK == Spec => []TypeOK
<1>1. Marks /\ [Next]_vars => Marks'
  BY NextObserves DEF Observe, Marks, vars
<1>2. Init => Marks
  BY DEF Init, Marks
<1>3. Types /\ CallsOK /\ Marks => TypeOK
  <2> SUFFICES ASSUME Types, CallsOK, Marks PROVE TypeOK
    OBVIOUS
  <2>1. /\ Current \in TableIds /\ term \in DOMAIN Coordinators
        /\ \A i \in DOMAIN tables : tables[i] \in Seq({Schemas[j] : j \in DOMAIN Schemas})
    BY CurrentBound, TableAssumption DEF Types, ClusterTypes, Columns
  <2>2. coordinator \in {Coordinators[i] : i \in 1 .. term} \cup {None}
    BY DEF Types, CacheTypes, Past
  <2>3. /\ info # NoInfo => info.id \in 1 .. Current /\ info.schema \in DOMAIN tables[info.id]
        /\ routes \in [TableIds -> [Buckets -> Servers \cup {None}]]
        /\ exists \in BOOLEAN /\ vacant \in BOOLEAN /\ changes \in 0 .. ChangeBound
        /\ leader \in [Buckets -> Servers \cup {None}]
    BY DEF Types, CacheTypes, ClusterTypes, Known
  <2>4. ASSUME NEW t \in Tasks
        PROVE  /\ call[t].at \in Steps /\ call[t].id \in 0 .. Current
               /\ At(t, "route") \/ At(t, "send") =>
                    \A b \in call[t].buckets : Placed(call[t], b)
    <3>1. call[t].at \in Steps /\ call[t].id \in Nat /\ call[t].id <= Current
          /\ Current \in Nat
      BY CurrentBound DEF CallsOK, Calls, Types
    <3>2. At(t, "route") \/ At(t, "send") => \A b \in call[t].buckets : Placed(call[t], b)
      BY DEF CallsOK, CallOK, TableCallOK, At
    <3>3. QED
      BY <3>1, <3>2
  <2>5. ASSUME NEW g \in Tasks \cup Fillers
        PROVE  /\ request[g].at \in {"none", "sent", "answered", "over"}
               /\ request[g].answer.info # NoInfo =>
                    /\ request[g].answer.info.id \in 1 .. Current
                    /\ request[g].answer.info.schema \in DOMAIN tables[request[g].answer.info.id]
    <3>1. request[g] \in Requests /\ Known(request[g].answer.info)
      BY DEF Types, RequestTypes, Goroutines
    <3>2. QED
      BY <3>1 DEF Requests, Known
  <2>6. QED
    BY <2>1, <2>2, <2>3, <2>4, <2>5 DEF TypeOK, Marks
<1>4. QED
  BY <1>1, <1>2, <1>3, SpecCalls, PTL DEF Spec

-------------------------------------------------------------------------------
(* Rows and their table *)

(* What a step makes of a call of one row. *)
RowMove(t) ==
  LET c == call[t]
      d == call'[t] IN
  \/ d.op \notin RowCalls
  \/ d.at = "encode" /\ d.answered = {}
  \/ Encode(t) \/ TakeTableId(t)
  \/ /\ c.at \in {"route", "send", "decide"}
     /\ d.op = c.op /\ d.info = c.info /\ d.id = c.id
     /\ d.at \in {"route", "send", "decide", "info", "done"}
     /\ d.at \in {"route", "send"} => c.at \in {"route", "send"}
     /\ d.op \in RowCalls /\ d.answered # {} => c.at = "send"

(* A task's call is what it was moved to. *)
LEMMA Dom == CallsOK =>
  \A t \in Tasks : \A d : call' = [call EXCEPT ![t] = d] => call'[t] = d
BY DEF CallsOK

(* A call that has failed is of no row, *)
LEMMA FailRow ==
  ASSUME CallsOK, NEW t \in Tasks, NEW lost, Fail(t, lost) PROVE RowMove(t)
<1>1. call'[t] = [Idle EXCEPT !.at = "failed", !.lost = lost]
  BY Dom DEF Fail
<1>2. QED
  BY <1>1 DEF RowMove, Idle, RowCalls

(* an upsert that goes to its decision keeps its row's table, *)
LEMMA GiveUpRow ==
  ASSUME CallsOK, NEW t \in Tasks, NEW lost, GiveUp(t, lost), call[t].at \in {"route", "send"}
  PROVE  RowMove(t)
<1>1. CASE call[t].op = "upsert row"
  <2> DEFINE c == call[t]
             d == [c EXCEPT !.at = "decide", !.lost = lost]
  <2>1. call'[t] = d
    BY <1>1 DEF GiveUp, CallsOK
  <2>2. c \in Calls /\ c.at \in {"route", "send"} /\ c.answered = {}
    BY <1>1 DEF CallsOK, CallOK, TableCallOK, RowCalls
  <2> HIDE DEF c
  <2>3. d.op = c.op /\ d.info = c.info /\ d.id = c.id /\ d.at = "decide"
        /\ d.answered = c.answered
    BY <2>2 DEF Calls
  <2> HIDE DEF d
  <2>4. QED
    BY <2>1, <2>2, <2>3 DEF RowMove, c
<1>2. CASE call[t].op # "upsert row"
  <2>1. Fail(t, lost)
    BY <1>2, Zenon DEF GiveUp
  <2>2. QED
    BY <2>1, FailRow
<1>3. QED
  BY <1>1, <1>2

(* and so do the lookup of its route, *)
LEMMA RouteRow ==
  ASSUME CallsOK, NEW t \in Tasks, GroupByLeader(t) PROVE RowMove(t)
<1> DEFINE c == call[t]
<1>1. c \in Calls /\ CallOK(c) /\ c.at = "route"
  BY DEF GroupByLeader, At, CallsOK
<1>2. PICK b \in c.unrouted : RouteFor(t, b)
  BY DEF GroupByLeader
<1>3. ASSUME NEW s, Group(t, b, s) PROVE RowMove(t)
  <2> DEFINE unrouted == c.unrouted \ {b}
             d == [[c EXCEPT !.at = IF unrouted = {} THEN "send" ELSE "route",
                             !.unrouted = unrouted, !.grouped[s] = @ \cup {b}]
                     EXCEPT !.lost = FALSE]
  <2>1. call'[t] = d
    BY <1>3, Dom DEF Group, Move
  <2> HIDE DEF c
  <2>2. d.op = c.op /\ d.info = c.info /\ d.id = c.id /\ d.at \in {"route", "send"}
        /\ d.answered = c.answered
    BY <1>1 DEF Calls
  <2>3. c.answered = {}
    BY <1>1 DEF CallOK, TableCallOK
  <2> HIDE DEF d
  <2>4. QED
    BY <2>1, <2>2, <2>3, <1>1 DEF RowMove, c
<1>4. QED
  BY <1>1, <1>2, <1>3, GiveUpRow DEF RouteFor

(* its request *)
LEMMA SendRow ==
  ASSUME CallsOK, NEW t \in Tasks, Send(t) PROVE RowMove(t)
<1> DEFINE c == call[t]
<1>1. c \in Calls /\ c.at = "send"
  BY DEF Send, At, CallsOK
<1>2. PICK s \in Servers : Request(t, s)
  BY DEF Send
<1>3. CASE Answered(t, s, c.grouped[s])
  <2> DEFINE rest == [c.grouped EXCEPT ![s] = {}]
             answered == c.answered \cup c.grouped[s]
             e == [[[c EXCEPT !.answered = answered]
                      EXCEPT !.at = "done", !.unrouted = {}, !.grouped = Nowhere, !.attempt = 0]
                     EXCEPT !.lost = FALSE]
             d == [[c EXCEPT !.grouped = rest, !.answered = answered] EXCEPT !.lost = FALSE]
  <2>1. call'[t] = IF rest = Nowhere THEN e ELSE d
    BY <1>3, Dom DEF Answered, End, Move
  <2> HIDE DEF c, rest, answered
  <2>2. e.op = c.op /\ e.info = c.info /\ e.id = c.id /\ e.at = "done"
    BY <1>1 DEF Calls
  <2>3. d.op = c.op /\ d.info = c.info /\ d.id = c.id /\ d.at = "send"
    BY <1>1 DEF Calls
  <2> HIDE DEF d, e
  <2>4. QED
    BY <2>1, <2>2, <2>3, <1>1 DEF RowMove, c
<1>4. QED
  BY <1>1, <1>2, <1>3, GiveUpRow, FailRow DEF Request

(* and its second attempt or its end. *)
LEMMA DecideRow ==
  ASSUME CallsOK, NEW t \in Tasks, Retry(t) \/ NoMoreAttempts(t) PROVE RowMove(t)
<1> DEFINE c == call[t]
           e == [[c EXCEPT !.at = "done", !.unrouted = {}, !.grouped = Nowhere, !.attempt = 0]
                   EXCEPT !.lost = FALSE]
           d == [[c EXCEPT !.at = "info", !.attempt = 1, !.unrouted = c.buckets,
                           !.grouped = Nowhere] EXCEPT !.lost = FALSE]
<1>1. c \in Calls /\ c.at = "decide" /\ c.answered = {}
  BY DEF CallsOK, Retry, NoMoreAttempts, At, CallOK, TableCallOK, RowCalls
<1>2. TryAgain(t) \/ Returns(t, FALSE) \/ Returns(t, TRUE)
  BY DEF Retry, NoMoreAttempts
<1>3. call'[t] = e \/ call'[t] = d \/ \E lost : Fail(t, lost)
  BY <1>2, Dom DEF TryAgain, Returns, End, Move
<1> HIDE DEF c
<1>4. e.op = c.op /\ e.info = c.info /\ e.id = c.id /\ e.at = "done" /\ e.answered = {}
  BY <1>1 DEF Calls
<1>5. d.op = c.op /\ d.info = c.info /\ d.id = c.id /\ d.at = "info" /\ d.answered = {}
  BY <1>1 DEF Calls
<1> HIDE DEF d, e
<1>6. QED
  BY <1>1, <1>3, <1>4, <1>5, FailRow DEF RowMove, c

(* What any move makes of the call of a row. *)
LEMMA RowMoves ==
  ASSUME CallsOK, NEW t \in Tasks, CallMove(t)
  PROVE  RowMove(t)
<1>1. CASE StartRead(t) \/ StartRowCall(t) \/ StartQuery(t) \/ StartAdmin(t)
  <2>1. ASSUME NEW op, NEW buckets, NEW step, Begin(t, op, buckets, step),
               op \in RowCalls => step = "encode"
        PROVE  RowMove(t)
    <3>1. call'[t] = [Idle EXCEPT !.op = op, !.at = step, !.buckets = buckets,
                                  !.unrouted = buckets]
      BY <2>1, Dom DEF Begin
    <3>2. call'[t].op = op /\ call'[t].at = step /\ call'[t].answered = {}
      BY <3>1 DEF Idle
    <3>3. QED
      BY <2>1, <3>2 DEF RowMove
  <2>2. QED
    BY <1>1, <2>1 DEF StartRead, StartRowCall, StartQuery, StartAdmin, RowCalls
<1>2. CASE NoTableInfo(t)
  BY <1>2, FailRow DEF NoTableInfo
<1>3. CASE AdminRefused(t)
  BY <1>3, FailRow DEF AdminRefused
<1>4. CASE AdminEnds(t)
  <2>1. call'[t] = Idle
    BY <1>4, Dom DEF AdminEnds
  <2>2. QED
    BY <2>1 DEF RowMove, Idle, RowCalls
<1>5. CASE AcquireCoordinator(t)
  <2> DEFINE c == call[t]
             d == [[c EXCEPT !.at = "ask"] EXCEPT !.lost = FALSE]
  <2>1. call'[t] = d \/ Fail(t, TRUE)
    BY <1>5, Dom DEF AcquireCoordinator, Move
  <2>2. c \in Calls /\ c.op \in {"query", "admin"}
    BY <1>5 DEF CallsOK, CallOK, AcquireCoordinator, At
  <2> HIDE DEF c
  <2>3. d.op = c.op
    BY <2>2 DEF Calls
  <2> HIDE DEF d
  <2>4. QED
    BY <2>1, <2>2, <2>3, FailRow DEF RowMove, RowCalls
<1>6. CASE Encode(t) \/ TakeTableId(t)
  BY <1>6 DEF RowMove
<1>7. QED
  BY <1>1, <1>2, <1>3, <1>4, <1>5, <1>6, RouteRow, SendRow, DecideRow
     DEF CallMove, TableMove, AdminMove

(* What RowsKeepTheirTable rests on: while no other table is cached, what  *)
(* the call read of the table, and the ID in its requests, are of the      *)
(* table that is cached, and so is the answer that it stored.              *)
RowKept(t) ==
  LET c == call[t]
      r == request[t] IN
  c.op \in RowCalls /\ t \notin replaced =>
    /\ c.at = "encode" /\ r.at = "over" /\ r.answer.info # NoInfo => r.answer.info.id = info.id
    /\ c.at = "info" => r.at = "none"
    /\ c.at \in {"info", "route", "send", "decide"} => c.info.id = info.id /\ info.id # 0
    /\ c.at \in {"route", "send"} => c.id = info.id
    /\ c.at = "done" /\ c.answered # {} => c.info.id = c.id

RowsInv == \A t \in Tasks : RowKept(t)

(* A call that another goroutine's step leaves alone. *)
LEMMA OtherRowKept ==
  ASSUME RowsInv, NEW t \in Tasks, call'[t] = call[t], request'[t] = request[t], Observe
  PROVE  RowKept(t)'
<1> SUFFICES ASSUME call[t].op \in RowCalls, t \notin replaced'
             PROVE  RowKept(t)'
  BY DEF RowKept
<1>1. Began(t) <=> FALSE
  BY DEF Began, Busy
<1>2. t \notin replaced
  BY <1>1 DEF Observe
<1>3. Busy(t) => info'.id = info.id
  BY DEF Observe, Looks
<1>4. RowKept(t)
  BY DEF RowsInv
<1>5. QED
  BY <1>2, <1>3, <1>4 DEF RowKept, Busy

(* A call whose request takes a step: its own answer, once stored, is what *)
(* is cached.                                                              *)
LEMMA RequestRowKept ==
  ASSUME Types, RowsInv, NEW t \in Tasks, RequestMove(t)
  PROVE  RowKept(t)'
<1> DEFINE c == call[t]
           r == request[t]
<1>1. call' = call /\ Observe
  BY RequestMoveIs DEF Goroutines
<1> SUFFICES ASSUME c.op \in RowCalls, t \notin replaced'
             PROVE  RowKept(t)'
  BY <1>1 DEF RowKept
<1>2. t \notin replaced /\ RowKept(t)
  BY <1>1 DEF Observe, Began, Busy, RowsInv
<1>3. request \in [Goroutines -> Requests] /\ t \in Goroutines
  BY DEF Types, RequestTypes, Goroutines
<1>4. CASE c.at = "encode"
  <2>1. ASSUME request'[t].at = "over" PROVE StoreInfo(t) /\ request'[t].answer = r.answer
    <3>1. \A b : RequestIs(t, Asked(b)) => request'[t].at = "sent"
      BY <1>3 DEF RequestIs, Asked, NoRequest
    <3>2. RequestIs(t, Received(t)) => request'[t].at = "answered"
      BY <1>3 DEF RequestIs, Received, NoRequest
    <3>3. RequestIs(t, Stored(t))
      BY <2>1, <1>3, <3>1, <3>2, RequestMoveTo
    <3>4. request'[t].answer = r.answer
      BY <1>3, <3>3 DEF RequestIs, Stored, Requests
    <3>5. ~Asks(t)
      <4>1. Asks(t) => \E b : RequestIs(t, Asked(b))
        BY DEF Asks, TaskAsks, AskInfo, AskRoute, AskAgain, AskCoordinator, Ask, RequestIs,
               Asked
      <4>2. QED
        BY <2>1, <3>1, <4>1
    <3>6. ~Receive(t)
      <4>1. Receive(t) => RequestIs(t, Received(t))
        BY DEF Receive, RequestIs, Received
      <4>2. QED
        BY <2>1, <3>2, <4>1
    <3>7. t \notin Fillers
      BY TableAssumption DEF Tasks
    <3>8. StoreInfo(t)
      BY <1>4, <3>5, <3>6, <3>7 DEF RequestMove, Stores, Drops, StoreRoutes, StoreCoordinator, At
    <3>9. QED
      BY <3>4, <3>8
  <2>2. ASSUME request'[t].at = "over", request'[t].answer.info # NoInfo
        PROVE  request'[t].answer.info.id = info'.id
    BY <2>1, <2>2 DEF StoreInfo, GetTableInfo
  <2>3. QED
    BY <1>1, <1>4, <2>2 DEF RowKept, NoInfo
<1>5. CASE c.at = "info"
  <2>1. r.at = "none" /\ info # NoInfo
    BY <1>2, <1>5 DEF RowKept, NoInfo
  <2>2. t \notin Fillers
    BY TableAssumption DEF Tasks
  <2>3. QED
    BY <1>5, <2>1, <2>2
       DEF RequestMove, Asks, TaskAsks, AskInfo, AskRoute, AskAgain, AskCoordinator, Receive,
           Stores, StoreStep, GetTableInfo, RefreshMetadata, Drops, At, Requested
<1>6. CASE c.at \notin {"encode", "info"}
  <2>1. Busy(t) => info'.id = info.id
    BY <1>1, <1>6 DEF Observe, Looks, At
  <2>2. QED
    BY <1>1, <1>2, <1>6, <2>1 DEF RowKept, Busy
<1>7. QED
  BY <1>4, <1>5, <1>6

(* The call that moves. *)
LEMMA MovedRowKept ==
  ASSUME Types, CallsOK, RowsInv, NEW t \in Tasks, CallMove(t)
  PROVE  RowKept(t)'
<1> DEFINE c == call[t]
           d == call'[t]
<1> SUFFICES ASSUME d.op \in RowCalls, t \notin replaced'
             PROVE  RowKept(t)'
  BY DEF RowKept
<1>0. c \in Calls /\ RowKept(t) /\ CallOK(c) /\ Observe
  BY CallMoveIs DEF CallsOK, RowsInv
<1>1. request'[t].at = "none"
  BY CallMoveIs DEF Forget, Types, RequestTypes, Goroutines, NoRequest
<1>2. CASE d.at = "encode" /\ d.answered = {}
  BY <1>1, <1>2 DEF RowKept
<1>3. CASE Encode(t)
  <2> DEFINE i == TableInfo(t)
  <2>1. InfoThere(t) /\ UNCHANGED cacheVars /\ c.at = "encode"
        /\ call' = [call EXCEPT ![t] = [[c EXCEPT !.at = "info", !.info = i]
                                         EXCEPT !.lost = FALSE]]
    BY <1>3 DEF Encode, Move, Proceed, At
  <2>2. d = [[c EXCEPT !.at = "info", !.info = i] EXCEPT !.lost = FALSE]
    BY <2>1, Dom
  <2>3. i.id # 0
    BY <2>1, TableInfoIs
  <2> HIDE DEF i
  <2>4. d.at = "info" /\ d.info = i /\ d.op = c.op
    BY <1>0, <2>2 DEF Calls
  <2>5. t \notin replaced
    BY <1>0, <2>1 DEF Observe, Began, Busy
  <2>6. i.id = info.id
    BY <1>0, <2>1, <2>4, <2>5 DEF RowKept, InfoThere, TableInfo, Requested, i
  <2>7. info' = info
    BY <2>1 DEF cacheVars
  <2>8. QED
    BY <1>1, <2>3, <2>4, <2>6, <2>7 DEF RowKept
<1>4. CASE TakeTableId(t)
  <2> DEFINE i == TableInfo(t)
  <2>1. UNCHANGED cacheVars /\ c.at = "info"
        /\ call' = [call EXCEPT ![t] = [[c EXCEPT !.at = "route", !.id = i.id]
                                         EXCEPT !.lost = FALSE]]
    BY <1>4 DEF TakeTableId, Move, At, Proceed
  <2>2. d = [[c EXCEPT !.at = "route", !.id = i.id] EXCEPT !.lost = FALSE]
    BY <2>1, Dom
  <2> HIDE DEF i
  <2>3. d.at = "route" /\ d.id = i.id /\ d.info = c.info /\ d.op = c.op
    BY <1>0, <2>2 DEF Calls
  <2>4. t \notin replaced
    BY <1>0, <2>1 DEF Observe, Began, Busy
  <2>5. c.info.id = info.id /\ info.id # 0 /\ request[t].at = "none"
    BY <1>0, <2>1, <2>3, <2>4 DEF RowKept
  <2>6. i = info /\ info' = info
    BY <2>1, <2>5 DEF TableInfo, Requested, cacheVars, i
  <2>7. QED
    BY <2>3, <2>5, <2>6 DEF RowKept
<1>5. CASE /\ c.at \in {"route", "send", "decide"}
           /\ d.op = c.op /\ d.info = c.info /\ d.id = c.id
           /\ d.at \in {"route", "send", "decide", "info", "done"}
           /\ d.at \in {"route", "send"} => c.at \in {"route", "send"}
           /\ d.op \in RowCalls /\ d.answered # {} => c.at = "send"
  <2>1. Busy(t) /\ ~Began(t) /\ ~Looks(t)
    BY <1>5 DEF Busy, Began, Looks, At
  <2>2. t \notin replaced /\ info'.id = info.id
    BY <1>0, <2>1 DEF Observe
  <2>3. c.info.id = info.id /\ info.id # 0 /\ (c.at \in {"route", "send"} => c.id = info.id)
    BY <1>0, <1>5, <2>2 DEF RowKept
  <2>4. QED
    BY <1>1, <1>5, <2>2, <2>3 DEF RowKept
<1>6. RowMove(t)
  BY RowMoves
<1>7. QED
  BY <1>2, <1>3, <1>4, <1>5, <1>6 DEF RowMove

(* A call that moves leaves the others alone, *)
LEMMA CallAlone ==
  ASSUME Types, Types', CallsOK, NEW t \in Tasks, CallMove(t)
  PROVE  \A u \in Tasks : u # t => call'[u] = call[u] /\ request'[u] = request[u]
<1>1. \A u \in Tasks : u # t => call'[u] = call[u]
  BY CallMoves DEF Moves, MovesTo, CallsOK
<1>2. \A u \in Tasks : u # t => request'[u] = request[u]
  BY CallMoveIs DEF Forget, Types, RequestTypes, Goroutines
<1>3. QED
  BY <1>1, <1>2

(* and so does a step of a request. *)
LEMMA RequestAlone ==
  ASSUME Types, NEW g \in Goroutines, RequestMove(g)
  PROVE  \A u \in Tasks : u # g => call'[u] = call[u] /\ request'[u] = request[u]
<1>1. \A r : RequestIs(g, r) => \A u \in Tasks : u # g => request'[u] = request[u]
  BY DEF RequestIs, Types, RequestTypes, Goroutines
<1>2. QED
  BY <1>1, RequestMoveTo, RequestMoveIs

(* Each step keeps RowsInv. *)
LEMMA RowsInvKept ==
  ASSUME Types, CallsOK, RowsInv, [Next]_vars PROVE RowsInv'
<1>1. Types'
  BY CallsKept
<1>2. CASE UNCHANGED vars
  BY <1>2 DEF vars, cacheVars, RowsInv, RowKept
<1>3. CASE ClusterMove
  BY <1>3, OtherRowKept DEF ClusterMove, RowsInv
<1>4. ASSUME NEW t \in Tasks, CallMove(t) PROVE RowsInv'
  BY <1>1, <1>4, CallAlone, CallMoveIs, OtherRowKept, MovedRowKept DEF RowsInv
<1>5. ASSUME NEW g \in Goroutines, RequestMove(g) PROVE RowsInv'
  BY <1>5, RequestAlone, RequestMoveIs, OtherRowKept, RequestRowKept DEF RowsInv
<1>6. QED
  BY <1>2, <1>3, <1>4, <1>5, NextSteps

(* client/row.go and table.go, of UpsertRow, DeleteRow and LookupRows: the *)
(* row is stored or read in the table whose layout it was encoded for,     *)
(* unless another table was cached while the call was under way.           *)
THEOREM SpecRowsKeepTheirTable == Spec => []RowsKeepTheirTable
<1>1. Init => RowsInv
  <2>1. Idle.op \notin RowCalls
    BY DEF Idle, RowCalls
  <2>2. Init => \A t \in Tasks : call[t] = Idle
    BY DEF Init
  <2>3. QED
    BY <2>1, <2>2 DEF RowsInv, RowKept
<1>2. CallsOK /\ RowsInv => RowsKeepTheirTable
  <2> SUFFICES ASSUME CallsOK, RowsInv, NEW t \in Tasks, call[t].op \in RowCalls,
                      call[t].answered # {}, t \notin replaced
               PROVE  call[t].info.id = call[t].id
    BY DEF RowsKeepTheirTable
  <2>1. call[t].at = "done"
    BY DEF CallsOK, CallOK, TableCallOK
  <2>2. QED
    BY <2>1 DEF RowsInv, RowKept
<1>3. QED
  BY <1>1, <1>2, RowsInvKept, SpecCalls, PTL DEF Spec

-------------------------------------------------------------------------------
(* Calls and what may make them fail *)

(* What a call that nothing has disturbed holds, besides that all it rests *)
(* on is sound: its groups are those of the cached routes, no attempt of   *)
(* it has failed, a call of the coordinator has one to go to, and the      *)
(* answer to its request was of all it needs.                              *)
Led(t) ==
  \A s \in Servers : \A b \in call[t].grouped[s] : routes[Current][b] = s

Enough(t) ==
  LET m == request[t].answer IN
  /\ call[t].buckets # {} =>
       m.info # NoInfo /\ m.info.id = Current /\ \A b \in Buckets : m.leader[b] # None
  /\ call[t].op = "admin" => m.coordinator # None

Met(t) ==
  LET r == request[t] IN
  /\ r.at \in {"answered", "over"} => Enough(t)
  /\ At(t, "coordinator") /\ r.at = "over" => coordinator # None
  /\ At(t, "route") /\ r.at # "none" /\ r.bucket \in call[t].unrouted =>
       /\ r.bucket \notin Partitioned
       /\ r.at = "over" => routes[Current][r.bucket] # None

Held(t) ==
  /\ call[t].at # "decide"
  /\ call[t].at \in {"route", "send"} => Led(t)
  /\ call[t].at = "ask" /\ call[t].op = "admin" => coordinator # None
  /\ Met(t)

Steady(t) == Busy(t) => Sound(t) /\ Held(t)

AccountInv ==
  \A t \in Tasks : /\ At(t, "failed") => t \in disturbed
                   /\ t \notin disturbed => Steady(t)

(* What an answer says of its bucket it says of all that are stored. *)
LEMMA LearnedLed ==
  ASSUME NEW m, NEW b \in Buckets, NEW path, NEW partition, Learned(m, b, path, partition)
  PROVE  m.leader[b] # None
BY DEF Learned, PartitionStored, TableStored, Whole

(* A cached route is never forgotten, although it may become an older one. *)
LEMMA RouteStays ==
  ASSUME Types, EnvStep, NEW i \in TableIds, NEW b \in Buckets, routes[i][b] # None
  PROVE  routes'[i][b] # None
<1>1. CASE UNCHANGED routes
  BY <1>1
<1>2. ASSUME NEW g \in Goroutines, StoreStep(g) PROVE routes'[i][b] # None
  <2> DEFINE m == request[g].answer
  <2>1. CASE GetTableInfo(g)
    BY <1>1, <2>1 DEF GetTableInfo
  <2>2. ASSUME NEW path, NEW partition, RefreshMetadata(g, path, partition)
        PROVE  routes'[i][b] # None
    <3>1. CASE UNCHANGED cacheVars
      BY <1>1, <3>1 DEF cacheVars
    <3>2. CASE ~UNCHANGED cacheVars
      <4>1. routes' = [j \in TableIds |-> [x \in Buckets |->
                 IF j = m.info.id /\ Learned(m, x, path, partition) THEN m.leader[x]
                 ELSE routes[j][x]]]
        BY <2>2, <3>2 DEF RefreshMetadata
      <4>2. routes'[i][b] = IF i = m.info.id /\ Learned(m, b, path, partition)
                            THEN m.leader[b] ELSE routes[i][b]
        BY <4>1
      <4> HIDE DEF m
      <4>3. QED
        BY <4>2, LearnedLed
    <3>3. QED
      BY <3>1, <3>2
  <2>3. QED
    BY <1>2, <2>1, <2>2 DEF StoreStep
<1>3. QED
  BY <1>1, <1>2 DEF EnvStep, TablesStep, LeaderStep, CoordinatorStep, cacheVars

(* There is a coordinator for the term, which is not the endpoint. *)
LEMMA TermThere == Types => Coordinators[term] # None /\ Coordinators[term] # Seed
BY TableAssumption DEF Types, ClusterTypes

(* A cached coordinator is never forgotten. *)
LEMMA CoordinatorStays ==
  ASSUME EnvStep, coordinator # None
  PROVE  coordinator' # None
<1>1. ASSUME NEW g \in Goroutines, StoreStep(g) PROVE coordinator' # None
  BY <1>1 DEF StoreStep, GetTableInfo, RefreshMetadata, cacheVars
<1>2. QED
  BY <1>1 DEF EnvStep, TablesStep, LeaderStep, CoordinatorStep, cacheVars

(* A table is created only when there is none. *)
LEMMA CurrentStays ==
  ASSUME Types, EnvStep, exists
  PROVE  Current' = Current
<1>1. CASE TablesStep
  <2>1. tables' = [tables EXCEPT ![Current] = Append(@, NewSchema)] => Len(tables') = Len(tables)
    BY DEF Types, ClusterTypes
  <2>2. QED
    BY <1>1, <2>1 DEF TablesStep, Current
<1>2. QED
  BY <1>1 DEF EnvStep, LeaderStep, CoordinatorStep, clusterVars, Current

(* What the client can rely on while nothing disturbs the call. *)
LEMMA SoundFacts ==
  ASSUME Types, CallsOK, NEW t \in Tasks, Sound(t)
  PROVE  /\ Answers(Address) /\ Current \in TableIds
         /\ call[t].buckets # {} => exists /\ AllLed(Buckets)
         /\ call[t].at \in {"route", "send"} => call[t].id = Current /\ call[t].buckets # {}
<1> DEFINE c == call[t]
<1>1. Answers(Address)
  <2>1. CASE coordinator # None
    BY <2>1 DEF Sound, Answers, Address
  <2>2. CASE coordinator = None
    BY <2>2 DEF Answers, Address
  <2>3. QED
    BY <2>1, <2>2
<1>2. c.buckets # {} => exists /\ AllLed(Buckets) /\ c.id \in {0, Current}
  BY DEF Sound
<1>3. c.at \in {"route", "send"} => c.id >= 1 /\ c.buckets # {} /\ c.id \in Nat
  BY DEF CallsOK, CallOK, TableCallOK, Calls
<1>4. Current \in TableIds
  BY CurrentBound DEF Types
<1>5. QED
  BY <1>1, <1>2, <1>3, <1>4

(* The groups of a request are those of the leaders, *)
LEMMA LedIs ==
  ASSUME Types, CallsOK, NEW t \in Tasks, Sound(t), Led(t),
         NEW s \in Servers, NEW b \in call[t].grouped[s]
  PROVE  /\ routes[Current][b] = s /\ leader[b] = s
         /\ b \in call[t].buckets /\ b \in Buckets
<1>1. b \in call[t].buckets /\ b \in Buckets
  BY DEF CallsOK, CallOK, Calls
<1>2. routes[Current][b] = s
  BY DEF Led
<1>3. s # None
  BY TableAssumption
<1>4. leader[b] = s
  BY <1>1, <1>2, <1>3 DEF Sound
<1>5. QED
  BY <1>1, <1>2, <1>4

(* and stay so while the call is sound: an older route that is stored late *)
(* disturbs it.                                                            *)
LEMMA LedStays ==
  ASSUME Types, CallsOK, EnvStep, NEW t \in Tasks, call'[t] = call[t], Sound(t), Sound(t)',
         call[t].at \in {"route", "send"}, Led(t)
  PROVE  Led(t)'
<1>1. call[t].buckets # {} /\ exists /\ Current \in TableIds /\ Current' = Current
  BY SoundFacts, CurrentStays
<1>2. ASSUME NEW s \in Servers, NEW b \in call[t].grouped[s] PROVE routes'[Current][b] = s
  <2>1. routes[Current][b] = s /\ leader[b] = s /\ b \in call[t].buckets /\ b \in Buckets
    BY LedIs
  <2>2. routes'[Current][b] # None
    BY <1>1, <2>1, RouteStays, TableAssumption
  <2>3. routes'[Current][b] = leader'[b]
    BY <1>1, <2>1, <2>2 DEF Sound
  <2>4. routes' = routes \/ leader' = leader
    BY DEF EnvStep, TablesStep, LeaderStep, CoordinatorStep, cacheVars, clusterVars
  <2>5. QED
    BY <2>1, <2>3, <2>4
<1>3. QED
  BY <1>1, <1>2 DEF Led

(* A call that another goroutine's step leaves alone, or a step of its own *)
(* request.                                                                *)
LEMMA StillAccounted ==
  ASSUME Types, EnvStep, CallsOK, AccountInv, NEW t \in Tasks, call'[t] = call[t], Observe,
         Busy(t) /\ Sound(t) /\ Sound(t)' /\ Held(t) => Met(t)'
  PROVE  /\ At(t, "failed")' => t \in disturbed'
         /\ t \notin disturbed' => Steady(t)'
<1>1. ~Began(t)
  BY DEF Began, Busy
<1>2. CASE At(t, "failed")
  BY <1>1, <1>2 DEF AccountInv, Observe, At, Steady, Busy
<1>3. CASE ~At(t, "failed")
  <2> SUFFICES ASSUME t \notin disturbed', Busy(t)' PROVE Sound(t)' /\ Held(t)'
    BY <1>3 DEF Steady, At
  <2>1. Busy(t)
    BY DEF Busy
  <2>2. t \notin disturbed /\ Sound(t)'
    BY <1>1 DEF Observe, Busy, At
  <2>3. Sound(t) /\ Held(t)
    BY <2>1, <2>2 DEF AccountInv, Steady
  <2>4. call[t].at \in {"route", "send"} => Led(t)'
    BY <2>2, <2>3, LedStays DEF Held
  <2>5. call[t].at = "ask" /\ call[t].op = "admin" => coordinator' # None
    BY <2>3, CoordinatorStays DEF Held
  <2>6. QED
    BY <2>1, <2>2, <2>3, <2>4, <2>5 DEF Held
<1>4. QED
  BY <1>2, <1>3

(* An answer stays the one that was met by. *)
LEMMA OtherMet ==
  ASSUME Types, EnvStep, CallsOK, NEW t \in Tasks, call'[t] = call[t],
         request'[t] = request[t], Sound(t), Held(t)
  PROVE  Met(t)'
<1>1. call[t].buckets # {} => Current' = Current
  BY SoundFacts, CurrentStays
<1>2. At(t, "route") => call[t].buckets # {} /\ Current \in TableIds
                        /\ call[t].unrouted \subseteq Buckets
  BY SoundFacts DEF At, CallsOK, Calls
<1>3. Enough(t) => Enough(t)'
  BY <1>1 DEF Enough, NoInfo
<1>4. coordinator # None => coordinator' # None
  BY CoordinatorStays
<1>5. At(t, "route") /\ request[t].bucket \in call[t].unrouted
        /\ routes[Current][request[t].bucket] # None
        => routes'[Current'][request[t].bucket] # None
  BY <1>1, <1>2, RouteStays
<1>6. QED
  BY <1>3, <1>4, <1>5 DEF Met, Held, At

(* A step of the call's own request. *)
LEMMA RequestMet ==
  ASSUME Types, CallsOK, NEW t \in Tasks, RequestMove(t), Busy(t), Sound(t), Held(t)
  PROVE  Met(t)'
<1> DEFINE c == call[t]
           r == request[t]
<1>1. UNCHANGED <<clusterVars, call>> /\ Current' = Current
  BY RequestMoveIs DEF Goroutines, clusterVars, Current
<1>2. request \in [Goroutines -> Requests] /\ t \in Goroutines /\ t \notin Fillers
  BY TableAssumption DEF Types, RequestTypes, Goroutines, Tasks
<1>3. c.unrouted \subseteq Buckets /\ c.unrouted \subseteq c.buckets
      /\ (c.at = "coordinator" => c.op = "admin")
  BY DEF CallsOK, CallOK, Calls
<1>4. CASE Asks(t)
  <2>1. PICK b : RequestIs(t, Asked(b)) /\ (c.at = "route" => AskRoute(t))
                 /\ (AskRoute(t) => b \in c.unrouted /\ routes[c.id][b] = None)
    <3>1. CASE c.at = "route"
      <4>1. AskRoute(t)
        BY <1>2, <1>4, <3>1 DEF Asks, TaskAsks, AskInfo, AskAgain, AskCoordinator, At
      <4>2. PICK b \in c.unrouted : routes[c.id][b] = None /\ Ask(t, b)
        BY <4>1 DEF AskRoute
      <4>3. RequestIs(t, Asked(b))
        BY <4>2 DEF Ask, RequestIs, Asked
      <4>4. QED
        BY <4>1, <4>2, <4>3
    <3>2. CASE c.at # "route"
      <4>1. ~AskRoute(t)
        BY <3>2 DEF AskRoute, At
      <4>2. \E b : Ask(t, b)
        BY <1>4 DEF Asks, TaskAsks, AskInfo, AskRoute, AskAgain, AskCoordinator
      <4>3. QED
        BY <3>2, <4>1, <4>2 DEF Ask, RequestIs, Asked
    <3>3. QED
      BY <3>1, <3>2
  <2>2. request'[t].at = "sent" /\ request'[t].bucket = b
    BY <1>2, <2>1 DEF RequestIs, Asked, NoRequest
  <2>3. c.at = "route" => b \notin Partitioned
    <3>1. c.at = "route" => c.id = Current /\ AllLed(Buckets)
      BY SoundFacts
    <3>2. QED
      BY <2>1, <1>3, <3>1 DEF Sound, AllLed
  <2>4. QED
    BY <1>1, <2>2, <2>3 DEF Met, At
<1>5. CASE Receive(t)
  <2>1. RequestIs(t, Received(t)) /\ r.at = "sent"
    BY <1>5 DEF Receive, RequestIs, Received, Requested
  <2>2. /\ request'[t].at = "answered" /\ request'[t].answer = Metadata
        /\ request'[t].bucket = r.bucket
    BY <1>2, <2>1 DEF RequestIs, Received, NoRequest
  <2>3. c.buckets # {} => /\ Metadata.info # NoInfo /\ Metadata.info.id = Current
                          /\ \A b \in Buckets : Metadata.leader[b] # None
    <3>1. Answer.id = Current /\ Current # 0
      BY CurrentBound DEF Answer, Types, ClusterTypes
    <3>2. Answer # NoInfo
      BY <3>1 DEF NoInfo
    <3>3. QED
      BY <3>1, <3>2, SoundFacts DEF Metadata, AllLed
  <2>4. c.op = "admin" => Metadata.coordinator # None
    BY TermThere DEF Metadata, Sound
  <2>5. Enough(t)'
    BY <1>1, <2>2, <2>3, <2>4 DEF Enough, NoInfo
  <2>6. c.at = "route" /\ r.bucket \in c.unrouted => r.bucket \notin Partitioned
    BY <2>1 DEF Held, Met, At
  <2>7. QED
    BY <1>1, <2>2, <2>5, <2>6 DEF Met, At
<1>6. CASE Stores(t)
  <2> DEFINE m == r.answer
  <2>1. r.at = "answered"
    BY <1>6 DEF Stores, StoreStep, GetTableInfo, RefreshMetadata, Requested
  <2>2. RequestIs(t, Stored(t))
    BY <1>2, <1>6 DEF Stores, StoreStep, GetTableInfo, RefreshMetadata, Over, RequestIs, Stored
  <2>3. request'[t].answer = m /\ request'[t].bucket = r.bucket /\ request'[t].at = "over"
    BY <1>2, <2>2 DEF RequestIs, Stored, Requests
  <2>4. Enough(t)
    BY <2>1 DEF Held, Met
  <2>5. Enough(t)'
    BY <1>1, <2>3, <2>4 DEF Enough, NoInfo
  <2>6. c.at = "coordinator" => coordinator' # None
    <3>1. c.at = "coordinator" => RefreshMetadata(t, FALSE, FALSE)
      BY <1>2, <1>6 DEF Stores, StoreInfo, StoreRoutes, StoreCoordinator, At
    <3>2. QED
      BY <1>3, <2>4, <3>1 DEF RefreshMetadata, Enough
  <2>7. ASSUME c.at = "route", r.bucket \in c.unrouted
        PROVE  r.bucket \notin Partitioned /\ routes'[Current][r.bucket] # None
    <3>1. r.bucket \notin Partitioned /\ r.bucket \in Buckets /\ c.buckets # {}
      BY <1>3, <2>1, <2>7 DEF Held, Met, At
    <3>2. RefreshMetadata(t, TRUE, FALSE)
      BY <1>2, <1>6, <2>7 DEF Stores, StoreInfo, StoreRoutes, StoreCoordinator, At
    <3>3. m.info # NoInfo /\ m.info.id = Current /\ \A b \in Buckets : m.leader[b] # None
      BY <2>4, <3>1 DEF Enough
    <3>4. routes' = [i \in TableIds |-> [b \in Buckets |->
             IF i = m.info.id /\ Learned(m, b, TRUE, FALSE) THEN m.leader[b] ELSE routes[i][b]]]
      BY <3>2, <3>3 DEF RefreshMetadata
    <3>5. Learned(m, r.bucket, TRUE, FALSE)
      BY <3>1, <3>3 DEF Learned, TableStored, Whole
    <3>6. Current \in TableIds
      BY SoundFacts
    <3> HIDE DEF m, r
    <3>7. routes'[Current][r.bucket] = m.leader[r.bucket]
      BY <3>1, <3>3, <3>4, <3>5, <3>6
    <3>8. QED
      BY <3>1, <3>3, <3>7
  <2>8. QED
    BY <1>1, <2>3, <2>5, <2>6, <2>7 DEF Met, At
<1>7. QED
  BY <1>2, <1>4, <1>5, <1>6 DEF RequestMove, Drops

(* The call that moves: it neither fails nor loses what it held. *)
Goes(t) == call'[t].lost \/ (call'[t].at # "failed" /\ Held(t)')

(* The call that moves, from what its step does (Goes). *)
LEMMA MovedAccounted ==
  ASSUME AccountInv, NEW t \in Tasks, Steady(t) => Goes(t), Observe,
         Busy(t) \/ Busy(t)'
  PROVE  /\ At(t, "failed")' => t \in disturbed'
         /\ t \notin disturbed' => Steady(t)'
<1>1. CASE At(t, "failed")'
  <2>1. ~Busy(t)' /\ ~Began(t)
    BY <1>1 DEF At, Busy, Began
  <2>2. ASSUME t \notin disturbed' PROVE FALSE
    <3>1. t \notin disturbed /\ ~call'[t].lost
      BY <1>1, <2>1, <2>2 DEF Observe, At
    <3>2. QED
      BY <1>1, <3>1 DEF AccountInv, Goes, At
  <2>3. QED
    BY <2>1, <2>2 DEF Steady
<1>2. CASE ~At(t, "failed")'
  <2> SUFFICES ASSUME t \notin disturbed', Busy(t)' PROVE Sound(t)' /\ Held(t)'
    BY <1>2 DEF Steady
  <2>1. (t \notin disturbed \/ Began(t)) /\ ~call'[t].lost /\ Sound(t)'
    BY DEF Observe, Busy, At
  <2>2. Began(t) => Steady(t)
    BY DEF Began, Steady
  <2>3. Steady(t)
    BY <2>1, <2>2 DEF AccountInv
  <2>4. QED
    BY <2>1, <2>3 DEF Goes
<1>3. QED
  BY <1>1, <1>2

(* An answer that was lost disturbs the call that fails, *)
LEMMA FailGoes ==
  ASSUME CallsOK, NEW t \in Tasks, Fail(t, TRUE) PROVE Goes(t)
<1>1. call'[t] = [Idle EXCEPT !.at = "failed", !.lost = TRUE]
  BY Dom DEF Fail
<1>2. QED
  BY <1>1 DEF Goes, Idle

(* or the upsert that goes to its decision. *)
LEMMA GiveUpGoes ==
  ASSUME CallsOK, NEW t \in Tasks, GiveUp(t, TRUE) PROVE Goes(t)
<1>1. CASE call[t].op = "upsert row"
  <2> DEFINE c == call[t]
             d == [c EXCEPT !.at = "decide", !.lost = TRUE]
  <2>1. call'[t] = d
    BY <1>1 DEF GiveUp, CallsOK
  <2>2. c \in Calls
    BY DEF CallsOK
  <2> HIDE DEF c
  <2>3. d.lost = TRUE
    BY <2>2 DEF Calls
  <2> HIDE DEF d
  <2>4. QED
    BY <2>1, <2>3 DEF Goes
<1>2. CASE call[t].op # "upsert row"
  <2>1. Fail(t, TRUE)
    BY <1>2, Zenon DEF GiveUp
  <2>2. QED
    BY <2>1, FailGoes
<1>3. QED
  BY <1>1, <1>2

(* A call that moves has no request. *)
LEMMA MovedMet ==
  ASSUME Types, NEW t \in Tasks, CallMove(t)
  PROVE  Met(t)'
<1>1. request'[t].at = "none"
  BY CallMoveIs DEF Forget, Types, RequestTypes, Goroutines, NoRequest
<1>2. QED
  BY <1>1 DEF Met

(* A call that begins holds what it has to. *)
LEMMA BeginGoes ==
  ASSUME CallsOK, NEW t \in Tasks, Met(t)',
         StartRead(t) \/ StartRowCall(t) \/ StartQuery(t) \/ StartAdmin(t)
  PROVE  Goes(t) /\ ~Busy(t)
<1>1. ASSUME NEW op, NEW buckets, NEW step, Begin(t, op, buckets, step),
             step \in {"info", "encode", "coordinator"} \/ (step = "ask" /\ op = "query")
      PROVE  Goes(t) /\ ~Busy(t)
  <2>1. call'[t] = [Idle EXCEPT !.op = op, !.at = step, !.buckets = buckets,
                                !.unrouted = buckets]
    BY <1>1, Dom DEF Begin
  <2>2. call'[t].at = step /\ call'[t].op = op
    BY <2>1 DEF Idle
  <2>3. Held(t)'
    BY <1>1, <2>2 DEF Held
  <2>4. QED
    BY <1>1, <2>2, <2>3 DEF Goes, Begin
<1>2. QED
  BY <1>1 DEF StartRead, StartRowCall, StartQuery, StartAdmin

(* An undisturbed call finds the table's info, unless the request is lost. *)
LEMMA LookGoes ==
  ASSUME Types, CallsOK, NEW t \in Tasks, Encode(t) \/ TakeTableId(t) \/ NoTableInfo(t),
         Steady(t), Met(t)'
  PROVE  Goes(t)
<1> DEFINE c == call[t]
           i == TableInfo(t)
<1>0. c \in Calls /\ CallOK(c) /\ c.at \in {"encode", "info"}
  BY DEF CallsOK, Encode, TakeTableId, NoTableInfo, At
<1>1. Sound(t) /\ Held(t) /\ c.buckets # {}
  BY <1>0 DEF Steady, Busy, CallOK
<1>2. CASE NoTableInfo(t)
  <2>1. ~(Requested(t, "over") /\ request[t].answer.info = NoInfo)
    BY <1>1 DEF Held, Met, Enough, Requested
  <2>2. QED
    BY <1>2, <2>1, FailGoes DEF NoTableInfo
<1>3. CASE Encode(t)
  <2> DEFINE d == [[c EXCEPT !.at = "info", !.info = i] EXCEPT !.lost = FALSE]
  <2>1. call'[t] = d
    BY <1>3, Dom DEF Encode, Move
  <2> HIDE DEF c, i
  <2>2. d.at = "info"
    BY <1>0 DEF Calls
  <2> HIDE DEF d
  <2>3. QED
    BY <2>1, <2>2 DEF Goes, Held
<1>4. CASE TakeTableId(t)
  <2> DEFINE d == [[c EXCEPT !.at = "route", !.id = i.id] EXCEPT !.lost = FALSE]
  <2>1. call'[t] = d /\ c.at = "info"
    BY <1>4, Dom DEF TakeTableId, Move, At
  <2> HIDE DEF c, i
  <2>2. d.at = "route" /\ d.grouped = c.grouped
    BY <1>0 DEF Calls
  <2> HIDE DEF d
  <2>3. c.grouped = Nowhere
    BY <1>0, <2>1 DEF CallOK, TableCallOK
  <2>4. Led(t)'
    BY <2>1, <2>2, <2>3 DEF Led, Nowhere
  <2>5. QED
    BY <2>1, <2>2, <2>4 DEF Goes, Held
<1>5. QED
  BY <1>2, <1>3, <1>4

(* An undisturbed call of the coordinator has one to go to, which refuses  *)
(* or loses it for its own reasons.                                        *)
LEMMA AdminGoes ==
  ASSUME Types, CallsOK, NEW t \in Tasks, Steady(t), Met(t)',
         AcquireCoordinator(t) \/ AdminEnds(t) \/ AdminRefused(t)
  PROVE  Goes(t)
<1> DEFINE c == call[t]
<1>0. c \in Calls /\ CallOK(c) /\ c.at \in {"coordinator", "ask"}
  BY DEF CallsOK, AcquireCoordinator, AdminEnds, AdminRefused, At
<1>1. Sound(t) /\ Held(t) /\ Answers(Address)
  BY <1>0, SoundFacts DEF Steady, Busy
<1>2. CASE AdminEnds(t)
  <2>1. call'[t] = Idle
    BY <1>2, Dom DEF AdminEnds
  <2>2. QED
    BY <2>1 DEF Goes, Held, Idle
<1>3. CASE AdminRefused(t)
  <2>1. c.at = "ask" /\ c.op \in {"query", "admin"}
    BY <1>0, <1>3 DEF AdminRefused, At, CallOK
  <2>2. CASE c.op = "query"
    <3>1. Fail(t, Answers(Address))
      BY <1>3, <2>2 DEF AdminRefused
    <3>2. call'[t] = [Idle EXCEPT !.at = "failed", !.lost = Answers(Address)]
      BY <3>1, Dom DEF Fail
    <3>3. call'[t].lost = Answers(Address)
      BY <3>2 DEF Idle
    <3>4. QED
      BY <1>1, <3>3 DEF Goes
  <2>3. CASE c.op = "admin"
    <3>1. coordinator # None
      BY <1>1, <2>1, <2>3 DEF Held
    <3>2. InOffice(Address)
      BY <1>1, <3>1 DEF Sound, Address
    <3>3. Fail(t, InOffice(Address))
      BY <1>3, <2>3 DEF AdminRefused
    <3>4. call'[t] = [Idle EXCEPT !.at = "failed", !.lost = InOffice(Address)]
      BY <3>3, Dom DEF Fail
    <3>5. call'[t].lost = InOffice(Address)
      BY <3>4 DEF Idle
    <3>6. QED
      BY <3>2, <3>5 DEF Goes
  <2>4. QED
    BY <2>1, <2>2, <2>3
<1>4. CASE AcquireCoordinator(t)
  <2> DEFINE d == [[c EXCEPT !.at = "ask"] EXCEPT !.lost = FALSE]
  <2>1. c.at = "coordinator" /\ coordinator' = coordinator
    BY <1>4 DEF AcquireCoordinator, At, Proceed, cacheVars
  <2>2. CASE Fail(t, TRUE)
    BY <2>2, FailGoes
  <2>3. CASE Move(t, [c EXCEPT !.at = "ask"]) /\ coordinator # None
    <3>1. call'[t] = d
      BY <2>3, Dom DEF Move
    <3> HIDE DEF c
    <3>2. d.at = "ask"
      BY <1>0 DEF Calls
    <3> HIDE DEF d
    <3>3. QED
      BY <2>1, <2>3, <3>1, <3>2 DEF Goes, Held
  <2>4. Requested(t, "over") => coordinator # None
    BY <1>1, <2>1 DEF Held, Met, Requested, At
  <2>5. QED
    BY <1>4, <2>2, <2>3, <2>4 DEF AcquireCoordinator
<1>5. QED
  BY <1>2, <1>3, <1>4

(* routeFor finds what the cache has, or what a refresh that succeeds      *)
(* brings: of a table that is whole it finds the leader.                   *)
LEMMA RouteGoes ==
  ASSUME Types, CallsOK, NEW t \in Tasks, GroupByLeader(t), Steady(t), Met(t)'
  PROVE  Goes(t)
<1> DEFINE c == call[t]
<1>0. c \in Calls /\ CallOK(c) /\ c.at = "route"
  BY DEF CallsOK, GroupByLeader, At
<1>1. Sound(t) /\ Held(t) /\ Led(t) /\ Current' = Current /\ routes' = routes
  BY <1>0 DEF Steady, Busy, Held, GroupByLeader, Proceed, clusterVars, cacheVars, Current
<1>2. c.id = Current /\ AllLed(Buckets) /\ c.buckets # {}
  BY <1>0, <1>1, SoundFacts
<1>3. PICK b \in c.unrouted : RouteFor(t, b)
  BY DEF GroupByLeader
<1>4. b \in c.buckets /\ b \in Buckets /\ leader[b] # None
  BY <1>0, <1>2, <1>3 DEF CallOK, Calls, AllLed
<1>5. routes[Current][b] = leader[b] \/ routes[Current][b] = None
  BY <1>1, <1>4 DEF Sound
<1>6. leader[b] \in Servers
  BY <1>4 DEF Types, ClusterTypes
<1>7. ASSUME Group(t, b, leader[b]), routes[Current][b] = leader[b] PROVE Goes(t)
  <2> DEFINE unrouted == c.unrouted \ {b}
             s == leader[b]
             d == [[c EXCEPT !.at = IF unrouted = {} THEN "send" ELSE "route",
                             !.unrouted = unrouted, !.grouped[s] = @ \cup {b}]
                     EXCEPT !.lost = FALSE]
  <2>1. call'[t] = d
    BY <1>7, Dom DEF Group, Move
  <2>2. ASSUME NEW r \in Servers, NEW x \in c.grouped[r] PROVE routes[Current][x] = r
    BY <1>1, <2>2, LedIs
  <2>3. routes[Current][b] = s /\ s \in Servers
    BY <1>6, <1>7
  <2> HIDE DEF c, s
  <2>4. d.at \in {"send", "route"} /\ d.grouped = [c.grouped EXCEPT ![s] = @ \cup {b}]
    BY <1>0 DEF Calls
  <2>5. c.grouped \in [Servers -> SUBSET Buckets]
    BY <1>0 DEF Calls
  <2> HIDE DEF d
  <2>6. ASSUME NEW r \in Servers, NEW x \in d.grouped[r] PROVE routes[Current][x] = r
    <3>1. d.grouped[r] = IF r = s THEN c.grouped[r] \cup {b} ELSE c.grouped[r]
      BY <2>4, <2>5
    <3>2. CASE x \in c.grouped[r]
      BY <2>2, <3>2
    <3>3. CASE x = b /\ r = s
      BY <2>3, <3>3
    <3>4. QED
      BY <2>6, <3>1, <3>2, <3>3
  <2>7. Led(t)'
    BY <1>1, <2>1, <2>6 DEF Led
  <2>8. QED
    BY <2>1, <2>4, <2>7 DEF Goes, Held
<1>8. CASE routes[Current][b] # None /\ Group(t, b, routes[Current][b])
  BY <1>5, <1>7, <1>8
<1>9. CASE Requested(t, "over") /\ request[t].bucket = b
  <2>1. routes[Current][b] # None
    BY <1>0, <1>1, <1>3, <1>9 DEF Held, Met, Requested, At
  <2>2. RefreshSucceeds(request[t].answer, TRUE, FALSE)
    BY <1>1, <1>2, <1>9 DEF Held, Met, Enough, RefreshSucceeds, TableStored, Whole, Requested
  <2>3. Group(t, b, routes[Current][b])
    BY <1>2, <1>3, <1>9, <2>1, <2>2 DEF RouteFor, Requested
  <2>4. QED
    BY <1>8, <2>1, <2>3
<1>10. CASE GiveUp(t, TRUE)
  BY <1>10, GiveUpGoes
<1>11. QED
  BY <1>2, <1>3, <1>8, <1>9, <1>10 DEF RouteFor, Requested

(* The servers of an undisturbed call lead the buckets of their requests:  *)
(* a request fails only if it is lost or refused.                          *)
LEMMA SendGoes ==
  ASSUME Types, CallsOK, NEW t \in Tasks, Send(t), Steady(t), Met(t)'
  PROVE  Goes(t)
<1> DEFINE c == call[t]
<1>0. c \in Calls /\ CallOK(c) /\ c.at = "send"
  BY DEF CallsOK, Send, At
<1>1. Sound(t) /\ Led(t) /\ Current' = Current /\ routes' = routes
  BY <1>0 DEF Steady, Busy, Held, Send, Proceed, clusterVars, cacheVars, Current
<1>2. c.id = Current /\ exists
  BY <1>0, <1>1, SoundFacts
<1>3. PICK s \in Servers : Request(t, s)
  BY DEF Send
<1>4. AnsweredWithoutError(t, s)
  BY <1>1, <1>2, LedIs DEF AnsweredWithoutError, Serves
<1>5. CASE Answered(t, s, c.grouped[s])
  <2> DEFINE rest == [c.grouped EXCEPT ![s] = {}]
             answered == c.answered \cup c.grouped[s]
             e == [[[c EXCEPT !.answered = answered]
                      EXCEPT !.at = "done", !.unrouted = {}, !.grouped = Nowhere, !.attempt = 0]
                     EXCEPT !.lost = FALSE]
             d == [[c EXCEPT !.grouped = rest, !.answered = answered] EXCEPT !.lost = FALSE]
  <2>1. call'[t] = IF rest = Nowhere THEN e ELSE d
    BY <1>5, Dom DEF Answered, End, Move
  <2>2. ASSUME NEW r \in Servers, NEW x \in c.grouped[r] PROVE routes'[Current][x] = r
    BY <1>1, <2>2, LedIs
  <2>3. \A r \in Servers : rest[r] \subseteq c.grouped[r]
    BY <1>0 DEF Calls
  <2> HIDE DEF c, rest, answered
  <2>4. e.at = "done"
    BY <1>0 DEF Calls
  <2>5. d.at = "send" /\ d.grouped = rest
    BY <1>0 DEF Calls
  <2> HIDE DEF d, e
  <2>6. CASE call'[t] = e
    BY <2>4, <2>6 DEF Goes, Held
  <2>7. CASE call'[t] = d
    <3>1. Led(t)'
      BY <1>1, <2>2, <2>3, <2>5, <2>7 DEF Led
    <3>2. QED
      BY <2>5, <2>7, <3>1 DEF Goes, Held
  <2>8. QED
    BY <2>1, <2>6, <2>7
<1>6. CASE GiveUp(t, TRUE) \/ Fail(t, TRUE)
  BY <1>6, GiveUpGoes, FailGoes
<1>7. AnsweredWithoutError(t, s) = TRUE
  BY <1>4 DEF AnsweredWithoutError
<1>8. QED
  BY <1>3, <1>5, <1>6, <1>7 DEF Request

(* A call that begins is under way. *)
LEMMA BeginBusy ==
  ASSUME CallsOK, NEW t \in Tasks,
         StartRead(t) \/ StartRowCall(t) \/ StartQuery(t) \/ StartAdmin(t)
  PROVE  call'[t].at \notin {"done", "failed"}
<1>1. ASSUME NEW op, NEW buckets, NEW step, Begin(t, op, buckets, step),
             step \in {"info", "encode", "coordinator", "ask"}
      PROVE  call'[t].at \notin {"done", "failed"}
  <2>1. call'[t] = [Idle EXCEPT !.op = op, !.at = step, !.buckets = buckets,
                                !.unrouted = buckets]
    BY <1>1, Dom DEF Begin
  <2>2. QED
    BY <1>1, <2>1 DEF Idle
<1>2. CASE StartRead(t)
  BY <1>1, <1>2 DEF StartRead
<1>3. CASE StartRowCall(t)
  BY <1>1, <1>3 DEF StartRowCall
<1>4. CASE StartQuery(t) \/ StartAdmin(t)
  BY <1>1, <1>4 DEF StartQuery, StartAdmin
<1>5. QED
  BY <1>2, <1>3, <1>4

(* The call that moves, in full. *)
LEMMA MoveGoes ==
  ASSUME Types, CallsOK, NEW t \in Tasks, CallMove(t)
  PROVE  (Steady(t) => Goes(t)) /\ (Busy(t) \/ Busy(t)')
<1>1. Met(t)'
  BY MovedMet
<1>2. CASE StartRead(t) \/ StartRowCall(t) \/ StartQuery(t) \/ StartAdmin(t)
  <2>1. Goes(t) /\ ~Busy(t)
    BY <1>1, <1>2, BeginGoes
  <2>2. Busy(t)'
    BY <1>2, BeginBusy DEF Busy
  <2>3. QED
    BY <2>1, <2>2
<1>3. CASE ~(StartRead(t) \/ StartRowCall(t) \/ StartQuery(t) \/ StartAdmin(t))
  <2>1. \/ Encode(t) \/ TakeTableId(t) \/ NoTableInfo(t)
        \/ GroupByLeader(t) \/ Send(t) \/ Retry(t) \/ NoMoreAttempts(t)
        \/ AcquireCoordinator(t) \/ AdminEnds(t) \/ AdminRefused(t)
    BY <1>3 DEF CallMove, TableMove, AdminMove
  <2>2. Busy(t)
    BY <2>1 DEF Encode, TakeTableId, NoTableInfo, GroupByLeader, Send, Retry,
                NoMoreAttempts, AcquireCoordinator, AdminEnds, AdminRefused, At, Busy
  <2>3. Retry(t) \/ NoMoreAttempts(t) => ~Held(t)
    BY DEF Retry, NoMoreAttempts, At, Held
  <2>4. QED
    BY <1>1, <2>1, <2>2, <2>3, LookGoes, AdminGoes, RouteGoes, SendGoes DEF Steady
<1>4. QED
  BY <1>2, <1>3

(* Each step keeps AccountInv. *)
LEMMA AccountKept ==
  ASSUME Types, CallsOK, AccountInv, [Next]_vars PROVE AccountInv'
<1>1. EnvStep /\ Types'
  BY EnvSteps, CallsKept
<1>2. CASE UNCHANGED vars
  BY <1>2 DEF vars, clusterVars, cacheVars, AccountInv, Steady, Busy, At, Sound, Held, Led,
              Met, Enough, NoInfo, InOffice, AllLed, Current
<1>3. ASSUME NEW t \in Tasks, call'[t] = call[t], request'[t] = request[t], Observe
      PROVE  /\ At(t, "failed")' => t \in disturbed'
             /\ t \notin disturbed' => Steady(t)'
  BY <1>1, <1>3, OtherMet, StillAccounted
<1>4. CASE ClusterMove
  BY <1>3, <1>4 DEF ClusterMove, AccountInv
<1>5. ASSUME NEW t \in Tasks, CallMove(t) PROVE AccountInv'
  <2>1. Observe
    BY <1>5, CallMoveIs
  <2>2. /\ At(t, "failed")' => t \in disturbed'
        /\ t \notin disturbed' => Steady(t)'
    BY <1>5, <2>1, MoveGoes, MovedAccounted
  <2>3. QED
    BY <1>1, <1>3, <1>5, <2>1, <2>2, CallAlone DEF AccountInv
<1>6. ASSUME NEW g \in Goroutines, RequestMove(g) PROVE AccountInv'
  <2>1. UNCHANGED call /\ Observe
    BY <1>6, RequestMoveIs
  <2>2. ASSUME g \in Tasks
        PROVE  /\ At(g, "failed")' => g \in disturbed'
               /\ g \notin disturbed' => Steady(g)'
    BY <1>1, <1>6, <2>1, <2>2, RequestMet, StillAccounted
  <2>3. QED
    BY <1>3, <1>6, <2>1, <2>2, RequestAlone DEF AccountInv
<1>7. QED
  BY <1>2, <1>4, <1>5, <1>6, NextSteps

(* client/client.go, table.go, row.go and admin.go: a call fails only if a *)
(* request of it was lost or refused, or if what it rests on was stale or  *)
(* missing while it ran, be it that an older answer was stored late; and a *)
(* read that returns has the answer of every bucket.                       *)
THEOREM SpecCallsAccountedFor == Spec => []CallsAccountedFor
<1>1. Init => AccountInv
  <2> SUFFICES ASSUME Init, NEW t \in Tasks
               PROVE  /\ At(t, "failed") => t \in disturbed
                      /\ t \notin disturbed => Steady(t)
    BY DEF AccountInv
  <2>1. call[t].at = "done"
    BY DEF Init, Idle
  <2>2. QED
    BY <2>1 DEF At, Steady, Busy
<1>2. CallsOK /\ AccountInv => CallsAccountedFor
  BY DEF CallsOK, CallOK, TableCallOK, AccountInv, CallsAccountedFor, At
<1>3. QED
  BY <1>1, <1>2, AccountKept, SpecCalls, PTL DEF Spec

===============================================================================
