----------------------------- MODULE WritePipeline -----------------------------
(***************************************************************************)
(* A buffered writer (client/writer.go) on top of the write calls it makes *)
(* (WriteRetry), down to the logs of the buckets: what becomes of accepted *)
(* batches when flushes fail in part, buckets change their leader, cached  *)
(* routes go stale and answers are lost.                                   *)
(*                                                                         *)
(* The writer is reduced to its buffer and its flushes, one at a time, as  *)
(* BufferedWriter shows them to be; the metadata cache to the routes, which*)
(* a refresh replaces at once.  A request is served when it is sent or not *)
(* at all, only by the leader of a bucket, and whoever is not the leader   *)
(* answers ErrLeaderNotAvailable.                                          *)
(***************************************************************************)
EXTENDS WriteRetry, SequencesExt

CONSTANTS
  None,             \* no server
  ElectionBound,    \* bounds of the instance: elections while there is a
  FailureBound      \* leader, and failures other than a missing one

ASSUME PipelineAssumption ==
  /\ Batches \subseteq Nat /\ None \notin Servers
  /\ ElectionBound \in Nat /\ FailureBound \in Nat

VARIABLES
  buffer,           \* the writer's pending
  flight,           \* what the flush under way took out of it
  accepted,         \* history: batches accepted, numbered in that order
  reported,         \* history: batches whose Flush returned no error
  hidden,           \* history: those that found no leader in a disturbed flush
  leader,           \* the cluster: each bucket's leader
  elections,        \* elections so far
  log,              \* the cluster: the batches stored in each bucket
  routes,           \* Cache.routes
  failures,         \* failures so far
  disturbed,        \* history: since the last flush began there was a failure,
                    \* an election or a bucket without a leader
  torn              \* history: buckets of which one attempt sent batches to
                    \* two addresses

writerVars == <<buffer, flight, accepted, reported, hidden>>
clusterVars == <<leader, elections>>
faultVars == <<failures, disturbed>>
vars == <<retryVars, writerVars, clusterVars, log, routes, faultVars, torn>>

(* Batches of the call, in the order they have in it. *)
InOrder(batches) ==
  LET upTo[n \in 0 .. Len(flight)] ==
        IF n = 0 THEN <<>>
        ELSE IF flight[n] \in batches THEN Append(upTo[n - 1], flight[n]) ELSE upTo[n - 1]
  IN  upTo[Len(flight)]

AllLed == \A b \in Buckets : leader[b] # None

PipelineInit ==
  /\ Init
  /\ buffer = <<>> /\ flight = <<>> /\ accepted = 0 /\ reported = {} /\ hidden = {}
  /\ leader \in [Buckets -> Servers] /\ elections = 0
  /\ log = [b \in Buckets |-> <<>>]
  /\ routes = [b \in Buckets |-> None]
  /\ failures = 0 /\ disturbed = FALSE /\ torn = {}

-------------------------------------------------------------------------------
(* The writer *)

Accept ==
  /\ accepted + 1 \in Batches
  /\ accepted' = accepted + 1
  /\ buffer' = Append(buffer, accepted + 1)
  /\ UNCHANGED <<retryVars, flight, reported, hidden, clusterVars, log, routes,
                 faultVars, torn>>

(* beginFlush: the whole buffer goes into one call. *)
BeginFlush ==
  /\ call = {} /\ buffer # <<>>
  /\ StartCall(ToSet(buffer))
  /\ flight' = buffer /\ buffer' = <<>> /\ disturbed' = ~AllLed
  /\ UNCHANGED <<accepted, reported, hidden, clusterVars, log, routes, failures,
                 torn>>

(* Faulty variant of restorePending: behind what was accepted meanwhile. *)
RestoreBehind == buffer' = buffer \o flight

(* All of the call comes back, what was acknowledged too. *)
Restore == buffer' = flight \o buffer

(* Faulty variant: a flush that failed stays in flight. *)
EndFlushUnlessFailed ==
  /\ step = "return" /\ call # {} /\ returned.error = "nil"
  /\ reported' = reported \cup call
  /\ flight' = <<>> /\ call' = {} /\ pending' = {} /\ unrouted' = {} /\ grouped' = Nowhere
  /\ UNCHANGED <<step, attempt, out, err, allResults, returned, stored, resent,
                 buffer, accepted, hidden, clusterVars, log, routes, faultVars, torn>>

(* The call returns to Flush: finishFlush, or restorePending. *)
EndFlush ==
  /\ step = "return" /\ call # {}
  /\ IF returned.error = "nil"
       THEN /\ reported' = reported \cup call
            /\ hidden' = IF disturbed
                         THEN hidden \cup {x \in pending : out[x] = "leaderless"}
                         ELSE hidden
            /\ UNCHANGED buffer
       ELSE Restore /\ UNCHANGED <<reported, hidden>>
  /\ flight' = <<>> /\ call' = {} /\ pending' = {} /\ unrouted' = {} /\ grouped' = Nowhere
  /\ UNCHANGED <<step, attempt, out, err, allResults, returned, stored, resent,
                 accepted, clusterVars, log, routes, faultVars, torn>>

-------------------------------------------------------------------------------
(* The metadata *)

Fails == failures < FailureBound /\ failures' = failures + 1 /\ disturbed' = TRUE

(* RefreshMetadata: a bucket without a leader fails it.  Faulty variant:   *)
(* a route that is cached stays.                                           *)
RefreshedOnce ==
  /\ AllLed /\ UNCHANGED faultVars
  /\ routes' = [b \in Buckets |-> IF routes[b] = None THEN leader[b] ELSE routes[b]]

Refreshed == AllLed /\ routes' = leader /\ UNCHANGED faultVars

NotRefreshed == UNCHANGED routes /\ (Fails \/ (~AllLed /\ UNCHANGED faultVars))

(* Other calls refresh as well. *)
RefreshByOther ==
  /\ AllLed /\ routes' = leader /\ routes # leader
  /\ UNCHANGED <<retryVars, writerVars, clusterVars, log, faultVars, torn>>

-------------------------------------------------------------------------------
(* The call *)

NoInfo == NoTableInfo /\ Fails /\ UNCHANGED <<log, routes>>

Route(x) ==
  LET b == BucketOf[x] IN
  /\ UNCHANGED log
  /\ \/ routes[b] # None /\ RouteFound(x, routes[b]) /\ UNCHANGED <<routes, faultVars>>
     \/ routes[b] = None /\ Refreshed /\ RouteFound(x, leader[b])
     \/ routes[b] = None /\ NotRefreshed /\ RouteMissing(x)
  /\ torn' = IF \E y \in call, t, u \in Servers :
                   t # u /\ BucketOf[y] = b /\ x \in grouped'[t] /\ y \in grouped'[u]
               THEN torn \cup {b} ELSE torn

(* What the call stores reaches the logs in the order of the request. *)
Appended ==
  log' = [b \in Buckets |->
            log[b] \o InOrder({x \in Batches : BucketOf[x] = b /\ stored'[x] > stored[x]})]

Led(s) == {x \in grouped[s] : leader[BucketOf[x]] = s}

ServerAnswers(s) ==
  /\ \E refused \in SUBSET Led(s), kept \in SUBSET Led(s) :
       /\ Answered(s, [x \in grouped[s] |->
                         IF x \notin Led(s) THEN "leaderless"
                         ELSE IF x \in refused THEN "refused" ELSE "ok"], kept)
       /\ IF refused = {} THEN UNCHANGED faultVars ELSE Fails
  /\ Appended
  /\ UNCHANGED routes

ServerFails(s) ==
  /\ Fails
  /\ \E kept \in SUBSET Led(s) : RequestFails(s, kept)
  /\ Appended
  /\ UNCHANGED routes

(* RefreshMetadata comes before every second attempt, and also before a    *)
(* return that names the refused buckets beside the leaderless ones.       *)
Decide ==
  /\ UNCHANGED log
  /\ \/ Succeed /\ UNCHANGED <<routes, faultVars>>
     \/ /\ ReturnError
        /\ IF err = "route" /\ attempt = 0 THEN NotRefreshed
           ELSE UNCHANGED <<routes, faultVars>>
     \/ RetryAll /\ Refreshed
     \/ /\ ReturnTerminal
        /\ IF Retryable = {} \/ attempt = 1 THEN UNCHANGED <<routes, faultVars>>
           ELSE NotRefreshed \/ (Terminal # {} /\ Refreshed)
     \/ RetryLeaderless /\ Refreshed

CallStep ==
  /\ \/ UNCHANGED torn /\ (NoInfo \/ Decide)
     \/ AttemptEnds /\ UNCHANGED <<log, routes, faultVars, torn>>
     \/ \E x \in Batches : Route(x)
     \/ UNCHANGED torn /\ \E s \in Servers : ServerAnswers(s) \/ ServerFails(s)
  /\ UNCHANGED <<writerVars, clusterVars>>

-------------------------------------------------------------------------------
(* The cluster *)

Elect(b) ==
  /\ elections < ElectionBound
  /\ \E s \in Servers \cup {None} : s # leader[b] /\ leader' = [leader EXCEPT ![b] = s]
  /\ elections' = elections + 1 /\ disturbed' = TRUE
  /\ UNCHANGED <<retryVars, writerVars, log, routes, failures, torn>>

(* A bucket does not stay without a leader. *)
Recover(b) ==
  /\ leader[b] = None
  /\ \E s \in Servers : leader' = [leader EXCEPT ![b] = s]
  /\ UNCHANGED <<retryVars, writerVars, elections, log, routes, faultVars, torn>>

-------------------------------------------------------------------------------
PipelineNext ==
  \/ Accept \/ BeginFlush \/ EndFlush \/ CallStep \/ RefreshByOther
  \/ \E b \in Buckets : Elect(b) \/ Recover(b)

Spec == PipelineInit /\ [][PipelineNext]_vars

(* A lingering writer flushes while it has batches, calls go on, and       *)
(* buckets get a leader.                                                   *)
FairSpec ==
  /\ Spec
  /\ WF_vars(BeginFlush) /\ WF_vars(EndFlush) /\ WF_vars(CallStep)
  /\ \A b \in Buckets : WF_vars(Recover(b))

-------------------------------------------------------------------------------
(* Safety *)

Stored(x) == Contains(log[BucketOf[x]], x)

(* No accepted batch is lost: the writer holds it, or it is stored, or it  *)
(* was dropped because the last answer for it, that its bucket has no      *)
(* leader, was returned as success.  That takes an election, a failure or  *)
(* a missing leader during the flush: a stale route alone loses nothing.   *)
NothingElseLost ==
  \A x \in 1 .. accepted :
    Contains(buffer, x) \/ x \in call \/ Stored(x) \/ x \in hidden

(* Whatever was resent, the last copies of a bucket's batches are in the   *)
(* order they were accepted in, once they are reported: a table ends up    *)
(* with the last value written.  Batches may be seen out of order before;  *)
(* and for good if the leader changes while an attempt looks up the routes *)
(* of the bucket's batches, and back while it sends them.                  *)
LastIndex(x) == SelectLastInSeq(log[BucketOf[x]], LAMBDA y : y = x)

LastWriteWins ==
  \A x, y \in reported \ hidden :
    x < y /\ BucketOf[x] = BucketOf[y] /\ BucketOf[x] \notin torn
      => LastIndex(x) < LastIndex(y)

(* A failure of a server costs at most one more copy of a batch, though a  *)
(* flush that failed sends again what other buckets acknowledged; a change *)
(* of leader costs one only of batches that share their bucket.            *)
Copies(x) == Cardinality({i \in DOMAIN log[BucketOf[x]] : log[BucketOf[x]][i] = x})

Shared(x) == \E y \in Batches \ {x} : BucketOf[y] = BucketOf[x]

CopiesNeedFailures ==
  \A x \in Batches :
    Copies(x) <= 1 + failures + (IF Shared(x) THEN elections ELSE 0)

-------------------------------------------------------------------------------
(* Liveness *)

(* Stale routes heal and failures pass: every accepted batch is stored, or *)
(* dropped like NothingElseLost says.                                      *)
AcceptedIsStored ==
  \A x \in Batches : x <= accepted ~> (Stored(x) \/ x \in hidden)

-------------------------------------------------------------------------------
(* What the documentation promises and the code does not keep *)

(* GRAND_PLAN.md:68 "mixed per-bucket outcomes now preserve successful     *)
(* bucket results, return structured `PartialWriteError` failures": what a *)
(* Flush without an error covered is stored.                               *)
ReportedIsStored == \A x \in reported : Stored(x)
===============================================================================
